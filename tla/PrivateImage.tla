----------------------------- MODULE PrivateImage -----------------------------
(***************************************************************************)
(* What a build may take for granted of the image it registers, as if no   *)
(* other build had ever heard of its name.                                 *)
(*                                                                         *)
(* There is one image at most, and it comes once: when the build registers *)
(* it, or later than that, if the build has given the call up - then it    *)
(* never learns of it.  While the build is at work the image it knows of   *)
(* stays, and what the build boots is that image.  The image goes when the *)
(* build has it deleted, which it does in its teardown, and not at all if  *)
(* it was told to keep it; the deletion may be late.  It never comes back. *)
(***************************************************************************)
VARIABLES
  keep,       \* the image is not to be deleted
  stage,      \* "building", "teardown" or "returned"
  image,      \* "absent", "live" or "gone"
  known,      \* the build has been told of its image
  vm          \* "none", or "own": made from that image

vars == <<keep, stage, image, known, vm>>

Init ==
  /\ keep \in BOOLEAN
  /\ stage = "building"
  /\ image = "absent" /\ known = FALSE
  /\ vm = "none"

Register ==
  /\ stage = "building" /\ image = "absent"
  /\ image' = "live" /\ known' = TRUE
  /\ UNCHANGED <<keep, stage, vm>>

AppearLate ==
  /\ stage # "building" /\ image = "absent" /\ ~known
  /\ image' = "live"
  /\ UNCHANGED <<keep, stage, known, vm>>

Boot ==
  /\ stage = "building" /\ image = "live" /\ known
  /\ vm' = "own"
  /\ UNCHANGED <<keep, stage, image, known>>

BeginTeardown ==
  /\ stage = "building"
  /\ stage' = "teardown"
  /\ UNCHANGED <<keep, image, known, vm>>

DropVM ==
  /\ stage = "teardown" /\ ~keep
  /\ vm' = "none"
  /\ UNCHANGED <<keep, stage, image, known>>

Delete ==
  /\ stage \in {"teardown", "returned"} /\ ~keep
  /\ image = "live" /\ known
  /\ image' = "gone" /\ stage' = "returned"
  /\ UNCHANGED <<keep, known, vm>>

Return ==
  /\ stage = "teardown"
  /\ stage' = "returned"
  /\ UNCHANGED <<keep, image, known, vm>>

Next ==
  Register \/ AppearLate \/ Boot \/ BeginTeardown \/ DropVM \/ Delete \/ Return

Spec == Init /\ [][Next]_vars

=============================================================================
