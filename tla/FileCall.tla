-------------------------------- MODULE FileCall --------------------------------
(***************************************************************************)
(* What one file transfer promises its caller, as UploadDir and Packer's   *)
(* file provisioner rely on it: it returns once, without an error only if  *)
(* the whole file is where it was to go; a transfer that returned an error *)
(* may have been performed all the same, or may yet be.                    *)
(***************************************************************************)
VARIABLES
  stage,      \* "out" or "returned"
  whole,      \* the whole file is at its destination
  failed      \* the caller got an error

vars == <<stage, whole, failed>>

Init == stage = "out" /\ whole = FALSE /\ failed = FALSE

Perform ==
  /\ ~whole /\ (stage = "returned" => failed)
  /\ whole' = TRUE
  /\ UNCHANGED <<stage, failed>>

Return ==
  /\ stage = "out"
  /\ stage' = "returned"
  /\ failed' \in BOOLEAN /\ (~failed' => whole)
  /\ UNCHANGED whole

Next == Perform \/ Return

Spec == Init /\ [][Next]_vars

=============================================================================
