---------------------------- MODULE ResourceLease ----------------------------
(***************************************************************************)
(* What a build promises the tenant it runs in, whatever its steps are.    *)
(*                                                                         *)
(* A build leases resources: it acquires them while it is building, and    *)
(* once it tears down it only gives them back, each at most once, and none *)
(* at all when it was told to keep them.  It never deletes what it did not *)
(* create, and it returns an artifact only if it got hold of Host, the VM. *)
(* The server adds the Attached resources to Host, and takes them away     *)
(* with it, when it sees fit.                                              *)
(***************************************************************************)
CONSTANTS
  Own,        \* what the build creates itself
  Attached,   \* what the server attaches to Host
  Host        \* a member of Own

VARIABLES
  keep,       \* the lease is not to be given back
  stage,      \* "building", "teardown" or "returned"
  held,       \* resources of this build that exist
  gone,       \* resources of this build that existed
  asked,      \* resources whose deletion was requested
  outcome     \* "none", "error" or "artifact"

vars == <<keep, stage, held, gone, asked, outcome>>

Init ==
  /\ keep \in BOOLEAN
  /\ stage = "building"
  /\ held = {} /\ gone = {} /\ asked = {}
  /\ outcome = "none"

\* The build may have to give up in the very step that created r.
Acquire(r) ==
  /\ stage = "building" /\ r \notin held \cup gone
  /\ stage' \in {"building", "teardown"}
  /\ held' = held \cup {r}
  /\ UNCHANGED <<keep, gone, asked, outcome>>

Attach(r) ==
  /\ Host \in held /\ r \notin held \cup gone
  /\ held' = held \cup {r}
  /\ UNCHANGED <<keep, stage, gone, asked, outcome>>

BeginTeardown ==
  /\ stage = "building"
  /\ stage' = "teardown"
  /\ UNCHANGED <<keep, held, gone, asked, outcome>>

\* The deletion may fail, and that of Host may free what is attached to it.
GiveBack(r) ==
  /\ stage = "teardown" /\ ~keep
  /\ r \in held \cup gone /\ r \notin asked
  /\ asked' = asked \cup {r}
  /\ \E freed \in SUBSET ({r} \cup (IF r = Host THEN Attached ELSE {})) :
        held' = held \ freed /\ gone' = gone \cup (held \cap freed)
  /\ UNCHANGED <<keep, stage, outcome>>

Return ==
  /\ stage = "teardown"
  /\ stage' = "returned"
  /\ outcome' \in {"error"} \cup (IF Host \in held \cup gone THEN {"artifact"} ELSE {})
  /\ UNCHANGED <<keep, held, gone, asked>>

Next ==
  \/ \E r \in Own : Acquire(r)
  \/ \E r \in Attached : Attach(r)
  \/ \E r \in Own \cup Attached : GiveBack(r)
  \/ BeginTeardown
  \/ Return

Spec == Init /\ [][Next]_vars

=============================================================================
