---------------------------- MODULE RemoteCommand ----------------------------
(***************************************************************************)
(* What a communicator promises a provisioner of one remote command.       *)
(*                                                                         *)
(* The command writes chunks to its two streams and ends with a code.  The *)
(* provisioner gets the chunks of the streams it listens to, in the order  *)
(* they were written and without a gap, then one exit status, and nothing  *)
(* after that.  The status is the code of a command that has ended, or 1;  *)
(* it is 0 only for a command that ended well and was heard in full.       *)
(***************************************************************************)
EXTENDS Integers, Sequences

CONSTANT Commands     \* records: chunks, code, error, writers

VARIABLES
  cmd,        \* the command
  wrote,      \* how many chunks it has written
  ended,      \* it has ended
  delivered,  \* the numbers of the chunks the provisioner has got
  reported,   \* the provisioner has an exit status
  status      \* which one

vars == <<cmd, wrote, ended, delivered, reported, status>>

\* The chunks the provisioner wants to see.
Wanted(c) == {i \in 1..Len(c.chunks) : c.chunks[i] \in c.writers}

Init ==
  /\ cmd \in Commands
  /\ wrote = 0 /\ ended = FALSE
  /\ delivered = {}
  /\ reported = FALSE /\ status = 0

Write ==
  /\ ~ended /\ wrote < Len(cmd.chunks)
  /\ wrote' = wrote + 1
  /\ UNCHANGED <<cmd, ended, delivered, reported, status>>

End ==
  /\ ~ended /\ wrote = Len(cmd.chunks)
  /\ ended' = TRUE
  /\ UNCHANGED <<cmd, wrote, delivered, reported, status>>

Deliver ==
  /\ ~reported
  /\ \E i \in Wanted(cmd) \ delivered :
        /\ i <= wrote
        /\ \A j \in Wanted(cmd) : j < i => j \in delivered
        /\ delivered' = delivered \cup {i}
  /\ UNCHANGED <<cmd, wrote, ended, reported, status>>

Report(c) ==
  /\ ~reported
  /\ c = 1 \/ (ended /\ c = cmd.code)
  /\ c = 0 => ~cmd.error /\ delivered = Wanted(cmd)
  /\ reported' = TRUE /\ status' = c
  /\ UNCHANGED <<cmd, wrote, ended, delivered>>

Next ==
  \/ Write
  \/ End
  \/ Deliver
  \/ \E c \in {1, cmd.code} : Report(c)

Spec == Init /\ [][Next]_vars

=============================================================================
