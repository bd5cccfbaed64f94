----------------------------- MODULE MCExecStream -----------------------------
(***************************************************************************)
(* Configurations of ExecStream for TLC.                                   *)
(***************************************************************************)
EXTENDS ExecStream

Outputs == { << >>, <<"stderr">>, <<"stdout", "stderr", "stdout">> }

(* Codes on both sides of what Start coerces, with and without an error of *)
(* the agent, and every choice of nil writers.                             *)
MCCommands ==
  [chunks: Outputs, code: {-1, 0, 1, 7}, error: BOOLEAN, writers: SUBSET Streams]

=============================================================================
