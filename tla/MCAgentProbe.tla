----------------------------- MODULE MCAgentProbe -----------------------------
(***************************************************************************)
(* Configurations of AgentProbe for TLC: bodies that agree with their      *)
(* code, say nothing of it, or say anything else; and one build that comes *)
(* to the step.                                                            *)
(***************************************************************************)
EXTENDS ConnectStep

MCGateway == {302, 500, 503}

Problem(s) == [kind |-> "problem", status |-> s]

MCBodies ==
  [ c \in Code |-> {NoBody, [kind |-> "text", status |-> 0], Problem(0)}
                   \cup {Problem(s) : s \in Code} ]

MCConfig ==
  [ region |-> "id", pull |-> TRUE, comm |-> "agent", keyIds |-> FALSE,
    authKey |-> FALSE, keyFile |-> FALSE, adminUser |-> FALSE, sshUser |-> FALSE,
    user |-> "server", eip |-> FALSE, push |-> FALSE, keep |-> FALSE ]

MCHanded == {"vm_image", "created_image", "instance_id"}

MCHeld ==
  [ image |-> "live", key |-> "absent", instance |-> "live", eip |-> "absent" ]

=============================================================================
