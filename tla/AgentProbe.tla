------------------------------- MODULE AgentProbe -------------------------------
(***************************************************************************)
(* StepConnectAgent: probing until the agent of the VM is ready, as far as *)
(* it hangs on what the answer to a probe says.  An answer that is not 2xx *)
(* becomes an APIError (parseAPIErrorResponse, and in the same way doJSON),*)
(* whose status classifyProbeError reads.  The server says how things      *)
(* stand when it answers; that may have changed when the answer arrives.   *)
(*                                                                         *)
(* BuildRun has a probe end in one of three ways; this is how it comes to  *)
(* which.                                                                  *)
(***************************************************************************)
EXTENDS Integers

Code == {302, 401, 403, 404, 409, 422, 500, 503}

(* How it stands with the agent, and what the server answers a probe then. *)
CodesOf ==
  [ starting |-> {409}, ready |-> {200}, disabled |-> {403}, unauthorized |-> {401},
    gone |-> {404}, unfit |-> {422} ]

Condition == DOMAIN CodesOf
Hopeless  == {"disabled", "unauthorized", "gone", "unfit"}

(* The body of an error: empty, plain text, or a problem whose "status" is *)
(* 0 where it has none.                                                    *)
Body == [kind : {"empty", "text", "problem"}, status : Code \cup {0}]

CONSTANTS
  Gateway,    \* codes a gateway before the server answers with by itself
  Bodies      \* the bodies that may come with a code

ASSUME AnswersAssumption ==
  /\ Gateway \subseteq {302, 500, 503}
  /\ Bodies \in [Code -> SUBSET Body]

VARIABLES
  agent,      \* server: how it stands with the agent
  cancelled,  \* the build context is done
  phase,      \* "probe" (a call is out), "wait" (in the select), "connected", "halted"
  code,       \* HTTP status of the answer that is on its way (or, once the
              \* step has halted, of the one it halted over), or 0
  body,       \* its body
  why,        \* why the step halts: "", "fatal", "deadline", "cancelled"
  stood       \* history: how it stood with the agent when the server last answered

vars == <<agent, cancelled, phase, code, body, why, stood>>

NoBody == [kind |-> "empty", status |-> 0]

Init ==
  /\ agent \in Condition
  /\ cancelled = FALSE
  /\ phase = "probe"
  /\ code = 0 /\ body = NoBody
  /\ why = ""
  /\ stood = "starting"

Ended == phase \in {"connected", "halted"}

-----------------------------------------------------------------------------
(***************************************************************************)
(* The server, a gateway before it, and the user.                          *)
(***************************************************************************)
\* Agents come up, and go down again; an entitlement can be withdrawn.
AgentChanges ==
  /\ ~Ended /\ agent \notin Hopeless
  /\ agent' \in Condition \ {agent}
  /\ UNCHANGED <<cancelled, phase, code, body, why, stood>>

Answers(c) ==
  /\ phase = "probe" /\ code = 0
  /\ code' = c
  /\ IF c = 200 THEN body' = NoBody ELSE body' \in Bodies[c]
  /\ UNCHANGED <<agent, cancelled, phase, why>>

ServerAnswers == (\E c \in CodesOf[agent] : Answers(c)) /\ stood' = agent

GatewayAnswers == (\E c \in Gateway : Answers(c)) /\ UNCHANGED stood

Cancel ==
  /\ ~cancelled /\ ~Ended
  /\ cancelled' = TRUE
  /\ UNCHANGED <<agent, phase, code, body, why, stood>>

-----------------------------------------------------------------------------
(***************************************************************************)
(* The client.                                                             *)
(***************************************************************************)
\* APIError.Status: that of the body, unless it has none.
ErrorStatus == IF body.kind = "problem" /\ body.status # 0 THEN body.status ELSE code

\* Mutant: a server that is not ready yet is a client error like any other.
FatalAll4xx(s) == s \in 400..499

\* Mutant: a missing entitlement is waited for.
FatalBut403(s) == s \in 400..499 \ {403, 409}

\* classifyProbeError
Fatal(s) == s \in 400..499 \ {409}

Halts(reason) ==
  /\ phase' = "halted" /\ why' = reason
  /\ UNCHANGED <<agent, cancelled, code, body, stood>>

\* Mutant: the last error stays and is looked at again.
KeepsPollingStale ==
  /\ phase' = "wait"
  /\ UNCHANGED <<agent, cancelled, code, body, why, stood>>

\* The probe is over and was not the last.
KeepsPolling ==
  /\ phase' = "wait" /\ code' = 0 /\ body' = NoBody
  /\ UNCHANGED <<agent, cancelled, why, stood>>

\* Mutant: any answer will do.
ProbeSucceedsAnyhow ==
  /\ phase = "probe" /\ code # 0
  /\ phase' = "connected" /\ code' = 0 /\ body' = NoBody
  /\ UNCHANGED <<agent, cancelled, why, stood>>

\* The exit code of the probe is of no interest.
ProbeSucceeds ==
  /\ phase = "probe" /\ code = 200
  /\ phase' = "connected" /\ code' = 0
  /\ UNCHANGED <<agent, cancelled, body, why, stood>>

ProbeRefused ==
  /\ phase = "probe" /\ code \in Code
  /\ IF Fatal(ErrorStatus) THEN Halts("fatal") ELSE KeepsPolling

\* A transport error, a stream without an exit frame or with an error in it.
ProbeBreaks == phase = "probe" /\ KeepsPolling

\* Mutant: the probe does not take the context of the build.
TickWithoutCtx ==
  /\ phase = "wait"
  /\ phase' = "probe"
  /\ UNCHANGED <<agent, cancelled, code, body, why, stood>>

\* On a done context the request ends before it is sent: a tick taken then
\* changes nothing.
Tick ==
  /\ phase = "wait" /\ ~cancelled
  /\ phase' = "probe"
  /\ UNCHANGED <<agent, cancelled, code, body, why, stood>>

Deadline == phase = "wait" /\ Halts("deadline")

Cancelled == phase = "wait" /\ cancelled /\ Halts("cancelled")

-----------------------------------------------------------------------------
Next ==
  \/ AgentChanges \/ ServerAnswers \/ GatewayAnswers \/ Cancel
  \/ ProbeSucceeds \/ ProbeRefused \/ ProbeBreaks
  \/ Tick \/ Deadline \/ Cancelled

Spec == Init /\ [][Next]_vars

(* The client goes on: of a select's ready cases each is picked in the     *)
(* end.  A probe that goes out again and again is answered by the server,  *)
(* and the answer arrives, in the end.  Nothing is said of the deadline.   *)
ProbeEnds     == ProbeSucceeds \/ ProbeRefused \/ ProbeBreaks
AnswerArrives == code \notin Gateway /\ (ProbeSucceeds \/ ProbeRefused)

PatientSpec ==
  /\ Spec
  /\ WF_vars(Tick) /\ WF_vars(Cancelled) /\ WF_vars(code # 0 /\ ProbeEnds)
  /\ SF_vars(ServerAnswers) /\ SF_vars(AnswerArrives)

-----------------------------------------------------------------------------
(***************************************************************************)
(* Properties.                                                             *)
(***************************************************************************)
(* The type invariant. *)
TypeOK ==
  /\ agent \in Condition /\ stood \in Condition
  /\ cancelled \in BOOLEAN
  /\ phase \in {"probe", "wait", "connected", "halted"}
  /\ code \in Code \cup {0, 200} /\ body \in Body
  /\ code # 0 => phase = "probe" \/ why = "fatal"
  /\ why \in {"", "fatal", "deadline", "cancelled"} /\ (why # "" <=> phase = "halted")

(* README.md:262-264, step_connect_agent.go:100-103: the build is given up *)
(* before state_timeout only if the server has said, in its latest answer  *)
(* to a probe, that there is no hope - not for a gateway or a connection   *)
(* that fails, nor for an agent that comes and goes - or if the body of an *)
(* answer claims a status other than the one it came with, which           *)
(* parseAPIErrorResponse believes.  And provisioners start only on a VM    *)
(* whose agent has just run a command.                                     *)
ConcludesRightly ==
  /\ why = "fatal" => stood \in Hopeless \/ ErrorStatus # code
  /\ phase = "connected" => stood = "ready"

(* README.md:254-257: without the entitlement "the build fails fast", and  *)
(* not with the deadline: an agent that stays ready, or is beyond hope,    *)
(* does not keep the step polling until then, if no body contradicts the   *)
(* status it comes with.                                                   *)
SettledEnds ==
  /\ [](ErrorStatus = code)
  /\ <>[](agent \in Hopeless) \/ <>[](agent = "ready")
  => <>Ended

=============================================================================
