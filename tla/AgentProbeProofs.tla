---------------------------- MODULE AgentProbeProofs ----------------------------
(***************************************************************************)
(* Theorems about AgentProbe, for every set of gateway codes and every     *)
(* choice of the bodies that come with them, and about its place in a      *)
(* build, whatever the build was like before.                              *)
(***************************************************************************)
EXTENDS ConnectStep, TLAPS

\* What an answer on its way says of the agent: a code that is not a gateway's
\* is the server's, and told how things stood.
Telling ==
  /\ code \in {401, 403, 404, 422} => stood \in Hopeless
  /\ code = 200 => stood = "ready"

IInv == TypeOK /\ Telling /\ ConcludesRightly

\* The error codes that stand for no hope are those of an agent that has none.
LEMMA FatalCodes ==
  ASSUME NEW c \in Code, Fatal(c)
  PROVE  c \in {401, 403, 404, 422}
BY DEF Code, Fatal

\* What comes with an answer has the form of a body.
LEMMA AnswerTypes ==
  ASSUME TypeOK, NEW c \in Code \cup {200}, Answers(c)
  PROVE  body' \in Body /\ code' = c
<1>1. NoBody \in Body
  BY DEF NoBody, Body
<1>2. CASE c = 200
  BY <1>1, <1>2 DEF Answers
<1>3. CASE c # 200
  BY <1>3, AnswersAssumption DEF Answers
<1> QED
  BY <1>2, <1>3

\* The step starts in the invariant.
LEMMA InitInvariant == Init => IInv
<1> SUFFICES ASSUME Init PROVE IInv
  OBVIOUS
<1>1. NoBody \in Body /\ "starting" \in Condition
  BY DEF NoBody, Body, Condition, CodesOf
<1>2. TypeOK
  <2>1. why # "" <=> phase = "halted"
    BY DEF Init
  <2> QED
    BY <1>1, <2>1 DEF Init, TypeOK
<1>3. Telling
  <2>1. code = 0
    BY DEF Init
  <2> QED
    BY <2>1 DEF Telling
<1>4. why # "fatal" /\ phase # "connected"
  BY DEF Init
<1>5. ConcludesRightly
  BY <1>4 DEF ConcludesRightly
<1> QED
  BY <1>2, <1>3, <1>5 DEF IInv

\* No step leaves the invariant.
LEMMA NextInvariant == IInv /\ [Next]_vars => IInv'
<1> SUFFICES ASSUME IInv, [Next]_vars PROVE IInv'
  OBVIOUS
<1>0. /\ TypeOK /\ Telling /\ ConcludesRightly
      /\ agent \in Condition /\ stood \in Condition
      /\ why = "fatal" => phase = "halted"
  BY DEF IInv, TypeOK
<1>1. CASE AgentChanges \/ Cancel \/ UNCHANGED vars
  <2>1. /\ UNCHANGED <<phase, code, body, why, stood>>
        /\ agent' \in Condition /\ cancelled' \in BOOLEAN
    BY <1>0, <1>1 DEF AgentChanges, Cancel, vars, TypeOK
  <2>2. TypeOK'
    BY <1>0, <2>1 DEF TypeOK
  <2>3. Telling' /\ ConcludesRightly'
    BY <1>0, <2>1 DEF Telling, ConcludesRightly, ErrorStatus
  <2> QED
    BY <2>2, <2>3 DEF IInv
<1>2. ASSUME NEW c \in Code \cup {200}, Answers(c), stood' \in Condition,
             c \in {401, 403, 404, 422} => stood' \in Hopeless,
             c = 200 => stood' = "ready"
      PROVE  IInv'
  <2>1. /\ phase = "probe" /\ code' = c /\ body' \in Body
        /\ UNCHANGED <<agent, cancelled, phase, why>>
    BY <1>0, <1>2, AnswerTypes DEF Answers
  <2>2. TypeOK'
    BY <1>0, <1>2, <2>1 DEF TypeOK
  <2>3. Telling' /\ ConcludesRightly'
    BY <1>0, <1>2, <2>1 DEF Telling, ConcludesRightly
  <2> QED
    BY <2>2, <2>3 DEF IInv
<1>3. CASE ServerAnswers
  <2>1. PICK c \in CodesOf[agent] : Answers(c) /\ stood' = agent
    BY <1>3 DEF ServerAnswers
  <2>2. agent \in {"starting", "ready", "disabled", "unauthorized", "gone", "unfit"}
    BY <1>0 DEF TypeOK, Condition, CodesOf
  <2>3. /\ c \in Code \cup {200}
        /\ c \in {401, 403, 404, 422} => agent \in Hopeless
        /\ c = 200 => agent = "ready"
    BY <2>1, <2>2 DEF CodesOf, Code, Hopeless
  <2> QED
    BY <1>0, <1>2, <2>1, <2>3
<1>4. CASE GatewayAnswers
  <2>1. PICK c \in Gateway : Answers(c) /\ UNCHANGED stood
    BY <1>4 DEF GatewayAnswers
  <2>2. c \in Code /\ c \notin {200, 401, 403, 404, 422}
    BY <2>1, AnswersAssumption DEF Code
  <2> QED
    BY <1>0, <1>2, <2>1, <2>2
<1>5. CASE ProbeSucceeds
  <2>1. TypeOK'
    BY <1>0, <1>5 DEF ProbeSucceeds, TypeOK
  <2>2. Telling' /\ ConcludesRightly'
    BY <1>0, <1>5 DEF ProbeSucceeds, Telling, ConcludesRightly
  <2> QED
    BY <2>1, <2>2 DEF IInv
<1>6. ASSUME KeepsPolling, phase = "probe" PROVE IInv'
  <2>1. NoBody \in Body
    BY DEF NoBody, Body
  <2>2. TypeOK'
    BY <1>0, <1>6, <2>1 DEF KeepsPolling, TypeOK
  <2>3. Telling' /\ ConcludesRightly'
    BY <1>0, <1>6 DEF KeepsPolling, Telling, ConcludesRightly
  <2> QED
    BY <2>2, <2>3 DEF IInv
<1>7. ASSUME NEW reason \in {"fatal", "deadline", "cancelled"}, Halts(reason),
             phase \in {"probe", "wait"}, phase = "probe" => reason = "fatal",
             reason = "fatal" => stood \in Hopeless \/ ErrorStatus # code
      PROVE  IInv'
  <2>1. TypeOK'
    BY <1>0, <1>7 DEF Halts, TypeOK
  <2>2. Telling' /\ ConcludesRightly'
    BY <1>0, <1>7 DEF Halts, Telling, ConcludesRightly, ErrorStatus
  <2> QED
    BY <2>1, <2>2 DEF IInv
<1>8. CASE ProbeRefused
  <2>1. ASSUME Fatal(ErrorStatus), ErrorStatus = code PROVE stood \in Hopeless
    BY <1>0, <1>8, <2>1, FatalCodes DEF ProbeRefused, Telling
  <2> QED
    BY <1>6, <1>7, <1>8, <2>1 DEF ProbeRefused
<1>9. CASE ProbeBreaks
  BY <1>6, <1>9 DEF ProbeBreaks
<1>10. CASE Tick
  <2>1. TypeOK'
    BY <1>0, <1>10 DEF Tick, TypeOK
  <2>2. Telling' /\ ConcludesRightly'
    BY <1>0, <1>10 DEF Tick, Telling, ConcludesRightly
  <2> QED
    BY <2>1, <2>2 DEF IInv
<1>11. CASE Deadline \/ Cancelled
  BY <1>7, <1>11 DEF Deadline, Cancelled
<1> QED
  BY <1>1, <1>3, <1>4, <1>5, <1>8, <1>9, <1>10, <1>11 DEF Next

(* The invariant holds of every reachable state of the step.               *)
THEOREM ProbeInvariant == Spec => []IInv
BY InitInvariant, NextInvariant, PTL DEF Spec

(* Every variable of the step has its type.                                *)
THEOREM ProbeTypes == Spec => []TypeOK
<1>1. IInv => TypeOK
  BY DEF IInv
<1> QED
  BY <1>1, ProbeInvariant, PTL

(* The build is given up before the deadline only if the server has said   *)
(* that there is no hope, or a body contradicts its status, and goes on    *)
(* only over an agent that was ready (ConcludesRightly).                   *)
THEOREM ProbeConcludesRightly == Spec => []ConcludesRightly
<1>1. IInv => ConcludesRightly
  BY DEF IInv
<1> QED
  BY <1>1, ProbeInvariant, PTL

-----------------------------------------------------------------------------
\* The step starts as BuildRun has it.
LEMMA InitInBuild == Init => Build!Blocked(Build!StepConnectAgent)
<1> SUFFICES ASSUME Init PROVE Build!Blocked(Build!StepConnectAgent)
  OBVIOUS
<1>1. Place = "blocked" /\ phase # "connected"
  BY DEF Init, Place
<1> QED
  BY <1>1 DEF Build!Blocked, Build!StepConnectAgent

\* Where the step stands in the build, by its phase.
LEMMA PlaceByPhase ==
  /\ phase = "probe" => Place = "blocked"
  /\ phase = "wait" => Place = "poll"
  /\ phase = "connected" => Place = "run"
  /\ phase = "halted" => Place = "cleanup"
BY DEF Place

\* What changes nothing but the answer on its way, or the agent, is nothing to
\* the build.
LEMMA BuildStutters ==
  ASSUME UNCHANGED <<phase, why, cancelled>>
  PROVE  UNCHANGED Build!vars
BY DEF Build!vars, Build!client, Build!cloud, Build!past, Place, Left, Ended

\* Each step of AgentProbe is one of BuildRun at StepConnectAgent.
LEMMA NextInBuild == TypeOK /\ TypeOK' /\ [Next]_vars => [StepOfBuild]_(Build!vars)
<1> SUFFICES ASSUME TypeOK, TypeOK', [Next]_vars PROVE [StepOfBuild]_(Build!vars)
  OBVIOUS
<1>0. /\ why = "" <=> phase # "halted"
      /\ why' = "" <=> phase' # "halted"
  BY DEF TypeOK
<1>1. CASE AgentChanges \/ ServerAnswers \/ GatewayAnswers \/ UNCHANGED vars
  <2>1. UNCHANGED <<phase, why, cancelled>>
    BY <1>1 DEF AgentChanges, ServerAnswers, GatewayAnswers, Answers, vars
  <2> QED
    BY <2>1, BuildStutters
<1>2. CASE Cancel
  <2>1. UNCHANGED <<phase, why>> /\ ~cancelled /\ cancelled' = TRUE
    BY <1>2 DEF Cancel
  <2>2. Place # "returned" /\ UNCHANGED <<Place, Left, Ended>>
    BY <2>1, PlaceByPhase DEF TypeOK, Place, Left, Ended
  <2>3. Build!Cancel
    BY <2>1, <2>2 DEF Build!Cancel, Build!client, Build!cloud, Build!past
  <2> QED
    BY <2>3 DEF StepOfBuild
<1>3. CASE ProbeSucceeds
  <2>1. phase = "probe" /\ phase' = "connected" /\ UNCHANGED <<why, cancelled>>
    BY <1>3 DEF ProbeSucceeds
  <2>2. Place = "blocked" /\ Place' = "run"
    BY <2>1 DEF Place
  <2>3. Left = handed /\ Left' = handed \cup {"communicator"}
    BY <1>0, <2>1 DEF Left
  <2>4. Ended'
    BY <2>1 DEF Ended
  <2>5. Build!Continue({"communicator"})
    BY <2>1, <2>2, <2>3, <2>4 DEF Build!Continue
  <2>6. Build!ProbeReturns
    BY <2>1, <2>2, <2>5
       DEF Build!ProbeReturns, Build!Blocked, Build!StepConnectAgent, Build!cloud, Build!past
  <2> QED
    BY <2>6 DEF StepOfBuild
<1>4. ASSUME KeepsPolling, phase = "probe" PROVE Build!ProbeReturns
  <2>1. phase' = "wait" /\ UNCHANGED <<why, cancelled>>
    BY <1>4 DEF KeepsPolling
  <2>2. Place = "blocked" /\ Place' = "poll"
    BY <1>4, <2>1 DEF Place
  <2>3. UNCHANGED <<Left, Ended>>
    BY <1>4, <2>1 DEF Left, Ended
  <2> QED
    BY <1>4, <2>1, <2>2, <2>3
       DEF Build!ProbeReturns, Build!Blocked, Build!StepConnectAgent, Build!Enter,
           Build!cloud, Build!past
<1>5. ASSUME NEW reason \in {"fatal", "deadline", "cancelled"}, Halts(reason),
             phase \in {"probe", "wait"}
      PROVE  Build!ProbeReturns \/ Build!PollTimeout
  <2>1. phase' = "halted" /\ why = "" /\ why' # "" /\ UNCHANGED cancelled
    BY <1>0, <1>5 DEF Halts
  <2>2. Place' = "cleanup" /\ Ended'
    BY <2>1 DEF Place, Ended
  <2>3. Left = handed /\ Left' = handed \cup {"error"}
    BY <1>5, <2>1 DEF Left
  <2>4. CASE phase = "probe"
    <3>1. Place = "blocked"
      BY <2>4 DEF Place
    <3> QED
      BY <2>1, <2>2, <2>3, <2>4, <3>1
         DEF Build!ProbeReturns, Build!Blocked, Build!StepConnectAgent, Build!Halt,
             Build!cloud, Build!past
  <2>5. CASE phase = "wait"
    <3>1. Place = "poll"
      BY <2>5 DEF Place
    <3> QED
      BY <2>1, <2>2, <2>3, <2>5, <3>1
         DEF Build!PollTimeout, Build!Halt, Build!cloud, Build!past
  <2> QED
    BY <1>5, <2>4, <2>5
<1>6. CASE Tick
  <2>1. /\ phase = "wait" /\ phase' = "probe" /\ ~cancelled
        /\ UNCHANGED <<why, cancelled>>
    BY <1>6 DEF Tick
  <2>2. Place = "poll" /\ Place' = "blocked"
    BY <2>1 DEF Place
  <2>3. UNCHANGED <<Left, Ended>>
    BY <2>1 DEF Left, Ended
  <2>4. Build!ConnectAgentTick
    BY <2>1, <2>2, <2>3
       DEF Build!ConnectAgentTick, Build!Polling, Build!StepConnectAgent, Build!Enter,
           Build!cloud, Build!past
  <2> QED
    BY <2>4 DEF StepOfBuild
<1> QED
  BY <1>1, <1>2, <1>3, <1>4, <1>5, <1>6
     DEF Next, ProbeRefused, ProbeBreaks, Deadline, Cancelled, StepOfBuild

(* AgentProbe is the inside of BuildRun's StepConnectAgent (StepAsAssumed),*)
(* whatever build comes to the step and whatever answers it gets.          *)
THEOREM ConnectsInBuild == Spec => StepAsAssumed
<1>1. Init => Build!Blocked(Build!StepConnectAgent)
  BY InitInBuild
<1>2. TypeOK /\ TypeOK' /\ [Next]_vars => [StepOfBuild]_(Build!vars)
  BY NextInBuild
<1> QED
  BY <1>1, <1>2, ProbeTypes, PTL DEF Spec, StepAsAssumed

=============================================================================
