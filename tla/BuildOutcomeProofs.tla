--------------------------- MODULE BuildOutcomeProofs ---------------------------
(***************************************************************************)
(* Theorems about what a build makes of the VM, the push job and its own   *)
(* result, for every set of prepared configurations.  They extend the      *)
(* inductive invariant of BuildRunProofs by a second one.                  *)
(***************************************************************************)
EXTENDS BuildRunProofs

(***************************************************************************)
(* The second invariant.                                                   *)
(***************************************************************************)
\* What the steps behind the runner have left for the steps ahead of it.
Handed ==
  /\ pos > StepResolveRegion => cfg.region = "id"
  /\ pos > StepCreateInstance => "instance_id" \in bag
  /\ pos > StepResolveAddress /\ ~SkipsAddress(cfg) => "vm_ip" \in bag
  /\ pos > StepConnectAgent /\ cfg.comm = "agent" => "communicator" \in bag
  /\ pos > StepConnectSSH /\ cfg.comm = "ssh" => "communicator" \in bag

\* How far the VM has come, by where the runner is.
Machine ==
  /\ pos > StepWaitRunning => vm \notin {"absent", "pending", "starting"}
  /\ pos > StepShutdown /\ cfg.push => vm \in {"stopped", "deleted"}

\* A push job belongs to the last step, and the step that saw it end says so.
Push ==
  /\ job # "none" => cfg.push /\ pos >= StepPushImage
  /\ job # "none" => \/ phase = "poll" /\ pos = StepPushImage
                     \/ "error" \in bag
                     \/ "pushed_image" \in bag
  /\ "pushed_image" \in bag => pos > StepPushImage /\ job = "succeeded"

\* No error while building, a reason for every early end, and the verdict.
Verdict ==
  /\ Building \/ pos > LastStep => "error" \notin bag
  /\ ~Building /\ pos <= LastStep => cancelled \/ "error" \in bag
  /\ phase = "returned" =>
       result = IF "error" \in bag \/ "instance_id" \notin bag THEN "error" ELSE "artifact"

Outcome == Handed /\ Machine /\ Push /\ Verdict

-----------------------------------------------------------------------------
(***************************************************************************)
(* What any step does, as far as the second invariant goes.                *)
(***************************************************************************)
SameShape ==
  /\ cfg'.push = cfg.push /\ cfg'.comm = cfg.comm
  /\ cfg.region = "id" => cfg'.region = "id"

\* What the step at pos owes when it concludes with keys.
Settles(keys) ==
  /\ pos = StepResolveRegion => cfg'.region = "id"
  /\ pos = StepCreateInstance => "instance_id" \in keys
  /\ pos = StepWaitRunning => vm = "running"
  /\ pos = StepResolveAddress /\ ~SkipsAddress(cfg) => "vm_ip" \in keys
  /\ pos = StepConnectAgent /\ cfg.comm = "agent" => "communicator" \in keys
  /\ pos = StepConnectSSH /\ cfg.comm = "ssh" => "communicator" \in keys
  /\ pos = StepShutdown /\ cfg.push => vm = "stopped"
  /\ pos = StepPushImage /\ cfg.push => "pushed_image" \in keys
  /\ "pushed_image" \in keys => pos = StepPushImage /\ job = "succeeded"
  /\ "error" \notin keys

Completes == \E keys \in SUBSET BagKey : InStep /\ Continue(keys) /\ Settles(keys)

Fails ==
  \E keys \in {{}, {"error"}} :
    InStep /\ Halt(keys) /\ ("error" \in keys \/ (cancelled /\ phase = "blocked"))

Waits == \E p \in {"poll", "blocked"} : InStep /\ Enter(p) /\ (pos = StepPushImage => p = "poll")

TearsDown == phase = "cleanup" /\ UNCHANGED <<phase, pos, bag>>

ClientMove ==
  \/ /\ Completes \/ Fails \/ Waits \/ RunnerStops \/ TearsDown \/ UNCHANGED client
     /\ UNCHANGED result
  \/ Return

VMMove ==
  \/ UNCHANGED vm
  \/ vm' = "deleted"
  \/ pos = StepCreateInstance /\ InStep
  \/ /\ vm \in {"pending", "starting", "running", "stopping"}
     /\ vm' \notin {"absent", "pending"} /\ (vm' = "starting" => vm = "pending")
     /\ UNCHANGED pos

JobMove ==
  \/ UNCHANGED job
  \/ job = "running" /\ UNCHANGED client
  \/ /\ InStep /\ pos = StepPushImage /\ cfg.push /\ UNCHANGED pos
     /\ phase' = "poll" \/ "error" \in bag'

Move == SameShape /\ ClientMove /\ VMMove /\ JobMove /\ (cancelled => cancelled')

\* A step that concludes with keys and owes nothing it does not give.
LEMMA Completion ==
  ASSUME NEW keys \in SUBSET {"created_image", "temp_ssh_key_id", "instance_id", "vm_image",
                              "elastic_ip_id", "vm_ip", "communicator", "pushed_image"},
         InStep, Continue(keys), Settles(keys)
  PROVE  Completes
<1>1. keys \in SUBSET BagKey
  BY DEF BagKey
<1> QED
  BY <1>1 DEF Completes

\* Every action of the build, the server and the user is a Move.
LEMMA StepMove == TypeOK /\ Control /\ Next => Move
<1> SUFFICES ASSUME TypeOK, Control, Next PROVE Move
  OBVIOUS
<1> USE DEF StepResolveRegion, StepRegisterImage, StepSSHKey, StepCreateNetwork,
            StepCreateInstance, StepWaitRunning, StepResolveAddress, StepConnectAgent,
            StepConnectSSH, StepProvision, StepShutdown, StepPushImage, LastStep,
            InStep, Building, At, Polling, Blocked
<1>1. CASE RunnerStops
  BY <1>1 DEF RunnerStops, Move, SameShape, ClientMove, VMMove, JobMove, cloud, past
<1>2. CASE OmitStep
  <2>1. Completes
    BY <1>2, Completion DEF OmitStep, Included, Settles, SkipsAddress
  <2> QED
    BY <1>2, <2>1 DEF OmitStep, Move, SameShape, ClientMove, VMMove, JobMove, cloud
<1>3. CASE ResolveRegion
  <2>1. SameShape
    BY <1>3 DEF ResolveRegion, SameShape, TypeOK, Config
  <2>2. Completes \/ Fails
    <3>1. CASE Continue({}) /\ cfg' = [cfg EXCEPT !.region = "id"]
      <4>1. cfg'.region = "id"
        BY <3>1 DEF TypeOK, Config
      <4> QED
        BY <1>3, <3>1, <4>1, Completion DEF ResolveRegion, Settles
    <3>2. CASE Halt({"error"})
      BY <1>3, <3>2 DEF ResolveRegion, Fails
    <3> QED
      BY <1>3, <3>1, <3>2 DEF ResolveRegion
  <2> QED
    BY <1>3, <2>1, <2>2 DEF ResolveRegion, Move, ClientMove, VMMove, JobMove, cloud
<1>4. CASE RegisterImage
  <2>1. Completes \/ Fails
    BY <1>4, Completion DEF RegisterImage, Create, Settles, Fails
  <2> QED
    BY <1>4, <2>1 DEF RegisterImage, Move, SameShape, ClientMove, VMMove, JobMove
<1>5. CASE SSHKey
  <2>1. Completes \/ Fails
    BY <1>5, Completion DEF SSHKey, Create, Settles, Fails
  <2> QED
    BY <1>5, <2>1 DEF SSHKey, Move, SameShape, ClientMove, VMMove, JobMove
<1>6. CASE CreateNetwork
  <2>1. Completes
    BY <1>6, Completion DEF CreateNetwork, Settles
  <2> QED
    BY <1>6, <2>1 DEF CreateNetwork, Move, SameShape, ClientMove, VMMove, JobMove, cloud
<1>7. CASE CreateInstance
  <2>1. /\ At(StepCreateInstance) /\ UNCHANGED <<cancelled, result, job>>
        /\ Create("instance", {"instance_id"})
    BY <1>7 DEF CreateInstance
  <2>2. SameShape
    BY <1>7 DEF CreateInstance, SameShape, TypeOK, Config
  <2>3. Completes \/ Fails
    BY <2>1, Completion DEF Create, Settles, Fails
  <2> QED
    BY <2>1, <2>2, <2>3 DEF Move, ClientMove, VMMove, JobMove
<1>8. CASE BeginWaitRunning
  BY <1>8 DEF BeginWaitRunning, Waits, Move, SameShape, ClientMove, VMMove, JobMove, cloud
<1>9. CASE WaitRunningTick
  <2>1. Completes \/ Fails
    BY <1>9, Completion DEF WaitRunningTick, Conclude, WaitVerdict, Settles, Fails
  <2> QED
    BY <1>9, <2>1 DEF WaitRunningTick, Move, SameShape, ClientMove, VMMove, JobMove, cloud
<1>10. CASE BeginResolveAddress
  <2>1. Completes \/ Waits
    BY <1>10, Completion DEF BeginResolveAddress, Settles, Waits
  <2> QED
    BY <1>10, <2>1
    DEF BeginResolveAddress, Move, SameShape, ClientMove, VMMove, JobMove, cloud
<1>11. CASE ResolveAddressTick
  <2>1. Completes
    BY <1>11, Completion DEF ResolveAddressTick, AddressKeys, Settles
  <2> QED
    BY <1>11, <2>1
    DEF ResolveAddressTick, Move, SameShape, ClientMove, VMMove, JobMove, cloud
<1>12. CASE BeginConnectAgent
  BY <1>12 DEF BeginConnectAgent, Waits, Move, SameShape, ClientMove, VMMove, JobMove, cloud
<1>13. CASE ConnectAgentTick
  BY <1>13 DEF ConnectAgentTick, Waits, Move, SameShape, ClientMove, VMMove, JobMove, cloud
<1>14. CASE ProbeReturns
  <2>1. Completes \/ Fails \/ Waits
    BY <1>14, Completion DEF ProbeReturns, Settles, Fails, Waits
  <2> QED
    BY <1>14, <2>1 DEF ProbeReturns, Move, SameShape, ClientMove, VMMove, JobMove, cloud
<1>15. CASE ProbeCancelled
  BY <1>15 DEF ProbeCancelled, Waits, Move, SameShape, ClientMove, VMMove, JobMove, cloud
<1>16. CASE BeginExternal
  BY <1>16 DEF BeginExternal, Waits, Move, SameShape, ClientMove, VMMove, JobMove, cloud
<1>17. CASE ConnectSSHReturns
  <2>1. Completes \/ Fails
    BY <1>17, Completion DEF ConnectSSHReturns, Settles, Fails
  <2> QED
    BY <1>17, <2>1
    DEF ConnectSSHReturns, Move, SameShape, ClientMove, VMMove, JobMove, cloud
<1>18. CASE ProvisionReturns
  <2>1. Completes \/ Fails
    BY <1>18, Completion DEF ProvisionReturns, Settles, Fails
  <2> QED
    BY <1>18, <2>1
    DEF ProvisionReturns, Move, SameShape, ClientMove, VMMove, JobMove, cloud
<1>19. CASE ExternalCancelled
  <2>1. Fails
    BY <1>19 DEF ExternalCancelled, Fails
  <2> QED
    BY <1>19, <2>1
    DEF ExternalCancelled, Move, SameShape, ClientMove, VMMove, JobMove, cloud
<1>20. CASE BeginShutdown
  <2>1. Fails \/ Waits
    BY <1>20 DEF BeginShutdown, Fails, Waits
  <2>2. VMMove
    BY <1>20 DEF BeginShutdown, VMMove, Enter, Halt
  <2> QED
    BY <1>20, <2>1, <2>2 DEF BeginShutdown, Move, SameShape, ClientMove, JobMove
<1>21. CASE ShutdownTick
  <2>1. Completes \/ Fails
    BY <1>21, Completion DEF ShutdownTick, Conclude, ShutdownVerdict, Settles, Fails
  <2> QED
    BY <1>21, <2>1 DEF ShutdownTick, Move, SameShape, ClientMove, VMMove, JobMove, cloud
<1>22. CASE BeginPushImage
  <2>1. Fails \/ Waits
    BY <1>22 DEF BeginPushImage, Fails, Waits
  <2>2. JobMove
    BY <1>22 DEF BeginPushImage, JobMove, Enter, Halt, Included
  <2> QED
    BY <1>22, <2>1, <2>2 DEF BeginPushImage, Move, SameShape, ClientMove, VMMove
<1>23. CASE PushImageTick
  <2>1. Completes \/ Fails
    BY <1>23, Completion DEF PushImageTick, Conclude, PushVerdict, Settles, Fails
  <2> QED
    BY <1>23, <2>1 DEF PushImageTick, Move, SameShape, ClientMove, VMMove, JobMove, cloud
<1>24. CASE PollTimeout \/ PollCancelled
  <2>1. Fails
    BY <1>24 DEF PollTimeout, PollCancelled, Fails, Control
  <2> QED
    BY <1>24, <2>1
    DEF PollTimeout, PollCancelled, Move, SameShape, ClientMove, VMMove, JobMove, cloud
<1>25. CASE CleanupNothing
  BY <1>25
  DEF CleanupNothing, TearsDown, Move, SameShape, ClientMove, VMMove, JobMove, cloud
<1>26. ASSUME NEW r \in Resource, CleanupDeletes(r) PROVE Move
  BY <1>26
  DEF CleanupDeletes, Delete, TearsDown, Move, SameShape, ClientMove, VMMove, JobMove
<1>27. CASE Return
  BY <1>27 DEF Return, Move, SameShape, ClientMove, VMMove, JobMove, cloud
<1>28. CASE Cancel
  BY <1>28 DEF Cancel, Move, SameShape, ClientMove, VMMove, JobMove, cloud
<1>29. CASE WorkerMovesVM
  BY <1>29 DEF WorkerMovesVM, Move, SameShape, ClientMove, VMMove, JobMove, client
<1>30. CASE WorkerAllocatesEIP
  BY <1>30 DEF WorkerAllocatesEIP, Move, SameShape, ClientMove, VMMove, JobMove
<1>31. CASE WorkerEndsJob
  BY <1>31 DEF WorkerEndsJob, Move, SameShape, ClientMove, VMMove, JobMove
<1> QED
  BY <1>1, <1>2, <1>3, <1>4, <1>5, <1>6, <1>7, <1>8, <1>9, <1>10, <1>11, <1>12, <1>13,
     <1>14, <1>15, <1>16, <1>17, <1>18, <1>19, <1>20, <1>21, <1>22, <1>23, <1>24, <1>25,
     <1>26, <1>27, <1>28, <1>29, <1>30, <1>31
  DEF Next, RunStep, Tick, Teardown, Worker

-----------------------------------------------------------------------------
(***************************************************************************)
(* Each part of the second invariant is preserved by every Move.           *)
(***************************************************************************)
\* The runner advances only by completing the step it is at.
LEMMA Pace ==
  ASSUME TypeOK, Control, Move
  PROVE  /\ pos' \in Int /\ (pos' = pos \/ pos' = pos + 1)
         /\ pos' # pos => Completes
         /\ bag \subseteq bag'
         /\ ~Building => ~Building' /\ pos' = pos /\ bag' = bag
BY DEF TypeOK, Move, ClientMove, Completes, Fails, Waits, RunnerStops, TearsDown, Return,
       InStep, Continue, Halt, Enter, client, Building

\* Each step leaves in the bag what the later ones read.
LEMMA HandedStep ==
  ASSUME TypeOK, Control, Handed, Move
  PROVE  Handed'
<1>1. CASE pos' = pos
  BY <1>1, Pace DEF Handed, Move, SameShape, SkipsAddress
<1>2. CASE pos' # pos
  <2>1. Completes /\ pos' = pos + 1
    BY <1>2, Pace
  <2>2. PICK keys \in SUBSET BagKey : bag' = bag \cup keys /\ Settles(keys)
    BY <2>1 DEF Completes, Continue
  <2> QED
    BY <2>1, <2>2
    DEF TypeOK, Handed, Settles, Move, SameShape, SkipsAddress, StepResolveRegion,
        StepCreateInstance, StepResolveAddress, StepConnectAgent, StepConnectSSH
<1> QED
  BY <1>1, <1>2

\* The VM has booted past StepWaitRunning, and stopped past StepShutdown.
LEMMA MachineStep ==
  ASSUME TypeOK, Control, Machine, Move
  PROVE  Machine'
<1> USE DEF StepCreateInstance, StepWaitRunning, StepShutdown
<1>1. CASE pos' = pos
  BY <1>1 DEF TypeOK, Machine, Move, VMMove, SameShape
<1>2. CASE pos' # pos
  <2>1. Completes /\ pos' = pos + 1
    BY <1>2, Pace
  <2>2. PICK keys \in SUBSET BagKey : Settles(keys)
    BY <2>1 DEF Completes
  <2>3. vm' = vm \/ vm' = "deleted" \/ pos = StepCreateInstance
    BY <1>2 DEF Move, VMMove
  <2> QED
    BY <2>1, <2>2, <2>3 DEF TypeOK, Machine, Settles, Move, SameShape
<1> QED
  BY <1>1, <1>2

\* A push job is never forgotten.
LEMMA PushStep ==
  ASSUME TypeOK, Control, Push, Move
  PROVE  Push'
<1> USE DEF StepPushImage
<1>1. ASSUME job' # "none" PROVE cfg'.push /\ pos' >= StepPushImage
  BY <1>1, Pace DEF TypeOK, Push, Move, JobMove, SameShape
<1>2. ASSUME job' # "none"
      PROVE  \/ phase' = "poll" /\ pos' = StepPushImage
             \/ "error" \in bag'
             \/ "pushed_image" \in bag'
  <2>1. CASE job = "none"
    BY <1>2, <2>1 DEF Move, JobMove
  <2>2. CASE "error" \in bag \/ "pushed_image" \in bag
    BY <2>2, Pace
  <2>3. CASE cfg.push /\ phase = "poll" /\ pos = StepPushImage
    <3>1. CASE Completes
      BY <2>3, <3>1 DEF Completes, Continue, Settles
    <3>2. CASE Fails
      BY <2>3, <3>2 DEF Fails, Halt
    <3>3. CASE Waits \/ UNCHANGED client
      BY <2>3, <3>3 DEF Waits, Enter, client
    <3> QED
      BY <2>3, <3>1, <3>2, <3>3 DEF Move, ClientMove, RunnerStops, TearsDown, Return
  <2> QED
    BY <2>1, <2>2, <2>3 DEF Push
<1>3. ASSUME "pushed_image" \in bag' PROVE pos' > StepPushImage /\ job' = "succeeded"
  <2>1. CASE "pushed_image" \in bag
    BY <2>1, Pace DEF TypeOK, Push, Move, JobMove
  <2>2. CASE "pushed_image" \notin bag
    <3>1. Completes
      BY <1>3, <2>2
      DEF Move, ClientMove, Fails, Halt, Waits, Enter, RunnerStops, TearsDown, Return, client
    <3>2. PICK keys \in SUBSET BagKey : InStep /\ Continue(keys) /\ Settles(keys)
      BY <3>1 DEF Completes
    <3>3. pos = StepPushImage /\ job = "succeeded" /\ pos' = pos + 1
      BY <1>3, <2>2, <3>2 DEF Continue, Settles
    <3>4. job' = job
      BY <3>3 DEF Move, JobMove, client
    <3> QED
      BY <3>3, <3>4
  <2> QED
    BY <2>1, <2>2
<1> QED
  BY <1>1, <1>2, <1>3 DEF Push

\* An early end has a recorded error or a cancellation behind it.
LEMMA VerdictStep ==
  ASSUME TypeOK, Control, Verdict, Move
  PROVE  Verdict'
<1> USE DEF LastStep, Building
<1>1. CASE Completes /\ UNCHANGED result
  <2>1. PICK keys \in SUBSET BagKey : InStep /\ Continue(keys) /\ Settles(keys)
    BY <1>1 DEF Completes
  <2>2. Building' /\ "error" \notin bag'
    BY <2>1 DEF Verdict, InStep, Continue, Settles
  <2> QED
    BY <2>1, <2>2 DEF Verdict, Continue
<1>2. CASE Fails /\ UNCHANGED result
  BY <1>2 DEF TypeOK, Verdict, Move, Fails, InStep, Halt
<1>3. CASE Waits /\ UNCHANGED result
  BY <1>3 DEF TypeOK, Verdict, Waits, InStep, Enter
<1>4. CASE RunnerStops
  BY <1>4 DEF TypeOK, Verdict, RunnerStops
<1>5. CASE (TearsDown \/ UNCHANGED client) /\ UNCHANGED result
  BY <1>5 DEF TypeOK, Verdict, TearsDown, client, Move
<1>6. CASE Return
  BY <1>6 DEF TypeOK, Verdict, Return
<1> QED
  BY <1>1, <1>2, <1>3, <1>4, <1>5, <1>6 DEF Move, ClientMove

-----------------------------------------------------------------------------
(***************************************************************************)
(* The second invariant, and what follows from it.                         *)
(***************************************************************************)
(* The second invariant holds of every reachable state of a build.         *)
THEOREM OutcomeInvariant == Spec => []Outcome
<1>1. Init => Outcome
  BY DEF Init, Outcome, Handed, Machine, Push, Verdict, Building, StepResolveRegion,
         StepCreateInstance, StepWaitRunning, StepResolveAddress, StepConnectAgent,
         StepConnectSSH, StepShutdown, LastStep
<1>2. IInv /\ Outcome /\ [Next]_vars => Outcome'
  <2>1. CASE UNCHANGED vars
    BY <2>1 DEF vars, client, cloud, Outcome, Handed, Machine, Push, Verdict, Building,
                SkipsAddress
  <2>2. ASSUME IInv, Outcome, Next PROVE Outcome'
    BY <2>2, StepMove, HandedStep, MachineStep, PushStep, VerdictStep DEF IInv, Outcome
  <2> QED
    BY <2>1, <2>2
<1> QED
  BY <1>1, <1>2, InductiveInvariant, PTL DEF Spec

(* The disk is at rest when its push is enqueued, in every configuration   *)
(* (PushFromStoppedVM).                                                    *)
THEOREM PushedAtRest == Spec => []PushFromStoppedVM
<1>1. IInv /\ Outcome => PushFromStoppedVM
  BY DEF IInv, TypeOK, Outcome, Push, Machine, PushFromStoppedVM, StepPushImage, StepShutdown
<1> QED
  BY <1>1, InductiveInvariant, OutcomeInvariant, PTL

(* A pushed image in the bag is the server's too (PushedImageReal).        *)
THEOREM PushIsReal == Spec => []PushedImageReal
<1>1. Outcome => PushedImageReal
  BY DEF Outcome, Push, PushedImageReal
<1> QED
  BY <1>1, OutcomeInvariant, PTL

(* No step past StepWaitRunning meets a VM that has not booted             *)
(* (PastWaitMeansBooted).                                                  *)
THEOREM BootedPastWait == Spec => []PastWaitMeansBooted
<1>1. Outcome => PastWaitMeansBooted
  BY DEF Outcome, Machine, PastWaitMeansBooted
<1> QED
  BY <1>1, OutcomeInvariant, PTL

(* No type assertion on the state bag can fail, in any configuration       *)
(* (AssertedKeysPresent).                                                  *)
THEOREM KeysArePresent == Spec => []AssertedKeysPresent
<1>1. IInv /\ Outcome => AssertedKeysPresent
  <2> SUFFICES ASSUME IInv, Outcome, Building, pos <= LastStep, Included(cfg, pos)
               PROVE  KeysAsserted(pos) \subseteq bag
                      /\ (pos > StepResolveRegion => cfg.region = "id")
    BY DEF AssertedKeysPresent, Building
  <2>1. pos \in Int /\ cfg.comm \in {"agent", "ssh", "none"}
    BY DEF IInv, TypeOK, Config
  <2> QED
    BY <2>1
    DEF Outcome, Handed, Included, KeysAsserted, SkipsAddress, StepResolveRegion,
        StepCreateInstance, StepSSHKey, StepWaitRunning, StepResolveAddress,
        StepConnectAgent, StepConnectSSH, StepProvision, StepShutdown, StepPushImage
<1> QED
  BY <1>1, InductiveInvariant, OutcomeInvariant, PTL

(* The result of a build matches how far it came (ResultMatchesProgress).  *)
THEOREM ResultIsTrue == Spec => []ResultMatchesProgress
<1>1. IInv /\ Outcome => ResultMatchesProgress
  BY DEF IInv, TypeOK, Outcome, Verdict, Handed, Building, ResultMatchesProgress, LastStep,
         StepCreateInstance
<1> QED
  BY <1>1, InductiveInvariant, OutcomeInvariant, PTL

(* A push that was started decides the build (StartedPushDecides).         *)
THEOREM PushDecides == Spec => []StartedPushDecides
<1>1. IInv /\ Outcome => StartedPushDecides
  BY DEF IInv, Control, Outcome, Verdict, Push, StartedPushDecides
<1> QED
  BY <1>1, InductiveInvariant, OutcomeInvariant, PTL

=============================================================================
