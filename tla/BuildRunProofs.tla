---------------------------- MODULE BuildRunProofs ----------------------------
(***************************************************************************)
(* Theorems about BuildRun, for every set of prepared configurations.      *)
(***************************************************************************)
EXTENDS BuildRun, TLAPS

(***************************************************************************)
(* The inductive invariant.                                                *)
(***************************************************************************)
Building == phase \in {"run", "poll", "blocked"}

\* Where the runner is, and how many Cleanups it has deferred.
Control ==
  /\ phase \in {"poll", "blocked"} => pos <= LastStep
  /\ Building => defers = pos - 1
  /\ ~Building => defers <= pos
  /\ phase = "returned" => defers = 0
  /\ phase # "returned" => result = "none"

\* What the build knows exists, and what exists the build knows or has lost.
Knowledge ==
  /\ \A r \in Resource : Captured(r) => res[r] # "absent"
  /\ \A r \in Resource \ {"eip"} : res[r] = "live" => r \in lost \/ Captured(r)
  /\ \A r \in Resource \ {"eip"} :
        res[r] # "absent" => ~Building \/ CleanerOf[r] < pos
  /\ res["eip"] = "live" => cfg.eip
  /\ ~SkipsAddress(cfg) /\ cfg.eip /\ pos > StepResolveAddress => Captured("eip")

\* How far teardown has come.
Progress ==
  /\ \A r \in Resource : Captured(r) => CleanerOf[r] <= defers \/ r \in tried \/ cfg.keep
  /\ \A r \in tried : ~Building /\ defers < CleanerOf[r]
  /\ cfg.keep => tried = {} /\ \A r \in Resource : res[r] # "gone"

IInv == TypeOK /\ Control /\ Knowledge /\ Progress

-----------------------------------------------------------------------------
(***************************************************************************)
(* What any step does, said once for all actions.  Effect has a client     *)
(* half, how control moves and what the build learns, and a cloud half,    *)
(* what may appear or disappear on the server.                             *)
(***************************************************************************)
SameTask ==
  /\ cfg' \in Config
  /\ cfg'.keep = cfg.keep /\ cfg'.comm = cfg.comm /\ cfg'.eip = cfg.eip

InStep == Building /\ pos <= LastStep

Advances ==
  \E keys \in SUBSET BagKey :
    /\ InStep /\ Continue(keys)
    /\ \A r \in Resource : KeyOf[r] \in keys => CleanerOf[r] = pos /\ res'[r] = "live"
    /\ pos = StepResolveAddress /\ ~SkipsAddress(cfg) /\ cfg.eip => KeyOf["eip"] \in keys

Halts  == \E keys \in {{}, {"error"}} : InStep /\ Halt(keys)

Pauses == \E p \in {"poll", "blocked"} : InStep /\ Enter(p)

ClientEffect ==
  \/ /\ Advances \/ Halts \/ Pauses \/ RunnerStops \/ UNCHANGED client
     /\ UNCHANGED <<result, tried>>
  \/ CleanupNothing
  \/ \E r \in Resource : CleanupDeletes(r)
  \/ Return

\* r is new on the server: the build created it at its step, or the worker did.
Appears(r) ==
  \/ /\ r = "eip" /\ cfg.eip
     /\ res["instance"] = "live" /\ res["eip"] = "absent"
     /\ UNCHANGED client
  \/ /\ r # "eip" /\ InStep /\ pos = CleanerOf[r]
     /\ pos' = pos + 1 \/ ~Building'
     /\ r \in lost' \/ Captured(r)'

CloudEffect ==
  /\ \/ UNCHANGED res
     \/ \E r \in Resource : res' = [res EXCEPT ![r] = "live"] /\ Appears(r)
     \/ \E r \in Resource : CleanupDeletes(r)
  /\ lost \subseteq lost'

CloudType ==
  /\ cancelled \in BOOLEAN
  /\ res \in [Resource -> {"absent", "live", "gone"}]
  /\ vm \in VMStatus
  /\ job \in JobStatus
  /\ lost \subseteq Resource

Effect == SameTask /\ ClientEffect /\ CloudEffect /\ CloudType'

\* A step that learns no id.
LEMMA PlainAdvance ==
  ASSUME NEW keys \in SUBSET {"vm_image", "communicator", "pushed_image"},
         TypeOK, InStep, Continue(keys), pos # StepResolveAddress
  PROVE  Advances
<1>1. keys \in SUBSET BagKey
  BY DEF BagKey
<1>2. \A r \in Resource : KeyOf[r] \notin keys
  BY DEF Resource, KeyOf
<1> QED
  BY <1>1, <1>2 DEF Advances

\* A step that creates r and learns its id, or fails to do one or the other.
LEMMA CreateEffect ==
  ASSUME NEW r \in Resource \ {"eip"}, NEW keys \in SUBSET BagKey,
         TypeOK, Control, InStep, pos = CleanerOf[r], pos # StepResolveAddress,
         KeyOf[r] \in keys, \A q \in Resource : KeyOf[q] \in keys => q = r,
         Create(r, keys), UNCHANGED tried
  PROVE  /\ Advances \/ Halts
         /\ CloudEffect
         /\ res' \in [Resource -> {"absent", "live", "gone"}] /\ lost' \subseteq Resource
<1>1. CASE res' = [res EXCEPT ![r] = "live"] /\ Continue(keys) /\ UNCHANGED lost
  <2>1. res' \in [Resource -> {"absent", "live", "gone"}] /\ res'[r] = "live"
    BY <1>1 DEF TypeOK
  <2>2. Advances
    BY <1>1, <2>1 DEF Advances
  <2>3. CloudEffect
    BY <1>1, <2>1 DEF CloudEffect, Appears, Captured, Continue
  <2> QED
    BY <1>1, <2>1, <2>2, <2>3 DEF TypeOK
<1>2. CASE res' = [res EXCEPT ![r] = "live"] /\ Halt({"error"}) /\ lost' = lost \cup {r}
  <2>1. ~Building' /\ r \in lost'
    BY <1>2 DEF Halt, Building
  <2>2. res' \in [Resource -> {"absent", "live", "gone"}] /\ res'[r] = "live"
    BY <1>2 DEF TypeOK
  <2>4. CloudEffect
    BY <1>2, <2>1, <2>2 DEF CloudEffect, Appears
  <2> QED
    BY <1>2, <2>2, <2>4 DEF TypeOK, Halts
<1>3. CASE Halt({"error"}) /\ UNCHANGED <<res, lost>>
  BY <1>3 DEF TypeOK, Halts, CloudEffect
<1> QED
  BY <1>1, <1>2, <1>3 DEF Create

\* A step that leaves the server's resources alone has no cloud effect.
LEMMA QuietCloud ==
  ASSUME TypeOK, UNCHANGED <<res, lost>>
  PROVE  CloudEffect
BY DEF CloudEffect

\* Every action of the build, the server and the user has the Effect above.
LEMMA StepEffect == TypeOK /\ Control /\ Next => Effect
<1> SUFFICES ASSUME TypeOK, Control, Next PROVE Effect
  OBVIOUS
<1>1. CASE RunnerStops
  <2>1. ClientEffect
    BY <1>1 DEF RunnerStops, ClientEffect, past
  <2> QED
    BY <1>1, <2>1, QuietCloud
    DEF RunnerStops, Effect, SameTask, CloudType, TypeOK, cloud, past
<1>2. CASE OmitStep
  <2>1. ClientEffect
    BY <1>2, PlainAdvance
    DEF OmitStep, Included, StepResolveAddress, StepSSHKey, StepConnectAgent,
        StepConnectSSH, StepProvision, StepShutdown, StepPushImage, LastStep,
        ClientEffect, Building, InStep, past
  <2> QED
    BY <1>2, <2>1, QuietCloud
    DEF OmitStep, Effect, SameTask, CloudType, TypeOK, cloud, past
<1>3. CASE ResolveRegion
  <2>1. ClientEffect
    BY <1>3, PlainAdvance
    DEF ResolveRegion, At, StepResolveRegion, StepResolveAddress, LastStep,
        ClientEffect, Building, InStep, Halts, past
  <2> QED
    BY <1>3, <2>1, QuietCloud
    DEF ResolveRegion, Effect, SameTask, CloudType, TypeOK, cloud, Config,
        past
<1>4. CASE CreateNetwork
  <2>1. ClientEffect
    BY <1>4, PlainAdvance
    DEF CreateNetwork, At, StepCreateNetwork, StepResolveAddress, LastStep,
        ClientEffect, Building, InStep, past
  <2> QED
    BY <1>4, <2>1, QuietCloud
    DEF CreateNetwork, Effect, SameTask, CloudType, TypeOK, cloud, past
<1>5. CASE BeginWaitRunning
  <2>1. ClientEffect
    BY <1>5
    DEF BeginWaitRunning, At, StepWaitRunning, LastStep, ClientEffect,
        Building, InStep, Pauses, past
  <2> QED
    BY <1>5, <2>1, QuietCloud
    DEF BeginWaitRunning, Effect, SameTask, CloudType, TypeOK, cloud, past
<1>6. CASE WaitRunningTick
  <2>1. ClientEffect
    BY <1>6, PlainAdvance
    DEF WaitRunningTick, Polling, Conclude, StepWaitRunning,
        StepResolveAddress, LastStep, ClientEffect, Building, InStep, Halts,
        past
  <2> QED
    BY <1>6, <2>1, QuietCloud
    DEF WaitRunningTick, Effect, SameTask, CloudType, TypeOK, cloud, past
<1>7. CASE BeginResolveAddress
  <2>0. At(StepResolveAddress) /\ UNCHANGED <<result, tried>>
    BY <1>7 DEF BeginResolveAddress, past
  <2>1. ClientEffect
    <3>1. CASE SkipsAddress(cfg) /\ Continue({})
      <4>1. InStep /\ \A r \in Resource : KeyOf[r] \notin {}
        BY <2>0 DEF At, InStep, Building, StepResolveAddress, LastStep
      <4>2. Advances
        BY <3>1, <4>1 DEF Advances
      <4> QED
        BY <2>0, <4>2 DEF ClientEffect
    <3>2. CASE Enter("poll")
      BY <2>0, <3>2
      DEF At, InStep, Building, StepResolveAddress, LastStep, Pauses,
          ClientEffect
    <3> QED
      BY <1>7, <3>1, <3>2 DEF BeginResolveAddress
  <2> QED
    BY <1>7, <2>1, QuietCloud
    DEF BeginResolveAddress, Effect, SameTask, CloudType, TypeOK, cloud, past
<1>8. CASE ResolveAddressTick
  <2> DEFINE keys == AddressKeys(cfg)
  <2>1. /\ InStep /\ pos = StepResolveAddress /\ Continue(keys)
        /\ UNCHANGED <<res, result, tried>>
    BY <1>8
    DEF ResolveAddressTick, Polling, InStep, Building, StepResolveAddress,
        LastStep, cloud, past
  <2>2. keys \in SUBSET BagKey
    BY DEF AddressKeys, BagKey
  <2>3. ASSUME NEW r \in Resource, KeyOf[r] \in keys
        PROVE  r = "eip" /\ cfg.eip
    BY <2>3 DEF AddressKeys, KeyOf, Resource
  <2>4. cfg.eip => res["eip"] = "live" /\ KeyOf["eip"] \in keys
    BY <1>8 DEF ResolveAddressTick, AddressKeys, KeyOf
  <2>5. CleanerOf["eip"] = StepResolveAddress
    BY DEF CleanerOf
  <2>6. \A r \in Resource : KeyOf[r] \in keys => CleanerOf[r] = pos /\ res'[r] = "live"
    BY <2>1, <2>3, <2>4, <2>5
  <2>7. Advances
    <3> HIDE DEF keys
    <3> QED  BY <2>1, <2>2, <2>4, <2>6 DEF Advances
  <2>8. ClientEffect
    BY <2>1, <2>7 DEF ClientEffect
  <2> QED
    BY <1>8, <2>8, QuietCloud
    DEF ResolveAddressTick, Effect, SameTask, CloudType, TypeOK, cloud, past
<1>9. CASE BeginConnectAgent
  <2>1. ClientEffect
    BY <1>9
    DEF BeginConnectAgent, At, StepConnectAgent, LastStep, ClientEffect,
        Building, InStep, Pauses, past
  <2> QED
    BY <1>9, <2>1, QuietCloud
    DEF BeginConnectAgent, Effect, SameTask, CloudType, TypeOK, cloud, past
<1>10. CASE ConnectAgentTick
  <2>1. ClientEffect
    BY <1>10
    DEF ConnectAgentTick, Polling, StepConnectAgent, LastStep, ClientEffect,
        Building, InStep, Pauses, past
  <2> QED
    BY <1>10, <2>1, QuietCloud
    DEF ConnectAgentTick, Effect, SameTask, CloudType, TypeOK, cloud, past
<1>11. CASE ProbeReturns
  <2>1. ClientEffect
    BY <1>11, PlainAdvance
    DEF ProbeReturns, Blocked, StepConnectAgent, StepResolveAddress, LastStep,
        ClientEffect, Building, InStep, Halts, Pauses, past
  <2> QED
    BY <1>11, <2>1, QuietCloud
    DEF ProbeReturns, Effect, SameTask, CloudType, TypeOK, cloud, past
<1>12. CASE ProbeCancelled
  <2>1. ClientEffect
    BY <1>12
    DEF ProbeCancelled, Blocked, StepConnectAgent, LastStep, ClientEffect,
        Building, InStep, Pauses, past
  <2> QED
    BY <1>12, <2>1, QuietCloud
    DEF ProbeCancelled, Effect, SameTask, CloudType, TypeOK, cloud, past
<1>13. CASE BeginExternal
  <2>1. ClientEffect
    BY <1>13
    DEF BeginExternal, At, StepConnectSSH, StepProvision, LastStep,
        ClientEffect, Building, InStep, Pauses, past
  <2> QED
    BY <1>13, <2>1, QuietCloud
    DEF BeginExternal, Effect, SameTask, CloudType, TypeOK, cloud, past
<1>14. CASE ConnectSSHReturns
  <2>1. ClientEffect
    BY <1>14, PlainAdvance
    DEF ConnectSSHReturns, Blocked, StepConnectSSH, StepResolveAddress,
        LastStep, ClientEffect, Building, InStep, Halts, past
  <2> QED
    BY <1>14, <2>1, QuietCloud
    DEF ConnectSSHReturns, Effect, SameTask, CloudType, TypeOK, cloud, past
<1>15. CASE ProvisionReturns
  <2>1. ClientEffect
    BY <1>15, PlainAdvance
    DEF ProvisionReturns, Blocked, StepProvision, StepResolveAddress, LastStep,
        ClientEffect, Building, InStep, Halts, past
  <2> QED
    BY <1>15, <2>1, QuietCloud
    DEF ProvisionReturns, Effect, SameTask, CloudType, TypeOK, cloud, past
<1>16. CASE ExternalCancelled
  <2>1. ClientEffect
    BY <1>16
    DEF ExternalCancelled, Blocked, StepConnectSSH, StepProvision, LastStep,
        ClientEffect, Building, InStep, Halts, past
  <2> QED
    BY <1>16, <2>1, QuietCloud
    DEF ExternalCancelled, Effect, SameTask, CloudType, TypeOK, cloud, past
<1>17. CASE BeginShutdown
  <2>1. ClientEffect
    BY <1>17
    DEF BeginShutdown, At, StepShutdown, LastStep, ClientEffect, Building,
        InStep, Halts, Pauses, past
  <2> QED
    BY <1>17, <2>1, QuietCloud
    DEF BeginShutdown, Effect, SameTask, CloudType, TypeOK, VMStatus, past
<1>18. CASE ShutdownTick
  <2>1. ClientEffect
    BY <1>18, PlainAdvance
    DEF ShutdownTick, Polling, Conclude, StepShutdown, StepResolveAddress,
        LastStep, ClientEffect, Building, InStep, Halts, past
  <2> QED
    BY <1>18, <2>1, QuietCloud
    DEF ShutdownTick, Effect, SameTask, CloudType, TypeOK, cloud, past
<1>19. CASE BeginPushImage
  <2>1. ClientEffect
    BY <1>19
    DEF BeginPushImage, At, StepPushImage, LastStep, ClientEffect, Building,
        InStep, Halts, Pauses, past
  <2> QED
    BY <1>19, <2>1, QuietCloud
    DEF BeginPushImage, Effect, SameTask, CloudType, TypeOK, JobStatus, past
<1>20. CASE PushImageTick
  <2>1. ClientEffect
    BY <1>20, PlainAdvance
    DEF PushImageTick, Polling, Conclude, StepPushImage, StepResolveAddress,
        LastStep, ClientEffect, Building, InStep, Halts, past
  <2> QED
    BY <1>20, <2>1, QuietCloud
    DEF PushImageTick, Effect, SameTask, CloudType, TypeOK, cloud, past
<1>21. CASE PollTimeout
  <2>1. ClientEffect
    BY <1>21
    DEF PollTimeout, LastStep, ClientEffect, Building, InStep, Halts, Control,
        past
  <2> QED
    BY <1>21, <2>1, QuietCloud
    DEF PollTimeout, Effect, SameTask, CloudType, TypeOK, cloud, past
<1>22. CASE PollCancelled
  <2>1. ClientEffect
    BY <1>22
    DEF PollCancelled, LastStep, ClientEffect, Building, InStep, Halts,
        Control, past
  <2> QED
    BY <1>22, <2>1, QuietCloud
    DEF PollCancelled, Effect, SameTask, CloudType, TypeOK, cloud, past
<1>23. CASE RegisterImage
  <2> DEFINE keys == {"created_image", "vm_image"}
  <2>1. /\ "image" \in Resource \ {"eip"} /\ keys \in SUBSET BagKey
        /\ KeyOf["image"] \in keys
        /\ \A q \in Resource : KeyOf[q] \in keys => q = "image"
    BY DEF Resource, BagKey, KeyOf
  <2>0. At(StepRegisterImage)
    BY <1>23 DEF RegisterImage
  <2>2. InStep /\ pos = CleanerOf["image"] /\ pos # StepResolveAddress
    BY <2>0
    DEF At, InStep, Building, CleanerOf, StepRegisterImage, StepResolveAddress,
        LastStep
  <2>3. CASE Create("image", keys)
    <3>1. /\ Advances \/ Halts
          /\ CloudEffect
          /\ res' \in [Resource -> {"absent", "live", "gone"}] /\ lost' \subseteq Resource
      BY <1>23, <2>1, <2>2, <2>3, CreateEffect DEF RegisterImage
    <3> QED
      BY <1>23, <3>1
      DEF RegisterImage, Effect, SameTask, ClientEffect, CloudType, TypeOK
  <2>4. CASE Continue({"vm_image"}) /\ UNCHANGED <<res, lost>>
    BY <1>23, <2>2, <2>4, PlainAdvance, QuietCloud
    DEF RegisterImage, Effect, SameTask, ClientEffect, CloudType, TypeOK
  <2> QED
    BY <1>23, <2>3, <2>4 DEF RegisterImage
<1>24. CASE SSHKey
  <2> DEFINE keys == {"temp_ssh_key_id"}
  <2>1. /\ "key" \in Resource \ {"eip"} /\ keys \in SUBSET BagKey
        /\ KeyOf["key"] \in keys
        /\ \A q \in Resource : KeyOf[q] \in keys => q = "key"
    BY DEF Resource, BagKey, KeyOf
  <2>0. At(StepSSHKey)
    BY <1>24 DEF SSHKey
  <2>2. InStep /\ pos = CleanerOf["key"] /\ pos # StepResolveAddress
    BY <2>0
    DEF At, InStep, Building, CleanerOf, StepSSHKey, StepResolveAddress,
        LastStep
  <2>3. /\ Advances \/ Halts
        /\ CloudEffect
        /\ res' \in [Resource -> {"absent", "live", "gone"}] /\ lost' \subseteq Resource
    BY <1>24, <2>1, <2>2, CreateEffect DEF SSHKey
  <2> QED
    BY <1>24, <2>3 DEF SSHKey, Effect, SameTask, ClientEffect, CloudType, TypeOK
<1>25. CASE CreateInstance
  <2> DEFINE keys == {"instance_id"}
  <2>1. /\ "instance" \in Resource \ {"eip"} /\ keys \in SUBSET BagKey
        /\ KeyOf["instance"] \in keys
        /\ \A q \in Resource : KeyOf[q] \in keys => q = "instance"
    BY DEF Resource, BagKey, KeyOf
  <2>0. At(StepCreateInstance)
    BY <1>25 DEF CreateInstance
  <2>2. InStep /\ pos = CleanerOf["instance"] /\ pos # StepResolveAddress
    BY <2>0
    DEF At, InStep, Building, CleanerOf, StepCreateInstance,
        StepResolveAddress, LastStep
  <2>3. /\ Advances \/ Halts
        /\ CloudEffect
        /\ res' \in [Resource -> {"absent", "live", "gone"}] /\ lost' \subseteq Resource
    BY <1>25, <2>1, <2>2, CreateEffect DEF CreateInstance
  <2>4. SameTask
    BY <1>25 DEF CreateInstance, LoginUser, SameTask, TypeOK, Config
  <2>5. vm' \in VMStatus
    BY <1>25 DEF CreateInstance, TypeOK, VMStatus
  <2> QED
    BY <1>25, <2>3, <2>4, <2>5
    DEF CreateInstance, Effect, ClientEffect, CloudType, TypeOK
<1>26. CASE CleanupNothing
  BY <1>26, QuietCloud
  DEF CleanupNothing, Effect, SameTask, ClientEffect, CloudType, TypeOK, cloud,
      past
<1>27. CASE Return
  BY <1>27, QuietCloud
  DEF Return, Effect, SameTask, ClientEffect, CloudType, TypeOK, cloud, past
<1>28. ASSUME NEW r \in Resource, CleanupDeletes(r) PROVE Effect
  <2>1. res' \in [Resource -> {"absent", "live", "gone"}]
    BY <1>28 DEF CleanupDeletes, Delete, TypeOK
  <2>2. vm' \in VMStatus
    BY <1>28 DEF CleanupDeletes, Delete, TypeOK, VMStatus
  <2>3. CloudEffect
    BY <1>28 DEF CleanupDeletes, CloudEffect
  <2> QED
    BY <1>28, <2>1, <2>2, <2>3
    DEF CleanupDeletes, Effect, SameTask, ClientEffect, CloudType, TypeOK
<1>29. CASE Cancel
  BY <1>29, QuietCloud
  DEF Cancel, Effect, SameTask, ClientEffect, CloudType, TypeOK, cloud, past,
      client, VMStatus, JobStatus
<1>30. CASE WorkerMovesVM
  BY <1>30, QuietCloud
  DEF WorkerMovesVM, Effect, SameTask, ClientEffect, CloudType, TypeOK, cloud,
      past, client, VMStatus, JobStatus
<1>31. CASE WorkerEndsJob
  BY <1>31, QuietCloud
  DEF WorkerEndsJob, Effect, SameTask, ClientEffect, CloudType, TypeOK, cloud,
      past, client, VMStatus, JobStatus
<1>32. CASE WorkerAllocatesEIP
  <2>1. res' = [res EXCEPT !["eip"] = "live"] /\ cfg.eip /\ UNCHANGED lost
    BY <1>32 DEF WorkerAllocatesEIP, past
  <2>2. CloudEffect /\ res' \in [Resource -> {"absent", "live", "gone"}]
    BY <1>32, <2>1 DEF WorkerAllocatesEIP, TypeOK, CloudEffect, Appears, Resource
  <2> QED
    BY <1>32, <2>2
    DEF WorkerAllocatesEIP, Effect, SameTask, ClientEffect, CloudType, TypeOK,
        past
<1> QED
  BY <1>1, <1>2, <1>3, <1>4, <1>5, <1>6, <1>7, <1>8, <1>9, <1>10, <1>11,
     <1>12, <1>13, <1>14, <1>15, <1>16, <1>17, <1>18, <1>19, <1>20, <1>21, <1>22,
     <1>23, <1>24, <1>25, <1>26, <1>27, <1>28, <1>29, <1>30, <1>31, <1>32
  DEF Next, RunStep, Tick, Teardown, Worker

-----------------------------------------------------------------------------
(***************************************************************************)
(* Each part of the invariant is preserved by every Effect.                *)
(***************************************************************************)
\* Types and control are preserved: the runner never runs off the end of the
\* step list, and it has deferred exactly the Cleanups of the steps it ran.
LEMMA ControlStep ==
  ASSUME TypeOK, Control, Effect
  PROVE  TypeOK' /\ Control'
<1> USE DEF Building, LastStep
<1>1. ASSUME Advances \/ Halts \/ Pauses, UNCHANGED <<result, tried>>
      PROVE  TypeOK' /\ Control'
  <2>1. /\ phase' \in Phase /\ pos' \in 1..(LastStep + 1) /\ defers' \in 0..LastStep
    BY <1>1
    DEF TypeOK, Advances, Halts, Pauses, InStep, Continue, Halt, Enter, Phase,
        Control
  <2>3. bag' \subseteq BagKey
    <3>1. CASE Advances
      BY <3>1 DEF TypeOK, Advances, Continue
    <3>2. CASE Halts
      BY <3>2 DEF TypeOK, Halts, Halt, BagKey
    <3>3. CASE Pauses
      BY <3>3 DEF TypeOK, Pauses, Enter
    <3> QED
      BY <1>1, <3>1, <3>2, <3>3
  <2>2. Control'
    BY <1>1
    DEF TypeOK, Advances, Halts, Pauses, InStep, Continue, Halt, Enter,
        Control
  <2> QED
    BY <1>1, <2>1, <2>2, <2>3 DEF TypeOK, Effect, SameTask, CloudType
<1>2. ASSUME RunnerStops \/ UNCHANGED client, UNCHANGED <<result, tried>>
      PROVE  TypeOK' /\ Control'
  BY <1>2
  DEF RunnerStops, client, TypeOK, Control, Effect, SameTask, CloudType, Phase
<1>3. CASE CleanupNothing
  BY <1>3
  DEF CleanupNothing, CleanupsLeft, TypeOK, Control, Effect, SameTask,
      CloudType, Phase, past
<1>4. ASSUME NEW r \in Resource, CleanupDeletes(r)
      PROVE  TypeOK' /\ Control'
  BY <1>4
  DEF CleanupDeletes, CleanupsLeft, TypeOK, Control, Effect, SameTask,
      CloudType, Phase
<1>5. CASE Return
  BY <1>5
  DEF Return, CleanupsLeft, TypeOK, Control, Effect, SameTask, CloudType,
      Phase, past
<1> QED
  BY <1>1, <1>2, <1>3, <1>4, <1>5 DEF Effect, ClientEffect

\* Each resource is deleted by a step of its own.
LEMMA Bounds ==
  /\ \A r \in Resource : CleanerOf[r] \in 1..LastStep
  /\ \A r, s \in Resource : CleanerOf[r] = CleanerOf[s] => r = s
  /\ CleanerOf["eip"] = StepResolveAddress
BY DEF Resource, CleanerOf, StepRegisterImage, StepSSHKey, StepCreateInstance,
       StepResolveAddress, LastStep

\* Control only moves forward, and never from teardown back to building.
LEMMA ClientMonotone ==
  ASSUME TypeOK, Control, Effect
  PROVE  /\ pos' \in Int /\ pos' >= pos
         /\ bag \subseteq bag' /\ tried \subseteq tried'
         /\ ~Building => ~Building' /\ bag' = bag /\ pos' = pos
BY DEF TypeOK, Effect, ClientEffect, Advances, Halts, Pauses, InStep, Continue, Halt,
       Enter, RunnerStops, client, CleanupNothing, CleanupDeletes, Return, Building, past

\* The cloud half of a step, one resource at a time.
LEMMA CloudChange ==
  ASSUME TypeOK, Effect, NEW r \in Resource, res'[r] # res[r]
  PROVE  \/ res'[r] = "live" /\ Appears(r)
         \/ res[r] = "live" /\ res'[r] = "gone" /\ ~cfg.keep
<1>1. CASE UNCHANGED res
  BY <1>1
<1>2. ASSUME NEW q \in Resource, res' = [res EXCEPT ![q] = "live"], Appears(q)
      PROVE  res'[r] = "live" /\ Appears(r)
  BY <1>2 DEF TypeOK
<1>3. ASSUME NEW q \in Resource, CleanupDeletes(q)
      PROVE  res[r] = "live" /\ res'[r] = "gone" /\ ~cfg.keep
  BY <1>3 DEF CleanupDeletes, Delete, Due, TypeOK
<1> QED
  BY <1>1, <1>2, <1>3 DEF Effect, CloudEffect

\* What the build knows about the server stays right: a resource appears only at
\* its own step, and its id is recorded in the same step or its loss is.
LEMMA KnowledgeStep ==
  ASSUME TypeOK, Control, Knowledge, Effect
  PROVE  Knowledge'
<1> USE ClientMonotone
<1>1. \A r \in Resource : Captured(r)' => res'[r] # "absent"
  <2>1. ASSUME Advances
        PROVE  \A r \in Resource : Captured(r)' => Captured(r) \/ res'[r] = "live"
    BY <2>1 DEF Advances, Continue, Captured
  <2>2. ASSUME ~Advances
        PROVE  \A r \in Resource : Captured(r)' => Captured(r)
    <3>1. bag' \subseteq bag \cup {"error"}
      BY <2>2 DEF Effect, ClientEffect, Halts, Halt, Pauses, Enter, RunnerStops, client,
                  CleanupNothing, CleanupDeletes, Return
    <3>2. \A r \in Resource : KeyOf[r] # "error"
      BY DEF Resource, KeyOf
    <3> QED
      BY <3>1, <3>2 DEF Captured
  <2> QED
    BY <2>1, <2>2, CloudChange DEF Knowledge
<1>2. ASSUME NEW r \in Resource \ {"eip"}
      PROVE  /\ res'[r] = "live" => r \in lost' \/ Captured(r)'
             /\ res'[r] # "absent" => ~Building' \/ CleanerOf[r] < pos'
  <2>1. CASE res'[r] = res[r]
    BY <2>1, Bounds DEF Effect, CloudEffect, Knowledge, Captured, TypeOK
  <2>2. CASE res'[r] = "live" /\ Appears(r)
    BY <2>2, Bounds DEF Appears, TypeOK, InStep
  <2>3. CASE res[r] = "live" /\ res'[r] = "gone"
    BY <2>3, Bounds DEF Knowledge, TypeOK
  <2> QED
    BY <2>1, <2>2, <2>3, CloudChange
<1>3. res'["eip"] = "live" => cfg'.eip
  <2>1. "eip" \in Resource
    BY DEF Resource
  <2> QED
    BY <2>1, CloudChange DEF Effect, SameTask, Appears, Knowledge
<1>4. ~SkipsAddress(cfg') /\ cfg'.eip /\ pos' > StepResolveAddress => Captured("eip")'
  <2>1. CASE pos > StepResolveAddress
    BY <2>1 DEF Effect, SameTask, SkipsAddress, Knowledge, Captured
  <2>2. CASE pos = StepResolveAddress /\ Advances
    BY <2>2 DEF Effect, SameTask, SkipsAddress, Advances, Continue, Captured
  <2>3. CASE pos = StepResolveAddress /\ ~Advances
    BY <2>3 DEF Effect, ClientEffect, Halts, Halt, Pauses, Enter, RunnerStops, client,
                CleanupNothing, CleanupDeletes, Return
  <2>4. CASE pos < StepResolveAddress
    <3>1. pos' <= pos + 1
      BY DEF TypeOK, Effect, ClientEffect, Advances, Continue, Halts, Halt, Pauses, Enter,
             RunnerStops, client, CleanupNothing, CleanupDeletes, Return
    <3> QED
      BY <2>4, <3>1 DEF TypeOK, StepResolveAddress
  <2> QED
    BY <2>1, <2>2, <2>3, <2>4 DEF TypeOK, StepResolveAddress
<1> QED
  BY <1>1, <1>2, <1>3, <1>4 DEF Knowledge

\* Teardown works down the steps: above the Cleanup that is next, everything
\* captured has been deleted; below it, nothing has.
LEMMA ProgressStep ==
  ASSUME TypeOK, Control, Progress, Effect
  PROVE  Progress'
<1>1. ASSUME NEW r \in Resource, Captured(r)'
      PROVE  CleanerOf[r] <= defers' \/ r \in tried' \/ cfg'.keep
  <2>1. CASE Advances
    <3>1. defers' = pos /\ (Captured(r) \/ CleanerOf[r] = pos)
      BY <1>1, <2>1 DEF Advances, Continue, Captured
    <3> QED
      BY <2>1, <3>1, Bounds, ClientMonotone
      DEF Advances, InStep, Progress, Control, TypeOK, Effect, SameTask
  <2>2. CASE ~Advances
    <3>1. Captured(r)
      <4>1. bag' \subseteq bag \cup {"error"}
        BY <2>2 DEF Effect, ClientEffect, Halts, Halt, Pauses, Enter, RunnerStops, client,
                    CleanupNothing, CleanupDeletes, Return
      <4>2. KeyOf[r] # "error"
        BY DEF Resource, KeyOf
      <4> QED
        BY <1>1, <4>1, <4>2 DEF Captured
    <3>2. CASE CleanerOf[r] <= defers
      <4>1. CASE CleanupNothing
        BY <3>1, <3>2, <4>1, Bounds
        DEF CleanupNothing, CleanupsLeft, Due, Captured, TypeOK, Effect, SameTask
      <4>2. ASSUME NEW q \in Resource, CleanupDeletes(q)
            PROVE  CleanerOf[r] <= defers' \/ r \in tried' \/ cfg'.keep
        BY <3>2, <4>2, Bounds DEF CleanupDeletes, CleanupsLeft, Due, TypeOK
      <4>3. CASE Halts \/ Pauses \/ RunnerStops \/ UNCHANGED client \/ Return
        <5>1. defers' \in Int /\ defers' >= defers
          BY <4>3 DEF Halts, Halt, InStep, Pauses, Enter, RunnerStops, client, Return,
                      Control, TypeOK
        <5> QED
          BY <3>2, <5>1, Bounds DEF TypeOK
      <4> QED
        BY <2>2, <4>1, <4>2, <4>3 DEF Effect, ClientEffect
    <3> QED
      BY <3>1, <3>2, ClientMonotone DEF Progress, Effect, SameTask
  <2> QED
    BY <2>1, <2>2
<1>2. ASSUME NEW r \in tried'
      PROVE  ~Building' /\ defers' < CleanerOf[r]
  <2>1. CASE r \in tried
    <3>1. ~Building /\ defers < CleanerOf[r] /\ r \in Resource
      BY <2>1 DEF Progress, TypeOK
    <3>2. defers' <= defers
      BY <3>1 DEF Effect, ClientEffect, Advances, Halts, Pauses, InStep, RunnerStops, Building,
                  client, CleanupNothing, CleanupDeletes, Return, TypeOK
    <3>3. defers' \in Int
      BY <3>1 DEF Effect, ClientEffect, Advances, Halts, Pauses, InStep, RunnerStops, Building,
                  client, CleanupNothing, CleanupDeletes, Return, TypeOK
    <3> QED
      BY <3>1, <3>2, <3>3, ClientMonotone, Bounds DEF TypeOK
  <2>2. CASE r \notin tried
    <3>1. PICK q \in Resource : CleanupDeletes(q)
      BY <1>2, <2>2 DEF Effect, ClientEffect, CleanupNothing, Return, past
    <3> QED
      BY <1>2, <2>2, <3>1 DEF CleanupDeletes, CleanupsLeft, Due, Building, TypeOK
  <2> QED
    BY <2>1, <2>2
<1>3. cfg'.keep => tried' = {} /\ \A r \in Resource : res'[r] # "gone"
  <2>1. ASSUME cfg.keep
        PROVE  tried' = {} /\ \A r \in Resource : res'[r] # "gone"
    <3>1. ~\E q \in Resource : CleanupDeletes(q)
      BY <2>1 DEF CleanupDeletes, Due
    <3>2. tried' = tried
      BY <3>1 DEF Effect, ClientEffect, CleanupNothing, Return, past
    <3> QED
      BY <2>1, <3>2, CloudChange DEF Progress
  <2> QED
    BY <2>1 DEF Effect, SameTask
<1> QED
  BY <1>1, <1>2, <1>3 DEF Progress

-----------------------------------------------------------------------------
(***************************************************************************)
(* The invariant, and what follows from it.                                *)
(***************************************************************************)
\* A build starts in the invariant.
LEMMA InitInvariant == Init => IInv
<1> SUFFICES ASSUME Init PROVE IInv
  OBVIOUS
<1>1. TypeOK
  <2>1. cfg \in Config
    BY ConfigsAssumption DEF Init, PreparedConfig
  <2>2. res \in [Resource -> {"absent", "live", "gone"}]
    BY DEF Init
  <2>3. phase \in Phase /\ pos \in 1..(LastStep + 1) /\ defers \in 0..LastStep
    BY DEF Init, Phase, LastStep
  <2>4. vm \in VMStatus /\ job \in JobStatus
    BY DEF Init, VMStatus, JobStatus
  <2> QED
    BY <2>1, <2>2, <2>3, <2>4 DEF Init, TypeOK
<1>2. Control
  BY DEF Init, Control, Building
<1>3. Knowledge
  BY DEF Init, Knowledge, Captured, StepResolveAddress, Resource
<1>4. Progress
  BY DEF Init, Progress, Captured
<1> QED
  BY <1>1, <1>2, <1>3, <1>4 DEF IInv

\* No step leaves the invariant.
LEMMA NextInvariant == IInv /\ [Next]_vars => IInv'
<1> SUFFICES ASSUME IInv, [Next]_vars PROVE IInv'
  OBVIOUS
<1>1. CASE Next
  BY <1>1, StepEffect, ControlStep, KnowledgeStep, ProgressStep DEF IInv
<1>2. CASE UNCHANGED vars
  BY <1>2 DEF vars, client, cloud, past, IInv, TypeOK, Control, Knowledge, Progress,
              Building, Captured
<1> QED
  BY <1>1, <1>2

(* The invariant holds of every reachable state of a build.                *)
THEOREM InductiveInvariant == Spec => []IInv
BY InitInvariant, NextInvariant, PTL DEF Spec

(* Every variable of a build has its type, for every set of prepared       *)
(* configurations.                                                         *)
THEOREM TypeCorrect == Spec => []TypeOK
<1>1. IInv => TypeOK
  BY DEF IInv
<1> QED
  BY <1>1, InductiveInvariant, PTL

(* Nothing leaks unaccounted: LeaksAccounted, in every configuration.      *)
THEOREM NoUnaccountedLeak == Spec => []LeaksAccounted
<1>1. IInv => LeaksAccounted
  <2> SUFFICES ASSUME IInv, phase = "returned", ~cfg.keep,
                      NEW r \in Resource, res[r] = "live"
               PROVE  \/ r \in tried
                      \/ r \in lost
                      \/ r = "eip" /\ (SkipsAddress(cfg) \/ pos <= StepResolveAddress)
    BY DEF LeaksAccounted
  <2>1. Captured(r) => r \in tried
    BY Bounds DEF IInv, Control, Progress, LastStep
  <2>2. CASE r # "eip"
    BY <2>1, <2>2 DEF IInv, Knowledge
  <2>3. CASE r = "eip"
    BY <2>1, <2>3 DEF IInv, Knowledge, TypeOK, StepResolveAddress
  <2> QED
    BY <2>2, <2>3
<1> QED
  BY <1>1, InductiveInvariant, PTL

(* Teardown gives resources back in the reverse order of their use, in     *)
(* every configuration: TeardownInReverse.                                 *)
THEOREM ReverseTeardown == Spec => []TeardownInReverse
<1>1. IInv => TeardownInReverse
  <2> SUFFICES ASSUME IInv, NEW p \in Uses, p[2] \in tried, Captured(p[1])
               PROVE  p[1] \in tried
    BY DEF TeardownInReverse
  <2>1. /\ p[1] \in Resource /\ p[2] \in Resource
        /\ CleanerOf[p[2]] < CleanerOf[p[1]]
    BY DEF Uses, Resource, CleanerOf, StepRegisterImage, StepSSHKey, StepCreateInstance,
           StepResolveAddress
  <2>2. defers < CleanerOf[p[2]] /\ ~cfg.keep
    BY DEF IInv, Progress
  <2> QED
    BY <2>1, <2>2, Bounds DEF IInv, Progress, TypeOK
<1> QED
  BY <1>1, InductiveInvariant, PTL

(* With keep_vm no Cleanup deletes anything, at whatever step the build    *)
(* failed or was cancelled.                                                *)
KeptBuildUntouched ==
  cfg.keep => tried = {} /\ \A r \in Resource : res[r] # "gone"

(* keep_vm keeps everything, wherever the build stopped: no Cleanup        *)
(* deletes, in any configuration (KeptBuildUntouched).                     *)
THEOREM KeepIsHonoured == Spec => []KeptBuildUntouched
<1>1. IInv => KeptBuildUntouched
  BY DEF IInv, Progress, KeptBuildUntouched
<1> QED
  BY <1>1, InductiveInvariant, PTL

-----------------------------------------------------------------------------
(***************************************************************************)
(* A build implements ResourceLease.                                       *)
(***************************************************************************)
\* The lease starts when the build does.
LEMMA InitRefines == Init => Lease!Init
<1> SUFFICES ASSUME Init PROVE Lease!Init
  OBVIOUS
<1>1. cfg.keep \in BOOLEAN
  <2>1. cfg \in Config
    BY ConfigsAssumption DEF Init, PreparedConfig
  <2> QED
    BY <2>1 DEF Config
<1> QED
  BY <1>1 DEF Init, Lease!Init


\* Every step of a build is a step of its lease, or none.
LEMMA NextRefines == IInv /\ [Next]_vars => [Lease!Next]_(Lease!vars)
<1> SUFFICES ASSUME IInv, Next PROVE [Lease!Next]_(Lease!vars)
  BY DEF vars, client, cloud, past, Lease!vars
<1> DEFINE own   == {"image", "key", "instance"}
           stage == IF phase = "cleanup" THEN "teardown"
                    ELSE IF phase = "returned" THEN "returned" ELSE "building"
           held  == {r \in Resource : res[r] = "live"}
           gone  == {r \in Resource : res[r] = "gone"}
<1>1. Effect /\ TypeOK /\ Control /\ Knowledge /\ Progress
  BY StepEffect DEF IInv
<1>2. cfg'.keep = cfg.keep
  BY <1>1 DEF Effect, SameTask
<1>3. ASSUME UNCHANGED <<res, result, tried>>, Building
      PROVE  [Lease!Next]_(Lease!vars)
  <2>1. stage = "building" /\ stage' \in {"building", "teardown"}
    BY <1>1, <1>3
    DEF Building, Effect, ClientEffect, Advances, Halts, Pauses, Continue, Halt, Enter,
        RunnerStops, client, CleanupNothing, CleanupDeletes, Return
  <2> QED
    BY <1>2, <1>3, <2>1 DEF Lease!Next, Lease!BeginTeardown, Lease!vars
<1>4. ASSUME UNCHANGED <<res, result, tried>>, ~Building, UNCHANGED phase
      PROVE  UNCHANGED Lease!vars
  BY <1>2, <1>4 DEF Lease!vars
<1>5. ASSUME NEW r \in Resource, res' = [res EXCEPT ![r] = "live"], Appears(r)
      PROVE  Lease!Next
  <2>1. res[r] = "absent"
    BY <1>1, <1>5 DEF Appears, Knowledge, TypeOK, InStep, Control
  <2>2. /\ r \notin held \cup gone
        /\ held' = held \cup {r} /\ gone' = gone
    BY <1>1, <1>5, <2>1 DEF TypeOK
  <2>3. UNCHANGED <<result, tried>>
    BY <1>1, <1>5 DEF Effect, ClientEffect, Appears, InStep, Building, client,
                      CleanupNothing, CleanupDeletes, Return, TypeOK, past
  <2>4. CASE r = "eip"
    <3>1. "instance" \in held /\ UNCHANGED phase
      BY <1>5, <2>4 DEF Appears, client, Resource
    <3> QED
      BY <1>2, <2>2, <2>3, <2>4, <3>1 DEF Lease!Next, Lease!Attach
  <2>5. CASE r # "eip"
    <3>1. r \in own
      BY <2>5 DEF Resource
    <3>2. stage = "building" /\ stage' \in {"building", "teardown"}
      BY <1>1, <1>5, <2>5
      DEF Appears, InStep, Building, Effect, ClientEffect, Advances, Halts, Pauses, Continue,
          Halt, Enter, RunnerStops, client, CleanupNothing, CleanupDeletes, Return
    <3> QED
      BY <1>2, <2>2, <2>3, <3>1, <3>2 DEF Lease!Next, Lease!Acquire
  <2> QED
    BY <2>4, <2>5
<1>6. ASSUME NEW r \in Resource, CleanupDeletes(r)
      PROVE  Lease!Next
  <2> DEFINE freed == {s \in Resource : res[s] = "live" /\ res'[s] = "gone"}
  <2>1. /\ phase = "cleanup" /\ ~cfg.keep /\ Captured(r) /\ CleanerOf[r] = defers
        /\ UNCHANGED <<phase, result>> /\ tried' = tried \cup {r}
    BY <1>6 DEF CleanupDeletes, Due, Captured
  <2>2. r \in held \cup gone /\ r \notin tried
    BY <1>1, <2>1, Bounds DEF Knowledge, Progress, TypeOK
  <2>3. /\ freed \in SUBSET ({r} \cup (IF r = "instance" THEN {"eip"} ELSE {}))
        /\ \A s \in Resource \ freed : res'[s] = res[s]
    BY <1>1, <1>6 DEF CleanupDeletes, Delete, TypeOK
  <2>4. held' = held \ freed /\ gone' = gone \cup (held \cap freed)
    BY <2>3
  <2>5. r \in own \cup {"eip"}
    BY DEF Resource
  <2> HIDE DEF freed, held, gone
  <2>6. Lease!GiveBack(r)
    BY <1>2, <2>1, <2>2, <2>3, <2>4 DEF Lease!GiveBack, held, gone
  <2> QED
    BY <2>5, <2>6 DEF Lease!Next
<1>7. CASE Return
  <2>1. /\ phase = "cleanup" /\ phase' = "returned" /\ UNCHANGED <<res, tried>>
        /\ result' = "error" \/ (result' = "artifact" /\ Captured("instance"))
    BY <1>7 DEF Return, Captured, KeyOf, cloud, past
  <2>2. result' = "artifact" => "instance" \in held \cup gone
    BY <1>1, <2>1 DEF Knowledge, Resource, TypeOK
  <2> QED
    BY <1>2, <2>1, <2>2 DEF Lease!Next, Lease!Return
<1>8. ASSUME UNCHANGED res PROVE [Lease!Next]_(Lease!vars)
  <2>1. CASE (Advances \/ Halts \/ Pauses \/ RunnerStops) /\ UNCHANGED <<result, tried>>
    BY <1>3, <1>8, <2>1 DEF Advances, Halts, Pauses, RunnerStops, InStep, Building
  <2>2. CASE UNCHANGED client /\ UNCHANGED <<result, tried>>
    BY <1>3, <1>4, <1>8, <2>2 DEF client
  <2>3. CASE CleanupNothing
    BY <1>4, <1>8, <2>3 DEF CleanupNothing, Building, past
  <2> QED
    BY <1>1, <1>6, <1>7, <2>1, <2>2, <2>3 DEF Effect, ClientEffect
<1> QED
  BY <1>1, <1>5, <1>6, <1>8 DEF Effect, CloudEffect

(* A build honours its lease, in every configuration: it deletes only what *)
(* it created, each once at most, and only in a teardown without keep_vm   *)
(* (LeaseHonoured).                                                        *)
THEOREM LeaseImplemented == Spec => LeaseHonoured
<1>1. Init => Lease!Init
  BY InitRefines
<1>2. IInv /\ [Next]_vars => [Lease!Next]_(Lease!vars)
  BY NextRefines
<1>3. Spec => Lease!Spec
  BY <1>1, <1>2, InductiveInvariant, PTL DEF Spec, Lease!Spec
<1> QED
  BY <1>3 DEF LeaseHonoured

=============================================================================
