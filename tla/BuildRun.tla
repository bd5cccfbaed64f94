------------------------------- MODULE BuildRun -------------------------------
(***************************************************************************)
(* One build of the xcloud Packer plugin: Builder.Run (builder.go) hands a *)
(* list of steps to the multistep runner, which runs them in order and     *)
(* then runs the Cleanup of every step it ran, last one first.  The steps  *)
(* talk to the Cloud Console API, whose worker advances the VM, the        *)
(* elastic IP and the image-push job on its own, and the build may be      *)
(* cancelled at any moment.                                                *)
(*                                                                         *)
(* An ordinary API call (client.doJSON) is one action: it is bounded by    *)
(* the 60 s timeout of the HTTP client, and its outcomes are answered,     *)
(* refused, and performed with the answer lost.  The calls that have no    *)
(* such bound - the agent probe over streamHC, the SSH connection, the     *)
(* provisioners - are two actions, with phase = "blocked" in between.      *)
(***************************************************************************)
EXTENDS Integers, BuildConfig

CONSTANT Configs   \* the prepared configurations a run of the model explores

ASSUME ConfigsAssumption == Configs \subseteq PreparedConfig

(***************************************************************************)
(* The steps, numbered in the order Builder.Run appends them.              *)
(***************************************************************************)
StepResolveRegion  == 1
StepRegisterImage  == 2
StepSSHKey         == 3
StepCreateNetwork  == 4
StepCreateInstance == 5
StepWaitRunning    == 6
StepResolveAddress == 7
StepConnectAgent   == 8
StepConnectSSH     == 9
StepProvision      == 10
StepShutdown       == 11
StepPushImage      == 12
LastStep           == 12

Included(c, s) ==
  /\ s = StepSSHKey       => NeedsKeyRegistration(c)
  /\ s = StepConnectAgent => c.comm = "agent"
  /\ s = StepConnectSSH   => c.comm = "ssh"
  /\ s = StepProvision    => c.comm # "none"
  /\ s \in {StepShutdown, StepPushImage} => c.push

(***************************************************************************)
(* What a build creates in the tenant, the state-bag key under which it    *)
(* remembers the id, and the step whose Cleanup deletes it.                *)
(***************************************************************************)
Resource == {"image", "key", "instance", "eip"}

BagKey == {"vm_image", "created_image", "temp_ssh_key_id", "instance_id",
           "elastic_ip_id", "vm_ip", "communicator", "pushed_image", "error"}

KeyOf ==
  [ image |-> "created_image", key |-> "temp_ssh_key_id",
    instance |-> "instance_id", eip |-> "elastic_ip_id" ]

\* Mutant: the temporary key is deleted by a step whose Cleanup runs earlier.
CleanerKeyEarly ==
  [ image |-> StepRegisterImage, key |-> StepWaitRunning,
    instance |-> StepCreateInstance, eip |-> StepResolveAddress ]

CleanerOf ==
  [ image |-> StepRegisterImage, key |-> StepSSHKey,
    instance |-> StepCreateInstance, eip |-> StepResolveAddress ]

VARIABLES
  cfg,        \* b.config; the run writes RegionID and Comm.SSHUsername into it
  phase,      \* control point of the plugin
  pos,        \* the step the runner is at; LastStep + 1 when all have run
  defers,     \* the runner has deferred the Cleanups of steps 1..defers
  bag,        \* keys present in the state bag
  cancelled,  \* the build context is cancelled
  result,     \* what Builder.Run returned
  res,        \* server: does each resource of this build exist
  vm,         \* server: status (and pending action) of the builder VM
  job,        \* server: the image-push job
  lost,       \* history: created on the server, the answer never arrived
  tried       \* history: a Cleanup issued the DELETE of this resource

client == <<phase, pos, defers, bag>>
cloud  == <<res, vm, job>>
past   == <<lost, tried>>
vars   == <<cfg, client, cancelled, result, cloud, past>>

Phase    == {"run", "poll", "blocked", "cleanup", "returned"}
VMStatus == {"absent", "pending", "starting", "running", "stopping", "stopped",
             "error", "deleted"}
JobStatus == {"none", "running", "succeeded", "failed", "cancelled"}

TypeOK ==
  /\ cfg \in Config
  /\ phase \in Phase
  /\ pos \in 1..(LastStep + 1)
  /\ defers \in 0..LastStep
  /\ bag \subseteq BagKey
  /\ cancelled \in BOOLEAN
  /\ result \in {"none", "error", "artifact"}
  /\ res \in [Resource -> {"absent", "live", "gone"}]
  /\ vm \in VMStatus
  /\ job \in JobStatus
  /\ lost \subseteq Resource
  /\ tried \subseteq Resource

Init ==
  /\ cfg \in Configs
  /\ phase = "run" /\ pos = 1 /\ defers = 0 /\ bag = {}
  /\ cancelled = FALSE
  /\ result = "none"
  /\ res = [r \in Resource |-> "absent"]
  /\ vm = "absent"
  /\ job = "none"
  /\ lost = {} /\ tried = {}

-----------------------------------------------------------------------------
(***************************************************************************)
(* The multistep runner.  It starts a step only while the context is live, *)
(* defers the step's Cleanup once its Run has returned, and stops at the   *)
(* first ActionHalt, at a cancellation, or after the last step.            *)
(***************************************************************************)
At(s) == phase = "run" /\ pos = s /\ ~cancelled /\ Included(cfg, s)

Polling(s) == phase = "poll" /\ pos = s

Blocked(s) == phase = "blocked" /\ pos = s

Continue(keys) ==
  /\ phase' = "run" /\ pos' = pos + 1 /\ defers' = pos
  /\ bag' = bag \cup keys

Halt(keys) ==
  /\ phase' = "cleanup" /\ defers' = pos /\ UNCHANGED pos
  /\ bag' = bag \cup keys

\* Run has not returned yet: it entered its select loop, or an unbounded call.
Enter(p) == phase' = p /\ UNCHANGED <<pos, defers, bag>>

\* A step that Builder.Run did not append to the list.
OmitStep ==
  /\ phase = "run" /\ pos <= LastStep /\ ~cancelled /\ ~Included(cfg, pos)
  /\ Continue({})
  /\ UNCHANGED <<cfg, cancelled, result, cloud, past>>

RunnerStops ==
  /\ phase = "run" /\ (cancelled \/ pos > LastStep)
  /\ phase' = "cleanup"
  /\ UNCHANGED <<cfg, pos, defers, bag, cancelled, result, cloud, past>>

-----------------------------------------------------------------------------
(***************************************************************************)
(* The verdict each polling step draws from what it reads: conclude with   *)
(* ActionContinue or ActionHalt, or poll again.                            *)
(***************************************************************************)
\* Mutant: a status of "running" is taken at face value, pending action or not.
WaitVerdictNoPending(status) ==
  CASE status = "error" -> "halt"
    [] status \in {"starting", "running"} -> "continue"
    [] OTHER -> "again"

\* "starting" is status running with a pending action.
WaitVerdict(status) ==
  CASE status = "error"   -> "halt"
    [] status = "running" -> "continue"
    [] OTHER              -> "again"

\* Mutant: the VM is taken for stopped as soon as the shutdown is under way.
ShutdownVerdictEager(status) ==
  CASE status = "error" -> "halt"
    [] status \in {"stopping", "stopped"} -> "continue"
    [] OTHER -> "again"

ShutdownVerdict(status) ==
  CASE status = "error"   -> "halt"
    [] status = "stopped" -> "continue"
    [] OTHER              -> "again"

\* Mutant: a cancelled push job is not told from a finished one.
PushVerdictNoCancel(status) ==
  CASE status \in {"succeeded", "cancelled"} -> "continue"
    [] status = "failed" -> "halt"
    [] OTHER -> "again"

\* "failed" stands for failed and failed_registration.
PushVerdict(status) ==
  CASE status = "succeeded" -> "continue"
    [] status \in {"failed", "cancelled"} -> "halt"
    [] OTHER -> "again"

\* Mutant: the step halts but records no error.
ConcludeSilently(verdict, keys) ==
  \/ verdict = "continue" /\ Continue(keys)
  \/ verdict = "halt" /\ Halt({})

Conclude(verdict, keys) ==
  \/ verdict = "continue" /\ Continue(keys)
  \/ verdict = "halt" /\ Halt({"error"})

(* A POST that creates r: answered, performed with the answer lost, or     *)
(* failed.  Only in the first case does the build learn the id.            *)
Create(r, keys) ==
  \/ /\ res' = [res EXCEPT ![r] = "live"]
     /\ \/ Continue(keys) /\ UNCHANGED lost
        \/ Halt({"error"}) /\ lost' = lost \cup {r}
  \/ Halt({"error"}) /\ UNCHANGED <<res, lost>>

-----------------------------------------------------------------------------
(***************************************************************************)
(* The Run of each step.                                                   *)
(***************************************************************************)
ResolveRegion ==
  /\ At(StepResolveRegion)
  /\ \/ Continue({}) /\ cfg' = [cfg EXCEPT !.region = "id"]
     \/ cfg.region = "slug" /\ Halt({"error"}) /\ UNCHANGED cfg
  /\ UNCHANGED <<cancelled, result, cloud, past>>

RegisterImage ==
  /\ At(StepRegisterImage)
  /\ \/ cfg.pull /\ Create("image", {"created_image", "vm_image"})
     \/ ~cfg.pull /\ Continue({"vm_image"}) /\ UNCHANGED <<res, lost>>
  /\ UNCHANGED <<cfg, cancelled, result, vm, job, tried>>

SSHKey ==
  /\ At(StepSSHKey)
  /\ Create("key", {"temp_ssh_key_id"})
  /\ UNCHANGED <<cfg, cancelled, result, vm, job, tried>>

\* prepare() never sets createNetwork, so the step returns at once.
CreateNetwork ==
  /\ At(StepCreateNetwork)
  /\ Continue({})
  /\ UNCHANGED <<cfg, cancelled, result, cloud, past>>

\* The login user: the server's answer, else admin_username, else "admin".
LoginUser(c, reply) ==
  IF reply # "" THEN reply ELSE IF c.adminUser THEN "admin_username" ELSE "admin"

CreateInstance ==
  /\ At(StepCreateInstance)
  /\ Create("instance", {"instance_id"})
  /\ vm' = IF res'["instance"] = "live" THEN "pending" ELSE vm
  /\ \/ "instance_id" \notin bag' /\ UNCHANGED cfg
     \/ /\ "instance_id" \in bag'
        /\ \E reply \in {"server", ""} :
              cfg' = [cfg EXCEPT !.user = LoginUser(cfg, reply)]
  /\ UNCHANGED <<cancelled, result, job, tried>>

BeginWaitRunning ==
  /\ At(StepWaitRunning)
  /\ Enter("poll")
  /\ UNCHANGED <<cfg, cancelled, result, cloud, past>>

WaitRunningTick ==
  /\ Polling(StepWaitRunning) /\ ~cancelled
  /\ Conclude(WaitVerdict(vm), {})
  /\ UNCHANGED <<cfg, cancelled, result, cloud, past>>

\* Mutant: the address is looked up only for an elastic IP.
SkipsAddressWithoutEIP(c) == c.comm # "ssh" \/ ~c.eip

\* Comm.Type is "none", as it always is with the agent communicator.
SkipsAddress(c) == c.comm # "ssh"

BeginResolveAddress ==
  /\ At(StepResolveAddress)
  /\ \/ SkipsAddress(cfg) /\ Continue({})
     \/ ~SkipsAddress(cfg) /\ Enter("poll")
  /\ UNCHANGED <<cfg, cancelled, result, cloud, past>>

\* Mutant: the elastic IP id is not remembered.
AddressKeysNoId(c) == {"vm_ip"}

AddressKeys(c) == IF c.eip THEN {"elastic_ip_id", "vm_ip"} ELSE {"vm_ip"}

\* A usable elastic IP, or the private address, is there.
ResolveAddressTick ==
  /\ Polling(StepResolveAddress) /\ ~cancelled
  /\ cfg.eip => res["eip"] = "live"
  /\ Continue(AddressKeys(cfg))
  /\ UNCHANGED <<cfg, cancelled, result, cloud, past>>

\* The first readiness probe is sent before the select loop is entered.
BeginConnectAgent ==
  /\ At(StepConnectAgent)
  /\ Enter("blocked")
  /\ UNCHANGED <<cfg, cancelled, result, cloud, past>>

ConnectAgentTick ==
  /\ Polling(StepConnectAgent) /\ ~cancelled
  /\ Enter("blocked")
  /\ UNCHANGED <<cfg, cancelled, result, cloud, past>>

(* The server ends the probe: the agent is ready; classifyProbeError calls *)
(* the failure fatal (401, 403, 404, other 4xx); or it is worth a retry    *)
(* (409, 5xx, transport).                                                  *)
ProbeReturns ==
  /\ Blocked(StepConnectAgent)
  /\ \/ Continue({"communicator"})
     \/ Halt({"error"})
     \/ Enter("poll")
  /\ UNCHANGED <<cfg, cancelled, result, cloud, past>>

\* Mutant: the probe request is built without the build context.
ProbeCancelledWithoutCtx == FALSE

\* The cancelled context aborts the request: a transport error, so a retry.
ProbeCancelled ==
  /\ Blocked(StepConnectAgent) /\ cancelled
  /\ Enter("poll")
  /\ UNCHANGED <<cfg, cancelled, result, cloud, past>>

(* communicator.StepConnect and commonsteps.StepProvision.                 *)
BeginExternal ==
  /\ At(StepConnectSSH) \/ At(StepProvision)
  /\ Enter("blocked")
  /\ UNCHANGED <<cfg, cancelled, result, cloud, past>>

ConnectSSHReturns ==
  /\ Blocked(StepConnectSSH)
  /\ Continue({"communicator"}) \/ Halt({"error"})
  /\ UNCHANGED <<cfg, cancelled, result, cloud, past>>

ProvisionReturns ==
  /\ Blocked(StepProvision)
  /\ Continue({}) \/ Halt({"error"})
  /\ UNCHANGED <<cfg, cancelled, result, cloud, past>>

\* On cancellation the SDK's steps may halt without recording an error.
ExternalCancelled ==
  /\ Blocked(StepConnectSSH) \/ Blocked(StepProvision)
  /\ cancelled
  /\ Halt({}) \/ Halt({"error"})
  /\ UNCHANGED <<cfg, cancelled, result, cloud, past>>

BeginShutdown ==
  /\ At(StepShutdown)
  /\ \/ /\ vm' = IF vm = "running" THEN "stopping" ELSE vm
        /\ Enter("poll") \/ Halt({"error"})
     \/ Halt({"error"}) /\ UNCHANGED vm
  /\ UNCHANGED <<cfg, cancelled, result, res, job, past>>

ShutdownTick ==
  /\ Polling(StepShutdown) /\ ~cancelled
  /\ Conclude(ShutdownVerdict(vm), {})
  /\ UNCHANGED <<cfg, cancelled, result, cloud, past>>

BeginPushImage ==
  /\ At(StepPushImage)
  /\ \/ job' = "running" /\ (Enter("poll") \/ Halt({"error"}))
     \/ Halt({"error"}) /\ UNCHANGED job
  /\ UNCHANGED <<cfg, cancelled, result, res, vm, past>>

PushImageTick ==
  /\ Polling(StepPushImage) /\ ~cancelled
  /\ Conclude(PushVerdict(job), {"pushed_image"})
  /\ UNCHANGED <<cfg, cancelled, result, cloud, past>>

\* Mutant: one of the polling steps has no deadline.
PollTimeoutNotInShutdown ==
  /\ phase = "poll" /\ pos # StepShutdown
  /\ Halt({"error"})
  /\ UNCHANGED <<cfg, cancelled, result, cloud, past>>

(* The two other arms of every select loop: state_timeout has passed, and  *)
(* the context is done.                                                    *)
PollTimeout ==
  /\ phase = "poll"
  /\ Halt({"error"})
  /\ UNCHANGED <<cfg, cancelled, result, cloud, past>>

\* Mutant: the step halts on a cancelled context but records no error.
PollCancelledSilently ==
  /\ phase = "poll" /\ cancelled
  /\ Halt({})
  /\ UNCHANGED <<cfg, cancelled, result, cloud, past>>

PollCancelled ==
  /\ phase = "poll" /\ cancelled
  /\ Halt({"error"})
  /\ UNCHANGED <<cfg, cancelled, result, cloud, past>>

-----------------------------------------------------------------------------
(***************************************************************************)
(* Teardown: the deferred Cleanups, last step first, on a context of their *)
(* own (cleanupContext), so a cancelled build still issues its DELETEs.    *)
(***************************************************************************)
\* Mutant: keep_vm is not consulted.
DueIgnoresKeep(s) ==
  {r \in Resource : CleanerOf[r] = s /\ KeyOf[r] \in bag}

Due(s) ==
  {r \in Resource : CleanerOf[r] = s /\ KeyOf[r] \in bag /\ ~cfg.keep}

\* Mutant: one Cleanup too many.
CleanupsLeftOffByOne == defers >= 0

CleanupsLeft == defers > 0

CleanupNothing ==
  /\ phase = "cleanup" /\ CleanupsLeft
  /\ Due(defers) = {}
  /\ defers' = defers - 1
  /\ UNCHANGED <<cfg, phase, pos, bag, cancelled, result, cloud, past>>

(* One DELETE: accepted, or failed (reported to the ui, never retried).    *)
(* Deleting the instance may or may not take its elastic IP with it.       *)
Delete(r) ==
  /\ \E freed \in {{r}, {r} \cup (IF r = "instance" THEN {"eip"} ELSE {})} :
        res' = [x \in Resource |->
                  IF x \in freed /\ res[x] = "live" THEN "gone" ELSE res[x]]
  /\ vm' = IF r = "instance" THEN "deleted" ELSE vm

\* Mutant: a DELETE that failed is issued again.
CleanupRetries(r) ==
  /\ phase = "cleanup" /\ CleanupsLeft
  /\ r \in Due(defers)
  /\ tried' = tried \cup {r}
  /\ \/ Delete(r) /\ defers' = defers - 1
     \/ UNCHANGED <<res, vm, defers>>
  /\ UNCHANGED <<cfg, phase, pos, bag, cancelled, result, job, lost>>

CleanupDeletes(r) ==
  /\ phase = "cleanup" /\ CleanupsLeft
  /\ r \in Due(defers)
  /\ Delete(r) \/ UNCHANGED <<res, vm>>
  /\ tried' = tried \cup {r}
  /\ defers' = defers - 1
  /\ UNCHANGED <<cfg, phase, pos, bag, cancelled, result, job, lost>>

Return ==
  /\ phase = "cleanup" /\ ~CleanupsLeft
  /\ phase' = "returned"
  /\ result' = IF "error" \in bag \/ "instance_id" \notin bag
               THEN "error" ELSE "artifact"
  /\ UNCHANGED <<cfg, pos, defers, bag, cancelled, cloud, past>>

-----------------------------------------------------------------------------
(***************************************************************************)
(* The environment: the user's interrupt, and the Cloud Console worker.    *)
(***************************************************************************)
Cancel ==
  /\ ~cancelled /\ phase # "returned"
  /\ cancelled' = TRUE
  /\ UNCHANGED <<cfg, client, result, cloud, past>>

WorkerMovesVM ==
  /\ \/ vm = "pending"  /\ vm' = "starting"
     \/ vm = "starting" /\ vm' = "running"
     \/ vm = "running"  /\ vm' = "stopped"      \* the guest powers itself off
     \/ vm = "stopping" /\ vm' = "stopped"
     \/ vm \in {"pending", "starting", "running", "stopping"} /\ vm' = "error"
  /\ UNCHANGED <<cfg, client, cancelled, result, res, job, past>>

\* pendingElasticIp = {mode: allocate} of the create request takes effect.
WorkerAllocatesEIP ==
  /\ cfg.eip /\ res["instance"] = "live" /\ res["eip"] = "absent"
  /\ res' = [res EXCEPT !["eip"] = "live"]
  /\ UNCHANGED <<cfg, client, cancelled, result, vm, job, past>>

WorkerEndsJob ==
  /\ job = "running"
  /\ job' \in {"succeeded", "failed", "cancelled"}
  /\ UNCHANGED <<cfg, client, cancelled, result, res, vm, past>>

RunStep ==
  \/ OmitStep \/ RunnerStops
  \/ ResolveRegion \/ RegisterImage \/ SSHKey \/ CreateNetwork \/ CreateInstance
  \/ BeginWaitRunning \/ BeginResolveAddress \/ BeginConnectAgent
  \/ BeginExternal \/ BeginShutdown \/ BeginPushImage

Tick ==
  \/ WaitRunningTick \/ ResolveAddressTick \/ ConnectAgentTick
  \/ ShutdownTick \/ PushImageTick

Teardown ==
  CleanupNothing \/ (\E r \in Resource : CleanupDeletes(r)) \/ Return

Worker == WorkerMovesVM \/ WorkerAllocatesEIP \/ WorkerEndsJob

Next ==
  \/ RunStep \/ Tick \/ PollTimeout \/ PollCancelled
  \/ ProbeReturns \/ ProbeCancelled
  \/ ConnectSSHReturns \/ ProvisionReturns \/ ExternalCancelled
  \/ Teardown
  \/ Cancel \/ Worker

Spec == Init /\ [][Next]_vars

(* What the plugin itself guarantees.  PollTimeout needs strong fairness:  *)
(* the fired deadline stays readable, but a select with several ready      *)
(* cases may prefer the ticker; it picks at random, so not for ever.       *)
(* StepConnect has its own timeout.  A provisioner is assumed to end.      *)
ClientFairness ==
  /\ WF_vars(RunStep)
  /\ SF_vars(PollTimeout)
  /\ WF_vars(ProbeCancelled) /\ WF_vars(ExternalCancelled)
  /\ WF_vars(ConnectSSHReturns)
  /\ WF_vars(Teardown)

FairSpec == Spec /\ ClientFairness /\ WF_vars(ProvisionReturns)

\* The API answers, or drops, every agent probe in the end.
ProbesAnswered == WF_vars(ProbeReturns)

-----------------------------------------------------------------------------
(***************************************************************************)
(* What a build promises.                                                  *)
(***************************************************************************)
Captured(r) == KeyOf[r] \in bag      \* the build knows the id of r

\* A DELETE of s is due no earlier than that of every r that uses s.
Uses == {<<"eip", "instance">>, <<"instance", "key">>, <<"instance", "image">>}

(* When Builder.Run returns without keep_vm, everything the build created  *)
(* has been asked to go, except what the code knowingly cannot name: what  *)
(* a POST created before its answer was lost, and an elastic IP whose id   *)
(* StepResolveAddress never captured because it was skipped or cut short.  *)
LeaksAccounted ==
  phase = "returned" /\ ~cfg.keep =>
    \A r \in Resource : res[r] = "live" =>
      \/ r \in tried
      \/ r \in lost
      \/ r = "eip" /\ (SkipsAddress(cfg) \/ pos <= StepResolveAddress)

(* Teardown never pulls a resource from under another the build still      *)
(* holds: the elastic IP is released before the instance is deleted, the   *)
(* instance before the key and the image it was created with.              *)
TeardownInReverse ==
  \A p \in Uses : p[2] \in tried /\ Captured(p[1]) => p[1] \in tried

(* The image-push job is only ever enqueued for a VM that has come to a    *)
(* stop; a VM still shutting down has a disk in motion.                    *)
PushFromStoppedVM == job # "none" => vm \in {"stopped", "deleted"}

(* The state bag, hence the artifact, names a pushed image only if the     *)
(* push job succeeded, however poll, timeout and worker interleave.        *)
PushedImageReal == "pushed_image" \in bag => job = "succeeded"

(* Nothing after StepWaitRunning meets a VM that has not booted: a status  *)
(* of running with a pending action does not count.                        *)
PastWaitMeansBooted ==
  pos > StepWaitRunning => vm \notin {"absent", "pending", "starting"}

(* What the Run of each step takes from the state bag with an unchecked    *)
(* type assertion (a missing key would panic), plus what StepProvision     *)
(* needs.  The Host function reads vm_ip for communicator.StepConnect.     *)
KeysAsserted(s) ==
  CASE s \in {StepWaitRunning, StepConnectAgent, StepShutdown, StepPushImage} ->
         {"instance_id"}
    [] s = StepResolveAddress -> IF SkipsAddress(cfg) THEN {} ELSE {"instance_id"}
    [] s = StepConnectSSH     -> {"vm_ip"}
    [] s = StepProvision      -> {"communicator"}
    [] OTHER                  -> {}

(* Whatever the configuration, each step that runs finds in the bag every  *)
(* key it asserts, and the steps that create things find a resolved        *)
(* region.                                                                 *)
AssertedKeysPresent ==
  phase \in {"run", "poll", "blocked"} /\ pos <= LastStep /\ Included(cfg, pos) =>
    /\ KeysAsserted(pos) \subseteq bag
    /\ pos > StepResolveRegion => cfg.region = "id"

(* The result tells the truth about progress: a build that ran every step  *)
(* returns an artifact, and one that stopped early without having been     *)
(* cancelled returns an error.                                             *)
ResultMatchesProgress ==
  phase = "returned" =>
    /\ pos > LastStep => result = "artifact"
    /\ pos <= LastStep /\ ~cancelled => result = "error"

(* A push that was started decides the build: unless the job succeeded and *)
(* the build saw it, no artifact comes back, not even from a build that    *)
(* was cancelled or timed out with the job still running.                  *)
StartedPushDecides ==
  result = "artifact" /\ job # "none" =>
    job = "succeeded" /\ "pushed_image" \in bag

(* The build implements the lease: it deletes only what it created, each   *)
(* at most once, none before teardown or under keep_vm, it creates nothing *)
(* in teardown, and it returns an artifact only if it created a VM.        *)
Lease == INSTANCE ResourceLease WITH
  Own      <- {"image", "key", "instance"},
  Attached <- {"eip"},
  Host     <- "instance",
  keep     <- cfg.keep,
  stage    <- IF phase = "cleanup" THEN "teardown"
              ELSE IF phase = "returned" THEN "returned" ELSE "building",
  held     <- {r \in Resource : res[r] = "live"},
  gone     <- {r \in Resource : res[r] = "gone"},
  asked    <- tried,
  outcome  <- result

LeaseHonoured == Lease!Spec

(* A build whose API answers, or drops, every agent probe returns: no wait *)
(* on the VM, the address or the push job is unbounded.  A cancelled build *)
(* returns even when the server never answers an agent probe, and it runs  *)
(* its teardown first.                                                     *)
BuildReturns ==
  /\ ProbesAnswered => <>(phase = "returned")
  /\ cancelled ~> phase = "returned"

-----------------------------------------------------------------------------
(***************************************************************************)
(* What documents and comments say, and the code does not do.              *)
(***************************************************************************)
(* artifact.go: when push_image is set the artifact points at the pushed   *)
(* image.                                                                  *)
ArtifactPointsAtPush ==
  result = "artifact" /\ cfg.push => "pushed_image" \in bag

(* README: all resources created during the build, the elastic IP among    *)
(* them, are cleaned up unless keep_vm is set.                             *)
EveryResourceReleased ==
  result = "artifact" /\ ~cancelled /\ ~cfg.keep =>
    \A r \in Resource : res[r] = "live" => r \in tried

(* README: ssh_username overrides the login user resolved at run time.     *)
ExplicitUserKept ==
  Blocked(StepConnectSSH) /\ cfg.sshUser => cfg.user = "explicit"

(* README: state_timeout bounds each step, the wait for the agent too.     *)
AgentConnectBounded ==
  Blocked(StepConnectAgent) ~> (pos # StepConnectAgent \/ phase = "cleanup")

=============================================================================
