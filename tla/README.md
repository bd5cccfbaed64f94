# A verification of packer-plugin-xcloud

This directory holds TLA+ models of the xcloud Packer builder plugin, the TLC
configurations that check them on small instances, and machine-checked proofs
(TLAPS) of what matters most for every configuration.

## The system

The plugin creates a builder VM in a Cloud Console tenant, lets Packer
provision it, optionally pushes its disk as an OCI image, and removes what it
created. It is a sequential client of an asynchronous server: hardly any
goroutine of its own, but a worker on the other side that moves the VM, the
elastic IP and the push job whenever it likes, a user who may cancel at any
moment, and calls whose answers get lost.

| part (src/) | state it keeps | operations | hard behaviour |
|---|---|---|---|
| Builder, `builder/builder.go` | the configuration (written during the run: `RegionID`, `Comm.SSHUsername`), the state bag | `Run`: build the step list, run it, read the result off the bag | cancellation between steps; reverse-order Cleanups; the result is read off two bag keys |
| step runner (SDK multistep) | how many steps ran, the deferred Cleanups | run, break on halt or cancel, Cleanup in reverse | a cancel can strike before, in or after a step |
| steps, `builder/step_*.go` | bag keys (`created_image`, `temp_ssh_key_id`, `instance_id`, `elastic_ip_id`, `vm_ip`, `communicator`, `pushed_image`, `error`) | `Run`, `Cleanup` | five select loops over deadline, ticker and context; resources created by one step and captured by another; failing DELETEs |
| `builder/config.go` | the prepared configuration | `decode`, `prepare` | defaults that depend on each other; durations at their limits |
| agentCommunicator, `builder/communicator_agent.go` | none (the context of the build) | `Start`, `Upload`, `UploadDir`, `Download` | a stream that ends half way; a partial upload |
| `apiclient/client.go` | two HTTP clients, one without a timeout | JSON calls, exec stream, file transfer, region lookup | answers lost, bodies that contradict the status |
| `builder/helpers.go`, `sshkey.go`, `artifact.go` | none | `cleanupContext`, `sanitizeImageName`, `registryAuth`, key generation, `Artifact.Id` | teardown outliving the cancelled context |
| `main.go`, `config.hcl2spec.go` | none | registration, generated code | none |

What makes each part correct, and by which property:

- *Builder*: it returns an artifact only for a build that did what was asked
  (`ResultMatchesProgress`, `StartedPushDecides`), it leaves nothing behind that
  it could name (`LeaksAccounted`), and it always returns (`BuildReturns`).
- *Steps*: each finds what it reads (`AssertedKeysPresent`); the VM is booted
  when used and stopped when pushed; polling ends by itself; no verdict is drawn
  from a transitional status; builds that share a name keep out of each other's
  way (`ImageStays`, `ImagesArePrivate`).
- *Communicator*: a command that failed, or whose outcome is unknown, never
  exits with 0 (`NoFalseSuccess`); an incomplete file never looks like a success
  (`CallPromised`); an upload of a directory reports an error unless every file
  arrived (`UploadComplete`).
- *apiclient*: a region slug resolves to the id of the first matching image or
  fails (`RegionIsRight`); the status of an error keeps its meaning up to the
  verdict of StepConnectAgent (`ConcludesRightly`).
- *Config*: a prepared configuration is one the steps can run
  (`AcceptedIffRulesKept`), and the name it gives the image is one the catalog
  takes (`ImageNameIsRight`).

## Modules

| module | what it is |
|---|---|
| `BuildConfig.tla` | what a prepared configuration is, shared by BuildRun (which assumes it) and PrepareConfig (which has to deliver it) |
| `BuildRun.tla` | one whole build: Builder.Run, the runner, every step's Run and Cleanup, the server's worker, the user's cancellation; its properties |
| `ResourceLease.tla` | the abstract specification: what a build promises its tenant |
| `MCBuildRun.tla`, `MCBuildRun.cfg`, `MCBuildRun_*.cfg` | the configurations TLC explores |
| `BuildRunProofs.tla` | the inductive invariant, the leaks, the order of teardown, the refinement |
| `BuildOutcomeProofs.tla` | the second invariant: the VM, the push job, the bag and the result |
| `PrepareConfig.tla` | from the template to an accepted configuration: Config.prepare |
| `RegionLookup.tla` | StepResolveRegion and Client.ResolveRegionID |
| `ImageName.tla` | sanitizeImageName |
| `Preflight.tla` | the composition of the three, up to the first resource; their properties |
| `PreflightProofs.tla`, `MCPreflight.*` | its theorems and its inputs |
| `SharedCatalog.tla` | several builds that share an image catalog: StepRegisterImage and what hangs on its image |
| `PrivateImage.tla` | the abstract specification: what a build may take for granted of its image |
| `SharedCatalogProofs.tla`, `MCSharedCatalog.*` | its theorems and its builds |
| `AgentProbe.tla` | the inside of StepConnectAgent: what answers become errors of which class |
| `ConnectStep.tla` | AgentProbe in its place: the step BuildRun has is what it refines |
| `AgentProbeProofs.tla`, `MCAgentProbe.*` | the theorems of both, and their answers |
| `ExecStream.tla` | one remote command: agentCommunicator.Start and Client.ExecStream against a server that can stop, break or garble its stream anywhere |
| `RemoteCommand.tla` | the abstract specification: what a communicator promises a provisioner |
| `ExecStreamProofs.tla`, `MCExecStream.*` | its theorems and its commands |
| `FileTransfer.tla` | one file up or down: Upload and Download on UploadFile and DownloadFile |
| `FileCall.tla` | the abstract specification: what a transfer promises its caller |
| `FileTransferProofs.tla`, `MCFileTransfer.*` | its theorems and its transfers |
| `UploadDir.tla` | a directory upload: the walk, the exclude list, failures half way |
| `UploadDirProofs.tla`, `MCUploadDir.tla`, `MCUploadDir.cfg`, `MCUploadDir_symlink.cfg` | its theorems and its trees |

They fit together along the life of a build. `Preflight` ends where the first
resource would be created, with a configuration `BuildRun` assumes; three of
BuildRun's steps are opened up in modules of their own - StepResolveRegion in
`RegionLookup`, StepConnectAgent in `AgentProbe`, StepProvision in `ExecStream`,
`FileTransfer` and `UploadDir` - and each shows what BuildRun takes from it: that
it ends, and in one of the ways BuildRun lists (for StepConnectAgent, step by
step, in `ConnectStep`). `UploadDir` uses one file
transfer as one call with the outcomes `FileCall` allows. `SharedCatalog` puts
several builds side by side and keeps of each only what has to do with images; that
each of them may be looked at alone, as BuildRun does, is `PrivateImage`.

### BuildRun and the code

`phase` is the control point. *run*: the runner is between steps (or about to
call Run). *poll*: a step waits in its `select` loop. *blocked*: a step is in a
call without a bound of its own (the agent probe over `streamHC`,
communicator.StepConnect, a provisioner). *cleanup* and *returned* speak for
themselves. `pos` is the step, in the order Builder.Run appends them (a step
that is not appended is passed over by `OmitStep`), `defers` the number of
Cleanups still deferred, `bag` the set of keys in the state bag. The values
behind the keys never steer anything, so they are not kept. On the server side
`res` says which of the four kinds of resource exist, `vm` is the instance
status (status running with a pending action is called *starting*), `job` the
push job. `lost` and `tried` are history: resources whose creation was
performed but not answered, and resources a Cleanup asked to delete.

- Each step's Run is one action when it makes at most one bounded API call, and
  otherwise `BeginX` (up to the select loop), `XTick` (the ticker case), and the
  shared `PollTimeout` and `PollCancelled` (the two other cases). A tick that
  learns nothing new, or whose GET fails, changes nothing and is a stutter.
- An API call (doJSON) is atomic: it is bounded by the 60 s client timeout. Its
  outcomes are answered, failed, and performed with the answer lost. A step can
  be cancelled in the middle of one; that is the failed or the lost outcome.
- `StepConnectAgent` probes synchronously outside its select, so the probe is a
  *blocked* phase that the deadline cannot interrupt. A cancelled context
  aborts the request, which classifyProbeError takes for a transport error, so
  the step goes back to the loop and only there sees the cancellation.
- Cleanup of a step deletes what the bag names, unless `keep_vm`; one DELETE,
  accepted or failed, never repeated, on a context of its own. Deleting the
  instance may or may not free its elastic IP.
- `Return` is the end of Builder.Run: only `error` and `instance_id` are read.
- `StepConnect` and `StepProvision` belong to the SDK (v0.6.9): they return or
  fail, and on a done context they halt, with or without recording an error.

### ResourceLease

A build acquires resources while building, the server attaches some to the VM,
and teardown gives them back: only what was acquired, each at most once, none
under `keep`, none before teardown; nothing is acquired in teardown; the
outcome is an artifact only if the VM was acquired. `BuildRun!Lease` maps
`phase` to the stage, the live and gone resources to `held` and `gone`, `tried`
to `asked`. It says nothing of steps, of the bag or of polling.

### ExecStream and RemoteCommand

`ExecStream` is the inside of one of BuildRun's *blocked* phases: what happens
when a provisioner runs a command over the agent communicator. BuildRun needs of
it only that it returns, fails, or is cut off by a done context; that is what
`CommandReturns` shows: the assumption BuildRun makes of provisioners, brought
down to one about the server.

Frame *i* of the response carries chunk *i* of the output, the last frame is the
exit frame, and the connection is the two counters `sent` and `read`. `phase` is
where the goroutine of Start is: *request* (in `streamHC.Do`), *stream* (in the
read loop), *done* (ExecStream returned), *exited* (after SetExited).
`exitCode`, `exitErr`, `sawExit` are the locals of ExecStream; every return gives
back `exitCode`, so `err` is the rest of the result. Each iteration of the loop
is one action: a chunk is written (or dropped, with a nil writer), a Write fails,
the exit frame is noted and the loop goes on, a line cannot be decoded (damaged,
or cut in the middle), the body ends, or the read fails (reset, or context
done). A line that is empty or of neither kind leaves no trace and is a stutter.
A chunk counts as shown when its Write succeeded. `fault` is history: something
other than a cancellation went wrong. `timedOut` of the exit frame is decoded and
never read; as agent_test.go:84 has it, it comes with a non-empty error.

`RemoteCommand` knows neither frames nor connections: chunks are written,
delivered in order, and then one status is reported, once, as `Remote` maps them.

### PrepareConfig, RegionLookup, ImageName and Preflight

`Preflight` instantiates the three parts on one set of variables and lets each
go on where the one before it ended: `Prepare`, then `ResolveRegion`, then
`NameImage` if an image is to be pulled, then `PollVM`.

- `PrepareConfig` keeps of each field of the template only the kind of value it
  has: unset, good, or one of the ways to be wrong. `Resolved` has the defaults
  and the environment in the code's order, since they depend on each other
  (the agent decides the communicator, which decides the SSH settings, and the
  default of `use_elastic_ip`). `Objections` collects every check, as
  prepare() joins all its errors. The reference is `KeepsRules`, the rules of
  the documentation on what the user *wrote*; that the two agree in both
  directions is what another order of defaults and checks would break.
  `StartPolling` is the first `time.NewTicker` of the build: it panics unless
  its argument is positive, and `panicked` is the state the code then reaches.
- `RegionLookup` scans the listing image by image: `Skip`, `LookOn` (which
  remembers the slug for the error message), `Found`, `NotFound`. The
  spelling functions `lower` and `trim` are constants, so that the theorems do
  not depend on what they do to a slug.
- `ImageName` copies rune by rune into the builder (`Copy`) and then trims,
  falls back and cuts (`Finish`). Runes are classes: what is copied, what
  becomes a dash, what is dropped, what is folded first. `given` is
  `cfg.Name + "-image"`. The reference, `Significant`, says what a name says
  without the detours of the code: rune by rune of the name as it was given
  (`Said`, `SaidBy`), and without the dashes around it.

### SharedCatalog

An image has no id, its name is its only handle, and two builds of one template,
or of two names that sanitize to the same, ask for the same one. The state is
the catalog (whose image each name stands for), and per build the step, the name
it was answered (`created_image`, which is also what the VM is created from) and
whose image its VM was booted from. Calls that the client has given up after 60 s
stay in `late` and are performed, or not, at any later time, when the name may be
another build's. What the server does about a name that is taken is outside the
repository; the model has the two rules under which a name can be a handle,
*reject* and *rename*. (Under a third, *replace*, the second registration takes
the name from the first build at once, and nothing in the client could notice;
the code relies on the server here.)

`PrivateImage` is the same for one build that has never heard of another: one
image, which comes when the build registers it, or after the build has given the
call up, and then it never learns of it; what the build boots is that image; it
goes when the build has it deleted, in teardown or after, and not under `keep`; it
never comes back. `SharedCatalog!Own(b)` maps the steps of build *b* to `stage`, the
names that stand for its image to `image` (*several* if there were two, which
PrivateImage does not know), and whose image its VM came from to `vm` (*foreign*
likewise). The steps of every other build must be nothing to *b*.

### AgentProbe

BuildRun lets a probe succeed, be fatal or be tried again; here is how an answer
comes to which. `agent` is how it stands with the agent, `code` and `body` the
answer on its way, `stood` (history) how things stood when the server gave it: the
agent may have changed since. `ErrorStatus` is parseAPIErrorResponse (and doJSON,
which parses an error in the same way): a status in the body overrides the one of
the response. `Fatal` is classifyProbeError. A gateway may answer in the server's
place; a connection may break at any time. On a done context a probe is not sent
at all, so that a ticker picked by the select then changes nothing.

`ConnectStep` puts it into BuildRun, with the build as it was when the runner came
to the step as a constant (`config`, `handed`, `held`, `unnamed`, `machine`). A probe
that is out is *blocked*, the select is *poll*; with the agent connected the runner
is at the next step and the bag has the communicator, and a halt has put an error
there. What the server and the gateway do is nothing to BuildRun until it has
become a verdict.

### FileTransfer and FileCall

A file is a number of chunks. An upload has the client's half of `Client.Do`
(chunks and the end of the body go out while the answer may already be there),
the agent's half (it writes what arrives and with the last of it sets the mode)
and the answer; a download has the answer first and then the chunks. Either can be
refused, reset, cancelled, or fail locally, at any chunk. `FileCall` promises only
what a caller needs: an error, or the whole file in its place; the refinement maps
*whole* to the file being complete with its mode. `UploadDir` relies on just that.

### UploadDir

The nodes of the source tree are numbered in the order filepath.Walk visits them,
so the walk's stack is the set `todo` of listed and not yet visited nodes, and the
next is its least. `WalkError`, `PassOver`, `EnterDir`, `PickFile` are the branches
of the callback, in its order: the walk's error is looked at before the exclude
list. A directory is listed when it is visited, an entry is looked at (Lstat) when
its turn comes, a file is opened later still: in between other processes may remove
nodes (`Vanish`) or add them (`Appear`), among those of `Unsettled`. `Sent`,
`SendFails` and `SendCancelled` are the outcomes of one `UploadFile`; a failed one
may have stored the file. `steady` (history) is what was there all along: the only
files of which a promise can be made.

## What the runs check

| run | question | answer |
|---|---|---|
| `build` | ten safety properties and the return of a build, over all shapes of configuration | all hold (306 348 states) |
| `preflight` | what is accepted, which region, what image name? | as documented (187 422) |
| `shared_catalog` | do concurrent builds keep off each other's images? | yes (235 858) |
| `agent_probe` | what does the step conclude from the answers it gets? | only what the server said (1 900) |
| `command` | what may an exit status and its output claim, and does it come? | all hold (18 976) |
| `file_transfer` | does an incomplete file ever look like a success? | no (11 784) |
| `upload_dir` | what is on the VM after an upload, complete or not? | all hold (43 198) |
| `artifact_of_cancelled_push` | does the artifact of a push build point at the push (artifact.go:3-4)? | no: a cancellation leaves no error in the bag |
| `elastic_ip_left_behind` | is every resource released (README.md:186-188)? | no: `use_elastic_ip = true` with communicator "none" never captures the IP |
| `ssh_username_overwritten` | does `ssh_username` override (README.md:149)? | no: StepCreateInstance overwrites it |
| `probe_without_timeout` | is the wait for the agent bounded by `state_timeout` (README.md:161, 262-264)? | no: the probe has no timeout |
| `symlinked_source` | does UploadDir upload the contents of src (communicator_agent.go:90-93)? | no: of a symlinked directory it sends nothing, and reports success |

The last five show disagreements between the documents and the code; they are the
`findings` of `PROJECT.json`.

`build`:

- `LeaksAccounted`: without keep_vm, what is live at return has been asked to
  go, except what the build could not name: a creation whose answer was lost,
  an elastic IP that was not captured.
- `TeardownInReverse`: the elastic IP before the VM, the VM before its key and
  its image.
- `PushFromStoppedVM`, `PastWaitMeansBooted`: the push starts from a stopped
  disk, and nothing runs on a VM that has not booted.
- `PushedImageReal`, `StartedPushDecides`: the bag names a pushed image only
  after the job succeeded; a push that was started and did not succeed means no
  artifact, for cancelled and timed-out builds too.
- `AssertedKeysPresent`: no type assertion on the state bag can meet a missing
  key, in any configuration.
- `ResultMatchesProgress`: every step ran, then an artifact; stopped early and
  not cancelled, then an error.
- `LeaseHonoured`: the refinement of ResourceLease; with it, under keep_vm there is no
  deletion, wherever the build stopped.
- `BuildReturns`: a build whose agent probes are answered or dropped returns; a
  cancelled one returns even if they are not.

`preflight`:

- `AcceptedIffRulesKept`: prepare() accepts a template exactly if it keeps the
  documented rules; what it accepts is a configuration BuildRun assumes; with the
  agent no SSH key and no address is asked for. It also says what is *not*
  checked: a `poll_interval` of zero or less is accepted and panics in
  `time.NewTicker` once the VM is created, which takes the plugin process down
  (after the Cleanups the SDK has deferred); nothing else it accepts does.
- `RegionIsRight`: a build goes on only with a region id, the first the listing
  has for the slug; it is turned down after a listing only if there is none, and
  then offered every region there is.
- `ImageNameIsRight`: the image's name is one the catalog takes - also where the
  cut falls on a dash, or nothing is left -, a good name is left alone, and any
  other keeps the beginning of what it says.

`shared_catalog`:

- `ImageStays`: from its registration to its own Cleanup (and beyond, under
  keep_vm) the image of a build stays its own, whatever other builds do, fail to
  do, or still have on its way to the server.
- `OrphanExplained`: an image stays behind only under keep_vm or where a call of
  that build went wrong.
- `ImagesArePrivate`: the refinement of PrivateImage, for every build at once: what
  each may take for granted of its image alone, it may among others; with it, no VM
  is created from another build's image.

`agent_probe`:

- `ConcludesRightly`: the step gives up before the deadline only if the server's
  own latest answer said that there is no hope, or if the body of an answer
  contradicts its status, which the code believes; it goes on only over an agent
  that ran a command.
- `SettledEnds`: an agent that stays ready, or is beyond hope, does not keep the
  step polling until the deadline.
- `StepAsAssumed`: the refinement of BuildRun's StepConnectAgent: every step is a
  probe, a wait, a timeout, a cancellation or a return as BuildRun has it, with
  what it leaves in the bag, and nothing is sent once the context is done.

`command`:

- `NoFalseSuccess`: exit status 0 means that the command ended with 0, without
  an error of the agent, and that all its output arrived.
- `StatusHasACause`: any other status is the command's, or a 1 announced on
  stderr; a positive code, once read, survives a later failure of the stream.
- `OutputWithoutHoles`: output is neither reordered nor gapped, across both
  streams, also when a writer fails.
- `CleanRunExact`: without a fault or a cancellation the code is the agent's.
- `PromiseKept`: the refinement of RemoteCommand.
- `CommandReturns`: it comes to an exit status, if requests are answered and
  streams end; a cancelled one even with a mute server.

`file_transfer`:

- `CallPromised`: the refinement of FileCall.
- `RefusalKeptOutOfFile`: the text of an error never ends up in the caller's file.
- `CleanTransferSucceeds`: undisturbed, it succeeds; an upload leaves the mode of
  its FileInfo - except 0000, which the call has no way to say and the agent
  replaces by its default.
- `TransferReturns`: as for a command.

`upload_dir`:

- `UploadComplete`: success means that every file in scope that was there
  throughout is on the VM (for a symlinked source: that nothing is).
- `PartialIsPrefix`: what a failed upload leaves is an initial part of the walk,
  without a hole and without anything excluded.
- `FailureHasACause`: a failure blames a node that was gone, unreadable or no
  directory, or the very file under way. An *excluded* entry that cannot be read
  does fail the upload: the code looks at the walk's error first.
- `UploadReturns`: as for a command.

Each run also checks the type invariant `TypeOK` of its module.

### Bounds

A build is finite (the step list, one job, one VM) and every counter is a step
number, so of `BuildRun` only the configurations need a bound. `MCConfigs` takes
every combination of the fields that select steps or create resources (region
slug or id, pulled image, three communicators, pre-registered keys, elastic IP,
push, keep: 192), and every combination of the sources of key material and login
user (16).

`MCPreflight` has five families of inputs, each complete in one respect and plain
in the others: settings of access (communicator, agent, elastic IP, keys, user;
no code relates them to the others), settings of target (endpoint, token, region,
image, durations), with and without a slug; listings of up to three images over
two regions, two spellings, with and without an id (a first match, something
before and something after it); names of up to four runes over all classes. The
suffix is two runes and `Cap` is 4, where the code has "-image" and 119: the cut
falls before, on and behind a dash in each case.

`MCSharedCatalog`: three builds, two of one name, and a name more than they ask
for, so that a late call of one meets the image of a second while a third comes.
`MCAgentProbe`: every code times every body; gateway codes are not 4xx (see
below). `MCExecStream`: three outputs (none, one chunk, two streams interleaved),
four codes on both sides of what Start coerces, an error of the agent or none, and
every choice of nil writers; the loop keeps no memory of a chunk beyond its
stream, so more chunks only repeat these. `MCFileTransfer`: up to three chunks,
the empty file among them. `MCUploadDir`: a tree of seven nodes, with a directory
between files, a symlink, and a file after both; `Unsettled = {3, 5, 7}` lets the
directory, one of its files and the last file come and go. What is excluded
(nothing, the source, a file, the directory, a file in it) and what is unreadable
(nothing, the directory, a file in it) is one node at a time. `UploadDirProofs`
has all trees.

Deadlock checking is off where a run really ends: a build, a command, a transfer,
an upload, a step.

### Fairness

`ClientFairness` is what the plugin's own code guarantees. In `BuildRun` the
runner, the Cleanups and the bounded calls go on (WF). A poll step's deadline,
once fired, stays readable, but the ticker may be ready too and Go's select picks
one of the ready cases at random, so the deadline is taken in the end though not
at once, and leaving the select for another probe may disable it: strong fairness
of `PollTimeout`. A done context aborts a probe and the SDK's steps (WF).
StepConnect has a timeout of its own; a provisioner is assumed to end (WF in
`FairSpec`). For a command, a transfer and an upload the goroutine runs on, a read
returns when there is something to read, and a failed connection or a done context
ends a call (WF).

Of the server nothing is assumed in a specification: what a property needs of it
is its premise. `ProbesAnswered` (each probe is answered or dropped in the end)
stands before the first half of `BuildReturns`, and `probe_without_timeout` shows
that it is needed; `ServerFairness` before those of `CommandReturns`,
`TransferReturns` and `UploadReturns`. For a command it includes that the server
ends its streams: ExecStream reads on after the exit frame, so that a server that
keeps the connection open holds the command, whose streamHC has no timeout, until
the build is cancelled. The second halves, on cancelled calls, have no premise.

`PatientSpec` of AgentProbe says nothing of the deadline (it is the one end the
property is not about); of a select's ready cases, the done context among them,
each is picked in the end. A probe that goes out again and again is answered by the
server itself in the end, and the answer arrives: strong fairness, because
connections that break and gateways that answer first take the opportunity away.

## What is proved

Every theorem holds for every value of the constants, under the assumption the
module names (an `ASSUME` that TLC evaluates in the runs).

**BuildRun** (`BuildRunProofs`, `BuildOutcomeProofs`), for every set of prepared
configurations: all ten safety properties of `build`, and that a kept build is left
alone (`KeptBuildUntouched`, which the lease implies). None of the invariants is
inductive. `IInv` adds three parts to the types. *Control*: the runner has deferred
exactly the Cleanups of the steps it passed, and never polls beyond the last step.
*Knowledge*: an id in the bag names something that was created; what is live the
bag names, or the answer was lost; nothing but an elastic IP appears before its
step; an SSH build past StepResolveAddress has captured its elastic IP.
*Progress*: every captured resource is below the Cleanup that is next, or has been
deleted, or is kept; and a deleted one is above it. The last two together give the
leaks and the order; they also give the refinement its hardest step, that a DELETE
goes to something created and not yet deleted. The proof goes through `Effect`,
which says once what any action does: a client half (the runner advances, halts,
pauses, stops, or a Cleanup runs) and a cloud half (one resource appears, at its
own step or attached by the worker, or one is deleted). `StepEffect` shows it
action by action; the parts of the invariant and the refinement are then proved
from `Effect` alone.

The second invariant, `Outcome`, has four parts. *Handed*: what the steps behind
the runner have left in the bag for those ahead. *Machine*: how far the VM has come
by where the runner is. *Push*: a job belongs to the last step, which is still
polling it, has recorded an error, or has recorded the pushed image. *Verdict*: no
error while building, a reason for every early end, and what Run makes of both.
It is proved in the same way from `Move`; what a step owes when it concludes is
`Settles`.

**Preflight** (`PreflightProofs`), for every set of inputs, every listing and every
name of any length, every spelling function and every `Cap`: all four properties of
`preflight`. For `AcceptedIffRulesKept` and `RegionIsRight` the lemmas `RulesDecide`,
`RulesPrepare` and `RulesConnect` compare what prepare() resolves and checks with the
rules on what was written; the invariant says that the configuration is the resolved
template (*Prepared*), that a lookup starts only from one way to name a region
(*Asked*), and how far the scan has come and what it has met (*Scanned*).

For `ImageNameIsRight` and `TypeOK` the invariant is *CopiedSoFar*: after *k* runes the
builder holds what those runes of the folded name say, which is a stretch of what the
whole name, as given, says, with nothing but dashes left out before it
(`CopyKeepsCopied`, `FinishKeepsCopied`). What is trimmed before the copy can only say
dashes (`WhiteAddsDashes`), and the cut of what is trimmed after it is a beginning
followed by dashes only (`CappedIsBeginning`). It rests on what `Trim` returns:
nothing, if all is to be dropped, or the one stretch with a rune to keep at both ends
(`TrimNone`, `TrimFramed`, `TrimSome`), and that two sequences which differ by dashes at
their ends trim to the same (`TrimBetweenDashes`). That a set of numbers has a least
and a greatest member, and that the recursive function `SaidBy` is what it says, is
shown from the well-foundedness of < on the naturals, which gives a least
counterexample (`Least`, `SaysExists`): a theorem of the library without an operator
as a parameter, where the ones on induction have one.

**SharedCatalog**, for any number of builds, names and choices of what they ask
for: `TypeOK`, `ImageStays`, `OrphanExplained`, `BootedFromOwn` (which the refinement
implies), and the refinement of PrivateImage for every build. The invariant adds
what a build may have on its way (*OnTheWay*: a late registration only from a build
that knows of no image, has none, and registers nothing else; a late deletion only of
an image still its own) and where an image can come from (*Provenance*: a build has
one at most, under the name it was answered if it was answered). Of the refinement, `OwnStep` maps the steps of a build,
and `OwnEntryOnly` with `NothingSeen` shows that those of another change nothing it
can see: each step touches the catalog only at the name of its own image, or at one
that is free.

**AgentProbe** and **ConnectStep**, for every set of gateway codes and bodies and
whatever build comes to the step: `TypeOK` and `ConcludesRightly`, with *Telling*, what
an answer on its way says of the agent; and `StepAsAssumed`, action by action, from
`TypeOK` alone. The attempt to prove it corrected the model: AgentProbe let a tick send
a probe on a done context, which BuildRun, and net/http, do not.

**ExecStream**, for every set of commands (any output, any code, any writers): all
five invariants of `command` and the refinement. `IInv` adds that the locals say
how far ExecStream has read (*Locals*), that what was shown is what was read
(*Output*), that no error comes back only after an exit frame without one
(*Verdict*), and who is to blame for an unfinished stream (*Blame*).

**FileTransfer**, for files of any size: `TypeOK`, `RefusalKeptOutOfFile`,
`CleanTransferSucceeds` and the refinement of FileCall, with *Wire* (what the
destination has, the wire has carried), *Blame* and *Success*.

**UploadDir**, for every tree and whatever other processes do to it (within any
`Unsettled`): `TypeOK`, `UploadComplete`, `PartialIsPrefix`, `FailureHasACause`.
The heart is *Covered*: every file in scope that was there all along is stored,
under way, left to do, or below a directory that is. *Ordered* says that the walk
is in order, *Scoped* that nothing below an excluded directory is met, *Closed*
that what exists has existing directories above it, *Shape* what being a tree
means to the walk.

Only model-checked are the five liveness properties (`BuildReturns`, `SettledEnds`,
`CommandReturns`, `TransferReturns`, `UploadReturns`): fairness, with the ENABLED it
stands on, is out of the prover's reach. Every invariant and every refinement the
passing runs check is a theorem.

## What is not modelled, and why

Parts of the repository:

- `main.go`, and the generated `config.hcl2spec.go`: registration and generated
  code, without a state of their own.
- The body of StepCreateNetwork, with `CreateNetwork` and `DeleteNetwork`:
  `createNetwork` is never set by prepare(), so only the early returns are
  reachable.
- `registryAuth`, `derefStr`, `Artifact.Id`: a choice between values that steers
  nothing; the artifact is kept as whether it names the pushed image.
- The numeric defaults (cores, memory, disk, port), the generated build name,
  wording, logging and progress messages, digests, registered image names.
- Remote paths: a source of `..` makes `path.Join` (communicator_agent.go:105) put
  the tree beside `dst`.
- The name of the SSH key (step_ssh_key.go:31): it is cut at 64 bytes, which drops
  the timestamp of long names. Keys are deleted by id, so that only the server's
  rule on equal names could make it matter.
- `DownloadDir`, a constant error.

Assumptions about what is outside the repository, where a hazard is left open:

- A 2xx answer carries what it should. client.go:125 accepts an empty body, which
  would leave a blank id that the Cleanups pass over; BuildRun, and its proofs,
  take a POST to answer with what it created.
- The server ends a download it cannot finish with a reset: client.go:692 compares
  no length, and a body that ends early but cleanly passes for the file.
- A gateway does not answer with a 4xx: classifyProbeError takes a 408 or a 429,
  which would pass with time, for the end.
- A name that is taken is refused or replaced by another (SharedCatalog).

Outside the model altogether:

- The SDK's other runners (`-on-error=abort`, `ask`, `-debug`): code outside the
  repository; with abort no Cleanup runs at all.
- A killed plugin process: nothing is persisted, so nothing is recovered. The panic
  over a poll interval is followed no further than the panic.
- In BuildRun, a creation performed by the server after the client gave up on it:
  the lost answer stands for it, one step earlier; for images SharedCatalog has it.

## How it grew, and what is left

The build came first (`BuildRun`, `ResourceLease`), then the command
(`ExecStream`), the directory upload, the preparation of a build, the shared
catalog, the probe and the single transfer, each with its theorems; then the name of
the image, the privacy of images and the place of the probe in a build. Left to do, in
order of interest: a BuildRun in which an answer may lack its id, which needs a
third outcome for each POST and a weaker `Knowledge`; the composition of
`UploadDir` with `FileTransfer` in the place of its one-action call; and a server
that replaces images of one name, if the service's documentation says it does.
