------------------------------ MODULE ConnectStep ------------------------------
(***************************************************************************)
(* StepConnectAgent in its place: AgentProbe is the inside of one step of  *)
(* BuildRun.  What the build was like when the runner came to the step is  *)
(* a constant, and stays as it was until the step returns; the cloud goes  *)
(* its own way in BuildRun and is left alone here.                         *)
(***************************************************************************)
EXTENDS AgentProbe, BuildConfig

CONSTANTS
  config,     \* b.config, of a build with the agent communicator
  handed,     \* the keys the steps before have left in the state bag
  held,       \* which resources of the build there are
  unnamed,    \* those of them whose creation was not answered
  machine     \* the status of the VM

-----------------------------------------------------------------------------
(* The runner is at step 8 until Run has returned; then the Cleanup of the *)
(* step is deferred, and the runner is at the next step or stops.          *)
Place ==
  CASE phase = "probe"     -> "blocked"
    [] phase = "wait"      -> "poll"
    [] phase = "connected" -> "run"
    [] OTHER               -> "cleanup"

Left ==
  handed \cup (IF phase = "connected" THEN {"communicator"} ELSE {})
         \cup (IF why # "" THEN {"error"} ELSE {})

Build == INSTANCE BuildRun WITH
  Configs <- PreparedConfig, cfg <- config,
  phase   <- Place,
  pos     <- IF phase = "connected" THEN 9 ELSE 8,
  defers  <- IF Ended THEN 8 ELSE 7,
  bag     <- Left,
  result  <- "none",
  res     <- held, vm <- machine, job <- "none",
  lost    <- unnamed, tried <- {}

(* What BuildRun says of StepConnectAgent is right: however the answers    *)
(* come and whatever they say, the step probes, waits, times out, notices  *)
(* a cancellation and returns in the ways BuildRun gives it, and leaves in *)
(* the bag what BuildRun's later steps and Builder.Run (builder.go:110)    *)
(* count on.  In particular nothing more is sent once the context is done. *)
StepOfBuild ==
  \/ Build!ProbeReturns \/ Build!ProbeCancelled \/ Build!ConnectAgentTick
  \/ Build!PollTimeout \/ Build!PollCancelled
  \/ Build!Cancel

StepAsAssumed ==
  /\ Build!Blocked(Build!StepConnectAgent)
  /\ [][StepOfBuild]_(Build!vars)

=============================================================================
