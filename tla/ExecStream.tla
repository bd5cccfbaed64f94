------------------------------ MODULE ExecStream ------------------------------
(***************************************************************************)
(* One command run through the in-guest agent: agentCommunicator.Start and *)
(* the goroutine it launches, Client.ExecStream reading the NDJSON frames, *)
(* and, outside the repository, the server and the agent behind the        *)
(* connection.                                                             *)
(*                                                                         *)
(* A command writes chunks, then ends.  Frame i of the response carries    *)
(* chunk i, and the frame after the last chunk is the exit frame, so the   *)
(* connection is two counters: frames sent and frames read.  It can end    *)
(* cleanly or be reset anywhere, and any line of it can be unreadable.     *)
(***************************************************************************)
EXTENDS Integers, Sequences

Streams == {"stdout", "stderr"}

\* chunks: the stream of each chunk; code and error: the exit frame (error
\* says whether its message is non-empty); writers: the non-nil writers of
\* the packer.RemoteCmd.
Command ==
  [chunks: Seq(Streams), code: Int, error: BOOLEAN, writers: SUBSET Streams]

CONSTANT Commands

ASSUME CommandsAssumption == Commands \subseteq Command

VARIABLES
  cmd,        \* the command and its RemoteCmd
  cancelled,  \* the context given to Start is done
  conn,       \* "none", "open", "closed" (clean EOF) or "reset"
  sent,       \* frames the server has sent
  phase,      \* "request", "stream", "done" (ExecStream returned), "exited"
  read,       \* frames ExecStream has read
  exitCode, exitErr, sawExit,   \* the locals of ExecStream
  err,        \* ExecStream returned an error
  shown,      \* chunks written to their writer
  status,     \* the RemoteCmd's exit status
  noticed,    \* Start has written its own message to stderr
  fault       \* history: something other than a cancellation went wrong

server == <<conn, sent>>
result == <<exitCode, exitErr, sawExit>>
vars   == <<cmd, cancelled, server, phase, read, result, err, shown, status, noticed, fault>>

Chunks   == Len(cmd.chunks)
Frames   == Chunks + 1                        \* the chunks and the exit frame
Wired(i) == cmd.chunks[i] \in cmd.writers     \* chunk i has a writer

\* Mutant: the best-known code starts as Go's zero value.
InitCodeZero ==
  /\ cmd \in Commands
  /\ cancelled = FALSE /\ fault = FALSE
  /\ conn = "none" /\ sent = 0
  /\ phase = "request" /\ read = 0
  /\ exitCode = 0 /\ exitErr = FALSE /\ sawExit = FALSE
  /\ err = FALSE
  /\ shown = {}
  /\ status = 0 /\ noticed = FALSE

Init ==
  /\ cmd \in Commands
  /\ cancelled = FALSE /\ fault = FALSE
  /\ conn = "none" /\ sent = 0
  /\ phase = "request" /\ read = 0
  /\ exitCode = -1 /\ exitErr = FALSE /\ sawExit = FALSE
  /\ err = FALSE
  /\ shown = {}
  /\ status = 0 /\ noticed = FALSE

-----------------------------------------------------------------------------
(***************************************************************************)
(* The server, the agent and the user.                                     *)
(***************************************************************************)
Launch ==
  /\ conn = "none" /\ phase = "request"
  /\ conn' = "open"
  /\ UNCHANGED <<cmd, cancelled, sent, phase, read, result, err, shown, status, noticed, fault>>

Emit ==
  /\ conn = "open" /\ sent < Frames
  /\ sent' = sent + 1
  /\ UNCHANGED <<cmd, cancelled, conn, phase, read, result, err, shown, status, noticed, fault>>

\* A stream that ends before its exit frame: the agent or the server died.
StreamEnds(how) ==
  /\ conn = "open"
  /\ conn' = how
  /\ fault' = (fault \/ how = "reset" \/ sent < Frames)
  /\ UNCHANGED <<cmd, cancelled, sent, phase, read, result, err, shown, status, noticed>>

Cancel ==
  /\ ~cancelled /\ phase # "exited"
  /\ cancelled' = TRUE
  /\ UNCHANGED <<cmd, server, phase, read, result, err, shown, status, noticed, fault>>

-----------------------------------------------------------------------------
(***************************************************************************)
(* Client.ExecStream.                                                      *)
(***************************************************************************)
\* Every return gives back the best-known exit code.
Returns(failed) == phase' = "done" /\ err' = failed

Fails(isFault) ==
  /\ Returns(TRUE)
  /\ fault' = (fault \/ isFault)
  /\ UNCHANGED <<cmd, cancelled, server, read, result, shown, status, noticed>>

\* A non-2xx answer, or no answer; the request may have been performed.
RequestRefused == phase = "request" /\ Fails(TRUE)
RequestAborted == phase = "request" /\ cancelled /\ Fails(FALSE)

Respond ==
  /\ phase = "request" /\ conn # "none"
  /\ phase' = "stream"
  /\ UNCHANGED <<cmd, cancelled, server, read, result, err, shown, status, noticed, fault>>

ReadingChunk == phase = "stream" /\ read < sent /\ read < Chunks

\* Mutant: every frame goes to stdout.
ReadChunkAllToStdout ==
  /\ ReadingChunk
  /\ read' = read + 1
  /\ shown' = IF "stdout" \in cmd.writers THEN shown \cup {read + 1} ELSE shown
  /\ UNCHANGED <<cmd, cancelled, server, phase, result, err, status, noticed, fault>>

\* A chunk without a writer is dropped; frames of neither kind are skipped
\* and leave no trace.
ReadChunk ==
  /\ ReadingChunk
  /\ read' = read + 1
  /\ shown' = IF Wired(read + 1) THEN shown \cup {read + 1} ELSE shown
  /\ UNCHANGED <<cmd, cancelled, server, phase, result, err, status, noticed, fault>>

\* Mutant: the error of Write is ignored.
WriteFailsIgnored ==
  /\ ReadingChunk /\ Wired(read + 1)
  /\ read' = read + 1 /\ fault' = TRUE
  /\ UNCHANGED <<cmd, cancelled, server, phase, result, err, shown, status, noticed>>

WriteFails == ReadingChunk /\ Wired(read + 1) /\ Fails(TRUE)

\* The loop goes on to the end of the body, though nothing should follow.
ReadExit ==
  /\ phase = "stream" /\ read < sent /\ read = Chunks
  /\ read' = read + 1
  /\ exitCode' = cmd.code /\ exitErr' = cmd.error /\ sawExit' = TRUE
  /\ UNCHANGED <<cmd, cancelled, server, phase, err, shown, status, noticed, fault>>

\* A line that is no JSON, or whose data is no base64: damaged, or cut short.
ReadGarbled == phase = "stream" /\ Fails(TRUE)

\* Mutant: the end of the body is good whether or not an exit frame came.
ReadEOFWithoutExit ==
  /\ phase = "stream" /\ conn = "closed" /\ read = sent
  /\ Returns(exitErr)
  /\ UNCHANGED <<cmd, cancelled, server, read, result, shown, status, noticed, fault>>

\* Mutant: the loop ends on an exit frame only.
ReadEOFInsists ==
  /\ phase = "stream" /\ conn = "closed" /\ read = sent /\ sawExit
  /\ Returns(exitErr)
  /\ UNCHANGED <<cmd, cancelled, server, read, result, shown, status, noticed, fault>>

ReadEOF ==
  /\ phase = "stream" /\ conn = "closed" /\ read = sent
  /\ Returns(~sawExit \/ exitErr)
  /\ UNCHANGED <<cmd, cancelled, server, read, result, shown, status, noticed, fault>>

\* Mutant: the request is built without the context.
ReadBrokenWithoutCtx == phase = "stream" /\ conn = "reset" /\ Fails(FALSE)

\* A reset may overtake frames that were sent; so does a cancellation.
ReadBroken == phase = "stream" /\ (conn = "reset" \/ cancelled) /\ Fails(FALSE)

-----------------------------------------------------------------------------
(***************************************************************************)
(* agentCommunicator.Start: the rest of the goroutine.                     *)
(***************************************************************************)
\* Mutant: only a negative code is made a failure.
CoercedNegative(code, failed) == IF failed /\ code < 0 THEN 1 ELSE code

\* Mutant: any error hides the code.
CoercedAlways(code, failed) == IF failed THEN 1 ELSE code

Coerced(code, failed) == IF failed /\ code <= 0 THEN 1 ELSE code

SetExited ==
  /\ phase = "done"
  /\ phase' = "exited"
  /\ noticed' = (err /\ "stderr" \in cmd.writers)
  /\ status' = Coerced(exitCode, err)
  /\ UNCHANGED <<cmd, cancelled, server, read, result, err, shown, fault>>

-----------------------------------------------------------------------------
Next ==
  \/ Launch \/ Emit \/ StreamEnds("closed") \/ StreamEnds("reset") \/ Cancel
  \/ RequestRefused \/ RequestAborted \/ Respond
  \/ ReadChunk \/ WriteFails \/ ReadExit \/ ReadGarbled \/ ReadEOF \/ ReadBroken
  \/ SetExited

Spec == Init /\ [][Next]_vars

(* The goroutine runs on; a read returns once there is something to read,  *)
(* the connection has ended, or the context is done.                       *)
ClientFairness ==
  /\ WF_vars(RequestAborted)
  /\ WF_vars(ReadChunk \/ WriteFails \/ ReadExit \/ ReadEOF)
  /\ WF_vars(ReadBroken)
  /\ WF_vars(SetExited)

(* The server answers the request, and ends each stream, in whatever way.  *)
ServerFairness ==
  /\ WF_vars(Launch \/ Respond \/ RequestRefused)
  /\ WF_vars(StreamEnds("closed") \/ StreamEnds("reset"))

FairSpec == Spec /\ ClientFairness

-----------------------------------------------------------------------------
(***************************************************************************)
(* Properties.                                                             *)
(***************************************************************************)

(* The type invariant; the exit code is the -1 ExecStream starts with or   *)
(* the agent's.                                                            *)
TypeOK ==
  /\ cmd \in Commands
  /\ cancelled \in BOOLEAN /\ fault \in BOOLEAN
  /\ conn \in {"none", "open", "closed", "reset"}
  /\ phase \in {"request", "stream", "done", "exited"}
  /\ sent \in 0..Frames /\ read \in 0..sent
  /\ exitCode \in {-1, cmd.code} /\ exitErr \in BOOLEAN /\ sawExit \in BOOLEAN
  /\ err \in BOOLEAN /\ noticed \in BOOLEAN
  /\ shown \subseteq 1..Chunks
  /\ status \in Int

(* A failure must not look like success (communicator_agent.go:65-67): a   *)
(* command that exits with 0 has ended with 0 and without an error of the  *)
(* agent, and all its output is where the provisioner asked for it,        *)
(* however the stream, the writers and a cancellation behaved.             *)
NoFalseSuccess ==
  phase = "exited" /\ status = 0 =>
    /\ sent = Frames /\ cmd.code = 0 /\ ~cmd.error
    /\ {i \in 1..Chunks : Wired(i)} \subseteq shown

(* An exit status is the command's own, or the generic 1 with the reason   *)
(* on stderr; a positive code the agent reported survives any later        *)
(* failure of the stream.                                                  *)
StatusHasACause ==
  phase = "exited" =>
    /\ \/ sawExit /\ status = cmd.code
       \/ status = 1 /\ ("stderr" \in cmd.writers => noticed)
    /\ sawExit /\ cmd.code > 0 => status = cmd.code

(* Output is never reordered and never has a hole: what was shown of the   *)
(* two streams together is what the command wrote up to some chunk, less   *)
(* the streams without a writer.                                           *)
OutputWithoutHoles ==
  /\ \A i \in shown : i <= sent /\ Wired(i)
  /\ \A i \in shown : \A j \in 1..i : Wired(j) => j \in shown

(* The other direction: where nothing went wrong and nobody cancelled, the *)
(* provisioner sees the agent's code, also beside an error of the agent if *)
(* it is positive, and all the output.                                     *)
CleanRunExact ==
  phase = "exited" /\ ~fault /\ ~cancelled =>
    /\ status = IF cmd.error /\ cmd.code <= 0 THEN 1 ELSE cmd.code
    /\ \A i \in 1..Chunks : Wired(i) => i \in shown

(* The communicator keeps the promise of RemoteCommand, whatever happens   *)
(* on the connection.                                                      *)
Remote == INSTANCE RemoteCommand WITH
  wrote     <- IF sent = Frames THEN Chunks ELSE sent,
  ended     <- sent = Frames,
  delivered <- shown,
  reported  <- phase = "exited"

PromiseKept == Remote!Spec

(* Every command comes to an exit status, if the server answers requests   *)
(* and ends its streams: with or without an exit frame.  A cancelled one   *)
(* does even if the server is mute and never closes the stream, for which  *)
(* streamHC has no timeout.                                                *)
CommandReturns ==
  /\ ServerFairness => <>(phase = "exited")
  /\ cancelled ~> phase = "exited"

=============================================================================
