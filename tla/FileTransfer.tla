------------------------------ MODULE FileTransfer ------------------------------
(***************************************************************************)
(* One file sent to the VM or fetched from it: agentCommunicator.Upload    *)
(* and Download on Client.UploadFile and DownloadFile, and, outside the    *)
(* repository, the HTTP transport, the server and the agent behind it.     *)
(*                                                                         *)
(* A file is a number of chunks.  While an upload goes out the server may  *)
(* already refuse it; a download may break after some of it has been       *)
(* written.  The server is assumed to end a download it cannot finish with *)
(* a reset: a body that ends early but cleanly is taken for the file.      *)
(***************************************************************************)
EXTENDS Integers

Modes == {"default", "0000", "0644"}

(* chunks: the size of the file; info: the caller gives a FileInfo, and    *)
(* then mode is its permission bits; tooLarge: the file is above what the  *)
(* API is ready to read.                                                   *)
Transfer ==
  [ kind : {"upload", "download"}, chunks : Nat, info : BOOLEAN,
    mode : Modes \ {"default"}, tooLarge : BOOLEAN ]

CONSTANT Transfers

ASSUME TransfersAssumption == Transfers \subseteq Transfer

VARIABLES
  req,        \* the transfer
  cancelled,  \* the build context is done
  phase,      \* "call" (in Client.Do), "body" (reading the response), "done"
  err,        \* the call returned an error
  sent,       \* chunks on the wire, in the direction of the transfer
  ended,      \* upload: the end of the request body is on the wire
  closed,     \* the end of the response body is on the wire
  written,    \* chunks at the destination
  vmMode,     \* upload: mode the agent gave the file, once it is complete
  answer,     \* "none", "ok", "refused"
  broken,     \* the connection was reset
  fault       \* history: something other than a cancellation went wrong

wire == <<sent, ended, closed>>
dest == <<written, vmMode>>
vars == <<req, cancelled, phase, err, wire, dest, answer, broken, fault>>

Upload   == req.kind = "upload"
Download == req.kind = "download"

Init ==
  /\ req \in Transfers
  /\ cancelled = FALSE
  /\ phase = "call" /\ err = FALSE
  /\ sent = 0 /\ ended = FALSE /\ closed = FALSE
  /\ written = 0 /\ vmMode = "none"
  /\ answer = "none" /\ broken = FALSE /\ fault = FALSE

Returns(failed, isFault) ==
  /\ phase' = "done" /\ err' = failed /\ fault' = (fault \/ isFault)
  /\ UNCHANGED <<req, cancelled, wire, dest, answer, broken>>

-----------------------------------------------------------------------------
(***************************************************************************)
(* The server and the agent, and the user.                                 *)
(***************************************************************************)
\* The mode parameter is left out when there is no FileInfo, or it has no
\* permission bit; the agent then chooses.
AskedMode == IF req.info /\ req.mode # "0000" THEN req.mode ELSE "default"

\* The agent writes what has arrived; with the last of it the file has its mode.
AgentWrites ==
  /\ Upload /\ answer = "none" /\ written < sent
  /\ written' = written + 1
  /\ UNCHANGED <<req, cancelled, phase, err, wire, vmMode, answer, broken, fault>>

AgentCompletes ==
  /\ Upload /\ answer = "none" /\ ended /\ written = sent /\ vmMode = "none"
  /\ vmMode' = AskedMode
  /\ UNCHANGED <<req, cancelled, phase, err, wire, written, answer, broken, fault>>

Accept ==
  /\ answer = "none" /\ ~broken
  /\ Upload => vmMode # "none"
  /\ Download => ~req.tooLarge
  /\ answer' = "ok"
  /\ UNCHANGED <<req, cancelled, phase, err, wire, dest, broken, fault>>

\* An upload may be refused before it is complete, a download with 413.
Refuse ==
  /\ answer = "none" /\ ~broken
  /\ answer' = "refused" /\ fault' = TRUE
  /\ UNCHANGED <<req, cancelled, phase, err, wire, dest, broken>>

SendChunkDown ==
  /\ Download /\ answer = "ok" /\ ~broken /\ sent < req.chunks
  /\ sent' = sent + 1
  /\ UNCHANGED <<req, cancelled, phase, err, ended, closed, dest, answer, broken, fault>>

CloseResponse ==
  /\ answer # "none" /\ ~broken /\ ~closed
  /\ Download /\ answer = "ok" => sent = req.chunks
  /\ closed' = TRUE
  /\ UNCHANGED <<req, cancelled, phase, err, sent, ended, dest, answer, broken, fault>>

\* A connection that is no longer of use to either side is left alone.
Reset ==
  /\ ~broken /\ phase # "done"
  /\ broken' = TRUE /\ fault' = TRUE
  /\ UNCHANGED <<req, cancelled, phase, err, wire, dest, answer>>

Cancel ==
  /\ ~cancelled /\ phase # "done"
  /\ cancelled' = TRUE
  /\ UNCHANGED <<req, phase, err, wire, dest, answer, broken, fault>>

-----------------------------------------------------------------------------
(***************************************************************************)
(* The client: Do sends the body while it waits for the answer.            *)
(***************************************************************************)
SendChunkUp ==
  /\ Upload /\ phase = "call" /\ ~broken /\ answer = "none" /\ sent < req.chunks
  /\ sent' = sent + 1
  /\ UNCHANGED <<req, cancelled, phase, err, ended, closed, dest, answer, broken, fault>>

EndUp ==
  /\ Upload /\ phase = "call" /\ ~broken /\ answer = "none" /\ sent = req.chunks /\ ~ended
  /\ ended' = TRUE
  /\ UNCHANGED <<req, cancelled, phase, err, sent, closed, dest, answer, broken, fault>>

\* Mutant: a reader that fails ends the body like one that is at its end.
ReaderFailsAsEOF ==
  /\ Upload /\ phase = "call" /\ answer = "none" /\ ~ended /\ sent < req.chunks
  /\ ended' = TRUE
  /\ UNCHANGED <<req, cancelled, phase, err, sent, closed, dest, answer, broken, fault>>

\* Mutant: the io.EOF of the reader counts as its failure.
ReaderFailsOnEOF ==
  /\ Upload /\ phase = "call" /\ answer = "none" /\ ~ended
  /\ Returns(TRUE, sent < req.chunks)

\* Reading the local file fails: the transport drops the connection.
ReaderFails ==
  /\ Upload /\ phase = "call" /\ answer = "none" /\ ~ended
  /\ Returns(TRUE, TRUE)

\* Mutant: the request is built without the context.
NoAnswerWithoutCtx == phase = "call" /\ broken /\ Returns(TRUE, FALSE)

\* A reset, or the context, may overtake an answer on the wire.
NoAnswer == phase = "call" /\ (broken \/ cancelled) /\ Returns(TRUE, FALSE)

Answered ==
  /\ phase = "call" /\ answer # "none"
  /\ phase' = "body"
  /\ UNCHANGED <<req, cancelled, err, wire, dest, answer, broken, fault>>

\* Mutant: the status of the answer is not looked at.
HasContentUnchecked == Download

\* The response body is the file.
HasContent == Download /\ answer = "ok"

\* Mutant: the rest of the response is waited for even when refused.
DrainedToTheEnd ==
  /\ phase = "body" /\ ~HasContent /\ closed
  /\ Returns(answer = "refused", FALSE)

\* Otherwise it is an error to parse, or the rest of a success: read to its
\* end, or to where it breaks, which changes nothing.
Drained ==
  /\ phase = "body" /\ ~HasContent /\ (closed \/ broken \/ cancelled)
  /\ Returns(answer = "refused", FALSE)

CopyChunk ==
  /\ phase = "body" /\ HasContent /\ written < sent
  /\ written' = written + 1
  /\ UNCHANGED <<req, cancelled, phase, err, wire, vmMode, answer, broken, fault>>

\* The caller's writer fails.
WriteFails == phase = "body" /\ HasContent /\ written < sent /\ Returns(TRUE, TRUE)

\* Mutant: an unexpected end of the body is an end like any other.
CopyBreaksQuietly ==
  phase = "body" /\ HasContent /\ (broken \/ cancelled) /\ Returns(FALSE, FALSE)

CopyBreaks == phase = "body" /\ HasContent /\ (broken \/ cancelled) /\ Returns(TRUE, FALSE)

CopyEnds == phase = "body" /\ HasContent /\ closed /\ written = sent /\ Returns(FALSE, FALSE)

-----------------------------------------------------------------------------
Next ==
  \/ AgentWrites \/ AgentCompletes \/ Accept \/ Refuse
  \/ SendChunkDown \/ CloseResponse \/ Reset \/ Cancel
  \/ SendChunkUp \/ EndUp \/ ReaderFails
  \/ NoAnswer \/ Answered \/ Drained
  \/ CopyChunk \/ WriteFails \/ CopyBreaks \/ CopyEnds

Spec == Init /\ [][Next]_vars

ClientFairness ==
  /\ WF_vars(SendChunkUp \/ EndUp \/ ReaderFails)
  /\ WF_vars(NoAnswer \/ Answered)
  /\ WF_vars(Drained)
  /\ WF_vars(CopyChunk \/ WriteFails \/ CopyBreaks \/ CopyEnds)

(* The server answers each request and brings each answer to its end.      *)
ServerFairness ==
  /\ WF_vars(AgentWrites \/ AgentCompletes)
  /\ WF_vars(Accept \/ Refuse)
  /\ WF_vars(SendChunkDown \/ CloseResponse)

FairSpec == Spec /\ ClientFairness

-----------------------------------------------------------------------------
(***************************************************************************)
(* Properties.                                                             *)
(***************************************************************************)
(* The type invariant; nothing arrives that was not sent.                  *)
TypeOK ==
  /\ req \in Transfers
  /\ cancelled \in BOOLEAN /\ err \in BOOLEAN /\ broken \in BOOLEAN /\ fault \in BOOLEAN
  /\ phase \in {"call", "body", "done"}
  /\ sent \in 0..req.chunks /\ written \in 0..sent
  /\ ended \in BOOLEAN /\ closed \in BOOLEAN /\ (ended => sent = req.chunks)
  /\ vmMode \in Modes \cup {"none"}
  /\ answer \in {"none", "ok", "refused"}

(* The transfer keeps the promise of FileCall: an answer that is lost, a   *)
(* reader or writer that fails, a reset or a cancellation at any point     *)
(* never makes an incomplete file look like a success.                     *)
Call == INSTANCE FileCall WITH
  stage  <- IF phase = "done" THEN "returned" ELSE "out",
  whole  <- IF Upload THEN vmMode # "none" /\ written = req.chunks
                      ELSE answer = "ok" /\ written = req.chunks,
  failed <- err

CallPromised == Call!Spec

(* README.md:281-282: a file that is too large is refused, and the answer  *)
(* that says so never ends up in the file of the caller.                   *)
RefusalKeptOutOfFile ==
  Download /\ (answer = "refused" \/ req.tooLarge) =>
    written = 0 /\ (phase = "done" => err)

(* A transfer that nothing and nobody disturbs succeeds.  An upload that   *)
(* succeeds has left the file with the mode of its FileInfo, but for a     *)
(* mode of 0000, which the call has no way to say.                         *)
CleanTransferSucceeds ==
  /\ phase = "done" /\ ~fault /\ ~cancelled => ~err
  /\ Upload /\ phase = "done" /\ ~err =>
       vmMode = IF req.info /\ req.mode # "0000" THEN req.mode ELSE "default"

(* Every transfer returns, if the server goes on.  A cancelled one returns *)
(* even if the server is mute: streamHC has no timeout, so that nothing    *)
(* else would end it.                                                      *)
TransferReturns ==
  /\ ServerFairness => <>(phase = "done")
  /\ cancelled ~> phase = "done"

=============================================================================
