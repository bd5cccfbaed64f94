--------------------------- MODULE ExecStreamProofs ---------------------------
(***************************************************************************)
(* Theorems about ExecStream, for every set of commands: any length and    *)
(* interleaving of output, any exit code, any choice of writers.           *)
(***************************************************************************)
EXTENDS ExecStream, TLAPS

(***************************************************************************)
(* The inductive invariant.                                                *)
(***************************************************************************)
\* The locals of ExecStream say how far it has read.
Locals ==
  /\ sawExit <=> read = Frames
  /\ sawExit => exitCode = cmd.code /\ exitErr = cmd.error
  /\ ~sawExit => exitCode = -1 /\ ~exitErr
  /\ phase = "request" => read = 0

\* What was shown is what was read, less the streams without a writer.
Output == shown = {i \in 1..Chunks : i <= read /\ Wired(i)}

\* No error only on the way through ReadEOF, after an exit frame.
Verdict ==
  /\ phase \in {"done", "exited"} /\ ~err => sawExit /\ ~exitErr
  /\ phase = "exited" => status = Coerced(exitCode, err)
  /\ phase = "exited" => noticed = (err /\ "stderr" \in cmd.writers)

\* Who is to blame for a stream that did not come to its proper end.
Blame ==
  /\ conn = "reset" => fault
  /\ conn = "closed" => fault \/ sent = Frames
  /\ phase \in {"done", "exited"} => fault \/ cancelled \/ (sawExit /\ err = exitErr)

IInv == TypeOK /\ Locals /\ Output /\ Verdict /\ Blame

-----------------------------------------------------------------------------
(***************************************************************************)
(* Facts about a command.                                                  *)
(***************************************************************************)
LEMMA CommandFields ==
  ASSUME TypeOK
  PROVE  /\ Chunks \in Nat /\ Frames = Chunks + 1 /\ Frames \in Nat
         /\ sent \in Nat /\ read \in Nat /\ read <= sent /\ sent <= Frames
         /\ cmd.code \in Int /\ cmd.error \in BOOLEAN /\ exitCode \in Int
         /\ cmd.chunks \in Seq(Streams)
  BY CommandsAssumption DEF TypeOK, Command, Chunks, Frames

-----------------------------------------------------------------------------
LEMMA InitInv == Init => IInv
<1> SUFFICES ASSUME Init PROVE IInv
  OBVIOUS
<1>1. cmd \in Command /\ Chunks \in Nat /\ Frames = Chunks + 1
  BY CommandsAssumption DEF Init, Command, Chunks, Frames
<1>2. TypeOK
  <2>1. sent \in 0..Frames /\ read \in 0..sent /\ shown \subseteq 1..Chunks /\ status \in Int
    BY <1>1 DEF Init
  <2> QED
    BY <2>1 DEF Init, TypeOK
<1>3. Locals /\ Output /\ Verdict /\ Blame
  BY <1>1 DEF Init, Locals, Output, Verdict, Blame
<1> QED
  BY <1>2, <1>3 DEF IInv

(***************************************************************************)
(* One step per action; the definitions of the state are expanded in each. *)
(***************************************************************************)
LEMMA NextInv == IInv /\ [Next]_vars => IInv'
<1> SUFFICES ASSUME IInv, [Next]_vars PROVE IInv'
  OBVIOUS
<1> USE DEF IInv, TypeOK, Locals, Output, Verdict, Blame, Frames, Chunks, Wired
<1>0. /\ Len(cmd.chunks) \in Nat
      /\ cmd.code \in Int /\ cmd.error \in BOOLEAN
  BY CommandFields
<1>1. CASE Launch
  BY <1>0, <1>1 DEF Launch, result
<1>2. CASE Emit
  BY <1>0, <1>2 DEF Emit, result
<1>3. ASSUME NEW how \in {"closed", "reset"}, StreamEnds(how)
      PROVE  IInv'
  <2>1. fault' \in BOOLEAN
    BY <1>3, Zenon DEF StreamEnds
  <2>2. (conn' = "reset" => fault') /\ (conn' = "closed" => fault' \/ sent' = Frames')
    <3>1. sent = Frames \/ sent < Frames
      BY <1>0
    <3> QED
      BY <1>3, <3>1 DEF StreamEnds
  <2>3. UNCHANGED <<cmd, cancelled, sent, phase, read, result, err, shown, status, noticed>>
    BY <1>3 DEF StreamEnds
  <2>4. conn' \in {"none", "open", "closed", "reset"} /\ (fault => fault')
    BY <1>3 DEF StreamEnds
  <2> QED
    BY <1>0, <2>1, <2>2, <2>3, <2>4 DEF result
<1>4. CASE Cancel
  BY <1>0, <1>4 DEF Cancel, result, server
<1>5. ASSUME NEW f \in BOOLEAN, Fails(f), phase \in {"request", "stream"},
             f \/ cancelled \/ fault
      PROVE  IInv'
  BY <1>0, <1>5 DEF Fails, Returns, result, server
<1>6. CASE Respond
  BY <1>0, <1>6 DEF Respond, result, server
<1>7. CASE ReadChunk
  BY <1>0, <1>7 DEF ReadChunk, ReadingChunk, result, server
<1>8. CASE ReadExit
  BY <1>0, <1>8 DEF ReadExit, server
<1>9. CASE ReadEOF
  BY <1>0, <1>9 DEF ReadEOF, Returns, result, server
<1>10. CASE SetExited
  BY <1>0, <1>10 DEF SetExited, Coerced, result, server
<1>11. CASE UNCHANGED vars
  BY <1>11 DEF vars, result, server
<1>12. CASE RequestRefused \/ RequestAborted \/ WriteFails \/ ReadGarbled \/ ReadBroken
  <2>1. PICK f \in BOOLEAN : /\ Fails(f) /\ phase \in {"request", "stream"}
                             /\ f \/ cancelled \/ fault
    BY <1>12 DEF RequestRefused, RequestAborted, WriteFails, ReadingChunk, ReadGarbled, ReadBroken
  <2> QED
    BY <1>5, <2>1
<1> QED
  BY <1>1, <1>2, <1>3, <1>4, <1>6, <1>7, <1>8, <1>9, <1>10, <1>11, <1>12 DEF Next

(* The invariant holds in every reachable state of every command.          *)
THEOREM StreamInvariant == Spec => []IInv
  BY InitInv, NextInv, PTL DEF Spec

-----------------------------------------------------------------------------
(***************************************************************************)
(* The safety properties.                                                  *)
(***************************************************************************)

(* Type correctness (TypeOK).                                              *)
THEOREM StreamTypes == Spec => []TypeOK
  BY StreamInvariant, PTL DEF IInv

(* However the stream breaks, a status of 0 means that the command ended   *)
(* with 0 and that all its output arrived (NoFalseSuccess).                *)
THEOREM SuccessIsTrue == Spec => []NoFalseSuccess
<1>1. IInv => NoFalseSuccess
  BY CommandFields DEF IInv, Locals, Output, Verdict, Coerced, NoFalseSuccess
<1> QED
  BY <1>1, StreamInvariant, PTL

(* A status is the command's or an announced 1, and a positive code that   *)
(* was read is not lost (StatusHasACause).                                 *)
THEOREM StatusIsFounded == Spec => []StatusHasACause
<1>1. ASSUME IInv, phase = "exited" PROVE StatusHasACause
  <2>1. status = Coerced(exitCode, err) /\ noticed = (err /\ "stderr" \in cmd.writers)
    BY <1>1 DEF IInv, Verdict
  <2>2. (~err => sawExit) /\ (sawExit => exitCode = cmd.code)
    BY <1>1 DEF IInv, Verdict, Locals
  <2>3. ~sawExit => exitCode = -1
    BY <1>1 DEF IInv, Locals
  <2>4. cmd.code \in Int
    BY <1>1, CommandFields DEF IInv
  <2>5. CASE err
    <3>1. status = IF exitCode <= 0 THEN 1 ELSE exitCode
      BY <2>1, <2>5 DEF Coerced
    <3>2. noticed <=> "stderr" \in cmd.writers
      BY <2>1, <2>5
    <3>3. (sawExit /\ status = cmd.code) \/ status = 1
      BY <2>2, <2>3, <3>1
    <3>4. sawExit /\ cmd.code > 0 => status = cmd.code
      BY <2>2, <2>4, <3>1
    <3> QED
      BY <3>2, <3>3, <3>4 DEF StatusHasACause
  <2>6. CASE ~err
    BY <2>1, <2>2, <2>4, <2>6 DEF Coerced, StatusHasACause
  <2> QED
    BY <1>1, <2>5, <2>6 DEF IInv, TypeOK
<1>2. IInv => StatusHasACause
  BY <1>1 DEF StatusHasACause
<1> QED
  BY <1>2, StreamInvariant, PTL

(* The output shown is what was written, in order and without holes        *)
(* (OutputWithoutHoles).                                                   *)
THEOREM OutputIsPrefix == Spec => []OutputWithoutHoles
<1>1. IInv => OutputWithoutHoles
  BY CommandFields DEF IInv, Output, OutputWithoutHoles
<1> QED
  BY <1>1, StreamInvariant, PTL

(* Without a fault and a cancellation the provisioner gets the code and    *)
(* the whole output (CleanRunExact).                                       *)
THEOREM CleanRunIsExact == Spec => []CleanRunExact
<1>1. IInv => CleanRunExact
  BY CommandFields DEF IInv, Locals, Output, Verdict, Blame, Coerced, CleanRunExact
<1> QED
  BY <1>1, StreamInvariant, PTL

-----------------------------------------------------------------------------
(***************************************************************************)
(* The refinement.  An Emit is a Write, or the End when it sends the exit  *)
(* frame; ReadChunk is a Deliver if the chunk has a writer; SetExited is   *)
(* the Report; all else is invisible to the provisioner.                   *)
(***************************************************************************)
LEMMA StreamStepRefines == IInv /\ [Next]_vars => [Remote!Next]_(Remote!vars)
<1> SUFFICES ASSUME IInv, [Next]_vars PROVE [Remote!Next]_(Remote!vars)
  OBVIOUS
<1> USE DEF Frames, Chunks
<1>0. /\ TypeOK /\ Len(cmd.chunks) \in Nat /\ sent \in Nat /\ read \in Nat
      /\ read <= sent /\ sent <= Len(cmd.chunks) + 1 /\ cmd.code \in Int
  BY CommandFields DEF IInv
<1>1. ASSUME UNCHANGED <<cmd, sent, shown, status>>, phase # "exited", phase' # "exited"
      PROVE  UNCHANGED Remote!vars
  BY <1>1 DEF Remote!vars
<1>2. CASE Emit
  <2>1. CASE sent < Len(cmd.chunks)
    BY <1>0, <1>2, <2>1 DEF Emit, Remote!Next, Remote!Write
  <2>2. CASE sent = Len(cmd.chunks)
    BY <1>0, <1>2, <2>2 DEF Emit, Remote!Next, Remote!End
  <2> QED
    BY <1>0, <1>2, <2>1, <2>2 DEF Emit
<1>3. CASE ReadChunk
  <2>1. CASE ~Wired(read + 1)
    BY <1>1, <1>3, <2>1 DEF ReadChunk, ReadingChunk, server
  <2>2. CASE Wired(read + 1)
    <3> DEFINE i == read + 1
    <3>1. /\ i \in Remote!Wanted(cmd) \ shown
          /\ i <= (IF sent = Frames THEN Chunks ELSE sent)
          /\ \A j \in Remote!Wanted(cmd) : j < i => j \in shown
      BY <1>0, <1>3, <2>2 DEF ReadChunk, ReadingChunk, Wired, Output, IInv, Remote!Wanted
    <3>2. shown' = shown \cup {i} /\ phase # "exited" /\ UNCHANGED <<cmd, phase, status, sent>>
      BY <1>3, <2>2 DEF ReadChunk, ReadingChunk, server
    <3> HIDE DEF i
    <3>3. Remote!Deliver
      BY <3>1, <3>2 DEF Remote!Deliver
    <3> QED
      BY <3>3 DEF Remote!Next
  <2> QED
    BY <2>1, <2>2
<1>4. CASE SetExited
  <2> DEFINE c == Coerced(exitCode, err)
  <2>1. c = 1 \/ (sent = Frames /\ c = cmd.code)
    BY <1>0, <1>4 DEF SetExited, IInv, Locals, Verdict, Coerced, TypeOK
  <2>2. c = 0 => ~cmd.error /\ sent = Frames /\ read = Frames
    BY <1>0, <1>4 DEF SetExited, IInv, Locals, Verdict, Coerced, TypeOK
  <2>3. read = Frames => shown = Remote!Wanted(cmd)
    BY <1>0 DEF IInv, Output, Wired, Remote!Wanted
  <2>4. /\ phase # "exited" /\ phase' = "exited" /\ status' = c
        /\ UNCHANGED <<cmd, sent, shown>>
    BY <1>4 DEF SetExited, server
  <2> HIDE DEF c
  <2>5. Remote!Report(c)
    BY <2>1, <2>2, <2>3, <2>4 DEF Remote!Report
  <2> QED
    BY <2>1, <2>5 DEF Remote!Next
<1>5. CASE UNCHANGED vars
  BY <1>5 DEF vars, server, Remote!vars
<1>6. CASE \/ Launch \/ StreamEnds("closed") \/ StreamEnds("reset")
           \/ RequestRefused \/ RequestAborted \/ Respond
           \/ WriteFails \/ ReadExit \/ ReadGarbled \/ ReadEOF \/ ReadBroken
  <2>1. CASE phase # "exited" /\ phase' # "exited"
    BY <1>1, <1>6, <2>1 DEF Launch, StreamEnds, RequestRefused, RequestAborted, Respond, WriteFails,
       ReadExit, ReadGarbled, ReadEOF, ReadBroken, Fails, Returns, server
  <2>2. CASE phase = "exited" \/ phase' = "exited"
    <3>1. UNCHANGED <<cmd, sent, shown, status, phase>>
      BY <1>6, <2>2 DEF Launch, StreamEnds, RequestRefused, RequestAborted, Respond, WriteFails,
         ReadingChunk, ReadExit, ReadGarbled, ReadEOF, ReadBroken, Fails, Returns
    <3> QED
      BY <3>1 DEF Remote!vars
  <2> QED
    BY <2>1, <2>2
<1>7. CASE Cancel
  BY <1>7 DEF Cancel, server, Remote!vars
<1> QED
  BY <1>2, <1>3, <1>4, <1>5, <1>6, <1>7 DEF Next

(* The communicator implements RemoteCommand: chunks in order, one status, *)
(* nothing after it (PromiseKept).                                         *)
THEOREM PromiseImplemented == Spec => PromiseKept
<1>1. Init => Remote!Init
  BY CommandsAssumption DEF Init, Remote!Init, Frames, Chunks, Command
<1>2. IInv /\ [Next]_vars => [Remote!Next]_(Remote!vars)
  BY StreamStepRefines
<1>3. Spec => Remote!Spec
  BY <1>1, <1>2, StreamInvariant, PTL DEF Spec, Remote!Spec
<1> QED
  BY <1>3 DEF PromiseKept

=============================================================================
