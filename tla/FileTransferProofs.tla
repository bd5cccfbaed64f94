--------------------------- MODULE FileTransferProofs ---------------------------
(***************************************************************************)
(* Theorems about FileTransfer, for every set of transfers.                *)
(***************************************************************************)
EXTENDS FileTransfer, TLAPS

\* What the destination has, the wire has carried.
Wire ==
  /\ vmMode # "none" => Upload /\ ended /\ written = req.chunks /\ vmMode = AskedMode
  /\ Upload /\ answer = "ok" => vmMode # "none"
  /\ Download /\ answer # "ok" => sent = 0
  /\ Download /\ answer = "ok" => ~req.tooLarge
  /\ closed => answer # "none" /\ (Download /\ answer = "ok" => sent = req.chunks)
  /\ phase = "body" => answer # "none"

\* What an error comes from.
Blame ==
  /\ broken \/ answer = "refused" => fault
  /\ phase = "done" /\ ~fault /\ ~cancelled => ~err

\* What a success means.
Success ==
  /\ phase # "done" => ~err
  /\ phase = "done" /\ ~err => answer = "ok" /\ written = req.chunks

IInv == TypeOK /\ Wire /\ Blame /\ Success

-----------------------------------------------------------------------------
\* The actions that return, with the reason for each error and each success.
LEMMA ReturnsRightly ==
  ASSUME IInv, NEW failed \in BOOLEAN, NEW isFault \in BOOLEAN, phase # "done",
         Returns(failed, isFault),
         failed => isFault \/ fault \/ cancelled,
         ~failed => answer = "ok" /\ written = req.chunks
  PROVE  IInv'
<1>1. TypeOK'
  BY DEF IInv, TypeOK, Returns, wire, dest
<1>2. Wire'
  BY DEF IInv, Wire, Returns, wire, dest, Upload, Download, AskedMode
<1>3. Blame'
  BY DEF IInv, TypeOK, Blame, Returns
<1>4. Success'
  BY DEF IInv, Success, Returns, dest
<1> QED
  BY <1>1, <1>2, <1>3, <1>4 DEF IInv

\* A transfer starts in the invariant.
LEMMA InitInvariant == Init => IInv
<1> SUFFICES ASSUME Init PROVE IInv
  OBVIOUS
<1>1. req.chunks \in Nat
  BY TransfersAssumption DEF Init, Transfer
<1>2. TypeOK
  <2>1. sent \in 0..req.chunks /\ written \in 0..sent
    BY <1>1 DEF Init
  <2> QED
    BY <2>1 DEF Init, TypeOK, Modes
<1>3. Wire /\ Blame /\ Success
  BY DEF Init, Wire, Blame, Success
<1> QED
  BY <1>2, <1>3 DEF IInv

\* No step leaves the invariant.
LEMMA NextInvariant == IInv /\ [Next]_vars => IInv'
<1> SUFFICES ASSUME IInv, [Next]_vars PROVE IInv'
  OBVIOUS
<1> USE DEF Upload, Download, AskedMode, wire, dest
<1>0. req.chunks \in Nat /\ req.mode \in Modes /\ req.kind \in {"upload", "download"}
  BY TransfersAssumption DEF IInv, TypeOK, Transfer
<1>1. CASE AgentWrites
  BY <1>0, <1>1 DEF AgentWrites, IInv, TypeOK, Wire, Blame, Success
<1>2. CASE AgentCompletes
  BY <1>0, <1>2 DEF AgentCompletes, IInv, TypeOK, Wire, Blame, Success, Modes
<1>3. CASE Accept
  BY <1>0, <1>3 DEF Accept, IInv, TypeOK, Wire, Blame, Success
<1>4. CASE Refuse
  BY <1>0, <1>4 DEF Refuse, IInv, TypeOK, Wire, Blame, Success
<1>5. CASE SendChunkDown
  BY <1>0, <1>5 DEF SendChunkDown, IInv, TypeOK, Wire, Blame, Success
<1>6. CASE CloseResponse
  BY <1>0, <1>6 DEF CloseResponse, IInv, TypeOK, Wire, Blame, Success
<1>7. CASE Reset
  BY <1>0, <1>7 DEF Reset, IInv, TypeOK, Wire, Blame, Success
<1>8. CASE Cancel
  BY <1>0, <1>8 DEF Cancel, IInv, TypeOK, Wire, Blame, Success
<1>9. CASE SendChunkUp
  BY <1>0, <1>9 DEF SendChunkUp, IInv, TypeOK, Wire, Blame, Success
<1>10. CASE EndUp
  BY <1>0, <1>10 DEF EndUp, IInv, TypeOK, Wire, Blame, Success
<1>11. CASE ReaderFails
  BY <1>11, ReturnsRightly DEF ReaderFails
<1>12. CASE NoAnswer
  BY <1>12, ReturnsRightly DEF NoAnswer, IInv, Blame
<1>13. CASE Answered
  BY <1>0, <1>13 DEF Answered, IInv, TypeOK, Wire, Blame, Success
<1>14. CASE Drained
  <2>1. answer = "refused" => fault
    BY DEF IInv, Blame
  <2>2. answer # "refused" => answer = "ok" /\ written = req.chunks
    BY <1>0, <1>14 DEF Drained, HasContent, IInv, TypeOK, Wire
  <2> QED
    BY <1>14, <2>1, <2>2, ReturnsRightly DEF Drained
<1>15. CASE CopyChunk
  BY <1>0, <1>15 DEF CopyChunk, HasContent, IInv, TypeOK, Wire, Blame, Success
<1>16. CASE WriteFails
  BY <1>16, ReturnsRightly DEF WriteFails
<1>17. CASE CopyBreaks
  BY <1>17, ReturnsRightly DEF CopyBreaks, IInv, Blame
<1>18. CASE CopyEnds
  BY <1>18, ReturnsRightly DEF CopyEnds, HasContent, IInv, Wire
<1>19. CASE UNCHANGED vars
  BY <1>19 DEF vars, IInv, TypeOK, Wire, Blame, Success
<1> QED
  BY <1>1, <1>2, <1>3, <1>4, <1>5, <1>6, <1>7, <1>8, <1>9, <1>10, <1>11, <1>12, <1>13,
     <1>14, <1>15, <1>16, <1>17, <1>18, <1>19 DEF Next

(* The invariant holds of every reachable state of a transfer.             *)
THEOREM TransferInvariant == Spec => []IInv
BY InitInvariant, NextInvariant, PTL DEF Spec

(* Every variable of a transfer has its type, and nothing arrives that was *)
(* not sent.                                                               *)
THEOREM TransferTypes == Spec => []TypeOK
<1>1. IInv => TypeOK
  BY DEF IInv
<1> QED
  BY <1>1, TransferInvariant, PTL

(* What says that a download is refused never ends up in the file          *)
(* (RefusalKeptOutOfFile), for files of any size.                          *)
THEOREM RefusalStaysOut == Spec => []RefusalKeptOutOfFile
<1>1. IInv => RefusalKeptOutOfFile
  BY TransfersAssumption
  DEF IInv, TypeOK, Wire, Success, RefusalKeptOutOfFile, Upload, Download, Transfer
<1> QED
  BY <1>1, TransferInvariant, PTL

(* A transfer that nothing disturbs succeeds, and an upload that succeeds  *)
(* has left the mode it was asked for (CleanTransferSucceeds).             *)
THEOREM CleanSucceeds == Spec => []CleanTransferSucceeds
<1>1. IInv => CleanTransferSucceeds
  BY DEF IInv, Wire, Blame, Success, CleanTransferSucceeds, AskedMode
<1> QED
  BY <1>1, TransferInvariant, PTL

-----------------------------------------------------------------------------
(***************************************************************************)
(* A transfer implements FileCall.                                         *)
(***************************************************************************)
\* The file is whole at its destination; the mapping of FileTransfer!Call.
Whole == IF Upload THEN vmMode # "none" /\ written = req.chunks
                   ELSE answer = "ok" /\ written = req.chunks

\* A step that leaves phase, err and the request alone makes the file whole, or
\* changes nothing the caller could rely on.
LEMMA Performs ==
  ASSUME IInv, UNCHANGED <<phase, err>>, Whole => Whole',
         ~Whole /\ Whole' => (phase = "done" => err)
  PROVE  [Call!Next]_(Call!vars)
<1>1. CASE Whole' = Whole
  BY <1>1 DEF Call!vars, Whole
<1>2. CASE ~Whole /\ Whole'
  BY <1>2 DEF Call!Next, Call!Perform, Whole
<1> QED
  BY <1>1, <1>2 DEF Whole

\* Every step of a transfer is one of its call, or none.
LEMMA NextRefines == IInv /\ IInv' /\ [Next]_vars => [Call!Next]_(Call!vars)
<1> SUFFICES ASSUME IInv, IInv', [Next]_vars PROVE [Call!Next]_(Call!vars)
  OBVIOUS
<1> USE DEF wire, dest
<1>0. req.chunks \in Nat /\ req.kind \in {"upload", "download"}
  BY TransfersAssumption DEF IInv, TypeOK, Transfer
<1>1. ASSUME NEW failed \in BOOLEAN, NEW isFault \in BOOLEAN, phase # "done",
             Returns(failed, isFault)
      PROVE  [Call!Next]_(Call!vars)
  <2>1. Whole' = Whole /\ phase' = "done" /\ err' = failed
    BY <1>1 DEF Returns, Whole, Upload
  <2>2. ~failed => Whole
    BY <1>0, <1>1, <2>1 DEF Returns, IInv, Success, Wire, Whole, Upload
  <2> QED
    BY <1>1, <2>1, <2>2 DEF Call!Next, Call!Return, Whole
<1>2. CASE ReaderFails \/ NoAnswer \/ Drained \/ WriteFails \/ CopyBreaks \/ CopyEnds
  BY <1>1, <1>2 DEF ReaderFails, NoAnswer, Drained, WriteFails, CopyBreaks, CopyEnds
<1>3. CASE Answered
  BY <1>3 DEF Answered, Call!vars, Upload
<1>4. CASE AgentWrites \/ AgentCompletes \/ Accept \/ CopyChunk
  <2>1. UNCHANGED <<phase, err, req>>
    BY <1>4 DEF AgentWrites, AgentCompletes, Accept, CopyChunk
  <2>2. Whole => Whole'
    BY <1>0, <1>4
    DEF AgentWrites, AgentCompletes, Accept, CopyChunk, HasContent, IInv, TypeOK, Wire,
        Whole, Upload, Download
  <2>3. ~Whole /\ Whole' => (phase = "done" => err)
    BY <1>0, <1>4
    DEF AgentWrites, AgentCompletes, Accept, CopyChunk, IInv, Success, Wire, Whole, Upload,
        Download
  <2> QED
    BY <2>1, <2>2, <2>3, Performs
<1>5. CASE \/ Refuse \/ SendChunkDown \/ CloseResponse \/ Reset \/ Cancel
           \/ SendChunkUp \/ EndUp \/ UNCHANGED vars
  <2>1. UNCHANGED <<phase, err, req, dest>> /\ (answer' = "ok" <=> answer = "ok")
    BY <1>5 DEF Refuse, SendChunkDown, CloseResponse, Reset, Cancel, SendChunkUp, EndUp, vars
  <2> QED
    BY <2>1, Performs DEF Whole, Upload
<1> QED
  BY <1>2, <1>3, <1>4, <1>5 DEF Next

(* A transfer keeps the promise of its call, for files of any size         *)
(* (CallPromised): no fault or cancellation at any point makes an          *)
(* incomplete file look like a success.                                    *)
THEOREM CallImplemented == Spec => CallPromised
<1>1. Init => Call!Init
  BY DEF Init, Call!Init, Upload
<1>2. IInv /\ IInv' /\ [Next]_vars => [Call!Next]_(Call!vars)
  BY NextRefines
<1>3. Spec => Call!Spec
  BY <1>1, <1>2, TransferInvariant, PTL DEF Spec, Call!Spec
<1> QED
  BY <1>3 DEF CallPromised

=============================================================================
