------------------------ MODULE CheckpointUploadProofs ------------------------
(***************************************************************************)
(* The safety of one checkpoint attempt, for any number of files.          *)
(*                                                                         *)
(* The argument.  Whoever wins cleanupClaimed owns resources.close(), so   *)
(* the resources are never closed while the worker is between its claim    *)
(* and the end of its upload (Ownership).  Transfers run only while the    *)
(* worker is inside the batch (Phases).  Hence at the moment of the close  *)
(* no handle is between closeAndGetHandle and created.add (Recorded), and  *)
(* what is discarded is everything that was created.                       *)
(***************************************************************************)
EXTENDS CheckpointUpload, TLAPS

\* The worker owns the cleanup and has not begun it.
Working == {"claimed", "scan", "register", "submit", "join", "joinClose", "meta",
            "metaClose", "metaAdd", "set", "except"}
InBatch == {"submit", "join", "joinClose"}
BeforeBatch == {"none", "idle", "claimed", "scan", "register"}

Ownership ==
    /\ worker = "none" <=> fut \in {"none", "prepared", "rejected"}
    /\ worker = "none" => ~claimed /\ ~cleaned /\ canceller = "none"
    /\ worker \in Working \cup {"finally"} => claimed /\ canceller # "close"
    /\ worker = "idle" => (fut = "new" /\ ~claimed) \/ fut = "cancelled"
    /\ cleaned => worker \in {"idle", "finally", "done"}
    /\ cleaned => claimed /\ fut # "new"
    /\ fut = "new" => worker \notin {"finally", "done"} /\ canceller = "none"
    /\ canceller # "none" => fut = "cancelled"
    /\ canceller = "close" => claimed

Phases ==
    /\ worker \notin InBatch \cup {"register"} => \A w \in Work : tr[w] \in {"none", "exited"}
    /\ worker \in BeforeBatch \ {"register"} => \A w \in Work : tr[w] = "none"
    /\ worker = "register" => \A w \in Work : tr[w] \in {"none", "idle"}
    /\ worker \in BeforeBatch => bstep = "open" /\ transfers # "holding"
    /\ next # None => worker = "submit" /\ tr[next] # "none"

Recorded ==
    /\ ~cleaned => \A h \in store \ created :
                      \/ h \in Work /\ tr[h] = "adding"
                      \/ h \in {Meta, LocalMeta} /\ worker = "metaAdd"
    /\ cleaned /\ ~published => store = {} /\ ~staging
    /\ worker = "none" => (staging <=> fut = "prepared")
    /\ ~cleaned /\ worker # "none" => staging

Complete ==
    /\ bstep # "open" => failure
    /\ worker \in BeforeBatch => \A w \in Work : tf[w] = "new"
    /\ \A w \in Work : tf[w] # "new" => failure \/ tr[w] = "exited"
    /\ \A w \in Work : tr[w] = "adding" => w \in store
    /\ worker \in BeforeBatch \cup InBatch /\ ~failure =>
           \A w \in Work : tr[w] = "exited" => w \in store
    /\ worker \in {"meta", "metaClose", "metaAdd", "set"} => Batch \subseteq store
    /\ worker = "set" => Meta \in store /\ (localHandle => LocalMeta \in store)
    /\ published <=> fut = "normal"
    /\ published <=> reuseEntry
    /\ published => /\ cleaned
                    /\ Batch \cup {Meta} \subseteq store
                    /\ localHandle => staging /\ LocalMeta \in store
                    /\ observation = "completed"
    /\ fut = "none" => observation = "none"
    /\ cleaned => observation \in {"completed", "failed"}
    /\ ~cleaned /\ fut \notin {"none", "rejected"} => observation = "open"

IInv == TypeOK /\ Ownership /\ Phases /\ Recorded /\ Complete

------------------------------------------------------------------------------
\* A leaf is tried with SMT, with Zenon, and then with SMT for longer.
USE SMT, Zenon, SMTT(20), SMTT(40)

\* Every step keeps the types.
LEMMA TypeStep == TypeOK /\ Complete /\ [Next]_vars => TypeOK'
<1> SUFFICES ASSUME TypeOK /\ Complete, [Next]_vars PROVE TypeOK'
    OBVIOUS
<1> USE DEF TypeOK, vars, taskVars, resVars, bookVars, batchVars, ownerVars, None, Meta, LocalMeta, Handles, FutStates, WorkerStates, TransferStates
<1>1. CASE SyncStep
  <2>1. CASE PrepareCheckpoint
    BY <2>1 DEF PrepareCheckpoint
  <2>2. CASE PrepareFails
    BY <2>2 DEF PrepareFails
  <2>3. CASE Construct
    BY <2>3 DEF Construct
  <2>4. CASE ConstructRefused
    <3>1. io' \in BOOLEAN /\ cleaned' \in BOOLEAN /\ staging' \in BOOLEAN /\ reuseEntry' \in BOOLEAN /\ claimed' \in BOOLEAN
      BY <2>4, Zenon DEF ConstructRefused, CloseUnpublished
    <3>2. store' \in SUBSET Handles /\ created' \in SUBSET store'
      BY <2>4 DEF ConstructRefused, CloseUnpublished
    <3> QED BY <2>4, <3>1, <3>2 DEF ConstructRefused, CloseUnpublished
  <2> HIDE DEF TypeOK
  <2> QED BY <1>1, <2>1, <2>2, <2>3, <2>4 DEF SyncStep
<1>2. CASE WorkerStep
  <2>1. CASE RunClaim
    BY <2>1 DEF RunClaim
  <2>2. CASE RunStart
    BY <2>2 DEF RunStart
  <2>3. CASE ScanFails
    BY <2>3 DEF ScanFails
  <2>4. CASE Register
    BY <2>4 DEF Register
  <2>5. CASE RegisterRefused
    <3>1. io' \in BOOLEAN /\ failure' \in BOOLEAN
      BY <2>5, Zenon DEF RegisterRefused, Batch
    <3> QED BY <2>5, <3>1 DEF RegisterRefused, Batch
  <2>6. ASSUME NEW pending \in SUBSET Work, Scan(pending) PROVE TypeOK'
    BY <2>6 DEF Scan
  <2>7. ASSUME NEW w \in Work, SubmitNext(w) PROVE TypeOK'
    BY <2>7 DEF SubmitNext
  <2>8. CASE SubmitDone
    BY <2>8 DEF SubmitDone
  <2>9. CASE SubmitExecute
    BY <2>9 DEF SubmitExecute
  <2>10. CASE SubmitRejected
    BY <2>10 DEF SubmitRejected, BatchClose
  <2>11. CASE JoinInterrupted
    <3>1. interrupted' \in BOOLEAN /\ failure' \in BOOLEAN
      BY <2>11, Zenon DEF JoinInterrupted, BatchClose, Batch
    <3> QED BY <2>11, <3>1 DEF JoinInterrupted, BatchClose, Batch
  <2>12. CASE JoinResume
    BY <2>12 DEF JoinResume
  <2>13. CASE JoinDone
    BY <2>13 DEF JoinDone, Batch
  <2>14. CASE MetaWrite
    BY <2>14 DEF MetaWrite
  <2>15. CASE MetaFails
    BY <2>15 DEF MetaFails
  <2>16. ASSUME NEW then \in {"set", "except"}, MetaAdd(then) PROVE TypeOK'
    BY <2>16 DEF MetaAdd
  <2>17. ASSUME NEW new \in SUBSET {Meta, LocalMeta}, MetaFinalize(new) PROVE TypeOK'
    <3>1. store' \in SUBSET Handles /\ created' \in SUBSET store'
      BY <2>17, Zenon DEF MetaFinalize
    <3> QED BY <2>17, <3>1 DEF MetaFinalize
  <2>18. CASE SetCancelled
    BY <2>18 DEF SetCancelled
  <2>19. CASE SetPublish
    <3>1. io' \in BOOLEAN /\ cleaned' \in BOOLEAN /\ staging' \in BOOLEAN /\ reuseEntry' \in BOOLEAN /\ published' \in BOOLEAN
      BY <2>19, Zenon DEF SetPublish, ClosePublished
    <3>2. store' \in SUBSET Handles /\ created' \in SUBSET store'
      BY <2>19 DEF SetPublish, ClosePublished
    <3> QED BY <2>19, <3>1, <3>2 DEF SetPublish, ClosePublished
  <2>20. CASE SetRefused
    <3>1. io' \in BOOLEAN /\ cleaned' \in BOOLEAN /\ staging' \in BOOLEAN /\ reuseEntry' \in BOOLEAN
      BY <2>20, Zenon DEF SetRefused, CloseUnpublished
    <3>2. store' \in SUBSET Handles /\ created' \in SUBSET store'
      BY <2>20 DEF SetRefused, CloseUnpublished
    <3> QED BY <2>20, <3>1, <3>2 DEF SetRefused, CloseUnpublished
  <2>21. CASE SetException
    <3>1. io' \in BOOLEAN /\ cleaned' \in BOOLEAN /\ staging' \in BOOLEAN /\ reuseEntry' \in BOOLEAN
      BY <2>21, Zenon DEF SetException, CloseUnpublished
    <3>2. store' \in SUBSET Handles /\ created' \in SUBSET store'
      BY <2>21 DEF SetException, CloseUnpublished
    <3> QED BY <2>21, <3>1, <3>2 DEF SetException, CloseUnpublished
  <2>22. CASE RunFinally
    <3>1. io' \in BOOLEAN /\ cleaned' \in BOOLEAN /\ staging' \in BOOLEAN /\ reuseEntry' \in BOOLEAN
      BY <2>22, Zenon DEF RunFinally, CloseUnpublished
    <3>2. store' \in SUBSET Handles /\ created' \in SUBSET store'
      BY <2>22 DEF RunFinally, CloseUnpublished
    <3> QED BY <2>22, <3>1, <3>2 DEF RunFinally, CloseUnpublished
  <2> HIDE DEF TypeOK
  <2> QED BY <1>2, <2>1, <2>2, <2>3, <2>4, <2>5, <2>6, <2>7, <2>8, <2>9, <2>10, <2>11, <2>12, <2>13, <2>14, <2>15, <2>16, <2>17, <2>18, <2>19, <2>20, <2>21, <2>22 DEF WorkerStep
<1>3. CASE BatchStep
  <2>1. CASE BatchCancelIO
    <3>1. io' \in BOOLEAN
      BY <2>1, Zenon DEF BatchCancelIO
    <3> QED BY <2>1, <3>1 DEF BatchCancelIO
  <2>2. ASSUME NEW w \in Work, CancelTransfer(w) PROVE TypeOK'
    BY <2>2 DEF CancelTransfer, Batch
  <2>3. CASE BatchClosed
    BY <2>3 DEF BatchClosed, Batch
  <2> HIDE DEF TypeOK
  <2> QED BY <1>3, <2>1, <2>2, <2>3 DEF BatchStep
<1>4. CASE \E w \in Work : TransferStep(w)
  <2>1. ASSUME NEW w \in Work, TransferClaim(w) PROVE TypeOK'
    BY <2>1 DEF TransferClaim, MoveTransfer
  <2>2. ASSUME NEW w \in Work, TransferStart(w) PROVE TypeOK'
    BY <2>2 DEF TransferStart, MoveTransfer
  <2>3. ASSUME NEW w \in Work, TransferWrite(w) PROVE TypeOK'
    BY <2>3 DEF TransferWrite, MoveTransfer
  <2>4. ASSUME NEW w \in Work, TransferError(w) PROVE TypeOK'
    BY <2>4 DEF TransferError, MoveTransfer
  <2>5. ASSUME NEW w \in Work, TransferFinalize(w) PROVE TypeOK'
    BY <2>5 DEF TransferFinalize, MoveTransfer
  <2>6. ASSUME NEW w \in Work, TransferAdd(w) PROVE TypeOK'
    <3>1. created' \in SUBSET store'
      BY <2>6 DEF TransferAdd, MoveTransfer, Complete
    <3> QED BY <2>6, <3>1 DEF TransferAdd, MoveTransfer
  <2>7. ASSUME NEW w \in Work, TransferFail(w) PROVE TypeOK'
    BY <2>7 DEF TransferFail, BatchClose, MoveTransfer
  <2>8. ASSUME NEW w \in Work, TransferExit(w) PROVE TypeOK'
    BY <2>8 DEF TransferExit, MoveTransfer
  <2> HIDE DEF TypeOK
  <2> QED BY <1>4, <2>1, <2>2, <2>3, <2>4, <2>5, <2>6, <2>7, <2>8 DEF TransferStep
<1>5. CASE Cancel
    BY <1>5 DEF Cancel
<1>6. CASE CancelStep
  <2>1. CASE CancelCloseIO
    <3>1. io' \in BOOLEAN
      BY <2>1, Zenon DEF CancelCloseIO
    <3> QED BY <2>1, <3>1 DEF CancelCloseIO
  <2>2. CASE CancelClaim
    BY <2>2 DEF CancelClaim
  <2>3. CASE CancelCleanup
    <3>1. io' \in BOOLEAN /\ cleaned' \in BOOLEAN /\ staging' \in BOOLEAN /\ reuseEntry' \in BOOLEAN
      BY <2>3, Zenon DEF CancelCleanup, CloseUnpublished
    <3>2. store' \in SUBSET Handles /\ created' \in SUBSET store'
      BY <2>3 DEF CancelCleanup, CloseUnpublished
    <3> QED BY <2>3, <3>1, <3>2 DEF CancelCleanup, CloseUnpublished
  <2> HIDE DEF TypeOK
  <2> QED BY <1>6, <2>1, <2>2, <2>3 DEF CancelStep
<1>7. CASE CloseUploads
    BY <1>7 DEF CloseUploads
<1>8. CASE CloseTransfers
    BY <1>8 DEF CloseTransfers
<1>9. CASE OwnerStep
  <2>1. CASE CloseRegisteredBatch
    BY <2>1 DEF CloseRegisteredBatch, BatchClose
  <2>2. ASSUME NEW end \in {"shut", "lent"}, CloseHelper(end) PROVE TypeOK'
    BY <2>2 DEF CloseHelper
  <2> HIDE DEF TypeOK
  <2> QED BY <1>9, <2>1, <2>2 DEF OwnerStep
<1>10. CASE UNCHANGED vars
    BY <1>10
<1> HIDE DEF TypeOK
<1> QED BY <1>1, <1>2, <1>3, <1>4, <1>5, <1>6, <1>7, <1>8, <1>9, <1>10 DEF Next

\* Every step keeps the ownership of the cleanup with one thread.
LEMMA OwnershipStep == TypeOK /\ Ownership /\ [Next]_vars => Ownership'
<1> SUFFICES ASSUME TypeOK /\ Ownership, [Next]_vars PROVE Ownership'
    OBVIOUS
<1> USE DEF Ownership, TypeOK, Working, WorkerStates, FutStates, vars, taskVars, resVars, bookVars, batchVars, ownerVars
<1>1. CASE SyncStep
  <2>1. CASE PrepareCheckpoint
    BY <2>1 DEF PrepareCheckpoint
  <2>2. CASE PrepareFails
    BY <2>2 DEF PrepareFails
  <2>3. CASE Construct
    BY <2>3 DEF Construct
  <2>4. CASE ConstructRefused
    BY <2>4 DEF ConstructRefused, CloseUnpublished
  <2> HIDE DEF Ownership
  <2> QED BY <1>1, <2>1, <2>2, <2>3, <2>4 DEF SyncStep
<1>2. CASE WorkerStep
  <2>1. CASE RunClaim
    BY <2>1 DEF RunClaim
  <2>2. CASE RunStart
    BY <2>2 DEF RunStart
  <2>3. CASE ScanFails
    BY <2>3 DEF ScanFails
  <2>4. CASE Register
    BY <2>4 DEF Register
  <2>5. CASE RegisterRefused
    BY <2>5 DEF RegisterRefused, Batch
  <2>6. ASSUME NEW pending \in SUBSET Work, Scan(pending) PROVE Ownership'
    BY <2>6 DEF Scan
  <2>7. ASSUME NEW w \in Work, SubmitNext(w) PROVE Ownership'
    BY <2>7 DEF SubmitNext
  <2>8. CASE SubmitDone
    BY <2>8 DEF SubmitDone
  <2>9. CASE SubmitExecute
    BY <2>9 DEF SubmitExecute
  <2>10. CASE SubmitRejected
    BY <2>10 DEF SubmitRejected, BatchClose
  <2>11. CASE JoinInterrupted
    BY <2>11 DEF JoinInterrupted, BatchClose, Batch
  <2>12. CASE JoinResume
    BY <2>12 DEF JoinResume
  <2>13. CASE JoinDone
    BY <2>13 DEF JoinDone, Batch
  <2>14. CASE MetaWrite
    BY <2>14 DEF MetaWrite
  <2>15. CASE MetaFails
    BY <2>15 DEF MetaFails
  <2>16. ASSUME NEW then \in {"set", "except"}, MetaAdd(then) PROVE Ownership'
    BY <2>16 DEF MetaAdd
  <2>17. ASSUME NEW new \in SUBSET {Meta, LocalMeta}, MetaFinalize(new) PROVE Ownership'
    BY <2>17 DEF MetaFinalize
  <2>18. CASE SetCancelled
    BY <2>18 DEF SetCancelled
  <2>19. CASE SetPublish
    BY <2>19 DEF SetPublish, ClosePublished
  <2>20. CASE SetRefused
    BY <2>20 DEF SetRefused, CloseUnpublished
  <2>21. CASE SetException
    BY <2>21 DEF SetException, CloseUnpublished
  <2>22. CASE RunFinally
    BY <2>22 DEF RunFinally, CloseUnpublished
  <2> HIDE DEF Ownership
  <2> QED BY <1>2, <2>1, <2>2, <2>3, <2>4, <2>5, <2>6, <2>7, <2>8, <2>9, <2>10, <2>11, <2>12, <2>13, <2>14, <2>15, <2>16, <2>17, <2>18, <2>19, <2>20, <2>21, <2>22 DEF WorkerStep
<1>3. CASE BatchStep
  <2>1. CASE BatchCancelIO
    BY <2>1 DEF BatchCancelIO
  <2>2. ASSUME NEW w \in Work, CancelTransfer(w) PROVE Ownership'
    BY <2>2 DEF CancelTransfer, Batch
  <2>3. CASE BatchClosed
    BY <2>3 DEF BatchClosed, Batch
  <2> HIDE DEF Ownership
  <2> QED BY <1>3, <2>1, <2>2, <2>3 DEF BatchStep
<1>4. CASE \E w \in Work : TransferStep(w)
  <2>1. ASSUME NEW w \in Work, TransferClaim(w) PROVE Ownership'
    BY <2>1 DEF TransferClaim, MoveTransfer
  <2>2. ASSUME NEW w \in Work, TransferStart(w) PROVE Ownership'
    BY <2>2 DEF TransferStart, MoveTransfer
  <2>3. ASSUME NEW w \in Work, TransferWrite(w) PROVE Ownership'
    BY <2>3 DEF TransferWrite, MoveTransfer
  <2>4. ASSUME NEW w \in Work, TransferError(w) PROVE Ownership'
    BY <2>4 DEF TransferError, MoveTransfer
  <2>5. ASSUME NEW w \in Work, TransferFinalize(w) PROVE Ownership'
    BY <2>5 DEF TransferFinalize, MoveTransfer
  <2>6. ASSUME NEW w \in Work, TransferAdd(w) PROVE Ownership'
    BY <2>6 DEF TransferAdd, MoveTransfer
  <2>7. ASSUME NEW w \in Work, TransferFail(w) PROVE Ownership'
    BY <2>7 DEF TransferFail, BatchClose, MoveTransfer
  <2>8. ASSUME NEW w \in Work, TransferExit(w) PROVE Ownership'
    BY <2>8 DEF TransferExit, MoveTransfer
  <2> HIDE DEF Ownership
  <2> QED BY <1>4, <2>1, <2>2, <2>3, <2>4, <2>5, <2>6, <2>7, <2>8 DEF TransferStep
<1>5. CASE Cancel
    BY <1>5 DEF Cancel
<1>6. CASE CancelStep
  <2>1. CASE CancelCloseIO
    BY <2>1 DEF CancelCloseIO
  <2>2. CASE CancelClaim
    BY <2>2 DEF CancelClaim
  <2>3. CASE CancelCleanup
    BY <2>3 DEF CancelCleanup, CloseUnpublished
  <2> HIDE DEF Ownership
  <2> QED BY <1>6, <2>1, <2>2, <2>3 DEF CancelStep
<1>7. CASE CloseUploads
    BY <1>7 DEF CloseUploads
<1>8. CASE CloseTransfers
    BY <1>8 DEF CloseTransfers
<1>9. CASE OwnerStep
  <2>1. CASE CloseRegisteredBatch
    BY <2>1 DEF CloseRegisteredBatch, BatchClose
  <2>2. ASSUME NEW end \in {"shut", "lent"}, CloseHelper(end) PROVE Ownership'
    BY <2>2 DEF CloseHelper
  <2> HIDE DEF Ownership
  <2> QED BY <1>9, <2>1, <2>2 DEF OwnerStep
<1>10. CASE UNCHANGED vars
    BY <1>10
<1> HIDE DEF Ownership
<1> QED BY <1>1, <1>2, <1>3, <1>4, <1>5, <1>6, <1>7, <1>8, <1>9, <1>10 DEF Next

\* Every step keeps transfers inside the batch's phase of the worker.
LEMMA PhasesStep == TypeOK /\ Ownership /\ Phases /\ [Next]_vars => Phases'
<1> SUFFICES ASSUME TypeOK /\ Ownership /\ Phases, [Next]_vars PROVE Phases'
    OBVIOUS
<1> USE DEF Ownership, TypeOK, Phases, Working, InBatch, BeforeBatch, Batch, None, TransferStates, vars, taskVars, resVars, bookVars, batchVars, ownerVars
<1>1. CASE SyncStep
  <2>1. CASE PrepareCheckpoint
    BY <2>1 DEF PrepareCheckpoint
  <2>2. CASE PrepareFails
    BY <2>2 DEF PrepareFails
  <2>3. CASE Construct
    BY <2>3 DEF Construct
  <2>4. CASE ConstructRefused
    BY <2>4 DEF ConstructRefused, CloseUnpublished
  <2> HIDE DEF Phases
  <2> QED BY <1>1, <2>1, <2>2, <2>3, <2>4 DEF SyncStep
<1>2. CASE WorkerStep
  <2>1. CASE RunClaim
    BY <2>1 DEF RunClaim
  <2>2. CASE RunStart
    BY <2>2 DEF RunStart
  <2>3. CASE ScanFails
    BY <2>3 DEF ScanFails
  <2>4. CASE Register
    BY <2>4 DEF Register
  <2>5. CASE RegisterRefused
    BY <2>5 DEF RegisterRefused
  <2>6. ASSUME NEW pending \in SUBSET Work, Scan(pending) PROVE Phases'
    BY <2>6 DEF Scan
  <2>7. ASSUME NEW w \in Work, SubmitNext(w) PROVE Phases'
    BY <2>7 DEF SubmitNext
  <2>8. CASE SubmitDone
    BY <2>8 DEF SubmitDone
  <2>9. CASE SubmitExecute
    BY <2>9 DEF SubmitExecute
  <2>10. CASE SubmitRejected
    BY <2>10 DEF SubmitRejected, BatchClose
  <2>11. CASE JoinInterrupted
    BY <2>11 DEF JoinInterrupted, BatchClose
  <2>12. CASE JoinResume
    BY <2>12 DEF JoinResume
  <2>13. CASE JoinDone
    BY <2>13 DEF JoinDone
  <2>14. CASE MetaWrite
    BY <2>14 DEF MetaWrite
  <2>15. CASE MetaFails
    BY <2>15 DEF MetaFails
  <2>16. ASSUME NEW then \in {"set", "except"}, MetaAdd(then) PROVE Phases'
    BY <2>16 DEF MetaAdd
  <2>17. ASSUME NEW new \in SUBSET {Meta, LocalMeta}, MetaFinalize(new) PROVE Phases'
    BY <2>17 DEF MetaFinalize
  <2>18. CASE SetCancelled
    BY <2>18 DEF SetCancelled
  <2>19. CASE SetPublish
    BY <2>19 DEF SetPublish, ClosePublished
  <2>20. CASE SetRefused
    BY <2>20 DEF SetRefused, CloseUnpublished
  <2>21. CASE SetException
    BY <2>21 DEF SetException, CloseUnpublished
  <2>22. CASE RunFinally
    BY <2>22 DEF RunFinally, CloseUnpublished
  <2> HIDE DEF Phases
  <2> QED BY <1>2, <2>1, <2>2, <2>3, <2>4, <2>5, <2>6, <2>7, <2>8, <2>9, <2>10, <2>11, <2>12, <2>13, <2>14, <2>15, <2>16, <2>17, <2>18, <2>19, <2>20, <2>21, <2>22 DEF WorkerStep
<1>3. CASE BatchStep
  <2>1. CASE BatchCancelIO
    BY <2>1 DEF BatchCancelIO
  <2>2. ASSUME NEW w \in Work, CancelTransfer(w) PROVE Phases'
    BY <2>2 DEF CancelTransfer
  <2>3. CASE BatchClosed
    BY <2>3 DEF BatchClosed
  <2> HIDE DEF Phases
  <2> QED BY <1>3, <2>1, <2>2, <2>3 DEF BatchStep
<1>4. CASE \E w \in Work : TransferStep(w)
  <2>1. ASSUME NEW w \in Work, TransferClaim(w) PROVE Phases'
    BY <2>1 DEF TransferClaim, MoveTransfer
  <2>2. ASSUME NEW w \in Work, TransferStart(w) PROVE Phases'
    BY <2>2 DEF TransferStart, MoveTransfer
  <2>3. ASSUME NEW w \in Work, TransferWrite(w) PROVE Phases'
    BY <2>3 DEF TransferWrite, MoveTransfer
  <2>4. ASSUME NEW w \in Work, TransferError(w) PROVE Phases'
    BY <2>4 DEF TransferError, MoveTransfer
  <2>5. ASSUME NEW w \in Work, TransferFinalize(w) PROVE Phases'
    BY <2>5 DEF TransferFinalize, MoveTransfer
  <2>6. ASSUME NEW w \in Work, TransferAdd(w) PROVE Phases'
    BY <2>6 DEF TransferAdd, MoveTransfer
  <2>7. ASSUME NEW w \in Work, TransferFail(w) PROVE Phases'
    BY <2>7 DEF TransferFail, BatchClose, MoveTransfer
  <2>8. ASSUME NEW w \in Work, TransferExit(w) PROVE Phases'
    BY <2>8 DEF TransferExit, MoveTransfer
  <2> HIDE DEF Phases
  <2> QED BY <1>4, <2>1, <2>2, <2>3, <2>4, <2>5, <2>6, <2>7, <2>8 DEF TransferStep
<1>5. CASE Cancel
    BY <1>5 DEF Cancel
<1>6. CASE CancelStep
  <2>1. CASE CancelCloseIO
    BY <2>1 DEF CancelCloseIO
  <2>2. CASE CancelClaim
    BY <2>2 DEF CancelClaim
  <2>3. CASE CancelCleanup
    BY <2>3 DEF CancelCleanup, CloseUnpublished
  <2> HIDE DEF Phases
  <2> QED BY <1>6, <2>1, <2>2, <2>3 DEF CancelStep
<1>7. CASE CloseUploads
    BY <1>7 DEF CloseUploads
<1>8. CASE CloseTransfers
    BY <1>8 DEF CloseTransfers
<1>9. CASE OwnerStep
  <2>1. CASE CloseRegisteredBatch
    BY <2>1 DEF CloseRegisteredBatch, BatchClose
  <2>2. ASSUME NEW end \in {"shut", "lent"}, CloseHelper(end) PROVE Phases'
    BY <2>2 DEF CloseHelper
  <2> HIDE DEF Phases
  <2> QED BY <1>9, <2>1, <2>2 DEF OwnerStep
<1>10. CASE UNCHANGED vars
    BY <1>10
<1> HIDE DEF Phases
<1> QED BY <1>1, <1>2, <1>3, <1>4, <1>5, <1>6, <1>7, <1>8, <1>9, <1>10 DEF Next

\* Every step keeps created handles recorded, or in the hands of their creator.
LEMMA RecordedStep == TypeOK /\ Ownership /\ Phases /\ Recorded /\ [Next]_vars => Recorded'
<1> SUFFICES ASSUME TypeOK /\ Ownership /\ Phases /\ Recorded, [Next]_vars PROVE Recorded'
    OBVIOUS
<1> USE DEF Ownership, TypeOK, Phases, Recorded, Working, InBatch, BeforeBatch, Handles, Meta, LocalMeta, TransferStates, vars, taskVars, resVars, bookVars, batchVars, ownerVars
<1>1. CASE SyncStep
  <2>1. CASE PrepareCheckpoint
    BY <2>1 DEF PrepareCheckpoint
  <2>2. CASE PrepareFails
    BY <2>2 DEF PrepareFails
  <2>3. CASE Construct
    BY <2>3 DEF Construct
  <2>4. CASE ConstructRefused
    BY <2>4 DEF ConstructRefused, CloseUnpublished
  <2> HIDE DEF Recorded
  <2> QED BY <1>1, <2>1, <2>2, <2>3, <2>4 DEF SyncStep
<1>2. CASE WorkerStep
  <2>1. CASE RunClaim
    BY <2>1 DEF RunClaim
  <2>2. CASE RunStart
    BY <2>2 DEF RunStart
  <2>3. CASE ScanFails
    BY <2>3 DEF ScanFails
  <2>4. CASE Register
    BY <2>4, Zenon DEF Register
  <2>5. CASE RegisterRefused
    BY <2>5 DEF RegisterRefused, Batch
  <2>6. ASSUME NEW pending \in SUBSET Work, Scan(pending) PROVE Recorded'
    BY <2>6 DEF Scan
  <2>7. ASSUME NEW w \in Work, SubmitNext(w) PROVE Recorded'
    BY <2>7 DEF SubmitNext
  <2>8. CASE SubmitDone
    BY <2>8 DEF SubmitDone
  <2>9. CASE SubmitExecute
    BY <2>9 DEF SubmitExecute
  <2>10. CASE SubmitRejected
    BY <2>10 DEF SubmitRejected, BatchClose
  <2>11. CASE JoinInterrupted
    BY <2>11 DEF JoinInterrupted, BatchClose, Batch
  <2>12. CASE JoinResume
    BY <2>12 DEF JoinResume
  <2>13. CASE JoinDone
    BY <2>13 DEF JoinDone, Batch
  <2>14. CASE MetaWrite
    BY <2>14 DEF MetaWrite
  <2>15. CASE MetaFails
    BY <2>15 DEF MetaFails
  <2>16. ASSUME NEW then \in {"set", "except"}, MetaAdd(then) PROVE Recorded'
    BY <2>16 DEF MetaAdd
  <2>17. ASSUME NEW new \in SUBSET {Meta, LocalMeta}, MetaFinalize(new) PROVE Recorded'
    BY <2>17, Zenon DEF MetaFinalize
  <2>18. CASE SetCancelled
    BY <2>18 DEF SetCancelled
  <2>19. CASE SetPublish
    BY <2>19 DEF SetPublish, ClosePublished
  <2>20. CASE SetRefused
    BY <2>20 DEF SetRefused, CloseUnpublished
  <2>21. CASE SetException
    BY <2>21 DEF SetException, CloseUnpublished
  <2>22. CASE RunFinally
    BY <2>22 DEF RunFinally, CloseUnpublished
  <2> HIDE DEF Recorded
  <2> QED BY <1>2, <2>1, <2>2, <2>3, <2>4, <2>5, <2>6, <2>7, <2>8, <2>9, <2>10, <2>11, <2>12, <2>13, <2>14, <2>15, <2>16, <2>17, <2>18, <2>19, <2>20, <2>21, <2>22 DEF WorkerStep
<1>3. CASE BatchStep
  <2>1. CASE BatchCancelIO
    BY <2>1 DEF BatchCancelIO
  <2>2. ASSUME NEW w \in Work, CancelTransfer(w) PROVE Recorded'
    BY <2>2 DEF CancelTransfer, Batch
  <2>3. CASE BatchClosed
    BY <2>3 DEF BatchClosed, Batch
  <2> HIDE DEF Recorded
  <2> QED BY <1>3, <2>1, <2>2, <2>3 DEF BatchStep
<1>4. CASE \E w \in Work : TransferStep(w)
  <2>1. ASSUME NEW w \in Work, TransferClaim(w) PROVE Recorded'
    BY <2>1 DEF TransferClaim, MoveTransfer
  <2>2. ASSUME NEW w \in Work, TransferStart(w) PROVE Recorded'
    BY <2>2, Zenon DEF TransferStart, MoveTransfer
  <2>3. ASSUME NEW w \in Work, TransferWrite(w) PROVE Recorded'
    BY <2>3 DEF TransferWrite, MoveTransfer
  <2>4. ASSUME NEW w \in Work, TransferError(w) PROVE Recorded'
    BY <2>4, Zenon DEF TransferError, MoveTransfer
  <2>5. ASSUME NEW w \in Work, TransferFinalize(w) PROVE Recorded'
    BY <2>5 DEF TransferFinalize, MoveTransfer
  <2>6. ASSUME NEW w \in Work, TransferAdd(w) PROVE Recorded'
    BY <2>6, Zenon DEF TransferAdd, MoveTransfer
  <2>7. ASSUME NEW w \in Work, TransferFail(w) PROVE Recorded'
    BY <2>7 DEF TransferFail, BatchClose, MoveTransfer
  <2>8. ASSUME NEW w \in Work, TransferExit(w) PROVE Recorded'
    BY <2>8, Zenon DEF TransferExit, MoveTransfer
  <2> HIDE DEF Recorded
  <2> QED BY <1>4, <2>1, <2>2, <2>3, <2>4, <2>5, <2>6, <2>7, <2>8 DEF TransferStep
<1>5. CASE Cancel
    BY <1>5 DEF Cancel
<1>6. CASE CancelStep
  <2>1. CASE CancelCloseIO
    BY <2>1, Zenon DEF CancelCloseIO
  <2>2. CASE CancelClaim
    BY <2>2, Zenon DEF CancelClaim
  <2>3. CASE CancelCleanup
    BY <2>3 DEF CancelCleanup, CloseUnpublished
  <2> HIDE DEF Recorded
  <2> QED BY <1>6, <2>1, <2>2, <2>3 DEF CancelStep
<1>7. CASE CloseUploads
    BY <1>7, Zenon DEF CloseUploads
<1>8. CASE CloseTransfers
    BY <1>8 DEF CloseTransfers
<1>9. CASE OwnerStep
  <2>1. CASE CloseRegisteredBatch
    BY <2>1, Zenon DEF CloseRegisteredBatch, BatchClose
  <2>2. ASSUME NEW end \in {"shut", "lent"}, CloseHelper(end) PROVE Recorded'
    BY <2>2, Zenon DEF CloseHelper
  <2> HIDE DEF Recorded
  <2> QED BY <1>9, <2>1, <2>2 DEF OwnerStep
<1>10. CASE UNCHANGED vars
    BY <1>10, Zenon
<1> HIDE DEF Recorded
<1> QED BY <1>1, <1>2, <1>3, <1>4, <1>5, <1>6, <1>7, <1>8, <1>9, <1>10 DEF Next

\* Every step keeps published results complete.
LEMMA CompleteStep == IInv /\ [Next]_vars => Complete'
<1> SUFFICES ASSUME IInv, [Next]_vars PROVE Complete'
    OBVIOUS
<1> USE DEF IInv, Ownership, TypeOK, Phases, Recorded, Complete, Working, InBatch, BeforeBatch, Batch, Handles, Meta, LocalMeta, None, TransferStates, FutStates, vars, taskVars, resVars, bookVars, batchVars, ownerVars
<1>1. CASE SyncStep
  <2>1. CASE PrepareCheckpoint
    BY <2>1, Zenon DEF PrepareCheckpoint
  <2>2. CASE PrepareFails
    BY <2>2, Zenon DEF PrepareFails
  <2>3. CASE Construct
    BY <2>3, Zenon DEF Construct
  <2>4. CASE ConstructRefused
    BY <2>4 DEF ConstructRefused, CloseUnpublished
  <2> HIDE DEF Complete
  <2> QED BY <1>1, <2>1, <2>2, <2>3, <2>4, Zenon DEF SyncStep
<1>2. CASE WorkerStep
  <2>1. CASE RunClaim
    BY <2>1, Zenon DEF RunClaim
  <2>2. CASE RunStart
    BY <2>2, Zenon DEF RunStart
  <2>3. CASE ScanFails
    BY <2>3, Zenon DEF ScanFails
  <2>4. CASE Register
    BY <2>4, Zenon DEF Register
  <2>5. CASE RegisterRefused
    BY <2>5, Zenon DEF RegisterRefused
  <2>6. ASSUME NEW pending \in SUBSET Work, Scan(pending) PROVE Complete'
    BY <2>6, Zenon DEF Scan
  <2>7. ASSUME NEW w \in Work, SubmitNext(w) PROVE Complete'
    BY <2>7, Zenon DEF SubmitNext
  <2>8. CASE SubmitDone
    BY <2>8, Zenon DEF SubmitDone
  <2>9. CASE SubmitExecute
    BY <2>9 DEF SubmitExecute
  <2>10. CASE SubmitRejected
    BY <2>10, Zenon DEF SubmitRejected, BatchClose
  <2>11. CASE JoinInterrupted
    BY <2>11, Zenon DEF JoinInterrupted, BatchClose
  <2>12. CASE JoinResume
    BY <2>12, Zenon DEF JoinResume
  <2>13. CASE JoinDone
    BY <2>13, Zenon DEF JoinDone
  <2>14. CASE MetaWrite
    BY <2>14, Zenon DEF MetaWrite
  <2>15. CASE MetaFails
    BY <2>15, Zenon DEF MetaFails
  <2>16. ASSUME NEW then \in {"set", "except"}, MetaAdd(then) PROVE Complete'
    BY <2>16, Zenon DEF MetaAdd
  <2>17. ASSUME NEW new \in SUBSET {Meta, LocalMeta}, MetaFinalize(new) PROVE Complete'
    BY <2>17, Zenon DEF MetaFinalize
  <2>18. CASE SetCancelled
    BY <2>18, Zenon DEF SetCancelled
  <2>19. CASE SetPublish
    BY <2>19, SMTT(20) DEF SetPublish, ClosePublished
  <2>20. CASE SetRefused
    BY <2>20, Zenon DEF SetRefused, CloseUnpublished
  <2>21. CASE SetException
    BY <2>21 DEF SetException, CloseUnpublished
  <2>22. CASE RunFinally
    <3>1. CASE cleaned
      BY <2>22, <3>1, SMTT(20) DEF RunFinally, CloseUnpublished
    <3>2. CASE ~cleaned
      BY <2>22, <3>2, SMTT(20) DEF RunFinally, CloseUnpublished
    <3> QED
      BY <3>1, <3>2, Zenon
  <2> HIDE DEF Complete, IInv, Ownership, TypeOK, Phases, Recorded, vars
  <2> QED BY <1>2, <2>1, <2>2, <2>3, <2>4, <2>5, <2>6, <2>7, <2>8, <2>9, <2>10, <2>11, <2>12, <2>13, <2>14, <2>15, <2>16, <2>17, <2>18, <2>19, <2>20, <2>21, <2>22, Zenon DEF WorkerStep
<1>3. CASE BatchStep
  <2>1. CASE BatchCancelIO
    BY <2>1, Zenon DEF BatchCancelIO
  <2>2. ASSUME NEW w \in Work, CancelTransfer(w) PROVE Complete'
    BY <2>2, Zenon DEF CancelTransfer
  <2>3. CASE BatchClosed
    BY <2>3, Zenon DEF BatchClosed
  <2> HIDE DEF Complete
  <2> QED BY <1>3, <2>1, <2>2, <2>3, Zenon DEF BatchStep
<1>4. CASE \E w \in Work : TransferStep(w)
  <2>1. ASSUME NEW w \in Work, TransferClaim(w) PROVE Complete'
    BY <2>1, Zenon DEF TransferClaim, MoveTransfer
  <2>2. ASSUME NEW w \in Work, TransferStart(w) PROVE Complete'
    BY <2>2 DEF TransferStart, MoveTransfer
  <2>3. ASSUME NEW w \in Work, TransferWrite(w) PROVE Complete'
    BY <2>3 DEF TransferWrite, MoveTransfer
  <2>4. ASSUME NEW w \in Work, TransferError(w) PROVE Complete'
    BY <2>4 DEF TransferError, MoveTransfer
  <2>5. ASSUME NEW w \in Work, TransferFinalize(w) PROVE Complete'
    BY <2>5 DEF TransferFinalize, MoveTransfer
  <2>6. ASSUME NEW w \in Work, TransferAdd(w) PROVE Complete'
    BY <2>6 DEF TransferAdd, MoveTransfer
  <2>7. ASSUME NEW w \in Work, TransferFail(w) PROVE Complete'
    BY <2>7, Zenon DEF TransferFail, BatchClose, MoveTransfer
  <2>8. ASSUME NEW w \in Work, TransferExit(w) PROVE Complete'
    BY <2>8, Zenon DEF TransferExit, MoveTransfer
  <2> HIDE DEF Complete
  <2> QED BY <1>4, <2>1, <2>2, <2>3, <2>4, <2>5, <2>6, <2>7, <2>8, Zenon DEF TransferStep
<1>5. CASE Cancel
    BY <1>5, Zenon DEF Cancel
<1>6. CASE CancelStep
  <2>1. CASE CancelCloseIO
    BY <2>1, Zenon DEF CancelCloseIO
  <2>2. CASE CancelClaim
    BY <2>2 DEF CancelClaim
  <2>3. CASE CancelCleanup
    BY <2>3 DEF CancelCleanup, CloseUnpublished
  <2> HIDE DEF Complete
  <2> QED BY <1>6, <2>1, <2>2, <2>3, Zenon DEF CancelStep
<1>7. CASE CloseUploads
    BY <1>7 DEF CloseUploads
<1>8. CASE CloseTransfers
    BY <1>8 DEF CloseTransfers
<1>9. CASE OwnerStep
  <2>1. CASE CloseRegisteredBatch
    BY <2>1, Zenon DEF CloseRegisteredBatch, BatchClose
  <2>2. ASSUME NEW end \in {"shut", "lent"}, CloseHelper(end) PROVE Complete'
    BY <2>2 DEF CloseHelper
  <2> HIDE DEF Complete
  <2> QED BY <1>9, <2>1, <2>2 DEF OwnerStep
<1>10. CASE UNCHANGED vars
    BY <1>10
<1> HIDE DEF Complete
<1> QED BY <1>1, <1>2, <1>3, <1>4, <1>5, <1>6, <1>7, <1>8, <1>9, <1>10 DEF Next

-----------------------------------------------------------------------------

\* The inductive invariant holds in every reachable state.
LEMMA Invariance == Spec => []IInv
<1>1. Init => IInv
    BY WorkAssumption, Zenon
       DEF Init, IInv, TypeOK, Ownership, Phases, Recorded, Complete, Working, InBatch,
           BeforeBatch, Batch, Handles, None, Meta, LocalMeta, FutStates, WorkerStates,
           TransferStates
<1>2. IInv /\ [Next]_vars => IInv'
    BY TypeStep, OwnershipStep, PhasesStep, RecordedStep, CompleteStep DEF IInv
<1> QED BY <1>1, <1>2, PTL DEF Spec

\* The state of the attempt keeps its types, and resources.created lists only
\* objects that exist.
THEOREM TypeCorrect == Spec => []TypeOK
<1>1. IInv => TypeOK
    BY DEF IInv
<1> QED BY <1>1, Invariance, PTL

\* For any number of files: closing an unpublished attempt leaves nothing in
\* checkpoint storage and no staging directory.
THEOREM NothingIsOrphaned == Spec => []NothingOrphaned
<1>1. IInv => NothingOrphaned
    BY DEF IInv, Recorded, NothingOrphaned
<1> QED BY <1>1, Invariance, PTL

\* For any number of files: no transfer thread runs on after the close.
THEOREM CleanupWaitsForTransfers == Spec => []CleanupAfterTransfers
<1>1. IInv => CleanupAfterTransfers
    BY DEF IInv, TypeOK, Ownership, Phases, Recorded, CleanupAfterTransfers, Active, InBatch
<1> QED BY <1>1, Invariance, PTL

\* For any number of files: published results are complete, and only they
\* report success or leave a reuse map.
THEOREM PublishedIsComplete == Spec => []PublishedComplete
<1>1. IInv => PublishedComplete
    BY DEF IInv, Complete, PublishedComplete
<1> QED BY <1>1, Invariance, PTL

\* A settled observation is never settled again.
THEOREM ObservationIsSettledOnce == Spec => ObservationSettledOnce
<1>1. IInv /\ [Next]_vars => [(observation \in {"completed", "failed"}) => (observation' = observation)]_vars
  <2> SUFFICES ASSUME IInv, [Next]_vars, observation \in {"completed", "failed"}
               PROVE observation' = observation
    OBVIOUS
  <2>1. cleaned \/ fut = "rejected"
    BY DEF IInv, TypeOK, Complete
  <2>2. fut # "none" /\ fut # "prepared" /\ fut # "new"
    BY <2>1 DEF IInv, Ownership
  <2>3. worker = "set" => fut # "new"
    BY <2>2
  <2>4. cleaned \/ worker = "none"
    BY <2>1 DEF IInv, Ownership
  <2>5. cleaned \/ canceller = "none"
    BY <2>4, Zenon DEF IInv, Ownership
  <2> USE DEF vars, taskVars, resVars, bookVars, batchVars, ownerVars
  <2>6. CASE SyncStep
    BY <2>6, <2>2 DEF SyncStep, PrepareCheckpoint, PrepareFails, Construct, ConstructRefused
  <2>7. CASE WorkerStep
    <3>1. CASE SetPublish \/ SetRefused
      BY <3>1, <2>2, Zenon DEF SetPublish, SetRefused
    <3>2. CASE SetException \/ RunFinally
      BY <3>2, <2>4 DEF SetException, RunFinally, CloseUnpublished
    <3>3. CASE \/ RunClaim \/ RunStart \/ ScanFails \/ Register \/ RegisterRefused
               \/ \E pending \in SUBSET Work : Scan(pending)
               \/ \E w \in Work : SubmitNext(w)
               \/ SubmitDone \/ SubmitExecute \/ SubmitRejected
      BY <3>3, Zenon DEF RunClaim, RunStart, ScanFails, Register, RegisterRefused, Scan, SubmitNext,
                  SubmitDone, SubmitExecute, SubmitRejected
    <3>4. CASE \/ JoinInterrupted \/ JoinResume \/ JoinDone \/ MetaWrite \/ MetaFails
               \/ \E then \in {"set", "except"} : MetaAdd(then)
               \/ \E new \in SUBSET {Meta, LocalMeta} : MetaFinalize(new)
               \/ SetCancelled
      BY <3>4, Zenon DEF JoinInterrupted, JoinResume, JoinDone, MetaWrite, MetaFails, MetaAdd,
                  MetaFinalize, SetCancelled
    <3> QED BY <2>7, <3>1, <3>2, <3>3, <3>4 DEF WorkerStep
  <2>8. CASE BatchStep
    BY <2>8 DEF BatchStep, BatchCancelIO, CancelTransfer, BatchClosed
  <2>9. CASE \E w \in Work : TransferStep(w)
    BY <2>9, Zenon DEF TransferStep, TransferClaim, TransferStart, TransferWrite, TransferError,
                TransferFinalize, TransferAdd, TransferFail, TransferExit, MoveTransfer
  <2>10. CASE Cancel \/ CancelStep
    BY <2>10, <2>5, Zenon DEF Cancel, CancelStep, CancelCloseIO, CancelClaim, CancelCleanup, CloseUnpublished
  <2>11. CASE CloseUploads \/ CloseTransfers \/ OwnerStep
    BY <2>11 DEF CloseUploads, CloseTransfers, OwnerStep, CloseRegisteredBatch, CloseHelper
  <2> QED BY <2>6, <2>7, <2>8, <2>9, <2>10, <2>11 DEF Next
<1> QED BY <1>1, Invariance, PTL DEF Spec, ObservationSettledOnce


\* The safety half of the refinement: every step of the attempt is a step of
\* UploadAttempt or leaves it alone, for any number of files.
THEOREM AttemptRefinement == Spec => ImplementsAttemptSafely
<1>1. Init => Attempt!Init
    BY Zenon DEF Init, Attempt!Init, Outcome
<1>2. IInv /\ IInv' /\ [Next]_vars => [Attempt!Next]_(Attempt!vars)
  <2> SUFFICES ASSUME IInv, IInv', [Next]_vars
               PROVE Attempt!Next \/ UNCHANGED <<Outcome, store, staging>>
    BY DEF Attempt!vars
  <2> USE DEF vars, taskVars, resVars, bookVars, batchVars, ownerVars
  <2>1. ASSUME UNCHANGED <<fut, store, staging, cleaned, published>>
        PROVE  UNCHANGED <<Outcome, store, staging>>
    BY <2>1 DEF Outcome
  <2>2. ASSUME fut \in {"prepared", "new", "cancelled", "failed"}, ~published, ~cleaned,
               CloseUnpublished,
               published' = published
        PROVE  Attempt!Next
    <3>1. Outcome \in {"running", "abandoned"} /\ Outcome' = "reclaimed" /\ ~staging'
      BY <2>2, Zenon DEF Outcome, CloseUnpublished
    <3>2. store' = {}
      BY <2>2 DEF IInv, Recorded, CloseUnpublished
    <3> QED BY <3>1, <3>2 DEF Attempt!Next, Attempt!Reclaim
  <2>3. CASE PrepareCheckpoint
    <3>1. Outcome = "idle" /\ Outcome' = "running"
      BY <2>3, Zenon DEF PrepareCheckpoint, Outcome, IInv, Complete, Ownership
    <3> QED BY <2>3, <3>1 DEF PrepareCheckpoint, Attempt!Next, Attempt!Begin
  <2>4. CASE PrepareFails
    <3>1. Outcome = "idle" /\ Outcome' = "reclaimed"
      BY <2>4, Zenon DEF PrepareFails, Outcome, IInv, Complete, Ownership
    <3> QED BY <2>4, <3>1 DEF PrepareFails, Attempt!Next, Attempt!Reject
  <2>5. CASE Construct
    BY <2>5 DEF Construct, Outcome
  <2>6. CASE ConstructRefused
    <3>1. ~published /\ ~cleaned
      BY <2>6, Zenon DEF ConstructRefused, IInv, Ownership, Complete
    <3> QED BY <2>2, <2>6, <3>1 DEF ConstructRefused
  <2>7. CASE SetPublish
    <3>1. Outcome = "running" /\ Outcome' = "published"
      BY <2>7, Zenon DEF SetPublish, Outcome, IInv, Complete, Ownership
    <3>2. staging' \in {staging, FALSE}
      BY <2>7, Zenon DEF SetPublish, ClosePublished, IInv, TypeOK
    <3> QED BY <2>7, <3>1, <3>2, Zenon DEF SetPublish, ClosePublished, Attempt!Next, Attempt!Publish
  <2>8. CASE SetRefused \/ SetException
    <3>1. ~cleaned /\ ~published /\ fut \in {"new", "cancelled", "failed"}
      BY <2>8, Zenon DEF SetRefused, SetException, IInv, TypeOK, Ownership, Complete, FutStates
    <3> QED BY <2>2, <2>8, <3>1 DEF SetRefused, SetException
  <2>9. CASE RunFinally \/ CancelCleanup
    <3>1. UNCHANGED <<fut, published>> /\ CloseUnpublished
      BY <2>9, Zenon DEF RunFinally, CancelCleanup
    <3>2. CASE cleaned
      BY <2>1, <3>1, <3>2 DEF CloseUnpublished
    <3>3. CASE ~cleaned
      <4>1. fut \in {"cancelled", "failed"} /\ ~published
        BY <2>9, <3>3, Zenon DEF RunFinally, CancelCleanup, IInv, TypeOK, Ownership, Complete, FutStates
      <4> QED BY <2>2, <3>1, <3>3, <4>1
    <3> QED BY <3>2, <3>3
  <2>10. CASE Cancel
    <3>1. Outcome = "running" /\ Outcome' = "abandoned"
      BY <2>10, Zenon DEF Cancel, Outcome, IInv, Ownership, Complete
    <3> QED BY <2>10, <3>1 DEF Cancel, Attempt!Next, Attempt!Abandon
  <2>11. ASSUME NEW new \in SUBSET Handles, store' = store \cup new,
                UNCHANGED <<fut, staging, cleaned, published>>, worker # "none", ~cleaned
         PROVE  Attempt!Next
    <3>1. Outcome \in {"running", "abandoned"} /\ Outcome' = Outcome
      BY <2>11, Zenon DEF Outcome, IInv, Ownership, Complete
    <3> QED BY <2>11, <3>1 DEF Attempt!Next, Attempt!Create
  <2>12. ASSUME NEW w \in Work, TransferFinalize(w) PROVE Attempt!Next
    <3>1. worker # "none" /\ ~cleaned
      BY <2>12, Zenon DEF TransferFinalize, IInv, TypeOK, Ownership, Phases, InBatch
    <3>2. {w} \in SUBSET Handles
      BY Zenon DEF Handles
    <3> QED BY <2>11, <2>12, <3>1, <3>2, Zenon DEF TransferFinalize, MoveTransfer
  <2>13. ASSUME NEW new \in SUBSET {Meta, LocalMeta}, MetaFinalize(new) PROVE Attempt!Next
    <3>1. worker # "none" /\ ~cleaned
      BY <2>13 DEF MetaFinalize, IInv, Ownership
    <3>2. new \in SUBSET Handles
      BY DEF Handles
    <3> QED BY <2>11, <2>13, <3>1, <3>2, Zenon DEF MetaFinalize
  <2>14. CASE \/ RunClaim \/ RunStart \/ ScanFails \/ Register \/ RegisterRefused
              \/ \E pending \in SUBSET Work : Scan(pending)
              \/ \E w \in Work : SubmitNext(w)
              \/ SubmitDone \/ SubmitExecute \/ SubmitRejected
    BY <2>1, <2>14, Zenon DEF RunClaim, RunStart, ScanFails, Register, RegisterRefused, Scan,
                       SubmitNext, SubmitDone, SubmitExecute, SubmitRejected
  <2>15. CASE \/ JoinInterrupted \/ JoinResume \/ JoinDone \/ MetaWrite \/ MetaFails
              \/ \E then \in {"set", "except"} : MetaAdd(then)
              \/ SetCancelled \/ BatchStep
    BY <2>1, <2>15, Zenon DEF JoinInterrupted, JoinResume, JoinDone, MetaWrite, MetaFails, MetaAdd,
                       SetCancelled, BatchStep, BatchCancelIO, CancelTransfer, BatchClosed
  <2>16. ASSUME NEW w \in Work, TransferStep(w), ~TransferFinalize(w)
         PROVE  UNCHANGED <<Outcome, store, staging>>
    BY <2>1, <2>16, Zenon DEF TransferStep, TransferClaim, TransferStart, TransferWrite, TransferError,
                       TransferAdd, TransferFail, TransferExit, MoveTransfer
  <2>17. CASE \/ CancelCloseIO \/ CancelClaim \/ CloseUploads \/ CloseTransfers \/ OwnerStep
    BY <2>1, <2>17, Zenon DEF CancelCloseIO, CancelClaim, CloseUploads, CloseTransfers, OwnerStep,
                       CloseRegisteredBatch, CloseHelper
  <2>18. CASE UNCHANGED vars
    BY <2>1, <2>18
  <2> QED
    <3>1. CASE WorkerStep
      BY <3>1, <2>7, <2>8, <2>9, <2>13, <2>14, <2>15 DEF WorkerStep
    <3>2. CASE SyncStep
      BY <3>2, <2>3, <2>4, <2>5, <2>6 DEF SyncStep
    <3>3. CASE \E w \in Work : TransferStep(w)
      BY <3>3, <2>12, <2>16
    <3>4. CASE CancelStep
      BY <3>4, <2>9, <2>17 DEF CancelStep
    <3> QED BY <3>1, <3>2, <3>3, <3>4, <2>10, <2>15, <2>17, <2>18, Zenon DEF Next
<1> QED BY <1>1, <1>2, Invariance, PTL DEF Spec, ImplementsAttemptSafely

===============================================================================
