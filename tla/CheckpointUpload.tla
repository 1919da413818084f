--------------------------- MODULE CheckpointUpload ---------------------------
(***************************************************************************)
(* One native RocksDB checkpoint attempt, from the synchronous part of     *)
(* StreamFusionKeyedStateBackend.snapshot to the release of everything the *)
(* attempt owns.  The threads that meet here are                           *)
(*                                                                         *)
(*   - the asynchronous checkpoint worker (NativeCheckpointUploadTask.run, *)
(*     NativeCheckpointUpload.upload, NativeCheckpointTransferBatch.run);  *)
(*   - one transfer thread per file that is not reused;                    *)
(*   - a canceller (Flink's abort, or the closing of the backend, through  *)
(*     NativeCheckpointUploadTask.cancel);                                 *)
(*   - the thread that closes NativeRocksDbTransfers.                      *)
(*                                                                         *)
(* A unit of work is a file of the local checkpoint; the remote handle it  *)
(* becomes is named by the unit.  Bytes, paths and sizes are abstracted.   *)
(***************************************************************************)
CONSTANTS Work,          \* files of the local checkpoint that may need a transfer
          LocalBackup    \* is task-local recovery configured?

Meta == "meta"
LocalMeta == "localMeta"
None == "none"

ASSUME WorkAssumption == Work \cap {"meta", "localMeta", "none", "worker", "backend"} = {}
ASSUME LocalBackupAssumption == LocalBackup \in BOOLEAN

Handles == Work \cup {Meta, LocalMeta}

VARIABLES
    fut,           \* the FutureTask: none, prepared, rejected, new, normal, failed, cancelled
    claimed,       \* NativeCheckpointUploadTask.cleanupClaimed
    worker,        \* where the checkpoint worker is
    interrupted,   \* the worker thread's interrupt flag
    canceller,     \* where NativeCheckpointUploadTask.cancel is
    io,            \* the CloseableRegistry of the upload is open
    created,       \* NativeCheckpointUploadResources.created
    store,         \* handles of this attempt that exist in checkpoint storage
    cleaned,       \* NativeCheckpointUploadResources.cleaned
    published,     \* NativeCheckpointUploadResources.published
    localHandle,   \* NativeCheckpointUploadResources.localHandleCreated
    staging,       \* the local checkpoint directory exists
    observation,   \* the participant's checkpoint observation: none, open, completed, failed
    reuseEntry,    \* pendingSharedFiles has an entry for this checkpoint
    tr,            \* where each transfer is
    tf,            \* each transfer's FutureTask: new, ok, err, cancelled
    next,          \* the transfer the worker is about to submit
    failure,       \* NativeCheckpointTransferBatch.failure is set
    bstep,         \* progress of NativeCheckpointTransferBatch.close
    closer,        \* the thread that won the batch's cancelled flag
    uploadsClosed, \* the backend's registry of uploads is closed
    transfers      \* NativeRocksDbTransfers.close: open, holding (a batch), helper, shut, lent

taskVars  == <<fut, claimed, worker, interrupted, canceller>>
resVars   == <<io, created, store, cleaned, published, localHandle, staging>>
bookVars  == <<observation, reuseEntry>>
batchVars == <<tr, tf, next, failure, bstep, closer>>
ownerVars == <<uploadsClosed, transfers>>
vars == <<taskVars, resVars, bookVars, batchVars, ownerVars>>

FutStates     == {"none", "prepared", "rejected", "new", "normal", "failed", "cancelled"}
WorkerStates  == {"none", "idle", "claimed", "scan", "register", "submit", "join",
                  "joinClose", "meta", "metaClose", "metaAdd", "set", "except", "finally", "done"}
TransferStates == {"none", "idle", "queued", "claimed", "writing", "closing", "adding",
                   "failing", "closingBatch", "exited"}

\* Units the current batch was built from.
Batch == {w \in Work : tr[w] # "none"}

\* A transfer thread between its claim and its exit: it may read the staging
\* directory and create a handle.
Active == {"claimed", "writing", "closing", "adding", "failing", "closingBatch"}

-----------------------------------------------------------------------------

Init ==
    /\ fut = "none" /\ claimed = FALSE /\ worker = "none"
    /\ interrupted = FALSE /\ canceller = "none"
    /\ io = TRUE /\ created = {} /\ store = {} /\ cleaned = FALSE
    /\ published = FALSE /\ localHandle = FALSE /\ staging = FALSE
    /\ observation = "none" /\ reuseEntry = FALSE
    /\ tr = [w \in Work |-> "none"] /\ tf = [w \in Work |-> "new"]
    /\ next = None /\ failure = FALSE /\ bstep = "open" /\ closer = None
    /\ uploadsClosed = FALSE /\ transfers = "open"

-----------------------------------------------------------------------------
\* NativeCheckpointUploadResources

\* close() before publication: once; stops I/O, discards every created handle,
\* runs the failure callback, deletes the staging directory.
CloseUnpublished ==
    IF cleaned
    THEN UNCHANGED <<io, created, store, cleaned, staging, bookVars>>
    ELSE /\ cleaned' = TRUE
         /\ io' = FALSE
         /\ store' = store \ created
         /\ created' = {}
         /\ staging' = FALSE
         /\ reuseEntry' = FALSE
         /\ observation' = IF observation = "open" THEN "failed" ELSE observation

\* Fault: the directory of a task-local handle is deleted.
ClosePublished_DeletesStaging ==
    /\ cleaned' = TRUE
    /\ io' = FALSE
    /\ created' = {}
    /\ staging' = FALSE
    /\ UNCHANGED store

\* close() right after publish(): the handles now belong to the result, and so
\* does the directory when the result carries a task-local handle.
ClosePublished ==
    /\ cleaned' = TRUE
    /\ io' = FALSE
    /\ created' = {}
    /\ staging' = (staging /\ localHandle)
    /\ UNCHANGED store

-----------------------------------------------------------------------------
\* StreamFusionKeyedStateBackend.snapshot: the synchronous part

PrepareCheckpoint ==
    /\ fut = "none"
    /\ fut' = "prepared"
    /\ staging' = TRUE
    /\ observation' = "open"
    /\ UNCHANGED <<claimed, worker, interrupted, canceller, io, created, store, cleaned,
                   published, localHandle, reuseEntry, batchVars, ownerVars>>

\* A failed local checkpoint removes its directory and fails the observation.
PrepareFails ==
    /\ fut = "none"
    /\ fut' = "rejected"
    /\ observation' = "failed"
    /\ UNCHANGED <<claimed, worker, interrupted, canceller, resVars, reuseEntry,
                   batchVars, ownerVars>>

\* The constructor of the task registers it with both owners.
Construct ==
    /\ fut = "prepared"
    /\ ~uploadsClosed /\ transfers = "open"
    /\ fut' = "new"
    /\ worker' = "idle"
    /\ UNCHANGED <<claimed, interrupted, canceller, resVars, bookVars, batchVars, ownerVars>>

\* A closed registry closes what it refuses: the task is cancelled before it
\* starts, and snapshot() rethrows.
ConstructRefused ==
    /\ fut = "prepared"
    /\ uploadsClosed \/ transfers # "open"
    /\ fut' = "cancelled"
    /\ claimed' = TRUE
    /\ worker' = "done"
    /\ canceller' = "done"
    /\ CloseUnpublished
    /\ UNCHANGED <<interrupted, published, localHandle, batchVars, ownerVars>>

-----------------------------------------------------------------------------
\* NativeCheckpointUploadTask.run and NativeCheckpointUpload.upload

RunClaim ==
    /\ worker = "idle"
    /\ worker' = IF claimed THEN "done" ELSE "claimed"
    /\ claimed' = TRUE
    /\ UNCHANGED <<fut, interrupted, canceller, resVars, bookVars, batchVars, ownerVars>>

\* FutureTask.run does nothing when the task has already been cancelled.
RunStart ==
    /\ worker = "claimed"
    /\ worker' = IF fut = "new" THEN "scan" ELSE "finally"
    /\ UNCHANGED <<fut, claimed, interrupted, canceller, resVars, bookVars, batchVars, ownerVars>>

\* List the files and decide which are reused; pending is the rest.  The
\* listing checks for cancellation at every file.
Scan(pending) ==
    /\ worker = "scan" /\ io
    /\ tr' = [w \in Work |-> IF w \in pending THEN "idle" ELSE "none"]
    /\ worker' = "register"
    /\ UNCHANGED <<fut, claimed, interrupted, canceller, resVars, bookVars,
                   tf, next, failure, bstep, closer, ownerVars>>

\* Cancelled, or an I/O error while listing or sizing the files.
ScanFails ==
    /\ worker = "scan"
    /\ worker' = "except"
    /\ UNCHANGED <<fut, claimed, interrupted, canceller, resVars, bookVars, batchVars, ownerVars>>

\* NativeRocksDbTransfers.run registers the batch for the time it runs.
Register ==
    /\ worker = "register" /\ transfers = "open"
    /\ worker' = "submit"
    /\ UNCHANGED <<fut, claimed, interrupted, canceller, resVars, bookVars, batchVars, ownerVars>>

\* A closed registry closes the batch it refuses, before any submission.
RegisterRefused ==
    /\ worker = "register" /\ transfers # "open"
    /\ worker' = "except"
    /\ io' = FALSE
    /\ failure' = TRUE /\ bstep' = "closed" /\ closer' = "worker"
    /\ tf' = [w \in Work |-> IF w \in Batch THEN "cancelled" ELSE tf[w]]
    /\ tr' = [w \in Work |-> IF w \in Batch THEN "exited" ELSE tr[w]]
    /\ UNCHANGED <<fut, claimed, interrupted, canceller, created, store, cleaned, published,
                   localHandle, staging, bookVars, next, ownerVars>>

-----------------------------------------------------------------------------
\* NativeCheckpointTransferBatch.run

\* The loop head: stop submitting once the batch is cancelled.
SubmitNext(w) ==
    /\ worker = "submit" /\ next = None
    /\ bstep = "open"
    /\ tr[w] = "idle"
    /\ next' = w
    /\ UNCHANGED <<taskVars, resVars, bookVars, tr, tf, failure, bstep, closer, ownerVars>>

SubmitDone ==
    /\ worker = "submit" /\ next = None
    /\ bstep # "open" \/ \A w \in Work : tr[w] # "idle"
    /\ worker' = "join"
    /\ UNCHANGED <<fut, claimed, interrupted, canceller, resVars, bookVars, batchVars, ownerVars>>

\* executor.execute: the transfer may have been cancelled since the check, in
\* which case the pool thread will find it claimed.
SubmitExecute ==
    /\ worker = "submit" /\ next # None
    /\ transfers # "shut"
    /\ tr' = [tr EXCEPT ![next] = IF @ = "idle" THEN "queued" ELSE @]
    /\ next' = None
    /\ UNCHANGED <<taskVars, resVars, bookVars, tf, failure, bstep, closer, ownerVars>>

\* A thread that calls close() on the batch records the failure and, when it is
\* the first, goes through the closing steps.
BatchClose(who) ==
    /\ failure' = TRUE
    /\ closer' = IF bstep = "open" THEN who ELSE closer
    /\ bstep' = IF bstep = "open" THEN "io" ELSE bstep

\* The executor rejects the task: fail(rejected), then join.
SubmitRejected ==
    /\ worker = "submit" /\ next # None
    /\ BatchClose("worker")
    /\ next' = None
    /\ worker' = "joinClose"
    /\ UNCHANGED <<fut, claimed, interrupted, canceller, resVars, bookVars, tr, tf, ownerVars>>

JoinInterrupted ==
    /\ worker = "join" /\ interrupted
    /\ Batch # {}
    /\ BatchClose("worker")
    /\ worker' = "joinClose"
    /\ interrupted' = FALSE
    /\ UNCHANGED <<fut, claimed, canceller, resVars, bookVars, tr, tf, next, ownerVars>>

\* fail() has returned: the worker's own closing steps, if it had any, are over.
JoinResume ==
    /\ worker = "joinClose"
    /\ closer = "worker" => bstep = "closed"
    /\ worker' = "join"
    /\ UNCHANGED <<fut, claimed, interrupted, canceller, resVars, bookVars, batchVars, ownerVars>>

\* Every transfer has exited.  The first recorded failure is thrown.
JoinDone ==
    /\ worker = "join"
    /\ \A w \in Batch : tr[w] = "exited"
    /\ worker' = IF failure THEN "except" ELSE "meta"
    /\ UNCHANGED <<fut, claimed, interrupted, canceller, resVars, bookVars, batchVars, ownerVars>>

BatchCancelIO ==
    /\ bstep = "io"
    /\ io' = FALSE
    /\ bstep' = "cancel"
    /\ UNCHANGED <<taskVars, created, store, cleaned, published, localHandle, staging, bookVars,
                   tr, tf, next, failure, closer, ownerVars>>

\* Fault: cancelling an unclaimed transfer does not count down its latch.
CancelTransfer_NoCountDown(w) ==
    /\ bstep = "cancel"
    /\ w \in Batch /\ tf[w] = "new"
    /\ tf' = [tf EXCEPT ![w] = "cancelled"]
    /\ UNCHANGED <<taskVars, resVars, bookVars, tr, next, failure, bstep, closer, ownerVars>>

\* Transfer.cancel(false): a transfer nobody has claimed exits here.
CancelTransfer(w) ==
    /\ bstep = "cancel"
    /\ w \in Batch /\ tf[w] = "new"
    /\ tf' = [tf EXCEPT ![w] = "cancelled"]
    /\ tr' = [tr EXCEPT ![w] = IF @ \in {"idle", "queued"} THEN "exited" ELSE @]
    /\ UNCHANGED <<taskVars, resVars, bookVars, next, failure, bstep, closer, ownerVars>>

BatchClosed ==
    /\ bstep = "cancel"
    /\ \A w \in Batch : tf[w] # "new"
    /\ bstep' = "closed"
    /\ UNCHANGED <<taskVars, resVars, bookVars, tr, tf, next, failure, closer, ownerVars>>

-----------------------------------------------------------------------------
\* NativeCheckpointTransferBatch.Transfer and NativeCheckpointUploadResources.upload

MoveTransfer(w, to) ==
    /\ tr' = [tr EXCEPT ![w] = to]
    /\ UNCHANGED <<taskVars, bookVars, next, ownerVars>>

\* A pool thread claims the transfer.  A pool that was shut down runs nothing.
TransferClaim(w) ==
    /\ tr[w] = "queued" /\ transfers # "shut"
    /\ MoveTransfer(w, "claimed")
    /\ UNCHANGED <<resVars, tf, failure, bstep, closer>>

\* FutureTask.run skips a cancelled transfer; otherwise upload() begins by
\* checking for cancellation and registering its streams.
TransferStart(w) ==
    /\ tr[w] = "claimed"
    /\ MoveTransfer(w, IF tf[w] # "new" THEN "exited" ELSE IF io THEN "writing" ELSE "failing")
    /\ UNCHANGED <<resVars, tf, failure, bstep, closer>>

TransferWrite(w) ==
    /\ tr[w] = "writing" /\ io
    /\ MoveTransfer(w, "closing")
    /\ UNCHANGED <<resVars, tf, failure, bstep, closer>>

\* A closed stream or an I/O error, while writing or while closing.
TransferError(w) ==
    /\ tr[w] \in {"writing", "closing"}
    /\ MoveTransfer(w, "failing")
    /\ UNCHANGED <<resVars, tf, failure, bstep, closer>>

\* closeAndGetHandle: from here on the object exists in checkpoint storage.
TransferFinalize(w) ==
    /\ tr[w] = "closing"
    /\ store' = store \cup {w}
    /\ MoveTransfer(w, "adding")
    /\ UNCHANGED <<io, created, cleaned, published, localHandle, staging, tf, failure, bstep, closer>>

\* Fault: the last cancellation check comes before created.add.
TransferAdd_CheckFirst(w) ==
    /\ tr[w] = "adding"
    /\ created' = IF io THEN created \cup {w} ELSE created
    /\ MoveTransfer(w, IF io THEN "exited" ELSE "failing")
    /\ tf' = [tf EXCEPT ![w] = IF io /\ @ = "new" THEN "ok" ELSE @]
    /\ UNCHANGED <<io, store, cleaned, published, localHandle, staging, failure, bstep, closer>>

\* created.add(handle), then the last cancellation check.
TransferAdd(w) ==
    /\ tr[w] = "adding"
    /\ created' = created \cup {w}
    /\ MoveTransfer(w, IF io THEN "exited" ELSE "failing")
    /\ tf' = [tf EXCEPT ![w] = IF io /\ @ = "new" THEN "ok" ELSE @]
    /\ UNCHANGED <<io, store, cleaned, published, localHandle, staging, failure, bstep, closer>>

\* fail(problem) on the transfer's own thread.
TransferFail(w) ==
    /\ tr[w] = "failing"
    /\ BatchClose(w)
    /\ MoveTransfer(w, IF bstep = "open" THEN "closingBatch" ELSE "exited")
    /\ tf' = [tf EXCEPT ![w] = IF bstep # "open" /\ @ = "new" THEN "err" ELSE @]
    /\ UNCHANGED resVars

TransferExit(w) ==
    /\ tr[w] = "closingBatch" /\ closer = w /\ bstep = "closed"
    /\ MoveTransfer(w, "exited")
    /\ UNCHANGED <<resVars, tf, failure, bstep, closer>>

-----------------------------------------------------------------------------
\* NativeCheckpointUpload.upload after the join: metadata, then the result

MetaWrite ==
    /\ worker = "meta" /\ io
    /\ worker' = "metaClose"
    /\ UNCHANGED <<fut, claimed, interrupted, canceller, resVars, bookVars, batchVars, ownerVars>>

MetaFails ==
    /\ worker \in {"meta", "metaClose"}
    /\ worker' = "except"
    /\ UNCHANGED <<fut, claimed, interrupted, canceller, resVars, bookVars, batchVars, ownerVars>>

\* closeAndFinalizeCheckpointStreamResult: either copy may be missing, and there
\* is a local one only when local backup is configured.
MetaFinalize(new) ==
    /\ worker = "metaClose"
    /\ LocalBackup \/ LocalMeta \notin new
    /\ store' = store \cup new
    /\ worker' = "metaAdd"
    /\ UNCHANGED <<fut, claimed, interrupted, canceller, io, created, cleaned, published,
                   localHandle, staging, bookVars, batchVars, ownerVars>>

\* created.add for what was finalized, the last check, and the local directory
\* handle, which has to size the directory and may fail.
MetaAdd(then) ==
    /\ worker = "metaAdd"
    /\ then = "set" => io /\ Meta \in store
    /\ then = "except" => ~io \/ Meta \notin store \/ LocalMeta \in store
    /\ created' = created \cup (store \cap {Meta, LocalMeta})
    /\ worker' = then
    /\ localHandle' = (then = "set" /\ LocalMeta \in store)
    /\ UNCHANGED <<fut, claimed, interrupted, canceller, io, store, cleaned, published,
                   staging, bookVars, batchVars, ownerVars>>

-----------------------------------------------------------------------------
\* Completion of the future, under publicationLock

\* set() finds the task cancelled and leaves the cleanup to run()'s finally.
SetCancelled ==
    /\ worker = "set" /\ fut = "cancelled"
    /\ worker' = "finally"
    /\ UNCHANGED <<fut, claimed, interrupted, canceller, resVars, bookVars, batchVars, ownerVars>>

\* publish(), close(), FutureTask.set: no cancellation can come between them.
SetPublish ==
    /\ worker = "set" /\ fut = "new" /\ io
    /\ published' = TRUE
    /\ observation' = IF observation = "open" THEN "completed" ELSE observation
    /\ reuseEntry' = TRUE
    /\ ClosePublished
    /\ fut' = "normal"
    /\ worker' = "finally"
    /\ UNCHANGED <<claimed, interrupted, canceller, localHandle, batchVars, ownerVars>>

\* publish() refuses: the I/O registry was closed by the batch or its owner.
SetRefused ==
    /\ worker = "set" /\ fut = "new" /\ ~io
    /\ CloseUnpublished
    /\ fut' = "failed"
    /\ worker' = "finally"
    /\ UNCHANGED <<claimed, interrupted, canceller, published, localHandle, batchVars, ownerVars>>

\* setException(): close, then fail the future unless it was cancelled.
SetException ==
    /\ worker = "except"
    /\ CloseUnpublished
    /\ fut' = IF fut = "new" THEN "failed" ELSE fut
    /\ worker' = "finally"
    /\ UNCHANGED <<claimed, interrupted, canceller, published, localHandle, batchVars, ownerVars>>

RunFinally ==
    /\ worker = "finally"
    /\ CloseUnpublished
    /\ worker' = "done"
    /\ UNCHANGED <<fut, claimed, interrupted, canceller, published, localHandle, batchVars, ownerVars>>

-----------------------------------------------------------------------------
\* NativeCheckpointUploadTask.cancel

\* FutureTask.cancel(true): a task still NEW is cancelled, and its runner, if
\* it has one, is interrupted.
Cancel ==
    /\ fut = "new"
    /\ fut' = "cancelled"
    /\ canceller' = "io"
    /\ interrupted' = (worker \notin {"idle", "claimed", "finally", "done"})
    /\ UNCHANGED <<claimed, worker, resVars, bookVars, batchVars, ownerVars>>

CancelCloseIO ==
    /\ canceller = "io"
    /\ io' = FALSE
    /\ canceller' = "claim"
    /\ UNCHANGED <<fut, claimed, worker, interrupted, created, store, cleaned, published,
                   localHandle, staging, bookVars, batchVars, ownerVars>>

CancelClaim ==
    /\ canceller = "claim"
    /\ canceller' = IF claimed THEN "done" ELSE "close"
    /\ claimed' = TRUE
    /\ UNCHANGED <<fut, worker, interrupted, resVars, bookVars, batchVars, ownerVars>>

CancelCleanup ==
    /\ canceller = "close"
    /\ CloseUnpublished
    /\ canceller' = "done"
    /\ UNCHANGED <<fut, claimed, worker, interrupted, published, localHandle, batchVars, ownerVars>>

-----------------------------------------------------------------------------
\* The owners: StreamFusionKeyedStateBackend.close and NativeRocksDbTransfers.close

CloseUploads ==
    /\ ~uploadsClosed
    /\ uploadsClosed' = TRUE
    /\ UNCHANGED <<taskVars, resVars, bookVars, batchVars, transfers>>

\* operations.close() copies what is registered at that moment.
CloseTransfers ==
    /\ transfers = "open"
    /\ transfers' = IF worker \in {"submit", "join", "joinClose"} THEN "holding" ELSE "helper"
    /\ UNCHANGED <<taskVars, resVars, bookVars, batchVars, uploadsClosed>>

CloseRegisteredBatch ==
    /\ transfers = "holding"
    /\ BatchClose("backend")
    /\ transfers' = "helper"
    /\ UNCHANGED <<taskVars, resVars, bookVars, tr, tf, next, uploadsClosed>>

\* helper.close(): a dedicated pool is shut down and drops its queue, a pool
\* lent by the TaskManager keeps running.  operations.close() has cancelled the
\* registered task by then.
CloseHelper(end) ==
    /\ transfers = "helper"
    /\ closer = "backend" => bstep = "closed"
    /\ fut # "new"
    /\ transfers' = end
    /\ UNCHANGED <<taskVars, resVars, bookVars, batchVars, uploadsClosed>>

-----------------------------------------------------------------------------

\* The closing steps of the batch, taken by whichever thread won the flag.
BatchStep == BatchCancelIO \/ (\E w \in Work : CancelTransfer(w)) \/ BatchClosed

SyncStep == PrepareCheckpoint \/ PrepareFails \/ Construct \/ ConstructRefused

WorkerStep ==
    \/ RunClaim \/ RunStart \/ ScanFails \/ Register \/ RegisterRefused
    \/ \E pending \in SUBSET Work : Scan(pending)
    \/ \E w \in Work : SubmitNext(w)
    \/ SubmitDone \/ SubmitExecute \/ SubmitRejected
    \/ JoinInterrupted \/ JoinResume \/ JoinDone
    \/ MetaWrite \/ MetaFails
    \/ \E then \in {"set", "except"} : MetaAdd(then)
    \/ \E new \in SUBSET {Meta, LocalMeta} : MetaFinalize(new)
    \/ SetCancelled \/ SetPublish \/ SetRefused \/ SetException \/ RunFinally

TransferStep(w) ==
    \/ TransferClaim(w) \/ TransferStart(w) \/ TransferWrite(w) \/ TransferError(w)
    \/ TransferFinalize(w) \/ TransferAdd(w) \/ TransferFail(w) \/ TransferExit(w)

CancelStep == CancelCloseIO \/ CancelClaim \/ CancelCleanup

OwnerStep == CloseRegisteredBatch \/ \E end \in {"shut", "lent"} : CloseHelper(end)

Next ==
    \/ SyncStep \/ WorkerStep \/ BatchStep
    \/ \E w \in Work : TransferStep(w)
    \/ Cancel \/ CancelStep
    \/ CloseUploads \/ CloseTransfers \/ OwnerStep

\* Every thread keeps running: the executor runs what it accepted, a thread in
\* the middle of cancel() or close() finishes it, and closing an owner cancels
\* the task registered with it.  Nothing else forces a cancellation.
Fairness ==
    /\ WF_vars(SyncStep) /\ WF_vars(WorkerStep) /\ WF_vars(BatchStep)
    /\ \A w \in Work : WF_vars(TransferStep(w))
    /\ WF_vars(CancelStep) /\ WF_vars(OwnerStep)
    /\ WF_vars((uploadsClosed \/ transfers # "open") /\ Cancel)

Spec == Init /\ [][Next]_vars /\ Fairness

-----------------------------------------------------------------------------
\* Properties

\* Every variable has its type, and what resources.created lists exists in
\* storage (upload and uploadMetadata add a handle only once it is finalized,
\* close() clears the list when it has discarded it).
TypeOK ==
    /\ fut \in FutStates /\ claimed \in BOOLEAN /\ worker \in WorkerStates
    /\ interrupted \in BOOLEAN /\ canceller \in {"none", "io", "claim", "close", "done"}
    /\ io \in BOOLEAN /\ store \in SUBSET Handles /\ created \in SUBSET store
    /\ cleaned \in BOOLEAN /\ published \in BOOLEAN /\ localHandle \in BOOLEAN
    /\ staging \in BOOLEAN
    /\ observation \in {"none", "open", "completed", "failed"} /\ reuseEntry \in BOOLEAN
    /\ tr \in [Work -> TransferStates]
    /\ tf \in [Work -> {"new", "ok", "err", "cancelled"}]
    /\ next \in Work \cup {None} /\ failure \in BOOLEAN
    /\ bstep \in {"open", "io", "cancel", "closed"}
    /\ closer \in Work \cup {None, "worker", "backend"}
    /\ uploadsClosed \in BOOLEAN
    /\ transfers \in {"open", "holding", "helper", "shut", "lent"}

\* Once resources.close() has run for an attempt that was not published, no
\* object the attempt created is left in checkpoint storage and the staging
\* directory is gone, whichever thread closed it and wherever a transfer was
\* between closeAndGetHandle and created.add.
NothingOrphaned == cleaned /\ ~published => store = {} /\ ~staging

\* The batch joins the actual exits of its workers before staging or handles
\* are cleaned: a transfer thread never runs on after resources.close(), so it
\* never reads a deleted directory or adds a handle nobody will discard.
CleanupAfterTransfers ==
    (\E w \in Work : tr[w] \in Active) => ~cleaned /\ staging

\* A published result is complete and stays so: every transferred file and the
\* metadata are in storage, the directory a task-local handle points to exists,
\* the future reports success, the participant's checkpoint is completed, and
\* the reuse map waits for the completion notification.  And only a published
\* attempt reports success or leaves a reuse map.
PublishedComplete ==
    /\ published => /\ Batch \cup {Meta} \subseteq store
                    /\ localHandle => staging /\ LocalMeta \in store
                    /\ observation = "completed"
    /\ published <=> fut = "normal"
    /\ published <=> reuseEntry

\* The participant's checkpoint observation is settled exactly when the attempt
\* has given its resources back, and never changes afterwards.
ObservationSettledOnce ==
    [][(observation \in {"completed", "failed"}) => (observation' = observation)]_vars

\* How an attempt stands, as its surroundings see it.
Outcome ==
    IF published THEN "published"
    ELSE IF cleaned \/ fut = "rejected" THEN "reclaimed"
    ELSE IF fut = "none" THEN "idle"
    ELSE IF fut \in {"cancelled", "failed"} THEN "abandoned" ELSE "running"

Attempt == INSTANCE UploadAttempt WITH outcome <- Outcome, objects <- store, staged <- staging

\* Every behaviour is one of an attempt that either publishes or leaves nothing,
\* and that comes to such an end: no worker waits for ever on a transfer that
\* was dropped from the pool's queue or cancelled before it was submitted.
ImplementsAttempt == Attempt!Spec

\* The same without the promise to end, which is the part a proof can reach.
ImplementsAttemptSafely == Attempt!Init /\ [][Attempt!Next]_(Attempt!vars)

=============================================================================
