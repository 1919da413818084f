------------------------ MODULE IncrementalCheckpoints ------------------------
(***************************************************************************)
(* The SST bookkeeping of StreamFusionKeyedStateBackend over a sequence of *)
(* incremental checkpoints, aborts, notifications and failovers.           *)
(*                                                                         *)
(* An attempt is taken at the grain of UploadAttempt: it uploads, and then *)
(* is published or reclaimed.  A handle is named by the checkpoint that    *)
(* created it and the file: shared[c][f] = k says that checkpoint c refers *)
(* to the object checkpoint k uploaded for file f, 0 that f is not in c.   *)
(* A file's content is the number of the incarnation that wrote it, since  *)
(* a restored database may give an old name to new content.                *)
(*                                                                         *)
(* External: RocksDB's files, and Flink's JobManager, which triggers one   *)
(* checkpoint at a time, registers the shared state of every acknowledged  *)
(* checkpoint, and on completion discards registered state last used by an *)
(* older checkpoint.  Its notifications are delivered in any order, and    *)
(* may be lost; unless LateCompletions, the completion of a checkpoint     *)
(* does reach the task before a later attempt reads its base.              *)
(***************************************************************************)
EXTENDS Naturals, FiniteSetsExt, TLC, TLAPS

CONSTANTS Files,
          MaxCheckpoint,     \* bound on checkpoint ids
          MaxIncarnation,    \* bound on executions of the task
          LateCompletions    \* may a completion arrive late, or never?

ASSUME BoundsAssumption ==
    MaxCheckpoint \in Nat \ {0} /\ MaxIncarnation \in Nat \ {0}

ASSUME DeliveryAssumption == LateCompletions \in BOOLEAN

Ids == 1 .. MaxCheckpoint
Contents == 0 .. MaxIncarnation
NoFiles == [f \in Files |-> 0]

\* File names are interchangeable.
Symmetry == Permutations(Files)

VARIABLES
    incarnation,   \* which execution of the task is running
    live,          \* content of each file of the database, 0 when absent
    used,          \* file names this incarnation has used
    att,           \* each attempt: none, staged, uploading, published, reclaimed
    snap,          \* the files of each local checkpoint
    shared,        \* Result.sharedFiles of each attempt
    pending,       \* ids in pendingSharedFiles
    completedId,   \* completedCheckpointId, 0 for -1
    completed,     \* completedSharedFiles
    delivered,     \* completions this incarnation has been notified of
    notified,      \* aborts and subsumptions this incarnation has been notified of
    store,         \* objects <<checkpoint, file>> in checkpoint storage
    jm,            \* each checkpoint at the JobManager
    registered,    \* checkpoints whose shared state the JobManager has registered
    inbox          \* notifications under way to the task

dbVars      == <<incarnation, live, used>>
attemptVars == <<att, snap, shared>>
reuseVars   == <<pending, completedId, completed>>
noteVars    == <<delivered, notified>>
jmVars      == <<jm, registered>>
vars == <<dbVars, attemptVars, reuseVars, noteVars, store, jmVars, inbox>>

Completed == {c \in Ids : jm[c] = "completed"}
Latest == IF Completed = {} THEN 0 ELSE Max(Completed)

\* The objects a checkpoint refers to.
References(c) == {<<shared[c][f], f>> : f \in {g \in Files : shared[c][g] # 0}}

Init ==
    /\ incarnation = 1 /\ live = NoFiles /\ used = {}
    /\ att = [c \in Ids |-> "none"]
    /\ snap = [c \in Ids |-> NoFiles] /\ shared = [c \in Ids |-> NoFiles]
    /\ pending = {} /\ completedId = 0 /\ completed = NoFiles
    /\ delivered = {} /\ notified = {}
    /\ store = {}
    /\ jm = [c \in Ids |-> "none"] /\ registered = {}
    /\ inbox = {}

-----------------------------------------------------------------------------
\* RocksDB (external): a flush or compaction writes a file under a new name, a
\* compaction drops one.

WriteFile(f) ==
    /\ f \notin used
    /\ live' = [live EXCEPT ![f] = incarnation]
    /\ used' = used \cup {f}
    /\ UNCHANGED <<incarnation, attemptVars, reuseVars, noteVars, store, jmVars, inbox>>

DropFile(f) ==
    /\ live[f] # 0
    /\ live' = [live EXCEPT ![f] = 0]
    /\ UNCHANGED <<incarnation, used, attemptVars, reuseVars, noteVars, store, jmVars, inbox>>

-----------------------------------------------------------------------------
\* StreamFusionKeyedStateBackend

\* The JobManager triggers the next checkpoint and the task takes its local
\* snapshot.
Snapshot(c) ==
    /\ jm[c] = "none" /\ \A d \in Ids : d < c => jm[d] \in {"completed", "aborted"}
    /\ jm' = [jm EXCEPT ![c] = "triggered"]
    /\ att' = [att EXCEPT ![c] = "staged"]
    /\ snap' = [snap EXCEPT ![c] = live]
    /\ UNCHANGED <<dbVars, shared, reuseVars, noteVars, store, registered, inbox>>

\* The worker reads completedSharedFiles when it runs, and refers to the old
\* object of every file of the base that storage still lets it reuse.
Upload(c, refused) ==
    /\ att[c] = "staged"
    /\ LateCompletions \/ \A d \in Ids : d < c => <<"complete", d>> \notin inbox
    /\ att' = [att EXCEPT ![c] = "uploading"]
    /\ shared' = [shared EXCEPT ![c] =
           [f \in Files |-> IF snap[c][f] = 0 THEN 0
                            ELSE IF completed[f] # 0 /\ f \notin refused THEN completed[f]
                            ELSE c]]
    /\ store' = store \cup {<<c, f>> : f \in {g \in Files : shared'[c][g] = c}}
    /\ UNCHANGED <<dbVars, snap, reuseVars, noteVars, jmVars, inbox>>

\* Fault: the reuse map is installed before its checkpoint completes.
Publish_InstallsBase(c) ==
    /\ att[c] = "uploading"
    /\ att' = [att EXCEPT ![c] = "published"]
    /\ pending' = pending \cup {c}
    /\ completedId' = c /\ completed' = shared[c]
    /\ UNCHANGED <<dbVars, snap, shared, noteVars, store, jmVars, inbox>>

\* publication: the participant completes and the reuse map becomes pending,
\* before the future reports the result.
Publish(c) ==
    /\ att[c] = "uploading"
    /\ att' = [att EXCEPT ![c] = "published"]
    /\ pending' = pending \cup {c}
    /\ UNCHANGED <<dbVars, snap, shared, completedId, completed, noteVars, store, jmVars, inbox>>

\* Fault: reused handles are discarded with the created ones.
Reclaim_DiscardsReused(c) ==
    /\ att' = [att EXCEPT ![c] = "reclaimed"]
    /\ store' = store \ References(c)

\* What resources.close() does for an attempt that is not published: discard
\* what it created, and forget its reuse map.
Reclaim(c) ==
    /\ att' = [att EXCEPT ![c] = "reclaimed"]
    /\ store' = store \ {<<c, f>> : f \in Files}

\* The upload fails or is cancelled.
Fail(c) ==
    /\ att[c] \in {"staged", "uploading"}
    /\ Reclaim(c)
    /\ pending' = pending \ {c}
    /\ UNCHANGED <<dbVars, snap, shared, completedId, completed, noteVars, jmVars, inbox>>

NotifyComplete(c) ==
    /\ <<"complete", c>> \in inbox
    /\ inbox' = inbox \ {<<"complete", c>>}
    /\ IF c \in pending /\ c > completedId
       THEN completedId' = c /\ completed' = shared[c]
       ELSE UNCHANGED <<completedId, completed>>
    /\ pending' = {d \in pending : d > c}
    /\ delivered' = delivered \cup {c}
    /\ UNCHANGED <<dbVars, attemptVars, notified, store, jmVars>>

\* Flink cancels the asynchronous part before it notifies the backend.
NotifyAborted(c) ==
    /\ <<"abort", c>> \in inbox
    /\ inbox' = inbox \ {<<"abort", c>>}
    /\ IF att[c] \in {"staged", "uploading"} THEN Reclaim(c) ELSE UNCHANGED <<att, store>>
    /\ pending' = pending \ {c}
    /\ notified' = notified \cup {c}
    /\ UNCHANGED <<dbVars, snap, shared, completedId, completed, delivered, jmVars>>

NotifySubsumed(c) ==
    /\ <<"subsume", c>> \in inbox
    /\ inbox' = inbox \ {<<"subsume", c>>}
    /\ pending' = {d \in pending : d > c}
    /\ notified' = notified \cup {c}
    /\ UNCHANGED <<dbVars, attemptVars, completedId, completed, delivered, store, jmVars>>

\* Failover: a new backend, with no reuse map, over the files of the latest
\* completed checkpoint.  The JobManager gives up what was in progress.
Restart ==
    /\ incarnation < MaxIncarnation
    /\ incarnation' = incarnation + 1
    /\ live' = IF Latest = 0 THEN NoFiles ELSE snap[Latest]
    /\ used' = {f \in Files : live'[f] # 0}
    /\ att' = [c \in Ids |-> IF att[c] \in {"staged", "uploading"} THEN "reclaimed" ELSE att[c]]
    /\ pending' = {} /\ completedId' = 0 /\ completed' = NoFiles
    /\ delivered' = {} /\ notified' = {} /\ inbox' = {}
    /\ jm' = [c \in Ids |-> IF jm[c] = "triggered" THEN "aborted" ELSE jm[c]]
    /\ UNCHANGED <<snap, shared, store, registered>>

-----------------------------------------------------------------------------
\* The JobManager (external)

\* A registered object is unused once only older checkpoints refer to it.
Unused(c) ==
    {h \in UNION {References(d) : d \in registered} :
        \A d \in registered \cup {c} : h \in References(d) => d < c}

Acknowledge(c) ==
    /\ att[c] = "published" /\ c \notin registered
    /\ registered' = registered \cup {c}
    /\ IF jm[c] = "triggered"
       THEN /\ jm' = [jm EXCEPT ![c] = "completed"]
            /\ store' = store \ Unused(c)
            /\ inbox' = inbox \cup {<<"complete", c>>}
                              \cup (IF Latest = 0 THEN {} ELSE {<<"subsume", Latest>>})
       ELSE UNCHANGED <<jm, store, inbox>>
    /\ UNCHANGED <<dbVars, attemptVars, reuseVars, noteVars>>

Abort(c) ==
    /\ jm[c] = "triggered"
    /\ jm' = [jm EXCEPT ![c] = "aborted"]
    /\ inbox' = inbox \cup {<<"abort", c>>}
    /\ UNCHANGED <<dbVars, attemptVars, reuseVars, noteVars, store, registered>>

\* A notification that never reaches the task.
Lose(note) ==
    /\ note \in inbox /\ (note[1] = "complete" => LateCompletions)
    /\ inbox' = inbox \ {note}
    /\ UNCHANGED <<dbVars, attemptVars, reuseVars, noteVars, store, jmVars>>

-----------------------------------------------------------------------------

Next ==
    \/ \E f \in Files : WriteFile(f) \/ DropFile(f)
    \/ \E c \in Ids : \/ Snapshot(c) \/ Publish(c) \/ Fail(c)
                      \/ \E refused \in SUBSET Files : Upload(c, refused)
                      \/ NotifyComplete(c) \/ NotifyAborted(c) \/ NotifySubsumed(c)
                      \/ Acknowledge(c) \/ Abort(c)
    \/ \E note \in inbox : Lose(note)
    \/ Restart

Spec == Init /\ [][Next]_vars

-----------------------------------------------------------------------------
\* Properties

Notes == {"complete", "abort", "subsume"} \X Ids

\* Every variable has its type; a file name is live only if it has been used,
\* and only a published attempt has an entry in pendingSharedFiles.
TypeOK ==
    /\ incarnation \in 1 .. MaxIncarnation
    /\ live \in [Files -> Contents] /\ used \in SUBSET Files
    /\ \A f \in Files : live[f] # 0 => f \in used
    /\ att \in [Ids -> {"none", "staged", "uploading", "published", "reclaimed"}]
    /\ snap \in [Ids -> [Files -> Contents]]
    /\ shared \in [Ids -> [Files -> 0 .. MaxCheckpoint]]
    /\ pending \in SUBSET {c \in Ids : att[c] = "published"}
    /\ completedId \in 0 .. MaxCheckpoint
    /\ completed \in [Files -> 0 .. MaxCheckpoint]
    /\ delivered \in SUBSET Ids /\ notified \in SUBSET Ids
    /\ store \in SUBSET (Ids \X Files)
    /\ jm \in [Ids -> {"none", "triggered", "completed", "aborted"}]
    /\ registered \in SUBSET Ids /\ inbox \in SUBSET Notes

\* The latest completed checkpoint can be restored: every file of its local
\* snapshot has an object in storage with that file's content, although some
\* objects were uploaded by earlier checkpoints, attempts fail and are
\* reclaimed next to it, and file names come back after a failover.
LatestRestorable ==
    Latest # 0 =>
        \A f \in Files : snap[Latest][f] # 0 =>
            LET k == shared[Latest][f] IN
            /\ k # 0 /\ <<k, f>> \in store
            /\ snap[k][f] = snap[Latest][f]

\* The reuse base is the file map of a checkpoint that completed.
BaseIsCompleted ==
    completedId # 0 => jm[completedId] = "completed" /\ completed = shared[completedId]

\* A checkpoint the backend has been told the end of leaves no reuse map
\* behind, however late its upload was.
NoEntryAfterNotice == pending \cap (delivered \cup notified) = {}

\* A completion the backend has been told of is in effect: the base is that
\* checkpoint or a later one, so the next attempt reuses its files.
CompletionInstalled == \A c \in delivered : c <= completedId

\* The reuse maps follow the job manager, however late and in whatever order
\* completions, abortions and uploads arrive: the base is a completed checkpoint,
\* and no map is kept for a checkpoint whose end the backend was told of.
ReuseMapsAreCurrent == BaseIsCompleted /\ NoEntryAfterNotice

\* While completions arrive before the next attempt reads its base, the newest
\* completed checkpoint can be restored and every completion takes effect.
ReuseIsSafe == LatestRestorable /\ CompletionInstalled

-----------------------------------------------------------------------------
(***************************************************************************)
(* The reuse of SST files between checkpoints, for any set of files and    *)
(* any number of checkpoints and failovers.                                *)
(*                                                                         *)
(* MapsInv holds however late completions are: it follows checkpoints      *)
(* through the JobManager (one at a time, so everything before the one     *)
(* under way has ended) and through the task, and gives                    *)
(* ReuseMapsAreCurrent.  ReuseInv adds, while completions arrive before    *)
(* the next attempt reads its base, that the base is the latest completed  *)
(* checkpoint, that a file name has one content in all checkpoints of an   *)
(* incarnation, and that what a checkpoint refers to belongs to an attempt *)
(* that will not be reclaimed; it gives ReuseIsSafe.                       *)
(***************************************************************************)

Ended(c) == jm[c] \in {"completed", "aborted"}
Uploaded(c) == att[c] \in {"uploading", "published"}

\* Checkpoints are triggered one after the other, and what the JobManager and the
\* notifications under way say of one agrees with its attempt.
JobManagerInv ==
    /\ \A c, d \in Ids : c < d /\ jm[d] # "none" => Ended(c)
    /\ \A c \in Ids : jm[c] = "none" <=> att[c] = "none"
    /\ \A c \in Ids : jm[c] = "completed" => att[c] = "published"
    /\ \A c \in registered : att[c] = "published"
    /\ \A c \in Ids : <<"complete", c>> \in inbox \/ <<"subsume", c>> \in inbox => jm[c] = "completed"
    /\ \A c \in Ids : <<"abort", c>> \in inbox => jm[c] = "aborted"
    /\ Completed # {} => \E m \in Completed : \A d \in Completed : d <= m

\* What the backend has been told, and the base it keeps.
NoticeInv ==
    /\ \A c \in delivered : jm[c] = "completed"
    /\ \A c \in notified : att[c] \in {"published", "reclaimed"}
    /\ completedId = 0 => completed = NoFiles
    /\ ReuseMapsAreCurrent

MapsInv == TypeOK /\ JobManagerInv /\ NoticeInv

\* The checkpoints of this incarnation that matter to its attempts.
Current(c) == jm[c] = "triggered" \/ c = completedId \/ <<"complete", c>> \in inbox

\* Every file of the local snapshot has an object with its content.
Restorable(c) ==
    \A f \in Files : snap[c][f] # 0 =>
        /\ shared[c][f] \in Ids /\ <<shared[c][f], f>> \in store
        /\ snap[shared[c][f]][f] = snap[c][f]

\* A name is given to one content only, in one incarnation.
NamesInv ==
    \A f \in Files, c \in Ids : Current(c) /\ snap[c][f] # 0 =>
        /\ f \in used
        /\ live[f] # 0 => live[f] = snap[c][f]
        /\ \A d \in Ids : Current(d) /\ snap[d][f] # 0 => snap[d][f] = snap[c][f]

\* An attempt refers only to files of its snapshot, in objects of its own or of a
\* published attempt.
ReferenceInv ==
    \A c \in Ids, f \in Files : shared[c][f] # 0 =>
        /\ att[c] # "none" /\ snap[c][f] # 0
        /\ shared[c][f] # c => att[shared[c][f]] = "published"

\* The only completion under way is the latest, which is still to be installed; an
\* attempt that has read its base did so after it was.
BaseInv ==
    /\ \A c \in Ids : <<"complete", c>> \in inbox => c = Latest /\ c \in pending /\ c > completedId
    /\ \A c \in Ids : <<"subsume", c>> \in inbox => c < Latest
    /\ completedId # 0 => completedId = Latest \/ <<"complete", Latest>> \in inbox
    /\ \A c \in Ids : jm[c] = "triggered" /\ Uploaded(c) =>
           \A d \in Ids : <<"complete", d>> \notin inbox
    /\ \A c \in Ids : jm[c] = "triggered" /\ att[c] = "published" => c \in pending
    /\ CompletionInstalled

StoreInv ==
    /\ Latest # 0 => Restorable(Latest)
    /\ \A c \in Ids : jm[c] = "triggered" /\ Uploaded(c) => Restorable(c)

ReuseInv == MapsInv /\ NamesInv /\ ReferenceInv /\ BaseInv /\ StoreInv

\* A leaf is tried with SMT, with Zenon, and then with SMT for longer.
USE SMT, Zenon, SMTT(20), SMTT(40)

USE DEF Ended, Uploaded, ReuseMapsAreCurrent

\* Ids are the positive numbers up to the bound; 0 stands for no checkpoint.
LEMMA IdFacts ==
    /\ \A c \in Ids : c \in Nat /\ c > 0 /\ c # 0 /\ c \in 0 .. MaxCheckpoint
    /\ \A k \in 0 .. MaxCheckpoint : k # 0 => k \in Ids
    /\ 0 \in 0 .. MaxCheckpoint
  BY BoundsAssumption DEF Ids

LEMMA ContentFacts ==
    /\ 0 \in Contents
    /\ \A i \in 1 .. MaxIncarnation : i \in Contents /\ i # 0
  BY BoundsAssumption DEF Contents

-----------------------------------------------------------------------------
\* The latest completed checkpoint

\* Latest is the greatest completed checkpoint, when there is one.
LEMMA LatestIsGreatest ==
    ASSUME NEW m \in Completed, \A d \in Completed : d <= m
    PROVE  Latest = m
<1>1. m \in Nat /\ \A d \in Completed : d \in Nat
  BY IdFacts DEF Completed
<1>2. ASSUME NEW x \in Completed, \A y \in Completed : x >= y PROVE x = m
  BY <1>1, <1>2
<1>3. Max(Completed) = m
  BY <1>1, <1>2, Zenon DEF Max
<1> QED
  BY <1>3 DEF Latest

LEMMA LatestCompleted ==
    ASSUME TypeOK, JobManagerInv
    PROVE  /\ Latest = 0 <=> Completed = {}
           /\ Latest # 0 => Latest \in Ids /\ jm[Latest] = "completed"
           /\ \A d \in Completed : d <= Latest
<1>1. CASE Completed = {}
  BY <1>1 DEF Latest
<1>2. CASE Completed # {}
  <2> PICK m \in Completed : \A d \in Completed : d <= m
    BY <1>2 DEF JobManagerInv
  <2>1. Latest = m
    BY LatestIsGreatest
  <2> QED
    BY <1>2, <2>1, IdFacts DEF Completed
<1> QED
  BY <1>1, <1>2

-----------------------------------------------------------------------------
\* The reuse maps

LEMMA MapsInit == Init => MapsInv
<1> SUFFICES ASSUME Init PROVE MapsInv
  OBVIOUS
<1>1. TypeOK
  BY BoundsAssumption, IdFacts, ContentFacts DEF Init, TypeOK, NoFiles
<1>2. Completed = {}
  BY DEF Init, Completed
<1> QED
  BY <1>1, <1>2 DEF Init, MapsInv, JobManagerInv, NoticeInv, BaseIsCompleted, NoEntryAfterNotice

LEMMA MapsStep == MapsInv /\ [Next]_vars => MapsInv'
<1> SUFFICES ASSUME MapsInv, [Next]_vars PROVE MapsInv'
  OBVIOUS
<1> USE IdFacts DEF MapsInv, dbVars, attemptVars, reuseVars, noteVars, jmVars
<1>1. ASSUME NEW f \in Files, WriteFile(f) PROVE MapsInv'
  <2>1. TypeOK'
    <3>1. live' \in [Files -> Contents] /\ used' \in SUBSET Files
      BY <1>1, ContentFacts DEF TypeOK, WriteFile
    <3>2. \A g \in Files : live'[g] # 0 => g \in used'
      BY <1>1 DEF TypeOK, WriteFile
    <3> QED
      BY <1>1, <3>1, <3>2 DEF TypeOK, WriteFile
  <2> QED
    BY <1>1, <2>1 DEF WriteFile, JobManagerInv, NoticeInv, BaseIsCompleted, NoEntryAfterNotice,
       Completed
<1>2. ASSUME NEW f \in Files, DropFile(f) PROVE MapsInv'
  <2>1. TypeOK'
    <3>1. live' \in [Files -> Contents]
      BY <1>2, ContentFacts DEF TypeOK, DropFile
    <3>2. \A g \in Files : live'[g] # 0 => g \in used'
      BY <1>2 DEF TypeOK, DropFile
    <3> QED
      BY <1>2, <3>1, <3>2 DEF TypeOK, DropFile
  <2> QED
    BY <1>2, <2>1 DEF DropFile, JobManagerInv, NoticeInv, BaseIsCompleted, NoEntryAfterNotice,
       Completed
<1>3. ASSUME NEW c \in Ids, Snapshot(c) PROVE MapsInv'
  <2>1. TypeOK'
    <3>1. att[c] = "none" /\ c \notin pending
      BY <1>3 DEF TypeOK, Snapshot, JobManagerInv
    <3>2. pending \in SUBSET {d \in Ids : att'[d] = "published"}
      BY <1>3, <3>1 DEF TypeOK, Snapshot
    <3>3. snap' \in [Ids -> [Files -> Contents]]
      BY <1>3 DEF TypeOK, Snapshot
    <3>4. /\ att' \in [Ids -> {"none", "staged", "uploading", "published", "reclaimed"}]
          /\ jm' \in [Ids -> {"none", "triggered", "completed", "aborted"}]
      BY <1>3 DEF TypeOK, Snapshot
    <3> QED
      BY <1>3, <3>2, <3>3, <3>4 DEF TypeOK, Snapshot
  <2>2. Completed' = Completed
    BY <1>3 DEF TypeOK, Snapshot, Completed
  <2>3. JobManagerInv'
    BY <1>3, <2>2 DEF TypeOK, Snapshot, JobManagerInv
  <2>4. NoticeInv'
    BY <1>3 DEF TypeOK, Snapshot, JobManagerInv, NoticeInv, BaseIsCompleted, NoEntryAfterNotice
  <2> QED
    BY <2>1, <2>3, <2>4
<1>4. ASSUME NEW c \in Ids, NEW refused \in SUBSET Files, Upload(c, refused) PROVE MapsInv'
  <2>1. TypeOK'
    <3>1. /\ att' \in [Ids -> {"none", "staged", "uploading", "published", "reclaimed"}]
          /\ pending \in SUBSET {d \in Ids : att'[d] = "published"}
      BY <1>4 DEF TypeOK, Upload
    <3>2. shared' \in [Ids -> [Files -> 0 .. MaxCheckpoint]]
      <4>1. shared' = [shared EXCEPT ![c] = shared'[c]]
        BY <1>4 DEF TypeOK, Upload
      <4>2. shared'[c] \in [Files -> 0 .. MaxCheckpoint]
        BY <1>4 DEF TypeOK, Upload
      <4> QED
        BY <4>1, <4>2 DEF TypeOK
    <3>3. store' \in SUBSET (Ids \X Files)
      <4> DEFINE Created == {g \in Files : shared'[c][g] = c}
      <4>1. store' = store \cup {<<c, f>> : f \in Created} /\ Created \subseteq Files
        BY <1>4 DEF Upload
      <4> HIDE DEF Created
      <4> QED
        BY <4>1 DEF TypeOK
    <3> QED
      BY <1>4, <3>1, <3>2, <3>3, Zenon DEF TypeOK, Upload
  <2>2. JobManagerInv'
    BY <1>4 DEF TypeOK, Upload, JobManagerInv, Completed
  <2>3. NoticeInv'
    BY <1>4 DEF TypeOK, Upload, JobManagerInv, NoticeInv, BaseIsCompleted, NoEntryAfterNotice
  <2> QED
    BY <2>1, <2>2, <2>3
<1>5. ASSUME NEW c \in Ids, Publish(c) PROVE MapsInv'
  <2>1. TypeOK'
    BY <1>5 DEF TypeOK, Publish
  <2>2. JobManagerInv'
    BY <1>5 DEF TypeOK, Publish, JobManagerInv, Completed
  <2>3. NoticeInv'
    BY <1>5 DEF TypeOK, Publish, JobManagerInv, NoticeInv, BaseIsCompleted, NoEntryAfterNotice
  <2> QED
    BY <2>1, <2>2, <2>3
<1>6. ASSUME NEW c \in Ids, Fail(c) PROVE MapsInv'
  <2>1. TypeOK'
    BY <1>6 DEF TypeOK, Fail, Reclaim
  <2>2. JobManagerInv'
    BY <1>6 DEF TypeOK, Fail, Reclaim, JobManagerInv, Completed
  <2>3. NoticeInv'
    BY <1>6 DEF TypeOK, Fail, Reclaim, JobManagerInv, NoticeInv, BaseIsCompleted, NoEntryAfterNotice
  <2> QED
    BY <2>1, <2>2, <2>3
<1>7. ASSUME NEW c \in Ids, NotifyComplete(c) PROVE MapsInv'
  <2>1. TypeOK'
    <3>1. completedId' \in 0 .. MaxCheckpoint /\ completed' \in [Files -> 0 .. MaxCheckpoint]
      BY <1>7 DEF TypeOK, NotifyComplete
    <3> QED
      BY <1>7, <3>1 DEF TypeOK, NotifyComplete
  <2>2. JobManagerInv'
    BY <1>7 DEF TypeOK, NotifyComplete, JobManagerInv, Completed
  <2>3. NoticeInv'
    <3>1. jm[c] = "completed" /\ jm' = jm /\ shared' = shared
      BY <1>7, Zenon DEF NotifyComplete, JobManagerInv
    <3>2. BaseIsCompleted' /\ (completedId' = 0 => completed' = NoFiles)
      BY <1>7, <3>1 DEF NotifyComplete, NoticeInv, BaseIsCompleted
    <3>3. pending' \subseteq pending \ {c}
      BY <1>7 DEF TypeOK, NotifyComplete
    <3>4. NoEntryAfterNotice'
      BY <1>7, <3>3 DEF NotifyComplete, NoticeInv, NoEntryAfterNotice
    <3>5. (\A d \in delivered' : jm'[d] = "completed") /\ att' = att /\ notified' = notified
      BY <1>7, <3>1 DEF NotifyComplete, NoticeInv
    <3> QED
      BY <3>2, <3>4, <3>5 DEF NoticeInv
  <2> QED
    BY <2>1, <2>2, <2>3
<1>8. ASSUME NEW c \in Ids, NotifyAborted(c) PROVE MapsInv'
  <2>1. TypeOK'
    BY <1>8, Zenon DEF TypeOK, NotifyAborted, Reclaim
  <2>2. JobManagerInv'
    BY <1>8 DEF TypeOK, NotifyAborted, Reclaim, JobManagerInv, Completed
  <2>3. NoticeInv'
    BY <1>8 DEF TypeOK, NotifyAborted, Reclaim, JobManagerInv, NoticeInv, BaseIsCompleted,
       NoEntryAfterNotice
  <2> QED
    BY <2>1, <2>2, <2>3
<1>9. ASSUME NEW c \in Ids, NotifySubsumed(c) PROVE MapsInv'
  <2>1. TypeOK'
    BY <1>9 DEF TypeOK, NotifySubsumed
  <2>2. JobManagerInv'
    BY <1>9 DEF TypeOK, NotifySubsumed, JobManagerInv, Completed
  <2>3. NoticeInv'
    <3>1. att[c] = "published"
      BY <1>9, Zenon DEF NotifySubsumed, JobManagerInv
    <3>2. pending' \subseteq pending \ {c}
      BY <1>9 DEF TypeOK, NotifySubsumed
    <3>3. NoEntryAfterNotice'
      BY <1>9, <3>2 DEF NotifySubsumed, NoticeInv, NoEntryAfterNotice
    <3> QED
      BY <1>9, <3>1, <3>3 DEF NotifySubsumed, NoticeInv, BaseIsCompleted
  <2> QED
    BY <2>1, <2>2, <2>3
<1>10. ASSUME Restart PROVE MapsInv'
  <2>1. Latest # 0 => Latest \in Ids
    BY LatestCompleted
  <2>2. TypeOK'
    <3>1. live' \in [Files -> Contents]
      BY <1>10, <2>1, ContentFacts DEF TypeOK, Restart, NoFiles
    <3>2. used' \in SUBSET Files /\ \A f \in Files : live'[f] # 0 => f \in used'
      BY <1>10 DEF Restart
    <3>3. /\ att' \in [Ids -> {"none", "staged", "uploading", "published", "reclaimed"}]
          /\ jm' \in [Ids -> {"none", "triggered", "completed", "aborted"}]
      BY <1>10 DEF TypeOK, Restart
    <3>4. completed' \in [Files -> 0 .. MaxCheckpoint] /\ completedId' \in 0 .. MaxCheckpoint
      BY <1>10 DEF Restart, NoFiles
    <3>5. incarnation' \in 1 .. MaxIncarnation
      BY <1>10, BoundsAssumption DEF TypeOK, Restart
    <3> QED
      BY <1>10, <3>1, <3>2, <3>3, <3>4, <3>5 DEF TypeOK, Restart
  <2>3. Completed' = Completed
    BY <1>10 DEF TypeOK, Restart, Completed
  <2>4. JobManagerInv'
    BY <1>10, <2>3 DEF TypeOK, Restart, JobManagerInv
  <2>5. NoticeInv'
    BY <1>10 DEF Restart, NoticeInv, BaseIsCompleted, NoEntryAfterNotice
  <2> QED
    BY <2>2, <2>4, <2>5
<1>11. ASSUME NEW c \in Ids, Acknowledge(c) PROVE MapsInv'
  <2>1. TypeOK'
    <3>1. Latest # 0 => Latest \in Ids
      BY LatestCompleted
    <3>2. inbox' \in SUBSET Notes
      BY <1>11, <3>1 DEF TypeOK, Acknowledge, Notes
    <3>3. /\ jm' \in [Ids -> {"none", "triggered", "completed", "aborted"}]
          /\ store' \in SUBSET (Ids \X Files) /\ registered' \in SUBSET Ids
      BY <1>11, Zenon DEF TypeOK, Acknowledge
    <3> QED
      BY <1>11, <3>2, <3>3 DEF TypeOK, Acknowledge
  <2>2. JobManagerInv'
    <3>1. CASE jm[c] = "triggered"
      <4>1. Completed' = Completed \cup {c} /\ \A d \in Completed : d < c
        <5>1. jm' = [jm EXCEPT ![c] = "completed"]
          BY <1>11, <3>1 DEF Acknowledge
        <5>2. Completed' = Completed \cup {c}
          BY <5>1 DEF TypeOK, Completed
        <5>3. ASSUME NEW d \in Completed PROVE d < c
          BY <3>1, <5>3 DEF JobManagerInv, Completed
        <5> QED
          BY <5>2, <5>3
      <4>2. \A d \in Completed' : d <= c
        BY <4>1 DEF Completed
      <4>3. Latest # 0 => Latest \in Ids /\ jm[Latest] = "completed"
        BY LatestCompleted
      <4>4. c \in Completed' /\ \A d \in Ids : jm'[d] = IF d = c THEN "completed" ELSE jm[d]
        BY <1>11, <3>1, <4>1 DEF TypeOK, Acknowledge
      <4>5. \A d \in Ids : <<"complete", d>> \in inbox' \/ <<"subsume", d>> \in inbox'
                => jm'[d] = "completed"
        BY <1>11, <3>1, <4>3, <4>4 DEF Acknowledge, JobManagerInv
      <4>6. \A d \in Ids : <<"abort", d>> \in inbox' => jm'[d] = "aborted"
        BY <1>11, <3>1, <4>4 DEF Acknowledge, JobManagerInv
      <4> QED
        BY <1>11, <3>1, <4>2, <4>4, <4>5, <4>6 DEF Acknowledge, JobManagerInv
    <3>2. CASE jm[c] # "triggered"
      BY <1>11, <3>2 DEF TypeOK, Acknowledge, JobManagerInv, Completed
    <3> QED
      BY <3>1, <3>2
  <2>3. NoticeInv'
    BY <1>11 DEF TypeOK, Acknowledge, NoticeInv, BaseIsCompleted, NoEntryAfterNotice
  <2> QED
    BY <2>1, <2>2, <2>3
<1>12. ASSUME NEW c \in Ids, Abort(c) PROVE MapsInv'
  <2>1. TypeOK'
    BY <1>12 DEF TypeOK, Abort, Notes
  <2>2. Completed' = Completed
    BY <1>12 DEF TypeOK, Abort, Completed
  <2>3. JobManagerInv'
    BY <1>12, <2>2 DEF TypeOK, Abort, JobManagerInv
  <2>4. NoticeInv'
    BY <1>12 DEF TypeOK, Abort, NoticeInv, BaseIsCompleted, NoEntryAfterNotice
  <2> QED
    BY <2>1, <2>3, <2>4
<1>13. ASSUME NEW note \in inbox, Lose(note) PROVE MapsInv'
  <2>1. inbox' \subseteq inbox
    BY <1>13 DEF Lose
  <2>2. TypeOK'
    BY <1>13, <2>1 DEF TypeOK, Lose
  <2>3. JobManagerInv'
    BY <1>13, <2>1 DEF Lose, JobManagerInv, Completed
  <2>4. NoticeInv'
    BY <1>13 DEF Lose, NoticeInv, BaseIsCompleted, NoEntryAfterNotice
  <2> QED
    BY <2>2, <2>3, <2>4
<1>14. ASSUME UNCHANGED vars PROVE MapsInv'
  <2>1. TypeOK' /\ JobManagerInv'
    BY <1>14 DEF vars, TypeOK, JobManagerInv, Completed
  <2>2. NoticeInv'
    BY <1>14 DEF vars, NoticeInv, BaseIsCompleted, NoEntryAfterNotice
  <2> QED
    BY <2>1, <2>2
<1> QED
  BY <1>1, <1>2, <1>3, <1>4, <1>5, <1>6, <1>7, <1>8, <1>9, <1>10, <1>11, <1>12, <1>13, <1>14 DEF Next

\* However late and in whatever order completions, abortions and uploads arrive, or
\* if they are lost: the base of reuse is the file map of a completed checkpoint,
\* and no map is kept for a checkpoint whose end the backend was told of.
THEOREM MapsAreCurrent == Spec => []ReuseMapsAreCurrent
<1>1. MapsInv => ReuseMapsAreCurrent
  BY DEF MapsInv, NoticeInv
<1> QED
  BY <1>1, MapsInit, MapsStep, PTL DEF Spec

-----------------------------------------------------------------------------
\* Reuse while completions arrive in time: what a step leaves alone

USE DEF dbVars, attemptVars, reuseVars, noteVars, jmVars

LEMMA LatestKept == ASSUME Completed' = Completed PROVE Latest' = Latest
  BY DEF Latest

LEMMA NamesKept ==
    ASSUME NamesInv, UNCHANGED <<snap, used, live>>, \A c \in Ids : Current(c)' => Current(c)
    PROVE  NamesInv'
  BY DEF NamesInv

LEMMA ReferencesKept ==
    ASSUME TypeOK, ReferenceInv, UNCHANGED <<snap, shared>>,
           \A c \in Ids : /\ att[c] # "none" => att'[c] # "none"
                          /\ att[c] = "published" => att'[c] = "published"
    PROVE  ReferenceInv'
<1>1. \A c \in Ids, f \in Files : shared[c][f] # 0 => shared[c][f] \in Ids
  BY IdFacts DEF TypeOK
<1> QED
  BY <1>1 DEF ReferenceInv

\* Objects that are not discarded keep a checkpoint restorable.
LEMMA RestorableKept ==
    ASSUME NEW c \in Ids, Restorable(c), UNCHANGED <<snap, shared>>,
           \A f \in Files : <<shared[c][f], f>> \in store => <<shared[c][f], f>> \in store'
    PROVE  Restorable(c)'
  BY DEF Restorable

\* What the latest checkpoint, and the one under way, refer to belongs to an attempt
\* that is published or is the one under way itself.
LEMMA OwnersStay ==
    ASSUME MapsInv, ReferenceInv, StoreInv, NEW c \in Ids, NEW d \in Ids,
           c = Latest \/ (jm[c] = "triggered" /\ Uploaded(c)), c # d, att[d] # "published",
           NEW f \in Files, shared[c][f] # 0
    PROVE  shared[c][f] # d
<1>1. c = Latest => att[c] = "published"
  BY LatestCompleted, IdFacts DEF MapsInv, JobManagerInv
<1> QED
  BY <1>1 DEF ReferenceInv

\* A step that changes no checkpoint's state at the JobManager, no snapshot and no
\* references, and discards at most the objects of an unpublished attempt.
LEMMA StoreKept ==
    ASSUME MapsInv, ReferenceInv, StoreInv, UNCHANGED <<jm, snap, shared>>, NEW d \in Ids,
           \A c \in Ids : Uploaded(c)' => Uploaded(c),
           \/ store' = store
           \/ /\ store' = store \ {<<d, f>> : f \in Files}
              /\ att[d] # "published" /\ ~Uploaded(d)'
    PROVE  StoreInv'
<1>1. Latest' = Latest /\ (Latest # 0 => Latest \in Ids /\ att[Latest] = "published")
  BY LatestKept, LatestCompleted DEF Completed, MapsInv, JobManagerInv
<1>2. ASSUME NEW c \in Ids, c = Latest \/ (jm[c] = "triggered" /\ Uploaded(c)'), Restorable(c)
      PROVE  Restorable(c)'
  <2>1. CASE store' = store
    BY <1>2, <2>1, RestorableKept
  <2>2. CASE /\ store' = store \ {<<d, f>> : f \in Files}
             /\ att[d] # "published" /\ ~Uploaded(d)'
    <3>1. c # d
      BY <1>1, <1>2, <2>2, IdFacts
    <3>2. ASSUME NEW f \in Files, snap[c][f] # 0 PROVE shared[c][f] # d
      BY <1>2, <2>2, <3>1, <3>2, OwnersStay, IdFacts DEF Restorable
    <3>3. \A f \in Files : snap[c][f] # 0 => <<shared[c][f], f>> \in store'
      BY <1>2, <2>2, <3>2 DEF Restorable
    <3> QED
      BY <1>2, <3>3 DEF Restorable
  <2> QED
    BY <2>1, <2>2
<1> QED
  BY <1>1, <1>2 DEF StoreInv

\* With a base there is a latest completed checkpoint.
LEMMA BaseHasLatest ==
    ASSUME MapsInv, completedId # 0 PROVE Latest # 0 /\ Latest \in Ids
<1>1. completedId \in Completed
  BY IdFacts DEF MapsInv, TypeOK, NoticeInv, BaseIsCompleted, Completed
<1> QED
  BY <1>1, LatestCompleted DEF MapsInv

LEMMA ReuseInit == Init => ReuseInv
<1> SUFFICES ASSUME Init PROVE ReuseInv
  OBVIOUS
<1>1. MapsInv
  BY MapsInit
<1>2. Completed = {} /\ Latest = 0
  BY DEF Init, Completed, Latest
<1>3. NamesInv /\ ReferenceInv
  BY IdFacts DEF Init, NamesInv, Current, ReferenceInv, NoFiles
<1> QED
  BY <1>1, <1>2, <1>3 DEF Init, ReuseInv, BaseInv, StoreInv, CompletionInstalled

-----------------------------------------------------------------------------
\* Reuse while completions arrive in time: one lemma per action

LEMMA WriteFileStep ==
    ASSUME ReuseInv, MapsInv', NEW f \in Files, WriteFile(f) \/ DropFile(f) PROVE ReuseInv'
<1> USE DEF ReuseInv, MapsInv
<1>1. Completed' = Completed /\ Latest' = Latest
  BY LatestKept, Zenon DEF WriteFile, DropFile, Completed
<1>2. NamesInv'
  <2>1. \A c \in Ids : Current(c)' => Current(c)
    BY DEF WriteFile, DropFile, Current
  <2>2. \A c \in Ids, g \in Files : Current(c) /\ snap[c][g] # 0 => f \in used \/ f # g
    BY DEF NamesInv
  <2> QED
    BY <2>1, <2>2 DEF WriteFile, DropFile, NamesInv, TypeOK
<1>3. ReferenceInv'
  BY ReferencesKept DEF WriteFile, DropFile
<1>4. UNCHANGED <<jm, att, snap, shared, pending, completedId, delivered, store, inbox>>
  BY DEF WriteFile, DropFile
<1>5. BaseInv'
  BY <1>1, <1>4 DEF BaseInv, CompletionInstalled
<1>6. \A c \in Ids : Restorable(c)' <=> Restorable(c)
  BY <1>4 DEF Restorable
<1>7. StoreInv'
  BY <1>1, <1>4, <1>6, LatestCompleted DEF StoreInv
<1> QED
  BY <1>2, <1>3, <1>5, <1>7

LEMMA SnapshotStep ==
    ASSUME ReuseInv, MapsInv', NEW c \in Ids, Snapshot(c) PROVE ReuseInv'
<1> USE DEF ReuseInv, MapsInv
<1>1. Completed' = Completed /\ Latest' = Latest
  BY LatestKept DEF Snapshot, Completed, TypeOK
<1>2. /\ att[c] = "none" /\ att'[c] = "staged" /\ jm'[c] = "triggered" /\ snap'[c] = live
      /\ \A d \in Ids : d # c => att'[d] = att[d] /\ jm'[d] = jm[d] /\ snap'[d] = snap[d]
  <2>1. att[c] = "none"
    BY DEF Snapshot, JobManagerInv
  <2>2. /\ DOMAIN att = Ids /\ DOMAIN jm = Ids /\ DOMAIN snap = Ids
    BY DEF TypeOK
  <2>3. /\ att' = [att EXCEPT ![c] = "staged"] /\ jm' = [jm EXCEPT ![c] = "triggered"]
        /\ snap' = [snap EXCEPT ![c] = live]
    BY DEF Snapshot
  <2> HIDE DEF ReuseInv, MapsInv
  <2> QED
    BY <2>1, <2>2, <2>3
<1>3. NamesInv'
  <2>1. \A d \in Ids : Current(d)' /\ d # c => Current(d)
    BY <1>2 DEF Snapshot, Current
  <2>2. \A f \in Files : live[f] # 0 => f \in used
    BY DEF TypeOK
  <2>3. used' = used /\ live' = live
    BY Zenon DEF Snapshot
  <2>4. ASSUME NEW d \in Ids, NEW f \in Files, Current(d)', snap'[d][f] # 0
        PROVE  f \in used /\ (live[f] # 0 => live[f] = snap'[d][f])
    <3>1. CASE d = c
      BY <1>2, <2>2, <2>4, <3>1
    <3>2. CASE d # c
      BY <1>2, <2>1, <2>4, <3>2 DEF NamesInv
    <3> QED
      BY <3>1, <3>2
  <2>5. ASSUME NEW d \in Ids, NEW e \in Ids, NEW f \in Files,
               Current(d)', Current(e)', snap'[d][f] # 0, snap'[e][f] # 0
        PROVE  snap'[e][f] = snap'[d][f]
    <3>1. CASE d = c \/ e = c
      BY <1>2, <2>4, <2>5, <3>1
    <3>2. CASE d # c /\ e # c
      BY <1>2, <2>1, <2>5, <3>2 DEF NamesInv
    <3> QED
      BY <3>1, <3>2
  <2> HIDE DEF ReuseInv, MapsInv
  <2> QED
    BY <2>3, <2>4, <2>5 DEF NamesInv
<1>4. ReferenceInv'
  <2>1. \A d \in Ids, f \in Files : shared[d][f] # 0 => shared[d][f] \in Ids
    BY IdFacts DEF TypeOK
  <2> QED
    BY <1>2, <2>1 DEF Snapshot, ReferenceInv
<1>5. BaseInv'
  BY <1>1, <1>2 DEF Snapshot, BaseInv, CompletionInstalled
<1>6. StoreInv'
  <2>1. Latest # 0 => Latest \in Ids /\ att[Latest] = "published"
    BY LatestCompleted, Zenon DEF JobManagerInv
  <2>2. ASSUME NEW d \in Ids, d = Latest \/ (jm[d] = "triggered" /\ Uploaded(d)), Restorable(d)
        PROVE  Restorable(d)'
    <3>1. d # c
      BY <1>2, <2>1, <2>2, IdFacts, Zenon
    <3>2. \A f \in Files : snap[d][f] # 0 => shared[d][f] # c
      BY <1>2, <2>2, <3>1, OwnersStay, IdFacts DEF Restorable
    <3>3. store' = store /\ shared' = shared /\ snap'[d] = snap[d]
      BY <1>2, <3>1, Zenon DEF Snapshot
    <3>4. ASSUME NEW f \in Files, snap[d][f] # 0
          PROVE  /\ shared[d][f] \in Ids /\ <<shared[d][f], f>> \in store
                 /\ snap'[shared[d][f]][f] = snap[d][f]
      BY <1>2, <2>2, <3>2, <3>4 DEF Restorable
    <3> HIDE DEF ReuseInv, MapsInv
    <3> QED
      BY <3>3, <3>4 DEF Restorable
  <2> QED
    BY <1>1, <1>2, <2>1, <2>2 DEF StoreInv
<1> QED
  BY <1>3, <1>4, <1>5, <1>6

\* The attempt reads a base that is the latest completed checkpoint, or none.
LEMMA UploadStep ==
    ASSUME LateCompletions = FALSE, ReuseInv, MapsInv', NEW c \in Ids,
           NEW refused \in SUBSET Files, Upload(c, refused)
    PROVE  ReuseInv'
<1> USE DEF ReuseInv, MapsInv
<1>1. Completed' = Completed /\ Latest' = Latest
  BY LatestKept, Zenon DEF Upload, Completed
<1>2. /\ att[c] = "staged" /\ att'[c] = "uploading"
      /\ \A d \in Ids : d # c => att'[d] = att[d] /\ shared'[d] = shared[d]
      /\ \A f \in Files : shared'[c][f] = IF snap[c][f] = 0 THEN 0
                                           ELSE IF completed[f] # 0 /\ f \notin refused
                                           THEN completed[f] ELSE c
  BY DEF Upload, TypeOK
<1>3. /\ store \subseteq store'
      /\ \A f \in Files : shared'[c][f] = c => <<c, f>> \in store'
      /\ jm' = jm /\ snap' = snap
  BY Zenon DEF Upload
<1>4. Latest # 0 => Latest \in Ids /\ att[Latest] = "published"
  BY LatestCompleted DEF JobManagerInv
<1>5. jm[c] = "triggered" => \A d \in Ids : <<"complete", d>> \notin inbox
  <2> SUFFICES ASSUME jm[c] = "triggered", NEW d \in Ids, <<"complete", d>> \in inbox PROVE FALSE
    BY Zenon
  <2>1. jm[d] = "completed" /\ d # c
    BY Zenon DEF JobManagerInv
  <2>2. d < c
    BY <2>1, IdFacts DEF JobManagerInv
  <2> QED
    BY <2>2, Zenon DEF Upload
<1>6. completedId # 0 => /\ completedId \in Ids /\ jm[completedId] = "completed"
                         /\ completed = shared[completedId]
  BY IdFacts DEF TypeOK, NoticeInv, BaseIsCompleted
<1>7. \A f \in Files : completed[f] # 0 =>
          /\ completedId # 0 /\ completed[f] \in Ids /\ att[completed[f]] = "published"
  <2> SUFFICES ASSUME NEW f \in Files, completed[f] # 0
               PROVE  /\ completedId # 0 /\ completed[f] \in Ids
                      /\ att[completed[f]] = "published"
    OBVIOUS
  <2>1. completedId # 0
    BY Zenon DEF NoticeInv, NoFiles
  <2>2. completed[f] \in Ids
    BY IdFacts, Zenon DEF TypeOK
  <2>3. att[completedId] = "published" /\ completed[f] = shared[completedId][f]
    BY <1>6, <2>1 DEF JobManagerInv
  <2>4. shared[completedId][f] # completedId => att[shared[completedId][f]] = "published"
    BY <1>6, <2>1, <2>3 DEF ReferenceInv
  <2> HIDE DEF ReuseInv, MapsInv
  <2> QED
    BY <2>1, <2>2, <2>3, <2>4
<1>8. NamesInv'
  <2>1. UNCHANGED <<snap, used, live>> /\ \A d \in Ids : Current(d)' => Current(d)
    BY DEF Upload, Current
  <2> QED
    BY <2>1, NamesKept
<1>9. ReferenceInv'
  <2>1. \A d \in Ids, f \in Files : shared[d][f] # 0 => shared[d][f] \in Ids
    BY IdFacts DEF TypeOK
  <2>2. ASSUME NEW f \in Files, shared'[c][f] # 0
        PROVE  snap[c][f] # 0 /\ (shared'[c][f] # c => att'[shared'[c][f]] = "published")
    BY <1>2, <1>7, <2>2, Zenon
  <2>3. ASSUME NEW d \in Ids, NEW f \in Files, shared'[d][f] # 0
        PROVE  /\ att'[d] # "none" /\ snap'[d][f] # 0
               /\ shared'[d][f] # d => att'[shared'[d][f]] = "published"
    <3>1. CASE d = c
      BY <1>2, <1>3, <2>2, <2>3, <3>1, Zenon
    <3>2. CASE d # c
      <4>1. shared'[d][f] = shared[d][f] /\ shared[d][f] \in Ids /\ att'[d] = att[d]
        BY <1>2, <2>1, <2>3, <3>2
      <4>2. /\ att[d] # "none" /\ snap[d][f] # 0
            /\ shared[d][f] # d => att[shared[d][f]] = "published"
        BY <2>3, <4>1, Zenon DEF ReferenceInv
      <4> QED
        BY <1>2, <1>3, <4>1, <4>2, Zenon
    <3> QED
      BY <3>1, <3>2
  <2> HIDE DEF ReuseInv, MapsInv
  <2> QED
    BY <2>3, Zenon DEF ReferenceInv
<1>10. BaseInv'
  BY <1>1, <1>2, <1>5, Zenon DEF Upload, BaseInv, CompletionInstalled
<1>11. jm[c] = "triggered" => Restorable(c)'
  <2> SUFFICES ASSUME jm[c] = "triggered", NEW f \in Files, snap[c][f] # 0
               PROVE  /\ shared'[c][f] \in Ids /\ <<shared'[c][f], f>> \in store'
                      /\ snap[shared'[c][f]][f] = snap[c][f]
    BY <1>3 DEF Restorable
  <2>1. CASE shared'[c][f] = c
    BY <2>1, <1>3, Zenon
  <2>2. CASE shared'[c][f] # c
    <3>1. completed[f] # 0 /\ shared'[c][f] = completed[f]
      BY <1>2, <2>2, Zenon
    <3>2. completedId = Latest /\ completedId # 0 /\ completed[f] = shared[Latest][f]
      BY <1>4, <1>5, <1>6, <1>7, <3>1, LatestCompleted, IdFacts, Zenon DEF BaseInv, Completed
    <3>3. snap[Latest][f] # 0 /\ Restorable(Latest) /\ Latest \in Ids
      BY <1>4, <3>1, <3>2, Zenon DEF ReferenceInv, StoreInv
    <3>4. snap[Latest][f] = snap[c][f]
      BY <3>2, <3>3, Zenon DEF NamesInv, Current
    <3> QED
      BY <1>3, <3>1, <3>2, <3>3, <3>4 DEF Restorable
  <2> QED
    BY <2>1, <2>2, Zenon
<1>12. StoreInv'
  <2>1. ASSUME NEW d \in Ids, d # c, Restorable(d) PROVE Restorable(d)'
    BY <1>2, <1>3, <2>1, Zenon DEF Restorable
  <2>2. Latest # c
    BY <1>2, <1>4, IdFacts
  <2> QED
    BY <1>1, <1>2, <1>3, <1>4, <1>11, <2>1, <2>2, Zenon DEF StoreInv
<1> QED
  BY <1>8, <1>9, <1>10, <1>12

\* Publish, Fail and NotifyAborted touch one attempt that no other depends on.
LEMMA AttemptSteps ==
    ASSUME ReuseInv, MapsInv', NEW c \in Ids, Publish(c) \/ Fail(c) \/ NotifyAborted(c)
    PROVE  ReuseInv'
<1> USE DEF ReuseInv, MapsInv
<1>1. UNCHANGED <<snap, shared, jm, used, live, completedId, delivered>>
  BY DEF Publish, Fail, NotifyAborted
<1>2. Completed' = Completed /\ Latest' = Latest
  BY <1>1, LatestKept DEF Completed
<1>3. inbox' \subseteq inbox /\ \A d \in Ids : <<"complete", d>> \in inbox => <<"complete", d>> \in inbox'
  BY DEF Publish, Fail, NotifyAborted
<1>4. Latest # 0 => Latest \in Ids /\ jm[Latest] = "completed" /\ att[Latest] = "published"
  BY LatestCompleted DEF JobManagerInv
<1>5. \A d \in Ids : /\ att[d] # "none" => att'[d] # "none"
                     /\ att[d] = "published" => att'[d] = "published"
                     /\ Uploaded(d)' => Uploaded(d)
  <2>1. att \in [Ids -> {"none", "staged", "uploading", "published", "reclaimed"}]
    BY DEF TypeOK
  <2>2. \/ att' = att
        \/ att[c] = "uploading" /\ att' = [att EXCEPT ![c] = "published"]
        \/ att[c] \in {"staged", "uploading"} /\ att' = [att EXCEPT ![c] = "reclaimed"]
    BY Zenon DEF Publish, Fail, NotifyAborted, Reclaim
  <2> HIDE DEF ReuseInv, MapsInv
  <2> QED
    BY <2>1, <2>2
<1>6. NamesInv'
  <2>1. \A d \in Ids : Current(d)' => Current(d)
    BY <1>1, <1>3, Zenon DEF Current
  <2> QED
    BY <1>1, <2>1, NamesKept
<1>7. ReferenceInv'
  BY <1>1, <1>5, ReferencesKept, Zenon
<1>8. BaseInv'
  <2>1. \A d \in Ids : <<"complete", d>> \in inbox => d \in pending'
    <3> SUFFICES ASSUME NEW d \in Ids, <<"complete", d>> \in inbox PROVE d \in pending'
      OBVIOUS
    <3>1. d \in pending /\ jm[d] = "completed" /\ att[d] = "published"
      BY Zenon DEF BaseInv, JobManagerInv
    <3> QED
      BY <3>1 DEF Publish, Fail, NotifyAborted, JobManagerInv
  <2>2. att \in [Ids -> {"none", "staged", "uploading", "published", "reclaimed"}]
    BY DEF TypeOK
  <2>3. ASSUME NEW d \in Ids, jm[d] = "triggered", att'[d] = "published" PROVE d \in pending'
    <3>1. CASE Publish(c)
      <4>1. att' = [att EXCEPT ![c] = "published"] /\ pending' = pending \cup {c}
        BY <3>1 DEF Publish
      <4>2. d # c => att[d] = "published"
        BY <2>3, <2>2, <4>1
      <4> QED
        BY <2>3, <4>1, <4>2 DEF BaseInv
    <3>2. CASE Fail(c)
      <4>1. att' = [att EXCEPT ![c] = "reclaimed"] /\ pending' = pending \ {c}
        BY <3>2 DEF Fail, Reclaim
      <4>2. d # c /\ att[d] = "published"
        BY <2>3, <2>2, <4>1
      <4> QED
        BY <2>3, <4>1, <4>2 DEF BaseInv
    <3>3. CASE NotifyAborted(c)
      <4>1. /\ att' = att \/ att' = [att EXCEPT ![c] = "reclaimed"]
            /\ pending' = pending \ {c} /\ <<"abort", c>> \in inbox
        BY <3>3 DEF NotifyAborted, Reclaim
      <4>2. d # c
        BY <2>3, <4>1 DEF JobManagerInv
      <4>3. att[d] = "published"
        BY <2>3, <2>2, <4>1, <4>2, Zenon
      <4> QED
        BY <2>3, <4>1, <4>2, <4>3, Zenon DEF BaseInv
    <3> QED
      BY <3>1, <3>2, <3>3
  <2> QED
    BY <1>1, <1>2, <1>3, <1>5, <2>1, <2>3, BaseHasLatest, Zenon DEF BaseInv, CompletionInstalled
<1>9. \/ store' = store
      \/ /\ store' = store \ {<<c, f>> : f \in Files}
         /\ att[c] # "published" /\ ~Uploaded(c)'
  BY DEF Publish, Fail, NotifyAborted, Reclaim, TypeOK
<1>10. StoreInv'
  BY <1>1, <1>5, <1>9, StoreKept, Zenon
<1> QED
  BY <1>6, <1>7, <1>8, <1>10

\* Notifications that leave storage and every attempt alone.
LEMMA NoticeSteps ==
    ASSUME LateCompletions = FALSE, ReuseInv, MapsInv',
           \/ \E c \in Ids : NotifyComplete(c) \/ NotifySubsumed(c)
           \/ \E note \in inbox : Lose(note)
    PROVE  ReuseInv'
<1> USE DEF ReuseInv, MapsInv
<1>1. UNCHANGED <<snap, shared, att, jm, used, live, store>> /\ inbox' \subseteq inbox
  BY Zenon DEF NotifyComplete, NotifySubsumed, Lose
<1>2. Completed' = Completed /\ Latest' = Latest
  BY <1>1, LatestKept DEF Completed
<1>3. Latest # 0 => Latest \in Ids
  BY LatestCompleted
<1>4. ReferenceInv'
  BY <1>1, ReferencesKept, Zenon
<1>5. StoreInv'
  BY <1>1, <1>2 DEF StoreInv, Restorable
<1>6. NamesInv' /\ BaseInv'
  <2>1. ASSUME NEW c \in Ids, NotifyComplete(c) PROVE NamesInv' /\ BaseInv'
    <3>1. /\ c = Latest /\ c \in pending /\ c > completedId /\ <<"complete", c>> \in inbox
          /\ completedId' = c /\ delivered' = delivered \cup {c}
          /\ inbox' = inbox \ {<<"complete", c>>}
      BY <2>1 DEF NotifyComplete, BaseInv
    <3>2. \A d \in Ids : <<"complete", d>> \notin inbox'
      BY <1>1, <3>1, Zenon DEF BaseInv
    <3>3. \A d \in Ids : Current(d)' => Current(d)
      BY <1>1, <3>1 DEF Current
    <3>4. \A d \in delivered' : d <= c
      <4>1. \A d \in delivered : d \in Nat /\ d <= completedId
        BY IdFacts, Zenon DEF BaseInv, CompletionInstalled, TypeOK
      <4>2. completedId \in Nat /\ c \in Nat
        BY IdFacts DEF TypeOK
      <4> QED
        BY <3>1, <4>1, <4>2
    <3>5. \A d \in Ids : jm[d] = "triggered" => att[d] # "published"
      BY <3>1, Zenon DEF BaseInv
    <3> QED
      BY <1>1, <1>2, <3>1, <3>2, <3>3, <3>4, <3>5, NamesKept, Zenon DEF BaseInv, CompletionInstalled
  <2>2. ASSUME NEW c \in Ids, NotifySubsumed(c) PROVE NamesInv' /\ BaseInv'
    <3>1. /\ c < Latest /\ jm[c] = "completed"
          /\ pending' = {d \in pending : d > c}
          /\ UNCHANGED <<completedId, delivered>>
          /\ \A d \in Ids : <<"complete", d>> \in inbox => <<"complete", d>> \in inbox'
      BY <2>2, Zenon DEF NotifySubsumed, BaseInv, JobManagerInv
    <3>2. \A d \in Ids : Current(d)' => Current(d)
      BY <1>1, <3>1 DEF Current
    <3>3. \A d \in Ids : jm[d] = "triggered" => d > c
      BY <3>1, IdFacts DEF JobManagerInv
    <3>4. \A d \in Ids : <<"complete", d>> \in inbox => d > c
      BY <3>1, IdFacts DEF BaseInv
    <3>5. Latest # 0 /\ Latest \in Ids
      BY <1>3, <3>1, IdFacts
    <3> QED
      BY <1>1, <1>2, <3>1, <3>2, <3>3, <3>4, <3>5, NamesKept DEF BaseInv, CompletionInstalled
  <2>3. ASSUME NEW note \in inbox, Lose(note) PROVE NamesInv' /\ BaseInv'
    <3>1. /\ UNCHANGED <<completedId, delivered, pending>>
          /\ \A d \in Ids : <<"complete", d>> \in inbox => <<"complete", d>> \in inbox'
      BY <2>3 DEF Lose
    <3>2. \A d \in Ids : Current(d)' => Current(d)
      BY <1>1, <3>1 DEF Current
    <3> QED
      BY <1>1, <1>2, <3>1, <3>2, BaseHasLatest, NamesKept DEF BaseInv, CompletionInstalled
  <2> QED
    BY <2>1, <2>2, <2>3, Zenon
<1> QED
  BY <1>4, <1>5, <1>6

\* Failover: the new backend has no base, so no checkpoint matters to its attempts.
LEMMA RestartStep == ASSUME ReuseInv, MapsInv', Restart PROVE ReuseInv'
<1> USE DEF ReuseInv, MapsInv
<1>1. Completed' = Completed /\ Latest' = Latest
  BY LatestKept DEF Restart, Completed, TypeOK
<1>2. /\ completedId' = 0 /\ inbox' = {} /\ delivered' = {} /\ UNCHANGED <<snap, shared, store>>
      /\ \A c \in Ids : jm'[c] # "triggered"
  BY Zenon DEF Restart
<1>3. \A c \in Ids : ~Current(c)'
  BY <1>2, IdFacts DEF Current
<1>4. NamesInv'
  BY <1>3 DEF NamesInv
<1>5. ReferenceInv'
  <2>1. ASSUME NEW c \in Ids
        PROVE  /\ att[c] # "none" => att'[c] # "none"
               /\ att[c] = "published" => att'[c] = "published"
    BY DEF Restart
  <2> QED
    BY <1>2, <2>1, ReferencesKept, Zenon
<1>6. BaseInv'
  BY <1>2, Zenon DEF BaseInv, CompletionInstalled
<1>7. StoreInv'
  BY <1>1, <1>2 DEF StoreInv, Restorable
<1> QED
  BY <1>4, <1>5, <1>6, <1>7, Zenon

\* The JobManager: an abortion, an acknowledgement that comes too late, and one
\* that completes the checkpoint.
LEMMA LateAnswers ==
    ASSUME ReuseInv, MapsInv', NEW c \in Ids,
           Abort(c) \/ (Acknowledge(c) /\ jm[c] # "triggered")
    PROVE  ReuseInv'
<1> USE DEF ReuseInv, MapsInv
<1>1. UNCHANGED <<snap, shared, att, used, live, store, completedId, delivered, pending>>
  BY DEF Abort, Acknowledge
<1>2. Completed' = Completed /\ Latest' = Latest
  <2>1. jm' = jm \/ (jm[c] = "triggered" /\ jm' = [jm EXCEPT ![c] = "aborted"])
    BY Zenon DEF Abort, Acknowledge
  <2>2. \A d \in Ids : jm'[d] = "completed" <=> jm[d] = "completed"
    BY <2>1 DEF TypeOK
  <2> QED
    BY <2>2, LatestKept DEF Completed
<1>3. /\ \A d \in Ids : jm'[d] = "triggered" => jm[d] = "triggered"
      /\ \A d \in Ids : <<"complete", d>> \in inbox' <=> <<"complete", d>> \in inbox
      /\ \A d \in Ids : <<"subsume", d>> \in inbox' => <<"subsume", d>> \in inbox
  BY DEF Abort, Acknowledge, TypeOK
<1>4. NamesInv'
  <2>1. \A d \in Ids : Current(d)' => Current(d)
    BY <1>1, <1>3, Zenon DEF Current
  <2> QED
    BY <1>1, <2>1, NamesKept
<1>5. ReferenceInv'
  BY <1>1, ReferencesKept, Zenon
<1>6. BaseInv'
  BY <1>1, <1>2, <1>3, BaseHasLatest, Zenon DEF BaseInv, CompletionInstalled
<1>7. StoreInv'
  BY <1>1, <1>2, <1>3 DEF StoreInv, Restorable
<1> QED
  BY <1>4, <1>5, <1>6, <1>7, Zenon

LEMMA CompletionStep ==
    ASSUME ReuseInv, MapsInv', NEW c \in Ids, Acknowledge(c), jm[c] = "triggered"
    PROVE  ReuseInv'
<1> USE DEF ReuseInv, MapsInv
<1>1. /\ UNCHANGED <<snap, shared, att, used, live, completedId, delivered, pending>>
      /\ att[c] = "published" /\ jm'[c] = "completed" /\ \A d \in Ids : d # c => jm'[d] = jm[d]
      /\ store' = store \ Unused(c)
      /\ inbox' = inbox \cup {<<"complete", c>>}
                        \cup (IF Latest = 0 THEN {} ELSE {<<"subsume", Latest>>})
  BY DEF Acknowledge, TypeOK
<1>2. \A d \in Completed : d < c
  BY IdFacts DEF Completed, JobManagerInv
<1>3. ASSUME NEW d \in Ids PROVE jm'[d] # "triggered"
  <2>1. CASE d = c
    BY <1>1, <2>1, Zenon
  <2>2. CASE d # c
    <3>1. c < d \/ d < c
      BY <2>2, IdFacts
    <3>2. jm[d] # "triggered"
      BY <3>1, Zenon DEF JobManagerInv
    <3> QED
      BY <1>1, <2>2, <3>2
  <2> QED
    BY <2>1, <2>2, Zenon
<1>4. Completed' = Completed \cup {c}
  BY <1>1 DEF Completed
<1>5. Latest' = c
  <2>1. \A d \in Completed' : d \in Nat /\ d <= c
    BY <1>2, <1>4, IdFacts DEF Completed
  <2>2. Max(Completed') = c
    <3>1. ASSUME NEW x \in Completed', \A y \in Completed' : x >= y PROVE x = c
      BY <1>4, <2>1, <3>1, IdFacts
    <3> QED
      BY <1>4, <2>1, <3>1, IdFacts DEF Max
  <2> QED
    BY <1>4, <2>2 DEF Latest
<1>6. \A d \in Ids : <<"complete", d>> \in inbox' <=> d = c
  BY <1>1, Zenon DEF BaseInv
<1>7. NamesInv'
  <2>1. \A d \in Ids : Current(d)' => Current(d)
    BY <1>1, <1>3, <1>6, Zenon DEF Current
  <2> QED
    BY <1>1, <2>1, NamesKept, Zenon
<1>8. ReferenceInv'
  BY <1>1, ReferencesKept, Zenon
<1>9. BaseInv'
  <2>1. c \in pending' /\ c > completedId'
    <3>1. completedId # 0 => completedId < c
      BY <1>2, IdFacts DEF TypeOK, NoticeInv, BaseIsCompleted, Completed
    <3> QED
      BY <1>1, <3>1, IdFacts, Zenon DEF BaseInv
  <2>2. \A d \in Ids : <<"subsume", d>> \in inbox' => d < c
    <3> SUFFICES ASSUME NEW d \in Ids, <<"subsume", d>> \in inbox' PROVE d < c
      OBVIOUS
    <3>1. d \in Completed
      BY <1>1, IdFacts, LatestCompleted, Zenon DEF Completed, JobManagerInv
    <3> QED
      BY <1>2, <3>1
  <2> QED
    BY <1>1, <1>3, <1>5, <1>6, <2>1, <2>2, Zenon DEF BaseInv, CompletionInstalled
<1>10. StoreInv'
  <2>1. ASSUME NEW f \in Files, snap[c][f] # 0 PROVE <<shared[c][f], f>> \notin Unused(c)
    <3>1. <<shared[c][f], f>> \in References(c)
      BY <1>1, <2>1, IdFacts, Zenon DEF References, StoreInv, Restorable
    <3> QED
      BY <3>1, IdFacts DEF Unused
  <2>2. Restorable(c)'
    BY <1>1, <2>1, Zenon DEF StoreInv, Restorable
  <2> QED
    BY <1>3, <1>5, <2>2 DEF StoreInv
<1> QED
  BY <1>7, <1>8, <1>9, <1>10, Zenon

LEMMA ReuseStep ==
    ASSUME LateCompletions = FALSE, ReuseInv, [Next]_vars PROVE ReuseInv'
<1>1. MapsInv'
  BY MapsStep DEF ReuseInv
<1>2. CASE Next
  BY <1>1, <1>2, WriteFileStep, SnapshotStep, UploadStep, AttemptSteps, NoticeSteps,
     RestartStep, LateAnswers, CompletionStep, Zenon DEF Next
<1>3. CASE UNCHANGED vars
  <2>1. Completed' = Completed /\ Latest' = Latest
    BY <1>3, LatestKept DEF vars, Completed
  <2>2. NamesInv' /\ ReferenceInv'
    BY <1>3, NamesKept, ReferencesKept, Zenon DEF vars, ReuseInv, MapsInv, Current
  <2>4. StoreInv'
    BY <1>3, <2>1, Zenon DEF vars, ReuseInv, StoreInv, Restorable
  <2>3. BaseInv'
    BY <1>3, <2>1 DEF vars, ReuseInv, BaseInv, CompletionInstalled
  <2> QED
    BY <1>1, <2>2, <2>3, <2>4 DEF ReuseInv
<1> QED
  BY <1>2, <1>3

\* While completions arrive before the next attempt reads its base, the newest
\* completed checkpoint can always be restored (every file of its snapshot has an
\* object with that content, whatever was reused, reclaimed or discarded since) and
\* every completion the backend is told of takes effect.
THEOREM SafeReuse == ASSUME LateCompletions = FALSE PROVE Spec => []ReuseIsSafe
<1>1. Init => ReuseInv
  BY ReuseInit
<1>2. ReuseInv /\ [Next]_vars => ReuseInv'
  BY ReuseStep, Zenon
<1>3. ReuseInv => ReuseIsSafe
  <2> SUFFICES ASSUME ReuseInv PROVE ReuseIsSafe
    OBVIOUS
  <2>1. Latest # 0 => Latest \in Ids /\ Restorable(Latest)
    BY LatestCompleted DEF ReuseInv, MapsInv, StoreInv
  <2> QED
    BY <2>1, IdFacts DEF ReuseInv, BaseInv, ReuseIsSafe, LatestRestorable, Restorable
<1> QED
  BY <1>1, <1>2, <1>3, PTL DEF Spec

===============================================================================
