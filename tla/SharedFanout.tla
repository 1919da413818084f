---------------------------- MODULE SharedFanout -----------------------------
(***************************************************************************)
(* execution_context/fanout.rs: one native stream shared by several        *)
(* downstream readers that are polled cooperatively.  At most one batch is *)
(* held; a reader that has taken it waits for the others.  Everything a    *)
(* poll does happens under one lock, so Poll(r) is one step, its loop      *)
(* included.                                                               *)
(*                                                                         *)
(* External: the source (a stream that yields up to MaxBatches batches,    *)
(* may be pending at any time and then wakes the last waker it was given,  *)
(* and ends or fails), and the executor, which polls a reader's task when  *)
(* the task is woken and again after every batch it received.              *)
(***************************************************************************)
EXTENDS Naturals, FiniteSets

CONSTANTS Readers,     \* the consumers of split
          MaxBatches   \* bound on the batches of the source

ReadersAssumption == IsFiniteSet(Readers) /\ Readers # {} /\ MaxBatches \in Nat

VARIABLES
    source,      \* "ready" or "pending" (what the next poll finds), or "dropped"
    sourceWaker, \* the reader whose waker the source holds, as a set of at most one
    produced,    \* batches the source has yielded
    batch,       \* Shared.batch is Some
    pending,     \* readers with Shared.pending set
    wakers,      \* readers with a registered waker
    remaining,   \* Shared.remaining
    eof,         \* Shared.eof
    failure,     \* Shared.failure is Some
    completion,  \* what the completion callback was given: "none", "success", "failed"
    runnable,    \* readers whose task the executor will poll
    got,         \* batches each reader received
    reader       \* "reading", "eof", "error", "dropped"

vars == <<source, sourceWaker, produced, batch, pending, wakers, remaining, eof, failure,
          completion, runnable, got, reader>>

Init ==
    /\ source \in {"ready", "pending"} /\ sourceWaker = {} /\ produced = 0
    /\ batch = FALSE /\ pending = {} /\ wakers = {}
    /\ remaining = Cardinality(Readers) /\ eof = FALSE /\ failure = FALSE
    /\ completion = "none"
    /\ runnable = Readers
    /\ got = [r \in Readers |-> 0]
    /\ reader = [r \in Readers |-> "reading"]

Live == {r \in Readers : reader[r] = "reading"}

Polls(r) == r \in runnable /\ reader[r] = "reading"

\* Fault: a failure does not wake the waiting readers.
Fail_NoWake ==
    /\ failure' = TRUE
    /\ source' = "dropped" /\ sourceWaker' = {} /\ batch' = FALSE
    /\ wakers' = {} /\ runnable' = runnable
    /\ completion' = IF completion = "none" THEN "failed" ELSE completion

\* Shared::fail: work is released and the readers woken before the completion.
Fail ==
    /\ failure' = TRUE
    /\ source' = "dropped" /\ sourceWaker' = {} /\ batch' = FALSE
    /\ wakers' = {} /\ runnable' = runnable \cup wakers
    /\ completion' = IF completion = "none" THEN "failed" ELSE completion

\* Fault: the first taker clears the batch.
Take_ClearsEarly(r, held, woken) ==
    /\ got' = [got EXCEPT ![r] = @ + 1]
    /\ pending' = held \ {r}
    /\ batch' = FALSE
    /\ wakers' = IF held = {r} THEN {} ELSE woken
    /\ runnable' = runnable \cup (wakers \ wakers')

\* Fault: the last taker does not wake the readers that wait for it.
Take_NoWake(r, held, woken) ==
    /\ got' = [got EXCEPT ![r] = @ + 1]
    /\ pending' = held \ {r}
    /\ batch' = (held # {r})
    /\ wakers' = IF held = {r} THEN {} ELSE woken
    /\ runnable' = runnable

\* The reader takes the held batch; the last taker clears it and wakes the others.
Take(r, held, woken) ==
    /\ got' = [got EXCEPT ![r] = @ + 1]
    /\ pending' = held \ {r}
    /\ batch' = (held # {r})
    /\ wakers' = IF held = {r} THEN {} ELSE woken
    /\ runnable' = runnable \cup (wakers \ wakers')

\* The shared failure is returned to the reader.
PollFailure(r) ==
    /\ Polls(r) /\ failure
    /\ reader' = [reader EXCEPT ![r] = "error"]
    /\ UNCHANGED <<source, sourceWaker, produced, batch, pending, wakers, remaining, eof,
                   failure, completion, runnable, got>>

\* A batch is held and this reader has not had it.
PollHeld(r) ==
    /\ Polls(r) /\ ~failure /\ batch /\ r \in pending
    /\ Take(r, pending, wakers)
    /\ UNCHANGED <<source, sourceWaker, produced, remaining, eof, failure, completion, reader>>

\* It has had it: it waits for the others.
PollAhead(r) ==
    /\ Polls(r) /\ ~failure /\ batch /\ r \notin pending
    /\ wakers' = wakers \cup {r}
    /\ runnable' = runnable \ {r}
    /\ UNCHANGED <<source, sourceWaker, produced, batch, pending, remaining, eof, failure,
                   completion, got, reader>>

\* The reader ends; the last one completes the invocation.
EndReader(r) ==
    /\ reader' = [reader EXCEPT ![r] = "eof"]
    /\ remaining' = remaining - 1
    /\ completion' = IF remaining = 1 /\ completion = "none" THEN "success" ELSE completion

PollEof(r) ==
    /\ Polls(r) /\ ~failure /\ ~batch /\ eof
    /\ EndReader(r)
    /\ UNCHANGED <<source, sourceWaker, produced, batch, pending, wakers, eof, failure,
                   runnable, got>>

\* The source is polled and yields: every reader is to have the batch, all waiting
\* readers are woken, and the loop gives this reader its copy.
PollSourceBatch(r) ==
    /\ Polls(r) /\ ~failure /\ ~batch /\ ~eof
    /\ source = "ready" /\ produced < MaxBatches
    /\ produced' = produced + 1
    /\ source' \in {"ready", "pending"}
    /\ Take(r, Readers, {})
    /\ UNCHANGED <<sourceWaker, remaining, eof, failure, completion, reader>>

\* It ends: the source is dropped, the readers are woken, this reader ends.
PollSourceEof(r) ==
    /\ Polls(r) /\ ~failure /\ ~batch /\ ~eof /\ source = "ready"
    /\ source' = "dropped" /\ sourceWaker' = {}
    /\ eof' = TRUE
    /\ wakers' = {} /\ runnable' = runnable \cup wakers
    /\ EndReader(r)
    /\ UNCHANGED <<produced, batch, pending, failure, got>>

\* It fails, and this reader is given the failure.
PollSourceError(r) ==
    /\ Polls(r) /\ ~failure /\ ~batch /\ ~eof /\ source = "ready"
    /\ Fail
    /\ reader' = [reader EXCEPT ![r] = "error"]
    /\ UNCHANGED <<produced, pending, remaining, eof, got>>

\* It is pending, and keeps the waker of its last poller only.
PollSourcePending(r) ==
    /\ Polls(r) /\ ~failure /\ ~batch /\ ~eof /\ source = "pending"
    /\ sourceWaker' = {r}
    /\ wakers' = wakers \cup {r}
    /\ runnable' = runnable \ {r}
    /\ UNCHANGED <<source, produced, batch, pending, remaining, eof, failure, completion, got,
                   reader>>

\* The source has something again (external).
SourceReady ==
    /\ source = "pending"
    /\ source' = "ready" /\ sourceWaker' = {}
    /\ runnable' = runnable \cup sourceWaker
    /\ UNCHANGED <<produced, batch, pending, wakers, remaining, eof, failure, completion, got,
                   reader>>

\* A consumer is dropped; before its end that fails the whole invocation.
DropReader(r) ==
    /\ reader[r] = "reading"
    /\ reader' = [reader EXCEPT ![r] = "dropped"]
    /\ IF failure
         THEN UNCHANGED <<failure, source, sourceWaker, batch, wakers, completion, runnable>>
         ELSE Fail
    /\ UNCHANGED <<produced, pending, remaining, eof, got>>

Poll(r) ==
    \/ PollFailure(r) \/ PollHeld(r) \/ PollAhead(r) \/ PollEof(r)
    \/ PollSourceBatch(r) \/ PollSourceEof(r) \/ PollSourceError(r) \/ PollSourcePending(r)

Next == SourceReady \/ \E r \in Readers : Poll(r) \/ DropReader(r)

\* The executor polls every woken task, and a pending source becomes ready.
Spec ==
    /\ Init /\ [][Next]_vars
    /\ WF_vars(SourceReady)
    /\ \A r \in Readers : WF_vars(Poll(r))

-----------------------------------------------------------------------------
\* Properties

\* Every variable has its type, and remaining counts the readers short of EOF.
TypeOK ==
    /\ source \in {"ready", "pending", "dropped"}
    /\ sourceWaker \in SUBSET Readers
    /\ produced \in 0 .. MaxBatches
    /\ batch \in BOOLEAN /\ eof \in BOOLEAN /\ failure \in BOOLEAN
    /\ pending \in SUBSET Readers /\ wakers \in SUBSET Readers /\ runnable \in SUBSET Readers
    /\ remaining = Cardinality({r \in Readers : reader[r] # "eof"})
    /\ completion \in {"none", "success", "failed"}
    /\ got \in [Readers -> 0 .. MaxBatches]
    /\ reader \in [Readers -> {"reading", "eof", "error", "dropped"}]

\* No reader misses a batch or is given one twice, and none runs ahead: a reader
\* is behind the source by exactly the batch it has yet to take.
InStep ==
    ~failure => \A r \in Readers :
        got[r] = IF batch /\ r \in pending THEN produced - 1 ELSE produced

\* The invocation is completed as a success only when every reader has read to the
\* end, and as soon as it is completed either way neither the source nor a batch
\* is alive: the work is released before the next invocation can be admitted.
CompletionIsTruthful ==
    /\ completion = "success" => \A r \in Readers : reader[r] = "eof" /\ got[r] = produced
    /\ completion # "none" => source = "dropped" /\ ~batch
    /\ failure => completion = "failed"

\* The readers of a shared source see the same batches, each once and to its end,
\* and the invocation's completion says so.
ReadersShareTheSource == InStep /\ CompletionIsTruthful

\* As long as some reader has not ended, one of them will be polled: it has been
\* woken, or the pending source holds its waker.  The readers never all wait for
\* each other.
NoneIsStranded ==
    Live # {} => \/ Live \cap runnable # {}
                 \/ source = "pending" /\ Live \cap sourceWaker # {}

\* Every reader has ended, and the invocation is completed.
Completed == Live = {} /\ completion # "none"
=============================================================================
