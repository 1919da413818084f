------------------------------ MODULE WindowJoin ------------------------------
(* The native event-time window join (WindowJoinProcessor inside              *)
(* SharedWindowJoin). A window is an index entry (its header), payload pages  *)
(* per side and one event-time timer. A watermark drains the due windows one  *)
(* left page at a time against the whole right side; rows, header and timer   *)
(* go only after the page's output was consumed, and input, checkpoint and    *)
(* restore are refused until the drain is over.                               *)
EXTENDS Integers, Sequences, FiniteSets, FiniteSetsExt

CONSTANTS
  Records,     \* input records: [id, side, key, end, retracts]
  Keys,        \* partition keys, numbered in the order of their encodings
  Ends,        \* window ends
  KeyGroup,    \* key -> its key group
  MaxTime,     \* the largest timestamp (i64::MAX)
  ZoneOffset,  \* offset of the session time zone, 0 for UTC
  MaxRows,     \* rows of one payload entry (MAX_ROWS)
  PageRows     \* rows of one decoded left page (PAGE_ROWS)

WindowJoinAssumption ==
  /\ Keys \subseteq Nat /\ Ends \subseteq 1..MaxTime
  /\ KeyGroup \in [Keys -> Nat]
  /\ MaxTime \in Nat /\ ZoneOffset \in Nat
  /\ MaxRows \in Nat \ {0} /\ PageRows \in Nat \ {0}
  /\ IsFiniteSet(Records) /\ \A r \in Records : r.side \in 1..2 /\ r.key \in Keys

Times == 0..MaxTime
MinTime == -(ZoneOffset + 1)        \* i64::MIN: below every deadline
NoWindow == <<>>
NoWatermark == MinTime
NoPending == [window |-> NoWindow]
NoPage == [emitted |-> FALSE]
NoView == [clock |-> MinTime]
Groups == {KeyGroup[k] : k \in Keys}
Windows == Keys \X Ends

VARIABLES
  waiting,        \* records the sources have not delivered yet
  header,         \* window -> rows counted per side, or NoHeader
  payload,        \* window -> side -> entries [first, rows] in key order
  blob,           \* key group -> timers as last written into the state
  timers,         \* key group -> event-time timers in memory
  dirty,          \* dirty_timer_groups
  clock,          \* current_event_time
  draining,       \* draining_watermark
  pending,        \* pending_window
  closingFailed,  \* closing_failed
  invocation,     \* InvocationState
  output,         \* pairs handed to the consumer
  saved,          \* the latest checkpoint
  before          \* what the join stood for when the invocation began (history)

store == <<header, payload, blob>>
drain == <<draining, pending, closingFailed>>
vars == <<waiting, store, timers, dirty, clock, drain, invocation, output, saved, before>>

NoHeader == <<>>
NoEntries == <<<<>>, <<>>>>

Init ==
  /\ waiting = Records
  /\ header = [w \in Windows |-> NoHeader]
  /\ payload = [w \in Windows |-> NoEntries]
  /\ blob = [g \in Groups |-> {}] /\ timers = blob /\ dirty = {}
  /\ clock = MinTime
  /\ draining = NoWatermark /\ pending = NoPending /\ closingFailed = FALSE
  /\ invocation = "Idle" /\ output = <<>>
  /\ saved = [waiting |-> waiting, header |-> header, payload |-> payload,
              blob |-> blob, output |-> output]
  /\ before = NoView

-----------------------------------------------------------------------------
(* Time, timers and rows.                                                     *)

TimerTimestamp(local) == IF local = MaxTime THEN local ELSE local - ZoneOffset
Deadline(w) == TimerTimestamp(w[2] - 1)
WindowOf(r) == IF r.end \in Ends THEN <<r.key, r.end>> ELSE NoWindow
GroupOf(w) == KeyGroup[w[1]]
Timer(w) == [timestamp |-> Deadline(w), window |-> w]

\* A record without a window end is skipped, a late one is counted and dropped.
OnTime(r) ==
  /\ WindowOf(r) # NoWindow
  /\ r.end = MaxTime \/ Deadline(WindowOf(r)) > clock

\* BTreeSet order of one key group's timers.
TimerBefore(s, t) ==
  \/ s.timestamp < t.timestamp
  \/ s.timestamp = t.timestamp /\ s.window[1] < t.window[1]
  \/ s.timestamp = t.timestamp /\ s.window[1] = t.window[1] /\ s.window[2] <= t.window[2]

DueGroups(time) == {g \in Groups : \E t \in timers[g] : t.timestamp <= time}

\* next_due: the first timer of the first key group whose first timer is due.
NextDue(time) ==
  LET group == timers[Min(DueGroups(time))]
  IN  CHOOSE t \in group : \A u \in group : TimerBefore(t, u)

Register(ts, windows) ==
  [g \in Groups |-> ts[g] \cup {Timer(w) : w \in {v \in windows : GroupOf(v) = g}}]

Fresh(windows) == {GroupOf(w) : w \in {v \in windows : Timer(v) \notin timers[GroupOf(v)]}}

\* The parts one after the other.
Concat(parts) ==
  LET upto[n \in 0..Len(parts)] == IF n = 0 THEN <<>> ELSE upto[n - 1] \o parts[n]
  IN  upto[Len(parts)]

RowsOf(entries) == Concat([i \in 1..Len(entries) |-> entries[i].rows])

\* payload_pages::append: entries keyed by the ordinal of their first row.
Entries(first, rows) ==
  [i \in 1..((Len(rows) + MaxRows - 1) \div MaxRows) |->
     [first |-> first + (i - 1) * MaxRows,
      rows |-> SubSeq(rows, (i - 1) * MaxRows + 1, Min({i * MaxRows, Len(rows)}))]]

\* The ordinal behind the first n entries, which begin at first.
EndOf(entries, n, first) ==
  IF n = 0 THEN first ELSE entries[n].first + Len(entries[n].rows)

\* Every entry starts where the one before it ended.
Contiguous(entries, first) ==
  \A i \in 1..Len(entries) : entries[i].first = EndOf(entries, i - 1, first)

-----------------------------------------------------------------------------
(* What the join stands for; WindowJoinResult says what it promises of it.    *)

Retained(p) == [w \in Windows |-> <<RowsOf(p[w][1]), RowsOf(p[w][2])>>]
View == [waiting |-> waiting, retained |-> Retained(payload), clock |-> clock,
         output |-> output]
Meaning == IF invocation = "Idle" THEN View ELSE before

-----------------------------------------------------------------------------
(* Input.                                                                     *)

\* Both fences: the invocation of the shared operator and the kernel's own.
RequireIdle == invocation = "Idle" /\ draining = NoWatermark /\ ~closingFailed

\* The next records of one input, which delivers them in the order of their ids.
Arrives(S, side) ==
  /\ S # {} /\ \A r \in S : r.side = side
  /\ \A q \in waiting \ S, r \in S : q.side = side => q.id > r.id

\* The rows of a batch in the order in which they came.
Batch(S) ==
  [i \in 1..Cardinality(S) |-> CHOOSE r \in S : Cardinality({q \in S : q.id < r.id}) = i - 1]

Timely(S) == {r \in S : OnTime(r)}
Refused(S) == \E r \in Timely(S) : r.retracts

\* The windows that get rows of a batch.
WindowsOf(S) == {WindowOf(r) : r \in Timely(S)}

\* One input batch of one side, from the mailbox to the written state.
Ingest(S, side) ==
  LET Of(w) == Batch({r \in Timely(S) : WindowOf(r) = w})
      Counts(w) == IF header[w] = NoHeader THEN <<0, 0>> ELSE header[w]
      windows == WindowsOf(S)
  IN  /\ RequireIdle
      /\ Arrives(S, side)
      /\ ~Refused(S)
      /\ waiting' = waiting \ S
      /\ payload' = [w \in Windows |->
           IF w \in windows
           THEN [payload[w] EXCEPT ![side] = @ \o Entries(Counts(w)[side], Of(w))]
           ELSE payload[w]]
      /\ header' = [w \in Windows |->
           IF w \in windows THEN [Counts(w) EXCEPT ![side] = @ + Len(Of(w))]
           ELSE header[w]]
      /\ timers' = Register(timers, windows)
      /\ dirty' = dirty \cup Fresh(windows)
      /\ UNCHANGED <<blob, clock, drain, invocation, output, saved, before>>

\* A retraction on time, or memory denied between two timers or at the write:
\* the timers of the first rows are registered, nothing is written, the
\* invocation has failed.
IngestFails(S, side) ==
  /\ RequireIdle
  /\ Arrives(S, side)
  /\ \E first \in {{}} \cup {{q \in S : q.id <= r.id} : r \in S} :
       /\ Refused(S) => first = {}
       /\ timers' = Register(timers, WindowsOf(first))
       /\ dirty' = dirty \cup Fresh(WindowsOf(first))
  /\ invocation' = "Failed" /\ before' = View
  /\ UNCHANGED <<waiting, store, clock, drain, output, saved>>

-----------------------------------------------------------------------------
(* A watermark invocation.                                                    *)

\* A watermark that does not advance the clock drains nothing.
BeginWatermark(time) ==
  /\ RequireIdle /\ time > clock
  /\ clock' = time /\ draining' = time
  /\ invocation' = "Active" /\ before' = View
  /\ UNCHANGED <<waiting, store, timers, dirty, pending, closingFailed, output, saved>>

\* open_closed_window: the header and the complete right side.
Opened ==
  LET w == NextDue(draining).window
  IN  [window |-> w, counts |-> header[w], cursor |-> 0, page |-> NoPage,
       right |-> payload[w][2]]

\* The entries of one left page: whole entries, at least one, up to PageRows
\* rows. The visitor reached the end unless it was stopped by a full page.
PageOf(entries) ==
  LET Total(n) == Len(RowsOf(SubSeq(entries, 1, n)))
      n == Max({0} \cup {i \in 1..Len(entries) : i = 1 \/ Total(i) <= PageRows})
  IN  [entries |-> SubSeq(entries, 1, n),
       exhausted |-> n = Len(entries) /\ Total(n) < PageRows,
       emitted |-> FALSE]

LoadClosedWindow ==
  /\ invocation = "Active" /\ ~closingFailed
  /\ IF pending = NoPending THEN DueGroups(draining) # {} ELSE pending.page = NoPage
  /\ LET p == IF pending = NoPending THEN Opened ELSE pending
         page == PageOf(payload[p.window][1])
         next == p.cursor + Len(RowsOf(page.entries))
     IN  /\ p.counts # NoHeader
         /\ Contiguous(p.right, 0) /\ Len(RowsOf(p.right)) = p.counts[2]
         /\ Contiguous(page.entries, p.cursor) /\ next <= p.counts[1]
         /\ page.entries = <<>> => next = p.counts[1]
         /\ pending' = [p EXCEPT !.page = page]
  /\ UNCHANGED <<waiting, store, timers, dirty, clock, draining, closingFailed,
                 invocation, output, saved, before>>

\* Every left row with every right row, left-major.
Pairs(left, right) ==
  Concat([i \in 1..Len(left) |-> [j \in 1..Len(right) |-> <<left[i], right[j]>>]])

\* The join of one left page with the right side, consumed to its end.
EmitPage ==
  /\ invocation = "Active" /\ pending # NoPending
  /\ pending.page # NoPage /\ ~pending.page.emitted
  /\ output' = output \o Pairs(RowsOf(pending.page.entries), RowsOf(pending.right))
  /\ pending' = [pending EXCEPT !.page = [@ EXCEPT !.emitted = TRUE]]
  /\ UNCHANGED <<waiting, store, timers, dirty, clock, draining, closingFailed,
                 invocation, saved, before>>

PageEmitted == invocation = "Active" /\ pending # NoPending /\ pending.page # NoPage /\ pending.page.emitted
NextCursor == pending.cursor + Len(RowsOf(pending.page.entries))
Finished == NextCursor = pending.counts[1]
LeftRest == LET left == payload[pending.window][1]
            IN  SubSeq(left, Len(pending.page.entries) + 1, Len(left))

\* The checks commit_closed_window makes before it deletes anything.
TailIsEmpty == Finished /\ ~pending.page.exhausted => LeftRest = <<>>

\* A page that is not the last of its window.
FinishPage ==
  /\ PageEmitted /\ ~closingFailed /\ ~Finished
  /\ payload' = [payload EXCEPT ![pending.window] = <<LeftRest, @[2]>>]
  /\ pending' = [pending EXCEPT !.cursor = NextCursor, !.page = NoPage]
  /\ UNCHANGED <<waiting, header, blob, timers, dirty, clock, draining,
                 closingFailed, invocation, output, saved, before>>

\* Fault: the key group of the fired timer is not marked for the next checkpoint.
FinishClosedWindow_LeavesClean ==
  /\ PageEmitted /\ ~closingFailed /\ Finished /\ TailIsEmpty
  /\ payload' = [payload EXCEPT ![pending.window] = <<LeftRest, <<>>>>]
  /\ header' = [header EXCEPT ![pending.window] = NoHeader]
  /\ LET g == GroupOf(pending.window)
     IN  timers' = [timers EXCEPT ![g] = @ \ {Timer(pending.window)}]
  /\ pending' = NoPending
  /\ UNCHANGED <<waiting, blob, dirty, clock, draining, closingFailed, invocation,
                 output, saved, before>>

\* The last page: the right side, the header and the timer go too.
FinishClosedWindow ==
  /\ PageEmitted /\ ~closingFailed /\ Finished /\ TailIsEmpty
  /\ payload' = [payload EXCEPT ![pending.window] = <<LeftRest, <<>>>>]
  /\ header' = [header EXCEPT ![pending.window] = NoHeader]
  /\ LET g == GroupOf(pending.window)
     IN  /\ timers' = [timers EXCEPT ![g] = @ \ {Timer(pending.window)}]
         /\ dirty' = dirty \cup {g}
  /\ pending' = NoPending
  /\ UNCHANGED <<waiting, blob, clock, draining, closingFailed, invocation,
                 output, saved, before>>

\* No timer is due any more: the invocation completes.
EndDrain ==
  /\ invocation = "Active" /\ pending = NoPending /\ DueGroups(draining) = {}
  /\ draining' = NoWatermark /\ invocation' = "Idle" /\ before' = NoView
  /\ UNCHANGED <<waiting, store, timers, dirty, clock, pending, closingFailed,
                 output, saved>>

\* The stream is dropped, or the join of a page fails.
CancelDrain ==
  /\ invocation = "Active"
  /\ invocation' = "Failed"
  /\ UNCHANGED <<waiting, store, timers, dirty, clock, drain, output, saved, before>>

\* Reading a page fails.
LoadFails ==
  /\ invocation = "Active"
  /\ IF pending = NoPending THEN DueGroups(draining) # {} ELSE pending.page = NoPage
  /\ invocation' = "Failed" /\ closingFailed' = TRUE /\ pending' = NoPending
  /\ UNCHANGED <<waiting, store, timers, dirty, clock, draining, output, saved, before>>

\* Acknowledging a page fails after some of its deletes.
FinishFails ==
  /\ PageEmitted
  /\ \/ UNCHANGED <<payload, header>>
     \/ /\ payload' = [payload EXCEPT ![pending.window] = <<LeftRest, @[2]>>]
        /\ UNCHANGED header
     \/ /\ Finished
        /\ payload' = [payload EXCEPT ![pending.window] = <<LeftRest, <<>>>>]
        /\ header' \in {header, [header EXCEPT ![pending.window] = NoHeader]}
  /\ invocation' = "Failed" /\ closingFailed' = TRUE /\ pending' = NoPending
  /\ UNCHANGED <<waiting, blob, timers, dirty, clock, draining, output, saved, before>>

-----------------------------------------------------------------------------
(* Checkpoint and restore.                                                    *)

\* Fault: a checkpoint during a drain is not refused.
Checkpoint_WhileDraining ==
  /\ invocation # "Failed"
  /\ blob' = [g \in Groups |-> IF g \in dirty THEN timers[g] ELSE blob[g]]
  /\ dirty' = {}
  /\ saved' = [waiting |-> waiting, header |-> header, payload |-> payload,
               blob |-> blob', output |-> output]
  /\ UNCHANGED <<waiting, header, payload, timers, clock, drain, invocation, output, before>>

\* Only the timers of dirty key groups are written again.
Checkpoint ==
  /\ RequireIdle
  /\ blob' = [g \in Groups |-> IF g \in dirty THEN timers[g] ELSE blob[g]]
  /\ dirty' = {}
  /\ saved' = [waiting |-> waiting, header |-> header, payload |-> payload,
               blob |-> blob', output |-> output]
  /\ UNCHANGED <<waiting, header, payload, timers, clock, drain, invocation, output, before>>

\* The task dies at any point and a new one restores every key group; the
\* sources and a transactional sink return to the same checkpoint.
Restore ==
  /\ waiting' = saved.waiting /\ output' = saved.output
  /\ header' = saved.header /\ payload' = saved.payload /\ blob' = saved.blob
  /\ timers' = saved.blob /\ dirty' = {}
  /\ clock' = MinTime
  /\ draining' = NoWatermark /\ pending' = NoPending /\ closingFailed' = FALSE
  /\ invocation' = "Idle" /\ before' = NoView
  /\ UNCHANGED saved

Next ==
  \/ \E side \in 1..2, S \in SUBSET waiting : Ingest(S, side)
  \/ \E side \in 1..2, S \in SUBSET waiting : IngestFails(S, side)
  \/ \E time \in Times : BeginWatermark(time)
  \/ LoadClosedWindow \/ EmitPage \/ FinishPage \/ FinishClosedWindow \/ EndDrain
  \/ CancelDrain \/ LoadFails \/ FinishFails
  \/ Checkpoint \/ Restore

Spec == Init /\ [][Next]_vars

-----------------------------------------------------------------------------
(* Properties.                                                                *)

\* A window is indexed exactly when its key group holds its timer, and the
\* index counts the rows of both sides, whose ordinals have no gap.
Indexed(h, p, ts) ==
  /\ \A g \in Groups :
       ts[g] = {Timer(w) : w \in {v \in Windows : GroupOf(v) = g /\ h[v] # NoHeader}}
  /\ \A w \in Windows :
       IF h[w] = NoHeader THEN p[w] = NoEntries
       ELSE \A side \in 1..2 :
              /\ Contiguous(p[w][side], 0)
              /\ EndOf(p[w][side], Len(p[w][side]), 0) = h[w][side]

\* Between invocations, and in every checkpoint, timers, index and payload of
\* the join agree, although a checkpoint rewrites the timers of dirty key
\* groups only: a window without its timer would never close after a restart,
\* a timer without its window fails the drain ("window join timer has no
\* window index").
TimersMatchIndex ==
  /\ invocation = "Idle" => Indexed(header, payload, timers)
  /\ Indexed(saved.header, saved.payload, saved.blob)
=============================================================================
