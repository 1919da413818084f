---------------------------- MODULE OverAggregate ----------------------------
(* The native OVER aggregation under StreamFusionArrowOverAggregateOperator:  *)
(* batches, watermarks, processing-time callbacks, the end of a bounded input *)
(* and checkpoints, which may come from a release that stored rows inline or  *)
(* a processing-time history instead of one accumulator.                      *)
EXTENDS Accumulators

-----------------------------------------------------------------------------
(* The steps of the native OVER aggregation: how a partition's ordered rows   *)
(* take a change, which frame each row aggregates, what a timer makes ready   *)
(* and forgets, and what of it is stored. A row is [key, order, value, pass]; *)
(* a stored row adds its identity, its time and the output already announced. *)

CONSTANT TimersPerCallback  \* timers one native callback may take

NullOrder == 0   \* a null sort key
MinTime == -9    \* i64::MIN
MaxTime64 == 99  \* i64::MAX

EventTime(p) == p.time = "event"
ProcessingTime(p) == p.time = "processing"
HasOffset(p) == p.offset >= 0

ValidatePlan(p) ==
  /\ p.ascending /\ p.ttl = 0 /\ Len(p.calls) > 0
  /\ HasOffset(p) => /\ p.time = "none" => p.final
                     /\ p.rowsFrame => p.offset > 0
  /\ p.final => p.time = "none"
  /\ \A i \in DOMAIN p.calls : LowerCall(p.calls[i])

\* Which of the operator's four ways of holding state a plan takes.
Compact(p) == ProcessingTime(p) /\ ~p.changelog /\ ~HasOffset(p)
Rolling(p) == ProcessingTime(p) /\ ~p.changelog /\ HasOffset(p) /\ p.rowsFrame
ByMillisecond(p) == ProcessingTime(p) /\ ~p.rowsFrame /\ HasOffset(p)

-----------------------------------------------------------------------------
(* Partitions: [nextId, rows], the rows by sort key and then by arrival.      *)

NoPartition == [nextId |-> 0, rows |-> <<>>]
Absent == [format |-> "absent"]

Stored(order, id, time, row) ==
  [order |-> order, id |-> id, time |-> time, row |-> row, output |-> <<>>]

\* Sort key as the Arrow row converter encodes it: nulls at the planned end.
OrderRows(p, row) == IF row.order = NullOrder /\ p.nullsLast THEN MaxTime64 ELSE row.order

ProcessingOrder(timestamp) == timestamp

OrderKey(p, row, now) ==
  CASE ByMillisecond(p) -> ProcessingOrder(now)
    [] ProcessingTime(p) -> 0
    [] OTHER -> OrderRows(p, row)

RangeValue(row) == IF row.order = NullOrder THEN MinTime ELSE row.order

Timestamp(p, row, now) ==
  CASE EventTime(p) -> RangeValue(row)
    [] ByMillisecond(p) -> now
    [] p.final /\ ~p.rowsFrame /\ HasOffset(p) -> RangeValue(row)
    [] OTHER -> MinTime

Push(part, new) ==
  LET before == Len(SelectSeq(part.rows, LAMBDA r : r.order <= new.order))
  IN  [nextId |-> part.nextId + 1, rows |-> InsertAt(part.rows, before + 1, new)]

\* The first equal row of the sort key; 0 when there is none.
RemoveRow(part, order, row) ==
  LET found == {i \in 1..Len(part.rows) : part.rows[i].order = order /\ part.rows[i].row = row}
  IN  IF found = {} THEN 0 ELSE Min(found)

NextPendingEventTime(part) ==
  {t \in {part.rows[i].time : i \in {j \in 1..Len(part.rows) : part.rows[j].output = <<>>}} :
     \A i \in 1..Len(part.rows) : part.rows[i].output = <<>> => t <= part.rows[i].time}

-----------------------------------------------------------------------------
(* Frames. Each operator gives the output of every row it visits; a row whose *)
(* output differs becomes a change.                                           *)

ApplyValues(p, acc, rows, accumulate) ==
  FoldLeft(LAMBDA a, r : Apply(p.calls, a, r.row, accumulate), acc, rows)

FirstPeer(rows, i) == Min({j \in 1..i : rows[j].order = rows[i].order})
LastPeer(rows, i) == Max({j \in i..Len(rows) : rows[j].order = rows[i].order})

\* Rows from `first` on, each with everything before it (RANGE: and its peers).
RunningOutput(p, rows, first, acc) ==
  [i \in 1..Len(rows) |->
     IF i < first THEN rows[i].output
     ELSE ValuesOf(p.calls, ApplyValues(p, acc,
            SubSeq(rows, first, IF p.rowsFrame \/ ProcessingTime(p) THEN i ELSE LastPeer(rows, i)), TRUE))]

Recompute(p, rows) == RunningOutput(p, rows, 1, New(p.calls))

\* Up to `ready` one accumulator slides over the rows: it takes the row in and
\* the row that left the frame out.
Slid(p, s, acc, leaving) ==
  [acc |-> acc, first |-> s.first + leaving, out |-> Append(s.out, ValuesOf(p.calls, acc))]

SlideRows(p, rows) ==
  LET Step(s, i) ==
        LET full == i - s.first + 1 > p.offset
        IN  Slid(p, s, ApplyValues(p, Apply(p.calls, s.acc, rows[i].row, TRUE),
                                   IF full THEN <<rows[s.first]>> ELSE <<>>, FALSE),
                 IF full THEN 1 ELSE 0)
  IN  FoldLeft(Step, [acc |-> New(p.calls), first |-> 1, out |-> <<>>],
               [i \in 1..Len(rows) |-> i]).out

SlideRange(p, rows) ==
  LET Step(s, i) ==
        LET lower == rows[i].time - p.offset
            expired == Cardinality({j \in s.first..(i - 1) : \A k \in s.first..j : rows[k].time < lower})
            kept == ApplyValues(p, s.acc, SubSeq(rows, s.first, s.first + expired - 1), FALSE)
        IN  IF FirstPeer(rows, i) < i THEN [s EXCEPT !.out = Append(@, Last(@))]
            ELSE Slid(p, s, ApplyValues(p, kept, SubSeq(rows, i, LastPeer(rows, i)), TRUE), expired)
  IN  FoldLeft(Step, [acc |-> New(p.calls), first |-> 1, out |-> <<>>],
               [i \in 1..Len(rows) |-> i]).out

ReadyRows(rows, ready) ==
  SelectSeq(rows, LAMBDA r : \A i \in 1..Len(rows) : rows[i].order <= r.order => rows[i].time <= ready)

RecomputeBounded(p, rows, ready) ==
  LET Waiting(out) == [i \in 1..Len(rows) |-> IF i <= Len(out) THEN out[i] ELSE rows[i].output]
  IN  Waiting(IF p.rowsFrame THEN SlideRows(p, ReadyRows(rows, ready))
              ELSE SlideRange(p, ReadyRows(rows, ready)))

\* An accumulator that continues from an announced output. Only whether a sum
\* has a value matters, since nothing is taken back from it.
FromPrefixValues(p, values) ==
  [rowCount |-> 1,
   accumulators |-> [i \in DOMAIN p.calls |->
     LET call == p.calls[i]
         v == values[i]
     IN  CASE call.function \in {"Count", "CountStar"} -> [count |-> v, value |-> NULL, values |-> NoRows]
           [] Arithmetic(call) -> [count |-> IF v = NULL THEN 0 ELSE 1, value |-> v, values |-> NoRows]
           [] OTHER -> [count |-> 0, value |-> NULL, values |-> IF v = NULL THEN NoRows ELSE BagOf(<<v>>)]]]

\* Fault: a RANGE frame continues from the row before the changed one, which
\* may be its peer.
RecomputeFrom_FromPeer(p, rows, order, start) ==
  IF HasOffset(p) THEN RecomputeBounded(p, rows, MaxTime64)
  ELSE IF start = 1 \/ rows[start - 1].output = <<>> THEN Recompute(p, rows)
  ELSE RunningOutput(p, rows, start, FromPrefixValues(p, rows[start - 1].output))

\* After a change at `start` only the rows behind it, or behind its first peer,
\* are computed again.
RecomputeFrom(p, rows, order, start) ==
  LET first == IF p.rowsFrame \/ ProcessingTime(p) THEN start
               ELSE 1 + Len(SelectSeq(rows, LAMBDA r : r.order < order))
  IN  IF HasOffset(p) THEN RecomputeBounded(p, rows, MaxTime64)
      ELSE IF first = 1 \/ rows[first - 1].output = <<>> THEN Recompute(p, rows)
      ELSE RunningOutput(p, rows, first, FromPrefixValues(p, rows[first - 1].output))

WithOutput(rows, out) == [i \in 1..Len(rows) |-> [rows[i] EXCEPT !.output = out[i]]]
Changed(rows, out) == SelectSeq([i \in 1..Len(rows) |-> i], LAMBDA i : rows[i].output # out[i])

Event(kind, row, values) == Change(kind, [row |-> row, values |-> values])

EmitExistingChanges(rows, out, changed) ==
  FlattenSeq([n \in 1..Len(changed) |->
    LET r == rows[changed[n]]
    IN  IF r.output = <<>> THEN <<>>
        ELSE <<Event(UPDATE_BEFORE, r.row, r.output), Event(UPDATE_AFTER, r.row, out[changed[n]])>>])

EmitInsertAndChanges(p, rows, out, id, kind) ==
  FlattenSeq([n \in 1..Len(Changed(rows, out)) |->
    LET i == Changed(rows, out)[n]
    IN  CASE rows[i].id = id -> <<Event(kind, rows[i].row, out[i])>>
          [] p.changelog -> EmitExistingChanges(rows, out, <<i>>)
          [] OTHER -> <<>>])

-----------------------------------------------------------------------------
(* One row of a plan that announces at once or waits for a timer. s is        *)
(* [part, timers, out] of the row's partition.                                *)

\* One event timer per partition, at its earliest waiting row.
RegisterEventTimer(s, pushed, timestamp) ==
  LET pending == NextPendingEventTime(s.part)
  IN  [s EXCEPT !.part = pushed,
                !.timers = IF \A t \in pending : timestamp < t
                           THEN (@ \ pending) \cup {timestamp} ELSE @]

\* Announced at once: the row itself and what it changes behind it.
InsertAtOnce(p, s, pushed, kind, id) ==
  LET at == CHOOSE i \in 1..Len(pushed.rows) : pushed.rows[i].id = id
      Emit(out) == [s EXCEPT !.part = [pushed EXCEPT !.rows = WithOutput(@, out)],
                             !.out = @ \o EmitInsertAndChanges(p, pushed.rows, out, id, kind)]
  IN  Emit(RecomputeFrom(p, pushed.rows, pushed.rows[at].order, at))

AddRow(p, s, row, kind, now) ==
  LET new == Stored(OrderKey(p, row, now), s.part.nextId, Timestamp(p, row, now), row)
      pushed == Push(s.part, new)
  IN  CASE EventTime(p) -> RegisterEventTimer(s, pushed, new.time)
        [] ByMillisecond(p) -> [s EXCEPT !.part = pushed, !.timers = @ \cup {now + 1}]
        [] OTHER -> InsertAtOnce(p, s, pushed, kind, new.id)

\* A retracted row goes with the output announced for it; one that is not
\* there is only counted.
RetractRow(p, s, row, now) ==
  LET order == OrderKey(p, row, now)
      Emit(at, rows, out) ==
        [s EXCEPT !.part.rows = WithOutput(rows, out),
                  !.out = @ \o <<Event(DELETE, row, s.part.rows[at].output)>>
                            \o EmitExistingChanges(rows, out, Changed(rows, out))]
      Without(at, rows) == Emit(at, rows, RecomputeFrom(p, rows, order, at))
      From(at) == IF at = 0 THEN s ELSE Without(at, RemoveAt(s.part.rows, at))
  IN  From(RemoveRow(s.part, order, row))

IsLate(p, row, watermark) == EventTime(p) /\ RangeValue(row) <= watermark

ProcessRow(p, s, c, now, watermark) ==
  CASE IsLate(p, c.row, watermark) -> s
    [] Accumulates(c.kind) -> AddRow(p, s, c.row, c.kind, now)
    [] OTHER -> RetractRow(p, s, c.row, now)

\* Processing-time ROWS: the frame's rows are kept for their contributions.
RollingRow(p, s, row) ==
  LET full == Len(s.part.rows) >= p.offset
      new == Stored(0, s.part.nextId, MinTime, row)
      rows == Append(s.part.rows, new)
      Emit(acc) ==
        [s EXCEPT !.acc = acc,
                  !.part = [nextId |-> @.nextId + 1, rows |-> IF full THEN Tail(rows) ELSE rows],
                  !.out = Append(@, Event(INSERT, row, ValuesOf(p.calls, acc)))]
  IN  Emit(ApplyValues(p, Apply(p.calls, s.acc, row, TRUE),
                       IF full THEN <<s.part.rows[1]>> ELSE <<>>, FALSE))

\* Processing time without a frame limit: one accumulator.
CompactRow(p, s, row) ==
  LET Emit(acc) == [s EXCEPT !.acc = acc, !.out = Append(@, Event(INSERT, row, ValuesOf(p.calls, acc)))]
  IN  Emit(Apply(p.calls, s.acc, row, TRUE))

\* Bounded input only collects rows; a retraction of a row that is not there
\* fails the job.
CollectRow(p, part, c) ==
  LET order == OrderKey(p, c.row, 0)
      at == RemoveRow(part, order, c.row)
  IN  IF Accumulates(c.kind) THEN Push(part, Stored(order, part.nextId, Timestamp(p, c.row, 0), c.row))
      ELSE [part EXCEPT !.rows = RemoveAt(@, at)]

-----------------------------------------------------------------------------
(* Stored values: an index of rows behind [nextId], the rows inline (older    *)
(* releases), or one accumulator.                                             *)

IndexLoad(value) ==
  IF value = Absent THEN NoPartition ELSE [nextId |-> value.nextId, rows |-> value.rows]

\* Only the sort keys a bounded batch touches are read from an index.
AffectedLoad(value, orders) ==
  IF value = Absent \/ value.format = "inline" THEN IndexLoad(value)
  ELSE [nextId |-> value.nextId, rows |-> SelectSeq(value.rows, LAMBDA r : r.order \in orders)]

IndexValue(part) == [format |-> "index", nextId |-> part.nextId, rows |-> part.rows]

IndexMutations(part, keepEmpty) ==
  IF keepEmpty \/ part.rows # <<>> THEN IndexValue(part) ELSE Absent

\* The rows of other sort keys stay in the index, and so does their partition.
AffectedMutations(value, orders, part) ==
  LET others == IF value = Absent \/ value.format = "inline" THEN <<>>
                ELSE SelectSeq(value.rows, LAMBDA r : r.order \notin orders)
      all == FoldLeft(LAMBDA q, r : Push(q, r), [part EXCEPT !.rows = <<>>], others \o part.rows).rows
  IN  IndexMutations([nextId |-> part.nextId, rows |-> all],
                     value # Absent /\ value.format = "index")

\* Compact state, or rows of an older release replayed into it.
CompactLoad(p, value) ==
  CASE value = Absent -> New(p.calls)
    [] value.format = "compact" -> DecodeState(p.calls, value.acc)
    [] OTHER -> ApplyValues(p, New(p.calls), value.rows, TRUE)

CompactValue(p, acc) == [format |-> "compact", acc |-> EncodeState(p.calls, acc)]

-----------------------------------------------------------------------------
(* Timers.                                                                    *)

\* The rows a later frame can still need.
PruneBoundedState(p, rows, ready) ==
  LET processed == Len(ReadyRows(rows, ready))
      surplus == IF processed > p.offset THEN processed - p.offset ELSE 0
  IN  IF p.rowsFrame THEN SubSeq(rows, surplus + 1, Len(rows))
      ELSE SelectSeq(rows, LAMBDA r : r.time >= ready - p.offset)

\* Announces the rows that are due; frames of rows that waited are final now.
EmitReadyEventTime(p, part, ready) ==
  LET due == ReadyRows(part.rows, ready)
      Waited(i) == i <= Len(due) /\ part.rows[i].output = <<>>
      Rows(out) == [i \in 1..Len(part.rows) |->
                      IF HasOffset(p) \/ Waited(i) THEN [part.rows[i] EXCEPT !.output = out[i]]
                      ELSE part.rows[i]]
      Emit(out) ==
        [part |-> [part EXCEPT !.rows = IF HasOffset(p) THEN PruneBoundedState(p, Rows(out), ready)
                                        ELSE Rows(out)],
         out |-> [n \in 1..Len(SelectSeq([i \in 1..Len(due) |-> i], Waited)) |->
                    LET i == SelectSeq([j \in 1..Len(due) |-> j], Waited)[n]
                    IN  Event(INSERT, part.rows[i].row, out[i])]]
  IN  Emit(IF HasOffset(p) THEN RecomputeBounded(p, part.rows, ready) ELSE Recompute(p, due))

Due(timers, timestamp) ==
  SetToSortSeq({t \in timers : t.time <= timestamp},
               LAMBDA a, b : a.key < b.key \/ (a.key = b.key /\ a.time < b.time))

FirstN(seq, n) == SubSeq(seq, 1, IF Len(seq) < n THEN Len(seq) ELSE n)

\* One callback: at most TimersPerCallback timers, by key group and time. st
\* is [state, timers, out] of the operator.
FirePartition(p, s, k, done) ==
  [state |-> [s.state EXCEPT ![k] = IndexMutations(done.part, TRUE)],
   timers |-> s.timers \cup (IF EventTime(p)
                THEN {[key |-> k, time |-> t] : t \in NextPendingEventTime(done.part)} ELSE {}),
   out |-> s.out \o done.out]

FireTimers(p, st, timestamp) ==
  LET Through(fired, k) == IF EventTime(p) THEN timestamp
                           ELSE Max({f.time : f \in {g \in fired : g.key = k}}) - 1
      Fire(s, k, fired) ==
        IF s.state[k] = Absent THEN s
        ELSE FirePartition(p, s, k, EmitReadyEventTime(p, IndexLoad(s.state[k]), Through(fired, k)))
      FireAll(fired) ==
        FoldLeft(LAMBDA s, k : Fire(s, k, fired), [st EXCEPT !.timers = @ \ fired],
                 SetToSortSeq({f.key : f \in fired}, <))
  IN  FireAll(ToSet(FirstN(Due(st.timers, timestamp), TimersPerCallback)))

\* The host calls back until nothing is due.
EmitTimerOutput(p, st, timestamp) ==
  FoldLeft(LAMBDA s, i : FireTimers(p, s, timestamp), st, [i \in 1..(1 + Cardinality(st.timers)) |-> i])

-----------------------------------------------------------------------------
(* End of a bounded input.                                                    *)

\* Calls DataFusion's window expressions aggregate as Flink does: order
\* matters to a sum of decimals.
DataFusionCompatible(p) ==
  \A i \in DOMAIN p.calls : ~(Arithmetic(p.calls[i]) /\ p.calls[i].type = "decimal")

\* DataFusion evaluates each row's frame over the sorted rows.
DataFusionEvaluate(p, rows) ==
  LET InFrame(i, j) ==
        CASE p.rowsFrame -> j <= i /\ (HasOffset(p) => i - j < p.offset)
          [] HasOffset(p) -> rows[j].time \in (rows[i].time - p.offset)..rows[i].time
          [] OTHER -> rows[j].order <= rows[i].order
      Frame(i) == SelectSeq([j \in 1..Len(rows) |-> j], LAMBDA j : InFrame(i, j))
  IN  [i \in 1..Len(rows) |->
         ValuesOf(p.calls, ApplyValues(p, New(p.calls),
           [n \in 1..Len(Frame(i)) |-> rows[Frame(i)[n]]], TRUE))]

FinalOutput(p, value) ==
  LET rows == IndexLoad(value).rows
      Emit(out) == [i \in 1..Len(rows) |-> Event(INSERT, rows[i].row, out[i])]
  IN  Emit(CASE DataFusionCompatible(p) -> DataFusionEvaluate(p, rows)
             [] HasOffset(p) -> RecomputeBounded(p, rows, MaxTime64)
             [] OTHER -> Recompute(p, rows))

-----------------------------------------------------------------------------

CONSTANTS Plans, Keys, InputRows, MaxBatch, MaxRows, MaxTime, OutputRows

OverAggregateAssumption ==
  /\ Keys \subseteq Nat \ {0} /\ \A r \in InputRows : r.key \in Keys /\ r.order \in Nat
  /\ MaxBatch \in Nat \ {0} /\ MaxRows \in Nat /\ MaxTime \in Nat
  /\ OutputRows \in Nat \ {0} /\ TimersPerCallback \in Nat \ {0}

VARIABLES
  plan,
  state,          \* partition -> stored value
  timers,         \* the native timers of the plan's time domain
  progress,       \* watermark, or time of the latest processing-time callback
  now,            \* processing time
  phase,          \* "open", "terminal", "drained", "failed"
  cursor, pending,\* next key group of the terminal output; output not handed out
  live,           \* partition -> accepted changes with their arrival (history)
  table,          \* partition -> bag of announced rows (history)
  read            \* rows consumed

vars == <<plan, state, timers, progress, now, phase, cursor, pending, live, table, read>>

Init ==
  /\ plan \in {p \in Plans : ValidatePlan(p)}
  /\ state = [k \in Keys |-> Absent] /\ timers = {} /\ progress = MinTime /\ now = 1
  /\ phase = "open" /\ cursor = Min(Keys) /\ pending = <<>>
  /\ live = [k \in Keys |-> <<>>] /\ table = [k \in Keys |-> NoRows] /\ read = 0

-----------------------------------------------------------------------------
(* Input.                                                                     *)

\* Flink plans time attributes over appended rows only.
Kinds == IF EventTime(plan) \/ ~plan.changelog THEN {INSERT} ELSE {INSERT, DELETE}

\* A sort key is not looked at in processing time.
Rows == IF ProcessingTime(plan) THEN {r \in InputRows : r.order # NullOrder} ELSE InputRows

Batches ==
  {b \in UNION {[1..n -> [kind : Kinds, row : Rows]] : n \in 1..MaxBatch} : Len(b) + read <= MaxRows}

Of(k, batch) == SelectSeq(batch, LAMBDA c : c.row.key = k)
OutOf(k, changes) == SelectSeq(changes, LAMBDA c : c.row.row.key = k)

Accepted(batch) ==
  LET timely == SelectSeq(batch, LAMBDA c : ~IsLate(plan, c.row, progress))
  IN  [i \in 1..Len(timely) |-> [kind |-> timely[i].kind, row |-> timely[i].row, at |-> now]]

Announce(out) == table' = [k \in Keys |-> MaterializeBag(table[k], OutOf(k, out))]

Record(batch, out) ==
  /\ live' = [k \in Keys |-> live[k] \o Accepted(Of(k, batch))]
  /\ Announce(out)
  /\ read' = read + Len(batch)

-----------------------------------------------------------------------------
(* Batches.                                                                   *)

Gather(done) == FoldLeft(LAMBDA out, k : out \o done[k].out, <<>>, SetToSortSeq(Keys, <))

\* One partition's rows of a batch in a plan that keeps rows.
ProcessPartition(k, batch) ==
  LET start == [part |-> IndexLoad(state[k]),
                timers |-> {t.time : t \in {u \in timers : u.key = k}}, out |-> <<>>]
  IN  FoldLeft(LAMBDA s, c : ProcessRow(plan, s, c, now, progress), start, Of(k, batch))

\* A partition whose rows were all late is not written.
ProcessArrow(batch) ==
  /\ phase = "open" /\ ~Compact(plan) /\ ~Rolling(plan) /\ ~plan.final
  /\ \E done \in {[k \in Keys |-> ProcessPartition(k, batch)]} :
       /\ state' = [k \in Keys |-> IF Accepted(Of(k, batch)) = <<>> THEN state[k]
                                   ELSE IndexMutations(done[k].part, FALSE)]
       /\ timers' = UNION {{[key |-> k, time |-> t] : t \in done[k].timers} : k \in Keys}
       /\ Record(batch, Gather(done))
  /\ UNCHANGED <<plan, progress, now, phase, cursor, pending>>

\* Processing time: each row is announced with the accumulator it leaves.
ArrivalStart(k) ==
  [part |-> IF Rolling(plan) THEN IndexLoad(state[k]) ELSE NoPartition, out |-> <<>>,
   acc |-> IF Rolling(plan) THEN ApplyValues(plan, New(plan.calls), IndexLoad(state[k]).rows, TRUE)
           ELSE CompactLoad(plan, state[k])]

ProcessArrival(batch) ==
  LET Row(s, c) == IF Rolling(plan) THEN RollingRow(plan, s, c.row) ELSE CompactRow(plan, s, c.row)
  IN  /\ phase = "open" /\ (Compact(plan) \/ Rolling(plan))
      /\ \E done \in {[k \in Keys |-> FoldLeft(Row, ArrivalStart(k), Of(k, batch))]} :
           /\ state' = [k \in Keys |->
                CASE Of(k, batch) = <<>> -> state[k]
                  [] Rolling(plan) -> IndexMutations(done[k].part, TRUE)
                  [] OTHER -> CompactValue(plan, done[k].acc)]
           /\ Record(batch, Gather(done))
      /\ UNCHANGED <<plan, timers, progress, now, phase, cursor, pending>>

\* Bounded input: the rows of the touched sort keys are rewritten.
Collects(k, batch) ==
  LET orders == {OrderKey(plan, c.row, 0) : c \in ToSet(Of(k, batch))}
      Present(part, c) == Accumulates(c.kind) \/ RemoveRow(part, OrderKey(plan, c.row, 0), c.row) # 0
      Step(s, c) == IF s.ok /\ Present(s.part, c) THEN [s EXCEPT !.part = CollectRow(plan, @, c)]
                    ELSE [s EXCEPT !.ok = FALSE]
      Write(done) ==
        [ok |-> done.ok,
         value |-> IF Of(k, batch) = <<>> THEN state[k] ELSE AffectedMutations(state[k], orders, done.part)]
  IN  Write(FoldLeft(Step, [ok |-> TRUE, part |-> AffectedLoad(state[k], orders)], Of(k, batch)))

ProcessBoundedInput(batch) ==
  /\ phase = "open" /\ plan.final
  /\ \E done \in {[k \in Keys |-> Collects(k, batch)]} :
       /\ \A k \in Keys : done[k].ok
       /\ state' = [k \in Keys |-> done[k].value]
  /\ Record(batch, <<>>)
  /\ UNCHANGED <<plan, timers, progress, now, phase, cursor, pending>>

\* A retraction of a row that is not there, or input behind the terminal
\* output, fails the job.
RejectBoundedInput(batch) ==
  /\ plan.final
  /\ \/ phase = "open" /\ \E k \in Keys : ~Collects(k, batch).ok
     \/ phase \in {"terminal", "drained"}
  /\ phase' = "failed"
  /\ UNCHANGED <<plan, state, timers, progress, now, cursor, pending, live, table, read>>

-----------------------------------------------------------------------------
(* Time, end of input, checkpoints.                                           *)

Operator == [state |-> state, timers |-> timers, out |-> <<>>]

AdvanceTo(timestamp) ==
  /\ \E done \in {EmitTimerOutput(plan, Operator, timestamp)} :
       state' = done.state /\ timers' = done.timers /\ Announce(done.out)
  /\ progress' = timestamp
  /\ UNCHANGED <<plan, now, phase, cursor, pending, live, read>>

ProcessWatermark(watermark) ==
  /\ phase = "open" /\ EventTime(plan) /\ watermark > progress
  /\ AdvanceTo(watermark)

\* The host registers the earliest native timer; the call may come late.
OnProcessingTime ==
  /\ phase = "open" /\ ByMillisecond(plan) /\ timers # {}
  /\ Min({t.time : t \in timers}) <= now
  /\ AdvanceTo(Min({t.time : t \in timers}))

Tick ==
  /\ phase = "open" /\ ByMillisecond(plan) /\ now < MaxTime
  /\ now' = now + 1
  /\ UNCHANGED <<plan, state, timers, progress, phase, cursor, pending, live, table, read>>

\* Partitions are evaluated until a page is full; the page that comes up empty
\* is the last.
Finish ==
  LET Take(s, k) ==
        IF k < s.cursor \/ Len(s.pending) >= OutputRows THEN s
        ELSE [cursor |-> k + 1, pending |-> s.pending \o FinalOutput(plan, state[k])]
  IN  /\ plan.final /\ phase \in {"open", "terminal"}
      /\ \E all \in {FoldLeft(Take, [cursor |-> cursor, pending |-> pending], SetToSortSeq(Keys, <))} :
           /\ cursor' = all.cursor
           /\ pending' = SubSeq(all.pending, OutputRows + 1, Len(all.pending))
           /\ phase' = IF all.pending = <<>> /\ all.cursor > Max(Keys) THEN "drained" ELSE "terminal"
           /\ Announce(FirstN(all.pending, OutputRows))
      /\ UNCHANGED <<plan, state, timers, progress, now, live, read>>

\* What an older release would have stored: rows inline, and every arrived row
\* where this one keeps an accumulator.
Older(k) ==
  LET row(i) == Stored(0, i, MinTime, live[k][i].row)
  IN  CASE state[k] = Absent -> {Absent}
        [] Compact(plan) ->
             {[format |-> f, nextId |-> Len(live[k]), rows |-> [i \in 1..Len(live[k]) |-> row(i)]] :
                f \in {"index", "inline"}}
        [] OTHER -> {[state[k] EXCEPT !.format = "inline"]}

\* The restored watermark is announced to the native operator again.
CheckpointAndRestore ==
  /\ phase = "open"
  /\ \E older \in BOOLEAN, restored \in [Keys -> UNION {Older(k) \cup {state[k]} : k \in Keys}] :
       /\ \A k \in Keys : restored[k] \in (IF older THEN Older(k) ELSE {state[k]})
       /\ \E done \in {IF EventTime(plan)
                       THEN EmitTimerOutput(plan, [Operator EXCEPT !.state = restored], progress)
                       ELSE [Operator EXCEPT !.state = restored]} :
            state' = done.state /\ timers' = done.timers /\ Announce(done.out)
  /\ cursor' = Min(Keys) /\ pending' = <<>>
  /\ UNCHANGED <<plan, progress, now, phase, live, read>>

Next ==
  \/ phase = "open" /\ \E batch \in Batches :
       ProcessArrow(batch) \/ ProcessArrival(batch) \/ ProcessBoundedInput(batch)
  \/ plan.final /\ \E batch \in Batches : RejectBoundedInput(batch)
  \/ \E watermark \in 1..MaxTime : ProcessWatermark(watermark)
  \/ OnProcessingTime \/ Tick \/ Finish \/ CheckpointAndRestore

Spec == Init /\ [][Next]_vars

-----------------------------------------------------------------------------
(* Properties.                                                                *)

\* The accepted rows of a partition by arrival; a retraction takes the first
\* equal row.
Content(k) ==
  LET Add(rows, c) ==
        LET same == {i \in 1..Len(rows) : rows[i].row = c.row}
        IN  CASE Accumulates(c.kind) -> Append(rows, c)
              [] same = {} -> rows
              [] OTHER -> RemoveAt(rows, Min(same))
  IN  FoldLeft(Add, <<>>, live[k])

\* Where a row stands: by sort key, by the millisecond it arrived in, or by
\* arrival alone.
Place(rows, i) ==
  CASE ByMillisecond(plan) -> rows[i].at
    [] ProcessingTime(plan) -> i
    [] OTHER -> OrderRows(plan, rows[i].row)

\* j precedes i or is i.
UpTo(rows, j, i) ==
  Place(rows, j) < Place(rows, i) \/ (Place(rows, j) = Place(rows, i) /\ j <= i)

Distance(rows, j, i) ==
  IF ProcessingTime(plan) THEN rows[i].at - rows[j].at
  ELSE RangeValue(rows[i].row) - RangeValue(rows[j].row)

Frame(rows, i) ==
  {j \in 1..Len(rows) :
     CASE plan.rowsFrame ->
            UpTo(rows, j, i) /\ (HasOffset(plan) =>
              Cardinality({n \in 1..Len(rows) : UpTo(rows, n, i) /\ ~UpTo(rows, n, j)}) < plan.offset)
       [] HasOffset(plan) -> Distance(rows, j, i) \in 0..plan.offset
       [] OTHER -> Place(rows, j) <= Place(rows, i)}

\* SQL's value of the frame.
Row(rows, i) ==
  LET inFrame == SetToSortSeq(Frame(rows, i), <)
  IN  [row |-> rows[i].row,
       values |-> SqlValues(plan.calls, BagOf([n \in 1..Len(inFrame) |-> rows[inFrame[n]].row]))]

IsAnnounced(r) ==
  CASE EventTime(plan) -> r.row.order <= progress
    [] ByMillisecond(plan) -> r.at < progress
    [] OTHER -> plan.final => phase = "drained"

\* The table the query defines over the accepted input.
OverTable(k) ==
  LET rows == Content(k)
      due == SelectSeq([i \in 1..Len(rows) |-> i], LAMBDA i : IsAnnounced(rows[i]))
  IN  BagOf([n \in 1..Len(due) |-> Row(rows, due[n])])

\* However the input is cut into batches, across watermarks, callbacks and
\* restores of any stored format, what has been announced is the table of the
\* OVER query: every row with SQL's aggregate of its frame, once its time has
\* come and not before, each superseded value taken back; a row that waits has
\* a timer that will announce it, and no row a later frame needs is forgotten.
FramesAreExact ==
  \A k \in Keys :
    /\ phase \in {"open", "drained"} => table[k] = OverTable(k)
    /\ EventTime(plan) => {t.time : t \in {u \in timers : u.key = k}} =
                            NextPendingEventTime(IndexLoad(state[k]))
=============================================================================
