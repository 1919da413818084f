---------------------------- MODULE SharedSlices -----------------------------
(* The keyed slices of a window aggregation and the timers of its windows. A  *)
(* HOP window is the merge of the slices it spans: a slice lives until the    *)
(* last window over it has fired. Accumulators are row counts.                *)
EXTENDS Changelog

-----------------------------------------------------------------------------
(* The buffer of a local window aggregation: rows are grouped by key and      *)
(* slice and flushed as partials when the buffer is full, when its clock      *)
(* closes a slice, and before a checkpoint. Accumulators are row counts; a    *)
(* batch with all the flushes it causes is one invocation.                    *)

CONSTANTS
  Capacity,     \* records of the Flink buffer: one per row and one per group
  OutputRows,   \* partials of one output batch
  MaxTime       \* Long.MAX_VALUE: the last watermark, and no slice at all

BufferAssumption == Capacity \in Nat \ {0, 1} /\ OutputRows \in Nat \ {0}

MIN == -1       \* Long.MIN_VALUE

\* Clock and trigger of the event-time buffer start at the epoch.
EmptyBuffer(processingTime) ==
  LET zero == IF processingTime THEN MIN ELSE 0
  IN  [groups |-> <<>>, minSliceEnd |-> MaxTime, progress |-> zero, trigger |-> zero]

SliceSize(plan) == IF plan.kind = "Tumble" THEN plan.size ELSE plan.slide

ValidLocalPlan(plan) ==
  /\ plan.kind \in {"Tumble", "Hop", "Cumulate"} /\ plan.size > 0
  /\ plan.kind # "Tumble" => plan.slide > 0 /\ plan.size % plan.slide = 0
  /\ plan.attached => plan.kind \in {"Tumble", "Hop"}

\* An attached window is its own slice and is known by its end.
SliceBounds(plan, row) ==
  IF plan.attached THEN Window(row.end - plan.size, row.end)
  ELSE LET start == WindowStart(row.time, plan.offset, SliceSize(plan))
       IN  Window(start, start + SliceSize(plan))

Used(buffer) == FoldLeft(LAMBDA n, g : n + g.rows + 1, 0, buffer.groups)

Appends(buffer, isNew) == Used(buffer) + (IF isNew THEN 2 ELSE 1) <= Capacity

\* The partials in the order their groups appeared, in batches.
EmitChunks(groups) ==
  [c \in 1..((Len(groups) + OutputRows - 1) \div OutputRows) |->
     SubSeq(groups, (c - 1) * OutputRows + 1,
            IF c * OutputRows < Len(groups) THEN c * OutputRows ELSE Len(groups))]

Flushed(buffer) == [buffer EXCEPT !.groups = <<>>, !.minSliceEnd = MaxTime]

WithRow(buffer, key, bounds) ==
  LET same == {i \in DOMAIN buffer.groups :
                 /\ buffer.groups[i].key = key
                 /\ buffer.groups[i].start = bounds.start /\ buffer.groups[i].end = bounds.end}
  IN  [buffer EXCEPT
         !.groups = IF same # {} THEN [@ EXCEPT ![Max(same)].rows = @ + 1]
                    ELSE Append(@, [key |-> key, start |-> bounds.start, end |-> bounds.end, rows |-> 1]),
         !.minSliceEnd = IF bounds.end < @ THEN bounds.end ELSE @]

HasGroup(buffer, key, bounds) ==
  \E i \in DOMAIN buffer.groups :
    /\ buffer.groups[i].key = key
    /\ buffer.groups[i].start = bounds.start /\ buffer.groups[i].end = bounds.end

\* A row that does not fit flushes the buffer and is tried again.
ConsumeRow(acc, key, bounds) ==
  IF Appends(acc.buffer, ~HasGroup(acc.buffer, key, bounds))
  THEN [acc EXCEPT !.buffer = WithRow(@, key, bounds)]
  ELSE [buffer |-> WithRow(Flushed(acc.buffer), key, bounds),
        out |-> acc.out \o EmitChunks(acc.buffer.groups)]

Push(plan, buffer, rows) ==
  FoldLeft(LAMBDA acc, row : ConsumeRow(acc, row.key, SliceBounds(plan, row)),
           [buffer |-> buffer, out |-> <<>>], rows)

\* The clock flushes at slice boundaries only, and only if a slice closed.
NextTrigger(plan, progress) ==
  LET trigger == WindowStart(progress, plan.offset, SliceSize(plan)) + SliceSize(plan) - 1
  IN  IF progress = MaxTime THEN progress
      ELSE IF trigger > progress THEN trigger ELSE trigger + SliceSize(plan)

\* Fault: a slice counts as closed one millisecond late.
AdvanceBufferClock_Late(plan, buffer, progress) ==
  IF progress <= buffer.progress THEN [buffer |-> buffer, flush |-> FALSE]
  ELSE [buffer |-> [buffer EXCEPT !.progress = progress], flush |-> progress >= buffer.minSliceEnd]

AdvanceBufferClock(plan, buffer, progress) ==
  IF progress <= buffer.progress THEN [buffer |-> buffer, flush |-> FALSE]
  ELSE IF progress < buffer.trigger
       THEN [buffer |-> [buffer EXCEPT !.progress = progress], flush |-> FALSE]
       ELSE [buffer |-> [buffer EXCEPT !.progress = progress,
                                       !.trigger = NextTrigger(plan, progress)],
             flush |-> /\ buffer.minSliceEnd # MaxTime
                       /\ progress >= buffer.minSliceEnd - 1]

FlushIf(step) ==
  IF step.flush THEN [buffer |-> Flushed(step.buffer), out |-> EmitChunks(step.buffer.groups)]
  ELSE [buffer |-> step.buffer, out |-> <<>>]

\* The partials a control event sends ahead of itself. The end of the input
\* alone flushes nothing: the last watermark does.
Control(plan, buffer, event, time) ==
  FlushIf(CASE event = "BeforeCheckpoint" -> [buffer |-> buffer, flush |-> TRUE]
            [] event = "Clock" -> AdvanceBufferClock(plan, buffer, time)
            [] event \in {"EndInput", "OtherClock"} -> [buffer |-> buffer, flush |-> FALSE])

-----------------------------------------------------------------------------

CONSTANT FireRows       \* timers one poll fires

EmptySlices == [state |-> <<>>, timers |-> {}, clock |-> MIN]

\* An attached window is an unshared slice.
SharesSlices(plan) == plan.kind = "Hop" /\ ~plan.attached

ValidSlicePlan(plan) ==
  /\ plan.kind \in {"Tumble", "Hop"} /\ ~plan.changelog
  /\ plan.processingTime => plan.kind = "Tumble" /\ ~plan.attached

LastWindowEnd(plan, sliceEnd) ==
  IF SharesSlices(plan) THEN sliceEnd - plan.slide + plan.size ELSE sliceEnd

\* The first window over the slice that the clock has not closed.
FirstUnfired(plan, clock, sliceEnd) ==
  IF ~SharesSlices(plan) \/ sliceEnd - 1 > clock THEN sliceEnd
  ELSE sliceEnd + ((clock + 1 - sliceEnd) \div plan.slide + 1) * plan.slide

Timer(key, end) == [time |-> end - 1, key |-> key, end |-> end]
NextTimer(slices) == Min({t.time : t \in slices.timers} \cup {MaxTime})
Rows(slices, key, end) ==
  IF <<key, end>> \in DOMAIN slices.state THEN slices.state[<<key, end>>] ELSE 0

\* The bounds of a partial are those of the planned slice or attached window.
ValidPartial(plan, p) ==
  p.start = p.end - (IF SharesSlices(plan) THEN plan.slide ELSE plan.size)

\* A partial is late once the last window over its slice is closed.
Late(plan, slices, p) ==
  ~plan.processingTime /\ LastWindowEnd(plan, p.end) - 1 <= slices.clock

\* Event-time partials bring the timer of the first window they can reach;
\* the timer of a processing-time slice belongs to the arrival of its rows.
PartialTimers(plan, slices, live) ==
  IF plan.processingTime THEN {}
  ELSE {Timer(live[i].key, FirstUnfired(plan, slices.clock, live[i].end)) : i \in DOMAIN live}

MergePartial(state, p) ==
  LET at == <<p.key, p.end>>
  IN  (at :> (p.rows + (IF at \in DOMAIN state THEN state[at] ELSE 0))) @@ state

ProcessPartials(plan, slices, partials) ==
  LET live == SelectSeq(partials, LAMBDA p : ~Late(plan, slices, p))
  IN  [slices EXCEPT !.state = FoldLeft(MergePartial, @, live),
                     !.timers = @ \cup PartialTimers(plan, slices, live)]

\* Timers are taken key group by key group, up to the limit.
DueTimers(slices, frontier) ==
  LET due == {t \in slices.timers : t.time <= frontier}
      Before(t, u) == t.key < u.key \/ (t.key = u.key /\ t.time < u.time)
  IN  {t \in due : Cardinality({u \in due : Before(u, t)}) < FireRows}

SlicesOf(plan, end) ==
  IF ~SharesSlices(plan) THEN {end}
  ELSE {end - i * plan.slide : i \in 0..((plan.size \div plan.slide) - 1)}

Expired(plan, end) == IF SharesSlices(plan) THEN end - plan.size + plan.slide ELSE end

\* Fault: every due timer fires at once, whatever the callbacks register.
Frontier_All(slices, progress) == progress

\* One timestamp at a time: a callback may register a window that closes
\* before another one that is due.
Frontier(slices, progress) ==
  IF NextTimer(slices) < progress THEN NextTimer(slices) ELSE progress

\* The window of a timer, merged from its slices.
WindowOf(plan, slices, t) ==
  [key |-> t.key, start |-> t.end - plan.size, end |-> t.end,
   rows |-> FoldSet(LAMBDA e, n : n + Rows(slices, t.key, e), 0, SlicesOf(plan, t.end))]

\* Insert-only processing-time windows are emitted even when they are empty.
IsEmitted(plan, window) == plan.processingTime \/ window.rows # 0

Advance(plan, slices, progress) ==
  LET fired == DueTimers(slices, Frontier(slices, progress))
      emitted == {t \in fired : IsEmitted(plan, WindowOf(plan, slices, t))}
      gone == {<<t.key, Expired(plan, t.end)>> : t \in fired}
      following == IF SharesSlices(plan) THEN {Timer(t.key, t.end + plan.slide) : t \in emitted}
                   ELSE {}
  IN  IF ~plan.processingTime /\ progress < slices.clock
      THEN [slices |-> slices, out |-> {}]
      ELSE [slices |-> [state |-> Restrict(slices.state, DOMAIN slices.state \ gone),
                        timers |-> (slices.timers \ fired) \cup following,
                        clock |-> IF plan.processingTime THEN slices.clock ELSE progress],
            out |-> {WindowOf(plan, slices, t) : t \in emitted}]

\* Slices and timers come from the checkpoint, the clock from the watermark
\* that Flink stores for the operator.
RestoreSlices(slices, watermark) == [slices EXCEPT !.clock = watermark]
=============================================================================
