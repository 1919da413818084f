--------------------------- MODULE WindowAggregate ---------------------------
(* The keyed window aggregate operator over event time, processing time and   *)
(* row counts: batches, watermarks and timer callbacks of the Flink operator  *)
(* around the steps of the processor, with restores between them.             *)
EXTENDS Changelog

-----------------------------------------------------------------------------
(* The window aggregate that keeps one accumulator per group and window, with *)
(* a timer for each: what a batch, a partial batch, a count-window batch and  *)
(* a firing do to its state.                                                  *)
(*                                                                            *)
(* A state is [clock, timers, windows, counts, saved]: timers is the in-memory*)
(* timer service, saved the timers the store holds for each key group, which  *)
(* a write replaces for the key groups whose timers changed.                  *)

CONSTANTS MaxTimersPerOutput, KeyGroupOf

MIN == -1000

-----------------------------------------------------------------------------
(* Plans.                                                                     *)

CountKinds == {"CountTumble", "CountHop"}

ValidatePlan(p) ==
  /\ p.input = "partial" => ~p.processingTime /\ p.kind \notin CountKinds \cup {"Session"}
  /\ p.size > 0
  /\ p.kind \in {"Hop", "Cumulate"} => p.slide > 0 /\ p.size % p.slide = 0
  /\ p.kind = "CountTumble" => p.processingTime /\ p.slide = 0 /\ p.offset = 0
  /\ p.kind = "CountHop" => p.processingTime /\ p.slide > 0 /\ p.offset = 0

EmptyState == [clock |-> MIN, timers |-> {}, windows |-> <<>>, counts |-> <<>>, saved |-> <<>>]

-----------------------------------------------------------------------------
(* Accumulators: rows and a sum, enough to tell an exact merge from another.  *)

Zero == [rows |-> 0, sum |-> 0]
Plus(a, b) == [rows |-> a.rows + b.rows, sum |-> a.sum + b.sum]
Delta(c) == IF Accumulates(c.kind) THEN [rows |-> 1, sum |-> c.row.value]
            ELSE [rows |-> -1, sum |-> -c.row.value]
HasDelta(a) == a # Zero

StateOf(windows, w) == IF w \in DOMAIN windows THEN windows[w] ELSE Zero
Put(windows, w, acc) ==
  [v \in (DOMAIN windows \cup {w}) \ (IF acc.rows = 0 THEN {w} ELSE {}) |->
     IF v = w THEN acc ELSE windows[v]]

StateKey(key, w) == <<key, w.start, w.end>>
TimerKey(p, w) == [time |-> TimerTimestamp(p.zone, w[3] - 1), window |-> w]
GroupTimers(timers, group) == {t \in timers : KeyGroupOf[t.window[1]] = group}

\* The one write of an invocation: touched windows and the timers of every key
\* group in which a timer was registered or deleted.
WriteBatch(state, windows, timers, counts) ==
  LET dirty == {KeyGroupOf[t.window[1]] :
                  t \in (state.timers \ timers) \cup (timers \ state.timers)}
  IN  [state EXCEPT !.windows = windows, !.timers = timers, !.counts = counts,
         !.saved = [g \in DOMAIN @ \cup dirty |->
                      IF g \in dirty THEN GroupTimers(timers, g) ELSE @[g]]]

\* One accumulator for one window: nothing is subtracted from an empty window,
\* a timer comes with the first row and goes with the last.
ApplyToWindow(p, s, w, delta) ==
  LET old == StateOf(s.windows, w)
      new == Plus(old, delta)
  IN  IF old.rows = 0 /\ delta.rows <= 0 THEN s
      ELSE [windows |-> Put(s.windows, w, new),
            timers |-> IF old.rows = 0 /\ new.rows # 0 THEN s.timers \cup {TimerKey(p, w)}
                       ELSE IF new.rows = 0 THEN s.timers \ {TimerKey(p, w)} ELSE s.timers]

Late(p, clock, w) == TimerTimestamp(p.zone, w.end - 1) <= clock

\* The windows of a row: the attached one, or those of its time. A null bound
\* or time skips the row.
RowWindows(p, clock, row) ==
  IF p.input = "attached" THEN IF row.null THEN {} ELSE {Window(row.start, row.end)}
  ELSE IF p.processingTime THEN AssignWindows(p, ToWindowTime(p.zone, clock))
  ELSE IF row.null THEN {} ELSE AssignWindows(p, ToWindowTime(p.zone, row.time))

InOrder(windows) ==
  SetToSortSeq(windows, LAMBDA a, b : a.start < b.start \/ (a.start = b.start /\ a.end < b.end))

\* Lateness of all rows is decided at the clock of the batch.
ProcessDirect(p, state, batch) ==
  LET Row(s, c) ==
        FoldLeft(LAMBDA t, w : ApplyToWindow(p, t, StateKey(c.row.key, w), Delta(c)), s,
                 InOrder({w \in RowWindows(p, state.clock, c.row) : ~Late(p, state.clock, w)}))
      staged == FoldLeft(Row, [windows |-> state.windows, timers |-> state.timers], batch)
  IN  WriteBatch(state, staged.windows, staged.timers, state.counts)

-----------------------------------------------------------------------------
(* Two-phase: a stateless local stage sends one partial per group and slice   *)
(* of a batch.                                                                *)

SliceBounds(p, row) ==
  LET time == ToWindowTime(p.zone, row.time)
      size == IF p.kind = "Tumble" THEN p.size ELSE p.slide
      start == WindowStart(time, p.offset, size)
  IN  Window(start, start + size)

\* Over a changelog a partial that changes nothing is not sent.
LocalPartials(p, batch) ==
  LET kept == SelectSeq(batch, LAMBDA c : ~c.row.null)
      slices == {StateKey(kept[i].row.key, SliceBounds(p, kept[i].row)) : i \in DOMAIN kept}
      Partial(s) == FoldLeft(LAMBDA a, c : IF StateKey(c.row.key, SliceBounds(p, c.row)) = s
                                           THEN Plus(a, Delta(c)) ELSE a, Zero, kept)
  IN  {[slice |-> s, acc |-> Partial(s)] :
         s \in {t \in slices : p.changelog => HasDelta(Partial(t))}}

PartialWindows(p, slice) == AssignWindows(p, slice[3] - 1)

ProcessPartial(p, state, partials) ==
  LET Merge(s, part) ==
        FoldLeft(LAMBDA t, w : ApplyToWindow(p, t, StateKey(part.slice[1], w), part.acc), s,
                 InOrder({w \in PartialWindows(p, part.slice) : ~Late(p, state.clock, w)}))
      staged == FoldLeft(Merge, [windows |-> state.windows, timers |-> state.timers],
                         SetToSeq(partials))
  IN  WriteBatch(state, staged.windows, staged.timers, state.counts)

-----------------------------------------------------------------------------
(* Count windows: windows of row numbers, emitted by their last row.          *)

CountOf(counts, key) == IF key \in DOMAIN counts THEN counts[key] ELSE 0

CountWindowIds(p, current) ==
  IF p.kind = "CountTumble" THEN {current \div p.size}
  ELSE {id \in 0..(current \div p.slide) : current < id * p.slide + p.size}

CountStep(p) == IF p.kind = "CountTumble" THEN p.size ELSE p.slide

CountRow(p, s, c) ==
  LET current == CountOf(s.counts, c.row.key)
      Key(id) == StateKey(c.row.key, Window(id * CountStep(p), id * CountStep(p) + p.size))
      touched == {Key(id) : id \in CountWindowIds(p, current)}
      New(w) == Plus(StateOf(s.windows, w), Delta(c))
      full == {w \in touched : current = w[3] - 1}
  IN  [windows |-> [w \in (DOMAIN s.windows \cup touched) \ full |->
                      IF w \in touched THEN New(w) ELSE s.windows[w]],
       counts |-> [k \in DOMAIN s.counts \cup {c.row.key} |->
                     IF k = c.row.key THEN current + 1 ELSE s.counts[k]],
       out |-> s.out \cup {[window |-> w, acc |-> New(w)] : w \in full}]

ProcessCountBatch(p, state, batch) ==
  LET staged == FoldLeft(LAMBDA s, c : CountRow(p, s, c),
                         [windows |-> state.windows, counts |-> state.counts, out |-> {}], batch)
  IN  [state |-> WriteBatch(state, staged.windows, state.timers, staged.counts),
       out |-> staged.out]

-----------------------------------------------------------------------------
(* Firing.                                                                    *)

\* Due timers in order of time, at most MaxTimersPerOutput of them.
DueTimers(state, progress) ==
  LET due == {t \in state.timers : t.time <= progress}
      order == SetToSortSeq(due, LAMBDA a, b : a.time < b.time)
  IN  {order[i] : i \in 1..Min({MaxTimersPerOutput, Len(order)})}

Fire(state, progress) ==
  LET fired == {t.window : t \in DueTimers(state, progress)}
      kept == DOMAIN state.windows \ fired
  IN  [state |-> WriteBatch(state, Restrict(state.windows, kept),
                            state.timers \ DueTimers(state, progress), state.counts),
       out |-> {[window |-> w, acc |-> state.windows[w]] : w \in fired \cap DOMAIN state.windows}]

\* The clock never runs back, and nothing fires for a time it has passed.
Advance(state, progress) ==
  IF progress < state.clock THEN [state |-> state, out |-> {}]
  ELSE Fire([state EXCEPT !.clock = progress], progress)

NextTimer(state) == IF state.timers = {} THEN -MIN ELSE Min({t.time : t \in state.timers})

\* A restored operator has the store and the timers saved in it, and no clock.
RestoreKeyGroups(state) ==
  [state EXCEPT !.clock = MIN, !.timers = UNION {state.saved[g] : g \in DOMAIN state.saved}]

-----------------------------------------------------------------------------

CONSTANTS Plans, Keys, Times, Values, Watermarks, MaxNow, MaxChanges, MaxBatch

VARIABLES
  plan, state,
  now,        \* the processing-time clock of the task
  watermark,  \* the operator's own, which a checkpoint stores
  due,        \* the time whose timers are being emitted, MIN when idle
  log,        \* the changes processed, each with the operator's clock (history)
  results     \* what each window was emitted with, in order (history)

vars == <<plan, state, now, watermark, due, log, results>>

Init ==
  /\ plan \in {p \in Plans : ValidatePlan(p)}
  /\ state = EmptyState
  /\ now = 0 /\ watermark = MIN /\ due = MIN /\ log = <<>> /\ results = <<>>

Emitted(out) ==
  [w \in DOMAIN results \cup {r.window : r \in out} |->
     (IF w \in DOMAIN results THEN results[w] ELSE <<>>) \o
     SetToSeq({r.acc : r \in {q \in out : q.window = w}})]

-----------------------------------------------------------------------------
(* Input: rows in their table function's windows where these are attached,    *)
(* and only rows that are there are retracted.                                *)

Rows ==
  LET row(key, time, value, null, w) ==
        [key |-> key, time |-> time, value |-> value, null |-> null, start |-> w.start, end |-> w.end]
      windows(t) == IF plan.input = "attached" THEN AssignWindows(plan, t) ELSE {Window(0, 0)}
      times == IF plan.processingTime THEN {0} ELSE Times
  IN  UNION {{row(k, t, v, FALSE, w) : w \in windows(t)} : k \in Keys, t \in times, v \in Values}
      \cup {row(k, 0, 1, TRUE, Window(0, 0)) : k \in IF plan.processingTime THEN {} ELSE Keys}

Changes ==
  {Change(INSERT, r) : r \in Rows} \cup
  {Change(DELETE, r) : r \in IF plan.changelog THEN Rows ELSE {}}

Present(changes) == MaterializeBag(NoRows, changes)
WellFormed(changes) == \A i \in 1..Len(changes) :
                         \A r \in DOMAIN Present(SubSeq(changes, 1, i)) : Present(SubSeq(changes, 1, i))[r] > 0

-----------------------------------------------------------------------------
(* Actions.                                                                   *)

\* The clock of a processing-time operator is the task's at the batch.
BatchClock == IF plan.processingTime THEN Max({state.clock, now}) ELSE state.clock

ProcessArrow(batch) ==
  LET before == [state EXCEPT !.clock = BatchClock]
      step == CASE plan.input = "partial" ->
                     [state |-> ProcessPartial(plan, before, LocalPartials(plan, batch)), out |-> {}]
                [] plan.kind \in CountKinds -> ProcessCountBatch(plan, before, batch)
                [] OTHER -> [state |-> ProcessDirect(plan, before, batch), out |-> {}]
  IN  /\ due = MIN
      /\ state' = step.state /\ results' = Emitted(step.out)
      /\ log' = log \o [i \in DOMAIN batch |-> [change |-> batch[i], clock |-> BatchClock]]
      /\ UNCHANGED <<plan, now, watermark, due>>

Tick ==
  /\ plan.processingTime /\ now < MaxNow /\ now' = now + 1
  /\ UNCHANGED <<plan, state, watermark, due, log, results>>

\* A watermark is taken when it advances.
ProcessWatermark(time) ==
  /\ ~plan.processingTime /\ due = MIN /\ time > watermark
  /\ watermark' = time /\ due' = time
  /\ UNCHANGED <<plan, state, now, log, results>>

\* The callback of the earliest timer comes some time after it, between
\* batches.
OnProcessingTime ==
  /\ plan.processingTime /\ due = MIN /\ NextTimer(state) < now
  /\ due' = NextTimer(state)
  /\ UNCHANGED <<plan, state, now, watermark, log, results>>

\* The native operator is advanced to the same time until none of its timers
\* is due.
EmitTimerOutput ==
  LET step == Advance(state, due)
  IN  /\ due # MIN
      /\ state' = step.state /\ results' = Emitted(step.out)
      /\ due' = IF NextTimer(step.state) <= due THEN due ELSE MIN
      /\ UNCHANGED <<plan, now, watermark, log>>

\* A checkpoint between invocations and a failure: the restored operator first
\* advances to the watermark it stored.
CheckpointAndRestore ==
  /\ due = MIN
  /\ state' = RestoreKeyGroups(state)
  /\ due' = watermark
  /\ UNCHANGED <<plan, now, watermark, log, results>>

Next ==
  \/ /\ due = MIN /\ Len(log) < MaxChanges
     /\ \E batch \in BoundedSeq(Changes, Min({MaxBatch, MaxChanges - Len(log)})) \ {<<>>} :
          /\ WellFormed([i \in DOMAIN log |-> log[i].change] \o batch)
          /\ ProcessArrow(batch)
  \/ Tick
  \/ \E time \in Watermarks : ProcessWatermark(time)
  \/ OnProcessingTime
  \/ EmitTimerOutput
  \/ CheckpointAndRestore

Spec == Init /\ [][Next]_vars

-----------------------------------------------------------------------------
(* Reference.                                                                 *)

\* The windows that contain a time, from what the table functions promise.
InWindow(p, w, t) ==
  /\ w.start <= t /\ t < w.end
  /\ CASE p.kind = "Tumble" -> w.end - w.start = p.size /\ (w.start - p.offset) % p.size = 0
       [] p.kind = "Hop" -> w.end - w.start = p.size /\ (w.start - p.offset) % p.slide = 0
       [] OTHER -> /\ (w.start - p.offset) % p.size = 0
                   /\ w.end - w.start <= p.size /\ (w.end - w.start) % p.slide = 0

\* A window is closed once the local clock has reached its last unit for good.
Closed(w, clock) ==
  LET Local(e) == ToWindowTime(plan.zone, e)
  IN  /\ \E e \in (w.start - 8)..(w.end + 8) : e <= clock /\ Local(e) >= w.end - 1
      /\ \A e \in (w.start - 8)..(w.end + 8) : e > clock => Local(e) >= w.end

\* The windows in which a logged change counts.
OpenWindows(entry) ==
  LET row == entry.change.row
      t == ToWindowTime(plan.zone, IF plan.processingTime THEN entry.clock ELSE row.time)
      all == IF plan.input = "attached" THEN {Window(row.start, row.end)}
             ELSE {w \in [start : t - plan.size..t, end : t + 1..t + plan.size] :
                     InWindow(plan, w, t)}
  IN  IF row.null THEN {} ELSE {StateKey(row.key, w) : w \in {v \in all : ~Closed(v, entry.clock)}}

Total(w, entries) == FoldLeft(LAMBDA a, e : Plus(a, Delta(e.change)), Zero, entries)

Counted ==
  [w \in UNION {OpenWindows(log[i]) : i \in DOMAIN log} |->
     Total(w, SelectSeq(log, LAMBDA e : w \in OpenWindows(e)))]

-----------------------------------------------------------------------------
(* Properties.                                                                *)

TimeWindowsAreExact ==
  /\ \A w \in DOMAIN results : results[w] = <<Counted[w]>> /\ w \notin DOMAIN state.windows
  /\ \A w \in DOMAIN Counted \ DOMAIN results :
       IF Counted[w].rows = 0 THEN w \notin DOMAIN state.windows
       ELSE /\ w \in DOMAIN state.windows /\ state.windows[w] = Counted[w]
            /\ Closed(Window(w[2], w[3]), state.clock) => plan.processingTime \/ due # MIN
  /\ state.timers = {TimerKey(plan, w) : w \in DOMAIN state.windows}

CountWindowsAreExact ==
  \A k \in Keys :
    LET mine == SelectSeq(log, LAMBDA e : e.change.row.key = k)
        step == IF plan.kind = "CountTumble" THEN plan.size ELSE plan.slide
        starts == {s \in 0..Len(mine) : s % step = 0}
        Wanted(s, e) == <<Total(<<k, s, e>>, SubSeq(mine, s + 1, Min({e, Len(mine)})))>>
    IN  \A s \in starts :
          LET w == <<k, s, s + plan.size>>
          IN  IF s + plan.size <= Len(mine)
              THEN w \in DOMAIN results /\ results[w] = Wanted(s, s + plan.size)
                   /\ w \notin DOMAIN state.windows
              ELSE w \notin DOMAIN results /\
                   (s < Len(mine) => <<state.windows[w]>> = Wanted(s, s + plan.size))

=============================================================================
