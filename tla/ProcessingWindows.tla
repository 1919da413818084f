--------------------------- MODULE ProcessingWindows ---------------------------
(* Buffered processing-time TUMBLE windows: one operator that registers the   *)
(* timer of every arrival, buffers the rows, and fires when Flink calls back. *)
EXTENDS SharedSlices

CONSTANTS Plans, Keys, MaxNow, MaxRows, MaxBatch

VARIABLES
  plan, buffer, slices,
  now,        \* the processing-time clock of the task
  deadline,   \* of the callback that is being polled, MIN when idle
  arrived,    \* rows per key and window (history)
  results,    \* rows each window was emitted with, Twice if not once (history)
  read

vars == <<plan, buffer, slices, now, deadline, arrived, results, read>>

Twice == -1

ValidatePlan(p) == p.processingTime /\ ValidSlicePlan(p) /\ p.size > 0

Init ==
  /\ plan \in {p \in Plans : ValidatePlan(p)}
  /\ buffer = EmptyBuffer(TRUE) /\ slices = EmptySlices
  /\ now = 0 /\ deadline = MIN /\ arrived = <<>> /\ results = <<>> /\ read = 0

\* Published partials are merged without touching timers or the clock.
Publish(state, chunks) ==
  FoldLeft(LAMBDA s, partials : ProcessPartials(plan, s, partials), state, chunks)

WindowEnd(clock) == WindowStart(clock, plan.offset, plan.size) + plan.size

RegisterProcessingTimers(state, rows) ==
  [state EXCEPT !.timers = @ \cup {Timer(rows[i].key, WindowEnd(rows[i].time)) : i \in DOMAIN rows}]

Counted(rows) ==
  LET new == [i \in DOMAIN rows |-> <<rows[i].key, WindowEnd(rows[i].time)>>]
  IN  [p \in DOMAIN arrived \cup Range(new) |->
         (IF p \in DOMAIN arrived THEN arrived[p] ELSE 0) +
         Cardinality({i \in DOMAIN new : new[i] = p})]

\* Every row carries the clock of its arrival; the clock does not run back.
Process(rows) ==
  LET step == Push(plan, buffer, rows)
  IN  /\ deadline = MIN /\ read + Len(rows) <= MaxRows
      /\ buffer' = step.buffer
      /\ slices' = Publish(RegisterProcessingTimers(slices, rows), step.out)
      /\ arrived' = Counted(rows) /\ read' = read + Len(rows)
      /\ now' = rows[Len(rows)].time
      /\ UNCHANGED <<plan, deadline, results>>

Tick ==
  /\ now < MaxNow /\ now' = now + 1
  /\ UNCHANGED <<plan, buffer, slices, deadline, arrived, results, read>>

\* Flink calls back after the earliest timer: the buffer sees the deadline
\* before the timers do.
ProcessingTime ==
  LET step == Control(plan, buffer, "Clock", NextTimer(slices))
  IN  /\ deadline = MIN /\ slices.timers # {} /\ NextTimer(slices) < now
      /\ deadline' = NextTimer(slices)
      /\ buffer' = step.buffer /\ slices' = Publish(slices, step.out)
      /\ UNCHANGED <<plan, now, arrived, results, read>>

Emit(out) ==
  [p \in DOMAIN results \cup {<<r.key, r.end>> : r \in out} |->
     LET new == {r \in out : <<r.key, r.end>> = p}
     IN  IF new = {} THEN results[p]
         ELSE IF p \in DOMAIN results THEN Twice ELSE (CHOOSE r \in new : TRUE).rows]

Fire ==
  LET step == Advance(plan, slices, deadline)
  IN  /\ deadline # MIN /\ NextTimer(slices) <= deadline
      /\ slices' = step.slices /\ results' = Emit(step.out)
      /\ UNCHANGED <<plan, buffer, now, deadline, arrived, read>>

EndFire ==
  /\ deadline # MIN /\ NextTimer(slices) > deadline
  /\ deadline' = MIN
  /\ UNCHANGED <<plan, buffer, slices, now, arrived, results, read>>

\* An event-time watermark is remembered and flushes nothing.
Watermark(time) ==
  LET step == Control(plan, buffer, "OtherClock", time)
  IN  /\ deadline = MIN /\ time > slices.clock
      /\ buffer' = step.buffer
      /\ slices' = [Publish(slices, step.out) EXCEPT !.clock = time]
      /\ UNCHANGED <<plan, now, deadline, arrived, results, read>>

\* The buffer is flushed before the snapshot, which needs it empty; a restored
\* buffer starts its clock anew.
CheckpointAndRestore(restored) ==
  LET step == Control(plan, buffer, "BeforeCheckpoint", 0)
  IN  /\ deadline = MIN /\ step.buffer.groups = <<>>
      /\ slices' = RestoreSlices(Publish(slices, step.out), slices.clock)
      /\ buffer' = IF restored THEN EmptyBuffer(TRUE) ELSE step.buffer
      /\ UNCHANGED <<plan, now, deadline, arrived, results, read>>

Batches ==
  {b \in BoundedSeq([key : Keys, time : now..MaxNow], MaxBatch) :
     b # <<>> /\ \A i \in 1..(Len(b) - 1) : b[i].time <= b[i + 1].time}

Next ==
  \/ deadline = MIN /\ read < MaxRows /\ \E rows \in Batches : Process(rows)
  \/ Tick \/ ProcessingTime \/ Fire \/ EndFire
  \/ \E time \in 0..1 : Watermark(time)
  \/ \E restored \in BOOLEAN : CheckpointAndRestore(restored)

Spec == Init /\ [][Next]_vars

-----------------------------------------------------------------------------
(* Properties.                                                                *)

\* A processing-time window is emitted once, with exactly the rows that arrived
\* in it, whether they were published by pressure, a checkpoint or the
\* deadline itself; the row waits in the buffer or in a slice, always with a
\* timer, until then (shared_processing.rs, shared_slices/processing_time.rs).
ArrivalsAreCounted ==
  /\ \A p \in DOMAIN results : results[p] = arrived[p] /\ p[2] - 1 < now
  /\ \A p \in DOMAIN arrived \ DOMAIN results :
       /\ Timer(p[1], p[2]) \in slices.timers
       /\ arrived[p] = Rows(slices, p[1], p[2]) +
            FoldLeft(LAMBDA n, g : n + (IF <<g.key, g.end>> = p THEN g.rows ELSE 0), 0, buffer.groups)
  /\ DOMAIN slices.state \cap DOMAIN results = {}
=============================================================================
