----------------------------- MODULE Deduplicate -----------------------------
(* The native deduplicate operator (DeduplicateProcessor under UnaryExec). A  *)
(* batch reads the state of its keys once, stages the rows that win on top of *)
(* it, writes the last staged value of each key in one batch and emits a      *)
(* change for every winner on the way.                                        *)
EXTENDS Changelog

CONSTANTS
  Plans,          \* plan options: [processingTime, keepLast, generateInsert, generateUpdateBefore, inputChangelog]
  Keys, Values,
  Ticks,          \* timestamps of the order column, in its own unit
  TicksPerMilli,  \* how many of them make a millisecond
  MaxBatch, MaxRows

DeduplicateAssumption ==
  /\ Ticks \subseteq Int /\ TicksPerMilli \in Nat \ {0}
  /\ MaxBatch \in Nat \ {0} /\ MaxRows \in Nat

Rows == [key : Keys, order : Ticks, value : Values]
Absent == [order |-> {}]     \* no value under the key
NoRow == [key |-> {}]        \* a value without a stored row
Unset == [staged |-> FALSE]  \* the batch has not staged this key

VARIABLES
  plan,        \* the plan options
  state,       \* key -> stored value, or Absent
  input,       \* changes consumed so far (history)
  table,       \* what the consumer has made of the output (history)
  invocation,  \* InvocationState
  saved        \* the latest checkpoint

vars == <<plan, state, input, table, invocation, saved>>

Init ==
  /\ plan \in Plans
  /\ state = [k \in Keys |-> Absent]
  /\ input = <<>> /\ table = {} /\ invocation = "Idle"
  /\ saved = [state |-> state, input |-> input, table |-> table]

-----------------------------------------------------------------------------
(* Values and staging.                                                        *)

\* Finer units are floored, below zero too.
TimestampMillis(tick) == tick \div TicksPerMilli

\* The ordering field, and the row only if it may have to be retracted.
EncodeValue(order, row) ==
  [order |-> order, row |-> IF plan.generateUpdateBefore THEN row ELSE NoRow]

Staging == [values |-> [k \in Keys |-> Unset], out |-> <<>>]

\* What the batch sees under a key: its own staged value before the stored one.
Previous(stage, k) == IF stage.values[k] = Unset THEN state[k] ELSE stage.values[k]

ReplaceStaged(stage, k, value, changes) ==
  [values |-> [stage.values EXCEPT ![k] = value], out |-> stage.out \o changes]

\* The last staged value of each key, written at once.
WriteBatch(stage) ==
  [k \in Keys |-> IF stage.values[k] = Unset THEN state[k] ELSE stage.values[k]]

Retraction(row) == IF plan.generateUpdateBefore THEN <<Change(UPDATE_BEFORE, row)>> ELSE <<>>

-----------------------------------------------------------------------------
(* Selection.                                                                 *)

\* Processing time, first row: a marker per key that was seen.
SelectProcessingTimeFirst(batch) ==
  FoldLeft(LAMBDA s, c :
             IF Previous(s, c.row.key) # Absent THEN s
             ELSE ReplaceStaged(s, c.row.key, EncodeValue(1, NoRow),
                                <<Change(INSERT, c.row)>>),
           Staging, batch)

\* Processing time, last row: the whole row is the state; an equal row is
\* silent; without insertions and retractions no state is kept at all.
SelectProcessingTimeLast(batch) ==
  LET Step(s, c) ==
        LET old == Previous(s, c.row.key)
            value == [order |-> 0, row |-> c.row]
        IN  IF old = value THEN s
            ELSE ReplaceStaged(s, c.row.key, value,
                   (IF old = Absent THEN <<>> ELSE Retraction(old.row)) \o
                   <<Change(IF old = Absent THEN INSERT ELSE UPDATE_AFTER, c.row)>>)
  IN  IF ~plan.generateInsert /\ ~plan.generateUpdateBefore
      THEN [Staging EXCEPT !.out = [i \in 1..Len(batch) |-> Change(UPDATE_AFTER, batch[i].row)]]
      ELSE FoldLeft(Step, Staging, batch)

\* Fault: only the stored timestamp counts, not the earlier rows of the batch.
Winner_IgnoresBatch(batch, i) ==
  LET row == batch[i].row
      order == TimestampMillis(row.order)
      old == state[row.key]
      prior == IF old = Absent THEN {} ELSE {old.order}
  IN  IF plan.keepLast THEN \A o \in prior : order >= o
      ELSE \A o \in prior : order < o

\* Row time: the row is the running extremum of its key, counting the stored
\* timestamp and the rows before it in the batch. Keep-last wins a tie.
Winner(batch, i) ==
  LET row == batch[i].row
      order == TimestampMillis(row.order)
      old == state[row.key]
      prior == (IF old = Absent THEN {} ELSE {old.order}) \cup
               {TimestampMillis(batch[j].row.order) :
                  j \in {n \in 1..(i - 1) : batch[n].row.key = row.key}}
  IN  IF plan.keepLast THEN \A o \in prior : order >= o
      ELSE \A o \in prior : order < o

SelectRowtime(batch) ==
  LET Step(s, i) ==
        LET row == batch[i].row
            old == Previous(s, row.key)
        IN  IF ~Winner(batch, i) THEN s
            ELSE ReplaceStaged(s, row.key, EncodeValue(TimestampMillis(row.order), row),
                   (IF old = Absent THEN <<>> ELSE Retraction(old.row)) \o
                   <<Change(IF old = Absent /\ (plan.generateInsert \/ plan.generateUpdateBefore)
                            THEN INSERT ELSE UPDATE_AFTER, row)>>)
  IN  FoldLeft(Step, Staging, [i \in 1..Len(batch) |-> i])

\* Changelog input: the last row of the key; either retraction deletes it.
SelectChangelog(batch) ==
  LET Step(s, c) ==
        LET old == Previous(s, c.row.key)
            value == [order |-> 0, row |-> c.row]
        IN  IF Accumulates(c.kind)
            THEN IF old = value THEN s
                 ELSE ReplaceStaged(s, c.row.key, value,
                        (IF old = Absent THEN <<>> ELSE Retraction(old.row)) \o
                        <<Change(IF old = Absent THEN INSERT ELSE UPDATE_AFTER, c.row)>>)
            ELSE IF old = Absent THEN s
                 ELSE ReplaceStaged(s, c.row.key, Absent, <<Change(DELETE, old.row)>>)
  IN  FoldLeft(Step, Staging, batch)

Select(batch) ==
  CASE plan.inputChangelog -> SelectChangelog(batch)
    [] plan.processingTime /\ plan.keepLast -> SelectProcessingTimeLast(batch)
    [] plan.processingTime /\ ~plan.keepLast -> SelectProcessingTimeFirst(batch)
    [] OTHER -> SelectRowtime(batch)

-----------------------------------------------------------------------------
(* One invocation per batch.                                                  *)

KeyOf(row) == row.key
RequireIdle == invocation = "Idle"

\* Changes the sources may deliver next; SQL deduplication is insert-only.
Batches ==
  LET kinds == IF plan.inputChangelog THEN {INSERT, UPDATE_AFTER, DELETE} ELSE {INSERT}
  IN  BoundedSeq([kind : kinds, row : Rows], MaxBatch) \ {<<>>}

ProcessBatch(batch) ==
  LET selection == Select(batch)
  IN  /\ RequireIdle
      /\ state' = WriteBatch(selection)
      /\ table' = Materialize(table, selection.out, KeyOf, plan.generateUpdateBefore)
      /\ input' = input \o batch
      /\ UNCHANGED <<plan, invocation, saved>>

\* Memory is denied while selecting, or for the output after the state was
\* written: the invocation has failed either way.
BatchFails(batch) ==
  /\ RequireIdle
  /\ state' \in {state, WriteBatch(Select(batch))}
  /\ invocation' = "Failed"
  /\ UNCHANGED <<plan, input, table, saved>>

Checkpoint ==
  /\ RequireIdle
  /\ saved' = [state |-> state, input |-> input, table |-> table]
  /\ UNCHANGED <<plan, state, input, table, invocation>>

\* Sources and sink return to the checkpoint together with the state.
Restore ==
  /\ state' = saved.state /\ input' = saved.input /\ table' = saved.table
  /\ invocation' = "Idle"
  /\ UNCHANGED <<plan, saved>>

Next ==
  \/ \E batch \in Batches : Len(input) + Len(batch) <= MaxRows /\ ProcessBatch(batch)
  \/ \E batch \in Batches : Len(input) + Len(batch) <= MaxRows /\ BatchFails(batch)
  \/ Checkpoint \/ Restore

Spec == Init /\ [][Next]_vars

-----------------------------------------------------------------------------
(* Properties.                                                                *)

\* The row of each key that SQL deduplication keeps of everything consumed.
Kept(k) ==
  LET Of == {i \in 1..Len(input) : input[i].row.key = k}
      Time(i) == TimestampMillis(input[i].row.order)
      Latest == IF plan.processingTime \/ plan.inputChangelog THEN Max(Of)
                ELSE CHOOSE i \in Of : \A j \in Of : Time(j) < Time(i) \/ (Time(j) = Time(i) /\ j <= i)
      First == IF plan.processingTime THEN Min(Of)
               ELSE CHOOSE i \in Of : \A j \in Of : Time(i) < Time(j) \/ (Time(j) = Time(i) /\ i <= j)
      kept == IF plan.keepLast THEN Latest ELSE First
  IN  IF Of = {} THEN {}
      ELSE IF Accumulates(input[kept].kind) THEN {input[kept].row} ELSE {}

\* However the input is cut into batches, and across failed invocations,
\* checkpoints and restarts, the consumer of the output holds exactly the row
\* of each key that the query keeps: intermediate winners of a batch are
\* retracted in turn and no row is announced twice.
KeepsOneRow == table = UNION {Kept(k) : k \in Keys}
=============================================================================
