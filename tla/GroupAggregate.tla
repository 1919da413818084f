---------------------------- MODULE GroupAggregate ----------------------------
(* The native group aggregate under UnaryExec: row by row, in bundles that a  *)
(* row count or a control event ends, or over bounded input, on the state of  *)
(* a plan that a restart may change.                                          *)
EXTENDS GroupAggregateSteps

CONSTANTS
  Plans,                \* candidate plans of one query
  Rows,                 \* rows of the input: [key, value, pass]
  MaxBatch, MaxLive,    \* changes of a batch; rows of the input at a time
  ControlMaxGroups,     \* groups a control poll drains
  BoundedOutputMaxRows  \* rows of a page of terminal output

GroupAggregateAssumption ==
  /\ MaxBatch \in Nat \ {0} /\ MaxLive \in Nat
  /\ ControlMaxGroups \in Nat \ {0} /\ BoundedOutputMaxRows \in Nat \ {0}

VARIABLES
  plan, store, bundle,
  draining,    \* control_flushing
  output,      \* terminal output: [remaining, hadRows, finished], or before it starts
  invocation,
  input,       \* rows of the input by key, as bags (history)
  settled,     \* the part of it the consumer has been told about (history)
  table        \* what the consumer has made of the output (history)

vars == <<plan, store, bundle, draining, output, invocation, input, settled, table>>
history == <<input, settled, table>>

NotStarted == [remaining |-> {}, hadRows |-> FALSE, finished |-> FALSE]
Bags == [k \in Keys |-> NoRows]

Init ==
  /\ plan \in {p \in Plans : ValidatePlan(p)}
  /\ store = EmptyStore /\ bundle = NoBundle /\ draining = FALSE
  /\ output = NotStarted /\ invocation = "Idle"
  /\ input = Bags /\ settled = Bags /\ table = {}

-----------------------------------------------------------------------------
(* Input. Sources retract only rows they have sent.                           *)

KeyOf(row) == row.key
NoKey == CHOOSE k \in Keys : TRUE    \* the empty key of an aggregation without GROUP BY
RequireIdle == invocation = "Idle"

Consumed(bags, batch) ==
  FoldLeft(LAMBDA b, c : [b EXCEPT ![c.row.key] = AddTo(@, c.row, IF Accumulates(c.kind) THEN 1 ELSE -1)],
           bags, batch)

Live(bags) == FoldSet(LAMBDA k, n : n + FoldSet(LAMBDA r, m : m + bags[k][r], 0, DOMAIN bags[k]), 0, Keys)

WellFormed(batch) ==
  \A j \in DOMAIN batch :
    ~Accumulates(batch[j].kind) =>
      Count(Consumed(input, SubSeq(batch, 1, j - 1))[batch[j].row.key], batch[j].row) > 0

Batches ==
  LET kinds == IF plan.changelog THEN {INSERT, DELETE} ELSE {INSERT}
      rows == {r \in Rows : plan.keyless => r.key = NoKey}
  IN  {b \in BoundedSeq([kind : kinds, row : rows], MaxBatch) :
         b # <<>> /\ Live(Consumed(input, b)) <= MaxLive /\ WellFormed(b)}

-----------------------------------------------------------------------------
(* One batch per invocation.                                                  *)

ProcessArrow(batch) ==
  /\ RequireIdle /\ ~plan.bounded /\ plan.mini = 0
  /\ \E step \in {ProcessRows(plan, store, batch)} :
       /\ store' = step.store
       /\ table' = Materialize(table, step.out, KeyOf, plan.before)
  /\ input' = Consumed(input, batch) /\ settled' = input'
  /\ UNCHANGED <<plan, bundle, draining, output, invocation>>

ProcessMiniBatch(batch) ==
  /\ RequireIdle /\ ~plan.bounded /\ plan.mini > 0 /\ ~draining
  /\ \E done \in {ProcessMiniInput(plan, store, bundle, batch)} :
       /\ store' = WriteWorking(plan, store, done) /\ bundle' = done.bundle
       /\ table' = Materialize(table, done.out, KeyOf, plan.before)
       /\ settled' = IF done.flushed = 0 THEN settled
                     ELSE Consumed(input, SubSeq(batch, 1, Len(batch) - done.bundle.elements))
  /\ input' = Consumed(input, batch)
  /\ UNCHANGED <<plan, draining, output, invocation>>

\* A control event (watermark, checkpoint, end of input) is polled until the
\* bundle is empty; each poll writes the groups it emits.
DrainNativeBundle ==
  /\ RequireIdle /\ plan.mini > 0 /\ ~plan.bounded /\ Pending(bundle) # {}
  /\ LET n == Cardinality(Pending(bundle))
     IN  \E ks \in kSubset(IF n < ControlMaxGroups THEN n ELSE ControlMaxGroups, Pending(bundle)) :
           LET step == DrainGroups(plan, store, bundle, ks)
           IN  /\ store' = step.store /\ bundle' = step.bundle
               /\ table' = Materialize(table, step.out, KeyOf, plan.before)
               /\ settled' = [k \in Keys |-> IF k \in ks THEN input[k] ELSE settled[k]]
  /\ draining' = TRUE
  /\ UNCHANGED <<plan, output, invocation, input>>

\* The poll that finds nothing ends the control event.
EndDrain ==
  /\ RequireIdle /\ draining /\ Pending(bundle) = {}
  /\ draining' = FALSE
  /\ UNCHANGED <<plan, store, bundle, output, invocation, history>>

\* A batch that fails has written nothing, or everything.
BatchFails(batch) ==
  /\ RequireIdle /\ ~plan.bounded /\ ~draining
  /\ store' \in {store, IF plan.mini = 0 THEN ProcessRows(plan, store, batch).store
                        ELSE WriteWorking(plan, store, ProcessMiniInput(plan, store, bundle, batch))}
  /\ invocation' = "Failed"
  /\ UNCHANGED <<plan, bundle, draining, output, history>>

-----------------------------------------------------------------------------
(* Bounded input.                                                             *)

ProcessBoundedBatch(batch) ==
  /\ RequireIdle /\ plan.bounded /\ output = NotStarted
  /\ store' = ProcessBounded(plan, store, batch)
  /\ input' = Consumed(input, batch)
  /\ UNCHANGED <<plan, bundle, draining, output, invocation, settled, table>>

\* One page of the stored groups, or the row of an empty input without keys,
\* or the empty page that ends the output.
FinishBoundedOutput ==
  LET remaining == IF output = NotStarted THEN {k \in Keys : store.groups[k] # Absent}
                   ELSE output.remaining
      n == Cardinality(remaining)
  IN  /\ RequireIdle /\ plan.bounded /\ ~output.finished
      /\ \/ /\ n > 0
            /\ \E page \in kSubset(IF n < BoundedOutputMaxRows THEN n ELSE BoundedOutputMaxRows, remaining) :
                 /\ table' = Materialize(table, [j \in 1..Cardinality(page) |->
                               Insertion(plan, store, SetToSeq(page)[j])], KeyOf, TRUE)
                 /\ output' = [remaining |-> remaining \ page, hadRows |-> TRUE, finished |-> FALSE]
         \/ /\ n = 0 /\ ~output.hadRows /\ plan.keyless
            /\ table' = {OutputRow(plan, NoKey, New(plan.calls))}
            /\ output' = [remaining |-> {}, hadRows |-> TRUE, finished |-> FALSE]
         \/ /\ n = 0 /\ (output.hadRows \/ ~plan.keyless)
            /\ output' = [remaining |-> {}, hadRows |-> output.hadRows, finished |-> TRUE]
            /\ settled' = input /\ UNCHANGED table
      /\ (n > 0 \/ ~output'.finished) => UNCHANGED settled
      /\ UNCHANGED <<plan, store, bundle, draining, invocation, input>>

-----------------------------------------------------------------------------
(* Checkpoints. A restart may bring another plan of the query.                *)

RequireNativeStateBoundary == RequireIdle /\ bundle.elements = 0 /\ ~draining

\* A checkpoint and the restart from it: sources, sink and state return to the
\* checkpoint together, so whatever happened after it has not happened. Plans of
\* one query differ in how they run it, and in whether its input can retract.
CheckpointAndRestore ==
  /\ RequireNativeStateBoundary /\ ~plan.bounded
  /\ \E p \in {q \in Plans : ValidatePlan(q) /\ ~q.bounded} :
       /\ p.calls = plan.calls /\ p.before = plan.before
       /\ \A k \in Keys : ValidateRestoredHeader(p, store.groups[k])
       /\ plan' = p
  /\ UNCHANGED <<store, bundle, draining, output, invocation, history>>

Next ==
  \/ \E batch \in Batches :
       \/ ProcessArrow(batch) \/ ProcessMiniBatch(batch)
       \/ ProcessBoundedBatch(batch) \/ BatchFails(batch)
  \/ DrainNativeBundle \/ EndDrain
  \/ FinishBoundedOutput
  \/ CheckpointAndRestore

Spec == Init /\ [][Next]_vars

-----------------------------------------------------------------------------
(* Properties.                                                                *)

\* The rows SQL aggregation returns for a bag of rows of one key.
SqlRows(k, bag) ==
  IF bag = NoRows THEN {} ELSE {[key |-> k, values |-> SqlValues(plan.calls, bag)]}

EmptyResult == {[key |-> NoKey, values |-> SqlValues(plan.calls, NoRows)]}

\* However the input is cut into batches and bundles, across failed batches,
\* drains in pages, checkpoints and restarts under another plan of the query,
\* the consumer holds for every group exactly what SQL returns for the rows it
\* has been told about, and it has been told about all of them except those of
\* the groups still in the bundle. Bounded input shows its result page by page
\* and nothing else, and one row if there are no keys and no rows.
AggregatesAreExact ==
  IF plan.bounded
  THEN LET result == UNION {SqlRows(k, input[k]) : k \in Keys}
           expected == IF result = {} /\ plan.keyless THEN EmptyResult ELSE result
       IN  table \subseteq expected /\ (output.finished => table = expected)
  ELSE /\ table = UNION {SqlRows(k, settled[k]) : k \in Keys}
       /\ invocation = "Idle" =>
            \A k \in Keys : bundle.groups[k] = NoGroup => settled[k] = input[k]

\* SELECT DISTINCT shows a key from the change that makes its count one until
\* the retraction that removes it, so exactly while rows of it are left.
VisibleWhileCounted ==
  \A k \in Keys : (\E row \in table : row.key = k) <=> input[k] # NoRows
=============================================================================
