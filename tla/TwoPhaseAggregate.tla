-------------------------- MODULE TwoPhaseAggregate --------------------------
(* Mini-batch aggregation in stages. Local aggregates turn the rows of their  *)
(* subtask into encoded accumulators per partial key, an incremental one may  *)
(* merge those of one partial key and pass on the difference per final key,   *)
(* and the global aggregate merges what arrives. The plan q holds             *)
(* [sqlCalls, localCalls, finalCalls, valueIndices, incremental, changelog,   *)
(* before, localMini, incrementalMini, globalMini].                           *)
EXTENDS GroupAggregateSteps

CONSTANTS
  Plans, Locals, Values,
  Bucket(_),            \* the split key of a row's value
  MaxChanges, MaxQueue, \* changes the subtasks read; accumulators in a channel
  ControlMaxGroups

TwoPhaseAssumption == MaxChanges \in Nat /\ MaxQueue \in Nat /\ ControlMaxGroups \in Nat \ {0}

Unmapped == 0           \* u32::MAX as the value index of a final call

VARIABLES
  q,
  local,        \* local -> [groups: partial key -> accumulators or Absent, elements, draining]
  channel,      \* local -> accumulators on their way
  incremental,  \* [state, pending, elements] of the incremental stage
  finals,       \* accumulators on their way to the global stage
  store, bundle,\* the global stage
  read,         \* changes read (bounds the model)
  input,        \* local -> bag of the rows it has read (history)
  table         \* what the consumer has made of the output (history)

vars == <<q, local, channel, incremental, finals, store, bundle, read, input, table>>

\* Without a split the partial key is the key itself.
PartialKeys == Keys \X {Bucket(v) : v \in Values}
PartialKey(row) == <<row.key, Bucket(row.value)>>
Rows == [key : Keys, value : Values, pass : {TRUE}]

GlobalPlan == [calls |-> q.finalCalls, changelog |-> FALSE, before |-> q.before,
               mini |-> q.globalMini, bounded |-> FALSE, partial |-> TRUE, keyless |-> FALSE]

\* Plans the three processors open.
ValidLocal(p) ==
  /\ p.localMini > 0
  /\ \A i \in DOMAIN p.localCalls : LowerCall(p.localCalls[i])
  /\ p.changelog => \A i \in DOMAIN p.localCalls : p.localCalls[i].retractable
ValidIncremental(p) ==
  p.incremental => /\ p.incrementalMini > 0
                   /\ Len(p.finalCalls) = Len(p.valueIndices)
                   /\ \A i \in DOMAIN p.valueIndices :
                        p.valueIndices[i] # Unmapped => p.valueIndices[i] \in DOMAIN p.localCalls

NoPartials == [groups |-> [pk \in PartialKeys |-> Absent], elements |-> 0, draining |-> FALSE]
NoPending == [pk \in PartialKeys |-> NoGroup]

Init ==
  /\ q \in {p \in Plans : ValidLocal(p) /\ ValidIncremental(p)}
  /\ local = [l \in Locals |-> NoPartials]
  /\ channel = [l \in Locals |-> <<>>] /\ finals = <<>>
  /\ incremental = [state |-> [pk \in PartialKeys |-> Absent], pending |-> NoPending, elements |-> 0]
  /\ store = EmptyStore /\ bundle = NoBundle
  /\ read = 0 /\ input = [l \in Locals |-> NoRows] /\ table = {}

-----------------------------------------------------------------------------
(* The local stage.                                                           *)

Partial(key, calls, state) == Change(INSERT, [key |-> key, bytes |-> EncodeState(calls, state)])

\* Every group of the bundle, whether or not its accumulators are neutral.
DrainPending(l, pks) ==
  [j \in 1..Cardinality(pks) |->
     LET pk == SetToSeq(pks)[j] IN Partial(pk, q.localCalls, local[l].groups[pk])]

Held(l) == {pk \in PartialKeys : local[l].groups[pk] # Absent}

\* One change of the input; the trigger sends the bundle on its way. Sources
\* retract a row on the subtask that read it.
LocalProcess(l, c) ==
  LET pk == PartialKey(c.row)
      old == local[l].groups[pk]
      new == ApplyInputRows(q.localCalls, IF old = Absent THEN New(q.localCalls) ELSE old, <<c>>, FALSE)
      staged == [local[l] EXCEPT !.groups[pk] = new, !.elements = @ + 1]
      pks == Held(l) \cup {pk}
      drained == [j \in 1..Cardinality(pks) |->
                    LET k == SetToSeq(pks)[j] IN Partial(k, q.localCalls, staged.groups[k])]
  IN  /\ ~local[l].draining
      /\ IF staged.elements = q.localMini
         THEN /\ local' = [local EXCEPT ![l] = NoPartials]
              /\ channel' = [channel EXCEPT ![l] = @ \o drained]
         ELSE local' = [local EXCEPT ![l] = staged] /\ UNCHANGED channel
      /\ read < MaxChanges /\ read' = read + 1
      /\ input' = [input EXCEPT ![l] = AddTo(@, c.row, IF Accumulates(c.kind) THEN 1 ELSE -1)]
      /\ UNCHANGED <<q, incremental, finals, store, bundle, table>>

\* A control event drains some groups of the bundle with every poll.
LocalDrain(l) ==
  LET n == Cardinality(Held(l))
  IN  /\ n > 0
      /\ \E pks \in kSubset(IF n < ControlMaxGroups THEN n ELSE ControlMaxGroups, Held(l)) :
           /\ channel' = [channel EXCEPT ![l] = @ \o DrainPending(l, pks)]
           /\ local' = [local EXCEPT ![l] =
                [groups |-> [pk \in PartialKeys |-> IF pk \in pks THEN Absent ELSE @.groups[pk]],
                 elements |-> 0, draining |-> pks # Held(l)]]
      /\ UNCHANGED <<q, incremental, finals, store, bundle, read, input, table>>

-----------------------------------------------------------------------------
(* The incremental stage.                                                     *)

\* Calls whose accumulators must outlive the bundle.
RequiresPersistence(call) == call.distinct \/ (call.retractable /\ Extreme(call))

PersistentOnly(calls, state) ==
  [rowCount |-> 0,
   accumulators |-> [i \in DOMAIN calls |-> IF RequiresPersistence(calls[i]) THEN state.accumulators[i]
                                            ELSE NewAccumulator(calls[i])]]

HasPersistent(calls, state) ==
  \E i \in DOMAIN calls : RequiresPersistence(calls[i]) /\ ~AccumulatorIsNeutral(calls[i], state.accumulators[i])

\* A partial result as an accumulator of the final call, added or taken back.
PartialValueAccumulator(call, v, accumulate) ==
  LET sign == IF accumulate THEN 1 ELSE -1
  IN  CASE v = NULL -> [NewAccumulator(call) EXCEPT !.value = NULL]
        [] call.function \in {"CountStar", "Count"} -> [NewAccumulator(call) EXCEPT !.count = v * sign]
        [] Arithmetic(call) -> [count |-> sign, values |-> NoRows,
                                value |-> IF accumulate THEN v ELSE AggregateSub(call, 0, v)]
        [] Kind(call) = "Extremum" -> [NewAccumulator(call) EXCEPT !.values = AddTo(NoRows, v, sign)]
        [] OTHER -> [NewAccumulator(call) EXCEPT !.value = v]

FromMappedPartial(persistent, pending, persistentOnly, rowCount, accumulate) ==
  LET ValueAt(i) ==
        LET call == q.localCalls[i]
            source == IF RequiresPersistence(call) THEN persistent ELSE pending
        IN  IF persistentOnly /\ ~RequiresPersistence(call) THEN NULL
            ELSE AccumulatorValue(call, source.accumulators[i])
  IN  [rowCount |-> IF accumulate THEN rowCount ELSE -rowCount,
       accumulators |-> [j \in DOMAIN q.finalCalls |->
         PartialValueAccumulator(q.finalCalls[j],
           IF q.valueIndices[j] = Unmapped THEN NULL ELSE ValueAt(q.valueIndices[j]), accumulate)]]

\* A partial joins its bundle. State is read only when the bundle has a net
\* change that needs it, and then once.
StageRange(inc, pk, delta) ==
  LET old == IF inc.pending[pk] = NoGroup
             THEN [original |-> Absent, loaded |-> FALSE, current |-> Absent, bundle |-> New(q.localCalls)]
             ELSE inc.pending[pk]
      current == IF old.current # Absent \/ HasPersistent(q.localCalls, delta)
                 THEN Merge(q.localCalls, IF old.current = Absent THEN New(q.localCalls) ELSE old.current, delta)
                 ELSE Absent
      load == ~old.loaded /\ current # Absent /\ HasPersistent(q.localCalls, current)
      found == load /\ inc.state[pk] # Absent
      original == PersistentOnly(q.localCalls, DecodeState(q.localCalls, inc.state[pk]))
  IN  [original |-> IF found THEN original ELSE old.original,
       loaded |-> old.loaded \/ load,
       current |-> IF found THEN Merge(q.localCalls, original, current) ELSE current,
       bundle |-> Merge(q.localCalls, old.bundle, delta)]

\* Fault: the result the final stage has seen before is not taken back.
FinalDelta_KeepsOld(partial) ==
  LET now == FromMappedPartial(IF partial.current = Absent THEN partial.bundle ELSE partial.current,
                               partial.bundle, FALSE, partial.bundle.rowCount, TRUE)
  IN  Merge(q.finalCalls, New(q.finalCalls), now)

\* What one partial key changes for its final key.
FinalDelta(partial) ==
  LET now == FromMappedPartial(IF partial.current = Absent THEN partial.bundle ELSE partial.current,
                               partial.bundle, FALSE, partial.bundle.rowCount, TRUE)
      before == FromMappedPartial(partial.original, partial.bundle, TRUE, 0, FALSE)
  IN  IF partial.original = Absent THEN Merge(q.finalCalls, New(q.finalCalls), now)
      ELSE Merge(q.finalCalls, Merge(q.finalCalls, New(q.finalCalls), before), now)

\* The end of the incremental bundle: one accumulator per final key, and the
\* persistent part of every partial key that has or had one.
FinishPending(inc) ==
  LET pks == {pk \in PartialKeys : inc.pending[pk] # NoGroup}
      ks == {pk[1] : pk \in pks}
      Persistent(pk) == PersistentOnly(q.localCalls, inc.pending[pk].current)
      Keeps(pk) == inc.pending[pk].current # Absent /\ HasPersistent(q.localCalls, Persistent(pk))
      Final(k) == FoldSet(LAMBDA pk, st : Merge(q.finalCalls, st, FinalDelta(inc.pending[pk])),
                          New(q.finalCalls), {pk \in pks : pk[1] = k})
  IN  [inc |-> [state |-> [pk \in PartialKeys |->
                  IF pk \notin pks THEN inc.state[pk]
                  ELSE IF Keeps(pk) THEN EncodeState(q.localCalls, Persistent(pk))
                  ELSE IF inc.pending[pk].original # Absent THEN Absent ELSE inc.state[pk]],
                pending |-> NoPending, elements |-> 0],
       out |-> [j \in 1..Cardinality(ks) |->
                  LET k == SetToSeq(ks)[j] IN Partial(k, q.finalCalls, Final(k))]]

IncrementalProcess(l) ==
  LET c == Head(channel[l])
      pk == c.row.key
      staged == [incremental EXCEPT
                   !.pending[pk] = StageRange(incremental, pk, DecodeState(q.localCalls, c.row.bytes)),
                   !.elements = @ + 1]
      finished == FinishPending(staged)
  IN  /\ q.incremental /\ channel[l] # <<>>
      /\ channel' = [channel EXCEPT ![l] = Tail(@)]
      /\ IF staged.elements = q.incrementalMini
         THEN incremental' = finished.inc /\ finals' = finals \o finished.out
         ELSE incremental' = staged /\ UNCHANGED finals
      /\ UNCHANGED <<q, local, store, bundle, read, input, table>>

IncrementalFinish ==
  LET finished == FinishPending(incremental)
  IN  /\ q.incremental /\ incremental.pending # NoPending
      /\ incremental' = finished.inc /\ finals' = finals \o finished.out
      /\ UNCHANGED <<q, local, channel, store, bundle, read, input, table>>

-----------------------------------------------------------------------------
(* The global stage.                                                          *)

KeyOf(row) == row.key

GlobalProcess(c) ==
  \E done \in {ProcessMiniInput(GlobalPlan, store, bundle, <<c>>)} :
    /\ store' = WriteWorking(GlobalPlan, store, done) /\ bundle' = done.bundle
    /\ table' = Materialize(table, done.out, KeyOf, q.before)

GlobalReceive ==
  \/ /\ q.incremental /\ finals # <<>>
     /\ GlobalProcess(Head(finals)) /\ finals' = Tail(finals)
     /\ UNCHANGED <<q, local, channel, incremental, read, input>>
  \/ \E l \in Locals :
       /\ ~q.incremental /\ channel[l] # <<>>
       /\ GlobalProcess([Head(channel[l]) EXCEPT !.row.key = @[1]])
       /\ channel' = [channel EXCEPT ![l] = Tail(@)]
       /\ UNCHANGED <<q, local, incremental, finals, read, input>>

GlobalFinish ==
  /\ Pending(bundle) # {}
  /\ \E step \in {DrainGroups(GlobalPlan, store, bundle, Pending(bundle))} :
       /\ store' = step.store /\ bundle' = step.bundle
       /\ table' = Materialize(table, step.out, KeyOf, q.before)
  /\ UNCHANGED <<q, local, channel, incremental, finals, read, input>>

-----------------------------------------------------------------------------

Room == Len(finals) < MaxQueue /\ \A l \in Locals : Len(channel[l]) < MaxQueue

Next ==
  \/ \E l \in Locals, row \in Rows : Room /\ LocalProcess(l, Change(INSERT, row))
  \/ \E l \in Locals : \E row \in DOMAIN input[l] :
       Room /\ q.changelog /\ LocalProcess(l, Change(DELETE, row))
  \/ \E l \in Locals : Room /\ LocalDrain(l)
  \/ \E l \in Locals : Room /\ IncrementalProcess(l)
  \/ Room /\ IncrementalFinish
  \/ GlobalReceive \/ GlobalFinish

Spec == Init /\ [][Next]_vars

-----------------------------------------------------------------------------
(* Properties.                                                                *)

Quiescent ==
  /\ \A l \in Locals : Held(l) = {} /\ channel[l] = <<>>
  /\ incremental.pending = NoPending /\ finals = <<>> /\ Pending(bundle) = {}

AllRows == FoldSet(LAMBDA l, b : FoldSet(LAMBDA r, a : AddTo(a, r, input[l][r]), b, DOMAIN input[l]),
                   NoRows, Locals)

\* Once every bundle of every stage has been flushed, the consumer holds for
\* each group what a single aggregation of all the rows of all subtasks returns,
\* however they were bundled, split and interleaved: no contribution is lost,
\* counted twice or left behind in the state of a middle stage.
StagesAgree ==
  LET Of(k) == [r \in {s \in DOMAIN AllRows : s.key = k} |-> AllRows[r]]
  IN  Quiescent => table = UNION {IF DOMAIN Of(k) = {} THEN {}
                                  ELSE {[key |-> k, values |-> SqlValues(q.sqlCalls, Of(k))]} : k \in Keys}
=============================================================================
