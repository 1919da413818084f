------------------------- MODULE GroupAggregateSteps -------------------------
(* What one batch, one bundle flush and one output page do to the state of    *)
(* the native group aggregate. A plan p is [calls, changelog, before, mini,   *)
(* bounded, partial, keyless]; mini = 0 updates the result row by row, partial*)
(* input carries the encoded accumulators of a local aggregate.               *)
EXTENDS Accumulators

CONSTANT Keys

Absent == [absent |-> TRUE]       \* no state under a key
NoGroup == [group |-> "none"]     \* a key that is not in the pending bundle

\* Which plans the processor opens: partial input is only merged in bundles or
\* at the end, and a changelog needs calls that can retract.
ValidatePlan(p) ==
  /\ \A i \in DOMAIN p.calls : LowerCall(p.calls[i])
  /\ p.partial => (p.bounded \/ p.mini > 0) /\ ~p.changelog
  /\ p.changelog => \A i \in DOMAIN p.calls : p.calls[i].retractable

\* Stored groups and, next to them, the members of DISTINCT calls.
EmptyStore == [groups |-> [k \in Keys |-> Absent], members |-> [k \in Keys |-> NoRows]]

Empty(state) == state = Absent \/ state.rowCount = 0
OrNew(p, state) == IF state = Absent THEN New(p.calls) ELSE state

\* What the consumer is told when a group goes from one state to another.
OutputRow(p, k, state) == [key |-> k, values |-> ValuesOf(p.calls, state)]
OutputEvents(p, k, old, new) ==
  CASE Empty(new) -> IF Empty(old) THEN <<>> ELSE <<Change(DELETE, OutputRow(p, k, old))>>
    [] Empty(old) -> <<Change(INSERT, OutputRow(p, k, new))>>
    [] ValuesOf(p.calls, old) = ValuesOf(p.calls, new) -> <<>>
    [] OTHER -> (IF p.before THEN <<Change(UPDATE_BEFORE, OutputRow(p, k, old))>> ELSE <<>>)
                \o <<Change(UPDATE_AFTER, OutputRow(p, k, new))>>

-----------------------------------------------------------------------------
(* DISTINCT members stored outside the accumulator.                           *)

Distincts(p) == {i \in DOMAIN p.calls : p.calls[i].distinct}

Eligible(p) == Distincts(p) # {} /\ \A i \in Distincts(p) : p.calls[i].function = "Count"
MembershipLayout(p) == ~p.partial /\ ~p.bounded /\ p.mini = 0 /\ Eligible(p)

\* A group keeps the mode it was written with; a new one needs multiplicities
\* only if rows can be retracted.
Mode(p, entry) ==
  IF entry = Absent THEN IF p.changelog THEN "Counted" ELSE "Presence"
  ELSE IF entry.mode = "Presence" THEN "Presence" ELSE "Counted"

External(entry) == entry # Absent /\ entry.mode # "Inline"

\* Stored groups a plan can read at all.
ValidateRestoredHeader(p, entry) ==
  External(entry) => MembershipLayout(p) /\ (entry.mode = "Presence" => ~p.changelog)

\* The argument values whose multiplicity the batch may read or write. A group
\* stored inline moves out with all its values.
CollectMembers(p, entry, batch, k) ==
  {batch[j].row.value : j \in {n \in DOMAIN batch :
      /\ batch[n].row.key = k /\ batch[n].row.value # NULL
      /\ \E i \in Distincts(p) : AggregateFilter(p.calls[i], batch[n].row)}}
  \cup (IF entry = Absent \/ External(entry) THEN {}
        ELSE UNION {DOMAIN DecodeState(p.calls, entry.bytes).accumulators[i].values : i \in Distincts(p)})

MemberCounts(p, state, v) ==
  [i \in Distincts(p) |-> IF state = Absent THEN 0 ELSE Count(state.accumulators[i].values, v)]

\* The group a batch works on: its header and the members the batch names.
LoadGroup(p, store, batch, k) ==
  LET entry == store.groups[k]
      state == DecodeState(p.calls, entry.bytes)
      named == DOMAIN store.members[k] \cap CollectMembers(p, entry, batch, k)
      Loaded(i) == {v \in named : store.members[k][v][i] # 0}
  IN  CASE entry = Absent -> Absent
        [] External(entry) /\ MembershipLayout(p) ->
             [state EXCEPT !.accumulators = [i \in DOMAIN p.calls |->
                IF i \in Distincts(p)
                THEN [@[i] EXCEPT !.values = [v \in Loaded(i) |-> store.members[k][v][i]]]
                ELSE @[i]]]
        [] OTHER -> state

\* The row counts of the batch alone tell that the group goes on the way, so
\* that every stored member is found before any accumulator has changed.
Resets(state, batch, k) ==
  FoldLeft(LAMBDA s, c :
             LET n == s.count + (IF Accumulates(c.kind) THEN 1 ELSE -1)
             IN  IF c.row.key # k \/ (s.count = 0 /\ ~Accumulates(c.kind)) THEN s
                 ELSE [count |-> n, reset |-> s.reset \/ n = 0],
           [count |-> IF state = Absent THEN 0 ELSE state.rowCount, reset |-> FALSE], batch).reset

\* Fault: a member whose count returns to zero is not deleted.
MemberMutations_NoDelete(p, store, batch, k, state) ==
  LET entry == store.groups[k]
      named == CollectMembers(p, entry, batch, k)
      Stored(v) == [i \in Distincts(p) |->
                      LET n == MemberCounts(p, state, v)[i]
                      IN  IF Mode(p, entry) = "Presence" /\ n # 0 THEN 1 ELSE n]
      written == {v \in named : \E i \in Distincts(p) : Stored(v)[i] # 0}
  IN  [v \in DOMAIN store.members[k] \cup written |-> IF v \in written THEN Stored(v) ELSE store.members[k][v]]

\* One write per member: what the batch leaves of the named ones, and nothing
\* of the others once the group has gone.
MemberMutations(p, store, batch, k, state) ==
  LET entry == store.groups[k]
      named == CollectMembers(p, entry, batch, k)
      cleanup == External(entry) /\ Resets(LoadGroup(p, store, batch, k), batch, k)
      Stored(v) == [i \in Distincts(p) |->
                      LET n == MemberCounts(p, state, v)[i]
                      IN  IF Mode(p, entry) = "Presence" /\ n # 0 THEN 1 ELSE n]
      kept == IF cleanup THEN {} ELSE DOMAIN store.members[k] \ named
      written == {v \in named : \E i \in Distincts(p) : Stored(v)[i] # 0}
  IN  [v \in kept \cup written |-> IF v \in written THEN Stored(v) ELSE store.members[k][v]]

EncodeHeader(p, entry, state) ==
  [mode |-> Mode(p, entry),
   bytes |-> EncodeState(p.calls, [state EXCEPT !.accumulators =
               [i \in DOMAIN p.calls |-> [@[i] EXCEPT !.values = IF i \in Distincts(p) THEN NoRows ELSE @]]])]

EncodeGroup(p, entry, state) ==
  CASE Empty(state) -> Absent
    [] MembershipLayout(p) -> EncodeHeader(p, entry, state)
    [] OTHER -> [mode |-> "Inline", bytes |-> EncodeState(p.calls, state)]

-----------------------------------------------------------------------------
(* Row by row.                                                                *)

\* SELECT DISTINCT: a counter that makes its key visible at one.
ApplyCountChange(p, k, state, accumulate) ==
  LET counted == [rowCount |-> (IF state = Absent THEN 0 ELSE state.rowCount)
                               + (IF accumulate THEN 1 ELSE -1),
                  accumulators |-> <<>>]
  IN  CASE state = Absent /\ ~accumulate -> [state |-> state, events |-> <<>>]
        [] state = Absent /\ accumulate ->
             [state |-> counted, events |-> <<Change(INSERT, OutputRow(p, k, counted))>>]
        [] ~accumulate /\ state.rowCount = 1 ->
             [state |-> counted, events |-> <<Change(DELETE, OutputRow(p, k, state))>>]
        [] OTHER -> [state |-> counted, events |-> <<>>]

\* One row: a retraction of an empty group is ignored, and a group that goes
\* takes its accumulators with it.
StageRow(p, stage, c) ==
  LET k == c.row.key
      old == stage.groups[k]
      accumulate == Accumulates(c.kind)
      new == Apply(p.calls, OrNew(p, old), c.row, accumulate)
      change == ApplyCountChange(p, k, old, accumulate)
  IN  CASE p.calls = <<>> -> [groups |-> [stage.groups EXCEPT ![k] = change.state],
                              out |-> stage.out \o change.events]
        [] Empty(old) /\ ~accumulate -> stage
        [] OTHER -> [groups |-> [stage.groups EXCEPT ![k] = IF Empty(new) THEN Absent ELSE new],
                     out |-> stage.out \o OutputEvents(p, k, old, new)]

BatchKeys(batch) == {batch[j].row.key : j \in DOMAIN batch}

\* The groups of the batch are read once and written once.
ProcessRows(p, store, batch) ==
  LET loaded == [k \in Keys |-> IF k \in BatchKeys(batch) THEN LoadGroup(p, store, batch, k) ELSE Absent]
      stage == FoldLeft(LAMBDA s, c : StageRow(p, s, c), [groups |-> loaded, out |-> <<>>], batch)
      Members(k) == IF MembershipLayout(p) /\ k \in BatchKeys(batch)
                    THEN MemberMutations(p, store, batch, k, stage.groups[k]) ELSE store.members[k]
  IN  [store |-> [groups |-> [k \in Keys |-> IF k \in BatchKeys(batch)
                                THEN EncodeGroup(p, store.groups[k], stage.groups[k])
                                ELSE store.groups[k]],
                  members |-> [k \in Keys |-> Members(k)]],
       out |-> stage.out]

-----------------------------------------------------------------------------
(* In bundles.                                                                *)

NoBundle == [groups |-> [k \in Keys |-> NoGroup], elements |-> 0]
Pending(bundle) == {k \in Keys : bundle.groups[k] # NoGroup}

Decoded(p, entry) == IF entry = Absent THEN Absent ELSE DecodeState(p.calls, entry.bytes)

\* A key joins the bundle with the state it has been flushed or stored with.
StageGroup(work, k) ==
  IF work.bundle.groups[k] # NoGroup THEN work
  ELSE [work EXCEPT !.bundle.groups[k] = [original |-> work.working[k], current |-> work.working[k]]]

\* One change of the bundle: only retractions before any accumulator are dropped.
BundleRow(p, current, c) ==
  CASE p.partial -> Merge(p.calls, OrNew(p, current), DecodeState(p.calls, c.row.bytes))
    [] p.calls = <<>> -> ApplyCountChange(p, c.row.key, current, Accumulates(c.kind)).state
    [] Accumulates(c.kind) \/ current # Absent ->
         Apply(p.calls, OrNew(p, current), c.row, Accumulates(c.kind))
    [] OTHER -> current

\* The groups of a finished bundle, their events and their new state.
FlushGroup(p, group, k) ==
  [working |-> IF group.current = Absent \/ group.current.rowCount = 0 THEN Absent ELSE group.current,
   dirty |-> ~(Empty(group.current) /\ Empty(group.original)),
   out |-> OutputEvents(p, k, group.original, group.current)]

FlushToWorking(p, work) ==
  LET ks == Pending(work.bundle)
      Flushed(k) == FlushGroup(p, work.bundle.groups[k], k)
  IN  [bundle |-> NoBundle,
       working |-> [k \in Keys |-> IF k \in ks THEN Flushed(k).working ELSE work.working[k]],
       dirty |-> work.dirty \cup {k \in ks : Flushed(k).dirty},
       flushed |-> work.flushed + 1,
       out |-> work.out \o FlattenSeq([j \in 1..Cardinality(ks) |-> Flushed(SetToSeq(ks)[j]).out])]

Trigger(p, work, n) ==
  LET counted == [work EXCEPT !.bundle.elements = @ + n]
  IN  IF counted.bundle.elements = p.mini THEN FlushToWorking(p, counted) ELSE counted

\* A batch of insertions is cut at the trigger and applied group by group.
AppendChunk(p, work, chunk) ==
  LET staged == FoldLeft(LAMBDA w, c : StageGroup(w, c.row.key), work, chunk)
      RowsOf(k) == LET mine == SelectSeq(chunk, LAMBDA c : c.row.key = k)
                   IN  [j \in DOMAIN mine |-> mine[j].row]
      Applied(k) == ApplyAppendBatch(p.calls, OrNew(p, staged.bundle.groups[k].current), RowsOf(k))
      groups == [k \in Keys |-> IF k \in BatchKeys(chunk)
                                THEN [staged.bundle.groups[k] EXCEPT !.current = Applied(k)]
                                ELSE staged.bundle.groups[k]]
  IN  Trigger(p, [staged EXCEPT !.bundle.groups = groups], Len(chunk))

\* The chunks a batch is cut into when the bundle already holds n elements.
Chunks(p, n, batch) ==
  LET ends == {j \in DOMAIN batch : (n + j) % p.mini = 0} \cup {Len(batch)}
      Start(e) == Max({0} \cup {d \in ends : d < e}) + 1
  IN  [j \in 1..Cardinality(ends) |->
         LET e == SetToSortSeq(ends, <)[j] IN SubSeq(batch, Start(e), e)]

\* A batch into the bundle.
ProcessMiniInput(p, store, bundle, batch) ==
  LET work == [bundle |-> bundle, working |-> [k \in Keys |-> Decoded(p, store.groups[k])],
               dirty |-> {}, flushed |-> 0, out |-> <<>>]
      append == ~p.partial /\ p.calls # <<>> /\ \A j \in DOMAIN batch : Accumulates(batch[j].kind)
      Row(w, c) ==
        LET staged == StageGroup(w, c.row.key)
        IN  Trigger(p, [staged EXCEPT !.bundle.groups[c.row.key].current = BundleRow(p, @, c)], 1)
  IN  IF append
      THEN FoldLeft(LAMBDA w, chunk : AppendChunk(p, w, chunk), work, Chunks(p, bundle.elements, batch))
      ELSE FoldLeft(Row, work, batch)

\* Dirty groups are written once, when the batch is done.
WriteWorking(p, store, done) ==
  [store EXCEPT !.groups = [k \in Keys |->
     IF k \notin done.dirty THEN @[k]
     ELSE IF done.working[k] = Absent THEN Absent
     ELSE [mode |-> "Inline", bytes |-> EncodeState(p.calls, done.working[k])]]]

\* Some groups of the bundle, when a control event drains it in pages.
DrainGroups(p, store, bundle, ks) ==
  LET Flushed(k) == FlushGroup(p, bundle.groups[k], k)
  IN  [store |-> [store EXCEPT !.groups = [k \in Keys |->
                    IF k \in ks /\ Flushed(k).dirty
                    THEN IF Flushed(k).working = Absent THEN Absent
                         ELSE [mode |-> "Inline", bytes |-> EncodeState(p.calls, Flushed(k).working)]
                    ELSE @[k]]],
       bundle |-> [groups |-> [k \in Keys |-> IF k \in ks THEN NoGroup ELSE bundle.groups[k]],
                   elements |-> 0],
       out |-> FlattenSeq([j \in 1..Cardinality(ks) |-> Flushed(SetToSeq(ks)[j]).out])]

-----------------------------------------------------------------------------
(* Bounded input: nothing is emitted before its end.                          *)

BoundedGroup(p, state, changes) ==
  IF p.partial
  THEN FoldLeft(LAMBDA st, c : Merge(p.calls, st, DecodeState(p.calls, c.row.bytes)), OrNew(p, state), changes)
  ELSE ApplyInputRows(p.calls, OrNew(p, state), changes, TRUE)

ProcessBounded(p, store, batch) ==
  LET Updated(k) == BoundedGroup(p, Decoded(p, store.groups[k]),
                                 SelectSeq(batch, LAMBDA c : c.row.key = k))
  IN  [store EXCEPT !.groups = [k \in Keys |->
         IF k \in BatchKeys(batch) THEN EncodeGroup(p, @[k], Updated(k)) ELSE @[k]]]

Insertion(p, store, k) ==
  Change(INSERT, OutputRow(p, k, DecodeState(p.calls, store.groups[k].bytes)))
=============================================================================
