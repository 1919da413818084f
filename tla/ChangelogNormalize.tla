-------------------------- MODULE ChangelogNormalize --------------------------
(* The native changelog normalisation (ChangelogNormalizeProcessor): it turns *)
(* an upsert stream, with duplicates and with deletions that carry only the   *)
(* key, into a changelog a downstream operator can apply. A batch reads the   *)
(* rows of its keys once, stages the changes in row order and writes the      *)
(* touched keys in one batch. A filter pushed into the operator hides rows,   *)
(* and a state retention time forgets them.                                   *)
EXTENDS Changelog

CONSTANTS
  Plans,     \* decoded plans: [maxParallelism, keys, schema, hasFilter, generateUpdateBefore, ttl]
  Schemas,   \* input schemas: [key, kind, filter : BOOLEAN, visible]
  Keys,
  MaxBatch, MaxRows, MaxTime

ChangelogNormalizeAssumption ==
  MaxBatch \in Nat \ {0} /\ MaxRows \in Nat /\ MaxTime \in Nat

(* Visible rows are <<key, value>>. A scalar value is <<x>>, a map is the     *)
(* sequence of its entries, which two equal maps may hold in another order.   *)
Values(schema) ==
  IF "map" \in Range(schema) THEN {<<1, 2>>, <<2, 1>>, <<1>>} ELSE {<<1>>, <<2>>}
Hidden == <<1>>        \* the value the pushed-down filter rejects

Forever == MaxTime + 100
NoRow == [row |-> <<>>]
NoSchema == [visible |-> <<>>]
NoChange == [upsert |-> FALSE]

VARIABLES
  plan,
  schema,      \* input_schema, or NoSchema before the first batch
  state,       \* state key -> encoded row; absent keys have none
  clock,       \* processing time of the task
  read,        \* how many changes were consumed (history)
  latest,      \* key -> its latest change and when it arrived (history)
  table,       \* what the consumer has made of the output (history)
  status       \* "Running", "Refused" (no processor) or "Failed"

vars == <<plan, schema, state, clock, read, latest, table, status>>

-----------------------------------------------------------------------------
(* Plans and schemas.                                                         *)

ValidatePlan(p) == p.maxParallelism > 0 /\ p.keys # <<>> /\ p.schema # <<>>

RequiresSemanticEquality(type) == type \in {"float", "map"}

\* The first batch fixes the schema: kinds must be there, filter results
\* exactly if the plan filters, the visible columns as planned, and the key
\* columns among them unless the host sends encoded keys.
PrepareSchema(s) ==
  IF schema # NoSchema THEN s = schema
  ELSE /\ s.kind
       /\ s.filter = plan.hasFilter
       /\ s.visible = plan.schema
       /\ s.key \/ \A i \in DOMAIN plan.keys : plan.keys[i] \in 1..Len(s.visible)

-----------------------------------------------------------------------------
(* Keys, rows and stored values.                                              *)

KeyColumns(keys, row) == [i \in DOMAIN keys |-> row[keys[i]]]

\* The key the host encoded, or the key columns encoded here: the same bytes.
StateKey(s, c) == IF s.key THEN c.encodedKey ELSE KeyColumns(plan.keys, c.row)

\* Maps are equal whatever the order of their entries.
EqualMaps(left, right) ==
  /\ Len(left) = Len(right)
  /\ \A i \in DOMAIN left : \E j \in DOMAIN right : left[i] = right[j]

RowsEqual(current, previous) ==
  IF \E i \in DOMAIN plan.schema : RequiresSemanticEquality(plan.schema[i])
  THEN current[1] = previous[1] /\ EqualMaps(current[2], previous[2])
  ELSE current = previous

Expiration(now) == IF plan.ttl = 0 THEN Forever ELSE now + plan.ttl

EncodeState(stored) == <<"SFNC", 1, stored.expiresAt, Len(stored.row), stored.row>>

\* A foreign header or a wrong length is refused.
Decodable(bytes) ==
  Len(bytes) = 5 /\ bytes[1] = "SFNC" /\ bytes[2] = 1 /\ bytes[4] = Len(bytes[5])
DecodeState(bytes) == [expiresAt |-> bytes[3], row |-> bytes[5]]

-----------------------------------------------------------------------------
(* One batch.                                                                 *)

\* The decoded rows of the batch's keys, read at once, none of them touched.
LoadState(s, batch) ==
  [k \in {StateKey(s, batch[i]) : i \in DOMAIN batch} |->
     [value |-> IF k \in DOMAIN state THEN DecodeState(state[k]) ELSE NoRow, touched |-> FALSE]]

Expire(entry) ==
  IF entry.value # NoRow /\ entry.value.expiresAt <= clock
  THEN [value |-> NoRow, touched |-> TRUE] ELSE entry

Store(row) == [value |-> [expiresAt |-> Expiration(clock), row |-> row], touched |-> TRUE]
Clear == [value |-> NoRow, touched |-> TRUE]

\* An absent or null filter result: no filter passes everything, null nothing.
PassesFilter(s, c) == ~s.filter \/ c.filter = "TRUE"

\* Fault: a row the filter hides leaves the visible row of its key in place.
Upsert_KeepsHidden(entry, row, passes) ==
  LET previous == entry.value.row
  IN  CASE entry.value = NoRow /\ passes ->
             [entry |-> Store(row), out |-> <<Change(INSERT, row)>>]
        [] entry.value # NoRow /\ passes /\ (plan.ttl # 0 \/ ~RowsEqual(row, previous)) ->
             [entry |-> Store(row),
              out |-> (IF plan.generateUpdateBefore THEN <<Change(UPDATE_BEFORE, previous)>>
                       ELSE <<>>) \o <<Change(UPDATE_AFTER, row)>>]
        [] OTHER -> [entry |-> entry, out |-> <<>>]

\* A new row of a key: the first visible one is inserted, an equal one is
\* silent unless it has to renew the retention time, a visible one replaces
\* and a hidden one deletes what was visible.
Upsert(entry, row, passes) ==
  LET previous == entry.value.row
  IN  CASE entry.value = NoRow /\ passes ->
             [entry |-> Store(row), out |-> <<Change(INSERT, row)>>]
        [] entry.value = NoRow /\ ~passes -> [entry |-> entry, out |-> <<>>]
        [] entry.value # NoRow /\ plan.ttl = 0 /\ RowsEqual(row, previous) ->
             [entry |-> entry, out |-> <<>>]
        [] entry.value # NoRow /\ ~(plan.ttl = 0 /\ RowsEqual(row, previous)) /\ passes ->
             [entry |-> Store(row),
              out |-> (IF plan.generateUpdateBefore THEN <<Change(UPDATE_BEFORE, previous)>>
                       ELSE <<>>) \o <<Change(UPDATE_AFTER, row)>>]
        [] OTHER -> [entry |-> Clear, out |-> <<Change(DELETE, previous)>>]

\* Either retraction deletes the stored row, whatever row it carries.
Retract(entry) ==
  IF entry.value = NoRow THEN [entry |-> entry, out |-> <<>>]
  ELSE [entry |-> Clear, out |-> <<Change(DELETE, entry.value.row)>>]

\* One row on top of what the rows before it staged.
ApplyRow(s, stage, c) ==
  LET k == StateKey(s, c)
      entry == Expire(stage.entries[k])
      done == IF Accumulates(c.kind) THEN Upsert(entry, c.row, PassesFilter(s, c))
              ELSE Retract(entry)
  IN  [entries |-> [stage.entries EXCEPT ![k] = done.entry], out |-> stage.out \o done.out]

ProcessAccounted(s, batch) ==
  FoldLeft(LAMBDA stage, c : ApplyRow(s, stage, c),
           [entries |-> LoadState(s, batch), out |-> <<>>], batch)

\* The touched keys, in one write: a row or a removal each.
WriteBatch(entries) ==
  LET touched == {k \in DOMAIN entries : entries[k].touched}
      kept == {k \in touched : entries[k].value # NoRow}
  IN  [k \in (DOMAIN state \ touched) \cup kept |->
         IF k \in kept THEN EncodeState(entries[k].value) ELSE state[k]]

-----------------------------------------------------------------------------
(* The operator.                                                              *)

Init ==
  /\ plan \in Plans
  /\ schema = NoSchema /\ state = <<>> /\ clock = 0 /\ table = {}
  /\ read = 0 /\ latest = [k \in Keys |-> NoChange]
  /\ status = IF ValidatePlan(plan) THEN "Running" ELSE "Refused"

\* Changes as the host sends them: a deletion may carry any row of its key, and the
\* filter is evaluated by the host on every row.
Changes ==
  {[kind |-> kind, row |-> <<k, v>>, encodedKey |-> <<k>>,
    filter |-> IF v = Hidden THEN hidden ELSE "TRUE"] :
     kind \in {INSERT, UPDATE_AFTER, UPDATE_BEFORE, DELETE}, k \in Keys,
     v \in Values(plan.schema), hidden \in IF plan.hasFilter THEN {"FALSE", "NULL"} ELSE {"TRUE"}}

KeyOf(row) == row[1]

\* The latest change of each key once the batch has arrived.
Arrived(batch) ==
  FoldLeft(LAMBDA l, c : [l EXCEPT ![KeyOf(c.row)] =
             [upsert |-> Accumulates(c.kind), row |-> c.row, at |-> clock]], latest, batch)

ProcessArrow(s, batch) ==
  /\ status = "Running"
  /\ PrepareSchema(s)
  /\ schema' = s
  /\ \E done \in {ProcessAccounted(s, batch)} :
       /\ state' = WriteBatch(done.entries)
       /\ table' = Materialize(table, done.out, KeyOf, plan.generateUpdateBefore)
  /\ read' = read + Len(batch) /\ latest' = Arrived(batch)
  /\ UNCHANGED <<plan, clock, status>>

\* A batch of another schema, or with an unknown row kind after some rows were
\* staged, fails the task before anything is written.
ProcessFails(s) ==
  /\ status = "Running"
  /\ ~PrepareSchema(s)
  /\ status' = "Failed"
  /\ UNCHANGED <<plan, schema, state, clock, read, latest, table>>

-----------------------------------------------------------------------------
(* Reference: what an upsert stream means.                                    *)

\* The row a key has: its latest change is an upsert of a visible row that is
\* still retained at the given time.
Current(k, now) ==
  IF /\ latest[k].upsert
     /\ ~(plan.hasFilter /\ latest[k].row[2] = Hidden)
     /\ plan.ttl = 0 \/ now < latest[k].at + plan.ttl
  THEN {latest[k].row} ELSE {}

\* Time passes; rows past their retention are gone for the consumer as well.
Tick ==
  /\ status = "Running" /\ clock < MaxTime
  /\ clock' = clock + 1
  /\ table' = {r \in table : Current(KeyOf(r), clock + 1) # {}}
  /\ UNCHANGED <<plan, schema, state, read, latest, status>>

\* A checkpoint and a restart, perhaps at another parallelism: every key group
\* is imported by the processor that owns it now, which has seen no schema.
CheckpointAndRestore ==
  /\ status = "Running" /\ schema # NoSchema
  /\ \A k \in DOMAIN state : Decodable(state[k])
  /\ schema' = NoSchema
  /\ UNCHANGED <<plan, state, clock, read, latest, table, status>>

Next ==
  \/ /\ status = "Running" /\ read < MaxRows
     /\ \E s \in Schemas : PrepareSchema(s) /\
          \E batch \in BoundedSeq(Changes, MaxBatch) :
            read + Len(batch) <= MaxRows /\ ProcessArrow(s, batch)
  \/ \E s \in Schemas : ProcessFails(s)
  \/ Tick
  \/ CheckpointAndRestore

Spec == Init /\ [][Next]_vars

-----------------------------------------------------------------------------
(* Properties.                                                                *)

\* However the upserts and deletions are cut into batches, and across
\* checkpoints and expiring state, the consumer was never told something
\* impossible (a second insertion, a retraction of a row it does not have), and
\* holds for each key its latest visible row: exactly where rows compare by
\* their bytes, up to the order of map entries otherwise.
NormalizedTableIsCurrent ==
  /\ table # Broken
  /\ \A k \in Keys :
       LET held == {r \in table : KeyOf(r) = k}
       IN  /\ Cardinality(held) = Cardinality(Current(k, clock))
           /\ \A r \in held, c \in Current(k, clock) : RowsEqual(c, r)
=============================================================================
