------------------------------ MODULE MultiJoin ------------------------------
(* The multi-way join (multi_join.rs): N inputs that share a common key,      *)
(* joined from left to right by INNER and LEFT joins in one operator. A batch *)
(* of one input loads the pages of its keys, enumerates the joined rows that  *)
(* appear or disappear, hands them out in bounded pulls, and writes the dirty *)
(* pages once the last pull is drained.                                       *)
EXTENDS Changelog

CONSTANTS Plans, InputChanges, MaxBatch, OutputRows, PageRows

MultiJoinAssumption ==
  /\ \A c \in InputChanges : c.input \in Nat \ {0} /\ c.row.key \in Nat \ {0} /\ c.row.a \in Nat
  /\ MaxBatch \in Nat \ {0} /\ OutputRows \in Nat \ {0} /\ PageRows \in Nat \ {0}

Null == 0                     \* a field without a value
NoRow == [key |-> Null, a |-> Null]
Fields == DOMAIN NoRow
Keys == {c.row.key : c \in InputChanges}
Absent == [next |-> <<>>]
NoWork == [row |-> 0]

VARIABLES
  plan,
  directories,      \* keyed state: key -> encoded Directory
  pages,            \* keyed state: <<key, input, page>> -> encoded rows
  pending,          \* the stream being drained
  phase,
  live,             \* per input, the rows not retracted, oldest first
  emitted,          \* the consumer's joined rows
  read

store == <<directories, pages>>
vars == <<plan, store, pending, phase, live, emitted, read>>

Inputs == 1..Len(plan.types)

ValidatePlan(p) ==
  /\ Len(p.types) >= 2 /\ p.types[1] = "INNER"
  /\ \A i \in 2..Len(p.types) : p.types[i] \in {"INNER", "LEFT"}
  /\ \A c \in p.conditions : /\ c.depth \in 2..Len(p.types) /\ c.left \in 1..c.depth - 1
                             /\ {c.leftField, c.rightField} \subseteq Fields
  /\ p.retention = 0 /\ p.commonKeys \subseteq Fields

-----------------------------------------------------------------------------
(* Stored rows and the per-key page directory.                                *)

\* Only the fields some condition compares travel beside the row.
ConditionFields(input) ==
  {c.leftField : c \in {d \in plan.conditions : d.left = input}}
    \cup {c.rightField : c \in {d \in plan.conditions : d.depth = input}}

StoredRow(input, row) ==
  [slot |-> 0, row |-> row,
   values |-> [f \in Fields |-> IF f \in ConditionFields(input) THEN row[f] ELSE Null]]

EmptyState == [i \in Inputs |-> <<>>]
StateIsEmpty(state) == \A i \in Inputs : state[i] = <<>>

EmptyDirectory == [next |-> [i \in Inputs |-> 0], pages |-> [i \in Inputs |-> {}]]
EncodeDirectory(d) == [next |-> d.next, pages |-> [i \in Inputs |-> SetToSortSeq(d.pages[i], <)]]
DecodeDirectory(v) == [next |-> v.next, pages |-> [i \in Inputs |-> ToSet(v.pages[i])]]
PageOf(slot) == slot \div PageRows

EncodeState(rows) == [i \in 1..Len(rows) |-> <<rows[i].slot, rows[i].row, rows[i].values>>]
DecodeState(v) == [i \in 1..Len(v) |-> [slot |-> v[i][1], row |-> v[i][2], values |-> v[i][3]]]

\* What a page must satisfy for the load to accept it.
PageIsValid(key, input, page, next) ==
  /\ <<key, input, page>> \in DOMAIN pages
  /\ page <= (next - 1) \div PageRows
  /\ LET rows == DecodeState(pages[<<key, input, page>>])
     IN  /\ Len(rows) \in 1..PageRows
         /\ \A i \in 2..Len(rows) : rows[i - 1].slot < rows[i].slot
         /\ \A i \in 1..Len(rows) : PageOf(rows[i].slot) = page /\ rows[i].slot < next

DirectoryOf(key) ==
  IF directories[key] = Absent THEN EmptyDirectory ELSE DecodeDirectory(directories[key])

LoadIsValid(key) ==
  LET d == DirectoryOf(key)
  IN  \A i \in Inputs : \A page \in d.pages[i] : PageIsValid(key, i, page, d.next[i])

\* The directory's pages in page order are the rows in slot order.
LoadRows(key, input, d) ==
  LET order == SetToSortSeq(d.pages[input], <)
  IN  FlattenSeq([p \in 1..Len(order) |-> DecodeState(pages[<<key, input, order[p]>>])])

Load(key) ==
  LET d == DirectoryOf(key)
  IN  [inputs |-> [i \in Inputs |-> LoadRows(key, i, d)], directory |-> d, dirty |-> {}, touched |-> FALSE]

RowsOnPage(entry, input, page) == SelectSeq(entry.inputs[input], LAMBDA r : PageOf(r.slot) = page)

EmptiedPages(entry) == {d \in entry.dirty : RowsOnPage(entry, d[1], d[2]) = <<>>}

MutatedDirectory(entry) ==
  IF StateIsEmpty(entry.inputs) THEN Absent
  ELSE EncodeDirectory([entry.directory EXCEPT
         !.pages = [i \in Inputs |-> @[i] \ {d[2] : d \in {e \in EmptiedPages(entry) : e[1] = i}}]])

\* One write batch: the dirty pages, without the emptied ones, and the directories.
Mutations(staged) ==
  LET keys == {k \in DOMAIN staged : staged[k].touched}
      Named(k, dirty) == {<<k, d[1], d[2]>> : d \in dirty}
      gone == UNION {Named(k, EmptiedPages(staged[k])) : k \in keys}
      changed == UNION {Named(k, staged[k].dirty) : k \in keys} \ gone
  IN  [directories |-> [k \in Keys |-> IF k \in keys THEN MutatedDirectory(staged[k]) ELSE directories[k]],
       pages |-> [id \in (DOMAIN pages \ gone) \cup changed |->
                    IF id \in changed THEN EncodeState(RowsOnPage(staged[id[1]], id[2], id[3])) ELSE pages[id]]]

-----------------------------------------------------------------------------
(* The enumeration of the joined rows one changed row adds or removes.        *)

\* SQL equality: an absent row or field matches nothing.
ConditionsMatch(depth, joined, candidate) ==
  \A c \in plan.conditions :
    c.depth = depth =>
      LET l == joined[c.left].values[c.leftField]
          r == candidate.values[c.rightField]
      IN  l # Null /\ r # Null /\ l = r

NullRow == [slot |-> 0, row |-> NoRow, values |-> [f \in Fields |-> Null]]

\* How many rows of the changed input the prefix is associated with afterwards;
\* the scan stops as soon as the outcome is decided.
\* Fault: the row that is being removed counts as an association that stays.
Associations_Self(matching, accumulate) ==
  IF accumulate THEN Min({Len(matching), 1}) + 1 ELSE Min({Len(matching), 2})

Associations(matching, accumulate) ==
  IF accumulate THEN Min({Len(matching), 1}) + 1 ELSE Min({Len(matching), 2}) - 1

RECURSIVE Enumerate(_, _, _, _, _, _)

\* Every row of an unchanged input that matches, or padding under a LEFT join.
EnumerateOther(state, input, incoming, joined, active, kind, matching, left) ==
  IF left /\ matching = <<>>
  THEN Enumerate(state, input, incoming, Append(joined, NullRow), active, kind)
  ELSE FlattenSeq([i \in 1..Len(matching) |->
         Enumerate(state, input, incoming, Append(joined, matching[i]), active, kind)])

\* The changed row itself: padding that it replaces goes before it comes, padding
\* that replaces it comes after it has gone.
EnumerateActive(state, input, incoming, joined, kind, matching, left) ==
  LET accumulate == Accumulates(kind)
      Below(row, k) == Enumerate(state, input, incoming, Append(joined, row), TRUE, k)
  IN  IF ~ConditionsMatch(input, joined, incoming) THEN <<>>
      ELSE (IF accumulate /\ left /\ matching = <<>> THEN Below(NullRow, DELETE) ELSE <<>>)
           \o Below(incoming, kind)
           \o (IF ~accumulate /\ left /\ Associations(matching, accumulate) = 0
               THEN Below(NullRow, INSERT) ELSE <<>>)

Enumerate(state, input, incoming, joined, active, kind) ==
  LET depth == Len(joined) + 1
      Left == depth > 1 /\ plan.types[depth] = "LEFT"
      Matching == SelectSeq(state[depth], LAMBDA r : ConditionsMatch(depth, joined, r))
  IN  IF depth > Len(plan.types)
      THEN IF active THEN <<Change(kind, [i \in Inputs |-> joined[i].row])>> ELSE <<>>
      ELSE IF depth = input THEN EnumerateActive(state, input, incoming, joined, kind, Matching, Left)
      ELSE EnumerateOther(state, input, incoming, joined, active, kind, Matching, Left)

-----------------------------------------------------------------------------
(* Work::next: rows are taken one after the other; the state changes after    *)
(* the last joined row of an input row was handed out.                        *)

\* A retraction of a row that is not there is skipped.
Activate(w) ==
  LET c == w.batch[w.row]
      rows == w.staged[c.row.key].inputs[w.input]
      found == {i \in 1..Len(rows) : rows[i].row = c.row}
      Start(stored, position) ==
        [w EXCEPT !.active = TRUE, !.stored = stored, !.remove = position,
                  !.selections = Enumerate(w.staged[c.row.key].inputs, w.input, stored, <<>>, FALSE, c.kind)]
  IN  IF Accumulates(c.kind) THEN Start(StoredRow(w.input, c.row), 0)
      ELSE IF found = {} THEN [w EXCEPT !.row = @ + 1]
      ELSE Start(rows[Min(found)], Min(found))

\* Directory::append
AppendSlot(entry, input, stored) ==
  LET slot == entry.directory.next[input]
  IN  [entry EXCEPT !.inputs[input] = Append(@, [stored EXCEPT !.slot = slot]),
                    !.directory.next[input] = slot + 1,
                    !.directory.pages[input] = @ \cup {PageOf(slot)},
                    !.dirty = @ \cup {<<input, PageOf(slot)>>}, !.touched = TRUE]

ApplyRow(w) ==
  LET key == w.batch[w.row].row.key
      Removed(entry) == [entry EXCEPT !.inputs[w.input] = RemoveAt(@, w.remove), !.touched = TRUE,
                                      !.dirty = @ \cup {<<w.input, PageOf(w.stored.slot)>>}]
      Done(entry) == IF w.remove = 0 THEN AppendSlot(entry, w.input, w.stored) ELSE Removed(entry)
  IN  [w EXCEPT !.staged[key] = Done(@), !.active = FALSE, !.row = @ + 1]

\* limit: the row limit of an output batch, or fewer where the byte limit cuts it.
RECURSIVE Fill(_, _, _)
Fill(w, out, limit) ==
  CASE w.row > Len(w.batch) -> [work |-> w, out |-> out]
    [] w.row <= Len(w.batch) /\ ~w.active -> Fill(Activate(w), out, limit)
    [] w.row <= Len(w.batch) /\ w.active /\ w.selections = <<>> -> Fill(ApplyRow(w), out, limit)
    [] OTHER -> IF Len(out) = limit THEN [work |-> w, out |-> out]
                ELSE Fill([w EXCEPT !.selections = Tail(@)], Append(out, Head(w.selections)), limit)

-----------------------------------------------------------------------------
(* The processor.                                                             *)

Init ==
  /\ plan \in Plans
  /\ phase = IF ValidatePlan(plan) THEN "open" ELSE "rejected"
  /\ directories = [k \in Keys |-> Absent] /\ pages = <<>>
  /\ pending = NoWork /\ emitted = NoRows /\ read = 0
  /\ live = [i \in Inputs |-> <<>>]

\* Also what a snapshot, a checkpoint and a restore require.
RequireIdle == pending = NoWork /\ phase = "open"

NewWork(input, batch) ==
  [input |-> input, batch |-> batch, row |-> 1, staged |-> [k \in {c.row.key : c \in ToSet(batch)} |-> Load(k)],
   active |-> FALSE, stored |-> NullRow, remove |-> 0, selections |-> <<>>]

Batches(input) ==
  LET changes == {Change(c.kind, c.row) : c \in {d \in InputChanges : d.input = input}}
  IN  UNION {[1..n -> changes] : n \in 1..Min({MaxBatch, plan.rows - read})}

\* The input's own reading of its changes: a retraction takes the oldest equal row.
Consumed(rows, batch) ==
  FoldLeft(LAMBDA kept, c : IF Accumulates(c.kind) THEN Append(kept, c.row)
                            ELSE RemoveFirst(kept, c.row), rows, batch)

\* A batch of another schema or of an unknown input, or state that cannot be
\* loaded: the stream does not start.
RejectArrow ==
  /\ RequireIdle /\ phase' = "failed"
  /\ UNCHANGED <<plan, store, pending, live, emitted, read>>

StartArrowStream(input, batch) ==
  /\ RequireIdle /\ \A c \in ToSet(batch) : LoadIsValid(c.row.key)
  /\ pending' = NewWork(input, batch) /\ read' = read + Len(batch)
  /\ UNCHANGED <<plan, store, phase, live, emitted>>

\* A pull that returns rows leaves the state alone.
NextOutput ==
  /\ pending # NoWork /\ plan.pull
  /\ \E limit \in 1..OutputRows : \E filled \in {Fill(pending, <<>>, limit)} :
       /\ filled.out # <<>> /\ pending' = filled.work
       /\ emitted' = MaterializeBag(emitted, filled.out)
  /\ UNCHANGED <<plan, store, phase, live, read>>

Flush(work) ==
  /\ \E m \in {Mutations(work.staged)} : directories' = m.directories /\ pages' = m.pages
  /\ live' = [live EXCEPT ![work.input] = Consumed(@, work.batch)]
  /\ pending' = NoWork

\* The pull that finds nothing more writes the state and ends the stream.
Drained ==
  /\ pending # NoWork /\ plan.pull
  /\ \E filled \in {Fill(pending, <<>>, 1)} : filled.out = <<>> /\ Flush(filled.work)
  /\ UNCHANGED <<plan, phase, emitted, read>>

\* An unknown RowKind, or memory refused for the output or for the write.
FailNext ==
  /\ pending # NoWork
  /\ pending' = NoWork /\ phase' = "failed"
  /\ UNCHANGED <<plan, store, live, emitted, read>>

\* The single-batch edge takes one pull; a second one aborts the stream before
\* anything was published or written.
ProcessArrow ==
  /\ pending # NoWork /\ ~plan.pull
  /\ \E limit \in 1..OutputRows : \E first \in {Fill(pending, <<>>, limit)} :
       \/ /\ Fill(first.work, <<>>, limit).out = <<>>
          /\ Flush(first.work) /\ emitted' = MaterializeBag(emitted, first.out) /\ UNCHANGED phase
       \/ /\ Fill(first.work, <<>>, limit).out # <<>>
          /\ pending' = NoWork /\ phase' = "failed" /\ UNCHANGED <<store, live, emitted>>
  /\ UNCHANGED <<plan, read>>

Next ==
  \/ RejectArrow
  \/ /\ RequireIdle /\ read < plan.rows
     /\ \E input \in Inputs : \E batch \in Batches(input) : StartArrowStream(input, batch)
  \/ NextOutput
  \/ Drained
  \/ FailNext
  \/ ProcessArrow

Spec == Init /\ [][Next]_vars

-----------------------------------------------------------------------------
(* What is checked.                                                           *)

\* The join the plan asks for, one input after the other.
RECURSIVE JoinUpTo(_, _)
JoinUpTo(n, rows) ==
  IF n = 0 THEN <<<<>>>>
  ELSE LET prefixes == JoinUpTo(n - 1, rows)
           Equal(prefix, row) ==
             \A c \in plan.conditions :
               c.depth = n => /\ prefix[c.left][c.leftField] = row[c.rightField]
                              /\ row[c.rightField] # Null
           Extend(prefix) ==
             LET found == SelectSeq(rows[n], LAMBDA r : Equal(prefix, r))
             IN  IF found = <<>> /\ plan.types[n] = "LEFT" THEN <<Append(prefix, NoRow)>>
                 ELSE [i \in 1..Len(found) |-> Append(prefix, found[i])]
       IN  FlattenSeq([p \in 1..Len(prefixes) |-> Extend(prefixes[p])])

OfKey(rows, key) == [i \in Inputs |-> SelectSeq(rows[i], LAMBDA r : r.key = key)]

Expected(rows) ==
  LET order == SetToSortSeq(Keys, <)
  IN  BagOf(FlattenSeq([k \in 1..Len(order) |-> JoinUpTo(Len(plan.types), OfKey(rows, order[k]))]))

StoredRows(key) == LET entry == Load(key).inputs IN [i \in Inputs |-> [n \in 1..Len(entry[i]) |-> entry[i][n].row]]

\* The consumer never sees a joined row go that it does not hold, not even between
\* two pulls of a batch. Whenever a checkpoint may be taken, its rows are the
\* left-to-right join of the live input rows, and the pages hold exactly those rows
\* in arrival order: no orphaned page, no emptied page, no directory of a key
\* without rows (multi_join.rs, cursor.rs, pages.rs, work.rs).
JoinsAllInputs ==
  /\ \A r \in DOMAIN emitted : emitted[r] > 0
  /\ RequireIdle =>
       /\ emitted = Expected(live)
       /\ \A k \in Keys : /\ LoadIsValid(k) /\ StoredRows(k) = OfKey(live, k)
                          /\ (directories[k] = Absent) = StateIsEmpty(OfKey(live, k))
       /\ \A id \in DOMAIN pages : id[3] \in DirectoryOf(id[1]).pages[id[2]]
=============================================================================
