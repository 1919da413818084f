----------------------------- MODULE RegularJoin -----------------------------
(* The native regular join (RegularJoinProcessor). A streaming plan runs      *)
(* under RegularJoinExec: an invocation delivers the batches of one input,    *)
(* then of the other; every change walks the opposite history of its key and  *)
(* emits its changelog page by page, and the staged state is written once the *)
(* changelog of the batch has been delivered. A bounded plan only keeps the   *)
(* histories and joins them at the end of the input.                          *)
EXTENDS Changelog

-----------------------------------------------------------------------------
(* How the regular join keeps the two histories of a key in the keyed state:  *)
(* a manifest per key and, unless the key is small enough to be inline, one   *)
(* entry per row (or, in older releases, per page of row identities). A batch *)
(* loads what it needs into a staged copy and writes back what changed.       *)

CONSTANTS Keys, Values,
          PageRows,     \* row identities in a page (64 in the code)
          SpillRows     \* rows in a page of the spill file (128 in the code)

StoreAssumption == PageRows \in Nat \ {0} /\ SpillRows \in Nat \ {0}

Sides == 1..2
Other(side) == 3 - side
Both(Of(_)) == <<Of(1), Of(2)>>

StoredRow(id, row, associations) == [id |-> id, row |-> row, associations |-> associations]

NoJoinState ==
  [next |-> <<0, 0>>, matchable |-> <<"none", "none">>, rows |-> <<<<>>, <<>>>>]

-----------------------------------------------------------------------------
(* Manifests and entries.                                                     *)

NoManifest == [layout |-> "none"]

EmptyStore == [manifest |-> [k \in Keys |-> NoManifest], entry |-> <<>>]

EntryKey(k, side, id, layout) == <<k, side, id, layout>>

Ids(rows) == {rows[i].id : i \in 1..Len(rows)}
PageOf(id) == id \div PageRows

\* Stored under one entry: a row, or the rows of one page.
EntryIdOf(row, layout) == IF layout = "Rows" THEN row.id ELSE PageOf(row.id)

Entries(rows, layout) ==
  IF layout = "Compact" THEN <<>>
  ELSE [id \in {EntryIdOf(rows[i], layout) : i \in 1..Len(rows)} |->
          SelectSeq(rows, LAMBDA r : EntryIdOf(r, layout) = id)]

\* Only a key with at most one row is inline; its encoding also has a byte cap
\* that rows of bounded width never reach.
CompactEligible(state) == Len(state.rows[1]) + Len(state.rows[2]) <= 1

\* History that was never loaded stays in the directory next to the rows the
\* batch added.
Directory(state, layout, unloaded) ==
  Both(LAMBDA s : unloaded[s] \cup DOMAIN Entries(state.rows[s], layout))

InlineRows(state, layout) == IF layout = "Compact" THEN state.rows ELSE <<<<>>, <<>>>>

\* The manifest of a key, or none once it has no rows.
Root(state, layout, unloaded) ==
  IF /\ state.rows = <<<<>>, <<>>>>
     /\ unloaded = <<{}, {}>>
  THEN NoManifest
  ELSE [layout |-> layout, next |-> state.next, matchable |-> state.matchable,
        ids |-> Directory(state, layout, unloaded), inline |-> InlineRows(state, layout)]

Increasing(rows) == \A i \in 1..(Len(rows) - 1) : rows[i].id < rows[i + 1].id

\* What decoding an entry verifies.
ValidEntry(rows, id, next, layout) ==
  /\ rows # <<>> /\ Len(rows) <= PageRows
  /\ Increasing(rows)
  /\ \A i \in 1..Len(rows) : rows[i].id < next /\ EntryIdOf(rows[i], layout) = id

\* What decoding a manifest verifies: entries below the next identity.
ValidDirectory(m, s) ==
  \A id \in m.ids[s] : (IF m.layout = "Rows" THEN id ELSE id * PageRows) < m.next[s]

ValidInline(m, s) ==
  /\ Increasing(m.inline[s])
  /\ \A i \in 1..Len(m.inline[s]) : m.inline[s][i].id < m.next[s]

ValidManifest(m) == \A s \in Sides : ValidDirectory(m, s) /\ ValidInline(m, s)

References(store, k) ==
  LET m == store.manifest[k]
  IN  IF m = NoManifest \/ m.layout = "Compact" THEN {}
      ELSE UNION {{EntryKey(k, s, id, m.layout) : id \in m.ids[s]} : s \in Sides}

-----------------------------------------------------------------------------
(* Loading.                                                                   *)

ReadEntries(store, k, side, layout, ids) ==
  FoldLeft(LAMBDA rows, id : rows \o store.entry[EntryKey(k, side, id, layout)],
           <<>>, SetToSortSeq(ids, <))

Staged(value, layout, unloaded, partial) ==
  [value |-> value, original |-> value, layout |-> layout,
   partial |-> partial,              \* some history stayed outside the staged rows
   unloaded |-> unloaded, originalIds |-> unloaded]

\* Everything of the key; a batch that only accumulates leaves the history of
\* its own side where it is.
LoadCounted(store, k, accumulatingSides) ==
  LET m == store.manifest[k]
      Skips(s) == s \in accumulatingSides /\ m.layout = "Rows" /\ m.ids[s] # {}
      Loaded(s) == IF m.layout = "Compact" THEN m.inline[s]
                   ELSE IF Skips(s) THEN <<>>
                   ELSE ReadEntries(store, k, s, m.layout, m.ids[s])
  IN  IF m = NoManifest
      THEN Staged(NoJoinState, "Compact", <<{}, {}>>, FALSE)
      ELSE Staged([next |-> m.next, matchable |-> m.matchable, rows |-> Both(Loaded)],
                  m.layout, Both(LAMBDA s : IF Skips(s) THEN m.ids[s] ELSE {}),
                  \E s \in Sides : Skips(s))

\* The rows of the whole key, as a restore or the terminal output decodes them.
DecodeEntries(store, k) == LoadCounted(store, k, {}).value

\* Too much history for memory: it is written to a spill file page by page, the
\* retractions of the batch are taken out of the directory on the way, and only
\* the directory stays. pending[i] is the row that the i-th change retracts, in
\* batch order; each history row settles the first change still waiting for it.
MatchRetractions(rows, batch, pending) ==
  FoldLeft(LAMBDA acc, r :
             LET waiting == {i \in pending \ acc.settled : batch[i].row.value = r.row}
             IN  IF waiting = {} THEN acc
                 ELSE [settled |-> acc.settled \cup {Min(waiting)},
                       removed |-> acc.removed \cup {r.id}],
           [settled |-> {}, removed |-> {}], rows)

\* Backend rows of one side, in the order of their identities.
HistoryRows(store, k, s) ==
  LET m == store.manifest[k]
  IN  IF m.layout = "Compact" THEN m.inline[s]
      ELSE ReadEntries(store, k, s, m.layout, m.ids[s])

\* The pages of the spill file, which its reader returns one by one.
WritePages(rows) ==
  [p \in 1..((Len(rows) + SpillRows - 1) \div SpillRows) |->
     SubSeq(rows, (p - 1) * SpillRows + 1, Min({p * SpillRows, Len(rows)}))]

\* [staged, history, retracted]: the staged directory, the spilled pages of
\* each side, and the changes of the batch whose row was found in the history.
\* The batch's own side is read only to settle retractions, or to rewrite an
\* older layout.
PrepareHistory(store, k, side, batch) ==
  LET m == store.manifest[k]
      pending == {i \in 1..Len(batch) :
                    batch[i].row.key = k /\ ~Accumulates(batch[i].kind)}
      All(s) == HistoryRows(store, k, s)
      found == MatchRetractions(All(side), batch, pending)
      metadata == [next |-> m.next, matchable |-> m.matchable, rows |-> <<<<>>, <<>>>>]
  IN  IF m = NoManifest
      THEN [staged |-> Staged(NoJoinState, "Compact", <<{}, {}>>, FALSE),
            history |-> <<<<>>, <<>>>>, retracted |-> {}]
      ELSE [staged |-> [Staged(metadata, m.layout, Both(LAMBDA s : Ids(All(s))), TRUE)
                          EXCEPT !.unloaded[side] = @ \ found.removed],
            history |-> Both(LAMBDA s :
              IF s # side \/ m.layout # "Rows" THEN WritePages(All(s)) ELSE <<>>),
            retracted |-> found.settled]

-----------------------------------------------------------------------------
(* Writing back.                                                              *)

LayoutOf(entry) ==
  IF ~entry.partial /\ CompactEligible(entry.value) THEN "Compact" ELSE "Rows"

\* A write is <<entry key, rows>>; no rows delete the entry.
Put(store, writes) ==
  LET keys == {w[1] : w \in {x \in writes : x[2] # <<>>}}
      gone == {w[1] : w \in {x \in writes : x[2] = <<>>}}
      Value(e) == (CHOOSE w \in writes : w[1] = e /\ w[2] # <<>>)[2]
  IN  [store EXCEPT !.entry =
         [e \in (DOMAIN store.entry \ gone) \cup keys |->
            IF e \in keys THEN Value(e) ELSE store.entry[e]]]

\* Entries to delete and to write. Within a layout only what differs is
\* written; a new layout drops every old entry and writes every new one.
ChangedRows(k, entry) ==
  LET new == LayoutOf(entry)
      Before(s) == Entries(entry.original.rows[s], entry.layout)
      After(s) == Entries(entry.value.rows[s], new)
      Removed(s) == entry.originalIds[s] \ entry.unloaded[s]
      Deletes(s) == {<<EntryKey(k, s, id, "Rows"), <<>>>> : id \in Removed(s)}
      Drops(s) == {<<EntryKey(k, s, id, entry.layout), <<>>>> :
                     id \in DOMAIN Before(s) \ (IF entry.layout = new THEN DOMAIN After(s) ELSE {})}
      Puts(s) == {<<EntryKey(k, s, id, new), After(s)[id]>> :
                    id \in {i \in DOMAIN After(s) :
                              entry.layout # new \/ i \notin DOMAIN Before(s)
                                \/ Before(s)[i] # After(s)[i]}}
  IN  UNION {Deletes(s) \cup Drops(s) \cup Puts(s) : s \in Sides}

FlushEntry(store, k, entry) ==
  [Put(store, ChangedRows(k, entry))
     EXCEPT !.manifest[k] = Root(entry.value, LayoutOf(entry), entry.unloaded)]

\* Before the flush a key in an older layout is rewritten from the spilled
\* history: its old entries go, the rows still in the directory become entries.
MigrateHistory(store, k, entry, history) ==
  LET old == UNION {{EntryKey(k, s, id, entry.layout) :
                       id \in store.manifest[k].ids[s]} : s \in Sides}
      rows == UNION {{<<EntryKey(k, s, r.id, "Rows"), <<r>>>> :
                        r \in {x \in Range(FlattenSeq(history[s])) : x.id \in entry.unloaded[s]}} : s \in Sides}
  IN  IF store.manifest[k] = NoManifest \/ entry.layout = "Rows" THEN store
      ELSE Put([store EXCEPT !.manifest[k] = IF entry.layout = "Compact" THEN NoManifest ELSE @],
               {<<e, <<>>>> : e \in old} \cup rows)

-----------------------------------------------------------------------------
(* Checkpoints.                                                               *)

\* A snapshot is imported only if its manifests decode, every entry they name
\* is there and decodes, and nothing else is.
ValidSnapshot(store) ==
  LET used == {k \in Keys : store.manifest[k] # NoManifest}
  IN  /\ \A k \in used :
           LET m == store.manifest[k]
           IN  /\ ValidManifest(m)
               /\ m.layout # "Compact" => m.ids # <<{}, {}>>
               /\ \A e \in References(store, k) :
                    e \in DOMAIN store.entry /\
                    ValidEntry(store.entry[e], e[3], m.next[e[2]], m.layout)
      /\ DOMAIN store.entry = UNION {References(store, k) : k \in used}

\* The same state as a release with paged entries wrote it.
AsPages(store) ==
  LET State(k) == DecodeEntries(store, k)
  IN  Put([EmptyStore EXCEPT !.manifest = [k \in Keys |-> Root(State(k), "Pages", <<{}, {}>>)]],
          UNION {{<<EntryKey(k, s, id, "Pages"), Entries(State(k).rows[s], "Pages")[id]>> :
                    id \in DOMAIN Entries(State(k).rows[s], "Pages")} : k \in Keys, s \in Sides})

\* A state written before there were manifests has neither identities nor match
\* flags: the rows are numbered anew, one by one ...
LegacyState(old) ==
  LET Dense(rows) == [i \in 1..Len(rows) |-> [rows[i] EXCEPT !.id = i - 1]]
  IN  [old EXCEPT !.rows = Both(LAMBDA s : Dense(old.rows[s])),
                  !.next = Both(LAMBDA s : Len(old.rows[s])),
                  !.matchable = <<"none", "none">>]

\* ... and stored in the layout a new key would get.
MigrateLegacy(store) ==
  FoldLeft(LAMBDA st, k :
             FlushEntry(st, k, [Staged(LegacyState(DecodeEntries(store, k)), "Compact", <<{}, {}>>, FALSE)
                                  EXCEPT !.original = NoJoinState]),
           EmptyStore, SetToSeq(Keys))

-----------------------------------------------------------------------------

CONSTANTS
  Plans,       \* [type, filterNulls, residual, bounded, spill, valid, rows]; rows bounds the input
  NullKey,     \* the key of rows whose key column is null
  Rows,        \* rows of the inputs: [key, value]
  Kinds,       \* RowKinds of the inputs
  MaxBatch

JoinAssumption ==
  /\ Values \subseteq Nat \ {0} /\ MaxBatch \in Nat \ {0} /\ \A p \in Plans : p.rows \in Nat
  /\ Rows \subseteq [key : Keys, value : Values]
  /\ Kinds \subseteq {INSERT, UPDATE_BEFORE, UPDATE_AFTER, DELETE}

Types == {"Inner", "Left", "Right", "Full", "Semi", "Anti"}
Null == 0
NoCursor == [active |-> FALSE]

VARIABLES
  plan,     \* the plan options
  store,    \* the keyed state
  status,   \* of the processor: Idle, Running, Drained, Failed, Finishing, Finished, Rejected
  port,     \* the input the running invocation reads
  cursor,   \* StreamingCursor: the batch in flight
  input,    \* what either input holds: bag of rows (history)
  table,    \* what the consumer has made of the output: bag of rows (history)
  emitted,  \* keys the terminal output has passed
  tail,     \* rows of the current key's terminal output still to deliver
  read      \* changes consumed

vars == <<plan, store, status, port, cursor, input, table, emitted, tail, read>>

-----------------------------------------------------------------------------
(* The plan.                                                                  *)

ValidatePlan(p) == p.valid /\ p.type \in Types

IsOuter(side) == plan.type \in {"Full", IF side = 1 THEN "Left" ELSE "Right"}
Semi == plan.type \in {"Semi", "Anti"}
Anti == plan.type = "Anti"

Init ==
  /\ plan \in Plans
  /\ store = EmptyStore
  /\ status = IF ValidatePlan(plan) THEN "Idle" ELSE "Rejected"
  /\ port = 1 /\ cursor = NoCursor
  /\ input = <<NoRows, NoRows>> /\ table = NoRows
  /\ emitted = {} /\ tail = <<>> /\ read = 0

RowIsMatchable(k) == k # NullKey \/ ~plan.filterNulls
Condition(left, right) == ~plan.residual \/ left <= right

\* The mask of one input row over the opposite history of its key.
Matches(side, row, candidate) ==
  /\ RowIsMatchable(row.key)
  /\ IF side = 1 THEN Condition(row.value, candidate.row)
     ELSE Condition(candidate.row, row.value)

OutputRow(k, side, own, other) ==
  [key |-> k, left |-> IF side = 1 THEN own ELSE other,
   right |-> IF side = 1 THEN other ELSE own]

-----------------------------------------------------------------------------
(* One change: ChangeCursor.                                                  *)

CurrentChange(c) == c.batch[c.row]
CurrentKey(c) == CurrentChange(c).row.key

\* The opposite history: staged, or the current page of the spill file.
HistoryPages(c) == c.history[CurrentKey(c)][Other(c.side)]
Candidates(c) ==
  IF c.prepared THEN IF HistoryPages(c) = <<>> THEN <<>> ELSE HistoryPages(c)[c.page]
  ELSE c.staged[CurrentKey(c)].value.rows[Other(c.side)]

FinalPage(c) == ~c.prepared \/ c.page >= Len(HistoryPages(c))

MatchingFrom(c, i) ==
  {j \in i..Len(Candidates(c)) : Matches(c.side, CurrentChange(c).row, Candidates(c)[j])}

\* Flink ignores a retraction of a row that is not there, but emits for it.
RemoveRow(rows, value) == RemoveFirstMatch(rows, LAMBDA r : r.row = value)

WithStagedRows(c, side, rows) ==
  [c EXCEPT !.staged[CurrentKey(c)] =
     [@ EXCEPT !.value = [@ EXCEPT !.rows = [@ EXCEPT ![side] = rows]]]]

\* The change is taken up: a retraction leaves the staged history, unless the
\* row it retracts was found in the spilled one.
Initialized(c) ==
  LET change == CurrentChange(c)
      own == c.staged[change.row.key].value.rows[c.side]
      removes == ~Accumulates(change.kind) /\ c.row \notin c.retracted
  IN  [(IF removes THEN WithStagedRows(c, c.side, RemoveRow(own, change.row.value)) ELSE c)
         EXCEPT !.initialized = TRUE, !.candidate = 1, !.page = 1]

\* The changes one matching candidate causes, retraction of its padded row next
\* to the joined row.
CandidateChanges(c, row) ==
  LET change == CurrentChange(c)
      adds == Accumulates(change.kind)
      own == IsOuter(c.side)  other == IsOuter(Other(c.side))
      k == change.row.key
      turns == row.associations = (IF adds THEN 0 ELSE 1)
      padded == Change(IF adds THEN DELETE ELSE INSERT,
                       OutputRow(k, Other(c.side), row.row, Null))
      pair == OutputRow(k, c.side, change.row.value, row.row)
      left == Change(IF ~Anti THEN change.kind ELSE IF adds THEN DELETE ELSE INSERT,
                     OutputRow(k, 1, row.row, Null))
  IN  CASE Semi -> IF turns THEN <<left>> ELSE <<>>
        [] ~Semi /\ adds ->
             (IF other /\ turns THEN <<padded>> ELSE <<>>) \o
             <<Change(IF own \/ other THEN INSERT ELSE change.kind, pair)>>
        [] OTHER ->
             <<Change(IF own THEN DELETE ELSE change.kind, pair)>> \o
             (IF other /\ turns THEN <<padded>> ELSE <<>>)

\* Fault: the association count of the opposite row follows insertions only.
Associate_NoDecrement(c, row) ==
  IF ~(Semi \/ IsOuter(Other(c.side))) \/ ~Accumulates(CurrentChange(c).kind) THEN row
  ELSE [row EXCEPT !.associations = @ + 1]

\* The opposite row counts its matches only if an unmatched row is visible.
Associate(c, row) ==
  IF ~(Semi \/ IsOuter(Other(c.side))) THEN row
  ELSE [row EXCEPT !.associations =
          @ + (IF Accumulates(CurrentChange(c).kind) THEN 1 ELSE -1)]

\* Rows of a semi or anti join's left input do not walk the history.
Walks(c) == ~(Semi /\ c.side = 1)

\* All matching candidates are behind: the row itself shows if nothing matched
\* (if something did, for SEMI), and an added row joins the history.
OwnChanges(c) ==
  LET change == CurrentChange(c)
      unmatched == MatchingFrom(c, 1) = {}
      shows == IF Semi THEN c.side = 1 /\ unmatched = Anti
               ELSE IsOuter(c.side) /\ unmatched
      kind == IF Semi THEN change.kind ELSE IF Accumulates(change.kind) THEN INSERT ELSE DELETE
  IN  IF shows THEN <<Change(kind, OutputRow(change.row.key, c.side, change.row.value, Null))>>
      ELSE <<>>

StoreOwn(c) ==
  LET change == CurrentChange(c)
      own == c.staged[change.row.key].value
      id == own.next[c.side]
      count == Cardinality(MatchingFrom(c, 1))
      row == StoredRow(id, change.row.value,
                       IF IsOuter(c.side) \/ (Semi /\ c.side = 1) THEN count ELSE 0)
  IN  IF ~Accumulates(change.kind) THEN c
      ELSE [c EXCEPT !.staged[change.row.key] =
              [@ EXCEPT !.value = [own EXCEPT !.next[c.side] = id + 1,
                                              !.rows[c.side] = Append(@, row)]]]

-----------------------------------------------------------------------------
(* Inputs: changelogs that retract only what they have added.                 *)

Absorb(bag, batch) == MaterializeBag(bag, batch)

WellFormed(bag, batch) ==
  \A n \in 1..Len(batch) : \A r \in Rows : Count(Absorb(bag, SubSeq(batch, 1, n)), r) >= 0

Batches(side) ==
  {b \in BoundedSeq([kind : Kinds, row : Rows], MaxBatch) \ {<<>>} :
     read + Len(b) <= plan.rows /\ WellFormed(input[side], b)}

KeysOf(batch) == {batch[i].row.key : i \in 1..Len(batch)}

-----------------------------------------------------------------------------
(* A streaming invocation.                                                    *)

\* No invocation, no undelivered output, no failure.
RequireIdleStream == status \in {"Idle", "Finishing", "Finished"}

Execute == RequireIdleStream /\ status = "Idle" /\ status' = "Running" /\ port' = 1

StartInvocation ==
  /\ ~plan.bounded /\ Execute
  /\ UNCHANGED <<plan, store, cursor, input, table, emitted, tail, read>>

\* The histories of the batch's keys are staged before its first change: they
\* fit, or memory is denied and an inner join prepares them on disk instead.
BeginStreamingBatch(batch, prepared) ==
  LET appends == \A i \in 1..Len(batch) : Accumulates(batch[i].kind)
      spilled(k) == PrepareHistory(store, k, port, batch)
  IN  /\ status = "Running" /\ cursor = NoCursor
      /\ prepared => plan.spill /\ plan.type = "Inner"
      /\ cursor' =
           [active |-> TRUE, side |-> port, batch |-> batch, row |-> 1,
            candidate |-> 1, page |-> 1, initialized |-> FALSE, prepared |-> prepared,
            staged |-> [k \in KeysOf(batch) |->
                          IF prepared THEN spilled(k).staged
                          ELSE LoadCounted(store, k, IF appends THEN {port} ELSE {})],
            history |-> [k \in KeysOf(batch) |->
                           IF prepared THEN spilled(k).history ELSE <<<<>>, <<>>>>],
            retracted |-> IF prepared THEN UNION {spilled(k).retracted : k \in KeysOf(batch)}
                          ELSE {}]
      /\ input' = [input EXCEPT ![port] = Absorb(@, batch)]
      /\ read' = read + Len(batch)
      /\ UNCHANGED <<plan, store, status, port, table, emitted, tail>>

InRows == cursor.active /\ cursor.row <= Len(cursor.batch)

BeginChange ==
  /\ cursor.active /\ InRows /\ ~cursor.initialized
  /\ cursor' = Initialized(cursor)
  /\ UNCHANGED <<plan, store, status, port, input, table, emitted, tail, read>>

\* The next matching candidate. An output page may end before any of them: its
\* size follows the memory that is admitted.
DrainCandidate ==
  /\ cursor.active /\ InRows /\ cursor.initialized /\ Walks(cursor)
  /\ MatchingFrom(cursor, cursor.candidate) # {}
  /\ LET i == Min(MatchingFrom(cursor, cursor.candidate))
         row == Candidates(cursor)[i]
     IN  /\ table' = MaterializeBag(table, CandidateChanges(cursor, row))
         /\ cursor' =
              [(IF cursor.prepared THEN cursor
                ELSE WithStagedRows(cursor, Other(cursor.side),
                       [Candidates(cursor) EXCEPT ![i] = Associate(cursor, row)]))
                 EXCEPT !.candidate = i + 1]
  /\ UNCHANGED <<plan, store, status, port, input, emitted, tail, read>>

\* Only an inner join, whose opposite history does not change, walks it in
\* several pages.
NextHistoryPage ==
  /\ cursor.active /\ InRows /\ cursor.initialized /\ ~FinalPage(cursor)
  /\ MatchingFrom(cursor, cursor.candidate) = {}
  /\ cursor' = [cursor EXCEPT !.page = @ + 1, !.candidate = 1]
  /\ UNCHANGED <<plan, store, status, port, input, table, emitted, tail, read>>

FinishChange ==
  /\ cursor.active /\ InRows /\ cursor.initialized /\ FinalPage(cursor)
  /\ ~Walks(cursor) \/ MatchingFrom(cursor, cursor.candidate) = {}
  /\ table' = MaterializeBag(table, OwnChanges(cursor))
  /\ cursor' = [StoreOwn(cursor) EXCEPT !.row = @ + 1, !.initialized = FALSE, !.candidate = 1]
  /\ UNCHANGED <<plan, store, status, port, input, emitted, tail, read>>

\* The changelog is out: older layouts are rewritten first ...
MigrateBatch ==
  /\ cursor.active /\ ~InRows /\ cursor.prepared
  /\ store' = FoldLeft(LAMBDA st, k : MigrateHistory(st, k, cursor.staged[k], cursor.history[k]),
                       store, SetToSeq(DOMAIN cursor.staged))
  /\ cursor' = [cursor EXCEPT !.prepared = FALSE]
  /\ UNCHANGED <<plan, status, port, input, table, emitted, tail, read>>

\* ... then the staged keys are written, in pages of bounded size.
FlushKey(k) ==
  /\ cursor.active /\ ~InRows /\ ~cursor.prepared /\ k \in DOMAIN cursor.staged
  /\ store' = FlushEntry(store, k, cursor.staged[k])
  /\ cursor' = [cursor EXCEPT !.staged =
                  [other \in DOMAIN cursor.staged \ {k} |-> cursor.staged[other]]]
  /\ UNCHANGED <<plan, status, port, input, table, emitted, tail, read>>

EndStreamingBatch ==
  /\ cursor.active /\ ~InRows /\ ~cursor.prepared /\ DOMAIN cursor.staged = {}
  /\ cursor' = NoCursor
  /\ UNCHANGED <<plan, store, status, port, input, table, emitted, tail, read>>

\* An input is exhausted; after the second one the plan's stream ends.
EndInput ==
  /\ status = "Running" /\ cursor = NoCursor
  /\ port' = IF port = 1 THEN 2 ELSE 1
  /\ status' = IF port = 1 THEN "Running" ELSE "Drained"
  /\ UNCHANGED <<plan, store, cursor, input, table, emitted, tail, read>>

\* The driver has seen the end of the region's stream.
EndInvocation ==
  /\ status = "Drained" /\ status' = "Idle"
  /\ UNCHANGED <<plan, store, port, cursor, input, table, emitted, tail, read>>

\* An input, a predicate, a write or an admission fails, or the stream is
\* dropped before its end: its cursor goes and the processor stays failed.
AbandonInvocation ==
  /\ status \in {"Running", "Drained"}
  /\ status' = "Failed" /\ cursor' = NoCursor /\ port' = 1
  /\ UNCHANGED <<plan, store, input, table, emitted, tail, read>>

-----------------------------------------------------------------------------
(* A bounded plan.                                                            *)

\* Whether rows of this key and side can match is a fact of the key.
NoteMatchable(state, side, k) ==
  [state EXCEPT !.matchable[side] = IF RowIsMatchable(k) THEN "yes" ELSE "no"]

BoundedChange(side, state, change) ==
  LET noted == NoteMatchable(state, side, change.row.key)
      id == state.next[side]
  IN  IF Accumulates(change.kind)
      THEN [noted EXCEPT !.next[side] = id + 1,
                         !.rows[side] = Append(@, StoredRow(id, change.row.value, 0))]
      ELSE [noted EXCEPT !.rows[side] = RemoveRow(@, change.row.value)]

\* The batch updates the histories and writes them at once, without output.
ProcessBounded(side, batch) ==
  LET Stage(k) == LoadCounted(store, k, {})
      Of(k) == SelectSeq(batch, LAMBDA c : c.row.key = k)
      After(k) == FoldLeft(LAMBDA s, c : BoundedChange(side, s, c), Stage(k).value, Of(k))
  IN  /\ status = "Idle" /\ plan.bounded
      /\ store' = FoldLeft(LAMBDA st, k : FlushEntry(st, k, [Stage(k) EXCEPT !.value = After(k)]),
                           store, SetToSeq(KeysOf(batch)))
      /\ input' = [input EXCEPT ![side] = Absorb(@, batch)]
      /\ read' = read + Len(batch)
      /\ UNCHANGED <<plan, status, port, cursor, table, emitted, tail>>

\* Older state does not say whether the rows can match: their key tells.
BoundedMatchable(k, state, side) ==
  IF state.matchable[side] = "none" THEN RowIsMatchable(k) ELSE state.matchable[side] = "yes"

\* The join of one key's histories, which DataFusion computes from the match
\* flags and the residual condition.
BoundedJoin(k, state) ==
  LET lefts == state.rows[1]  rights == state.rows[2]
      Joins(i, j) == /\ \A s \in Sides : BoundedMatchable(k, state, s)
                     /\ Condition(lefts[i].row, rights[j].row)
      L == 1..Len(lefts)  R == 1..Len(rights)
      MatchedL == {i \in L : \E j \in R : Joins(i, j)}
      MatchedR == {j \in R : \E i \in L : Joins(i, j)}
      Insert(l, r) == Change(INSERT, OutputRow(k, 1, l, r))
      Pairs == [p \in {q \in L \X R : Joins(q[1], q[2])} |-> Insert(lefts[p[1]].row, rights[p[2]].row)]
      OnlyL(is) == [i \in is |-> Insert(lefts[i].row, Null)]
      OnlyR(js) == [j \in js |-> Insert(Null, rights[j].row)]
      Listed(f) == [n \in 1..Cardinality(DOMAIN f) |-> f[SetToSeq(DOMAIN f)[n]]]
  IN  IF Semi THEN Listed(OnlyL(IF Anti THEN L \ MatchedL ELSE MatchedL))
      ELSE Listed(Pairs) \o (IF IsOuter(1) THEN Listed(OnlyL(L \ MatchedL)) ELSE <<>>)
                         \o (IF IsOuter(2) THEN Listed(OnlyR(R \ MatchedR)) ELSE <<>>)

\* End of input: the keys are joined one after the other, page by page.
FinishBoundedOutput ==
  /\ plan.bounded /\ status = "Idle"
  /\ status' = "Finishing"
  /\ UNCHANGED <<plan, store, port, cursor, input, table, emitted, tail, read>>

NextBoundedCursor(k) ==
  /\ status = "Finishing" /\ tail = <<>> /\ k \in Keys \ emitted
  /\ tail' = IF store.manifest[k] = NoManifest THEN <<>>
             ELSE BoundedJoin(k, DecodeEntries(store, k))
  /\ emitted' = emitted \cup {k}
  /\ UNCHANGED <<plan, store, status, port, cursor, input, table, read>>

\* A page ends where its rows or its memory do, within a key or across keys.
DrainBoundedCursor ==
  /\ status = "Finishing" /\ tail # <<>>
  /\ table' = MaterializeBag(table, <<Head(tail)>>) /\ tail' = Tail(tail)
  /\ UNCHANGED <<plan, store, status, port, cursor, input, emitted, read>>

EndBoundedOutput ==
  /\ status = "Finishing" /\ tail = <<>> /\ emitted = Keys
  /\ status' = "Finished"
  /\ UNCHANGED <<plan, store, port, cursor, input, table, emitted, tail, read>>

-----------------------------------------------------------------------------
(* Checkpoints: written by this release or by an earlier one.                 *)

RestoreKeyGroup(format) ==
  CASE format = "current" -> store
    [] format = "paged" -> AsPages(store)
    [] format = "legacy" -> MigrateLegacy(store)

CheckpointAndRestore(format) ==
  /\ RequireIdleStream /\ status = "Idle"
  /\ ValidSnapshot(RestoreKeyGroup(format))
  /\ store' = RestoreKeyGroup(format)
  /\ UNCHANGED <<plan, status, port, cursor, input, table, emitted, tail, read>>

Next ==
  \/ StartInvocation
  \/ status = "Running" /\ cursor = NoCursor /\
     \E batch \in Batches(port) : \E p \in BOOLEAN : BeginStreamingBatch(batch, p)
  \/ BeginChange \/ DrainCandidate \/ NextHistoryPage \/ FinishChange
  \/ MigrateBatch \/ (\E k \in Keys : FlushKey(k)) \/ EndStreamingBatch
  \/ EndInput \/ EndInvocation \/ AbandonInvocation
  \/ plan.bounded /\ status = "Idle" /\
     \E side \in Sides : \E batch \in Batches(side) : ProcessBounded(side, batch)
  \/ FinishBoundedOutput \/ (\E k \in Keys : NextBoundedCursor(k))
  \/ DrainBoundedCursor \/ EndBoundedOutput
  \/ \E format \in {"current", "paged", "legacy"} : CheckpointAndRestore(format)

Spec == Init /\ [][Next]_vars

-----------------------------------------------------------------------------
(* Properties.                                                                *)

\* What SQL says the join of the two inputs holds of an output row.
Expected(o) ==
  LET l == [key |-> o.key, value |-> o.left]
      r == [key |-> o.key, value |-> o.right]
      Joins(a, b) == RowIsMatchable(o.key) /\ Condition(a, b)
      Partners(side, v) ==
        {w \in Values : /\ Count(input[Other(side)], [key |-> o.key, value |-> w]) > 0
                        /\ IF side = 1 THEN Joins(v, w) ELSE Joins(w, v)}
  IN  CASE o.left = Null /\ o.right = Null -> 0
        [] o.right = Null /\ o.left # Null ->
             IF (Semi /\ (Partners(1, o.left) = {}) = Anti) \/ (IsOuter(1) /\ Partners(1, o.left) = {})
             THEN Count(input[1], l) ELSE 0
        [] o.left = Null /\ o.right # Null ->
             IF IsOuter(2) /\ Partners(2, o.right) = {} THEN Count(input[2], r) ELSE 0
        [] OTHER ->
             IF ~Semi /\ Joins(o.left, o.right) THEN Count(input[1], l) * Count(input[2], r) ELSE 0

OutputRows == [key : Keys, left : Values \cup {Null}, right : Values \cup {Null}]

\* Whenever a checkpoint may be taken, the consumer of a streaming join holds
\* exactly the SQL join of the two inputs, every padded, matched and retracted
\* row accounted for; a bounded join holds it after its terminal output and
\* nothing before. And the keyed state is one that a restore accepts and that
\* holds the rows of the inputs: no entry lost, orphaned or left in an old
\* layout (regular_join.rs, change_cursor.rs, paged_state.rs).
JoinIsExact ==
  RequireIdleStream /\ tail = <<>> =>
    /\ \A o \in OutputRows :
         Count(table, o) =
           (IF ~plan.bounded \/ o.key \in emitted THEN Expected(o) ELSE 0)
    /\ ValidSnapshot(store)
    /\ \A k \in Keys, s \in Sides :
         LET rows == DecodeEntries(store, k).rows[s]
         IN  \A v \in Values :
               Cardinality({i \in 1..Len(rows) : rows[i].row = v}) =
               Count(input[s], [key |-> k, value |-> v])
=============================================================================
