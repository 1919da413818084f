----------------------------- MODULE KeyedStores -----------------------------
(* The keyed state a native operator writes through: a hash table per key     *)
(* group (state/memory.rs), an ordered map per key group                      *)
(* (state/ordered_memory.rs), or RocksDB behind the state ABI                 *)
(* (state/rocks_plugin.rs, streamfusion-state-rocksdb). One store per subtask *)
(* owns a range of key groups; a restore moves the groups to a store of any   *)
(* kind and any range.                                                        *)
EXTENDS Integers, Sequences, SequencesExt, FiniteSets, FiniteSetsExt, Functions

-----------------------------------------------------------------------------
(* Bounded scans of keyed state: bytewise key order, prefix bounds, and how   *)
(* each backend cuts a range into pages (state/mod.rs, ordered_memory.rs,     *)
(* memory.rs, rocks_plugin/scan.rs and rocks_state/scan.rs).                  *)

CONSTANT ByteMax     \* u8::MAX; keys and values are sequences of bytes

StateScansAssumption == ByteMax \in Nat \ {0}

\* Bytewise order: a proper prefix comes first.
LexLess(a, b) ==
  \E n \in 0..Len(a) :
    /\ n <= Len(b) /\ SubSeq(a, 1, n) = SubSeq(b, 1, n)
    /\ n < Len(b)
    /\ n = Len(a) \/ (n < Len(a) /\ a[n + 1] < b[n + 1])

Unbounded == [bounded |-> FALSE, key |-> <<>>]
Bounded(key) == [bounded |-> TRUE, key |-> key]

\* The first key after all keys with the prefix; a prefix of 0xFF bytes has none.
PrefixEnd(prefix) ==
  LET raisable == {i \in 1..Len(prefix) : prefix[i] # ByteMax}
  IN  IF raisable = {} THEN Unbounded
      ELSE Bounded([SubSeq(prefix, 1, Max(raisable)) EXCEPT ![Max(raisable)] = @ + 1])

Before(key, end) == ~end.bounded \/ LexLess(key, end.key)
EmptyRange(start, end) == end.bounded /\ ~LexLess(start, end.key)
InOrder(keys) == SetToSortSeq(keys, LexLess)

\* What one entry counts against a page's byte target, on top of key and value.
PageOverhead == 1
GroupBytes == 1
EntrySize(key, value) == Len(key) + Len(value) + PageOverhead

-----------------------------------------------------------------------------
(* In-memory stores. A scan is a fold over the entries: a full page goes to   *)
(* the visitor, which may stop the scan after page number `stop` (0: never).  *)

Scanning == [page |-> <<>>, size |-> 0, pages |-> <<>>, stopped |-> FALSE, error |-> FALSE]
Visit(s, stop) ==
  [s EXCEPT !.pages = Append(@, s.page), !.page = <<>>, !.size = 0, !.stopped = Len(s.pages) + 1 = stop]
Push(s, key, size) == [s EXCEPT !.page = Append(@, key), !.size = @ + size]

\* The visitor's answer to the last page is not asked for.
Finished(s) ==
  [pages |-> IF s.page = <<>> \/ s.stopped \/ s.error THEN s.pages ELSE Append(s.pages, s.page),
   complete |-> ~s.stopped /\ ~s.error, error |-> s.error]

\* OrderedMemoryKeyedState::range; large: a single entry may exceed the byte target.
OrderedRange(entries, start, end, rows, bytes, large, stop) ==
  LET keys == InOrder({k \in DOMAIN entries : ~LexLess(k, start) /\ Before(k, end)})
      Add(s, k, size) ==
        IF s.stopped THEN s
        ELSE IF size > bytes /\ ~large THEN [s EXCEPT !.error = TRUE]
        ELSE LET t == IF s.page # <<>> /\ s.size + size > bytes THEN Visit(s, stop) ELSE s
             IN  IF t.stopped THEN t ELSE Push(t, k, size)
      Step(s, k) ==
        IF s.stopped \/ s.error THEN s
        ELSE Add(IF Len(s.page) = rows THEN Visit(s, stop) ELSE s, k, EntrySize(k, entries[k]) + GroupBytes)
  IN  IF EmptyRange(start, end) THEN Finished(Scanning) ELSE Finished(FoldLeft(Step, Scanning, keys))

\* MemoryKeyedState::visit_prefix walks the hash tables, in no order of the keys.
HashPrefix(entries, prefix, rows, bytes) ==
  LET keys == SetToSeq({k \in DOMAIN entries : IsPrefix(prefix, k)})
      Step(s, k) ==
        LET size == EntrySize(k, entries[k])
        IN  IF s.error \/ size > bytes THEN [s EXCEPT !.error = TRUE]
            ELSE Push(IF Len(s.page) = rows \/ s.size + size > bytes THEN Visit(s, 0) ELSE s, k, size)
  IN  Finished(FoldLeft(Step, Scanning, keys))

-----------------------------------------------------------------------------
(* RocksDB. One page per call of the component; the caller resumes after the  *)
(* last key it was given. Database keys carry the key group in front.         *)

DatabaseKey(group, key) == <<group>> \o key

\* The keys an iterator meets from its seek position on, over all key groups.
IteratorFrom(db, group, start, after) ==
  LET resumed == after.bounded /\ ~LexLess(after.key, start)
      seek == DatabaseKey(group, IF resumed THEN after.key ELSE start)
  IN  InOrder({k \in DOMAIN db : ~LexLess(k, seek) /\ ~(resumed /\ k = seek)})

InScan(key, group, end) == key[1] = group /\ Before(Tail(key), end)

\* The page ends the scan when the iterator stands on no key of the range.
PageOf(met, group, end, count) ==
  [keys |-> [i \in 1..count |-> Tail(met[i])],
   complete |-> count = Len(met) \/ ~InScan(met[count + 1], group, end),
   error |-> FALSE]
EmptyPage == [keys |-> <<>>, complete |-> TRUE, error |-> FALSE]
RefusedPage == [keys |-> <<>>, complete |-> FALSE, error |-> TRUE]

\* How many keys a page takes. With admission the first entry may exceed the target.
RECURSIVE PageCount(_, _, _, _, _, _, _, _, _)
PageCount(met, db, group, end, rows, bytes, admitted, count, size) ==
  LET next == met[count + 1]
      Grow(grown) ==
        IF grown > bytes /\ ~(admitted /\ count = 0) THEN count
        ELSE IF admitted /\ grown >= bytes THEN count + 1
        ELSE PageCount(met, db, group, end, rows, bytes, admitted, count + 1, grown)
  IN  IF count = Len(met) \/ count = rows \/ ~InScan(next, group, end) THEN count
      ELSE Grow(size + EntrySize(next, db[next]))

ScanRangePage(db, group, start, end, after, rows, bytes) ==
  LET Oversize(met, count) ==
        /\ count < Min({rows, Len(met)}) /\ InScan(met[count + 1], group, end)
        /\ EntrySize(met[count + 1], db[met[count + 1]]) > bytes
      Cut(met, count) == IF Oversize(met, count) THEN RefusedPage ELSE PageOf(met, group, end, count)
      Scan(met) == Cut(met, PageCount(met, db, group, end, rows, bytes, FALSE, 0, 0))
  IN  IF EmptyRange(start, end) THEN EmptyPage ELSE Scan(IteratorFrom(db, group, start, after))

ScanRangePageAdmitted(db, group, start, end, after, rows, bytes) ==
  LET Scan(met) == PageOf(met, group, end, PageCount(met, db, group, end, rows, bytes, TRUE, 0, 0))
  IN  IF EmptyRange(start, end) THEN EmptyPage ELSE Scan(IteratorFrom(db, group, start, after))

\* The component's scan entry point: with an admission callback or without.
ScanKeyGroup(db, group, start, end, after, rows, bytes, admitted) ==
  IF admitted THEN ScanRangePageAdmitted(db, group, start, end, after, rows, bytes)
  ELSE ScanRangePage(db, group, start, end, after, rows, bytes)

\* The host's loops over pages; both resume after the last key they were given.
ScanRange(page, sofar, stop) ==
  [done |-> page.error \/ page.keys = <<>> \/ page.complete \/ Len(sofar) + 1 = stop,
   pages |-> IF page.keys = <<>> THEN sofar ELSE Append(sofar, page.keys),
   complete |-> page.complete, error |-> page.error]

ScanRangeAdmitted(page, sofar, stop) ==
  LET stuck == sofar # <<>> /\ page.keys # <<>> /\ ~LexLess(Last(Last(sofar)), Last(page.keys))
      looped == ScanRange(page, sofar, stop)
  IN  [looped EXCEPT !.error = @ \/ (page.keys = <<>> /\ ~page.complete) \/ (~looped.done /\ stuck),
                     !.done = @ \/ stuck]

RECURSIVE PluginScan(_, _, _, _, _, _, _, _, _)
PluginScan(db, group, start, end, rows, bytes, admitted, stop, sofar) ==
  LET after == IF sofar = <<>> THEN Unbounded ELSE Bounded(Last(Last(sofar)))
      Loop(page) == IF admitted THEN ScanRangeAdmitted(page, sofar, stop) ELSE ScanRange(page, sofar, stop)
      Continue(r) ==
        IF r.done THEN [pages |-> r.pages, complete |-> r.complete, error |-> r.error]
        ELSE PluginScan(db, group, start, end, rows, bytes, admitted, stop, r.pages)
  IN  Continue(Loop(ScanKeyGroup(db, group, start, end, after, rows, bytes, admitted)))

-----------------------------------------------------------------------------
(* The backend-neutral snapshot of one key group (streamfusion-state-abi):    *)
(* a header and length-framed entries. A frame is a sequence of tokens; a     *)
(* fixed-width field is one token, a byte of a key or a value is one token.   *)

Magic == 83
Version == 1
HeaderTokens == 4

\* An entry is <<key, value>>.
EncodedEntry(entry) == <<Len(entry[1])>> \o entry[1] \o <<Len(entry[2])>> \o entry[2]
SnapshotHeader(group, count) == <<Magic, Version, group, count>>
EncodeKeyGroupSnapshot(group, entries) ==
  SnapshotHeader(group, Len(entries)) \o FlattenSeq([i \in 1..Len(entries) |-> EncodedEntry(entries[i])])

\* SnapshotWriter: measured first, then written; a count or size that differs fails.
WriteMeasured(group, count, size, entries) ==
  LET frame == EncodeKeyGroupSnapshot(group, entries)
  IN  [ok |-> Len(entries) = count /\ Len(frame) = size, frame |-> [frame EXCEPT ![HeaderTokens] = count]]

-----------------------------------------------------------------------------
Malformed == [ok |-> FALSE, entries |-> <<>>, at |-> 0]

\* read_exact of a length-prefixed field starting at token `at`.
FieldEnd(frame, at) == at + frame[at]
FieldFits(frame, at) == at <= Len(frame) /\ FieldEnd(frame, at) <= Len(frame)

RECURSIVE ReadEntries(_, _, _, _)
ReadEntries(frame, at, count, sofar) ==
  IF count = 0 THEN [ok |-> TRUE, entries |-> sofar, at |-> at]
  ELSE IF ~FieldFits(frame, at) THEN Malformed
  ELSE LET value == FieldEnd(frame, at) + 1
       IN  IF ~FieldFits(frame, value) THEN Malformed
           ELSE ReadEntries(frame, FieldEnd(frame, value) + 1, count - 1,
                  Append(sofar, <<SubSeq(frame, at + 1, value - 1),
                                  SubSeq(frame, value + 1, FieldEnd(frame, value))>>))

\* The whole frame is validated before an entry is handed out.
ValidateKeyGroupSnapshot(group, frame) ==
  IF \/ Len(frame) < HeaderTokens
     \/ frame[1] # Magic \/ frame[2] # Version \/ frame[3] # group
     \/ frame[4] > (Len(frame) - HeaderTokens) \div 2
  THEN Malformed
  ELSE LET read == ReadEntries(frame, HeaderTokens + 1, frame[4], <<>>)
       IN  IF read.ok /\ read.at = Len(frame) + 1 THEN read ELSE Malformed

SnapshotEntries(group, frame) == ValidateKeyGroupSnapshot(group, frame)

-----------------------------------------------------------------------------

CONSTANTS
  Ranges,         \* the key-group ranges a store may be opened with, <<first, last>>
  StateKeys, StateValues,
  Batches,        \* the mutation lists of one write
  Budget,         \* bytes the memory owner grants a store
  MaxWrites,      \* bound on the number of writes
  Capacity,       \* mutations of one RocksDB write batch
  RestoreRows,    \* rows of one restored page
  Requests        \* the scans whose answers are compared

Kinds == {"hash", "ordered", "rocks"}
Groups == 0..Max({r[2] : r \in Ranges})
NoEntries == [k \in {} |-> <<>>]
IsEmpty(entries) == DOMAIN entries = {}
SameEntries(a, b) == DOMAIN a = DOMAIN b /\ \A k \in DOMAIN a : a[k] = b[k]

VARIABLES
  store,          \* the open store
  truth,          \* per key group, what the successful writes left
  phase,          \* "open", "failed" (the task fails), "torn" or "rejected"
  writes

vars == <<store, truth, phase, writes>>

-----------------------------------------------------------------------------
(* Opening.                                                                   *)

DirectoryBytes(first, last) == last - first + 1
NewStore(kind, first, last) ==
  [kind |-> kind, first |-> first, last |-> last,
   groups |-> [g \in first..last |-> NoEntries], tables |-> [g \in first..last |-> 0],
   db |-> NoEntries, bytes |-> 0,
   reserved |-> IF kind = "rocks" THEN 0 ELSE DirectoryBytes(first, last)]

\* Each constructor refuses an empty range, RocksDB in the component it opens.
ValidRange(first, last) == first <= last

CheckOwned(s, group) == group \in s.first..s.last

-----------------------------------------------------------------------------
(* Writing. A mutation is [group, key, put, value].                           *)

Restricted(f, keys) == [k \in keys |-> f[k]]
Mutated(entries, m) ==
  IF m.put THEN [k \in DOMAIN entries \cup {m.key} |-> IF k = m.key THEN m.value ELSE entries[k]]
  ELSE Restricted(entries, DOMAIN entries \ {m.key})
ApplyTo(groups, ms) ==
  FoldLeft(LAMBDA gs, m : [gs EXCEPT ![m.group] = Mutated(gs[m.group], m)], groups, ms)

Total(ms, Cost(_)) == FoldLeft(LAMBDA n, m : n + Cost(m), 0, ms)
PayloadBytes(entries) ==
  FoldSet(LAMBDA k, n : n + Len(k) + Len(entries[k]), 0, DOMAIN entries)

\* --- ordered maps -----------------------------------------------------------
EntryOverhead == 2
RootBytes == 3

OrderedBytes(groups) ==
  FoldSet(LAMBDA g, n : n + PayloadBytes(groups[g]) + EntryOverhead * Cardinality(DOMAIN groups[g])
                          + (IF IsEmpty(groups[g]) THEN 0 ELSE RootBytes),
          0, DOMAIN groups)

\* Fault: a first entry of a key group is admitted without the root it allocates.
OrderedAdmission_NoRoots(s, ms) ==
  s.reserved + Total(ms, LAMBDA m : IF m.put THEN Len(m.key) + Len(m.value) + EntryOverhead ELSE 0)

\* The whole batch is admitted before the first mutation, duplicates counted twice.
OrderedAdmission(s, ms) ==
  LET newRoots == {g \in DOMAIN s.groups : IsEmpty(s.groups[g]) /\ \E i \in 1..Len(ms) : ms[i].group = g /\ ms[i].put}
  IN  s.reserved + Total(ms, LAMBDA m : IF m.put THEN Len(m.key) + Len(m.value) + EntryOverhead ELSE 0)
        + RootBytes * Cardinality(newRoots)

\* --- hash tables ------------------------------------------------------------
BucketBytes == 1
ShardBytes == 1

\* Usable slots of the tables hashbrown allocates, and the bytes of each.
TableHeapSize(slots) == CASE slots = 0 -> 0 [] slots = 3 -> 4 * BucketBytes [] slots = 7 -> 8 * BucketBytes
                          [] slots = 14 -> 16 * BucketBytes
TableFor(entries) == IF entries <= 3 THEN 3 ELSE IF entries <= 7 THEN 7 ELSE 14
Doubled(slots) == CASE slots = 0 -> 3 [] slots = 3 -> 7 [] OTHER -> 14

EstimatedHeapSize(s) ==
  DirectoryBytes(s.first, s.last) + s.bytes
    + FoldSet(LAMBDA g, n : n + TableHeapSize(s.tables[g]) + (IF s.tables[g] = 0 THEN 0 ELSE ShardBytes),
              0, DOMAIN s.tables)

\* New keys of a group in the batch, each occurrence counted.
Additions(s, ms, g) ==
  Cardinality({i \in 1..Len(ms) : ms[i].group = g /\ ms[i].put /\ ms[i].key \notin DOMAIN s.groups[g]})

\* A table whose free slots (tombstones take some) do not hold the additions is replaced.
Growing(s, ms, lost) ==
  {g \in DOMAIN s.groups : /\ Additions(s, ms, g) > 0
                           /\ Cardinality(DOMAIN s.groups[g]) + Additions(s, ms, g) > s.tables[g] - lost}
Required(s, ms, g) == TableFor(Cardinality(DOMAIN s.groups[g]) + Additions(s, ms, g))

GrowthForShard(s, ms, g) ==
  Max({TableHeapSize(Required(s, ms, g)), 2 * TableHeapSize(s.tables[g])}) - TableHeapSize(s.tables[g])

PayloadGrowth(s, m) ==
  LET old == s.groups[m.group]
  IN  IF ~m.put THEN 0
      ELSE IF m.key \in DOMAIN old THEN Max({0, Len(m.value) - Len(old[m.key])})
      ELSE Len(m.key) + Len(m.value) + BucketBytes

\* The largest old table or old entry that lives beside its replacement.
Overlap(s, ms, growing) ==
  LET resized == {i \in 1..Len(ms) : /\ ms[i].put /\ ms[i].key \in DOMAIN s.groups[ms[i].group]
                                     /\ Len(s.groups[ms[i].group][ms[i].key]) # Len(ms[i].value)}
  IN  Max({0} \cup {TableHeapSize(s.tables[g]) : g \in growing}
              \cup {Len(ms[i].key) + Len(s.groups[ms[i].group][ms[i].key]) : i \in resized})

HashAdmission(s, ms, growing) ==
  EstimatedHeapSize(s) + Total(ms, LAMBDA m : PayloadGrowth(s, m))
    + FoldSet(LAMBDA g, n : n + GrowthForShard(s, ms, g) + (IF s.tables[g] = 0 THEN ShardBytes ELSE 0), 0, growing)
    + Overlap(s, ms, growing)

\* --- one write --------------------------------------------------------------
Wrote(outcome, s) == [outcome |-> outcome, store |-> s]

\* The last resize is to the bytes in use; above the admission it may fail with the batch applied.
Settled(s, admitted, after, used) ==
  IF admitted > Budget THEN Wrote("refused", s)
  ELSE IF used > admitted THEN Wrote("torn", after)
  ELSE Wrote("written", [after EXCEPT !.reserved = used])

WriteOrdered(s, ms) ==
  LET after == ApplyTo(s.groups, ms)
      used == DirectoryBytes(s.first, s.last) + OrderedBytes(after)
  IN  {Settled(s, OrderedAdmission(s, ms), [s EXCEPT !.groups = after], used)}

\* hashbrown reuses the table, takes the table that fits or doubles the old one.
WriteHash(s, ms) ==
  LET Grown(growing, doubled) ==
        [g \in DOMAIN s.tables |->
           IF g \notin growing THEN s.tables[g]
           ELSE IF doubled THEN Max({Required(s, ms, g), Doubled(s.tables[g])})
           ELSE Max({Required(s, ms, g), s.tables[g]})]
      Done(growing, after) == Settled(s, HashAdmission(s, ms, growing), after, EstimatedHeapSize(after))
      Written(growing, doubled, groups) ==
        Done(growing, [s EXCEPT !.groups = groups, !.tables = Grown(growing, doubled),
               !.bytes = FoldSet(LAMBDA g, n : n + PayloadBytes(groups[g]), 0, DOMAIN groups)])
  IN  {Written(Growing(s, ms, lost), lost = 1, ApplyTo(s.groups, ms)) : lost \in {0, 1}}

\* flush_batches: a RocksDB write batch per Capacity mutations. Any flush may fail,
\* which leaves the earlier ones committed.
PutInto(db, ms) ==
  FoldLeft(LAMBDA d, m : Mutated(d, [m EXCEPT !.key = DatabaseKey(m.group, m.key)]), db, ms)
FlushBatches(s, ms) ==
  LET ends == {n \in 1..Len(ms) : n % Capacity = 0 \/ n = Len(ms)}
      After(n) == [s EXCEPT !.db = PutInto(@, SubSeq(ms, 1, n))]
  IN  {Wrote("written", After(Len(ms)))} \cup {Wrote("failed", After(n)) : n \in ({0} \cup ends) \ {Len(ms)}}

\* Every key group of the batch is checked before anything is written.
WriteBatchRefs(s, ms) ==
  IF \A i \in 1..Len(ms) : CheckOwned(s, ms[i].group) THEN FlushBatches(s, ms) ELSE {Wrote("refused", s)}
WriteMemory(s, ms) ==
  IF \E i \in 1..Len(ms) : ~CheckOwned(s, ms[i].group) THEN {Wrote("refused", s)}
  ELSE IF s.kind = "hash" THEN WriteHash(s, ms) ELSE WriteOrdered(s, ms)
WriteBatch(s, ms) == IF s.kind = "rocks" THEN WriteBatchRefs(s, ms) ELSE WriteMemory(s, ms)

-----------------------------------------------------------------------------
(* Reading.                                                                   *)

GetMemory(s, ks) ==
  [i \in 1..Len(ks) |-> LET e == s.groups[ks[i].group]
                        IN  IF ks[i].key \in DOMAIN e THEN <<e[ks[i].key]>> ELSE <<>>]

\* One request per distinct key, in order of first appearance; answers by position.
CoalescedReadKeys(ks) ==
  LET unique == FoldLeft(LAMBDA seen, k : IF Contains(seen, k) THEN seen ELSE Append(seen, k), <<>>, ks)
  IN  [unique |-> unique, positions |-> [i \in 1..Len(ks) |-> CHOOSE j \in 1..Len(unique) : unique[j] = ks[i]]]
GetBatchRefs(s, ks) ==
  [i \in 1..Len(ks) |-> LET k == DatabaseKey(ks[i].group, ks[i].key)
                        IN  IF k \in DOMAIN s.db THEN <<s.db[k]>> ELSE <<>>]
GetRocks(s, ks) ==
  LET read == CoalescedReadKeys(ks)
      values == GetBatchRefs(s, read.unique)
  IN  [i \in 1..Len(ks) |-> values[read.positions[i]]]

GetBatch(s, ks) == IF s.kind = "rocks" THEN GetRocks(s, ks) ELSE GetMemory(s, ks)

\* Scans; only ordered backends answer ranges.
VisitPrefix(s, g, prefix, rows, bytes, admitted) ==
  CASE s.kind = "hash" -> HashPrefix(s.groups[g], prefix, rows, bytes)
    [] s.kind = "ordered" -> OrderedRange(s.groups[g], prefix, PrefixEnd(prefix), rows, bytes, admitted, 0)
    [] OTHER -> PluginScan(s.db, g, prefix, PrefixEnd(prefix), rows, bytes, admitted, 0, <<>>)
VisitRange(s, g, start, end, rows, bytes, admitted, stop) ==
  IF s.kind = "ordered" THEN OrderedRange(s.groups[g], start, end, rows, bytes, admitted, stop)
  ELSE PluginScan(s.db, g, start, end, rows, bytes, admitted, stop, <<>>)

-----------------------------------------------------------------------------
(* Snapshots and restores.                                                    *)

ScanTarget == 4      \* the byte target of a snapshot's or an import's page
ProbeBytes == 100    \* more than any entry of the instance
Listed(keys, entries) == [i \in 1..Len(keys) |-> <<keys[i], entries[keys[i]]>>]
InGroup(db, g) == {k \in DOMAIN db : k[1] = g}

\* The memory stores sort the entries of the group they write.
SnapshotMemory(s, g) == EncodeKeyGroupSnapshot(g, Listed(InOrder(DOMAIN s.groups[g]), s.groups[g]))

\* Two passes over one iterator: the first measures, the second writes.
SnapshotRocks(s, g) ==
  LET met == InOrder(InGroup(s.db, g))
      size == HeaderTokens + Total(met, LAMBDA k : 2 + Len(Tail(k)) + Len(s.db[k]))
  IN  WriteMeasured(g, Len(met), size, [i \in 1..Len(met) |-> <<Tail(met[i]), s.db[met[i]]>>]).frame

\* Streamed to the host instead: counted first, then the header, then the entries.
ShapeOf(entries) == [count |-> Len(entries), size |-> Total(entries, LAMBDA e : 2 + Len(e[1]) + Len(e[2]))]
WriteEntries(g, entries) ==
  SnapshotHeader(g, ShapeOf(entries).count) \o FlattenSeq([i \in 1..Len(entries) |-> EncodedEntry(entries[i])])
ScannedEntries(db, g) ==
  LET keys == FlattenSeq(PluginScan(db, g, <<>>, Unbounded, RestoreRows, ScanTarget, TRUE, 0, <<>>).pages)
  IN  [i \in 1..Len(keys) |-> <<keys[i], db[DatabaseKey(g, keys[i])]>>]
StreamSnapshot(s, g) ==
  WriteEntries(g, IF s.kind = "rocks" THEN ScannedEntries(s.db, g)
                  ELSE Listed(InOrder(DOMAIN s.groups[g]), s.groups[g]))
SnapshotKeyGroup(s, g) == IF s.kind = "rocks" THEN SnapshotRocks(s, g) ELSE SnapshotMemory(s, g)

RequireEmpty(s, g) == VisitPrefix(s, g, <<>>, 1, ProbeBytes, FALSE).pages = <<>>

\* Pages of RestoreRows entries, each one write.
WritePage(s, g, page) ==
  WriteBatch(s, [i \in 1..Len(page) |-> [group |-> g, key |-> page[i][1], put |-> TRUE, value |-> page[i][2]]])

RECURSIVE WritePages(_, _, _)
WritePages(s, g, entries) ==
  LET count == Min({RestoreRows, Len(entries)})
  IN  IF entries = <<>> THEN {Wrote("written", s)}
      ELSE UNION {IF w.outcome # "written" THEN {w}
                  ELSE WritePages(w.store, g, SubSeq(entries, count + 1, Len(entries)))
                  : w \in WritePage(s, g, SubSeq(entries, 1, count))}

RestoreKeyGroup(s, g, frame) ==
  LET read == SnapshotEntries(g, frame)
  IN  IF ~read.ok \/ ~RequireEmpty(s, g) THEN {Wrote("refused", s)} ELSE WritePages(s, g, read.entries)

\* The pages of a stable checkpoint go to the store as they are read.
ImportKeyGroup(s, g, source) ==
  IF ~RequireEmpty(s, g) THEN {Wrote("refused", s)} ELSE WritePages(s, g, ScannedEntries(source, g))

\* Fold a restore over the key groups of the new range.
RECURSIVE RestoreAll(_, _, _)
RestoreAll(s, g, Frames) ==
  IF g > s.last THEN {Wrote("written", s)}
  ELSE UNION {IF w.outcome # "written" THEN {w} ELSE RestoreAll(w.store, g + 1, Frames)
              : w \in RestoreKeyGroup(s, g, Frames[g])}
RECURSIVE ImportAll(_, _, _)
ImportAll(s, g, source) ==
  IF g > s.last THEN {Wrote("written", s)}
  ELSE UNION {IF w.outcome # "written" THEN {w} ELSE ImportAll(w.store, g + 1, source)
              : w \in ImportKeyGroup(s, g, source)}

-----------------------------------------------------------------------------
Init ==
  \E kind \in Kinds, range \in Ranges :
    /\ store = NewStore(kind, range[1], range[2])
    /\ phase = IF ValidRange(range[1], range[2]) THEN "open" ELSE "rejected"
    /\ truth = [g \in Groups |-> NoEntries]
    /\ writes = 0

PhaseAfter(outcome) == CASE outcome = "torn" -> "torn" [] outcome = "failed" -> "failed" [] OTHER -> "open"

\* A refused batch fails its operator; the store itself is as before.
Write ==
  /\ phase = "open" /\ writes < MaxWrites
  /\ \E ms \in Batches : \E w \in WriteBatch(store, ms) :
       /\ store' = w.store
       /\ phase' = PhaseAfter(w.outcome)
       /\ truth' = IF w.outcome = "written" THEN ApplyTo(truth, ms) ELSE truth
  /\ writes' = writes + 1

\* Snapshots of all subtasks; the groups this store did not own come from the others'.
Rescale ==
  /\ phase = "open" /\ writes < MaxWrites
  /\ \E kind \in Kinds, range \in Ranges :
       /\ ValidRange(range[1], range[2])
       /\ \E frames \in {[g \in Groups |-> IF CheckOwned(store, g) THEN SnapshotKeyGroup(store, g)
                                           ELSE EncodeKeyGroupSnapshot(g, Listed(InOrder(DOMAIN truth[g]), truth[g]))]} :
          \E w \in RestoreAll(NewStore(kind, range[1], range[2]), range[1], frames) :
            /\ store' = w.store
            /\ phase' = IF w.outcome = "written" THEN "open" ELSE "failed"
  /\ writes' = writes + 1
  /\ UNCHANGED truth

\* A RocksDB checkpoint opened read-only is imported into a store of a range it covers.
ImportCheckpoint ==
  /\ phase = "open" /\ writes < MaxWrites /\ store.kind = "rocks"
  /\ \E kind \in Kinds, range \in Ranges :
       /\ ValidRange(range[1], range[2]) /\ CheckOwned(store, range[1]) /\ CheckOwned(store, range[2])
       /\ \E w \in ImportAll(NewStore(kind, range[1], range[2]), range[1], store.db) :
            /\ store' = w.store
            /\ phase' = IF w.outcome = "written" THEN "open" ELSE "failed"
  /\ writes' = writes + 1
  /\ UNCHANGED truth

Next == Write \/ ImportCheckpoint \/ Rescale
Spec == Init /\ [][Next]_vars

-----------------------------------------------------------------------------
Contents(s, g) ==
  IF s.kind = "rocks" THEN [k \in {Tail(k) : k \in InGroup(s.db, g)} |-> s.db[DatabaseKey(g, k)]] ELSE s.groups[g]

\* A scan delivers the range in order: all of it, or the pages up to where the
\* visitor stopped or an entry above the byte limit was met; "complete" means all.
Delivers(result, wanted, rows, stop) ==
  LET seen == FlattenSeq(result.pages)
  IN  /\ IsPrefix(seen, wanted)
      /\ \A i \in 1..Len(result.pages) : Len(result.pages[i]) \in 1..rows
      /\ result.complete => seen = wanted
      /\ (stop = 0 /\ ~result.error) => seen = wanted
      /\ stop > 0 => Len(result.pages) <= stop

ScansAgree(s, g, entries) ==
  \A r \in Requests :
    LET wanted == InOrder({k \in DOMAIN entries : ~LexLess(k, r.start) /\ Before(k, r.end)})
        prefixed == {k \in DOMAIN entries : IsPrefix(r.start, k)}
        visited == VisitPrefix(s, g, r.start, r.rows, r.bytes, r.admitted)
    IN  /\ s.kind # "hash" =>
             Delivers(VisitRange(s, g, r.start, r.end, r.rows, r.bytes, r.admitted, r.stop), wanted, r.rows, r.stop)
        /\ \/ visited.error
           \/ /\ ToSet(FlattenSeq(visited.pages)) = prefixed
              /\ Len(FlattenSeq(visited.pages)) = Cardinality(prefixed)
        /\ r.admitted /\ s.kind # "hash" => ~visited.error

\* Whatever the backend, the store holds what the successful writes left: reads,
\* range and prefix scans and snapshots answer from that, a key group is never
\* restored twice, and a batch once admitted is applied within its admission, so
\* that the reservation covers the store.
StoresAgree ==
  /\ phase # "torn"
  /\ phase = "open" =>
       \A g \in store.first..store.last :
         /\ SameEntries(Contents(store, g), truth[g])
         /\ \A a, b \in StateKeys :
              GetBatch(store, <<[group |-> g, key |-> a], [group |-> g, key |-> b], [group |-> g, key |-> a]>>)
                = [i \in 1..3 |-> LET k == <<a, b, a>>[i] IN IF k \in DOMAIN truth[g] THEN <<truth[g][k]>> ELSE <<>>]
         /\ ScansAgree(store, g, truth[g])
         /\ LET frame == SnapshotKeyGroup(store, g)
            IN  /\ StreamSnapshot(store, g) = frame
                /\ SnapshotEntries(g, frame).entries = Listed(InOrder(DOMAIN truth[g]), truth[g])
                /\ \A n \in 0..(Len(frame) - 1) : ~SnapshotEntries(g, SubSeq(frame, 1, n)).ok
                /\ ~IsEmpty(truth[g]) => \A w \in RestoreKeyGroup(store, g, frame) : w.outcome = "refused"
=============================================================================
