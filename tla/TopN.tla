-------------------------------- MODULE TopN ---------------------------------
(* The native Top-N operator under its two hosts: the operator of its own     *)
(* (StreamFusionArrowTopNOperator, and the bounded RANK operator) and the     *)
(* shared native region. A batch is one step; a checkpoint may be restored    *)
(* under the other host, or come from a release that stored rows inline.      *)
EXTENDS Changelog

-----------------------------------------------------------------------------
(* The steps of the native Top-N processor: ordering of the candidates of a   *)
(* partition, the three strategies, the changelog between two selections, and *)
(* the formats in which a partition is stored. A row is                       *)
(* [key, order, id, top]: partition, sort key, primary key, variable rank end.*)

Null == 0              \* the null sort key
NaN == 99              \* a floating sort key that equals every other one
NoEnd == -1            \* no rank end recorded for the partition
Absent == [next |-> -1]  \* no value under the state key

-----------------------------------------------------------------------------
(* The plan.                                                                  *)

Sorted(p) == p.sort # "none"
Encoded(p) == p.sort = "encoded"   \* Arrow row keys order like Flink's comparator

IsAppendLimit(p) ==
  ~Sorted(p) /\ ~p.partitioned /\ p.rankEnd # NoEnd /\ p.strategy = "AppendFast"

ValidatePlan(p) ==
  /\ p.rankStart >= 1
  /\ (p.rankEnd = NoEnd) = p.variableEnd
  /\ p.strategy \in {"AppendFast", "UpdateFast", "Retract"}
  /\ p.rankEnd # NoEnd => p.rankEnd >= p.rankStart
  /\ p.rankType = "Rank" =>
       p.bounded /\ p.physical /\ p.strategy = "AppendFast" /\ p.rankEnd # NoEnd /\ p.ttl = 0
  /\ p.bounded => p.rankType = "Rank"
  /\ ~Sorted(p) => ~p.partitioned /\ ~p.outputRank /\ ~p.variableEnd

\* Plans the shared native region accepts.
ValidateNode(p) ==
  /\ ValidatePlan(p)
  /\ p.strategy = "AppendFast" /\ p.rankEnd # NoEnd /\ p.rankType = "RowNumber"
  /\ ~p.bounded /\ ~p.physical /\ p.ttl = 0 /\ Encoded(p)

AppendCompatible(p) ==
  /\ p.strategy = "AppendFast" /\ p.rankEnd > 1 /\ p.rankType = "RowNumber"
  /\ ~p.bounded /\ ~p.physical /\ Encoded(p)

TopOneCompatible(p) ==
  /\ p.strategy = "AppendFast" /\ p.rankStart = 1 /\ p.rankEnd = 1
  /\ p.rankType = "RowNumber" /\ ~p.bounded /\ ~p.physical /\ Encoded(p)

\* The partition of a row; a global Top-N has one.
Global == 1
GroupOf(p, row) == IF p.partitioned THEN row.key ELSE Global

-----------------------------------------------------------------------------
(* Ordering. A candidate is [seq, row, kind, at]: at is its row in the batch, *)
(* or 0 when it comes from the state.                                         *)

\* Null against null or value: -1, 0 or 1. NaN is neither below nor above.
CompareValues(a, b, nullsLast) ==
  CASE a = b -> 0
    [] a = Null -> IF nullsLast THEN 1 ELSE -1
    [] b = Null -> IF nullsLast THEN -1 ELSE 1
    [] a = NaN \/ b = NaN -> 0
    [] OTHER -> IF a < b THEN -1 ELSE 1

\* The direction turns around values, not nulls.
CompareRows(p, a, b) ==
  LET order == CompareValues(a.order, b.order, p.nullsLast)
  IN  IF p.ascending \/ a.order = Null \/ b.order = Null THEN order ELSE -order

\* SQL equality: NaN is not equal to itself.
EqualRows(a, b) == a = b /\ a.order # NaN

SortKeyOrder(p, c, d) == IF Sorted(p) THEN CompareRows(p, c.row, d.row) ELSE 0

Before(p, c, d) ==
  SortKeyOrder(p, c, d) < 0 \/ (SortKeyOrder(p, c, d) = 0 /\ c.seq < d.seq)

InOrder(p, candidates) == SortSeq(candidates, LAMBDA c, d : Before(p, c, d))

HasNaN(c) == c.row.order = NaN

\* The peers of the first candidate that equals the new one: their range.
PeerRange(p, candidates, c) ==
  LET start == Min({i \in 1..Len(candidates) : SortKeyOrder(p, candidates[i], c) = 0})
      past == {i \in start..Len(candidates) :
                 SortKeyOrder(p, candidates[start], candidates[i]) # 0}
  IN  start..(IF past = {} THEN Len(candidates) ELSE Min(past) - 1)

\* Where a new candidate goes: at the end of an unordered list; with a NaN in
\* play into the first run of peers by sequence; otherwise by binary search.
InsertPosition(p, candidates, c) ==
  LET peers == {i \in 1..Len(candidates) : SortKeyOrder(p, candidates[i], c) = 0}
      nan == HasNaN(c) \/ \E i \in 1..Len(candidates) : HasNaN(candidates[i])
      range == PeerRange(p, candidates, c)
      later == {i \in range : candidates[i].seq > c.seq}
  IN  CASE ~Sorted(p) -> Len(candidates) + 1
        [] Sorted(p) /\ nan /\ peers # {} -> IF later = {} THEN Max(range) + 1 ELSE Min(later)
        [] OTHER -> 1 + Cardinality({i \in 1..Len(candidates) : Before(p, candidates[i], c)})

InsertSorted(p, candidates, c) == InsertAt(candidates, InsertPosition(p, candidates, c), c)

FirstOf(candidates, n) == SubSeq(candidates, 1, IF n < Len(candidates) THEN n ELSE Len(candidates))

\* DataFusion's selection for append-only ranges: sort, keep the first ones.
SelectionInsert(p, candidates, c, limit) == FirstOf(InOrder(p, Append(candidates, c)), limit)

\* SQL RANK keeps every peer of the last rank inside the range.
TruncateRank(p, candidates, end) ==
  IF Len(candidates) <= end \/ end = 0 THEN FirstOf(candidates, end)
  ELSE LET beyond == {i \in (end + 1)..Len(candidates) :
                        SortKeyOrder(p, candidates[end], candidates[i]) # 0}
       IN  FirstOf(candidates, IF beyond = {} THEN Len(candidates) ELSE Min(beyond) - 1)

\* Append-only Top-1: a row wins if it is the strict minimum of its partition
\* so far, the stored winner and the earlier rows of the batch included.
TopOneWinner(p, prior, rows, i) ==
  /\ \A j \in 1..Len(prior) : CompareRows(p, rows[i], prior[j].row) < 0
  /\ \A j \in 1..(i - 1) :
       GroupOf(p, rows[j]) = GroupOf(p, rows[i]) => CompareRows(p, rows[i], rows[j]) < 0

-----------------------------------------------------------------------------
(* One partition while a batch is applied: [next, end, candidates].           *)

IsExpired(p, value, now) == p.ttl > 0 /\ value.access # 0 /\ now - value.access >= p.ttl

\* A partition without a value, or with an expired one, starts afresh. Rows of
\* an inline snapshot are sorted again; LIMIT keeps a number and no rows.
DecodeGroup(p, value, now) ==
  LET stored == [i \in 1..Len(value.rows) |->
                   [seq |-> value.rows[i].seq, row |-> value.rows[i].row,
                    kind |-> value.rows[i].kind, at |-> 0]]
      gone == IF value = Absent THEN TRUE ELSE IsExpired(p, value, now)
  IN  CASE gone -> [next |-> 0, end |-> NoEnd, candidates |-> <<>>]
        [] ~gone /\ IsAppendLimit(p) -> [next |-> value.next, end |-> 0, candidates |-> <<>>]
        [] OTHER -> [next |-> value.next, end |-> value.end,
                     candidates |-> IF Encoded(p) /\ ~value.indexed
                                    THEN InOrder(p, stored) ELSE stored]

\* The constant rank end, or the one of the partition's first row.
RankEnd(p, g, row) ==
  CASE p.rankEnd # NoEnd -> p.rankEnd [] p.rankEnd = NoEnd /\ g.end # NoEnd -> g.end [] OTHER -> row.top

Selected(p, candidates, end) ==
  IF end < p.rankStart THEN <<>>
  ELSE SubSeq(candidates, p.rankStart, IF end < Len(candidates) THEN end ELSE Len(candidates))

FindEqual(candidates, Same(_)) == {i \in 1..Len(candidates) : Same(candidates[i].row)}

\* Rows the strategy refuses to consume.
Refuses(p, kind) ==
  CASE p.strategy = "AppendFast" -> ~p.physical /\ kind # INSERT
    [] p.strategy = "UpdateFast" -> kind \notin {INSERT, UPDATE_AFTER}
    [] OTHER -> FALSE

AppendFast(p, g, c, end, wins) ==
  [g EXCEPT !.next = @ + 1,
            !.candidates =
              CASE TopOneCompatible(p) -> IF wins THEN <<c>> ELSE @
                [] AppendCompatible(p) -> SelectionInsert(p, @, c, end)
                [] OTHER -> InsertSorted(p, @, c)]

\* The row of the same primary key is replaced and keeps its sequence.
UpdateFast(p, g, c) ==
  LET found == FindEqual(g.candidates, LAMBDA r : r.id = c.row.id)
  IN  IF found = {} THEN [g EXCEPT !.next = @ + 1, !.candidates = InsertSorted(p, @, c)]
      ELSE LET old == g.candidates[Min(found)]
               rest == RemoveAt(g.candidates, Min(found))
           IN  [g EXCEPT !.candidates = InsertSorted(p, rest, [c EXCEPT !.seq = old.seq])]

\* A retraction takes the first equal row; one that is not there is counted.
Retract(p, g, c, kind) ==
  LET found == FindEqual(g.candidates, LAMBDA r : EqualRows(r, c.row))
  IN  IF Accumulates(kind)
      THEN [g EXCEPT !.next = @ + 1, !.candidates = InsertSorted(p, @, c)]
      ELSE IF found = {} THEN g
      ELSE [g EXCEPT !.candidates = RemoveAt(@, Min(found))]

Truncate(p, candidates, end) ==
  CASE p.bounded -> TruncateRank(p, candidates, end)
    [] ~p.bounded /\ p.strategy # "Retract" -> FirstOf(candidates, end)
    [] OTHER -> candidates

-----------------------------------------------------------------------------
(* The changelog between two selections; an emitted row is [rank, row].       *)

Event(p, kind, c, rank) ==
  Change(kind, [rank |-> IF p.outputRank THEN rank ELSE 0, row |-> c.row])

Replacement(p, old, new, rank) ==
  (IF p.updateBefore THEN <<Event(p, UPDATE_BEFORE, old, rank)>> ELSE <<>>) \o
  <<Event(p, UPDATE_AFTER, new, rank)>>

SameOutput(c, d) == c = d \/ (c.seq = d.seq /\ EqualRows(c.row, d.row))

\* Position by position.
EmitRanked(p, before, after) ==
  LET At(i) ==
        LET rank == p.rankStart + i - 1
        IN  CASE i > Len(after) -> <<Event(p, DELETE, before[i], rank)>>
              [] i > Len(before) -> <<Event(p, INSERT, after[i], rank)>>
              [] OTHER -> IF SameOutput(before[i], after[i]) THEN <<>>
                          ELSE Replacement(p, before[i], after[i], rank)
      n == IF Len(before) < Len(after) THEN Len(after) ELSE Len(before)
  IN  FlattenSeq([i \in 1..n |-> At(i)])

\* Row by row, matched by sequence: what left, what changed, what came.
EmitUnranked(p, before, after) ==
  LET Later(c) == {i \in 1..Len(after) : after[i].seq = c.seq}
      Old(c) == IF Later(c) = {} THEN <<Event(p, DELETE, c, 0)>>
                ELSE LET d == after[Min(Later(c))]
                     IN  IF SameOutput(c, d) THEN <<>> ELSE Replacement(p, c, d, 0)
      came == SelectSeq(after, LAMBDA d : \A i \in 1..Len(before) : before[i].seq # d.seq)
  IN  FlattenSeq([i \in 1..Len(before) |-> Old(before[i])]) \o
      [i \in 1..Len(came) |-> Event(p, INSERT, came[i], 0)]

\* Flink's Top-1 functions update the winner in place, as if it were ranked.
EmitDifference(p, before, after) ==
  IF \/ p.outputRank \/ p.rankStart > 1
     \/ p.rankStart = 1 /\ p.rankEnd = 1 /\ p.strategy # "Retract"
  THEN EmitRanked(p, before, after) ELSE EmitUnranked(p, before, after)

-----------------------------------------------------------------------------
(* A batch: its partitions are read once, its rows applied in turn, and what  *)
(* is left of every partition is written at once.                             *)

\* LIMIT without an order counts the rows it has seen.
LimitRow(p, g, c) ==
  LET open == g.next < p.rankEnd
  IN  [group |-> [g EXCEPT !.end = 0, !.next = IF open THEN @ + 1 ELSE @],
       out |-> IF open /\ g.next + 1 >= p.rankStart THEN <<Event(p, INSERT, c, 0)>> ELSE <<>>]

ApplyRow(p, g, c, kind, wins) ==
  LET end == RankEnd(p, g, c.row)
      fixed == IF p.rankEnd = NoEnd THEN [g EXCEPT !.end = end] ELSE g
      done == CASE p.strategy = "AppendFast" -> AppendFast(p, fixed, c, end, wins)
                [] p.strategy = "UpdateFast" -> UpdateFast(p, fixed, c)
                [] OTHER -> Retract(p, fixed, c, kind)
      kept == [done EXCEPT !.candidates = Truncate(p, @, end)]
  IN  [group |-> kept,
       out |-> IF p.bounded THEN <<>>
               ELSE EmitDifference(p, Selected(p, g.candidates, end),
                                   Selected(p, kept.candidates, end))]

\* acc.groups maps the partitions of the batch to their work.
ProcessRow(p, batch, loaded, acc, i) ==
  LET row == batch[i].row
      key == GroupOf(p, row)
      g == acc.groups[key]
      c == [seq |-> g.next, row |-> row, at |-> i,
            kind |-> IF p.physical THEN batch[i].kind ELSE INSERT]
      rows == [j \in 1..Len(batch) |-> batch[j].row]
      step == IF IsAppendLimit(p) THEN LimitRow(p, g, c)
              ELSE ApplyRow(p, g, c, batch[i].kind,
                            TopOneWinner(p, loaded[key].candidates, rows, i))
  IN  [groups |-> [acc.groups EXCEPT ![key] = step.group], out |-> acc.out \o step.out]

ProcessRows(p, state, batch, now) ==
  LET keys == {GroupOf(p, batch[i].row) : i \in 1..Len(batch)}
      loaded == [k \in keys |-> DecodeGroup(p, state[k], now)]
  IN  FoldLeft(LAMBDA acc, i : ProcessRow(p, batch, loaded, acc, i),
               [groups |-> loaded, out |-> <<>>], [i \in 1..Len(batch) |-> i])

StoredRows(candidates) ==
  [i \in 1..Len(candidates) |->
     [seq |-> candidates[i].seq, row |-> candidates[i].row, kind |-> candidates[i].kind]]

HasIndex(value) == IF value = Absent THEN FALSE ELSE value.indexed /\ value.rows # <<>>
OnlyStored(g) == \A i \in 1..Len(g.candidates) : g.candidates[i].at = 0

\* The index of a partition lists its rows by sort key and sequence.
Indexed(p, g, access) ==
  [indexed |-> TRUE, next |-> g.next, end |-> g.end, access |-> access,
   rows |-> StoredRows(InOrder(p, g.candidates))]
Inline(g, end, access) ==
  [indexed |-> FALSE, next |-> g.next, end |-> end, access |-> access,
   rows |-> StoredRows(g.candidates)]

\* Shared Top-1: one inline winner; an index left by an earlier plan goes away.
TopOneMutation(old, g) ==
  IF OnlyStored(g) /\ ~HasIndex(old) THEN old ELSE Inline(g, 1, 0)

\* Fault: a partition without new rows is not written even if it was inline,
\* and one with new rows keeps the sequence it had.
AppendMutation_StaleSequence(p, old, g) ==
  IF HasIndex(old) /\ OnlyStored(g) THEN old
  ELSE [Indexed(p, g, 0) EXCEPT !.next = IF old = Absent THEN @ ELSE old.next]

\* A partition whose candidates all come from its index is left alone, the
\* sequences of the rows that lost included.
AppendMutation(p, old, g) ==
  IF HasIndex(old) /\ OnlyStored(g) THEN old ELSE Indexed(p, g, 0)

StateMutation(p, shared, old, g, now) ==
  CASE shared /\ p.rankEnd = 1 -> TopOneMutation(old, g)
    [] ~(shared /\ p.rankEnd = 1) /\ p.ttl = 0 /\ AppendCompatible(p) -> AppendMutation(p, old, g)
    [] OTHER -> IF g.candidates = <<>> /\ g.end = NoEnd THEN Absent
                ELSE IF Encoded(p) THEN Indexed(p, g, now) ELSE Inline(g, g.end, now)

WriteBatch(p, shared, state, groups, now) ==
  [k \in DOMAIN state |->
     IF k \in DOMAIN groups THEN StateMutation(p, shared, state[k], groups[k], now) ELSE state[k]]

-----------------------------------------------------------------------------
(* The terminal output of a bounded RANK query.                               *)

\* One more than the rows before the row's peers.
RankAt(p, rows, i) ==
  Max({1} \cup {j \in 2..i : SortKeyOrder(p, rows[j - 1], rows[j]) # 0})

RankedRows(p, value) ==
  LET rows == IF value = Absent THEN <<>> ELSE value.rows
      All == [i \in 1..Len(rows) |->
                Change(rows[i].kind, [rank |-> RankAt(p, rows, i), row |-> rows[i].row])]
  IN  SelectSeq(All, LAMBDA c : c.row.rank >= p.rankStart /\ c.row.rank <= p.rankEnd)

\* Partition by partition.
BoundedOutput(p, state) ==
  FlattenSeq([i \in 1..Cardinality(DOMAIN state) |->
                RankedRows(p, state[SetToSortSeq(DOMAIN state, <)[i]])])

-----------------------------------------------------------------------------

CONSTANTS Plans, Keys, InputRows, MaxBatch, MaxRows, MaxTime, OutputRows

TopNAssumption ==
  /\ Keys \subseteq Nat /\ Global \in Keys
  /\ \A r \in InputRows : r.key \in Keys /\ r.order \in Nat /\ r.top \in Nat
  /\ MaxBatch \in Nat \ {0} /\ MaxRows \in Nat /\ MaxTime \in Nat /\ OutputRows \in Nat \ {0}

VARIABLES
  plan, shared,   \* the plan, and whether the shared region runs it
  state,          \* partition -> stored value
  saturated,      \* a LIMIT that is reached ignores its input
  pending, phase, \* terminal output not handed out yet; "open", "terminal", "drained", "failed"
  now,            \* processing time
  live,           \* partition -> changes since its state last expired (history)
  access,         \* partition -> time of its latest batch (history)
  table,          \* partition -> bag of rows announced since then (history)
  emitted,        \* terminal output handed out (history)
  read            \* rows consumed

vars == <<plan, shared, state, saturated, pending, phase, now, live, access, table, emitted, read>>

Init ==
  /\ plan \in {p \in Plans : ValidatePlan(p)}
  /\ shared \in (IF ValidateNode(plan) THEN BOOLEAN ELSE {FALSE})
  /\ state = [k \in Keys |-> Absent]
  /\ saturated = FALSE /\ pending = <<>> /\ phase = "open" /\ now = 1
  /\ live = [k \in Keys |-> <<>>] /\ access = [k \in Keys |-> 0]
  /\ table = [k \in Keys |-> NoRows] /\ emitted = <<>> /\ read = 0

-----------------------------------------------------------------------------
(* Input.                                                                     *)

\* The columns a plan does not look at are constant; Arrow row keys are not
\* used for floats.
Rows ==
  {r \in InputRows :
     /\ plan.partitioned \/ r.key = Global
     /\ Sorted(plan) \/ r.order = Null
     /\ plan.variableEnd \/ r.top = 0
     /\ Encoded(plan) => r.order # NaN}

Kinds ==
  CASE plan.strategy = "Retract" -> {INSERT, DELETE}
    [] plan.strategy = "UpdateFast" -> {INSERT}
    [] OTHER -> IF plan.physical THEN {INSERT, DELETE} ELSE {INSERT}

\* Flink plans update-fast only where updates move a row towards the front.
Improves(batch) ==
  LET whole(k) == live[k] \o SelectSeq(batch, LAMBDA c : GroupOf(plan, c.row) = k)
  IN  plan.strategy = "UpdateFast" =>
        \A k \in Keys : \A i, j \in 1..Len(whole(k)) :
          i < j /\ whole(k)[i].row.id = whole(k)[j].row.id =>
            CompareRows(plan, whole(k)[j].row, whole(k)[i].row) <= 0

Batches ==
  {b \in UNION {[1..n -> [kind : Kinds, row : Rows]] : n \in 1..MaxBatch} :
     Len(b) + read <= MaxRows /\ Improves(b)}

Forgotten(k) == plan.ttl > 0 /\ access[k] # 0 /\ now - access[k] >= plan.ttl

-----------------------------------------------------------------------------
(* Actions.                                                                   *)

\* What the consumer makes of a change without UPDATE_BEFORE: it replaces the
\* row of the same rank, of the partition for Top-1, or of the primary key.
SameIdentity(r, s) ==
  IF plan.outputRank THEN r.rank = s.rank
  ELSE (plan.rankStart = 1 /\ plan.rankEnd = 1) \/ r.row.id = s.row.id

Consume(bag, changes) ==
  LET Upsert(b, c) ==
        LET rest == [r \in {s \in DOMAIN b : ~SameIdentity(s, c.row)} |-> b[r]]
        IN  IF c.kind = UPDATE_AFTER THEN AddTo(rest, c.row, 1)
            ELSE AddTo(b, c.row, IF c.kind = INSERT THEN 1 ELSE -1)
  IN  IF plan.updateBefore THEN MaterializeBag(bag, changes) ELSE FoldLeft(Upsert, bag, changes)

Of(k, changes) == SelectSeq(changes, LAMBDA c : GroupOf(plan, c.row) = k)
OutOf(k, changes) == SelectSeq(changes, LAMBDA c : GroupOf(plan, c.row.row) = k)

\* Consumed input and announced rows of the partitions the batch touches.
Record(batch, out) ==
  LET touched == {GroupOf(plan, batch[i].row) : i \in 1..Len(batch)}
  IN  /\ live' = [k \in Keys |->
                    IF k \in touched
                    THEN (IF Forgotten(k) THEN <<>> ELSE live[k]) \o Of(k, batch) ELSE live[k]]
      /\ access' = [k \in Keys |-> IF k \in touched THEN now ELSE access[k]]
      /\ table' = [k \in Keys |->
                     IF k \in touched
                     THEN Consume(IF Forgotten(k) THEN NoRows ELSE table[k], OutOf(k, out))
                     ELSE table[k]]
      /\ read' = read + Len(batch)

\* The shared region runs plans without a TTL and passes no time.
Clock == IF shared THEN 0 ELSE now

ProcessArrow(batch) ==
  LET done == ProcessRows(plan, state, batch, Clock)
  IN  /\ phase = "open" /\ ~saturated
      /\ \A i \in 1..Len(batch) : ~Refuses(plan, batch[i].kind)
      /\ state' = WriteBatch(plan, shared, state, done.groups, Clock)
      /\ saturated' = (IsAppendLimit(plan) /\ plan.ttl = 0
                         /\ done.groups[Global].next >= plan.rankEnd)
      /\ Record(batch, done.out)
      /\ UNCHANGED <<plan, shared, pending, phase, now, emitted>>

IgnoreArrow(batch) ==
  /\ phase = "open" /\ saturated
  /\ Record(batch, <<>>)
  /\ UNCHANGED <<plan, shared, state, saturated, pending, phase, now, emitted>>

\* A row kind the strategy cannot take fails the batch before it is written.
RejectArrow ==
  /\ phase = "open" /\ Refuses(plan, DELETE)
  /\ phase' = "failed"
  /\ UNCHANGED <<plan, shared, state, saturated, pending, now, live, access, table, emitted, read>>

\* End of a bounded input: everything is ranked at the first call, handed out
\* page by page; input after it is refused.
FinishBounded ==
  LET all == IF phase = "open" THEN BoundedOutput(plan, state) ELSE pending
      page == IF Len(all) < OutputRows THEN Len(all) ELSE OutputRows
  IN  /\ plan.bounded /\ phase \in {"open", "terminal"}
      /\ emitted' = emitted \o SubSeq(all, 1, page)
      /\ pending' = SubSeq(all, page + 1, Len(all))
      /\ phase' = IF page = Len(all) THEN "drained" ELSE "terminal"
      /\ UNCHANGED <<plan, shared, state, saturated, now, live, access, table, read>>

\* A release before the index stored the rows inline, and nulls of a
\* descending key at the other end.
Older(value) ==
  IF value = Absent THEN Absent
  ELSE [value EXCEPT !.indexed = FALSE,
          !.rows = SelectSeq(@, LAMBDA r : r.row.order # Null) \o
                   SelectSeq(@, LAMBDA r : r.row.order = Null)]

\* The older release had the same rows only if the range had cut off none,
\* and had announced the same ones only without positions.
HadAllRows ==
  /\ Encoded(plan) /\ ~plan.outputRank /\ plan.rankStart = 1
  /\ \A k \in Keys : Len(live[k]) <= plan.rankEnd

CheckpointAndRestore ==
  /\ phase = "open" /\ ~plan.bounded
  /\ \/ state' = state
     \/ HadAllRows /\ ~shared /\ state' = [k \in Keys |-> Older(state[k])]
  /\ shared' \in (IF ValidateNode(plan) THEN BOOLEAN ELSE {FALSE})
  /\ saturated' = FALSE
  /\ UNCHANGED <<plan, pending, phase, now, live, access, table, emitted, read>>

Tick ==
  /\ phase = "open" /\ plan.ttl > 0 /\ now < MaxTime
  /\ now' = now + 1
  /\ UNCHANGED <<plan, shared, state, saturated, pending, phase, live, access, table, emitted, read>>

Next ==
  \/ phase = "open" /\ \E batch \in Batches : ProcessArrow(batch) \/ IgnoreArrow(batch)
  \/ RejectArrow \/ FinishBounded \/ CheckpointAndRestore \/ Tick

Spec == Init /\ [][Next]_vars

-----------------------------------------------------------------------------
(* Properties.                                                                *)

\* The rows of a partition, in order: later rows after their peers; a
\* retraction takes the earliest equal row, an update the row of its key.
Drop(rows, Same(_)) ==
  LET found == {i \in 1..Len(rows) : Same(rows[i].row)}
  IN  IF found = {} THEN rows ELSE RemoveAt(rows, Min(found))

Content(k) ==
  LET Add(rows, i) ==
        LET c == live[k][i]
            new == [seq |-> i, row |-> c.row, kind |-> c.kind]
        IN  CASE plan.strategy = "AppendFast" -> Append(rows, new)
              [] plan.strategy = "UpdateFast" ->
                   Append(Drop(rows, LAMBDA r : r.id = c.row.id), new)
              [] OTHER -> IF Accumulates(c.kind) THEN Append(rows, new)
                          ELSE Drop(rows, LAMBDA r : r = c.row)
  IN  InOrder(plan, FoldLeft(Add, <<>>, [i \in 1..Len(live[k]) |-> i]))

End(k) == IF plan.rankEnd # NoEnd THEN plan.rankEnd
          ELSE IF live[k] = <<>> THEN 0 ELSE live[k][1].row.top

Announced(rows) ==
  BagOf([i \in 1..Len(rows) |->
           [rank |-> IF plan.outputRank THEN plan.rankStart + i - 1 ELSE 0, row |-> rows[i].row]])

NoNaN(k) == \A i \in 1..Len(live[k]) : live[k][i].row.order # NaN

\* Updates may have moved a row out of the range and back behind its peers, so
\* the chosen rows are only as good as any others.
IsTop(k) ==
  LET rows == Content(k)
      sorted == Selected(plan, rows, End(k))
  IN  /\ \A r \in DOMAIN table[k] : table[k][r] = 1 /\ \E i \in 1..Len(rows) : rows[i].row = r.row
      /\ \A o \in {r.order : r \in InputRows} :
           Cardinality({r \in DOMAIN table[k] : r.row.order = o}) =
             Cardinality({i \in 1..Len(sorted) : sorted[i].row.order = o})

RankedContent(k) ==
  LET rows == Content(k)
      All == [i \in 1..Len(rows) |->
                Change(rows[i].kind,
                       [rank |-> 1 + Cardinality({j \in 1..Len(rows) :
                                                    SortKeyOrder(plan, rows[j], rows[i]) < 0}),
                        row |-> rows[i].row])]
  IN  SelectSeq(All, LAMBDA c : c.row.rank \in plan.rankStart..plan.rankEnd)

\* Whatever the cut into batches, the strategy, the host and the stored format,
\* and across restores and expired state, the rows the consumer holds are those
\* the query asks for over the live input: the rows that a later change can
\* bring back are never forgotten, ties go to the earlier row, and every
\* intermediate winner is retracted. With a NaN, which has no place in an
\* order, the consumer still holds exactly what the state selects. A bounded
\* RANK query hands out each ranked row once, peers of the last rank included.
TopIsExact ==
  \A k \in Keys :
    IF plan.bounded
    THEN /\ table[k] = NoRows
         /\ phase = "drained" /\ NoNaN(k) =>
              OutOf(k, emitted) = RankedContent(k)
    ELSE /\ state[k] # Absent /\ ~IsAppendLimit(plan) =>
              table[k] = Announced(Selected(plan, state[k].rows, End(k)))
         /\ state[k] = Absent => table[k] = NoRows
         /\ NoNaN(k) => IF plan.strategy = "UpdateFast" THEN IsTop(k)
                        ELSE table[k] = Announced(Selected(plan, Content(k), End(k)))
=============================================================================
