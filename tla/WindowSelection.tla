--------------------------- MODULE WindowSelection ---------------------------
(* Window Top-N and window deduplication: rows with an attached window end    *)
(* wait in keyed state until the watermark closes the window, which then      *)
(* yields a range of ranks, or its first or last row. Window Top-N stores its *)
(* candidates as an ordered index where the sort key can be encoded, and as   *)
(* one list otherwise; a restored list is indexed when a batch touches it.    *)
EXTENDS Changelog

CONSTANTS Plans, InputRows, MaxBatch, MaxRows, MaxTime

WindowSelectionAssumption ==
  /\ \A r \in InputRows : r.key \in Nat /\ r.end \in Nat /\ r.order \in Nat /\ r.id \in Nat
  /\ MaxBatch \in Nat \ {0} /\ MaxRows \in Nat /\ MaxTime \in Nat

Null == 0
Never == -100
Windows == {<<r.key, r.end>> : r \in InputRows}
Absent == [format |-> "none"]

VARIABLES
  plan,
  values,       \* window -> stored root value
  ordered,      \* rows of the ordered index: [window, order, seq, row]
  identities,   \* rows of the identity index: [window, row, seq]
  storedTimers, \* windows in the stored timer snapshot
  timers,       \* windows in the timer service
  clock,        \* current_event_time, and the host's currentWatermark
  phase,
  live,         \* window -> changes that arrived in time (history)
  emitted,      \* window -> rows announced (history)
  read

vars == <<plan, values, ordered, identities, storedTimers, timers, clock, phase, live, emitted, read>>

ValidateRank(p) == p.rankStart # 0 /\ p.rankEnd >= p.rankStart
ValidateDeduplicate(p) == p.columns # 0
ValidatePlan(p) == IF p.rank THEN ValidateRank(p) ELSE ValidateDeduplicate(p)

Init ==
  /\ plan \in {p \in Plans : ValidatePlan(p)}
  /\ values = [w \in Windows |-> Absent] /\ ordered = {} /\ identities = {}
  /\ storedTimers = {} /\ timers = {} /\ clock = Never /\ phase = "open"
  /\ live = [w \in Windows |-> <<>>] /\ emitted = [w \in Windows |-> <<>>] /\ read = 0

-----------------------------------------------------------------------------
(* Windows and their timers.                                                  *)

WindowStateKey(r) == <<r.key, r.end>>

\* The attached end is local time of the plan's zone, the timer an epoch.
WindowTimer(local) == local - plan.offset
Deadline(w) == WindowTimer(w[2] - 1)

RankRows(batch) ==
  SelectSeq(batch, LAMBDA c : c.row.end # Null /\ Deadline(WindowStateKey(c.row)) > clock)

DeduplicateRows(batch) ==
  SelectSeq(batch, LAMBDA c : /\ c.row.order # Null /\ c.row.end # Null
                              /\ Deadline(WindowStateKey(c.row)) > clock)

Touched(changes) == {WindowStateKey(changes[i].row) : i \in 1..Len(changes)}
ChangesOf(w, changes) == SelectSeq(changes, LAMBDA c : WindowStateKey(c.row) = w)

\* A window has its timer while it has candidates.
TimersAfter(changed, candidates) == (timers \ changed) \cup {w \in changed : candidates[w] # 0}

\* The timer snapshot is written only where the set of timers changed.
AppendTimerMutations(after) == IF after = timers THEN storedTimers ELSE after

-----------------------------------------------------------------------------
(* One list per window: window Top-N without encodable keys, deduplication.   *)

NoMatch == [next |-> 0, candidates |-> <<>>, ok |-> FALSE]
Fresh == [next |-> 0, candidates |-> <<>>, ok |-> TRUE]
Listed(s) == [format |-> "list", next |-> s.next, candidates |-> s.candidates]

RankEncode(s) == IF s.candidates = <<>> THEN Absent ELSE Listed(s)
DeduplicateEncode(s) == IF s.candidates = <<>> THEN Absent ELSE Listed(s)
RankDecode(v) == IF v = Absent THEN Fresh ELSE [next |-> v.next, candidates |-> v.candidates, ok |-> TRUE]
DeduplicateDecode(v) == RankDecode(v)

\* The oldest equal candidate goes; a retraction without one fails the batch.
RankChange(s, c) ==
  LET same == {i \in 1..Len(s.candidates) : s.candidates[i].row = c.row}
  IN  CASE ~s.ok -> NoMatch
        [] Accumulates(c.kind) ->
             [s EXCEPT !.next = @ + 1, !.candidates = Append(@, [seq |-> s.next, row |-> c.row])]
        [] same = {} -> NoMatch
        [] OTHER -> [s EXCEPT !.candidates = RemoveAt(@, Min(same))]

\* Deduplication also compares the order, which is a column of the row.
DeduplicateChange(s, c) == RankChange(s, c)

ApplyTo(v, changes) ==
  IF plan.rank THEN FoldLeft(RankChange, RankDecode(v), changes)
  ELSE FoldLeft(DeduplicateChange, DeduplicateDecode(v), changes)

WriteLists(changed, done) ==
  LET after == TimersAfter(changed, [w \in changed |-> Len(done[w].candidates)])
  IN  /\ values' = [w \in Windows |->
                      IF w \notin changed THEN values[w]
                      ELSE IF plan.rank THEN RankEncode(done[w]) ELSE DeduplicateEncode(done[w])]
      /\ timers' = after /\ storedTimers' = AppendTimerMutations(after)
      /\ UNCHANGED <<ordered, identities>>

-----------------------------------------------------------------------------
(* The ordered index.                                                         *)

\* Arrow's encoding of the sort key.
SortKey(r) ==
  IF r.order = Null THEN IF plan.nullsLast THEN 100 ELSE -100
  ELSE IF plan.ascending THEN r.order ELSE -r.order

OrderedEntry(w, seq, row) == [window |-> w, order |-> SortKey(row), seq |-> seq, row |-> row]
IdentityEntry(w, seq, row) == [window |-> w, row |-> row, seq |-> seq]

\* An old list is entered into the index with the first batch that touches it.
Upgraded(w) ==
  IF values[w].format # "list" THEN {}
  ELSE {<<values[w].candidates[i].seq, values[w].candidates[i].row>> : i \in 1..Len(values[w].candidates)}

Header(w) ==
  CASE values[w] = Absent -> [next |-> 0, count |-> 0]
    [] values[w].format = "list" -> [next |-> values[w].next, count |-> Len(values[w].candidates)]
    [] OTHER -> [next |-> values[w].next, count |-> values[w].count]

SequencesOf(ids) == SetToSortSeq({e.seq : e \in ids}, <)

\* Identities of a row: of the list if the window was one, else at most as many
\* of the oldest stored ones as the batch retracts.
Retractable(w, row, changes) ==
  LET old == {e \in Upgraded(w) : e[2] = row}
      stored == SequencesOf({e \in identities : e.window = w /\ e.row = row})
      count == Len(SelectSeq(changes, LAMBDA c : c.row = row /\ ~Accumulates(c.kind)))
  IN  IF old # {} THEN SetToSortSeq({e[1] : e \in old}, <)
      ELSE SubSeq(stored, 1, IF Len(stored) < count THEN Len(stored) ELSE count)

\* Fault: retractions take the newest duplicate.
IndexedChange_Newest(w, s, c) ==
  LET ids == s.ids[c.row]
      gone == <<ids[Len(ids)], c.row>>
  IN  CASE ~s.ok -> s
        [] Accumulates(c.kind) ->
             [s EXCEPT !.next = @ + 1, !.count = @ + 1, !.ids[c.row] = Append(@, s.next),
                       !.rows = @ \cup {<<s.next, c.row>>}]
        [] ids = <<>> -> [s EXCEPT !.ok = FALSE]
        [] OTHER -> [s EXCEPT !.count = @ - 1, !.ids[c.row] = Front(@),
                              !.rows = @ \ {gone}, !.gone = @ \cup {gone}]

\* Insertions queue behind the known identities of their row, retractions take
\* the oldest one; the candidate enters or leaves both indexes.
IndexedChange(w, s, c) ==
  LET ids == s.ids[c.row]
      gone == <<Head(ids), c.row>>
  IN  CASE ~s.ok -> s
        [] Accumulates(c.kind) ->
             [s EXCEPT !.next = @ + 1, !.count = @ + 1, !.ids[c.row] = Append(@, s.next),
                       !.rows = @ \cup {<<s.next, c.row>>}]
        [] ids = <<>> -> [s EXCEPT !.ok = FALSE]
        [] OTHER -> [s EXCEPT !.count = @ - 1, !.ids[c.row] = Tail(@),
                              !.rows = @ \ {gone}, !.gone = @ \cup {gone}]

IndexedWork(w, changes) ==
  FoldLeft(LAMBDA s, c : IndexedChange(w, s, c),
           [next |-> Header(w).next, count |-> Header(w).count, ok |-> TRUE,
            rows |-> Upgraded(w), gone |-> {},
            ids |-> [r \in {changes[i].row : i \in 1..Len(changes)} |-> Retractable(w, r, changes)]],
           changes)

WriteIndex(changed, done) ==
  LET after == TimersAfter(changed, [w \in changed |-> done[w].count])
      Entries(Entry(_, _, _), which(_)) == UNION {{Entry(w, e[1], e[2]) : e \in which(w)} : w \in changed}
  IN  /\ values' = [w \in Windows |->
                      IF w \notin changed THEN values[w]
                      ELSE IF done[w].count = 0 THEN Absent
                      ELSE [format |-> "index", next |-> done[w].next, count |-> done[w].count]]
      /\ ordered' = (ordered \ Entries(OrderedEntry, LAMBDA w : done[w].gone))
                      \cup Entries(OrderedEntry, LAMBDA w : done[w].rows)
      /\ identities' = (identities \ Entries(IdentityEntry, LAMBDA w : done[w].gone))
                         \cup Entries(IdentityEntry, LAMBDA w : done[w].rows)
      /\ timers' = after /\ storedTimers' = AppendTimerMutations(after)

-----------------------------------------------------------------------------
(* Batches.                                                                   *)

\* The columns the plan names must be columns of the row.
AcceptsSchema == plan.endColumn <= plan.columns

InTime(batch) == IF plan.rank THEN RankRows(batch) ELSE DeduplicateRows(batch)

\* Flink's view: rows of windows that the watermark has not closed.
Record(batch) ==
  LET kept(w) == SelectSeq(batch, LAMBDA c : /\ <<c.row.key, c.row.end>> = w /\ c.row.end # Null
                                             /\ plan.rank \/ c.row.order # Null
                                             /\ w[2] - 1 - plan.offset > clock)
  IN  live' = [w \in Windows |-> live[w] \o kept(w)]

Work(changes) ==
  [w \in Touched(changes) |->
     IF plan.indexed THEN IndexedWork(w, ChangesOf(w, changes))
     ELSE ApplyTo(values[w], ChangesOf(w, changes))]

ProcessArrow(batch) ==
  \E changes \in {InTime(batch)} : \E done \in {Work(changes)} :
    /\ \A w \in DOMAIN done : done[w].ok
    /\ IF plan.indexed THEN WriteIndex(DOMAIN done, done) ELSE WriteLists(DOMAIN done, done)
    /\ Record(batch) /\ read' = read + Len(batch)
    /\ UNCHANGED <<plan, clock, phase, emitted>>

\* A retraction without a row, or a batch of another shape, fails the task.
RejectArrow(batch) ==
  /\ ~AcceptsSchema \/ \E done \in {Work(InTime(batch))} : \E w \in DOMAIN done : ~done[w].ok
  /\ phase' = "failed"
  /\ UNCHANGED <<plan, values, ordered, identities, storedTimers, timers, clock, live, emitted, read>>

-----------------------------------------------------------------------------
(* Watermarks.                                                                *)

Before(r, i, s, j) == SortKey(r) < SortKey(s) \/ (SortKey(r) = SortKey(s) /\ i < j)

\* Positions rankStart..rankEnd of a sorted window.
Positions(rows) ==
  LET last == IF plan.rankEnd < Len(rows) THEN plan.rankEnd ELSE Len(rows)
  IN  [i \in 1..(IF last < plan.rankStart THEN 0 ELSE last - plan.rankStart + 1) |->
         [row |-> rows[plan.rankStart + i - 1], rank |-> plan.rankStart + i - 1]]

\* Sorting a list, ties by sequence.
RankOutput(v) ==
  LET sorted == SortSeq(v.candidates, LAMBDA c, d : Before(c.row, c.seq, d.row, d.seq))
  IN  Positions([i \in 1..Len(sorted) |-> sorted[i].row])

IndexOutput(w) ==
  LET sorted == SetToSortSeq({e \in ordered : e.window = w},
                             LAMBDA d, e : d.order < e.order \/ (d.order = e.order /\ d.seq < e.seq))
  IN  Positions([i \in 1..Len(sorted) |-> sorted[i].row])

\* The latest, or earliest, by time and arrival.
Winner(candidates) ==
  LET Ahead(c, d) == c.row.order > d.row.order \/ (c.row.order = d.row.order /\ c.seq >= d.seq)
      Behind(c, d) == c.row.order < d.row.order \/ (c.row.order = d.row.order /\ c.seq <= d.seq)
  IN  CHOOSE c \in Range(candidates) :
        \A d \in Range(candidates) : IF plan.keepLast THEN Ahead(c, d) ELSE Behind(c, d)

WinnerOutput(v) == <<[row |-> Winner(v.candidates).row, rank |-> 1]>>

FireWindow(w) ==
  IF values[w] = Absent THEN <<>>
  ELSE IF ~plan.rank THEN WinnerOutput(values[w])
  ELSE IF values[w].format = "list" THEN RankOutput(values[w]) ELSE IndexOutput(w)

\* Everything of a fired window is deleted; a restored list has no index rows.
Fire(fired) ==
  LET after == timers \ fired
  IN  /\ emitted' = [w \in Windows |-> emitted[w] \o (IF w \in fired THEN FireWindow(w) ELSE <<>>)]
      /\ values' = [w \in Windows |-> IF w \in fired THEN Absent ELSE values[w]]
      /\ ordered' = {e \in ordered : e.window \notin fired}
      /\ identities' = {e \in identities : e.window \notin fired}
      /\ timers' = after /\ storedTimers' = AppendTimerMutations(after)

AdvanceEventTime(watermark) ==
  /\ phase = "open" /\ watermark > clock
  /\ clock' = watermark
  /\ Fire({w \in timers : Deadline(w) <= watermark})
  /\ UNCHANGED <<plan, phase, live, read>>

\* The header's count is checked against the index before output.
CountsMatch == \A w \in Windows : values[w].format = "index" =>
                 Cardinality({e \in ordered : e.window = w}) = values[w].count

-----------------------------------------------------------------------------
(* Restore. A list format precedes the index.                                 *)

OlderRoot(w) ==
  LET sorted == SetToSortSeq({e \in ordered : e.window = w}, LAMBDA d, e : d.seq < e.seq)
  IN  IF values[w].format # "index" THEN values[w]
      ELSE [format |-> "list", next |-> values[w].next,
            candidates |-> [i \in 1..Len(sorted) |-> [seq |-> sorted[i].seq, row |-> sorted[i].row]]]

\* The restored watermark is announced in open and finds nothing due.
CheckpointAndRestore(older) ==
  /\ phase = "open"
  /\ values' = IF older THEN [w \in Windows |-> OlderRoot(w)] ELSE values
  /\ ordered' = IF older THEN {} ELSE ordered
  /\ identities' = IF older THEN {} ELSE identities
  /\ timers' = storedTimers
  /\ UNCHANGED <<plan, storedTimers, clock, phase, live, emitted, read>>

Batches ==
  UNION {[1..n -> [kind : {INSERT, DELETE}, row : InputRows]] :
           n \in 1..(IF MaxRows - read < MaxBatch THEN MaxRows - read ELSE MaxBatch)}

Next ==
  \/ phase = "open" /\ AcceptsSchema /\ \E b \in Batches : ProcessArrow(b)
  \/ phase = "open" /\ \E b \in Batches : RejectArrow(b)
  \/ \E watermark \in 0..MaxTime : AdvanceEventTime(watermark)
  \/ \E older \in BOOLEAN : CheckpointAndRestore(older)

Spec == Init /\ [][Next]_vars

-----------------------------------------------------------------------------
(* The property.                                                              *)

\* Rows of a window in arrival order, a retraction taking the oldest equal row.
Rows(w) ==
  FoldLeft(LAMBDA rows, c :
             IF Accumulates(c.kind) THEN Append(rows, c.row)
             ELSE RemoveAt(rows, Min({i \in 1..Len(rows) : rows[i] = c.row})),
           <<>>, live[w])

\* The row has as many rows of its window ahead of it as its rank says.
Selected(w) ==
  LET rows == Rows(w)
      n == Len(rows)
      key(i) == IF plan.rank THEN SortKey(rows[i]) ELSE IF plan.keepLast THEN -rows[i].order ELSE rows[i].order
      tie(i, j) == IF plan.rank \/ ~plan.keepLast THEN i < j ELSE i > j
      ahead(i) == {j \in 1..n : key(j) < key(i) \/ (key(j) = key(i) /\ tie(j, i))}
      at(rank) == rows[CHOOSE i \in 1..n : Cardinality(ahead(i)) = rank - 1]
      first == IF plan.rank THEN plan.rankStart ELSE 1
      last == IF plan.rank THEN plan.rankEnd ELSE 1
      size == IF n < last THEN n ELSE last
  IN  [i \in 1..(IF size < first THEN 0 ELSE size - first + 1) |->
         [row |-> at(first + i - 1), rank |-> first + i - 1]]

\* A closed window has announced exactly the selected rows of the changes that
\* came in time, once and in order; an open one nothing, and it has a stored
\* timer exactly while it has rows. Batches, ties, duplicate rows, restores of
\* either format and the upgrade of a list make no difference.
SelectedOnClose ==
  phase = "open" =>
    /\ \A w \in Windows : emitted[w] = IF w[2] - 1 - plan.offset <= clock THEN Selected(w) ELSE <<>>
    /\ timers = {w \in Windows : w[2] - 1 - plan.offset > clock /\ Rows(w) # <<>>}
    /\ timers = storedTimers /\ timers = {w \in Windows : values[w] # Absent}
    /\ CountsMatch /\ {e.window : e \in ordered} \subseteq timers
=============================================================================
