------------------------------ MODULE Changelog ------------------------------
(* Changelogs of the native operators and what their consumer makes of them.  *)
(* A change is a row with a RowKind; a retracting changelog announces every   *)
(* row that goes before the row that replaces it, an upserting one replaces   *)
(* the row of a key silently. And the windows that a row's time falls into.   *)
EXTENDS Integers, Sequences, SequencesExt, FiniteSets, FiniteSetsExt, Functions

INSERT == "INSERT"
UPDATE_BEFORE == "UPDATE_BEFORE"
UPDATE_AFTER == "UPDATE_AFTER"
DELETE == "DELETE"

Change(kind, row) == [kind |-> kind, row |-> row]
Accumulates(kind) == kind \in {INSERT, UPDATE_AFTER}

-----------------------------------------------------------------------------
(* A table with one row per key, as a set of rows.                            *)

Broken == {[broken |-> TRUE]}\* the consumer was told something impossible

\* One change: an added row takes the place of its key's row only where the
\* changelog upserts, and a removed row must be there.
ApplyChange(table, c, KeyOf(_), retracting) ==
  LET same == {r \in table : KeyOf(r) = KeyOf(c.row)}
  IN  CASE table = Broken -> Broken
        [] Accumulates(c.kind) ->
             IF same = {} \/ (~retracting /\ c.kind = UPDATE_AFTER)
             THEN (table \ same) \cup {c.row} ELSE Broken
        [] OTHER ->
             IF retracting THEN IF c.row \in table THEN table \ {c.row} ELSE Broken
             ELSE IF same # {} THEN table \ same ELSE Broken

Materialize(table, changes, KeyOf(_), retracting) ==
  FoldLeft(LAMBDA t, c : ApplyChange(t, c, KeyOf, retracting), table, changes)

-----------------------------------------------------------------------------
(* A table with repeated rows: row -> how often, without zeros.               *)

NoRows == <<>>
Count(bag, row) == IF row \in DOMAIN bag THEN bag[row] ELSE 0

AddTo(bag, row, n) ==
  LET count == Count(bag, row) + n
  IN  [r \in (DOMAIN bag \cup {row}) \ (IF count = 0 THEN {row} ELSE {}) |->
         IF r = row THEN count ELSE bag[r]]

\* A removed row that is not there leaves a negative count behind.
MaterializeBag(bag, changes) ==
  FoldLeft(LAMBDA b, c : AddTo(b, c.row, IF Accumulates(c.kind) THEN 1 ELSE -1),
           bag, changes)

BagOf(rows) == FoldLeft(LAMBDA b, r : AddTo(b, r, 1), NoRows, rows)

-----------------------------------------------------------------------------
(* The time of windows and of their timers. Windows are formed in the local   *)
(* time of a zone, timers are set for instants. A zone has one transition,    *)
(* [at, before, after], with its offsets in units of time.                    *)

(* The windows a time falls into: TUMBLE, HOP, CUMULATE and SESSION of the    *)
(* window table function. A window is given by [kind, size, slide, offset].   *)

\* Also for times before the epoch: the remainder is never negative.
WindowStart(ts, offset, size) == ts - ((ts - offset) % size)

Window(start, end) == [start |-> start, end |-> end]

\* What the window table function accepts.
ValidWindow(w) ==
  /\ w.kind \in {"Tumble", "Hop", "Cumulate", "Session"} /\ w.size > 0
  /\ w.kind = "Tumble" => w.slide = 0
  /\ w.kind = "Hop" => w.slide > 0
  /\ w.kind = "Cumulate" => w.slide > 0 /\ w.size % w.slide = 0

AssignWindows(w, ts) ==
  CASE w.kind = "Tumble" ->
         LET start == WindowStart(ts, w.offset, w.size)
         IN  {Window(start, start + w.size)}
    [] w.kind = "Hop" ->
         LET first == WindowStart(ts, w.offset, w.slide)
         IN  {Window(start, start + w.size) :
                start \in {s \in (ts - w.size + 1)..first : (first - s) % w.slide = 0}}
    [] w.kind = "Cumulate" ->
         LET start == WindowStart(ts, w.offset, w.size)
             first == WindowStart(ts, w.offset, w.slide) + w.slide
         IN  {Window(start, end) :
                end \in {e \in first..(start + w.size) : (e - first) % w.slide = 0}}
    [] w.kind = "Session" -> {Window(ts, ts + w.size)}

-----------------------------------------------------------------------------

Offset(zone, epoch) == IF epoch < zone.at THEN zone.before ELSE zone.after

\* The instants a local time denotes: two in an overlap, none in a gap.
FromLocal(zone, local) ==
  {e \in {local - zone.before, local - zone.after} : e + Offset(zone, e) = local}

ToWindowTime(zone, epoch) == epoch + Offset(zone, epoch)


\* Of two instants the later; for a time in a gap, the first instant after it.
TimerTimestamp(zone, local) ==
  LET Valid(l) == FromLocal(zone, l) # {}
      first == CHOOSE l \in local..(local + zone.after - zone.before) :
                 Valid(l) /\ \A k \in local..(l - 1) : ~Valid(k)
  IN  IF Valid(local) THEN Max(FromLocal(zone, local)) ELSE Max(FromLocal(zone, first))
=============================================================================
