--------------------------- MODULE SessionWindows ----------------------------
(* A SESSION window aggregate in either state format: batches, watermarks and *)
(* restores, among them the restore of an indexed snapshot by the shared      *)
(* operator.                                                                  *)
EXTENDS Changelog

-----------------------------------------------------------------------------
(* SESSION windows in the two state formats of the operator. The first keeps  *)
(* an index of intervals per group and one accumulator per interval, and over *)
(* a changelog the events too; the shared one keeps the sessions of a group   *)
(* ordered by their ends and loads only those a batch may touch.              *)
(*                                                                            *)
(* A session is [start, end, rows, events]; a state is                        *)
(* [clock, timers, index, windows, ordered, marker, saved].                   *)

CONSTANTS Gap, OutputRows

MIN == -1000

EmptySessions ==
  [clock |-> MIN, timers |-> {}, index |-> <<>>, windows |-> <<>>, ordered |-> <<>>,
   marker |-> FALSE, saved |-> {}]

\* Why the operator stops: its input, or state it holds to be impossible.
Corrupt(condition) == IF condition THEN "state" ELSE "no"

Touches(s, start, end) == s.start <= end /\ s.end >= start
Expired(end, clock) == end - 1 <= clock

TimerOf(stateKey, end) == [time |-> end - 1, key |-> stateKey]

Without(f, keys) == Restrict(f, DOMAIN f \ keys)
With(f, g) == [k \in DOMAIN f \cup DOMAIN g |-> IF k \in DOMAIN g THEN g[k] ELSE f[k]]

-----------------------------------------------------------------------------
(* The indexed format.                                                        *)

ValidatePlan(p) == p.shared => ~p.changelog

\* Every session the growing interval touches is absorbed, one after another.
Absorb(sessions, time) ==
  LET One(m, i) ==
        LET near == {s \in m.rest : Touches(s, m.start, m.end)}
            s == CHOOSE s \in near : TRUE
        IN  IF near = {} THEN m
            ELSE [start |-> Min({m.start, s.start}), end |-> Max({m.end, s.end}),
                  merged |-> m.merged \cup {s}, rest |-> m.rest \ {s}]
  IN  FoldLeft(One, [start |-> time, end |-> time + Gap, merged |-> {}, rest |-> sessions],
               [i \in 1..Cardinality(sessions) |-> i])

SumRows(sessions) == FoldSet(LAMBDA s, n : n + s.rows, 0, sessions)
AllEvents(sessions) ==
  FoldSet(LAMBDA s, b : FoldSet(LAMBDA t, c : AddTo(c, t, s.events[t]), b, DOMAIN s.events),
          NoRows, sessions)

\* The row is late only if the session it completes is.
AccumulateEvent(p, state, time, clock) ==
  LET m == Absorb(state.sessions, time)
      session == [start |-> m.start, end |-> m.end, rows |-> SumRows(m.merged) + 1,
                  events |-> IF p.changelog THEN AddTo(AllEvents(m.merged), time, 1) ELSE NoRows]
  IN  IF Expired(m.end, clock) THEN [state EXCEPT !.sessions = m.rest]
      ELSE [state EXCEPT !.sessions = m.rest \cup {session}]

\* A retraction keeps the interval of its session, and needs its event there.
RetractEvent(state, time, clock) ==
  LET near == {s \in state.sessions : Touches(s, time, time + Gap)}
      end == IF near = {} THEN time + Gap ELSE Max({s.end : s \in near})
      holders == {s \in state.sessions : time \in DOMAIN s.events}
      s == CHOOSE s \in holders : TRUE
      less == [s EXCEPT !.rows = @ - 1, !.events = AddTo(@, time, -1)]
  IN  IF Expired(end, clock) THEN state
      ELSE IF holders = {} THEN [state EXCEPT !.failed = TRUE]
      ELSE [state EXCEPT !.sessions = (@ \ {s}) \cup (IF less.rows = 0 THEN {} ELSE {less})]

ApplySessionChanges(p, sessions, changes, clock) ==
  FoldLeft(LAMBDA s, c : IF s.failed THEN s
                         ELSE IF Accumulates(c.kind) THEN AccumulateEvent(p, s, c.row.time, clock)
                         ELSE RetractEvent(s, c.row.time, clock),
           [sessions |-> sessions, failed |-> FALSE], changes)

IntervalsOf(index, key) == IF key \in DOMAIN index THEN index[key] ELSE {}
WindowKey(key, s) == <<key, s.start, s.end>>

SessionAt(new, stateKey) == (CHOOSE n \in new : n.key = stateKey).session

\* The sessions of the batch's groups are replaced, with their index entries,
\* their timers, and the timers in the store.
ReplaceSessions(state, keys, old, new) ==
  LET timers == (state.timers \ {TimerOf(w, w[3]) : w \in old})
                \cup {TimerOf(n.key, n.session.end) : n \in new}
      Intervals(k) == {[start |-> n.session.start, end |-> n.session.end] :
                         n \in {m \in new : m.key[1] = k}}
  IN  [state EXCEPT
         !.windows = With(Without(@, old), [w \in {n.key : n \in new} |-> SessionAt(new, w)]),
         !.index = [k \in {k \in DOMAIN @ \cup keys : k \in keys => Intervals(k) # {}} |->
                      IF k \in keys THEN Intervals(k) ELSE @[k]],
         !.timers = timers, !.saved = timers]

\* A null time is skipped.
ProcessSessionBatch(p, state, batch) ==
  LET rows == SelectSeq(batch, LAMBDA c : ~c.row.null)
      keys == {rows[i].row.key : i \in DOMAIN rows}
      Old(k) == {<<k, i.start, i.end>> : i \in IntervalsOf(state.index, k)}
      New == [k \in keys |->
                ApplySessionChanges(p, {state.windows[w] : w \in Old(k)},
                                    SelectSeq(rows, LAMBDA c : c.row.key = k), state.clock)]
      new == UNION {{[key |-> WindowKey(k, s), session |-> s] : s \in New[k].sessions} : k \in keys}
  IN  [failed |-> IF \E k \in keys : New[k].failed THEN "input" ELSE "no",
       state |-> ReplaceSessions(state, keys, UNION {Old(k) : k \in keys}, new)]

-----------------------------------------------------------------------------
(* The ordered format.                                                        *)

OrderedKey(key, end) == <<key, end>>

\* Fault: the session that ends with the earliest time is not loaded.
Loaded_Exclusive(state, key, minimum, maximumEnd) ==
  {w \in DOMAIN state.ordered :
     w[1] = key /\ w[2] > minimum /\ state.ordered[w].start <= maximumEnd}

\* The sessions a batch can touch: from the first that ends at its earliest
\* time to the last that starts by its latest end.
Loaded(state, key, minimum, maximumEnd) ==
  {w \in DOMAIN state.ordered :
     w[1] = key /\ w[2] >= minimum /\ state.ordered[w].start <= maximumEnd}

\* Stored sessions must not touch.
Existing(state, keys) ==
  \A v, w \in keys : v # w => ~Touches(state.ordered[v], state.ordered[w].start, state.ordered[w].end)

\* An interval collects the stored sessions and the rows of the batch that it
\* grew from; a row that is late must not have met a stored session.
Assign(a, row, time, clock) ==
  LET One(m, i) ==
        LET near == {s \in m.rest : s.end >= m.start}
            s == CHOOSE s \in near : \A r \in near : s.end <= r.end
        IN  IF near = {} \/ s.start > m.end THEN m
            ELSE [start |-> Min({m.start, s.start}), end |-> Max({m.end, s.end}),
                  stored |-> m.stored \cup s.stored, rows |-> m.rows \cup s.rows, rest |-> m.rest \ {s}]
      m == FoldLeft(One, [start |-> time, end |-> time + Gap, stored |-> {}, rows |-> {},
                          rest |-> a.intervals], [i \in 1..Cardinality(a.intervals) |-> i])
  IN  IF Expired(m.end, clock)
      THEN [intervals |-> m.rest, failed |-> a.failed \/ m.stored # {} \/ m.rows # {}]
      ELSE [a EXCEPT !.intervals = m.rest \cup
              {[start |-> m.start, end |-> m.end, stored |-> m.stored, rows |-> m.rows \cup {row}]}]

\* What one group of a batch writes: the intervals with new rows, and which of
\* the stored sessions they replace.
Partition(state, batch, key) ==
  LET mine == {i \in DOMAIN batch : batch[i].row.key = key}
      times == {batch[i].row.time : i \in mine}
      stored == Loaded(state, key, Min(times), Max(times) + Gap)
      start == [intervals |-> {[start |-> state.ordered[w].start, end |-> w[2], stored |-> {w}, rows |-> {}] :
                                 w \in stored},
                failed |-> ~Existing(state, stored)]
      end == FoldLeft(LAMBDA a, i : Assign(a, i, batch[i].row.time, state.clock), start,
                      SetToSortSeq(mine, <))
      dirty == {i \in end.intervals : i.rows # {}}
      Session(i) == [start |-> i.start, end |-> i.end, events |-> NoRows,
                     rows |-> Cardinality(i.rows) + SumRows({state.ordered[w] : w \in i.stored})]
  IN  [failed |-> end.failed, old |-> UNION {i.stored : i \in dirty}, new |-> {Session(i) : i \in dirty}]

\* A stored session that another one replaced goes with its timer, unless the
\* new session has its end.
WriteSessions(state, old, new) ==
  LET gone == old \ {n.key : n \in new}
  IN  [state EXCEPT
         !.ordered = With(Without(@, gone), [w \in {n.key : n \in new} |-> SessionAt(new, w)]),
         !.timers = (@ \ {TimerOf(w, w[2]) : w \in gone})
                    \cup {TimerOf(n.key, n.session.end) : n \in new}]

\* The kernel takes only appended rows with a time, and refuses all work after
\* a failure.
ProcessShared(state, batch) ==
  LET keys == {batch[i].row.key : i \in DOMAIN batch}
      parts == [k \in keys |-> Partition(state, batch, k)]
      new == UNION {{[key |-> OrderedKey(k, s.end), session |-> s] : s \in parts[k].new} : k \in keys}
  IN  IF \E i \in DOMAIN batch : batch[i].row.null \/ batch[i].kind # INSERT
      THEN [failed |-> "input", state |-> state]
      ELSE [failed |-> Corrupt(\E k \in keys : parts[k].failed),
            state |-> WriteSessions(state, UNION {parts[k].old : k \in keys}, new)]

-----------------------------------------------------------------------------
(* Firing.                                                                    *)

NextTimer(state) == IF state.timers = {} THEN -MIN ELSE Min({t.time : t \in state.timers})

Earliest(timers, limit) ==
  LET order == SetToSortSeq(timers, LAMBDA a, b : a.time < b.time)
  IN  {order[i] : i \in 1..Min({limit, Len(order)})}

Result(key, s) == [key |-> key, start |-> s.start, end |-> s.end, rows |-> s.rows]

\* A fired session leaves the index, and the index leaves with its last one.
FireIndexed(state, progress) ==
  LET fired == Earliest({t \in state.timers : t.time <= progress}, OutputRows)
      windows == {t.key : t \in fired} \cap DOMAIN state.windows
      index == [k \in DOMAIN state.index |->
                  {i \in state.index[k] : <<k, i.start, i.end>> \notin windows}]
      timers == state.timers \ fired
  IN  [state |-> [state EXCEPT !.clock = progress, !.timers = timers, !.saved = timers,
                    !.windows = Without(@, windows),
                    !.index = Restrict(index, {k \in DOMAIN index : index[k] # {}})],
       out |-> {Result(w[1], state.windows[w]) : w \in {v \in windows : state.windows[v].rows # 0}},
       failed |-> "no"]

\* One timestamp at a time; a timer without its session is an error.
FireOrdered(state, progress) ==
  LET frontier == Min({NextTimer(state), progress})
      fired == Earliest({t \in state.timers : t.time <= frontier}, OutputRows)
      keys == {t.key : t \in fired}
  IN  [state |-> [state EXCEPT !.clock = progress, !.timers = @ \ fired, !.ordered = Without(@, keys)],
       out |-> {Result(w[1], state.ordered[w]) : w \in keys \cap DOMAIN state.ordered},
       failed |-> Corrupt(~(keys \subseteq DOMAIN state.ordered))]

Advance(p, state, progress) ==
  IF progress < state.clock THEN [state |-> state, out |-> {}, failed |-> "no"]
  ELSE IF p.shared THEN FireOrdered(state, progress) ELSE FireIndexed(state, progress)

-----------------------------------------------------------------------------
(* Checkpoints.                                                               *)

\* The shared format writes its timers and its marker with the snapshot.
Snapshot(p, state) ==
  IF p.shared THEN [state EXCEPT !.saved = state.timers, !.marker = TRUE] ELSE state

\* A stored session is live at the restored watermark and touches no other.
ValidEntries(state, watermark) ==
  /\ \A w \in DOMAIN state.ordered : state.ordered[w].end = w[2] /\ ~Expired(w[2], watermark)
  /\ \A v, w \in DOMAIN state.ordered :
       v[1] = w[1] /\ v # w => ~Touches(state.ordered[v], state.ordered[w].start, state.ordered[w].end)

\* An indexed snapshot moves to the ordered format only if its index, its
\* accumulators and its timers agree and every session is live.
ValidLegacy(state, watermark) ==
  /\ \A w \in DOMAIN state.windows : ~Expired(w[3], watermark) /\ state.windows[w].rows > 0
  /\ \A v, w \in DOMAIN state.windows :
       v[1] = w[1] /\ v # w => ~Touches(state.windows[v], w[2], w[3])
  /\ UNION {{<<k, i.start, i.end>> : i \in state.index[k]} : k \in DOMAIN state.index}
       = DOMAIN state.windows
  /\ state.saved = {TimerOf(w, w[3]) : w \in DOMAIN state.windows}

MigrateLegacy(state) ==
  LET moved == {OrderedKey(w[1], w[3]) : w \in DOMAIN state.windows}
      Of(o) == CHOOSE w \in DOMAIN state.windows : OrderedKey(w[1], w[3]) = o
      timers == {TimerOf(o, o[2]) : o \in moved}
  IN  [EmptySessions EXCEPT !.marker = TRUE, !.timers = timers, !.saved = timers,
         !.ordered = [o \in moved |-> [state.windows[Of(o)] EXCEPT !.events = NoRows]]]

\* A shared operator reads either format; the indexed one only its own.
RestoreKeyGroup(p, state, watermark) ==
  CASE ~p.shared -> [failed |-> "no", state |-> [state EXCEPT !.clock = MIN, !.timers = state.saved]]
    [] state.marker -> [failed |-> Corrupt(~ValidEntries(state, watermark)),
                        state |-> [state EXCEPT !.clock = watermark, !.timers = state.saved]]
    [] OTHER -> [failed |-> Corrupt(~ValidLegacy(state, watermark)),
                 state |-> [MigrateLegacy(state) EXCEPT !.clock = watermark]]

-----------------------------------------------------------------------------

CONSTANTS Plans, Keys, Times, Watermarks, MaxChanges, MaxBatch

VARIABLES
  plan, state,
  failed,     \* "no", or why the operator stopped
  due,        \* the watermark whose sessions are being emitted, MIN when idle
  watermark,  \* the last one taken, which a checkpoint stores
  input,      \* rows that were not retracted (history, over changelogs)
  live,       \* reference: the sessions that should be open (history)
  expected,   \* reference: what should have been emitted (history)
  results,    \* what was emitted (history)
  read

vars == <<plan, state, failed, due, watermark, input, live, expected, results, read>>

Init ==
  /\ plan \in {p \in Plans : ValidatePlan(p)}
  /\ state = EmptySessions /\ failed = "no"
  /\ due = MIN /\ watermark = MIN
  /\ input = NoRows /\ live = {} /\ expected = NoRows /\ results = NoRows /\ read = 0

-----------------------------------------------------------------------------
(* Reference: a row joins every open session it touches; it is late only if   *)
(* the session that makes has ended. A retracted row leaves its session,      *)
(* which keeps its bounds until it is empty.                                  *)

RefRow(sessions, c) ==
  LET key == c.row.key
      time == c.row.time
      near == {s \in sessions : s.key = key /\ Touches(s, time, time + Gap)}
      joined == [key |-> key, start |-> Min({time} \cup {s.start : s \in near}),
                 end |-> Max({time + Gap} \cup {s.end : s \in near}),
                 times |-> FoldSet(LAMBDA s, b : FoldSet(LAMBDA t, d : AddTo(d, t, s.times[t]), b, DOMAIN s.times),
                                   [t \in {time} |-> 1], near)]
      holders == {s \in near : time \in DOMAIN s.times}
      less == {[s EXCEPT !.times = AddTo(@, time, -1)] : s \in holders}
  IN  IF c.row.null THEN sessions
      ELSE IF Accumulates(c.kind)
      THEN IF joined.end - 1 <= watermark THEN sessions ELSE (sessions \ near) \cup {joined}
      ELSE (sessions \ holders) \cup {s \in less : s.times # NoRows}

RowsOf(s) == FoldSet(LAMBDA t, n : n + s.times[t], 0, DOMAIN s.times)
RefResult(s) == [key |-> s.key, start |-> s.start, end |-> s.end, rows |-> RowsOf(s)]

AddAll(bag, rows) == FoldSet(LAMBDA r, b : AddTo(b, r, 1), bag, rows)

-----------------------------------------------------------------------------
(* Actions.                                                                   *)

Process(batch) ==
  LET step == IF plan.shared THEN ProcessShared(state, batch)
              ELSE ProcessSessionBatch(plan, state, batch)
  IN  /\ failed = "no" /\ due = MIN
      /\ failed' = step.failed
      /\ state' = IF step.failed # "no" THEN state ELSE step.state
      /\ live' = IF step.failed # "no" THEN live ELSE FoldLeft(RefRow, live, batch)
      /\ input' = IF plan.changelog THEN MaterializeBag(input, batch) ELSE input
      /\ read' = read + Len(batch)
      /\ UNCHANGED <<plan, due, watermark, expected, results>>

ProcessWatermark(time) ==
  LET closed == {s \in live : s.end - 1 <= time}
  IN  /\ failed = "no" /\ due = MIN /\ time > watermark
      /\ watermark' = time /\ due' = time
      /\ expected' = AddAll(expected, {RefResult(s) : s \in closed}) /\ live' = live \ closed
      /\ UNCHANGED <<plan, state, failed, input, results, read>>

\* Output continues until no timer is due.
Emit ==
  LET step == Advance(plan, state, due)
  IN  /\ failed = "no" /\ due # MIN
      /\ failed' = step.failed /\ state' = step.state
      /\ results' = AddAll(results, step.out)
      /\ due' = IF NextTimer(step.state) <= due THEN due ELSE MIN
      /\ UNCHANGED <<plan, watermark, input, live, expected, read>>

\* A checkpoint and a failure. The indexed operator replays the watermark it
\* stored; the shared one is given it with the snapshot.
CheckpointAndRestore(p) ==
  LET step == RestoreKeyGroup(p, Snapshot(plan, state), watermark)
  IN  /\ failed = "no" /\ due = MIN
      /\ p = plan \/ (~plan.changelog /\ ~plan.shared /\ p.shared)
      /\ plan' = p /\ failed' = step.failed /\ state' = step.state
      /\ due' = IF p.shared THEN MIN ELSE watermark
      /\ UNCHANGED <<watermark, input, live, expected, results, read>>

Changes ==
  LET rows == [key : Keys, time : Times, null : {FALSE}] \cup
              [key : Keys, time : {Min(Times)}, null : {TRUE}]
  IN  {Change(INSERT, r) : r \in rows} \cup
      {Change(DELETE, r) : r \in IF plan.changelog THEN {q \in DOMAIN input : ~q.null} ELSE {}}

Next ==
  \/ /\ failed = "no" /\ due = MIN /\ read < MaxChanges
     /\ \E batch \in BoundedSeq(Changes, Min({MaxBatch, MaxChanges - read})) \ {<<>>} :
          /\ \A r \in DOMAIN MaterializeBag(input, batch) : MaterializeBag(input, batch)[r] > 0
          /\ Process(batch)
  \/ \E time \in Watermarks : ProcessWatermark(time)
  \/ Emit
  \/ \E p \in {q \in Plans : ValidatePlan(q)} : CheckpointAndRestore(p)

Spec == Init /\ [][Next]_vars

-----------------------------------------------------------------------------
(* Properties.                                                                *)

Open ==
  IF plan.shared THEN {Result(w[1], state.ordered[w]) : w \in DOMAIN state.ordered}
  ELSE {Result(w[1], state.windows[w]) : w \in DOMAIN state.windows}

TimersOfState ==
  IF plan.shared THEN {TimerOf(w, w[2]) : w \in DOMAIN state.ordered}
  ELSE {TimerOf(w, w[3]) : w \in DOMAIN state.windows}

Indexed ==
  UNION {{<<k, i.start, i.end>> : i \in state.index[k]} : k \in DOMAIN state.index}

\* The stored sessions are the transitive merges of the rows that were in time,
\* in both formats, after any order of rows within and across batches, and
\* every one is emitted once with all its rows when the watermark passes its
\* end. Timers and index are those of the stored sessions; no state stops an
\* operator, and the shared one can be given any indexed snapshot
\* (session_changes.rs, shared_sessions/, shared_sessions/migration.rs).
SessionsAreMerged ==
  /\ (failed = "no") =>
       /\ state.timers = TimersOfState
       /\ ~plan.shared => state.saved = state.timers /\ Indexed = DOMAIN state.windows
  /\ failed = "no" /\ due = MIN =>
       Open = {RefResult(s) : s \in live} /\ results = expected
  /\ failed # "state"
=============================================================================
