----------------------------- MODULE IntervalJoin -----------------------------
(* The interval join (interval_join.rs, StreamFusionArrowIntervalJoinOperator):*)
(* a left and a right row of one key join when their times are within the     *)
(* plan's bounds. Rows wait in keyed state; one cleanup timer per key and     *)
(* side drops them and announces the outer rows that found no match. The      *)
(* timers live in memory and reach the state only at a checkpoint.            *)
EXTENDS Changelog

CONSTANTS Plans, InputRows, Watermarks, MaxBatch, MaxTime

IntervalJoinAssumption ==
  /\ \A r \in InputRows : r.key \in Nat /\ r.time \in Nat /\ r.id \in Nat \ {0}
  /\ MaxBatch \in Nat \ {0} /\ \A p \in Plans : p.rows \in Nat /\ MaxTime \in Nat

MIN == -100                   \* i64::MIN
MAX == 100                    \* i64::MAX
None == -1                    \* no cleanup timer
NullKey == 0
NoRow == [key |-> NullKey, time |-> 0, id |-> 0]
Sides == {1, 2}
Other(side) == 3 - side
Keys == {r.key : r \in InputRows}

VARIABLES
  plan,
  states,           \* key -> encoded IntervalState
  timers,           \* timer service: [at, key, side]
  storedTimers,     \* timer snapshots in the keyed state
  dirty,            \* dirty_timer_groups; a key stands for its key group
  eventTime, processingTime,
  inputWatermarks, emittedWatermark,
  now, registered,  \* the clock, registeredProcessingTimer
  callbacks,        \* processing-time service: registered times
  phase,
  live,             \* accepted rows not retracted: [side, row, time, late]
  emitted,          \* the consumer's rows
  overtaken,        \* a joined row left after a watermark at or above its times
  read

native == <<states, timers, storedTimers, dirty, eventTime, processingTime>>
host == <<inputWatermarks, emittedWatermark, now, registered, callbacks>>
history == <<live, emitted, overtaken, read>>
vars == <<plan, native, host, phase, history>>

ValidatePlan(p) ==
  /\ p.leftKeys = p.rightKeys
  /\ p.type \in {"INNER", "LEFT", "RIGHT", "FULL"}
  /\ p.lower <= p.upper

IntervalState == [rows |-> <<<<>>, <<>>>>, cleanup |-> <<None, None>>]
Absent == [version |-> 0]

StateIsEmpty(s) == s = IntervalState

\* A missing timer is stored as i64::MIN, an empty state not at all.
EncodeState(s) ==
  [version |-> 1, rows |-> s.rows,
   cleanup |-> [side \in Sides |-> IF s.cleanup[side] = None THEN MIN ELSE s.cleanup[side]]]

DecodeState(v) ==
  [rows |-> v.rows, cleanup |-> [side \in Sides |-> IF v.cleanup[side] = MIN THEN None ELSE v.cleanup[side]]]

Init ==
  /\ plan \in {p \in Plans : ValidatePlan(p)}
  /\ states = [k \in Keys |-> Absent]
  /\ timers = {} /\ storedTimers = {} /\ dirty = {}
  /\ eventTime = MIN /\ processingTime = MIN
  /\ inputWatermarks = <<MIN, MIN>> /\ emittedWatermark = MIN
  /\ now = 0 /\ registered = MAX /\ callbacks = {}
  /\ phase = "open"
  /\ live = <<>> /\ emitted = NoRows /\ overtaken = FALSE /\ read = 0

-----------------------------------------------------------------------------
(* Times and bounds.                                                          *)

OperatorTime(event, processing) == Max({0, IF plan.eventTime THEN event ELSE processing})

RelativeSize(side) == IF side = 1 THEN -plan.lower ELSE plan.upper

CleanupTime(side, time) == time + RelativeSize(side) + plan.minCleanup + plan.lateness + 1

\* Fault: a row is dropped while its last match can still come.
ExpirationTime_Inclusive(side, progress) ==
  IF progress = MAX THEN MAX ELSE progress - RelativeSize(side) - plan.lateness + 1

ExpirationTime(side, progress) ==
  IF progress = MAX THEN MAX ELSE progress - RelativeSize(side) - plan.lateness - 1

QualifiedBounds(side, time) ==
  IF side = 1 THEN <<time - plan.upper, time - plan.lower>>
  ELSE <<time + plan.lower, time + plan.upper>>

IsOuter(side) ==
  \/ plan.type = "FULL"
  \/ side = 1 /\ plan.type = "LEFT"
  \/ side = 2 /\ plan.type = "RIGHT"

RowTime(row, progress) == IF plan.eventTime THEN row.time ELSE progress
RowIsMatchable(row) == ~plan.filterNulls \/ row.key # NullKey

Pair(side, row, other) == IF side = 1 THEN <<row, other>> ELSE <<other, row>>

-----------------------------------------------------------------------------
(* One change. The work of a batch is the loaded state of its keys, the       *)
(* timers it changed and the rows it emits.                                   *)

SideRows(w, key, side) == w.states[key].rows[side]

ExpireRows(w, key, side, expiration) ==
  LET rows == SideRows(w, key, side)
      unmatched == SelectSeq(rows, LAMBDA r : r.time <= expiration /\ r.associations = 0)
  IN  [w EXCEPT !.states[key].rows[side] = SelectSeq(rows, LAMBDA r : r.time > expiration),
                !.out = IF ~IsOuter(side) THEN @
                        ELSE @ \o [i \in 1..Len(unmatched) |->
                                     Change(INSERT, Pair(side, unmatched[i].row, NoRow))]]

RegisterCleanupTimer(w, key, side, time) ==
  LET timer == [at |-> CleanupTime(side, time), key |-> key, side |-> side]
  IN  [w EXCEPT !.timers = @ \cup {timer},
                !.dirty = IF timer \in w.timers THEN @ ELSE @ \cup {key},
                !.states[key].cleanup[side] = timer.at]

RowsInRange(w, key, side, bounds) ==
  LET rows == SideRows(w, key, Other(side))
  IN  {i \in 1..Len(rows) : rows[i].time >= bounds[1] /\ rows[i].time <= bounds[2]}

\* The joined rows, and the associations of the matches if they are outer.
Join(w, side, c, matches, step) ==
  LET other == Other(side)
      rows == SideRows(w, c.row.key, other)
      order == SetToSortSeq(matches, <)
  IN  [w EXCEPT !.states[c.row.key].rows[other] =
                  [i \in 1..Len(rows) |->
                     IF i \in matches /\ IsOuter(other)
                     THEN [rows[i] EXCEPT !.associations = @ + step] ELSE rows[i]],
                !.out = @ \o [i \in 1..Len(order) |->
                                Change(c.kind, Pair(side, c.row, rows[order[i]].row))]]

Store(w, side, c, time, matches) ==
  LET stored == [row |-> c.row, time |-> time,
                 associations |-> IF IsOuter(side) THEN Cardinality(matches) ELSE 0]
      kept == [w EXCEPT !.states[c.row.key].rows[side] = Append(@, stored)]
  IN  IF w.states[c.row.key].cleanup[side] # None THEN kept
      ELSE RegisterCleanupTimer(kept, c.row.key, side, time)

Unstore(w, side, c, time) ==
  LET rows == SideRows(w, c.row.key, side)
      same == {i \in 1..Len(rows) : rows[i].row = c.row /\ rows[i].time = time}
  IN  IF same = {} THEN w
      ELSE [w EXCEPT !.states[c.row.key].rows[side] = RemoveAt(@, Min(same))]

Padded(w, side, kind, row) == [w EXCEPT !.out = Append(@, Change(kind, Pair(side, row, NoRow)))]

Accumulate(w, side, c, time, upper, matches, progress) ==
  LET joined == Join(w, side, c, matches, 1)
  IN  IF progress < upper THEN Store(joined, side, c, time, matches)
      ELSE IF matches = {} /\ IsOuter(side) THEN Padded(joined, side, INSERT, c.row)
      ELSE joined

Retract(w, side, c, time, upper, matches, progress) ==
  LET joined == Unstore(Join(w, side, c, matches, -1), side, c, time)
  IN  IF progress >= upper /\ matches = {} /\ IsOuter(side)
      THEN Padded(joined, side, c.kind, c.row) ELSE joined

\* A row of one side first expires the rows of the other.
ProcessChange(w, side, c, progress) ==
  LET time == RowTime(c.row, progress)
      bounds == QualifiedBounds(side, time)
      Apply(expired, matches) ==
        IF Accumulates(c.kind)
        THEN Accumulate(expired, side, c, time, bounds[2], matches, progress)
        ELSE Retract(expired, side, c, time, bounds[2], matches, progress)
      Match(expired) ==
        Apply(expired, IF RowIsMatchable(c.row) THEN RowsInRange(expired, c.row.key, side, bounds) ELSE {})
  IN  Match(ExpireRows(w, c.row.key, Other(side), ExpirationTime(Other(side), progress)))

Staged == [k \in Keys |-> IF states[k] = Absent THEN IntervalState ELSE DecodeState(states[k])]
Work == [states |-> Staged, timers |-> timers, dirty |-> dirty, out |-> <<>>]

Mutations(staged) ==
  [k \in Keys |-> IF StateIsEmpty(staged[k]) THEN Absent ELSE EncodeState(staged[k])]

ProcessAccounted(side, batch, progress) ==
  FoldLeft(LAMBDA w, c : ProcessChange(w, side, c, progress), Work, batch)

-----------------------------------------------------------------------------
(* The host: batches, watermarks, processing-time callbacks.                  *)

EmittedAfter(out) == MaterializeBag(emitted, out)

\* A joined row whose times an earlier watermark has passed is late downstream.
Overtakes(out) ==
  /\ plan.eventTime /\ emittedWatermark # MIN
  /\ \E i \in 1..Len(out) : \A side \in Sides :
       /\ out[i].row[side] # NoRow
       /\ out[i].row[side].time <= emittedWatermark - Max({-plan.lower, plan.upper})

NextProcessingTimer(pending) ==
  IF plan.eventTime \/ pending = {} THEN MAX ELSE Min({t.at : t \in pending})

\* scheduleNextProcessingTimer: a new earliest deadline is registered besides
\* the ones registered before.
Schedule(known, pending, waiting) ==
  LET next == NextProcessingTimer(pending)
  IN  IF next = MAX \/ next = known
      THEN registered' = known /\ callbacks' = waiting
      ELSE registered' = next /\ callbacks' = waiting \cup {next}

RemoveLive(entries, side, row) ==
  LET same == {i \in 1..Len(entries) : entries[i].side = side /\ entries[i].row = row}
  IN  IF same = {} THEN entries ELSE RemoveAt(entries, Min(same))

LiveAfter(side, batch, progress) ==
  FoldLeft(LAMBDA l, c :
             IF Accumulates(c.kind)
             THEN Append(l, [side |-> side, row |-> c.row, time |-> RowTime(c.row, progress),
                             late |-> plan.eventTime /\ c.row.time <= progress])
             ELSE RemoveLive(l, side, c.row),
           live, batch)

\* What arrives: late rows only in plans whose input is insert-only, and
\* retractions of rows that are there and not late in the others. Processing
\* time does not read the time column, which then has one value.
Arrives(side, batch, progress) ==
  \A i \in 1..Len(batch) :
    /\ ~plan.eventTime => batch[i].row.time = 2
    /\ plan.changelog => batch[i].row.time > progress
    /\ ~Accumulates(batch[i].kind) =>
         /\ plan.changelog
         /\ \E n \in 1..Len(live) : live[n].side = side /\ live[n].row = batch[i].row
         /\ \A j \in 1..Len(batch) : j # i => batch[j].row # batch[i].row

ProcessArrow(side, batch) ==
  LET processing == IF plan.eventTime THEN processingTime ELSE Max({processingTime, now})
      progress == OperatorTime(eventTime, processing)
  IN  /\ phase = "open" /\ read + Len(batch) <= plan.rows
      /\ Arrives(side, batch, progress)
      /\ \E done \in {ProcessAccounted(side, batch, progress)} :
           /\ states' = Mutations(done.states) /\ timers' = done.timers /\ dirty' = done.dirty
           /\ emitted' = EmittedAfter(done.out)
           /\ overtaken' = (overtaken \/ ((\A i \in 1..Len(batch) : batch[i].row.time > progress) /\ Overtakes(done.out)))
           /\ Schedule(registered, done.timers, callbacks)
      /\ live' = LiveAfter(side, batch, progress)
      /\ processingTime' = processing /\ read' = read + Len(batch)
      /\ UNCHANGED <<plan, storedTimers, eventTime, inputWatermarks, emittedWatermark, now, phase>>

\* A batch of another schema, or with an unknown RowKind, fails before any row
\* is applied.
RejectArrow ==
  /\ phase = "open" /\ phase' = "failed"
  /\ processingTime' = IF plan.eventTime THEN processingTime ELSE Max({processingTime, now})
  /\ UNCHANGED <<plan, states, timers, storedTimers, dirty, eventTime, host, history>>

\* A timer that its key's state does not name any more is skipped.
FireTimer(w, timer, progress) ==
  LET Rearm(done) ==
        LET left == SideRows(done, timer.key, timer.side)
        IN  IF left = <<>> THEN done
            ELSE RegisterCleanupTimer(done, timer.key, timer.side, Min({left[i].time : i \in 1..Len(left)}))
  IN  IF w.states[timer.key].cleanup[timer.side] # timer.at THEN w
      ELSE Rearm(ExpireRows([w EXCEPT !.states[timer.key].cleanup[timer.side] = None],
                            timer.key, timer.side, ExpirationTime(timer.side, progress)))

Fire(progress) ==
  LET due == {t \in timers : t.at <= progress}
      order == SetToSortSeq(due, LAMBDA a, b : <<a.key, a.at, a.side>> # <<b.key, b.at, b.side>> /\
                 (a.key < b.key \/ (a.key = b.key /\ (a.at < b.at \/ (a.at = b.at /\ a.side < b.side)))))
  IN  FoldLeft(LAMBDA w, t : FireTimer(w, t, progress),
               [Work EXCEPT !.timers = @ \ due, !.dirty = @ \cup {t.key : t \in due}], order)

Apply(done) ==
  /\ states' = Mutations(done.states) /\ timers' = done.timers /\ dirty' = done.dirty
  /\ emitted' = EmittedAfter(done.out)

AdvanceEventTime(watermark) ==
  IF watermark <= eventTime \/ ~plan.eventTime THEN UNCHANGED <<states, timers, dirty, eventTime, emitted>>
  ELSE eventTime' = watermark /\ \E done \in {Fire(watermark)} : Apply(done)

AdvanceProcessingTime(timestamp) ==
  IF timestamp <= processingTime
  THEN UNCHANGED <<states, timers, dirty, processingTime, emitted>>
  ELSE processingTime' = timestamp /\ \E done \in {Fire(timestamp)} : Apply(done)

AdvanceTime(processing, timestamp) ==
  IF processing THEN AdvanceProcessingTime(timestamp) /\ UNCHANGED eventTime
  ELSE AdvanceEventTime(timestamp) /\ UNCHANGED processingTime

ProcessWatermark(side, watermark) ==
  LET frontier == [inputWatermarks EXCEPT ![side] = watermark]
      combined == Min({frontier[1], frontier[2]})
  IN  /\ phase = "open" /\ watermark > inputWatermarks[side] /\ (plan.eventTime \/ watermark = MAX)
      /\ inputWatermarks' = frontier
      /\ IF combined <= emittedWatermark
         THEN UNCHANGED <<states, timers, dirty, eventTime, processingTime, emitted, emittedWatermark>>
         ELSE emittedWatermark' = combined /\ AdvanceTime(FALSE, combined)
      /\ UNCHANGED <<plan, storedTimers, now, registered, callbacks, phase,
                     live, overtaken, read>>

OnProcessingTime(timestamp) ==
  /\ phase = "open" /\ timestamp \in callbacks /\ timestamp <= now
  /\ AdvanceTime(TRUE, timestamp)
  /\ Schedule(MAX, timers', callbacks \ {timestamp})
  /\ UNCHANGED <<plan, storedTimers, inputWatermarks, emittedWatermark, now, phase,
                 live, overtaken, read>>

Tick ==
  /\ phase = "open" /\ ~plan.eventTime /\ now < MaxTime /\ now' = now + 1
  /\ UNCHANGED <<plan, native, inputWatermarks, emittedWatermark, registered, callbacks, phase, history>>

-----------------------------------------------------------------------------
(* Checkpoints. The timers of dirty groups are written first; the watermarks  *)
(* of both inputs are operator state, the native clocks are not.              *)

FlushTimerGroups ==
  {t \in storedTimers : t.key \notin dirty} \cup {t \in timers : t.key \in dirty}

CheckpointAndRestore ==
  LET flushed == FlushTimerGroups
  IN  /\ phase = "open" /\ read > 0
      /\ storedTimers' = flushed /\ timers' = flushed /\ dirty' = {}
      /\ processingTime' = MIN
      /\ Schedule(MAX, flushed, {})
      /\ UNCHANGED <<plan, states, eventTime, inputWatermarks, emittedWatermark, now, phase, history>>

Kinds == IF plan.changelog THEN {INSERT, DELETE} ELSE {INSERT}
Batches == UNION {[1..n -> [kind : Kinds, row : InputRows]] : n \in 1..Min({MaxBatch, plan.rows - read})}

ProcessBatch(side) == phase = "open" /\ read < plan.rows /\ \E batch \in Batches : ProcessArrow(side, batch)

Next ==
  \/ \E side \in Sides : ProcessBatch(side)
  \/ RejectArrow
  \/ \E side \in Sides, watermark \in Watermarks : ProcessWatermark(side, watermark)
  \/ \E timestamp \in callbacks : OnProcessingTime(timestamp)
  \/ Tick
  \/ CheckpointAndRestore

Spec == Init /\ [][Next]_vars

-----------------------------------------------------------------------------
(* Properties.                                                                *)

Joinable(a, b) ==
  LET bounds == QualifiedBounds(a.side, a.time)
  IN  /\ a.side # b.side /\ a.row.key = b.row.key /\ RowIsMatchable(a.row)
      /\ b.time >= bounds[1] /\ b.time <= bounds[2]

\* A row without a time ahead of it that could match is not kept, which in
\* processing time concerns the rows of its own millisecond.
Kept(a) == plan.eventTime \/ a.time < QualifiedBounds(a.side, a.time)[2]

Meetings(pair, Counts(_, _)) ==
  Cardinality({<<i, j>> \in (1..Len(live)) \X (1..Len(live)) :
                 /\ i < j /\ Joinable(live[i], live[j]) /\ Counts(live[i], live[j])
                 /\ Pair(live[i].side, live[i].row, live[j].row) = pair})

Joined == {Pair(live[i].side, live[i].row, live[j].row) :
             <<i, j>> \in {m \in (1..Len(live)) \X (1..Len(live)) : live[m[1]].side # live[m[2]].side}}

\* Every pair within the bounds whose second row was not late is announced,
\* and no other pair; a retraction takes its pairs back.
PairsAreExact ==
  \A pair \in Joined \cup {p \in DOMAIN emitted : NoRow \notin {p[1], p[2]}} :
    /\ Count(emitted, pair) <= Meetings(pair, LAMBDA a, b : TRUE)
    /\ Count(emitted, pair) >= Meetings(pair, LAMBDA a, b : Kept(a) /\ ~b.late)

\* An outer row without a pair is announced with nulls exactly once, when it
\* leaves the state; a row with a pair never is.
OuterIsSettled ==
  \A side \in Sides : \A row \in InputRows :
    LET copies == Cardinality({i \in 1..Len(live) : live[i].side = side /\ live[i].row = row})
        pairs == {p \in DOMAIN emitted : p[side] = row /\ p[Other(side)] # NoRow}
        padded == Count(emitted, Pair(side, row, NoRow))
        stored == SideRows(Work, row.key, side)
        held == Cardinality({i \in 1..Len(stored) : stored[i].row = row})
    IN  IF ~IsOuter(side) THEN padded = 0
        ELSE /\ pairs = {} => padded + held = copies
             /\ pairs # {} /\ copies = 1 => padded = 0

\* What waits in the state has its timer, in memory and at a checkpoint, and
\* nothing waits once the last watermark has come.
TimersAreKept ==
  /\ \A k \in Keys : \A side \in Sides :
       Staged[k].rows[side] # <<>> =>
         /\ [at |-> Staged[k].cleanup[side], key |-> k, side |-> side] \in timers
         /\ eventTime # MAX
  /\ FlushTimerGroups = timers

\* The interval join of process_change, expire_rows and fire: a consumer has
\* the joined and the null-padded rows that the accepted input calls for, no
\* joined row is late to the delayed watermark (maxOutputDelay), and cleanup
\* survives a checkpoint that writes only the dirty timer groups.
IntervalJoinIsExact ==
  phase = "open" => PairsAreExact /\ OuterIsSettled /\ ~overtaken /\ TimersAreKept
=============================================================================
