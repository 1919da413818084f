----------------------------- MODULE TemporalJoin -----------------------------
(* The temporal join (temporal_join.rs, StreamFusionArrowTemporalJoinOperator):*)
(* a left row joins the version of the right table that is valid at its time. *)
(* In event time left rows wait for the watermark of both inputs; in          *)
(* processing time they meet the current version at once. Idle keys are       *)
(* cleared by a processing-time timer. The host evaluates the residual        *)
(* condition of the matches.                                                  *)
EXTENDS Changelog

CONSTANTS Plans, LeftInput, RightInput, Watermarks, MaxBatch, MaxTime

TemporalJoinAssumption ==
  /\ \A c \in LeftInput \cup RightInput : c.row.key \in Nat /\ c.row.time \in Nat /\ c.row.id \in Nat \ {0}
  /\ MaxBatch \in Nat \ {0} /\ (\A p \in Plans : p.rows \in Nat) /\ MaxTime \in Nat

MIN == -100                   \* i64::MIN
MAX == 100                    \* i64::MAX
None == -1                    \* no timer
NullKey == 0
NoRow == [key |-> NullKey, time |-> 0, id |-> 0]
Keys == {c.row.key : c \in LeftInput \cup RightInput}

VARIABLES
  plan,
  states,                    \* key -> encoded TemporalState
  timers,                    \* timer service: [domain, at, key]
  storedTimers, dirty,       \* timer snapshots in the state; dirty_timer_groups
  eventTime, processingTime,
  inputWatermarks, emittedWatermark,
  now, registered, callbacks,
  phase,
  probes,                    \* left rows that are not due (history)
  versions,                  \* right rows since the key was cleared (history)
  touched,                   \* key -> clock of its last use (history)
  emitted, expected,         \* bags of announced rows
  early,                     \* a key was cleared within its retention
  read

native == <<states, timers, storedTimers, dirty, eventTime, processingTime>>
host == <<inputWatermarks, emittedWatermark, now, registered, callbacks>>
history == <<probes, versions, touched, emitted, expected, early, read>>
vars == <<plan, native, host, phase, history>>

ValidatePlan(p) ==
  /\ p.leftKeys = p.rightKeys
  /\ p.type \in {"INNER", "LEFT"}
  /\ p.maxRetention >= p.minRetention

TemporalState == [left |-> <<>>, right |-> {}, next |-> 0, event |-> None, cleanup |-> None]
Absent == [version |-> 0]
StateIsEmpty(s) == s.left = <<>> /\ s.right = {} /\ s.event = None /\ s.cleanup = None

Stored(timer) == IF timer = None THEN MIN ELSE timer
Loaded(timer) == IF timer = MIN THEN None ELSE timer

\* A missing timer is stored as i64::MIN.
EncodeState(s) ==
  [version |-> 1, next |-> s.next, left |-> s.left, right |-> s.right,
   event |-> Stored(s.event), cleanup |-> Stored(s.cleanup)]

DecodeState(v) ==
  [left |-> v.left, right |-> v.right, next |-> v.next,
   event |-> Loaded(v.event), cleanup |-> Loaded(v.cleanup)]

Init ==
  /\ plan \in {p \in Plans : ValidatePlan(p)}
  /\ states = [k \in Keys |-> Absent]
  /\ timers = {} /\ storedTimers = {} /\ dirty = {}
  /\ eventTime = MIN /\ processingTime = MIN
  /\ inputWatermarks = <<MIN, MIN>> /\ emittedWatermark = MIN
  /\ now = 0 /\ registered = MAX /\ callbacks = {} /\ phase = "open"
  /\ probes = <<>> /\ versions = <<>> /\ touched = [k \in Keys |-> 0]
  /\ emitted = NoRows /\ expected = NoRows /\ early = FALSE /\ read = 0

-----------------------------------------------------------------------------
(* Timers of a key, kept in memory with the groups that changed.              *)

RowTime(row, clock) == IF plan.eventTime THEN row.time ELSE clock
RowIsMatchable(row) == ~plan.filterNulls \/ row.key # NullKey

DeleteTimer(w, domain, key, at) ==
  LET timer == [domain |-> domain, at |-> at, key |-> key]
  IN  IF timer \notin w.timers THEN w
      ELSE [w EXCEPT !.timers = @ \ {timer}, !.dirty = @ \cup {key}]

Register(w, domain, key, at) ==
  LET timer == [domain |-> domain, at |-> at, key |-> key]
  IN  IF timer \in w.timers THEN w
      ELSE [w EXCEPT !.timers = @ \cup {timer}, !.dirty = @ \cup {key}]

RegisterEventTimer(w, key, at) ==
  [Register(w, "event", key, at) EXCEPT !.states[key].event = at]

\* Fault: an earlier row does not move the timer forward.
RegisterSmallestEventTimer_First(w, key, at) ==
  IF w.states[key].event # None THEN w ELSE RegisterEventTimer(w, key, at)

RegisterSmallestEventTimer(w, key, at) ==
  LET current == w.states[key].event
  IN  IF current # None /\ current <= at THEN w
      ELSE RegisterEventTimer(IF current = None THEN w ELSE DeleteTimer(w, "event", key, current), key, at)

DeleteCleanupTimer(w, key) ==
  LET current == w.states[key].cleanup
  IN  IF current = None THEN w
      ELSE [DeleteTimer(w, "processing", key, current) EXCEPT !.states[key].cleanup = None]

RefreshCleanupTimer(w, key, clock) ==
  LET current == w.states[key].cleanup
      at == clock + plan.maxRetention
  IN  IF \/ plan.minRetention <= 1
         \/ current # None /\ clock + plan.minRetention <= current
      THEN w
      ELSE [Register(DeleteCleanupTimer(w, key), "processing", key, at) EXCEPT !.states[key].cleanup = at]

-----------------------------------------------------------------------------
(* Changes.                                                                   *)

Match(kind, left, right) == [kind |-> kind, left |-> left, right |-> right, matched |-> TRUE]
Unmatched(kind, left) == [kind |-> kind, left |-> left, right |-> NoRow, matched |-> FALSE]

Version(c, at) == [time |-> at, kind |-> c.kind, row |-> c.row]

\* A left row is queued, a right row replaces the version of its time.
ProcessEventChange(w, side, c, clock) ==
  LET key == c.row.key
      s == w.states[key]
      at == RowTime(c.row, clock)
      probe == [sequence |-> s.next, kind |-> c.kind, row |-> c.row]
      queued == IF side = 1
                THEN [w EXCEPT !.states[key].left = Append(@, probe), !.states[key].next = @ + 1]
                ELSE [w EXCEPT !.states[key].right = {v \in @ : v.time # at} \cup {Version(c, at)}]
  IN  RefreshCleanupTimer(RegisterSmallestEventTimer(queued, key, at), key, clock)

ProcessRight(w, c, clock) ==
  LET key == c.row.key
  IN  IF Accumulates(c.kind)
      THEN RefreshCleanupTimer([w EXCEPT !.states[key].right = {Version(c, clock)}], key, clock)
      ELSE DeleteCleanupTimer([w EXCEPT !.states[key].right = {}], key)

\* Only a probe that finds a version keeps its key from idling.
ProcessLeft(w, c, clock) ==
  LET key == c.row.key
      usable == {v \in w.states[key].right : RowIsMatchable(v.row)}
  IN  IF RowIsMatchable(c.row) /\ usable # {}
      THEN RefreshCleanupTimer(
             [w EXCEPT !.out = Append(@, Match(c.kind, c.row, (CHOOSE v \in usable : TRUE).row))], key, clock)
      ELSE IF plan.type = "LEFT" THEN [w EXCEPT !.out = Append(@, Unmatched(c.kind, c.row))] ELSE w

ProcessProcessingChange(w, side, c, clock) ==
  IF side = 2 THEN ProcessRight(w, c, clock) ELSE ProcessLeft(w, c, clock)

Staged == [k \in Keys |-> IF states[k] = Absent THEN TemporalState ELSE DecodeState(states[k])]
Work == [states |-> Staged, timers |-> timers, dirty |-> dirty, out |-> <<>>]

Mutations(staged) ==
  [k \in Keys |-> IF StateIsEmpty(staged[k]) THEN Absent ELSE EncodeState(staged[k])]

ProcessAccounted(side, batch, clock) ==
  FoldLeft(LAMBDA w, c : IF plan.eventTime THEN ProcessEventChange(w, side, c, clock)
                         ELSE ProcessProcessingChange(w, side, c, clock),
           Work, batch)

-----------------------------------------------------------------------------
(* Timers that fire.                                                          *)

LatestUpTo(right, time) ==
  LET past == {v \in right : v.time <= time}
  IN  {v \in past : \A u \in past : u.time <= v.time}

Lookup(s, probe) ==
  LET usable == {v \in LatestUpTo(s.right, probe.row.time) :
                   Accumulates(v.kind) /\ RowIsMatchable(v.row) /\ RowIsMatchable(probe.row)}
  IN  IF usable # {} THEN <<Match(probe.kind, probe.row, (CHOOSE v \in usable : TRUE).row)>>
      ELSE IF plan.type = "LEFT" THEN <<Unmatched(probe.kind, probe.row)>> ELSE <<>>

\* Due rows leave in their order of arrival; of the versions the watermark has
\* passed only the last is kept.
EmitEventRows(w, key, watermark) ==
  LET s == w.states[key]
      due == SortSeq(SelectSeq(s.left, LAMBDA p : p.row.time <= watermark),
                     LAMBDA a, b : a.sequence < b.sequence)
      keep == {v.time : v \in LatestUpTo(s.right, watermark)}
  IN  [w EXCEPT !.out = @ \o FlattenSeq([i \in 1..Len(due) |-> Lookup(s, due[i])]),
                !.states[key].left = SelectSeq(@, LAMBDA p : p.row.time > watermark),
                !.states[key].right = {v \in @ : \A t \in keep : v.time >= t}]

FireEvent(w, timer, progress) ==
  LET Rearm(done) ==
        LET left == done.states[timer.key].left
        IN  IF left = <<>> THEN done
            ELSE RegisterEventTimer(done, timer.key, Min({left[i].row.time : i \in 1..Len(left)}))
  IN  IF w.states[timer.key].event # timer.at THEN w
      ELSE Rearm(EmitEventRows([w EXCEPT !.states[timer.key].event = None], timer.key, progress))

FireCleanup(w, timer) ==
  LET s == w.states[timer.key]
      cleared == [w EXCEPT !.states[timer.key] = TemporalState]
  IN  IF s.cleanup # timer.at THEN w
      ELSE IF s.event = None THEN cleared ELSE DeleteTimer(cleared, "event", timer.key, s.event)

Fire(domain, progress) ==
  LET due == {t \in timers : t.domain = domain /\ t.at <= progress}
      order == SetToSortSeq(due, LAMBDA a, b : a.key < b.key \/ (a.key = b.key /\ a.at < b.at))
  IN  FoldLeft(LAMBDA w, t : IF t.domain = "event" THEN FireEvent(w, t, progress) ELSE FireCleanup(w, t),
               [Work EXCEPT !.timers = @ \ due, !.dirty = @ \cup {t.key : t \in due}], order)

-----------------------------------------------------------------------------
(* The host.                                                                  *)

Condition(left, right) == ~plan.condition \/ right.id # 2

\* A match that fails the residual condition is dropped, or loses its right row.
MaterializeCondition(out) ==
  LET Visible(o) ==
        IF ~o.matched \/ Condition(o.left, o.right) THEN <<Change(o.kind, <<o.left, o.right>>)>>
        ELSE IF plan.type = "LEFT" THEN <<Change(o.kind, <<o.left, NoRow>>)>> ELSE <<>>
  IN  FlattenSeq([i \in 1..Len(out) |-> Visible(out[i])])

Count1(bag, changes) == FoldLeft(LAMBDA b, c : AddTo(b, c, 1), bag, changes)

NextProcessingTimer(pending) ==
  LET due == {t.at : t \in {p \in pending : p.domain = "processing"}}
  IN  IF due = {} THEN MAX ELSE Min(due)

Schedule(known, pending, waiting) ==
  LET next == NextProcessingTimer(pending)
  IN  IF next = MAX \/ next = known
      THEN registered' = known /\ callbacks' = waiting
      ELSE registered' = next /\ callbacks' = waiting \cup {next}

\* What the SQL asks for: the last version at or before the row's time.
VersionAt(row, right) ==
  LET past == {i \in 1..Len(right) : right[i].row.key = row.key /\ (plan.eventTime => right[i].row.time <= row.time)}
      time == Max({0} \cup {right[i].row.time : i \in past})
      last == {i \in past : ~plan.eventTime \/ right[i].row.time = time}
  IN  IF last = {} THEN NoRow
      ELSE IF Accumulates(right[Max(last)].kind) THEN right[Max(last)].row ELSE NoRow

Answer(c, right) ==
  LET version == VersionAt(c.row, right)
      joins == version # NoRow /\ RowIsMatchable(c.row) /\ Condition(c.row, version)
  IN  IF joins THEN <<Change(c.kind, <<c.row, version>>)>>
      ELSE IF plan.type = "LEFT" THEN <<Change(c.kind, <<c.row, NoRow>>)>> ELSE <<>>

Answers(rows, right) == FlattenSeq([i \in 1..Len(rows) |-> Answer(rows[i], right)])

\* Using a key restarts its retention: any row in event time, a new version or
\* a probe that finds one in processing time.
Uses(side, c) ==
  \/ plan.eventTime
  \/ side = 2 /\ Accumulates(c.kind)
  \/ side = 1 /\ RowIsMatchable(c.row) /\ VersionAt(c.row, versions) # NoRow

Observe(side, batch) ==
  /\ versions' = IF side = 2 THEN versions \o batch ELSE versions
  /\ probes' = IF side = 1 /\ plan.eventTime THEN probes \o batch ELSE probes
  /\ expected' = IF side = 1 /\ ~plan.eventTime THEN Count1(expected, Answers(batch, versions)) ELSE expected
  /\ touched' = [k \in Keys |-> IF \E i \in 1..Len(batch) : batch[i].row.key = k /\ Uses(side, batch[i])
                                THEN now ELSE touched[k]]

\* Rows are not late; processing time does not read their time column.
Arrives(batch) ==
  \A i \in 1..Len(batch) :
    IF plan.eventTime THEN batch[i].row.time > emittedWatermark ELSE batch[i].row.time = 1

ProcessArrow(side, batch) ==
  LET clock == Max({processingTime, now})
  IN  /\ Arrives(batch)
      /\ \E done \in {ProcessAccounted(side, batch, clock)} :
           /\ states' = Mutations(done.states) /\ timers' = done.timers /\ dirty' = done.dirty
           /\ emitted' = Count1(emitted, MaterializeCondition(done.out))
           /\ Schedule(registered, done.timers, callbacks)
      /\ processingTime' = clock /\ Observe(side, batch) /\ read' = read + Len(batch)
      /\ UNCHANGED <<plan, storedTimers, eventTime, inputWatermarks, emittedWatermark, now, phase, early>>

\* A batch of another schema, or with an unknown RowKind, changes no state.
RejectArrow ==
  /\ phase = "open" /\ phase' = "failed" /\ processingTime' = Max({processingTime, now})
  /\ UNCHANGED <<plan, states, timers, storedTimers, dirty, eventTime, host, history>>

Apply(done) ==
  /\ states' = Mutations(done.states) /\ timers' = done.timers /\ dirty' = done.dirty
  /\ emitted' = Count1(emitted, MaterializeCondition(done.out))

AdvanceEventTime(watermark) ==
  IF watermark <= eventTime
  THEN UNCHANGED <<states, timers, dirty, eventTime, emitted, probes, expected>>
  ELSE /\ eventTime' = watermark
       /\ \E done \in {Fire("event", watermark)} : Apply(done)
       /\ probes' = SelectSeq(probes, LAMBDA c : c.row.time > watermark)
       /\ expected' = Count1(expected, Answers(SelectSeq(probes, LAMBDA c : c.row.time <= watermark), versions))

Cleared(timestamp) == {k \in Keys : \E t \in timers : /\ t.domain = "processing" /\ t.key = k
                                                     /\ t.at <= timestamp /\ Staged[k].cleanup = t.at}

AdvanceProcessingTime(timestamp) ==
  IF timestamp <= processingTime
  THEN UNCHANGED <<states, timers, dirty, processingTime, emitted, probes, versions, early>>
  ELSE /\ processingTime' = timestamp
       /\ \E done \in {Fire("processing", timestamp)} : Apply(done)
       /\ probes' = SelectSeq(probes, LAMBDA c : c.row.key \notin Cleared(timestamp))
       /\ versions' = SelectSeq(versions, LAMBDA c : c.row.key \notin Cleared(timestamp))
       /\ early' = (early \/ \E k \in Cleared(timestamp) : timestamp < touched[k] + plan.minRetention)

\* In processing time the left input alone decides the watermark.
ProcessWatermark(side, watermark) ==
  LET frontier == [inputWatermarks EXCEPT ![side] = watermark]
      combined == IF plan.eventTime THEN Min({frontier[1], frontier[2]}) ELSE frontier[1]
  IN  /\ phase = "open" /\ watermark > inputWatermarks[side] /\ (plan.eventTime \/ watermark = MAX)
      /\ inputWatermarks' = frontier
      /\ emittedWatermark' = Max({emittedWatermark, combined})
      /\ IF combined <= emittedWatermark \/ ~plan.eventTime
         THEN UNCHANGED <<states, timers, dirty, eventTime, emitted, probes, expected>>
         ELSE AdvanceEventTime(combined)
      /\ UNCHANGED <<plan, storedTimers, processingTime, now, registered, callbacks, phase,
                     versions, touched, early, read>>

OnProcessingTime(timestamp) ==
  /\ phase = "open" /\ timestamp <= now
  /\ AdvanceProcessingTime(timestamp)
  /\ Schedule(MAX, timers', callbacks \ {timestamp})
  /\ UNCHANGED <<plan, storedTimers, eventTime, inputWatermarks, emittedWatermark, now, phase,
                 touched, expected, read>>

Tick ==
  /\ phase = "open" /\ plan.minRetention > 0 /\ now < MaxTime /\ now' = now + 1
  /\ UNCHANGED <<plan, native, inputWatermarks, emittedWatermark, registered, callbacks, phase, history>>

-----------------------------------------------------------------------------
(* Checkpoints.                                                               *)

FlushTimerGroups ==
  {t \in storedTimers : t.key \notin dirty} \cup {t \in timers : t.key \in dirty}

\* The restored watermark counts as emitted: the native clock starts anew and
\* moves with the next watermark.
CheckpointAndRestore ==
  LET flushed == FlushTimerGroups
  IN  /\ phase = "open" /\ read > 0
      /\ storedTimers' = flushed /\ timers' = flushed /\ dirty' = {}
      /\ eventTime' = MIN /\ processingTime' = MIN
      /\ emittedWatermark' = IF plan.eventTime THEN Min({inputWatermarks[1], inputWatermarks[2]}) ELSE inputWatermarks[1]
      /\ Schedule(MAX, flushed, {})
      /\ UNCHANGED <<plan, states, inputWatermarks, now, phase, history>>

\* Any kind of left row is passed through; versions come as upserts.
Inputs(side) == IF side = 1 THEN LeftInput ELSE RightInput

ProcessBatch(side) ==
  /\ phase = "open" /\ read < plan.rows
  /\ \E batch \in UNION {[1..n -> Inputs(side)] : n \in 1..Min({MaxBatch, plan.rows - read})} :
       ProcessArrow(side, batch)

Next ==
  \/ \E side \in {1, 2} : ProcessBatch(side)
  \/ RejectArrow
  \/ \E side \in {1, 2}, watermark \in Watermarks : ProcessWatermark(side, watermark)
  \/ \E timestamp \in callbacks : OnProcessingTime(timestamp)
  \/ Tick
  \/ CheckpointAndRestore

Spec == Init /\ [][Next]_vars

-----------------------------------------------------------------------------
(* Properties.                                                                *)

\* The temporal join of process_accounted, emit_event_rows and the host's
\* condition: every probe is answered exactly once, in event time when the
\* watermark of both inputs passes it, with the version valid at its time; no
\* key is cleared within its retention, and a checkpoint of the dirty timer
\* groups holds every timer.
JoinsValidVersion ==
  phase = "open" => emitted = expected /\ ~early /\ FlushTimerGroups = timers
=============================================================================
