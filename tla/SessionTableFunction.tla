------------------------- MODULE SessionTableFunction -------------------------
(* The SESSION window table function (SessionWindowTableFunctionProcessor and *)
(* the task's operator around it). It keeps the rows of a partition in        *)
(* sessions, merges sessions as rows bridge them, and gives the rows out,     *)
(* with the bounds of their session, when the session is over.                *)
EXTENDS Changelog

CONSTANTS
  Plans,        \* [kind, gap, maxParallelism, schema, timeIndex, keys, processing, zone]
  Schemas,      \* input schemas: [key, kind : BOOLEAN, visible]
  Keys, KeyGroupOf,
  Times,        \* instants of the time attribute
  Watermarks,
  MaxBatch, MaxRows, MaxTime

SessionTableFunctionAssumption ==
  /\ Times \subseteq Int /\ Watermarks \subseteq Int
  /\ MaxBatch \in Nat \ {0} /\ MaxRows \in Nat /\ MaxTime \in Nat

MIN == -1000
MAX == 1000
NoSchema == [visible |-> <<>>]
NoGroup == [next |-> 0, sessions |-> <<>>]

VARIABLES
  plan, status, schema,
  groups,      \* partition key -> [next sequence, its sessions by start]
  timers,      \* the timer service: [at, key, start, end]
  saved,       \* key group -> the timers the store holds for it
  progress,    \* current_event_time or current_processing_time
  now,         \* the task's clock
  registered,  \* the operator's registeredProcessingTimer, MAX if none
  callbacks,   \* timestamps the task's timer service will call back for
  read,        \* rows consumed (history)
  live,        \* reference: the sessions that should be open (history)
  expected,    \* reference: what each partition should have given out (history)
  results      \* what it gave out (history)

vars == <<plan, status, schema, groups, timers, saved, progress, now, registered, callbacks,
          read, live, expected, results>>

-----------------------------------------------------------------------------
(* Plans, schemas and times.                                                  *)

ValidatePlan(p) ==
  p.maxParallelism > 0 /\ p.kind = "Session" /\ p.gap > 0 /\ p.schema # <<>>

\* The first batch fixes the schema, which must be the planned one.
PrepareSchema(s) ==
  IF schema # NoSchema THEN s = schema
  ELSE /\ s.kind /\ s.visible = plan.schema
       /\ plan.processing \/ plan.timeIndex <= Len(s.visible)
       /\ s.key \/ \A i \in DOMAIN plan.keys : plan.keys[i] <= Len(s.visible)

\* All rows are one partition when the plan has no partition keys.
GroupKey(row) == IF plan.keys = <<>> THEN Min(Keys) ELSE row.key

\* A batch is one instant in processing time; an absent time has no window.
HasWindow(row) == plan.processing \/ ~row.null
WindowTimeOf(row, clock) ==
  ToWindowTime(plan.zone, IF plan.processing THEN clock ELSE row.time)

SessionTimer(key, start, end) ==
  [at |-> TimerTimestamp(plan.zone, end - 1), key |-> key, start |-> start, end |-> end]

-----------------------------------------------------------------------------
(* Rows.                                                                      *)

\* Fault: a row that comes exactly at the end of a session starts another one.
Merge_Exclusive(sessions, time) ==
  FoldLeft(LAMBDA m, i :
             LET s == sessions[i]
             IN  IF m.start < s.end /\ m.end > s.start
                 THEN [start |-> Min({m.start, s.start}), end |-> Max({m.end, s.end}),
                       merged |-> m.merged \cup {i}]
                 ELSE m,
           [start |-> time, end |-> time + plan.gap, merged |-> {}],
           [i \in 1..Len(sessions) |-> i])

\* The stored sessions, by their start, that the growing interval touches.
Merge(sessions, time) ==
  FoldLeft(LAMBDA m, i :
             LET s == sessions[i]
             IN  IF m.start <= s.end /\ m.end >= s.start
                 THEN [start |-> Min({m.start, s.start}), end |-> Max({m.end, s.end}),
                       merged |-> m.merged \cup {i}]
                 ELSE m,
           [start |-> time, end |-> time + plan.gap, merged |-> {}],
           [i \in 1..Len(sessions) |-> i])

BySequence(events) == SortSeq(events, LAMBDA a, b : a.sequence < b.sequence)

\* The row and the rows of the merged sessions, in the order they came.
MergedEvents(group, m, event) ==
  BySequence(FoldSet(LAMBDA i, e : e \o group.sessions[i].events, <<event>>, m.merged))

InsertSession(sessions, session) ==
  SortSeq(Append(sessions, session), LAMBDA a, b : a.start < b.start)

\* The merged sessions and their timers go, the new one comes with its own.
ReplaceSessions(stage, key, group, m, event) ==
  LET old == {SessionTimer(key, group.sessions[i].start, group.sessions[i].end) : i \in m.merged}
      kept == SelectSeq(group.sessions, LAMBDA s : \A i \in m.merged : group.sessions[i] # s)
      session == [start |-> m.start, end |-> m.end, events |-> MergedEvents(group, m, event)]
  IN  [groups |-> [stage.groups EXCEPT ![key] =
                     [next |-> group.next + 1, sessions |-> InsertSession(kept, session)]],
       timers |-> (stage.timers \ old) \cup {SessionTimer(key, m.start, m.end)},
       dirty |-> stage.dirty \cup {KeyGroupOf[key]}]

\* A row is late if the session it makes, merged ones included, is over.
ApplyRow(stage, key, m, c, clock) ==
  IF TimerTimestamp(plan.zone, m.end - 1) <= clock THEN stage
  ELSE ReplaceSessions(stage, key, stage.groups[key], m,
         [sequence |-> stage.groups[key].next, kind |-> c.kind, row |-> c.row.id])

ProcessRows(batch, clock) ==
  FoldLeft(LAMBDA stage, c :
             IF ~HasWindow(c.row) THEN stage
             ELSE ApplyRow(stage, GroupKey(c.row),
                           Merge(stage.groups[GroupKey(c.row)].sessions, WindowTimeOf(c.row, clock)),
                           c, clock),
           [groups |-> groups, timers |-> timers, dirty |-> {}], batch)

\* The timers of the key groups whose timers changed are written with the rows.
AppendTimerMutations(all, dirty) ==
  [g \in DOMAIN saved |-> IF g \in dirty THEN {t \in all : KeyGroupOf[t.key] = g} ELSE saved[g]]

-----------------------------------------------------------------------------
(* Firing.                                                                    *)

Fires(fired, key, s) == \E t \in fired : t.key = key /\ t.start = s.start /\ t.end = s.end

Output(s) ==
  [i \in DOMAIN s.events |->
     [row |-> s.events[i].row, kind |-> s.events[i].kind, start |-> s.start, end |-> s.end,
      time |-> s.end - 1]]

\* The rows of a partition's fired sessions, and what it keeps.
FiredOutput(fired, key) ==
  FoldLeft(LAMBDA out, s : IF Fires(fired, key, s) THEN out \o Output(s) ELSE out,
           <<>>, groups[key].sessions)

KeptSessions(fired, key) ==
  LET kept == SelectSeq(groups[key].sessions, LAMBDA s : ~Fires(fired, key, s))
  IN  IF kept = <<>> THEN NoGroup ELSE [groups[key] EXCEPT !.sessions = kept]

FireDue(timestamp) ==
  LET fired == {t \in timers : t.at <= timestamp}
      keys == {t.key : t \in fired}
  IN  /\ timers' = timers \ fired
      /\ groups' = [k \in Keys |-> IF k \in keys THEN KeptSessions(fired, k) ELSE groups[k]]
      /\ results' = [k \in Keys |-> results[k] \o (IF k \in keys THEN FiredOutput(fired, k) ELSE <<>>)]
      /\ saved' = AppendTimerMutations(timers \ fired, {KeyGroupOf[k] : k \in keys})

-----------------------------------------------------------------------------
(* Reference: sessions are what rows within a gap of each other form, as long *)
(* as they are not over.                                                      *)

\* A session is over at an instant by which the local clock has shown its last
\* moment and after which it shows it no more.
Over(end, instant) ==
  /\ \E e \in (end - 8)..(end + 8) : e <= instant /\ ToWindowTime(plan.zone, e) >= end - 1
  /\ \A e \in (end - 8)..(end + 8) : e > instant => ToWindowTime(plan.zone, e) >= end

RefRow(sessions, c, clock) ==
  LET time == WindowTimeOf(c.row, clock)
      key == GroupKey(c.row)
      near == {s \in sessions : s.key = key /\ s.start <= time + plan.gap /\ time <= s.end}
      joined == [key |-> key, start |-> Min({time} \cup {s.start : s \in near}),
                 end |-> Max({time + plan.gap} \cup {s.end : s \in near}),
                 rows |-> {[row |-> c.row.id, kind |-> c.kind]} \cup UNION {s.rows : s \in near}]
  IN  IF ~HasWindow(c.row) \/ Over(joined.end, clock) THEN sessions
      ELSE (sessions \ near) \cup {joined}

RowsOf(s) ==
  LET order == SetToSortSeq(s.rows, LAMBDA a, b : a.row < b.row)
  IN  [i \in DOMAIN order |->
         [row |-> order[i].row, kind |-> order[i].kind, start |-> s.start, end |-> s.end,
          time |-> s.end - 1]]

Ended(key, instant) ==
  SetToSortSeq({s \in live : s.key = key /\ Over(s.end, instant)}, LAMBDA a, b : a.start < b.start)

RefFire(instant) ==
  /\ live' = {s \in live : ~Over(s.end, instant)}
  /\ expected' = [k \in Keys |->
       FoldLeft(LAMBDA out, s : out \o RowsOf(s), expected[k], Ended(k, instant))]

-----------------------------------------------------------------------------
(* The operator.                                                              *)

Init ==
  /\ plan \in Plans
  /\ status = IF ValidatePlan(plan) THEN "Running" ELSE "Refused"
  /\ schema = NoSchema
  /\ groups = [k \in Keys |-> NoGroup] /\ timers = {}
  /\ saved = [g \in Range(KeyGroupOf) |-> {}]
  /\ progress = MIN /\ now = 0 /\ registered = MAX /\ callbacks = {}
  /\ read = 0 /\ live = {}
  /\ expected = [k \in Keys |-> <<>>] /\ results = [k \in Keys |-> <<>>]

\* Asked after every change of the timers: the earliest timer, once.
ScheduleNextProcessingTimer(armed, pending) ==
  LET next == IF timers' = {} THEN MAX ELSE Min({t.at : t \in timers'})
      new == plan.processing /\ next # MAX /\ next # armed
  IN  /\ registered' = IF new THEN next ELSE armed
      /\ callbacks' = IF new THEN pending \cup {next} ELSE pending

\* A batch of processing-time rows moves the operator's clock.
BatchProgress == IF plan.processing THEN Max({progress, now}) ELSE progress

ProcessArrow(s, batch) ==
  /\ status = "Running" /\ PrepareSchema(s)
  /\ schema' = s /\ progress' = BatchProgress
  /\ \E done \in {ProcessRows(batch, BatchProgress)} :
       /\ groups' = done.groups /\ timers' = done.timers
       /\ saved' = AppendTimerMutations(done.timers, done.dirty)
  /\ live' = FoldLeft(LAMBDA l, c : RefRow(l, c, BatchProgress), live, batch)
  /\ read' = read + Len(batch)
  /\ ScheduleNextProcessingTimer(registered, callbacks)
  /\ UNCHANGED <<plan, status, now, expected, results>>

ProcessFails(s) ==
  /\ status = "Running" /\ ~PrepareSchema(s)
  /\ status' = "Failed"
  /\ UNCHANGED <<plan, schema, groups, timers, saved, progress, now, registered, callbacks,
                 read, live, expected, results>>

AdvanceEventTime(timestamp) ==
  /\ status = "Running" /\ ~plan.processing /\ timestamp > progress
  /\ progress' = timestamp
  /\ FireDue(timestamp)
  /\ RefFire(timestamp)
  /\ UNCHANGED <<plan, status, schema, now, registered, callbacks, read>>

\* A callback moves the clock unless a batch moved it as far before.
OnProcessingTime(timestamp) ==
  /\ status = "Running" /\ timestamp <= now
  /\ IF timestamp <= progress
     THEN UNCHANGED <<progress, groups, timers, saved, live, expected, results>>
     ELSE progress' = timestamp /\ FireDue(timestamp) /\ RefFire(timestamp)
  /\ ScheduleNextProcessingTimer(MAX, callbacks \ {timestamp})
  /\ UNCHANGED <<plan, status, schema, now, read>>

Tick ==
  /\ status = "Running" /\ plan.processing /\ now < MaxTime
  /\ now' = now + 1
  /\ UNCHANGED <<plan, status, schema, groups, timers, saved, progress, registered, callbacks,
                 read, live, expected, results>>

\* A restart takes the timers from the store; the operator replays the
\* watermark it had, and arms the earliest processing-time timer anew.
CheckpointAndRestore ==
  /\ status = "Running" /\ schema # NoSchema
  /\ schema' = NoSchema
  /\ timers' = UNION Range(saved)
  /\ progress' = IF plan.processing THEN MIN ELSE progress
  /\ ScheduleNextProcessingTimer(MAX, {})
  /\ UNCHANGED <<plan, status, groups, saved, now, read, live, expected, results>>

Rows(id) ==
  IF plan.processing THEN [id : {id}, key : Keys, time : {0}, null : {FALSE}]
  ELSE [id : {id}, key : Keys, time : Times, null : {FALSE}] \cup
       [id : {id}, key : {Min(Keys)}, time : {0}, null : {TRUE}]

Batches ==
  {<<Change(kind, r)>> : kind \in {INSERT, DELETE}, r \in Rows(read + 1)} \cup
  (IF MaxBatch < 2 \/ read + 2 > MaxRows THEN {}
   ELSE {<<Change(INSERT, r), Change(INSERT, q)>> : r \in Rows(read + 1), q \in Rows(read + 2)})

Next ==
  \/ /\ status = "Running" /\ read < MaxRows
     /\ \E s \in Schemas : PrepareSchema(s) /\ \E batch \in Batches : ProcessArrow(s, batch)
  \/ \E s \in Schemas : ProcessFails(s)
  \/ \E timestamp \in Watermarks : AdvanceEventTime(timestamp)
  \/ \E timestamp \in callbacks : OnProcessingTime(timestamp)
  \/ Tick
  \/ CheckpointAndRestore

Spec == Init /\ [][Next]_vars

-----------------------------------------------------------------------------
(* Properties.                                                                *)

Stored ==
  UNION {{[key |-> k, start |-> s.start, end |-> s.end,
           rows |-> {[row |-> e.row, kind |-> e.kind] : e \in Range(s.events)}] :
            s \in Range(groups[k].sessions)} : k \in Keys}

\* After any order of rows, cut into any batches, and across restarts, the
\* stored sessions of a partition are the transitive merges of its rows that
\* were in time, each with exactly its timer, also in the store; and a session
\* that is over was given out once, whole, in the order its rows came, with its
\* final bounds (process_arrow_accounted, fire_due, finish_key_group_restore).
SessionRowsAreComplete ==
  status = "Running" =>
    /\ Stored = live /\ results = expected
    /\ timers = {SessionTimer(s.key, s.start, s.end) : s \in Stored}
    /\ timers = UNION Range(saved)
=============================================================================
