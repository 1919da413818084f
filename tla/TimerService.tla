---------------------------- MODULE TimerService ----------------------------
(* NativeTimerService (state/timer.rs, state/timer/batch.rs): the timers of   *)
(* one subtask per key group and clock domain, drained in bounded batches     *)
(* while callbacks register more, charged to the operator's memory, saved     *)
(* per key group and redistributed on a restore.                              *)
EXTENDS Integers, Sequences, SequencesExt, FiniteSets, FiniteSetsExt

CONSTANTS
  Ranges,           \* key-group ranges of a subtask, <<first, last>>
  Times, Keys,      \* timestamps; keys (with their namespace), as byte lengths
  Limits,           \* the batch limits a drain may use
  Budget,           \* bytes the memory owner grants
  MaxSteps          \* bound on registrations, clock advances and restores

Domains == {"event", "processing"}
Groups == 0..Max({r[2] : r \in Ranges})
Timers == {[time |-> t, key |-> k] : t \in Times, k \in Keys}
Identities == [group : Groups, domain : Domains, timer : Timers]

VARIABLES
  svc,              \* [first, last, groups, accounted, reserved]
  parked,           \* timers of the key groups other subtasks own
  frontier,         \* per domain, how far the clock came
  draining,         \* the domain being drained, "none" between drains
  batch,            \* the fired batch a callback still holds
  phase,            \* "open", "failed", or "rejected"
  steps

vars == <<svc, parked, frontier, draining, batch, phase, steps>>

-----------------------------------------------------------------------------
NodeBytes == 2
DescriptorBytes == 1
GroupBytes == 1
TimerHeapSize(t) == NodeBytes + t.key

TimerBefore(a, b) == a.time < b.time \/ (a.time = b.time /\ a.key < b.key)
Ordered(set) == SetToSortSeq(set, TimerBefore)
First(set) == CHOOSE t \in set : \A u \in set : t = u \/ TimerBefore(t, u)
BytesOf(list) == FoldLeft(LAMBDA n, f : n + TimerHeapSize(f.timer), 0, list)

NoTimers == [d \in Domains |-> {}]
New(first, last) ==
  [first |-> first, last |-> last, groups |-> [g \in first..last |-> NoTimers],
   accounted |-> GroupBytes * (last - first + 1), reserved |-> GroupBytes * (last - first + 1)]
GroupIndex(s, g) == g \in s.first..s.last

Done(outcome, s, fired, credit) == [outcome |-> outcome, svc |-> s, fired |-> fired, credit |-> credit]

\* register: the bound is reserved first and given back when the timer exists already.
Register(s, id, room) ==
  LET size == s.accounted + TimerHeapSize(id.timer)
      grown == [s EXCEPT !.reserved = size]
  IN  IF size > room THEN Done("refused", s, <<>>, 0)
      ELSE IF ~GroupIndex(s, id.group) THEN Done("failed", grown, <<>>, 0)
      ELSE IF id.timer \in s.groups[id.group][id.domain] THEN Done("ok", [s EXCEPT !.reserved = s.accounted], <<>>, 0)
      ELSE Done("ok", [grown EXCEPT !.accounted = size, !.groups[id.group][id.domain] = @ \cup {id.timer}], <<>>, 0)

\* Fault: a timer listed twice in the batch is charged twice.
RegisterBatch_Twice(s, ids, room) ==
  LET Is(i) == ids[i].timer \notin s.groups[ids[i].group][ids[i].domain]
      chosen == SelectSeq([i \in 1..Len(ids) |-> [ids |-> ids[i], new |-> Is(i)]], LAMBDA c : c.new)
      size == s.accounted + FoldLeft(LAMBDA n, c : n + TimerHeapSize(c.ids.timer), 0, chosen)
  IN  IF \E i \in 1..Len(ids) : ~GroupIndex(s, ids[i].group) THEN Done("refused", s, <<>>, 0)
      ELSE IF size > room THEN Done("refused", s, <<>>, 0)
      ELSE Done("ok", [FoldLeft(LAMBDA v, c : [v EXCEPT !.groups[c.ids.group][c.ids.domain] = @ \cup {c.ids.timer}], s, chosen)
                         EXCEPT !.accounted = size, !.reserved = size], <<>>, 0)

\* register_batch: distinct new timers, one admission, nothing inserted before it.
RegisterBatch(s, ids, room) ==
  LET selected == {id \in ToSet(ids) : id.timer \notin s.groups[id.group][id.domain]}
      size == s.accounted + FoldSet(LAMBDA id, n : n + TimerHeapSize(id.timer), 0, selected)
      Into(g, d) == {id.timer : id \in {i \in selected : i.group = g /\ i.domain = d}}
  IN  IF \E i \in 1..Len(ids) : ~GroupIndex(s, ids[i].group) THEN Done("refused", s, <<>>, 0)
      ELSE IF size > room THEN Done("refused", s, <<>>, 0)
      ELSE Done("ok", [s EXCEPT !.accounted = size, !.reserved = size,
             !.groups = [g \in DOMAIN s.groups |-> [d \in Domains |-> s.groups[g][d] \cup Into(g, d)]]], <<>>, 0)

Delete(s, id) ==
  IF id.timer \notin s.groups[id.group][id.domain] THEN s
  ELSE LET size == s.accounted - TimerHeapSize(id.timer)
       IN  [s EXCEPT !.groups[id.group][id.domain] = @ \ {id.timer}, !.accounted = size, !.reserved = size]

-----------------------------------------------------------------------------
(* Draining. Key groups in order, then timestamps, then keys.                 *)

Fired(g, d, t) == [group |-> g, domain |-> d, timer |-> t]
FirstDue(s, g, d, progress) == {t \in s.groups[g][d] : t.time <= progress /\ t = First(s.groups[g][d])}

\* The identity to fire next, left in place: the first group with a due timer.
NextDue(s, d, progress) ==
  LET due == {g \in DOMAIN s.groups : FirstDue(s, g, d, progress) # {}}
  IN  IF due = {} THEN {} ELSE {Fired(Min(due), d, t) : t \in FirstDue(s, Min(due), d, progress)}

\* Pop the first timer of group g while it is due and the limit allows, then go on.
RECURSIVE PopDue(_, _, _, _, _, _)
PopDue(groups, g, last, d, progress, limit) ==
  IF limit = 0 \/ g > last THEN [groups |-> groups, fired |-> <<>>]
  ELSE LET set == groups[g][d]
       IN  IF set = {} THEN PopDue(groups, g + 1, last, d, progress, limit)
           ELSE IF First(set).time > progress THEN PopDue(groups, g + 1, last, d, progress, limit)
           ELSE LET rest == PopDue([groups EXCEPT ![g][d] = @ \ {First(set)}], g, last, d, progress, limit - 1)
                IN  [rest EXCEPT !.fired = <<Fired(g, d, First(set))>> \o @]

\* advance_limited returns plain values: their bytes leave the reservation.
AdvanceLimited(s, d, progress, limit) ==
  LET popped == PopDue(s.groups, s.first, s.last, d, progress, limit)
      size == s.accounted - BytesOf(popped.fired)
  IN  Done("ok", [s EXCEPT !.groups = popped.groups, !.accounted = size, !.reserved = size], popped.fired, 0)

\* advance_owned_limited admits the descriptors before it pops, then the timers'
\* own credit moves with them into the batch.
AdvanceOwnedLimited(s, d, progress, limit, room) ==
  LET due == UNION {{Fired(g, d, t) : t \in {u \in s.groups[g][d] : u.time <= progress}} : g \in DOMAIN s.groups}
      count == Min({limit, Cardinality(due)})
      popped == PopDue(s.groups, s.first, s.last, d, progress, count)
      moved == BytesOf(popped.fired)
  IN  IF s.reserved + DescriptorBytes * count > room THEN Done("refused", s, <<>>, 0)
      ELSE Done("ok", [s EXCEPT !.groups = popped.groups, !.accounted = @ - moved, !.reserved = @ - moved],
                popped.fired, DescriptorBytes * count + moved)

-----------------------------------------------------------------------------
(* Snapshots: both domains of one key group in order, restored once.          *)

Snapshot(groups, g) ==
  LET Listed(d) == [i \in 1..Cardinality(groups[g][d]) |-> [domain |-> d, timer |-> Ordered(groups[g][d])[i]]]
      all == Listed("event") \o Listed("processing")
  IN  [group |-> g, count |-> Len(all), timers |-> all]

DecodeSnapshot(g, frame) == frame.group = g /\ frame.count = Len(frame.timers)

RestoreKeyGroup(s, g, frame) ==
  LET size == s.accounted + BytesOf(frame.timers)
      In(d) == {frame.timers[i].timer : i \in {j \in 1..Len(frame.timers) : frame.timers[j].domain = d}}
  IN  IF s.groups[g] # NoTimers \/ ~DecodeSnapshot(g, frame) \/ size > Budget THEN Done("failed", s, <<>>, 0)
      ELSE Done("ok", [s EXCEPT !.groups[g] = [d \in Domains |-> In(d)], !.accounted = size, !.reserved = size], <<>>, 0)

RECURSIVE RestoreAll(_, _, _)
RestoreAll(s, g, frames) ==
  IF g > s.last THEN Done("ok", s, <<>>, 0)
  ELSE LET restored == RestoreKeyGroup(s, g, frames[g])
       IN  IF restored.outcome = "ok" THEN RestoreAll(restored.svc, g + 1, frames) ELSE restored

-----------------------------------------------------------------------------
NoBatch == [entries |-> <<>>, credit |-> 0]
Room == Budget - batch.credit

Init ==
  \E r \in Ranges :
    /\ svc = New(r[1], r[2]) /\ parked = [g \in Groups |-> NoTimers]
    /\ phase = IF r[1] > r[2] THEN "rejected" ELSE "open"
    /\ frontier = [d \in Domains |-> 0] /\ draining = "none" /\ batch = NoBatch /\ steps = 0

Outcome(result) ==
  /\ svc' = result.svc
  /\ phase' = IF result.outcome = "ok" THEN "open" ELSE "failed"

\* An operator registers timers ahead of its clock; a callback, any of its own domain.
Registrable(id) == draining = id.domain \/ id.timer.time > frontier[id.domain]
RegisterTimer ==
  /\ phase = "open" /\ steps < MaxSteps
  /\ \E id \in {i \in Identities : Registrable(i)} : Outcome(Register(svc, id, Room))
  /\ steps' = steps + 1 /\ UNCHANGED <<parked, frontier, draining, batch>>
RegisterTimers ==
  /\ phase = "open" /\ steps < MaxSteps
  /\ \E a, b \in {i \in Identities : Registrable(i) /\ i.domain = "event"} : Outcome(RegisterBatch(svc, <<a, b, a>>, Room))
  /\ steps' = steps + 1 /\ UNCHANGED <<parked, frontier, draining, batch>>
DeleteTimer ==
  /\ phase = "open" /\ draining = "none" /\ steps < MaxSteps
  /\ \E id \in {i \in Identities : GroupIndex(svc, i.group) /\ i.timer \in svc.groups[i.group][i.domain]} :
       svc' = Delete(svc, id)
  /\ steps' = steps + 1 /\ UNCHANGED <<parked, frontier, draining, batch, phase>>

AdvanceClock ==
  /\ phase = "open" /\ draining = "none" /\ steps < MaxSteps
  /\ \E d \in Domains, t \in Times :
       /\ t > frontier[d]
       /\ frontier' = [frontier EXCEPT ![d] = t]
       /\ draining' = d
  /\ steps' = steps + 1 /\ UNCHANGED <<svc, parked, batch, phase>>

\* One round of a drain; an empty batch ends it.
Drain ==
  /\ phase = "open" /\ draining # "none" /\ batch = NoBatch
  /\ \E limit \in Limits :
       \E r \in {AdvanceLimited(svc, draining, frontier[draining], limit),
                 AdvanceOwnedLimited(svc, draining, frontier[draining], limit, Budget)} :
         /\ Outcome(r)
         /\ batch' = IF r.credit = 0 THEN NoBatch ELSE [entries |-> r.fired, credit |-> r.credit]
         /\ draining' = IF r.fired = <<>> /\ r.outcome = "ok" THEN "none" ELSE draining
  /\ UNCHANGED <<parked, frontier, steps>>
\* A streamed callback keeps its timer until its output is out, then deletes it.
DrainNext ==
  /\ phase = "open" /\ draining # "none" /\ batch = NoBatch
  /\ \E id \in NextDue(svc, draining, frontier[draining]) : svc' = Delete(svc, id)
  /\ UNCHANGED <<parked, frontier, draining, batch, phase, steps>>
DropBatch ==
  /\ phase = "open" /\ batch # NoBatch /\ batch' = NoBatch
  /\ UNCHANGED <<svc, parked, frontier, draining, phase, steps>>

\* A checkpoint of all subtasks and a restore with another range; the restored
\* operator's clocks start anew.
Rescale ==
  /\ phase = "open" /\ draining = "none" /\ batch = NoBatch /\ steps < MaxSteps
  /\ \E r \in {range \in Ranges : range[1] <= range[2]} :
       \E all \in {[g \in Groups |-> IF GroupIndex(svc, g) THEN svc.groups[g] ELSE parked[g]]} :
         /\ Outcome(RestoreAll(New(r[1], r[2]), r[1], [g \in Groups |-> Snapshot(all, g)]))
         /\ parked' = [g \in Groups |-> IF g \in r[1]..r[2] THEN NoTimers ELSE all[g]]
  /\ frontier' = [d \in Domains |-> 0]
  /\ steps' = steps + 1 /\ UNCHANGED <<draining, batch>>

Next == RegisterTimer \/ RegisterTimers \/ DeleteTimer \/ AdvanceClock \/ Drain \/ DrainNext \/ DropBatch \/ Rescale
Spec == Init /\ [][Next]_vars

-----------------------------------------------------------------------------
AllTimers(s, d) == UNION {{Fired(g, d, t) : t \in s.groups[g][d]} : g \in DOMAIN s.groups}
FiresBefore(a, b) == a.group < b.group \/ (a.group = b.group /\ TimerBefore(a.timer, b.timer))

\* However a drain is cut into batches, it takes the due timers in key-group and
\* timer order, each once, and ends only when none is left; every byte charged
\* belongs to a timer in the service or in a batch a callback still holds.
TimersDrainInOrder ==
  phase = "open" =>
    /\ svc.reserved = svc.accounted
    /\ svc.accounted = GroupBytes * (svc.last - svc.first + 1)
         + FoldSet(LAMBDA f, n : n + TimerHeapSize(f.timer), 0, AllTimers(svc, "event") \cup AllTimers(svc, "processing"))
    /\ batch.credit = BytesOf(batch.entries) + DescriptorBytes * Len(batch.entries)
    /\ svc.reserved + batch.credit <= Budget
    /\ \A d \in Domains, progress \in Times :
         LET due == SetToSortSeq({f \in AllTimers(svc, d) : f.timer.time <= progress}, FiresBefore)
         IN  /\ \A limit \in Limits : AdvanceLimited(svc, d, progress, limit).fired = SubSeq(due, 1, Min({limit, Len(due)}))
             /\ NextDue(svc, d, progress) = IF due = <<>> THEN {} ELSE {due[1]}
    /\ draining = "none" => \A d \in Domains : \A f \in AllTimers(svc, d) : f.timer.time > frontier[d]
=============================================================================
