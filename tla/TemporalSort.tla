---------------------------- MODULE TemporalSort ----------------------------
(* Temporal sort: rows wait in the keyed state under the timestamp that      *)
(* releases them and leave ordered by time, secondary key and arrival. A due  *)
(* timer is drained in pages; the host calls again until no due timer is left *)
(* (StreamFusionArrowTemporalSortOperator.drainTimers), one page per step.    *)
EXTENDS Integers, Sequences, FiniteSets, SequencesExt, FiniteSetsExt

CONSTANTS Plans, InputRows, MaxTime, MaxBatch, MaxRows, PageRows, TimersPerOutput

TemporalSortAssumption ==
  /\ \A r \in InputRows : r.time \in 0..MaxTime /\ r.key \in Nat
  /\ MaxTime \in Nat /\ MaxBatch \in Nat \ {0} /\ MaxRows \in Nat
  /\ PageRows \in Nat \ {0} /\ TimersPerOutput \in Nat \ {0}

Null == 0                     \* a null time attribute or secondary key
Forever == MaxTime + 2        \* i64::MAX
Never == -1                   \* i64::MIN, and no drain in progress
Roots == 0..(MaxTime + 1)     \* 0 is the one root of all processing-time rows
NoGroup == [next |-> 0, entries |-> {}]
NoDrain == [deadline |-> Forever, last |-> Never, groups |-> <<>>, markers |-> {}, hadRows |-> FALSE]

VARIABLES
  plan,
  rows,          \* root -> arrival counter and the row entries below its prefix
  markers,       \* stored timer markers
  storedTrigger, \* stored last triggering timestamp
  timers,        \* the timer service's index
  lastTrigger,   \* last_triggering_timestamp
  drain,         \* pending_drain
  progress,      \* progress of the host's drain loop, Never outside it
  watermark, now, phase,
  accepted,      \* rows that were not late, in arrival order (history)
  cuts,          \* Len(accepted) at each processing-time callback (history)
  emitted, read

vars == <<plan, rows, markers, storedTrigger, timers, lastTrigger, drain, progress,
          watermark, now, phase, accepted, cuts, emitted, read>>

ValidatePlan(p) == p.secondary # "none" => p.directions = p.keys

Init ==
  /\ plan \in {p \in Plans : ValidatePlan(p)}
  /\ rows = [r \in Roots |-> NoGroup] /\ markers = {} /\ storedTrigger = Never
  /\ timers = {} /\ lastTrigger = Never /\ drain = NoDrain /\ progress = Never
  /\ watermark = Never /\ now = 0 /\ phase = "open"
  /\ accepted = <<>> /\ cuts = <<>> /\ emitted = <<>> /\ read = 0

-----------------------------------------------------------------------------
(* Input.                                                                     *)

\* The Arrow encoding of the secondary key orders as the plan asks.
SecondaryKey(r) ==
  CASE plan.secondary = "none" -> 0
    [] r.key = Null -> IF plan.nullsLast THEN 100 ELSE -100
    [] OTHER -> IF plan.secondary = "ascending" THEN r.key ELSE -r.key

Timestamp(r) == IF plan.processingTime THEN now + 1 ELSE r.time

\* Fault: only rows older than the last trigger are late.
IsLate_Strict(r) == ~plan.processingTime /\ r.time < lastTrigger

IsLate(r) == ~plan.processingTime /\ r.time <= lastTrigger

RowsStateKey(r) == IF plan.processingTime THEN 0 ELSE r.time

\* Ordinals continue the group's arrival counter.
AppendEntry(group, r) ==
  [next |-> group.next + 1,
   entries |-> group.entries \cup {[key |-> SecondaryKey(r), ordinal |-> group.next, row |-> r]}]

RowStateAppend(batch) ==
  [root \in Roots |->
     FoldLeft(AppendEntry, rows[root], SelectSeq(batch, LAMBDA r : RowsStateKey(r) = root))]

\* Event time: only a group that was empty needs its timer.
NeedsTimer(r) == plan.processingTime \/ rows[RowsStateKey(r)].next = 0

Register(batch) == {Timestamp(batch[i]) : i \in {j \in 1..Len(batch) : NeedsTimer(batch[j])}}

NextTimer(d, pending) ==
  IF d # NoDrain THEN d.deadline ELSE IF pending = {} THEN Forever ELSE Min(pending)

\* drainTimers stops when nothing due is left; the end of the input is Forever.
StillDue(d, pending, limit) == NextTimer(d, pending) # Forever /\ NextTimer(d, pending) <= limit
Continue(d, pending, limit) == IF StillDue(d, pending, limit) THEN limit ELSE Never

Idle == phase = "open" /\ progress = Never

\* Rows that Flink takes: nothing of their time or later has been emitted.
Taken(batch) ==
  SelectSeq(batch, LAMBDA r : plan.processingTime \/ \A i \in 1..Len(emitted) : emitted[i].time < r.time)

ProcessArrow(batch) ==
  LET Write(kept) ==
        /\ rows' = RowStateAppend(kept)
        /\ timers' = timers \cup Register(kept)
        /\ markers' = markers \cup Register(kept)
  IN  /\ Idle
      /\ plan.processingTime \/ \A i \in 1..Len(batch) : batch[i].time # Null
      /\ Write(SelectSeq(batch, LAMBDA r : ~IsLate(r)))
      /\ progress' = IF plan.processingTime THEN Never ELSE Continue(drain, timers', watermark)
      /\ accepted' = accepted \o Taken(batch) /\ read' = read + Len(batch)
      /\ UNCHANGED <<plan, storedTrigger, lastTrigger, drain, watermark, now, phase, cuts, emitted>>

\* A null time attribute, or an unknown row kind, fails the processor for good.
RejectArrow ==
  /\ Idle /\ read < MaxRows /\ ~plan.processingTime
  /\ phase' = "failed"
  /\ UNCHANGED <<plan, rows, markers, storedTrigger, timers, lastTrigger, drain, progress,
                 watermark, now, accepted, cuts, emitted, read>>

-----------------------------------------------------------------------------
(* Draining.                                                                  *)

\* The timer service hands out the earliest due timers, a bounded number.
AdvanceOwnedLimited ==
  LET due == SetToSortSeq({t \in timers : t <= progress}, <)
  IN  SubSeq(due, 1, IF Len(due) < TimersPerOutput THEN Len(due) ELSE TimersPerOutput)

\* Groups of the fired timers that have rows, each once, in timer order.
PrepareDrain(fired) ==
  LET roots == IF plan.processingTime THEN <<0>> ELSE fired
      Group(r) == [root |-> r, expected |-> rows[r].next, read |-> 0]
      groups == [i \in 1..Len(roots) |-> Group(roots[i])]
      present == SelectSeq(groups, LAMBDA g : g.expected # 0)
  IN  [deadline |-> fired[1], last |-> fired[Len(fired)], groups |-> present,
       markers |-> Range(fired), hadRows |-> present # <<>>]

Before(e, f) == e.key < f.key \/ (e.key = f.key /\ e.ordinal < f.ordinal)

\* Reads up to `budget` rows of a group in key order; complete when none is left.
ReadGroup(entries, budget) ==
  LET all == SetToSortSeq(entries, Before)
      n == IF Len(all) < budget THEN Len(all) ELSE budget
  IN  [rows |-> SubSeq(all, 1, n), complete |-> n = Len(all)]

\* The rows of a page are ordered by group, secondary key and arrival.
OutputRowGroups(groups) == FlattenSeq([i \in 1..Len(groups) |-> SortSeq(groups[i], Before)])

\* Whole groups until the page is full; `done` groups are complete, and `read`
\* rows of the next one have been taken.
PageOf(groups, entries, budget) ==
  LET Step(page, g) ==
        IF page.full THEN page
        ELSE LET r == ReadGroup(entries[g.root].entries, budget - page.count)
                 n == page.count + Len(r.rows)
             IN  [out |-> Append(page.out, r.rows), count |-> n,
                  done |-> page.done + (IF r.complete THEN 1 ELSE 0),
                  read |-> IF r.complete THEN 0 ELSE Len(r.rows),
                  full |-> ~r.complete \/ n >= budget]
  IN  FoldLeft(Step, [out |-> <<>>, count |-> 0, done |-> 0, read |-> 0, full |-> FALSE], groups)

\* A complete group must have as many rows as its arrival counter says.
CountsMatch(d, page) ==
  \A i \in 1..page.done : d.groups[i].read + Len(page.out[i]) = d.groups[i].expected

\* The drain after a page: complete groups leave, the next remembers its rows.
Rest(d, page) ==
  LET left == SubSeq(d.groups, page.done + 1, Len(d.groups))
  IN  IF left = <<>> THEN NoDrain
      ELSE [d EXCEPT !.groups = [left EXCEPT ![1].read = @ + page.read]]

\* Rows handed out are deleted with the page, the root with its last row.
WithoutPage(d, page) ==
  LET taken == UNION {Range(page.out[i]) : i \in 1..Len(page.out)}
      gone == {d.groups[i].root : i \in 1..page.done}
      touched == {d.groups[i].root : i \in 1..Len(page.out)}
  IN  [r \in Roots |-> IF r \in gone THEN NoGroup
                       ELSE IF r \in touched THEN [rows[r] EXCEPT !.entries = @ \ taken] ELSE rows[r]]

AdvancePage(d, page) ==
  LET rest == Rest(d, page)
      last == IF rest = NoDrain /\ ~plan.processingTime /\ d.hadRows THEN d.last ELSE lastTrigger
      due == IF drain = NoDrain THEN timers \ d.markers ELSE timers
  IN  /\ CountsMatch(d, page)
      /\ rows' = WithoutPage(d, page)
      /\ markers' = IF rest = NoDrain THEN markers \ d.markers ELSE markers
      /\ storedTrigger' = IF last # lastTrigger THEN last ELSE storedTrigger
      /\ lastTrigger' = last /\ timers' = due /\ drain' = rest
      /\ emitted' = emitted \o [i \in 1..page.count |-> OutputRowGroups(page.out)[i].row]
      /\ progress' = Continue(rest, due, progress)

\* One call of advance. Bytes may close a page before PageRows does.
Advance ==
  /\ phase \in {"open", "ended"} /\ progress # Never
  /\ \E d \in {IF drain = NoDrain THEN PrepareDrain(AdvanceOwnedLimited) ELSE drain} :
       \E budget \in 1..PageRows : \E page \in {PageOf(d.groups, rows, budget)} : AdvancePage(d, page)
  /\ UNCHANGED <<plan, watermark, now, phase, accepted, cuts, read>>

\* Admission, output or backend failures, and a count that does not match:
\* earlier pages are gone, so the processor takes no call any more.
AdvanceFails ==
  /\ phase \in {"open", "ended"} /\ progress # Never
  /\ phase' = "failed" /\ drain' = NoDrain
  /\ UNCHANGED <<plan, rows, markers, storedTrigger, timers, lastTrigger, progress,
                 watermark, now, accepted, cuts, emitted, read>>

ProcessWatermark(w) ==
  /\ Idle /\ ~plan.processingTime /\ w > watermark
  /\ watermark' = w /\ progress' = Continue(drain, timers, w)
  /\ UNCHANGED <<plan, rows, markers, storedTrigger, timers, lastTrigger, drain, now, phase,
                 accepted, cuts, emitted, read>>

Tick ==
  /\ Idle /\ plan.processingTime /\ now < MaxTime /\ now' = now + 1
  /\ UNCHANGED <<plan, rows, markers, storedTrigger, timers, lastTrigger, drain, progress,
                 watermark, phase, accepted, cuts, emitted, read>>

\* The host keeps the earliest timer registered; the callback may be late and
\* carries the time it was registered for.
OnProcessingTime ==
  /\ Idle /\ plan.processingTime /\ timers # {} /\ Min(timers) <= now
  /\ progress' = Min(timers) /\ cuts' = Append(cuts, Len(accepted))
  /\ UNCHANGED <<plan, rows, markers, storedTrigger, timers, lastTrigger, drain, watermark, now,
                 phase, accepted, emitted, read>>

EndInput ==
  /\ Idle
  /\ phase' = "ended" /\ progress' = Continue(drain, timers, Forever)
  /\ cuts' = IF plan.processingTime THEN Append(cuts, Len(accepted)) ELSE cuts
  /\ UNCHANGED <<plan, rows, markers, storedTrigger, timers, lastTrigger, drain, watermark, now,
                 accepted, emitted, read>>

-----------------------------------------------------------------------------
(* Checkpoint and restore. Version 2 stored a group as one list in arrival    *)
(* order and all timers as one vector.                                        *)

LegacyRows(group) == SetToSortSeq(group.entries, LAMBDA e, f : e.ordinal < f.ordinal)

\* Ordinals are given out anew; the root stores the number of rows.
MigrateGroup(list) ==
  [next |-> Len(list), entries |-> {[list[i] EXCEPT !.ordinal = i - 1] : i \in 1..Len(list)}]

MigrateLegacyGroups(legacy) ==
  IF legacy THEN [r \in Roots |-> MigrateGroup(LegacyRows(rows[r]))] ELSE rows

RestoreTimers(legacy) ==
  IF legacy THEN [timers |-> timers, markers |-> timers] ELSE [timers |-> markers, markers |-> markers]

CheckpointAndRestore(legacy) ==
  /\ Idle
  /\ rows' = MigrateLegacyGroups(legacy)
  /\ timers' = RestoreTimers(legacy).timers /\ markers' = RestoreTimers(legacy).markers
  /\ lastTrigger' = storedTrigger
  /\ progress' = Continue(drain, timers', watermark)
  /\ UNCHANGED <<plan, storedTrigger, drain, watermark, now, phase, accepted, cuts, emitted, read>>

Next ==
  \/ \E b \in UNION {[1..n -> InputRows] : n \in 1..(IF MaxRows - read < MaxBatch THEN MaxRows - read ELSE MaxBatch)} :
       ProcessArrow([i \in 1..Len(b) |-> [time |-> IF plan.processingTime THEN now + 1 ELSE b[i].time,
                                          key |-> b[i].key, id |-> read + i]])
  \/ RejectArrow
  \/ \E w \in 1..MaxTime : ProcessWatermark(w)
  \/ Tick \/ OnProcessingTime \/ EndInput \/ Advance \/ AdvanceFails
  \/ \E legacy \in BOOLEAN : CheckpointAndRestore(legacy)

Spec == Init /\ [][Next]_vars

-----------------------------------------------------------------------------
(* The property.                                                              *)

InOrder(r, s) ==
  \/ SecondaryKey(r) < SecondaryKey(s)
  \/ SecondaryKey(r) = SecondaryKey(s) /\ r.id < s.id

ByTime(r, s) == r.time < s.time \/ (r.time = s.time /\ InOrder(r, s))

\* Event time: every accepted row the watermark has passed, in SQL's order.
\* Processing time: each callback releases all rows that wait, sorted.
Released ==
  IF plan.processingTime
  THEN LET from(i) == IF i = 1 THEN 1 ELSE cuts[i - 1] + 1
       IN  FlattenSeq([i \in 1..Len(cuts) |-> SortSeq(SubSeq(accepted, from(i), cuts[i]), InOrder)])
  ELSE SortSeq(SelectSeq(accepted, LAMBDA r : r.time <= watermark \/ phase = "ended"), ByTime)

\* The output is the released rows, each exactly once and in the order of time,
\* secondary key and arrival, whatever the pages, timer limits, late callbacks
\* and restored formats; it is complete whenever a call of the host returns,
\* and a row still waiting has a stored timer no later than its own.
ReleasedInOrder ==
  phase # "failed" =>
    /\ IsPrefix(emitted, Released)
    /\ progress = Never =>
         /\ emitted = Released
         /\ timers = markers /\ lastTrigger = storedTrigger
         /\ \A i \in 1..Len(accepted) :
              accepted[i] \notin Range(emitted) => \E t \in markers : t <= accepted[i].time
=============================================================================
