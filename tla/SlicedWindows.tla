---------------------------- MODULE SlicedWindows ----------------------------
(* Two-stage event-time windows: local buffers send partials and watermarks   *)
(* over ordered channels to the task that merges slices and fires windows.    *)
EXTENDS SharedSlices

CONSTANTS
  Plans, Senders, Keys, Times,
  Watermarks,       \* watermarks a source may send
  MaxRows, MaxBatch \* rows sent in all, and in a batch

VARIABLES
  plan, buffer, channel, slices,
  sent,      \* watermark each sender has sent
  heard,     \* watermark of each channel
  firing,    \* the watermark the receiver is polled with, MIN when idle
  held,      \* senders behind their barrier
  failed,
  onTime,    \* rows per key and window that no watermark had closed (history)
  possible,  \* those the receiver had not closed (history)
  results,   \* rows each window was emitted with, Twice if not once (history)
  read

vars == <<plan, buffer, channel, slices, sent, heard, firing, held, failed,
          onTime, possible, results, read>>
history == <<onTime, possible, results, read>>

Twice == -1
NoTime == MIN

ValidatePlan(p) == ValidLocalPlan(p) /\ ValidSlicePlan(p) /\ ValidWindow(p) /\ ~p.processingTime

Init ==
  /\ plan \in {p \in Plans : ValidatePlan(p)}
  /\ buffer = [s \in Senders |-> EmptyBuffer(FALSE)]
  /\ channel = [s \in Senders |-> <<>>]
  /\ slices = EmptySlices
  /\ sent = [s \in Senders |-> NoTime] /\ heard = [s \in Senders |-> NoTime]
  /\ firing = MIN /\ held = {} /\ failed = FALSE
  /\ onTime = <<>> /\ possible = <<>> /\ results = <<>> /\ read = 0

Partials(chunks) == [c \in DOMAIN chunks |-> [kind |-> "Partials", partials |-> chunks[c], time |-> 0]]
Message(kind, time) == <<[kind |-> kind, partials |-> <<>>, time |-> time]>>

-----------------------------------------------------------------------------
(* Local stage.                                                               *)

\* The window table function gives a row once per window; it drops rows
\* without a time.
ExpandBatch(rows) ==
  LET Of(row) == IF row.time = NoTime THEN {} ELSE AssignWindows(plan, row.time)
      Expanded(row) == [i \in 1..Cardinality(Of(row)) |->
                          [key |-> row.key, time |-> row.time, end |-> SetToSeq(Of(row))[i].end]]
  IN  FlattenSeq([j \in DOMAIN rows |-> Expanded(rows[j])])

LocalInput(rows) == IF plan.attached THEN ExpandBatch(rows)
                    ELSE [j \in DOMAIN rows |-> [key |-> rows[j].key, time |-> rows[j].time, end |-> 0]]

Counted(bag, rows, closed) ==
  FoldLeft(LAMBDA b, row :
             LET ends == {w.end : w \in AssignWindows(plan, row.time)}
                 open == {<<row.key, e>> : e \in {x \in ends : x - 1 > closed}}
             IN  [p \in DOMAIN b \cup open |->
                    (IF p \in DOMAIN b THEN b[p] ELSE 0) + (IF p \in open THEN 1 ELSE 0)],
           bag, SelectSeq(rows, LAMBDA row : row.time # NoTime))

Larger(a, b) == IF a > b THEN a ELSE b

\* A null rowtime fails a direct window before anything changes.
ProcessBatch(s, rows) ==
  LET step == Push(plan, buffer[s], LocalInput(rows))
  IN  /\ ~failed /\ s \notin held
      /\ read + Len(rows) <= MaxRows
      /\ IF ~plan.attached /\ \E j \in DOMAIN rows : rows[j].time = NoTime
         THEN failed' = TRUE /\ UNCHANGED <<buffer, channel, onTime, possible, read>>
         ELSE /\ buffer' = [buffer EXCEPT ![s] = step.buffer]
              /\ channel' = [channel EXCEPT ![s] = @ \o Partials(step.out)]
              /\ onTime' = Counted(onTime, rows, Larger(sent[s], slices.clock))
              /\ possible' = Counted(possible, rows, slices.clock)
              /\ read' = read + Len(rows)
              /\ UNCHANGED failed
      /\ UNCHANGED <<plan, slices, sent, heard, firing, held, results>>

\* The partials a control event flushes go ahead of it.
LocalControl(s, event, time, message) ==
  LET step == Control(plan, buffer[s], event, time)
  IN  /\ ~failed /\ s \notin held
      /\ buffer' = [buffer EXCEPT ![s] = step.buffer]
      /\ channel' = [channel EXCEPT ![s] = @ \o Partials(step.out) \o message]
      /\ UNCHANGED <<plan, slices, heard, firing, failed, history>>

LocalWatermark(s, time) ==
  /\ time > sent[s]
  /\ LocalControl(s, "Clock", time, Message("Watermark", time))
  /\ sent' = [sent EXCEPT ![s] = time]
  /\ UNCHANGED held

LocalCheckpoint(s) ==
  /\ LocalControl(s, "BeforeCheckpoint", 0, Message("Barrier", 0))
  /\ held' = held \cup {s}
  /\ UNCHANGED sent

-----------------------------------------------------------------------------
(* Receiving stage.                                                           *)

Ready(s, kind) == ~failed /\ firing = MIN /\ channel[s] # <<>> /\ Head(channel[s]).kind = kind
Received(s) == channel' = [channel EXCEPT ![s] = Tail(@)]

ReceivePartials(s) ==
  /\ Ready(s, "Partials") /\ Received(s)
  /\ LET partials == Head(channel[s]).partials
     IN  IF \A i \in DOMAIN partials : ValidPartial(plan, partials[i])
         THEN slices' = ProcessPartials(plan, slices, partials) /\ UNCHANGED failed
         ELSE failed' = TRUE /\ UNCHANGED slices
  /\ UNCHANGED <<plan, buffer, sent, heard, firing, held, history>>

\* Flink forwards the minimum over the channels when it grows.
ReceiveWatermark(s) ==
  /\ Ready(s, "Watermark") /\ Received(s)
  /\ LET now == [heard EXCEPT ![s] = Head(channel[s]).time]
         Least(f) == Min({f[x] : x \in Senders})
     IN  /\ heard' = now
         /\ firing' = IF Least(now) > Least(heard) THEN Least(now) ELSE MIN
  /\ UNCHANGED <<plan, buffer, slices, sent, held, failed, history>>

Emit(out) ==
  [p \in DOMAIN results \cup {<<r.key, r.end>> : r \in out} |->
     LET new == {r \in out : <<r.key, r.end>> = p}
     IN  IF new = {} THEN results[p]
         ELSE IF p \in DOMAIN results THEN Twice ELSE (CHOOSE r \in new : TRUE).rows]

\* One poll of the watermark; the last one finds no timer that is due.
PollWatermark ==
  LET step == Advance(plan, slices, firing)
  IN  /\ ~failed /\ firing # MIN
      /\ slices' = step.slices /\ results' = Emit(step.out)
      /\ firing' = IF step.out = {} /\ (NextTimer(step.slices) > firing \/ step.slices.timers = {})
                   THEN MIN ELSE firing
      /\ UNCHANGED <<plan, buffer, channel, sent, heard, held, failed, onTime, possible, read>>

\* The barriers meet: the task goes on, or fails and is restored from here.
\* What senders did behind their barriers would be lost or commute with this.
CompleteCheckpoint(restored) ==
  /\ ~failed /\ firing = MIN /\ held = Senders
  /\ \A s \in Senders : channel[s] # <<>> /\ Head(channel[s]).kind = "Barrier"
  /\ channel' = [s \in Senders |-> Tail(channel[s])] /\ held' = {}
  /\ IF restored
     THEN /\ buffer' = [s \in Senders |-> EmptyBuffer(FALSE)]
          /\ slices' = RestoreSlices(slices, slices.clock)
          /\ sent' = [s \in Senders |-> NoTime] /\ heard' = [s \in Senders |-> NoTime]
     ELSE UNCHANGED <<buffer, slices, sent, heard>>
  /\ UNCHANGED <<plan, firing, failed, history>>

Batches == BoundedSeq([key : Keys, time : Times], MaxBatch) \ {<<>>}

Next ==
  \/ \E s \in Senders : read < MaxRows /\ \E rows \in Batches : ProcessBatch(s, rows)
  \/ \E s \in Senders, time \in Watermarks : LocalWatermark(s, time)
  \/ \E s \in Senders : LocalCheckpoint(s)
  \/ \E s \in Senders : ReceivePartials(s) \/ ReceiveWatermark(s)
  \/ PollWatermark
  \/ \E restored \in BOOLEAN : CompleteCheckpoint(restored)

Spec == Init /\ [][Next]_vars

-----------------------------------------------------------------------------
(* Properties.                                                                *)

\* A window is emitted once, when it is closed, with every row that no
\* watermark had overtaken and with no row that the receiver had closed it
\* for: across buffers that fill, partials under way, watermarks that skip
\* windows, slices shared by windows that are partly closed, and restores. No
\* slice outlives its windows or is left without a timer, and no partial is
\* refused (buffered.rs, buffered/control.rs, shared_slices/{input,firing}.rs).
WindowsAreExact ==
  /\ \A p \in DOMAIN results :
       /\ results[p] # Twice /\ p[2] - 1 <= slices.clock
       /\ results[p] <= possible[p]
       /\ p \in DOMAIN onTime => onTime[p] <= results[p]
  /\ firing = MIN => \A p \in DOMAIN onTime : p[2] - 1 <= slices.clock => p \in DOMAIN results
  /\ firing = MIN => \A p \in DOMAIN slices.state :
       /\ LastWindowEnd(plan, p[2]) - 1 > slices.clock
       /\ \E t \in slices.timers : t.key = p[1] /\ t.time > slices.clock
                                   /\ t.end <= LastWindowEnd(plan, p[2])
  /\ failed => ~plan.attached /\ NoTime \in Times
=============================================================================
