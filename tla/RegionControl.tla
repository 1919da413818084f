---------------------------- MODULE RegionControl ----------------------------
(* Control events of one native region on the task thread: watermarks, idle   *)
(* status, end of input and the checkpoint barrier arrive at the region's     *)
(* inputs, walk the stage graph (NativeRegionControlTree), are collected into *)
(* native control invocations and forwarded behind their native output        *)
(* (NativeRegionControlScheduler, NativeSharedRegionOutputs).                 *)
(*                                                                            *)
(* The Java recursion over the graph is unfolded into a stack of frames, so   *)
(* that a failure of the native call or of a consumer can strike at every     *)
(* point at which the code calls out.                                         *)
EXTENDS Naturals, Sequences, FiniteSets, FiniteSetsExt, TLAPS

CONSTANTS
  Nodes,            \* plan node identities
  Inputs,           \* external input ports of the region
  Arity,            \* node -> number of input ports
  Entry,            \* input -> [node, port] it is bound to
  Parents,          \* node -> sequence of [node, port]
  Outputs,          \* nodes whose controls leave the region
  Unions, Windows,  \* nodes with a UNION valve / a restorable window clock
  Restored,         \* node -> clock restored for it (0: none)
  WatermarkStages, EndStages, CheckpointStages,  \* negotiated capabilities
  MaxWatermark, MaxFlips, MaxCheckpoints         \* bounds of the exploration

Ports(n) == 1..Arity[n]

TopologyAssumption ==
  /\ Cardinality(Inputs) \in Nat /\ Inputs = 1..Cardinality(Inputs)
  /\ \A n \in Nodes : Arity[n] \in Nat \ {0}
  /\ \A i \in Inputs : Entry[i].node \in Nodes /\ Entry[i].port \in Ports(Entry[i].node)
  /\ \A n \in Nodes :
       /\ Parents[n] \in Seq([node : Nodes, port : Nat])
       /\ \A k \in DOMAIN Parents[n] : Parents[n][k].port \in Ports(Parents[n][k].node)
  /\ MaxWatermark \in Nat /\ MaxCheckpoints \in Nat
  /\ Restored \in [Nodes -> 0..MaxWatermark]
  /\ \A n \in Nodes \ Windows : Restored[n] = 0
  /\ IsFiniteSet(Nodes) /\ Outputs # {} /\ Outputs \subseteq Nodes
  /\ WatermarkStages \cup EndStages \cup CheckpointStages \subseteq Nodes

VARIABLES
  node,     \* per node: input channels, emitted watermark, idleness (Flink helpers)
  last,     \* Node.lastWatermark
  ended,    \* Node.ended
  pending,  \* scheduler: stage -> control waiting for the next native invocation
  forwarding, \* scheduler: listener calls waiting for that invocation
  running, failed,
  calls,    \* frames of the recursion that are still to run
  wave,     \* NativeSharedRegionOutputs: per kind, the exits that have reported
  input,    \* what Flink delivered per input: watermark, idle, ended, behind
  flips,    \* number of status changes delivered
  arrival,  \* the arrival being dispatched
  emitted, native, told, \* this dispatch: tree events, native events, listener calls
  ends,     \* stage -> end-of-input events its native stage received
  flushed,  \* stage -> last checkpoint its native stage flushed for
  out       \* what left the region: watermark, idle, barrier

vars == <<node, last, ended, pending, forwarding, running, failed, calls, wave,
          input, flips, arrival, emitted, native, told, ends, flushed, out>>

tree == <<node, last, ended>>
history == <<emitted, native, told, ends, flushed>>

Watermark(n, t) == [kind |-> "watermark", node |-> n, value |-> t]
Status(n, idle) == [kind |-> "status", node |-> n, value |-> idle]
EndInput(n) == [kind |-> "end", node |-> n, value |-> 0]
BeforeCheckpoint(n, c) == [kind |-> "checkpoint", node |-> n, value |-> c]

Frame(op, n, p, v) == [op |-> op, node |-> n, port |-> p, value |-> v]
FlushFrame == Frame("flush", 0, 0, 0)
\* Fault: only the first consumer of a shared stage is told.
ToParents_First(op, n, v) ==
  [k \in DOMAIN Parents[n] \cap {1} |-> Frame(op, Parents[n][k].node, Parents[n][k].port, v)]

ToParents(op, n, v) ==
  [k \in DOMAIN Parents[n] |-> Frame(op, Parents[n][k].node, Parents[n][k].port, v)]

NoEvents == [n \in Nodes |-> <<>>]

Init ==
  /\ node = [n \in Nodes |->
       [ch |-> [p \in Ports(n) |-> [wm |-> 0, idle |-> FALSE, aligned |-> TRUE]],
        out |-> 0, idle |-> FALSE]]
  /\ last = Restored
  /\ ended = [n \in Nodes |-> [p \in Ports(n) |-> FALSE]]
  /\ pending = {} /\ forwarding = <<>> /\ running = FALSE /\ failed = "no"
  /\ calls = <<>> /\ wave = [watermark |-> {}, status |-> {}]
  /\ input = [i \in Inputs |->
       [wm |-> 0, idle |-> FALSE, ended |-> FALSE, behind |-> FALSE]]
  /\ flips = 0 /\ arrival = "none"
  /\ emitted = <<>> /\ native = NoEvents /\ told = <<>>
  /\ ends = [n \in Nodes |-> 0] /\ flushed = [n \in Nodes |-> 0]
  /\ out = [wm |-> 0, idle |-> FALSE, barrier |-> 0, finished |-> FALSE]

-----------------------------------------------------------------------------
(* Flink's watermark helpers. IndexedCombinedWatermarkStatus takes the least  *)
(* watermark of the active inputs, StatusWatermarkValve, behind a UNION, that *)
(* of the aligned channels; both advance to the greatest of all watermarks    *)
(* when everything has become idle.                                           *)

Active(ch) == {p \in DOMAIN ch : ~ch[p].idle}
Aligned(ch) == {p \in DOMAIN ch : ch[p].aligned}
Marks(ch) == {ch[p].wm : p \in DOMAIN ch}
LeastOf(ch, ports) == {t \in Marks(ch) :
  /\ \E p \in ports : t = ch[p].wm
  /\ \A p \in ports : t <= ch[p].wm}

\* The greatest of the marks, if it is ahead of the node.
Ahead(nd, marks) == {t \in marks : t > nd.out /\ \A s \in marks : s <= t}
Advance(nd, marks) ==
  IF Ahead(nd, marks) = {} THEN nd
  ELSE [nd EXCEPT !.out = CHOOSE t \in Ahead(nd, marks) : TRUE]

Combine(nd) ==
  LET idle == Active(nd.ch) = {}
  IN [Advance(nd, IF idle THEN Marks(nd.ch) ELSE LeastOf(nd.ch, Active(nd.ch)))
        EXCEPT !.idle = idle]

CombinedWatermark(nd, p, t) ==
  Combine([nd EXCEPT !.ch[p] = [nd.ch[p] EXCEPT !.idle = FALSE, !.wm = Max({@, t})]])
CombinedStatus(nd, p, idle) == Combine([nd EXCEPT !.ch[p] = [nd.ch[p] EXCEPT !.idle = idle]])

ValveWatermark(nd, p, t) ==
  IF nd.idle \/ nd.ch[p].idle \/ t <= nd.ch[p].wm THEN nd
  ELSE LET joined == [nd EXCEPT !.ch[p] = [nd.ch[p] EXCEPT !.wm = t, !.aligned = @ \/ t >= nd.out]]
       IN IF joined.ch[p].aligned
          THEN Advance(joined, LeastOf(joined.ch, Aligned(joined.ch))) ELSE joined

ValveIdle(nd, p) ==
  LET gone == [nd EXCEPT !.ch[p] = [nd.ch[p] EXCEPT !.idle = TRUE, !.aligned = FALSE]]
      held == nd.ch[p].wm = nd.out
  IN IF Active(gone.ch) = {}
     THEN [IF held THEN Advance(gone, Marks(gone.ch)) ELSE gone
             EXCEPT !.idle = TRUE]
     ELSE IF held THEN Advance(gone, LeastOf(gone.ch, Aligned(gone.ch))) ELSE gone

ValveStatus(nd, p, idle) ==
  CASE idle /\ ~nd.ch[p].idle -> ValveIdle(nd, p)
    [] ~idle /\ nd.ch[p].idle ->
         [nd EXCEPT !.ch[p] = [nd.ch[p] EXCEPT !.idle = FALSE, !.aligned = (nd.ch[p].wm >= nd.out)],
                    !.idle = FALSE]
    [] OTHER -> nd

-----------------------------------------------------------------------------
(* Dispatching an arrival.                                                    *)

Dispatch(kind, frames, controls) ==
  /\ ~running /\ failed = "no" /\ ~out.finished
  /\ running' = TRUE
  /\ arrival' = kind
  /\ calls' = Append(frames, FlushFrame)
  /\ pending' = controls
  /\ emitted' = <<>> /\ native' = NoEvents /\ told' = <<>>
  /\ UNCHANGED <<tree, forwarding, failed, wave, ends, flushed, out>>

Arrives(op, i, v) == <<Frame(op, Entry[i].node, Entry[i].port, v)>>

\* An active input delivers a greater watermark.
WatermarkArrives(i, t) ==
  /\ ~input[i].ended /\ ~input[i].idle /\ t > input[i].wm
  /\ Dispatch("watermark", Arrives("watermark", i, t), {})
  /\ input' = [input EXCEPT ![i].wm = t,
                 ![i].behind = @ /\ t < node[Entry[i].node].out]
  /\ UNCHANGED flips

\* An input becomes idle or active again.
StatusArrives(i) ==
  /\ ~input[i].ended /\ flips < MaxFlips
  /\ LET idle == ~input[i].idle IN
       /\ Dispatch("status", Arrives("status", i, idle), {})
       /\ input' = [input EXCEPT ![i].idle = idle,
                      ![i].behind = ~idle /\ input[i].wm < node[Entry[i].node].out]
  /\ flips' = flips + 1

\* Operator.endInput: once per port.
EndInputArrives(i) ==
  /\ ~input[i].ended
  /\ Dispatch("end", Arrives("end", i, 0), {})
  /\ input' = [input EXCEPT ![i].ended = TRUE]
  /\ UNCHANGED flips

\* prepareSnapshotPreBarrier: every stage that buffers rows flushes first.
BeforeCheckpointArrives ==
  /\ out.barrier < MaxCheckpoints
  /\ Dispatch("checkpoint", <<>>,
       {BeforeCheckpoint(n, out.barrier + 1) : n \in CheckpointStages})
  /\ UNCHANGED <<input, flips>>

\* Operator.finish: every input ends, those that ended already are ignored.
FinishArrives ==
  /\ Dispatch("finish", [i \in Inputs |-> Arrives("end", i, 0)[1]], {})
  /\ input' = [i \in Inputs |-> [input[i] EXCEPT !.ended = TRUE]]
  /\ UNCHANGED flips

-----------------------------------------------------------------------------
(* The frames of the tree.                                                    *)

Top(op) == running /\ calls # <<>> /\ Head(calls).op = op
Continue(frames) == calls' = frames \o Tail(calls)

environment == <<input, flips, arrival>>
scheduler == <<pending, forwarding, running, failed, wave, out>>

\* A put into the pending map replaces the stage's previous control.
Put(control) == {c \in pending : c.node # control.node} \cup {control}

\* Node.watermark
NodeWatermark ==
  /\ Top("watermark")
  /\ LET f == Head(calls)
         nd == node[f.node]
         new == IF f.node \in Unions THEN ValveWatermark(nd, f.port, f.value)
                                     ELSE CombinedWatermark(nd, f.port, f.value)
     IN /\ node' = [node EXCEPT ![f.node] = new]
        /\ Continue(IF new.out # nd.out
                    THEN <<Frame("emitWatermark", f.node, 0, new.out)>> ELSE <<>>)
  /\ UNCHANGED <<last, ended, scheduler, environment, history>>

\* Fault: idleness is announced before the watermark it releases.
NodeStatus_StatusFirst ==
  /\ Top("status")
  /\ LET f == Head(calls)
         nd == node[f.node]
         new == IF f.node \in Unions THEN ValveStatus(nd, f.port, f.value)
                                     ELSE CombinedStatus(nd, f.port, f.value)
     IN /\ node' = [node EXCEPT ![f.node] = new]
        /\ Continue((IF new.idle # nd.idle
                     THEN <<Frame("emitStatus", f.node, 0, f.value)>> ELSE <<>>)
                 \o (IF new.out # nd.out
                     THEN <<Frame("emitWatermark", f.node, 0, new.out)>> ELSE <<>>))
  /\ UNCHANGED <<last, ended, scheduler, environment, history>>

\* Node.status: first the watermark the change releases, then the idleness.
NodeStatus ==
  /\ Top("status")
  /\ LET f == Head(calls)
         nd == node[f.node]
         new == IF f.node \in Unions THEN ValveStatus(nd, f.port, f.value)
                                     ELSE CombinedStatus(nd, f.port, f.value)
     IN /\ node' = [node EXCEPT ![f.node] = new]
        /\ Continue((IF new.out # nd.out
                     THEN <<Frame("emitWatermark", f.node, 0, new.out)>> ELSE <<>>)
                 \o (IF new.idle # nd.idle
                     THEN <<Frame("emitStatus", f.node, 0, f.value)>> ELSE <<>>))
  /\ UNCHANGED <<last, ended, scheduler, environment, history>>

\* Node.endInput with the listener: once per port, passed on when all ports ended.
NodeEndInput ==
  /\ Top("end")
  /\ LET f == Head(calls)
         now == [ended[f.node] EXCEPT ![f.port] = TRUE]
         completes == ~ended[f.node][f.port] /\ \A p \in Ports(f.node) : now[p]
     IN /\ ended' = [ended EXCEPT ![f.node] = now]
        /\ Continue(IF completes THEN ToParents("end", f.node, 0) ELSE <<>>)
        /\ emitted' = IF completes THEN Append(emitted, EndInput(f.node)) ELSE emitted
        /\ forwarding' = IF completes THEN Append(forwarding, EndInput(f.node)) ELSE forwarding
        /\ pending' = IF completes /\ f.node \in EndStages THEN Put(EndInput(f.node)) ELSE pending
  /\ UNCHANGED <<node, last, running, failed, wave, out, environment, native, told, ends, flushed>>

Clock(n, t) == IF n \in Windows THEN Max({t, last[n]}) ELSE t

\* Fault: the listener never flushes in the middle of a walk.
MustFlush_Never(f) == FALSE

\* The listener flushes before it adds a status, and before a second control
\* for a stage that still has one pending.
MustFlush(f) ==
  IF f.op = "emitStatus" THEN pending # {} \/ forwarding # <<>>
  ELSE f.node \in WatermarkStages /\ \E c \in pending : c.node = f.node

\* Node.emitWatermark with the listener: a control is pending for the stage at
\* most once, the watermark is forwarded behind the native output it causes.
EmitWatermark ==
  /\ Top("emitWatermark")
  /\ LET n == Head(calls).node
         t == Clock(n, Head(calls).value)
     IN /\ ~MustFlush(Head(calls))
        /\ last' = [last EXCEPT ![n] = t]
        /\ pending' = IF n \in WatermarkStages THEN Put(Watermark(n, t)) ELSE pending
        /\ forwarding' = Append(forwarding, Watermark(n, t))
        /\ emitted' = Append(emitted, Watermark(n, t))
        /\ Continue(ToParents("watermark", n, t))
  /\ UNCHANGED <<node, ended, running, failed, wave, out, environment, native, told, ends, flushed>>

\* Node.emitStatus with the listener.
EmitStatus ==
  /\ Top("emitStatus")
  /\ LET f == Head(calls) IN
       /\ ~MustFlush(f)
       /\ forwarding' = Append(forwarding, Status(f.node, f.value))
       /\ emitted' = Append(emitted, Status(f.node, f.value))
       /\ Continue(ToParents("status", f.node, f.value))
  /\ UNCHANGED <<tree, pending, running, failed, wave, out, environment, native, told, ends, flushed>>

\* The flush in the middle of a walk; the walk resumes behind it.
FlushFirst ==
  /\ Top("emitWatermark") \/ Top("emitStatus")
  /\ MustFlush(Head(calls))
  /\ calls' = <<FlushFrame>> \o calls
  /\ UNCHANGED <<tree, scheduler, environment, history>>

-----------------------------------------------------------------------------
(* Flushing: one native invocation, then the listener calls in order.         *)

\* The control that waits for a stage: the pending map holds one at most.
Queued(n) ==
  LET waiting == {c \in pending : c.node = n}
  IN  IF waiting = {} THEN <<>> ELSE <<CHOOSE c \in waiting : TRUE>>

\* invocation.run with every pending control; the stages' output is drained.
FlushNative ==
  /\ Top("flush") /\ pending # {}
  /\ native' = [n \in Nodes |-> native[n] \o Queued(n)]
  /\ ends' = [n \in Nodes |-> IF EndInput(n) \in pending THEN ends[n] + 1 ELSE ends[n]]
  /\ flushed' = [n \in Nodes |->
       IF BeforeCheckpoint(n, out.barrier + 1) \in pending THEN out.barrier + 1 ELSE flushed[n]]
  /\ pending' = {}
  /\ UNCHANGED <<tree, forwarding, running, failed, wave, out, calls, environment, emitted, told>>

\* dispatch's handler: nothing that was waiting is delivered any more.
Abandon(reason) ==
  /\ failed' = reason /\ running' = FALSE
  /\ pending' = {} /\ forwarding' = <<>> /\ calls' = <<>>

NativeFails ==
  /\ Top("flush") /\ pending # {}
  /\ Abandon("native")
  /\ UNCHANGED <<tree, wave, out, environment, history>>

\* NativeSharedRegionOutputs.complete: an event leaves when every exit has it.
Wave(e) == wave[e.kind] \cup {<<e.node, e.value>>}
Leaves(e) == \A n \in Outputs : \E x \in Wave(e) : x[1] = n
Disagrees(e) ==
  \/ \E x \in wave[e.kind] : x[1] = e.node
  \/ Leaves(e) /\ \E x \in wave[e.kind] : x[2] # e.value

Emit(e) == IF e.kind = "watermark" THEN [out EXCEPT !.wm = e.value]
                                   ELSE [out EXCEPT !.idle = e.value]
External(e) == e.kind # "end" /\ e.node \in Outputs

\* The next listener call of the flush.
Forward ==
  /\ Top("flush") /\ pending = {} /\ forwarding # <<>>
  /\ LET e == Head(forwarding) IN
       /\ ~(External(e) /\ Disagrees(e))
       /\ told' = Append(told, e)
       /\ wave' = IF External(e)
                  THEN [wave EXCEPT ![e.kind] = IF Leaves(e) THEN {} ELSE Wave(e)] ELSE wave
       /\ out' = IF External(e) /\ Leaves(e) THEN Emit(e) ELSE out
  /\ forwarding' = Tail(forwarding)
  /\ UNCHANGED <<tree, pending, running, failed, calls, environment, emitted, native, ends, flushed>>

\* The exits of a shared region disagree, or a consumer of the output fails.
ForwardFails ==
  /\ Top("flush") /\ pending = {} /\ forwarding # <<>>
  /\ LET e == Head(forwarding) IN
       /\ External(e)
       /\ Abandon(IF Disagrees(e) THEN "diverged" ELSE "consumer")
  /\ UNCHANGED <<tree, wave, out, environment, history>>

FlushDone ==
  /\ Top("flush") /\ pending = {} /\ forwarding = <<>>
  /\ Continue(<<>>)
  /\ UNCHANGED <<tree, scheduler, environment, history>>

\* The dispatch returns; the operator forwards the barrier or finishes.
Return ==
  /\ running /\ calls = <<>>
  /\ running' = FALSE
  /\ out' = CASE arrival = "checkpoint" -> [out EXCEPT !.barrier = @ + 1]
              [] arrival = "finish" -> [out EXCEPT !.finished = TRUE]
              [] OTHER -> out
  /\ UNCHANGED <<tree, pending, forwarding, failed, calls, wave, environment, history>>

Step ==
  \/ NodeWatermark \/ NodeStatus \/ NodeEndInput
  \/ EmitWatermark \/ EmitStatus \/ FlushFirst
  \/ FlushNative \/ NativeFails \/ Forward \/ ForwardFails \/ FlushDone \/ Return

Next ==
  \/ \E i \in Inputs : \/ \E t \in 1..MaxWatermark : WatermarkArrives(i, t)
                       \/ StatusArrives(i) \/ EndInputArrives(i)
  \/ BeforeCheckpointArrives \/ FinishArrives
  \/ Step

Spec == Init /\ [][Next]_vars

-----------------------------------------------------------------------------
Timestamps == 0..MaxWatermark
Announced ==   \* what the tree emits and the listener is told
  [kind : {"watermark"}, node : Nodes, value : Timestamps]
    \cup [kind : {"status"}, node : Nodes, value : BOOLEAN]
    \cup [kind : {"end"}, node : Nodes, value : {0}]
Events == Announced \cup [kind : {"checkpoint"}, node : Nodes, value : 1..MaxCheckpoints]

\* The watermarks of the tree at a stage in this dispatch, and those among the
\* controls that the native stage has received or that are pending for it.
Sent(n) == {i \in DOMAIN emitted : emitted[i].kind = "watermark" /\ emitted[i].node = n}
Reached(n) == native[n] \o Queued(n)
Received(n) == {k \in DOMAIN Reached(n) : Reached(n)[k].kind = "watermark"}

\* Each of them once and in the order of the tree.
DeliveredOnce(n) ==
  \E at \in [Received(n) -> Sent(n)] :
    /\ \A i \in Sent(n) : \E k \in Received(n) : at[k] = i
    /\ \A k \in Received(n) : Reached(n)[k] = emitted[at[k]]
    /\ \A k, l \in Received(n) : k < l => at[k] < at[l]

\* Two ordered watermarks of a stage are never merged into one native event,
\* none is lost and none overtakes another: what the stage received and what is
\* pending for it is exactly what the tree emitted there in this dispatch.
WatermarksNotMerged ==
  failed = "no" => \A n \in WatermarkStages : DeliveredOnce(n)

\* The stage that has to be told of an event of the tree.
Concerns(e) == (e.kind = "watermark" /\ e.node \in WatermarkStages) \/ (e.kind = "end" /\ e.node \in EndStages)

\* A watermark, status or end is announced in the order of the tree, only behind
\* the native output it causes, and nothing is announced after a failure; and
\* until one, every event of the tree has reached its stage or is pending for it.
AnnouncedBehindNative ==
  /\ told = SubSeq(emitted, 1, Len(told))
  /\ \A i \in DOMAIN told : Concerns(told[i]) => told[i] \in Range(native[told[i].node])
  /\ failed = "no" => \A i \in DOMAIN emitted :
       Concerns(emitted[i]) => emitted[i] \in pending \cup Range(native[emitted[i].node])

\* Between dispatches the region is announced as idle exactly when every one
\* of its inputs is idle.
IdleAgrees ==
  ~running /\ failed = "no" => (out.idle <=> \A i \in Inputs : input[i].idle)

\* The inputs that reach a node through the graph.
Feeds[k \in Nat] ==
  [n \in Nodes |->
     {i \in Inputs : Entry[i].node = n}
       \cup (IF k = 0 THEN {}
             ELSE UNION {Feeds[k - 1][m] : m \in
               {x \in Nodes : \E e \in Range(Parents[x]) : e.node = n}})]
FedBy(n) == Feeds[Cardinality(Nodes)][n]

\* The native stage of a node is told of the end of its input once at most, not
\* before all its ports have ended, and by the end of the dispatch that ended them.
EndFollowsPorts ==
  \A n \in EndStages :
    LET all == \A p \in Ports(n) : ended[n][p]
    IN  /\ ends[n] <= 1
        /\ ends[n] = 1 => all
        /\ ~running /\ failed = "no" /\ all => ends[n] = 1

\* And that is when the last input that feeds the node has ended.
EndsOnce ==
  \A n \in EndStages :
    /\ ends[n] = 1 => \A i \in FedBy(n) : input[i].ended
    /\ ~running /\ failed = "no" /\ (\A i \in FedBy(n) : input[i].ended) => ends[n] = 1

\* A barrier leaves the region only after every stage that buffers rows has
\* flushed for that checkpoint.
BarrierBehindFlush == \A n \in CheckpointStages : flushed[n] >= out.barrier

\* What the native stages are told follows the control tree: every ordered
\* watermark of its own, the end of an input once, a flush before each barrier,
\* and nothing announced ahead of them; and idleness agrees with the inputs.
NativeFollowsTree ==
  /\ WatermarksNotMerged
  /\ AnnouncedBehindNative
  /\ IdleAgrees
  /\ EndFollowsPorts
  /\ EndsOnce
  /\ BarrierBehindFlush

\* Neither the region's output watermark nor the clock of a window stage ever
\* regresses, also when replay after a restore delivers older watermarks.
ClocksAdvance ==
  /\ out'.wm >= out.wm
  /\ \A n \in Windows \cap Nodes : last'[n] >= last[n]

\* The clocks advance, and no watermark leaves the region while it is announced
\* as idle.  A watermark that leaves does not overtake an active input: every
\* such input has reached it, unless the input came back from idleness behind the region's own progress or
\* a window stage restored a later clock.
OutputStep ==
  /\ ClocksAdvance
  /\ out.idle => out'.wm = out.wm
  /\ out'.wm # out.wm =>
       \A i \in Inputs : input[i].idle \/ input[i].behind
         \/ out'.wm <= Max({input[i].wm} \cup {Restored[n] : n \in Windows})

\* The exits of a shared region never disagree about a control event.
ExitsAgree == failed # "diverged"

-----------------------------------------------------------------------------
(* Proofs: for every graph of stages that satisfies TopologyAssumption.       *)

\* The frames of the recursion and the states of a node.
Frames ==
  [op : {"watermark", "emitWatermark", "end"}, node : Nodes, port : Nat, value : Timestamps]
    \cup [op : {"status", "emitStatus"}, node : Nodes, port : Nat, value : BOOLEAN]
    \cup {FlushFrame}

Channels == [wm : Timestamps, idle : BOOLEAN, aligned : BOOLEAN]

NodeStates(n) == [ch : [Ports(n) -> Channels], out : Timestamps, idle : BOOLEAN]

\* The frames and the pending controls of a dispatch are those of its arrival.
OpsOf(kind) ==
  CASE kind \in {"watermark", "status"} ->
         {"watermark", "status", "emitWatermark", "emitStatus", "flush"}
    [] kind \in {"end", "finish"} -> {"end", "flush"}
    [] OTHER -> {"flush"}
FramesOf(kind) ==
  {f \in Frames :
     /\ f.op \in OpsOf(kind)
     /\ f.op \in {"watermark", "status", "end"} => f.port \in Ports(f.node)}
ControlOf(kind) ==
  CASE kind \in {"watermark", "status"} -> "watermark"
    [] kind \in {"end", "finish"} -> "end"
    [] OTHER -> "checkpoint"

\* The type invariant, by the part of the state it is about.
TreeType ==
  /\ DOMAIN node = Nodes /\ \A n \in Nodes : node[n] \in NodeStates(n)
  /\ last \in [Nodes -> Timestamps]
  /\ DOMAIN ended = Nodes /\ \A n \in Nodes : ended[n] \in [Ports(n) -> BOOLEAN]

PendingType ==
  /\ pending \in SUBSET Events
  /\ \A c, d \in pending : c.node = d.node => c = d
  /\ \A c \in pending : c.kind = ControlOf(arrival)

CallsType == calls \in Seq(FramesOf(arrival))

LogType ==
  /\ forwarding \in Seq(Announced) /\ emitted \in Seq(Announced) /\ told \in Seq(Announced)
  /\ native \in [Nodes -> Seq(Events)]
  /\ ends \in [Nodes -> Nat] /\ flushed \in [Nodes -> 0..MaxCheckpoints]

OutType ==
  /\ wave \in [watermark : SUBSET (Outputs \X Timestamps), status : SUBSET (Outputs \X BOOLEAN)]
  /\ out \in [wm : Timestamps, idle : BOOLEAN, barrier : 0..MaxCheckpoints, finished : BOOLEAN]
  /\ running \in BOOLEAN /\ failed \in {"no", "native", "consumer", "diverged"}
  /\ arrival \in {"none", "watermark", "status", "end", "checkpoint", "finish"}
  /\ running /\ arrival = "checkpoint" => out.barrier < MaxCheckpoints

\* Whatever arrives: its frames, and the controls that are pending from the start.
Kinds == {"watermark", "status", "end", "checkpoint", "finish"}
Controls(kind) ==
  IF kind = "checkpoint" THEN {BeforeCheckpoint(n, out.barrier + 1) : n \in CheckpointStages} ELSE {}
Arrival ==
  \E kind \in Kinds : \E frames \in Seq(FramesOf(kind)) :
    /\ Dispatch(kind, frames, Controls(kind))
    /\ \A i \in DOMAIN frames : frames[i].op # "emitWatermark"
    /\ kind = "checkpoint" => out.barrier < MaxCheckpoints

TypeInv == TreeType /\ PendingType /\ CallsType /\ LogType /\ OutType

\* A dispatch ends with a flush that leaves nothing pending; a failure ends it.
StackInv ==
  /\ ~running \/ calls = <<>> => pending = {} /\ forwarding = <<>> /\ calls = <<>>
  /\ failed # "no" => ~running
  /\ calls # <<>> => calls[Len(calls)].op = "flush"

\* Until a failure, what the tree emitted was announced or waits to be.
AnnounceInv ==
  /\ AnnouncedBehindNative
  /\ failed = "no" => emitted = told \o forwarding

AllEnded(n) == \A p \in Ports(n) : ended[n][p]
\* The end of a node whose ports have all ended is pending or was delivered.
EndInv ==
  \A n \in EndStages :
    /\ ends[n] \in {0, 1} /\ (ends[n] = 1 => AllEnded(n))
    /\ EndInput(n) \in pending => AllEnded(n) /\ ends[n] = 0
    /\ failed = "no" /\ AllEnded(n) => ends[n] = 1 \/ EndInput(n) \in pending

\* While a checkpoint's dispatch runs, each stage's flush is pending or was done.
BarrierInv ==
  \A n \in CheckpointStages :
    /\ flushed[n] >= out.barrier
    /\ running /\ arrival = "checkpoint" =>
         BeforeCheckpoint(n, out.barrier + 1) \in pending \/ flushed[n] >= out.barrier + 1

-----------------------------------------------------------------------------
\* The greater of two naturals, and sequences.

\* A leaf is tried with SMT, with Zenon, and then with SMT for longer.
USE SMT, Zenon, SMTT(20), SMTT(40)

LEMMA Greater ==
  ASSUME NEW a \in Nat, NEW b \in Nat
  PROVE  Max({a, b}) \in {a, b} /\ a <= Max({a, b}) /\ b <= Max({a, b})
<1>1. PICK m \in {a, b} : \A y \in {a, b} : m >= y
  OBVIOUS
<1>2. Max({a, b}) \in {a, b} /\ \A y \in {a, b} : Max({a, b}) >= y
  BY <1>1 DEF Max
<1> QED
  BY <1>2

LEMMA SeqElement ==
  ASSUME NEW S, NEW s \in Seq(S), NEW k \in DOMAIN s
  PROVE  s[k] \in S /\ k \in 1..Len(s)
  OBVIOUS

LEMMA ShortSeqs ==
  ASSUME NEW S
  PROVE  <<>> \in Seq(S) /\ \A e \in S : <<e>> \in Seq(S)
  OBVIOUS

\* An element of a concatenation is an element of one of its parts.
LEMMA ConcatElements ==
  ASSUME NEW S, NEW a \in Seq(S), NEW b \in Seq(S)
  PROVE  /\ a \o b \in Seq(S) /\ Len(a \o b) = Len(a) + Len(b)
         /\ \A i \in DOMAIN (a \o b) :
              \/ i \in DOMAIN a /\ (a \o b)[i] = a[i]
              \/ /\ i > Len(a) /\ i - Len(a) \in DOMAIN b
                 /\ (a \o b)[i] = b[i - Len(a)]
  OBVIOUS

LEMMA TailElements ==
  ASSUME NEW S, NEW s \in Seq(S), s # <<>>
  PROVE  /\ Tail(s) \in Seq(S) /\ Len(Tail(s)) = Len(s) - 1
         /\ Head(s) = s[1] /\ 1 \in DOMAIN s
         /\ \A i \in DOMAIN Tail(s) : i + 1 \in DOMAIN s /\ Tail(s)[i] = s[i + 1]
  OBVIOUS

LEMMA AppendElements ==
  ASSUME NEW S, NEW s \in Seq(S), NEW e \in S
  PROVE  /\ Append(s, e) \in Seq(S) /\ Len(Append(s, e)) = Len(s) + 1
         /\ \A i \in DOMAIN s : i \in DOMAIN Append(s, e) /\ Append(s, e)[i] = s[i]
         /\ Append(s, e)[Len(s) + 1] = e
         /\ \A i \in DOMAIN Append(s, e) : i \in DOMAIN s \/ i = Len(s) + 1
  OBVIOUS

-----------------------------------------------------------------------------
\* Flink's helpers keep the type of a node and never lower its watermark.

LEMMA AdvanceRises ==
  ASSUME TopologyAssumption, NEW n \in Nodes, NEW nd \in NodeStates(n),
         NEW marks \in SUBSET Timestamps
  PROVE  /\ Advance(nd, marks) \in NodeStates(n)
         /\ Advance(nd, marks).out >= nd.out
         /\ Advance(nd, marks).ch = nd.ch
<1>1. nd.out \in Nat
  BY DEF NodeStates, Timestamps
<1>2. CASE Ahead(nd, marks) # {}
  <2>1. PICK t \in Ahead(nd, marks) : Advance(nd, marks) = [nd EXCEPT !.out = t]
    BY <1>2, Zenon DEF Advance
  <2>2. t \in Timestamps /\ t > nd.out
    BY <2>1 DEF Ahead
  <2> QED
    BY <1>1, <2>1, <2>2 DEF NodeStates, Timestamps
<1> QED
  BY <1>1, <1>2 DEF Advance

LEMMA MarksAreTimestamps ==
  ASSUME TopologyAssumption, NEW n \in Nodes, NEW nd \in NodeStates(n),
         NEW ports \in SUBSET Ports(n)
  PROVE  /\ Marks(nd.ch) \in SUBSET Timestamps
         /\ LeastOf(nd.ch, ports) \in SUBSET Timestamps
<1>1. \A p \in Ports(n) : nd.ch[p].wm \in Timestamps
  BY DEF NodeStates, Channels
<1>2. DOMAIN nd.ch = Ports(n)
  BY DEF NodeStates
<1> QED
  BY <1>1, <1>2 DEF Marks, LeastOf

\* A channel of a node changes.
LEMMA ChannelChanges ==
  ASSUME NEW n \in Nodes, NEW nd \in NodeStates(n), NEW p \in Ports(n),
         NEW c \in Channels
  PROVE  LET new == [nd EXCEPT !.ch[p] = c]
         IN  new \in NodeStates(n) /\ new.out = nd.out /\ new.ch[p] = c
  BY DEF NodeStates

\* IndexedCombinedWatermarkStatus.
LEMMA CombineRises ==
  ASSUME TopologyAssumption, NEW n \in Nodes, NEW nd \in NodeStates(n)
  PROVE  Combine(nd) \in NodeStates(n) /\ Combine(nd).out >= nd.out
<1> DEFINE idle == Active(nd.ch) = {}
           marks == IF idle THEN Marks(nd.ch) ELSE LeastOf(nd.ch, Active(nd.ch))
           new == Advance(nd, marks)
<1>1. Active(nd.ch) \in SUBSET Ports(n)
  BY DEF Active, NodeStates
<1>2. marks \in SUBSET Timestamps
  BY <1>1, MarksAreTimestamps
<1>3. new \in NodeStates(n) /\ new.out >= nd.out
  BY <1>2, AdvanceRises
<1>4. Combine(nd) = [new EXCEPT !.idle = idle]
  BY DEF Combine
<1>5. idle \in BOOLEAN
  OBVIOUS
<1> HIDE DEF idle, new
<1> QED
  BY <1>3, <1>4, <1>5 DEF NodeStates

LEMMA CombinedWatermarkRises ==
  ASSUME TopologyAssumption, NEW n \in Nodes, NEW nd \in NodeStates(n), NEW p \in Ports(n),
         NEW t \in Timestamps
  PROVE  CombinedWatermark(nd, p, t) \in NodeStates(n) /\ CombinedWatermark(nd, p, t).out >= nd.out
<1> DEFINE c == [nd.ch[p] EXCEPT !.idle = FALSE, !.wm = Max({@, t})]
           new == [nd EXCEPT !.ch[p] = c]
<1>1. nd.ch[p] \in Channels
  BY DEF NodeStates
<1>2. Max({nd.ch[p].wm, t}) \in Timestamps
  BY <1>1, Greater DEF Channels, Timestamps
<1>3. c \in Channels
  BY <1>1, <1>2, Zenon DEF Channels
<1> HIDE DEF c
<1>4. new \in NodeStates(n) /\ new.out = nd.out
  BY <1>3, ChannelChanges
<1>5. CombinedWatermark(nd, p, t) = Combine(new)
  BY DEF CombinedWatermark, c
<1> QED
  BY <1>4, <1>5, CombineRises, Zenon

LEMMA CombinedStatusRises ==
  ASSUME TopologyAssumption, NEW n \in Nodes, NEW nd \in NodeStates(n), NEW p \in Ports(n),
         NEW idle \in BOOLEAN
  PROVE  CombinedStatus(nd, p, idle) \in NodeStates(n) /\ CombinedStatus(nd, p, idle).out >= nd.out
<1> DEFINE c == [nd.ch[p] EXCEPT !.idle = idle]
           new == [nd EXCEPT !.ch[p] = c]
<1>1. c \in Channels
  BY DEF NodeStates, Channels
<1>2. new \in NodeStates(n) /\ new.out = nd.out
  BY <1>1, ChannelChanges
<1> QED
  BY <1>2, CombineRises, Zenon DEF CombinedStatus

\* StatusWatermarkValve.
LEMMA ValveWatermarkRises ==
  ASSUME TopologyAssumption, NEW n \in Nodes, NEW nd \in NodeStates(n), NEW p \in Ports(n),
         NEW t \in Timestamps
  PROVE  ValveWatermark(nd, p, t) \in NodeStates(n) /\ ValveWatermark(nd, p, t).out >= nd.out
<1> DEFINE c == [nd.ch[p] EXCEPT !.wm = t, !.aligned = @ \/ t >= nd.out]
           joined == [nd EXCEPT !.ch[p] = c]
           marks == LeastOf(joined.ch, Aligned(joined.ch))
<1>1. joined \in NodeStates(n) /\ joined.out = nd.out
  <2>1. nd.ch[p] \in Channels
    BY DEF NodeStates
  <2>2. c \in Channels
    BY <2>1, Zenon DEF Channels
  <2> QED
    BY <2>2, ChannelChanges
<1>2. Aligned(joined.ch) \in SUBSET Ports(n)
  BY <1>1 DEF Aligned, NodeStates
<1>3. marks \in SUBSET Timestamps
  BY <1>1, <1>2, MarksAreTimestamps, Zenon
<1>4. Advance(joined, marks) \in NodeStates(n) /\ Advance(joined, marks).out >= joined.out
  BY <1>1, <1>3, AdvanceRises, Zenon
<1>5. nd.out \in Nat
  BY DEF NodeStates, Timestamps
<1>6. \/ ValveWatermark(nd, p, t) = nd
      \/ ValveWatermark(nd, p, t) = joined
      \/ ValveWatermark(nd, p, t) = Advance(joined, marks)
  BY DEF ValveWatermark
<1> HIDE DEF joined, marks
<1> QED
  BY <1>1, <1>4, <1>5, <1>6

LEMMA ValveIdleRises ==
  ASSUME TopologyAssumption, NEW n \in Nodes, NEW nd \in NodeStates(n), NEW p \in Ports(n)
  PROVE  ValveIdle(nd, p) \in NodeStates(n) /\ ValveIdle(nd, p).out >= nd.out
<1> DEFINE c == [nd.ch[p] EXCEPT !.idle = TRUE, !.aligned = FALSE]
           gone == [nd EXCEPT !.ch[p] = c]
           held == nd.ch[p].wm = nd.out
           all == Advance(gone, Marks(gone.ch))
           some == Advance(gone, LeastOf(gone.ch, Aligned(gone.ch)))
           silent == IF held THEN all ELSE gone
<1>1. gone \in NodeStates(n) /\ gone.out = nd.out
  <2>1. nd.ch[p] \in Channels
    BY DEF NodeStates
  <2>2. c \in Channels
    BY <2>1, Zenon DEF Channels
  <2> QED
    BY <2>2, ChannelChanges
<1>2. Aligned(gone.ch) \in SUBSET Ports(n)
  BY <1>1 DEF Aligned, NodeStates
<1>3. Marks(gone.ch) \in SUBSET Timestamps /\ LeastOf(gone.ch, Aligned(gone.ch)) \in SUBSET Timestamps
  BY <1>1, <1>2, MarksAreTimestamps, Zenon
<1>4. all \in NodeStates(n) /\ all.out >= nd.out
  BY <1>1, <1>3, AdvanceRises, Zenon
<1>5. some \in NodeStates(n) /\ some.out >= nd.out
  BY <1>1, <1>3, AdvanceRises, Zenon
<1>6. nd.out \in Nat
  BY DEF NodeStates, Timestamps
<1>7. \/ ValveIdle(nd, p) = [silent EXCEPT !.idle = TRUE]
      \/ ValveIdle(nd, p) = some
      \/ ValveIdle(nd, p) = gone
  BY Zenon DEF ValveIdle
<1> HIDE DEF gone, held, all, some
<1>8. silent \in NodeStates(n) /\ silent.out >= nd.out
  BY <1>1, <1>4, <1>6
<1> HIDE DEF silent
<1>9. [silent EXCEPT !.idle = TRUE] \in NodeStates(n) /\ [silent EXCEPT !.idle = TRUE].out >= nd.out
  BY <1>8, Zenon DEF NodeStates
<1>10. gone.out >= nd.out
  BY <1>1, <1>6
<1> HIDE DEF silent
<1> QED
  BY <1>1, <1>5, <1>7, <1>9, <1>10, Zenon

LEMMA ValveStatusRises ==
  ASSUME TopologyAssumption, NEW n \in Nodes, NEW nd \in NodeStates(n), NEW p \in Ports(n),
         NEW idle \in BOOLEAN
  PROVE  ValveStatus(nd, p, idle) \in NodeStates(n) /\ ValveStatus(nd, p, idle).out >= nd.out
<1> DEFINE a == nd.ch[p].wm >= nd.out
           c == [nd.ch[p] EXCEPT !.idle = FALSE, !.aligned = a]
           woken == [nd EXCEPT !.ch[p] = c]
           back == [nd EXCEPT !.ch[p] = c, !.idle = FALSE]
<1>1. back \in NodeStates(n) /\ back.out = nd.out
  <2>1. nd.ch[p] \in Channels /\ a \in BOOLEAN
    BY DEF NodeStates
  <2> HIDE DEF a
  <2>2. c \in Channels
    BY <2>1, Zenon DEF Channels
  <2>3. woken \in NodeStates(n) /\ woken.out = nd.out
    BY <2>2, ChannelChanges
  <2>4. back = [woken EXCEPT !.idle = FALSE]
    BY DEF NodeStates
  <2> HIDE DEF woken, back
  <2> QED
    BY <2>3, <2>4, Zenon DEF NodeStates
<1>2. nd.out \in Nat
  BY DEF NodeStates, Timestamps
<1>3. \/ ValveStatus(nd, p, idle) = nd
      \/ ValveStatus(nd, p, idle) = ValveIdle(nd, p)
      \/ ValveStatus(nd, p, idle) = back
  BY DEF ValveStatus
<1> HIDE DEF back
<1> QED
  BY <1>1, <1>2, <1>3, ValveIdleRises

-----------------------------------------------------------------------------
\* The frames of the recursion.

LEMMA InputFrames ==
  ASSUME TopologyAssumption, NEW i \in Inputs, NEW kind \in Kinds,
         NEW op \in OpsOf(kind) \cap {"watermark", "status", "end"}, NEW v,
         op \in {"watermark", "end"} => v \in Timestamps, op = "status" => v \in BOOLEAN
  PROVE  Frame(op, Entry[i].node, Entry[i].port, v) \in FramesOf(kind)
<1>1. Entry[i].node \in Nodes /\ Entry[i].port \in Ports(Entry[i].node)
  BY DEF TopologyAssumption
<1>2. Entry[i].port \in Nat
  BY <1>1 DEF Ports, TopologyAssumption
<1> DEFINE f == Frame(op, Entry[i].node, Entry[i].port, v)
<1>3. f \in Frames
  BY <1>1, <1>2 DEF Frames, Frame
<1> QED
  BY <1>1, <1>3 DEF FramesOf, Frame

LEMMA ParentFrames ==
  ASSUME TopologyAssumption, NEW n \in Nodes, NEW kind,
         NEW op \in OpsOf(kind) \cap {"watermark", "status", "end"}, NEW v,
         op \in {"watermark", "end"} => v \in Timestamps, op = "status" => v \in BOOLEAN
  PROVE  /\ ToParents(op, n, v) \in Seq(FramesOf(kind))
         /\ \A k \in DOMAIN ToParents(op, n, v) : ToParents(op, n, v)[k].op = op
<1>1. Parents[n] \in Seq([node : Nodes, port : Nat])
  BY Zenon DEF TopologyAssumption
<1>2. ASSUME NEW k \in DOMAIN Parents[n]
      PROVE  Frame(op, Parents[n][k].node, Parents[n][k].port, v) \in FramesOf(kind)
  <2>1. Parents[n][k] \in [node : Nodes, port : Nat]
    BY <1>1, SeqElement, Zenon
  <2>2. Parents[n][k].port \in Ports(Parents[n][k].node)
    BY DEF TopologyAssumption
  <2> DEFINE f == Frame(op, Parents[n][k].node, Parents[n][k].port, v)
  <2>3. f \in Frames
    BY <2>1 DEF Frames, Frame
  <2> QED
    BY <2>2, <2>3 DEF FramesOf, Frame
<1>3. \A k \in DOMAIN Parents[n] : Frame(op, Parents[n][k].node, Parents[n][k].port, v).op = op
  BY DEF Frame
<1>4. DOMAIN Parents[n] = 1..Len(Parents[n]) /\ Len(Parents[n]) \in Nat
  BY <1>1
<1> QED
  BY <1>2, <1>3, <1>4 DEF ToParents

LEMMA FlushFrames ==
  ASSUME NEW kind
  PROVE  FlushFrame \in FramesOf(kind) /\ FlushFrame.op = "flush"
  BY DEF FlushFrame, Frame, FramesOf, Frames, OpsOf

\* An arrival is a dispatch with frames and controls of its kind.
LEMMA NextIs ==
  ASSUME TopologyAssumption, TypeInv, Next
  PROVE  Arrival \/ Step
<1>1. Timestamps = 0..MaxWatermark /\ MaxWatermark \in Nat
  BY DEF Timestamps, TopologyAssumption
<1>2. ASSUME NEW i \in Inputs, NEW t \in 1..MaxWatermark, WatermarkArrives(i, t)
      PROVE  Arrival
  <2> DEFINE f == Frame("watermark", Entry[i].node, Entry[i].port, t)
  <2>1. f \in FramesOf("watermark")
    BY <1>1, InputFrames DEF Kinds, OpsOf
  <2>2. Dispatch("watermark", <<f>>, Controls("watermark")) /\ f.op = "watermark"
    BY <1>2 DEF WatermarkArrives, Arrives, Frame, Controls
  <2>4. <<f>> \in Seq(FramesOf("watermark")) /\ DOMAIN <<f>> = {1} /\ <<f>>[1].op # "emitWatermark"
    BY <2>1, <2>2
  <2> HIDE DEF f
  <2>5. \A k \in DOMAIN <<f>> : <<f>>[k].op # "emitWatermark"
    BY <2>4
  <2> QED
    BY <2>2, <2>4, <2>5, Zenon DEF Arrival, Kinds
<1>3. ASSUME NEW i \in Inputs, StatusArrives(i)
      PROVE  Arrival
  <2> DEFINE idle == ~input[i].idle
             f == Frame("status", Entry[i].node, Entry[i].port, idle)
  <2>1. idle \in BOOLEAN
    OBVIOUS
  <2>2. f \in FramesOf("status")
    BY <2>1, InputFrames, Zenon DEF Kinds, OpsOf
  <2>3. Dispatch("status", <<f>>, Controls("status")) /\ f.op = "status"
    BY <1>3 DEF StatusArrives, Arrives, Frame, Controls
  <2>4. <<f>> \in Seq(FramesOf("status")) /\ DOMAIN <<f>> = {1} /\ <<f>>[1].op # "emitWatermark"
    BY <2>2, <2>3
  <2> HIDE DEF f
  <2>5. \A k \in DOMAIN <<f>> : <<f>>[k].op # "emitWatermark"
    BY <2>4
  <2> QED
    BY <2>3, <2>4, <2>5, Zenon DEF Arrival, Kinds
<1>4. ASSUME NEW i \in Inputs, EndInputArrives(i)
      PROVE  Arrival
  <2> DEFINE f == Frame("end", Entry[i].node, Entry[i].port, 0)
  <2>1. f \in FramesOf("end")
    BY <1>1, InputFrames DEF Kinds, OpsOf
  <2>2. Dispatch("end", <<f>>, Controls("end")) /\ f.op = "end"
    BY <1>4 DEF EndInputArrives, Arrives, Frame, Controls
  <2>4. <<f>> \in Seq(FramesOf("end")) /\ DOMAIN <<f>> = {1} /\ <<f>>[1].op # "emitWatermark"
    BY <2>1, <2>2
  <2> HIDE DEF f
  <2>5. \A k \in DOMAIN <<f>> : <<f>>[k].op # "emitWatermark"
    BY <2>4
  <2> QED
    BY <2>2, <2>4, <2>5, Zenon DEF Arrival, Kinds
<1>5. CASE BeforeCheckpointArrives
  <2>1. Dispatch("checkpoint", <<>>, Controls("checkpoint")) /\ out.barrier < MaxCheckpoints
    BY <1>5 DEF BeforeCheckpointArrives, Controls
  <2>2. <<>> \in Seq(FramesOf("checkpoint")) /\ DOMAIN <<>> = {}
    OBVIOUS
  <2> QED
    BY <2>1, <2>2, Zenon DEF Arrival, Kinds
<1>6. CASE FinishArrives
  <2> DEFINE frames == [i \in Inputs |-> Arrives("end", i, 0)[1]]
  <2>1. \A i \in Inputs : Arrives("end", i, 0)[1] = Frame("end", Entry[i].node, Entry[i].port, 0)
    BY DEF Arrives
  <2>2. \A i \in Inputs : Frame("end", Entry[i].node, Entry[i].port, 0) \in FramesOf("finish")
    BY <1>1, InputFrames DEF Kinds, OpsOf
  <2>3. PICK k \in Nat : Inputs = 1..k
    BY DEF TopologyAssumption
  <2>4. frames \in Seq(FramesOf("finish"))
    BY <2>1, <2>2, <2>3
  <2>5. \A i \in DOMAIN frames : frames[i].op = "end"
    <3>1. \A i \in Inputs : Frame("end", Entry[i].node, Entry[i].port, 0).op = "end"
      BY DEF Frame
    <3>2. DOMAIN frames = Inputs
      OBVIOUS
    <3>3. \A i \in Inputs : frames[i] = Arrives("end", i, 0)[1]
      OBVIOUS
    <3> HIDE DEF frames
    <3> QED
      BY <2>1, <3>1, <3>2, <3>3
  <2>6. Dispatch("finish", frames, Controls("finish"))
    BY <1>6 DEF FinishArrives, Controls
  <2> HIDE DEF frames
  <2> QED
    BY <2>4, <2>5, <2>6 DEF Arrival, Kinds
<1> QED
  BY <1>2, <1>3, <1>4, <1>5, <1>6 DEF Next

-----------------------------------------------------------------------------
\* Types.

LEMMA TopFrame ==
  ASSUME TypeInv, NEW op, Top(op)
  PROVE  /\ running /\ calls # <<>> /\ calls \in Seq(FramesOf(arrival))
         /\ Head(calls) \in FramesOf(arrival) /\ Head(calls) \in Frames
         /\ Head(calls).op = op /\ op \in OpsOf(arrival)
         /\ Tail(calls) \in Seq(FramesOf(arrival))
         /\ Head(calls) = calls[1] /\ 1 \in DOMAIN calls
  BY TailElements, SeqElement DEF TypeInv, CallsType, Top, FramesOf

\* What the frame of a node says.
LEMMA NodeFrame ==
  ASSUME TypeInv, NEW op \in {"watermark", "status", "end", "emitWatermark", "emitStatus"}, Top(op)
  PROVE  /\ Head(calls).node \in Nodes
         /\ op \in {"watermark", "emitWatermark", "end"} => Head(calls).value \in Timestamps
         /\ op \in {"status", "emitStatus"} => Head(calls).value \in BOOLEAN
         /\ op \in {"watermark", "status", "end"} => Head(calls).port \in Ports(Head(calls).node)
<1>1. Head(calls) \in FramesOf(arrival) /\ Head(calls) \in Frames /\ Head(calls).op = op
  BY TopFrame
<1>2. op # "flush" /\ FlushFrame.op = "flush"
  BY DEF FlushFrame, Frame
<1> QED
  BY <1>1, <1>2 DEF Frames, FramesOf

LEMMA TypeInit ==
  ASSUME TopologyAssumption, Init
  PROVE  TypeInv
<1> USE DEF Init
<1>1. 0 \in Timestamps /\ 0 \in 0..MaxCheckpoints
  BY DEF Timestamps, TopologyAssumption
<1>2. TreeType
  <2>1. ASSUME NEW n \in Nodes PROVE node[n] \in NodeStates(n)
    BY <1>1 DEF NodeStates, Channels
  <2>2. last \in [Nodes -> Timestamps]
    BY DEF TopologyAssumption, Timestamps
  <2> QED
    BY <2>1, <2>2 DEF TreeType
<1>3. PendingType
  BY DEF PendingType
<1>4. CallsType
  BY DEF CallsType
<1>5. LogType
  <2>1. <<>> \in Seq(Announced) /\ <<>> \in Seq(Events)
    OBVIOUS
  <2> QED
    BY <1>1, <2>1 DEF LogType, NoEvents
<1>6. OutType
  BY <1>1, Zenon DEF OutType
<1> QED
  BY <1>2, <1>3, <1>4, <1>5, <1>6 DEF TypeInv

\* Every handler keeps the type of the tree, and no node takes its watermark back.
LEMMA TreeTypeStep ==
  ASSUME TopologyAssumption, TypeInv, Next
  PROVE  TreeType' /\ (\A n \in Nodes : node'[n].out >= node[n].out)
<1>0. TreeType /\ (\A n \in Nodes : node[n].out \in Nat)
  BY DEF TypeInv, TreeType, NodeStates, Timestamps
<1>1. ASSUME UNCHANGED tree
      PROVE  TreeType' /\ (\A n \in Nodes : node'[n].out >= node[n].out)
  BY <1>0, <1>1 DEF tree, TreeType
<1>2. CASE NodeWatermark
  <2> DEFINE f == Head(calls)
             nd == node[f.node]
             new == IF f.node \in Unions THEN ValveWatermark(nd, f.port, f.value)
                                         ELSE CombinedWatermark(nd, f.port, f.value)
  <2>1. f.node \in Nodes /\ f.port \in Ports(f.node) /\ f.value \in Timestamps
    BY <1>2, NodeFrame, Zenon DEF NodeWatermark
  <2>2. nd \in NodeStates(f.node)
    BY <1>0, <2>1, Zenon DEF TreeType
  <2>3. new \in NodeStates(f.node) /\ new.out >= nd.out
    BY <2>1, <2>2, ValveWatermarkRises, CombinedWatermarkRises
  <2>4. node' = [node EXCEPT ![f.node] = new] /\ UNCHANGED <<last, ended>>
    BY <1>2, Zenon DEF NodeWatermark
  <2> HIDE DEF f, new
  <2> QED
    BY <1>0, <2>1, <2>3, <2>4 DEF TreeType
<1>3. CASE NodeStatus
  <2> DEFINE f == Head(calls)
             nd == node[f.node]
             new == IF f.node \in Unions THEN ValveStatus(nd, f.port, f.value)
                                         ELSE CombinedStatus(nd, f.port, f.value)
  <2>1. f.node \in Nodes /\ f.port \in Ports(f.node) /\ f.value \in BOOLEAN
    BY <1>3, NodeFrame, Zenon DEF NodeStatus
  <2>2. nd \in NodeStates(f.node)
    BY <1>0, <2>1 DEF TreeType
  <2>3. new \in NodeStates(f.node) /\ new.out >= nd.out
    BY <2>1, <2>2, ValveStatusRises, CombinedStatusRises
  <2>4. node' = [node EXCEPT ![f.node] = new] /\ UNCHANGED <<last, ended>>
    BY <1>3, Zenon DEF NodeStatus
  <2> HIDE DEF f, new
  <2> QED
    BY <1>0, <2>1, <2>3, <2>4 DEF TreeType
<1>4. CASE NodeEndInput
  <2> DEFINE f == Head(calls)
             now == [ended[f.node] EXCEPT ![f.port] = TRUE]
  <2>1. f.node \in Nodes /\ f.port \in Ports(f.node)
    BY <1>4, NodeFrame, Zenon DEF NodeEndInput
  <2>2. now \in [Ports(f.node) -> BOOLEAN]
    BY <1>0, <2>1 DEF TreeType
  <2>3. ended' = [ended EXCEPT ![f.node] = now] /\ UNCHANGED <<node, last>>
    BY <1>4, Zenon DEF NodeEndInput
  <2> HIDE DEF f, now
  <2> QED
    BY <1>0, <2>1, <2>2, <2>3 DEF TreeType
<1>5. CASE EmitWatermark
  <2> DEFINE n == Head(calls).node
             t == Clock(n, Head(calls).value)
  <2>1. n \in Nodes /\ Head(calls).value \in Timestamps
    BY <1>5, NodeFrame DEF EmitWatermark
  <2>2. last[n] \in Timestamps
    BY <1>0, <2>1 DEF TreeType
  <2>3. t \in Timestamps
    BY <2>1, <2>2, Greater DEF Clock, Timestamps
  <2>4. last' = [last EXCEPT ![n] = t] /\ UNCHANGED <<node, ended>>
    BY <1>5 DEF EmitWatermark
  <2> HIDE DEF n, t
  <2> QED
    BY <1>0, <2>1, <2>3, <2>4 DEF TreeType
<1>6. CASE Arrival
  BY <1>1, <1>6 DEF Arrival, Dispatch
<1>7. CASE EmitStatus \/ FlushFirst \/ FlushNative \/ NativeFails \/ Forward \/ ForwardFails
             \/ FlushDone \/ Return
  <2>1. UNCHANGED tree
    BY <1>7 DEF EmitStatus, FlushFirst, FlushNative, NativeFails, Forward, ForwardFails, FlushDone, Return
  <2> QED
    BY <1>1, <2>1
<1> QED
  BY NextIs, <1>2, <1>3, <1>4, <1>5, <1>6, <1>7 DEF Step

LEMMA EventTypes ==
  ASSUME NEW n \in Nodes
  PROVE  /\ \A t \in Timestamps : Watermark(n, t) \in Announced
         /\ \A b \in BOOLEAN : Status(n, b) \in Announced
         /\ EndInput(n) \in Announced
         /\ \A c \in 1..MaxCheckpoints : BeforeCheckpoint(n, c) \in Events
         /\ Announced \subseteq Events
  BY DEF Watermark, Status, EndInput, BeforeCheckpoint, Announced, Events

LEMMA PutType ==
  ASSUME PendingType, NEW c \in Events, c.kind = ControlOf(arrival)
  PROVE  /\ Put(c) \in SUBSET Events
         /\ \A x, y \in Put(c) : x.node = y.node => x = y
         /\ \A x \in Put(c) : x.kind = ControlOf(arrival)
  BY DEF PendingType, Put

\* The events of the frames in work.
LEMMA EmittedEvents ==
  ASSUME TopologyAssumption, TypeInv
  PROVE  /\ Top("end") => EndInput(Head(calls).node) \in Announced
         /\ Top("emitStatus") => Status(Head(calls).node, Head(calls).value) \in Announced
         /\ Top("emitWatermark") =>
              /\ Clock(Head(calls).node, Head(calls).value) \in Timestamps
              /\ Watermark(Head(calls).node, Clock(Head(calls).node, Head(calls).value)) \in Announced
<1>1. Top("end") => EndInput(Head(calls).node) \in Announced
  BY NodeFrame, EventTypes
<1>2. Top("emitStatus") => Status(Head(calls).node, Head(calls).value) \in Announced
  BY NodeFrame, EventTypes
<1>3. ASSUME Top("emitWatermark")
      PROVE  Clock(Head(calls).node, Head(calls).value) \in Timestamps
  <2> DEFINE n == Head(calls).node
  <2>1. n \in Nodes /\ Head(calls).value \in Timestamps
    BY <1>3, NodeFrame
  <2>2. last[n] \in Timestamps
    BY <2>1 DEF TypeInv, TreeType
  <2> HIDE DEF n
  <2>3. Clock(n, Head(calls).value) \in Timestamps
    BY <2>1, <2>2, Greater DEF Clock, Timestamps
  <2> QED
    BY <2>3 DEF n
<1> QED
  BY <1>1, <1>2, <1>3, NodeFrame, EventTypes

LEMMA ControlsType ==
  ASSUME TopologyAssumption, TypeInv, NEW kind \in Kinds, kind = "checkpoint" => out.barrier < MaxCheckpoints
  PROVE  /\ Controls(kind) \in SUBSET Events
         /\ \A c, d \in Controls(kind) : c.node = d.node => c = d
         /\ \A c \in Controls(kind) : c.kind = ControlOf(kind)
<1>1. CASE kind = "checkpoint"
  <2>1. out.barrier + 1 \in 1..MaxCheckpoints
    BY <1>1 DEF TypeInv, OutType, TopologyAssumption
  <2>2. CheckpointStages \subseteq Nodes
    BY DEF TopologyAssumption
  <2>3. \A n \in CheckpointStages : BeforeCheckpoint(n, out.barrier + 1) \in Events
    BY <2>1, <2>2, EventTypes
  <2>4. Controls(kind) = {BeforeCheckpoint(n, out.barrier + 1) : n \in CheckpointStages}
    BY <1>1 DEF Controls
  <2>5. ControlOf(kind) = "checkpoint"
    BY <1>1 DEF ControlOf
  <2> QED
    BY <2>3, <2>4, <2>5 DEF BeforeCheckpoint
<1>2. CASE kind # "checkpoint"
  BY <1>2 DEF Controls
<1> QED
  BY <1>1, <1>2

\* The pending map holds one control for a stage, of the kind of the dispatch.
LEMMA PendingTypeStep ==
  ASSUME TopologyAssumption, TypeInv, Next
  PROVE  PendingType'
<1>0. PendingType
  BY DEF TypeInv
<1>1. ASSUME UNCHANGED <<pending, arrival>> PROVE PendingType'
  BY <1>0, <1>1 DEF PendingType, ControlOf
<1>2. ASSUME pending' = {} PROVE PendingType'
  BY <1>2 DEF PendingType
<1>3. CASE Arrival
  <2>1. PICK kind \in Kinds : /\ pending' = Controls(kind) /\ arrival' = kind
                              /\ kind = "checkpoint" => out.barrier < MaxCheckpoints
    BY <1>3 DEF Arrival, Dispatch
  <2> QED
    BY <2>1, ControlsType DEF PendingType, ControlOf
<1>4. CASE NodeEndInput
  <2>1. Top("end") /\ arrival' = arrival /\ (pending' = pending \/ pending' = Put(EndInput(Head(calls).node)))
    BY <1>4, Zenon DEF NodeEndInput, environment
  <2>2. EndInput(Head(calls).node) \in Events
    BY <2>1, EmittedEvents DEF Events
  <2>3. ControlOf(arrival) = "end"
    BY <2>1, TopFrame DEF OpsOf, ControlOf
  <2>4. EndInput(Head(calls).node).kind = "end"
    BY DEF EndInput
  <2>5. PendingType' \/ pending' = Put(EndInput(Head(calls).node))
    BY <1>1, <2>1
  <2> QED
    BY <1>0, <2>1, <2>2, <2>3, <2>4, <2>5, PutType DEF PendingType, ControlOf
<1>5. CASE EmitWatermark
  <2> DEFINE e == Watermark(Head(calls).node, Clock(Head(calls).node, Head(calls).value))
  <2>1. Top("emitWatermark") /\ arrival' = arrival /\ (pending' = pending \/ pending' = Put(e))
    BY <1>5, Zenon DEF EmitWatermark, environment
  <2>2. e \in Events
    BY <2>1, EmittedEvents DEF Events
  <2>3. ControlOf(arrival) = "watermark"
    BY <2>1, TopFrame DEF OpsOf, ControlOf
  <2>4. e.kind = "watermark"
    BY DEF Watermark
  <2> HIDE DEF e
  <2>5. PendingType' \/ pending' = Put(e)
    BY <1>1, <2>1
  <2> QED
    BY <1>0, <2>1, <2>2, <2>3, <2>4, <2>5, PutType, Zenon DEF PendingType, ControlOf
<1>6. CASE FlushNative \/ NativeFails \/ ForwardFails
  BY <1>2, <1>6 DEF FlushNative, NativeFails, ForwardFails, Abandon
<1>7. CASE NodeWatermark \/ NodeStatus \/ EmitStatus \/ FlushFirst \/ Forward \/ FlushDone \/ Return
  <2>1. UNCHANGED <<pending, arrival>>
    BY <1>7, Zenon DEF NodeWatermark, NodeStatus, EmitStatus, FlushFirst, Forward, FlushDone, Return,
                scheduler, environment
  <2> QED
    BY <1>1, <2>1
<1> QED
  BY NextIs, <1>3, <1>4, <1>5, <1>6, <1>7 DEF Step

\* The frames an action of the tree puts in the place of its own.
LEMMA TreeFrames ==
  ASSUME TopologyAssumption, TypeInv, Next,
         NodeWatermark \/ NodeStatus \/ NodeEndInput \/ EmitWatermark \/ EmitStatus
  PROVE  \E op \in {"watermark", "status", "end", "emitWatermark", "emitStatus"} :
         \E frames \in Seq(FramesOf(arrival)) :
           /\ Top(op) /\ calls' = frames \o Tail(calls) /\ arrival' = arrival
           /\ \A i \in DOMAIN frames : frames[i].op = "emitWatermark" =>
                /\ i = 1 /\ op \in {"watermark", "status"}
                /\ frames[i].node \in Nodes /\ frames[i].value = node'[frames[i].node].out
<1> DEFINE f == Head(calls)
           Emits(n) == Frame("emitWatermark", n, 0, node'[n].out)
<1>1. /\ "emitWatermark" \in OpsOf(arrival) =>
           \A n \in Nodes, t \in Timestamps : Frame("emitWatermark", n, 0, t) \in FramesOf(arrival)
      /\ "emitStatus" \in OpsOf(arrival) =>
           \A n \in Nodes, b \in BOOLEAN : Frame("emitStatus", n, 0, b) \in FramesOf(arrival)
  BY DEF FramesOf, Frames, Frame
<1>2. ASSUME NEW n \in Nodes, "emitWatermark" \in OpsOf(arrival)
      PROVE  /\ Emits(n) \in FramesOf(arrival) /\ Emits(n).node = n
             /\ Emits(n).op = "emitWatermark" /\ Emits(n).value = node'[n].out
  <2>1. node'[n].out \in Timestamps
    BY TreeTypeStep DEF TreeType, NodeStates
  <2> QED
    BY <1>1, <1>2, <2>1 DEF Frame
<1>3. CASE NodeWatermark
  <2>1. Top("watermark") /\ arrival' = arrival
    BY <1>3, Zenon DEF NodeWatermark, environment
  <2>2. f.node \in Nodes /\ "emitWatermark" \in OpsOf(arrival)
    BY <2>1, NodeFrame, TopFrame DEF OpsOf
  <2>3. PICK frames : calls' = frames \o Tail(calls) /\ (frames = <<>> \/ frames = <<Emits(f.node)>>)
    <3>1. f.node \in DOMAIN node
      BY <2>2, Zenon DEF TypeInv, TreeType
    <3> QED
      BY <1>3, <3>1, Zenon DEF NodeWatermark, Continue
  <2>4. Emits(f.node) \in FramesOf(arrival) /\ Emits(f.node).node = f.node
        /\ Emits(f.node).value = node'[f.node].out
    BY <1>2, <2>2
  <2> HIDE DEF f, Emits
  <2>5. frames \in Seq(FramesOf(arrival))
    BY <2>3, <2>4, ShortSeqs, Zenon
  <2>6. \A i \in DOMAIN frames : i = 1 /\ frames[i] = Emits(f.node)
    BY <2>3
  <2> QED
    <3>1. \A i \in DOMAIN frames :
             i = 1 /\ frames[i].node \in Nodes /\ frames[i].value = node'[frames[i].node].out
      BY <2>2, <2>4, <2>6, Zenon
    <3> QED
      BY <2>1, <2>3, <2>5, <3>1, Zenon
<1>4. CASE NodeStatus
  <2> DEFINE g == Frame("emitStatus", f.node, 0, f.value)
  <2>1. Top("status") /\ arrival' = arrival
    BY <1>4, Zenon DEF NodeStatus, environment
  <2>2. f.node \in Nodes /\ f.value \in BOOLEAN /\ {"emitWatermark", "emitStatus"} \subseteq OpsOf(arrival)
    BY <2>1, NodeFrame, TopFrame DEF OpsOf
  <2>3. PICK a, b : /\ calls' = (a \o b) \o Tail(calls)
                    /\ a = <<>> \/ a = <<Emits(f.node)>>
                    /\ b = <<>> \/ b = <<g>>
    <3>1. f.node \in DOMAIN node
      BY <2>2 DEF TypeInv, TreeType
    <3> QED
      BY <1>4, <3>1, Zenon DEF NodeStatus, Continue
  <2>4. Emits(f.node) \in FramesOf(arrival) /\ Emits(f.node).node = f.node
        /\ Emits(f.node).value = node'[f.node].out
    BY <1>2, <2>2, Zenon
  <2>5. g \in FramesOf(arrival) /\ g.op = "emitStatus"
    BY <1>1, <2>2 DEF Frame
  <2> HIDE DEF f, g, Emits
  <2>6. a \in Seq(FramesOf(arrival)) /\ b \in Seq(FramesOf(arrival))
    BY <2>3, <2>4, <2>5, ShortSeqs, Zenon
  <2>7. a \o b \in Seq(FramesOf(arrival))
    BY <2>6, ConcatElements
  <2>8. \A i \in DOMAIN a : i = 1 /\ a[i] = Emits(f.node)
    BY <2>3
  <2>9. \A i \in DOMAIN b : b[i].op = "emitStatus"
    BY <2>3, <2>5
  <2>10. \A i \in DOMAIN (a \o b) : (a \o b)[i].op = "emitWatermark" => i = 1 /\ (a \o b)[i] = Emits(f.node)
    BY <2>6, <2>8, <2>9, ConcatElements
  <2> QED
    <3>1. \A i \in DOMAIN (a \o b) : (a \o b)[i].op = "emitWatermark" =>
             i = 1 /\ (a \o b)[i].node \in Nodes /\ (a \o b)[i].value = node'[(a \o b)[i].node].out
      BY <2>2, <2>4, <2>10, Zenon
    <3> QED
      BY <2>1, <2>3, <2>7, <3>1, Zenon
<1>5. CASE NodeEndInput
  <2>1. Top("end") /\ arrival' = arrival
    BY <1>5, Zenon DEF NodeEndInput, environment
  <2>2. f.node \in Nodes /\ "end" \in OpsOf(arrival) /\ 0 \in Timestamps
    <3>1. 0 \in Timestamps
      BY DEF Timestamps, TopologyAssumption
    <3>2. "end" \in OpsOf(arrival)
      BY <2>1, TopFrame, Zenon
    <3> QED
      BY <2>1, <3>1, <3>2, NodeFrame, Zenon
  <2>3. PICK frames : calls' = frames \o Tail(calls) /\ (frames = <<>> \/ frames = ToParents("end", f.node, 0))
    BY <1>5, Zenon DEF NodeEndInput, Continue
  <2>4. /\ ToParents("end", f.node, 0) \in Seq(FramesOf(arrival))
        /\ \A k \in DOMAIN ToParents("end", f.node, 0) : ToParents("end", f.node, 0)[k].op = "end"
    BY <2>2, ParentFrames
  <2>5. frames \in Seq(FramesOf(arrival)) /\ \A i \in DOMAIN frames : frames[i].op # "emitWatermark"
    <3>1. CASE frames = <<>>
      BY <3>1, ShortSeqs
    <3>2. CASE frames = ToParents("end", f.node, 0)
      BY <2>4, <3>2
    <3> QED
      BY <2>3, <3>1, <3>2, Zenon
  <2> QED
    BY <2>1, <2>3, <2>5, Zenon
<1>6. CASE EmitWatermark
  <2>1. Top("emitWatermark") /\ arrival' = arrival
    BY <1>6, Zenon DEF EmitWatermark, environment
  <2>2. f.node \in Nodes /\ "watermark" \in OpsOf(arrival)
    BY <2>1, NodeFrame, TopFrame DEF OpsOf
  <2>3. PICK t \in Timestamps : calls' = ToParents("watermark", f.node, t) \o Tail(calls)
    BY <1>6, <2>1, EmittedEvents, Zenon DEF EmitWatermark, Continue
  <2>4. /\ ToParents("watermark", f.node, t) \in Seq(FramesOf(arrival))
        /\ \A k \in DOMAIN ToParents("watermark", f.node, t) :
             ToParents("watermark", f.node, t)[k].op = "watermark"
    BY <2>2, ParentFrames
  <2> QED
    BY <2>1, <2>3, <2>4, Zenon
<1>7. CASE EmitStatus
  <2>1. Top("emitStatus") /\ arrival' = arrival
    BY <1>7 DEF EmitStatus, environment
  <2>2. f.node \in Nodes /\ "status" \in OpsOf(arrival) /\ f.value \in BOOLEAN
    BY <2>1, NodeFrame, TopFrame DEF OpsOf
  <2>3. calls' = ToParents("status", f.node, f.value) \o Tail(calls)
    BY <1>7 DEF EmitStatus, Continue
  <2>4. /\ ToParents("status", f.node, f.value) \in Seq(FramesOf(arrival))
        /\ \A k \in DOMAIN ToParents("status", f.node, f.value) :
             ToParents("status", f.node, f.value)[k].op = "status"
    BY <2>2, ParentFrames
  <2> QED
    BY <2>1, <2>3, <2>4, Zenon
<1> QED
  BY <1>3, <1>4, <1>5, <1>6, <1>7, Zenon

LEMMA CallsTypeStep ==
  ASSUME TopologyAssumption, TypeInv, Next
  PROVE  CallsType'
<1>0. CallsType /\ calls \in Seq(FramesOf(arrival))
  BY DEF TypeInv, CallsType
<1>1. ASSUME UNCHANGED <<calls, arrival>> PROVE CallsType'
  BY <1>0, <1>1 DEF CallsType
<1>2. ASSUME calls' = <<>> PROVE CallsType'
  BY <1>2 DEF CallsType
<1>3. ASSUME NEW op, Top(op), arrival' = arrival,
             NEW frames \in Seq(FramesOf(arrival)), calls' = frames \o Tail(calls)
      PROVE  CallsType'
  <2>1. Tail(calls) \in Seq(FramesOf(arrival))
    BY <1>3, TopFrame
  <2>2. frames \o Tail(calls) \in Seq(FramesOf(arrival))
    BY <2>1, ConcatElements
  <2> QED
    BY <1>3, <2>2 DEF CallsType
<1>4. CASE Arrival
  <2>1. PICK kind \in Kinds : \E frames \in Seq(FramesOf(kind)) :
          calls' = Append(frames, FlushFrame) /\ arrival' = kind
    BY <1>4 DEF Arrival, Dispatch
  <2>2. PICK frames \in Seq(FramesOf(kind)) : calls' = Append(frames, FlushFrame)
    BY <2>1
  <2>3. Append(frames, FlushFrame) \in Seq(FramesOf(kind))
    BY FlushFrames, AppendElements
  <2> QED
    BY <2>1, <2>2, <2>3 DEF CallsType
<1>5. CASE NodeWatermark \/ NodeStatus \/ NodeEndInput \/ EmitWatermark \/ EmitStatus
  BY <1>3, <1>5, TreeFrames
<1>6. CASE FlushFirst
  <2>1. calls' = <<FlushFrame>> \o calls /\ arrival' = arrival
    BY <1>6 DEF FlushFirst, environment
  <2>2. <<FlushFrame>> \in Seq(FramesOf(arrival))
    BY FlushFrames
  <2>3. <<FlushFrame>> \o calls \in Seq(FramesOf(arrival))
    BY <1>0, <2>2, ConcatElements
  <2> QED
    BY <2>1, <2>3 DEF CallsType
<1>7. CASE FlushDone
  <2>1. Top("flush") /\ arrival' = arrival /\ calls' = <<>> \o Tail(calls)
    BY <1>7 DEF FlushDone, Continue, environment
  <2> QED
    BY <1>3, <2>1, ShortSeqs, Zenon
<1>8. CASE NativeFails \/ ForwardFails
  BY <1>2, <1>8 DEF NativeFails, ForwardFails, Abandon
<1>9. CASE FlushNative \/ Forward \/ Return
  <2>1. UNCHANGED <<calls, arrival>>
    BY <1>9 DEF FlushNative, Forward, Return, environment
  <2> QED
    BY <1>1, <2>1
<1> QED
  BY NextIs, <1>4, <1>5, <1>6, <1>7, <1>8, <1>9 DEF Step

\* The pending map holds at most one control for a stage.
LEMMA QueuedControl ==
  ASSUME PendingType, NEW n \in Nodes
  PROVE  /\ Queued(n) \in Seq(Events)
         /\ \A c \in pending : c.node = n => Queued(n) = <<c>>
         /\ (\A c \in pending : c.node # n) => Queued(n) = <<>>
<1>1. CASE \A c \in pending : c.node # n
  <2>1. Queued(n) = <<>>
    BY <1>1 DEF Queued
  <2> QED
    BY <1>1, <2>1, ShortSeqs
<1>2. ASSUME NEW c \in pending, c.node = n
      PROVE  Queued(n) = <<c>>
  <2>1. {d \in pending : d.node = n} = {c}
    BY <1>2 DEF PendingType
  <2>2. (CHOOSE d \in {c} : TRUE) = c
    OBVIOUS
  <2> QED
    BY <2>1, <2>2 DEF Queued
<1>3. ASSUME NEW c \in pending, c.node = n
      PROVE  Queued(n) \in Seq(Events)
  <2>1. Queued(n) = <<c>> /\ c \in Events
    BY <1>2, <1>3 DEF PendingType
  <2> QED
    BY <2>1, ShortSeqs
<1> QED
  BY <1>1, <1>2, <1>3

LEMMA LogTypeStep ==
  ASSUME TopologyAssumption, TypeInv, Next
  PROVE  LogType'
<1>0. LogType
  BY DEF TypeInv
<1>1. ASSUME UNCHANGED <<forwarding, history>> PROVE LogType'
  BY <1>0, <1>1 DEF history, LogType
<1>2. ASSUME NEW e \in Announced, emitted' = Append(emitted, e), forwarding' = Append(forwarding, e),
             UNCHANGED <<native, told, ends, flushed>>
      PROVE  LogType'
  BY <1>0, <1>2, AppendElements DEF LogType
<1>3. ASSUME forwarding' = <<>>, UNCHANGED history PROVE LogType'
  BY <1>0, <1>3, ShortSeqs DEF history, LogType
<1>4. CASE Arrival
  <2>1. /\ emitted' = <<>> /\ told' = <<>> /\ native' = NoEvents
        /\ UNCHANGED <<forwarding, ends, flushed>>
    BY <1>4 DEF Arrival, Dispatch
  <2>2. <<>> \in Seq(Announced) /\ <<>> \in Seq(Events)
    BY ShortSeqs
  <2> QED
    BY <1>0, <2>1, <2>2 DEF LogType, NoEvents
<1>5. CASE NodeEndInput
  <2> DEFINE e == EndInput(Head(calls).node)
  <2>1. Top("end") /\ UNCHANGED <<native, told, ends, flushed>>
    BY <1>5, Zenon DEF NodeEndInput
  <2>2. \/ UNCHANGED <<emitted, forwarding>>
        \/ emitted' = Append(emitted, e) /\ forwarding' = Append(forwarding, e)
    BY <1>5, Zenon DEF NodeEndInput
  <2>3. e \in Announced
    BY <2>1, EmittedEvents
  <2>4. UNCHANGED <<emitted, forwarding>> => UNCHANGED <<forwarding, history>>
    BY <2>1 DEF history
  <2> HIDE DEF e
  <2> QED
    BY <1>1, <1>2, <2>1, <2>2, <2>3, <2>4
<1>6. CASE EmitWatermark
  <2> DEFINE e == Watermark(Head(calls).node, Clock(Head(calls).node, Head(calls).value))
  <2>1. /\ Top("emitWatermark") /\ UNCHANGED <<native, told, ends, flushed>>
        /\ emitted' = Append(emitted, e) /\ forwarding' = Append(forwarding, e)
    BY <1>6, Zenon DEF EmitWatermark
  <2>2. e \in Announced
    BY <2>1, EmittedEvents
  <2> HIDE DEF e
  <2> QED
    BY <1>2, <2>1, <2>2, Zenon
<1>7. CASE EmitStatus
  <2> DEFINE e == Status(Head(calls).node, Head(calls).value)
  <2>1. /\ Top("emitStatus") /\ UNCHANGED <<native, told, ends, flushed>>
        /\ emitted' = Append(emitted, e) /\ forwarding' = Append(forwarding, e)
    BY <1>7 DEF EmitStatus
  <2>2. e \in Announced
    BY <2>1, EmittedEvents
  <2> HIDE DEF e
  <2> QED
    BY <1>2, <2>1, <2>2
<1>8. CASE FlushNative
  <2>1. PendingType /\ UNCHANGED <<forwarding, emitted, told>>
    BY <1>8, Zenon DEF FlushNative, TypeInv
  <2>2. \A n \in Nodes : native[n] \o Queued(n) \in Seq(Events)
    BY <1>0, <2>1, QueuedControl, ConcatElements DEF LogType
  <2>3. native' \in [Nodes -> Seq(Events)]
    BY <1>8, <2>2 DEF FlushNative
  <2>4. \A n \in Nodes : ends[n] \in Nat /\ ends[n] + 1 \in Nat
    BY <1>0 DEF LogType
  <2>5. ends' \in [Nodes -> Nat]
    BY <1>8, <2>4 DEF FlushNative
  <2>6. ASSUME NEW n \in Nodes, BeforeCheckpoint(n, out.barrier + 1) \in pending
        PROVE  out.barrier + 1 \in 0..MaxCheckpoints
    <3>1. BeforeCheckpoint(n, out.barrier + 1) \in Events
      BY <2>1, <2>6 DEF PendingType
    <3>2. out.barrier + 1 \in 1..MaxCheckpoints
      BY <3>1 DEF BeforeCheckpoint, Events, Announced
    <3> QED
      BY <3>2
  <2>7. flushed' \in [Nodes -> 0..MaxCheckpoints]
    BY <1>0, <1>8, <2>6 DEF FlushNative, LogType
  <2> QED
    BY <1>0, <2>1, <2>3, <2>5, <2>7 DEF LogType
<1>9. CASE Forward
  <2>1. /\ forwarding # <<>> /\ told' = Append(told, Head(forwarding)) /\ forwarding' = Tail(forwarding)
        /\ UNCHANGED <<emitted, native, ends, flushed>>
    BY <1>9 DEF Forward
  <2>2. Head(forwarding) \in Announced /\ Tail(forwarding) \in Seq(Announced)
    BY <1>0, <2>1, TailElements, SeqElement DEF LogType
  <2> QED
    BY <1>0, <2>1, <2>2, AppendElements DEF LogType
<1>10. CASE NativeFails \/ ForwardFails
  BY <1>3, <1>10 DEF NativeFails, ForwardFails, Abandon
<1>11. CASE NodeWatermark \/ NodeStatus \/ FlushFirst \/ FlushDone \/ Return
  <2>1. UNCHANGED <<forwarding, history>>
    BY <1>11, Zenon DEF NodeWatermark, NodeStatus, FlushFirst, FlushDone, Return, scheduler
  <2> QED
    BY <1>1, <2>1
<1> QED
  BY NextIs, <1>4, <1>5, <1>6, <1>7, <1>8, <1>9, <1>10, <1>11 DEF Step

LEMMA OutTypeStep ==
  ASSUME TopologyAssumption, TypeInv, Next
  PROVE  OutType'
<1>0. OutType
  BY DEF TypeInv
<1>1. ASSUME UNCHANGED <<wave, out, running, failed, arrival>> PROVE OutType'
  BY <1>0, <1>1 DEF OutType
<1>2. ASSUME UNCHANGED <<wave, out, arrival>>, ~running',
             failed' \in {"native", "consumer", "diverged"}
      PROVE  OutType'
  <2>1. running' = FALSE \/ running' \in BOOLEAN
    BY <1>2
  <2> QED
    BY <1>0, <1>2, <2>1, Zenon DEF OutType
<1>3. CASE Arrival
  <2>1. PICK kind \in Kinds : /\ arrival' = kind /\ running' = TRUE /\ UNCHANGED <<wave, out, failed>>
                              /\ kind = "checkpoint" => out.barrier < MaxCheckpoints
    BY <1>3 DEF Arrival, Dispatch
  <2> QED
    BY <1>0, <2>1 DEF OutType, Kinds
<1>4. CASE NativeFails
  <2>1. UNCHANGED <<wave, out, arrival>> /\ running' = FALSE /\ failed' = "native"
    BY <1>4 DEF NativeFails, Abandon, environment
  <2> QED
    BY <1>0, <2>1, Zenon DEF OutType
<1>5. CASE ForwardFails
  <2>1. UNCHANGED <<wave, out, arrival>> /\ running' = FALSE /\ failed' \in {"diverged", "consumer"}
    BY <1>5 DEF ForwardFails, Abandon, environment
  <2> QED
    BY <1>0, <2>1, Zenon DEF OutType
<1>6. CASE Forward
  <2> DEFINE e == Head(forwarding)
  <2>1. UNCHANGED <<running, failed, arrival>> /\ forwarding # <<>>
    BY <1>6 DEF Forward, environment
  <2>2. e \in Announced
    BY <2>1, TailElements, SeqElement DEF TypeInv, LogType
  <2>3. CASE ~External(e)
    <3>1. UNCHANGED <<wave, out>>
      BY <1>6, <2>3 DEF Forward
    <3> QED
      BY <1>1, <2>1, <3>1
  <2>4. CASE External(e)
    <3>1. \/ e.kind = "watermark" /\ e.node \in Outputs /\ e.value \in Timestamps
          \/ e.kind = "status" /\ e.node \in Outputs /\ e.value \in BOOLEAN
      BY <2>2, <2>4 DEF External, Announced
    <3>2. \/ wave' = [wave EXCEPT ![e.kind] = {}]
          \/ wave' = [wave EXCEPT ![e.kind] = wave[e.kind] \cup {<<e.node, e.value>>}]
      BY <1>6, <2>4, Zenon DEF Forward, Wave
    <3>3. \/ out' = out
          \/ e.kind = "watermark" /\ out' = [out EXCEPT !.wm = e.value]
          \/ e.kind = "status" /\ out' = [out EXCEPT !.idle = e.value]
      BY <1>6, <2>4, <3>1 DEF Forward, Emit
    <3> HIDE DEF e
    <3>4. wave' \in [watermark : SUBSET (Outputs \X Timestamps), status : SUBSET (Outputs \X BOOLEAN)]
      <4>1. CASE e.kind = "watermark"
        <5>1. <<e.node, e.value>> \in Outputs \X Timestamps
          BY <3>1, <4>1
        <5>2. \/ wave' = [wave EXCEPT !.watermark = {}]
              \/ wave' = [wave EXCEPT !.watermark = wave.watermark \cup {<<e.node, e.value>>}]
          BY <3>2, <4>1
        <5> QED
          BY <1>0, <5>1, <5>2 DEF OutType
      <4>2. CASE e.kind = "status"
        <5>1. <<e.node, e.value>> \in Outputs \X BOOLEAN
          BY <3>1, <4>2
        <5>2. \/ wave' = [wave EXCEPT !.status = {}]
              \/ wave' = [wave EXCEPT !.status = wave.status \cup {<<e.node, e.value>>}]
          BY <3>2, <4>2
        <5> QED
          BY <1>0, <5>1, <5>2 DEF OutType
      <4> QED
        BY <3>1, <4>1, <4>2
    <3>5. out' \in [wm : Timestamps, idle : BOOLEAN, barrier : 0..MaxCheckpoints, finished : BOOLEAN]
          /\ out'.barrier = out.barrier
      BY <1>0, <3>1, <3>3 DEF OutType
    <3> QED
      BY <1>0, <2>1, <3>4, <3>5 DEF OutType
  <2> QED
    BY <2>3, <2>4
<1>7. CASE Return
  <2>1. UNCHANGED <<wave, failed, arrival>> /\ running /\ running' = FALSE
    BY <1>7 DEF Return, environment
  <2>2. \/ out' = out
        \/ arrival = "checkpoint" /\ out' = [out EXCEPT !.barrier = @ + 1]
        \/ out' = [out EXCEPT !.finished = TRUE]
    BY <1>7 DEF Return
  <2>3. out' \in [wm : Timestamps, idle : BOOLEAN, barrier : 0..MaxCheckpoints, finished : BOOLEAN]
    <3>1. arrival = "checkpoint" => out.barrier + 1 \in 0..MaxCheckpoints
      BY <1>0, <2>1 DEF OutType, TopologyAssumption
    <3> QED
      BY <1>0, <2>2, <3>1, Zenon DEF OutType
  <2> QED
    BY <1>0, <2>1, <2>3, Zenon DEF OutType
<1>8. CASE \/ NodeWatermark \/ NodeStatus \/ NodeEndInput \/ EmitWatermark \/ EmitStatus
           \/ FlushFirst \/ FlushNative \/ FlushDone
  <2>1. UNCHANGED <<wave, out, running, failed, arrival>>
    BY <1>8, Zenon DEF NodeWatermark, NodeStatus, NodeEndInput, EmitWatermark, EmitStatus, FlushFirst,
                FlushNative, FlushDone, scheduler, environment
  <2> QED
    BY <1>1, <2>1
<1> QED
  BY NextIs, <1>3, <1>4, <1>5, <1>6, <1>7, <1>8 DEF Step

LEMMA TypeStep ==
  ASSUME TopologyAssumption, TypeInv, [Next]_vars
  PROVE  TypeInv'
<1>1. CASE Next
  BY <1>1, TreeTypeStep, PendingTypeStep, CallsTypeStep, LogTypeStep, OutTypeStep DEF TypeInv
<1>2. CASE UNCHANGED vars
  <2>1. TreeType'
    BY <1>2 DEF vars, TypeInv, TreeType
  <2>2. PendingType'
    BY <1>2 DEF vars, TypeInv, PendingType, ControlOf
  <2>3. CallsType' /\ LogType'
    BY <1>2, Zenon DEF vars, TypeInv, CallsType, LogType
  <2>4. OutType'
    BY <1>2 DEF vars, TypeInv, OutType
  <2> QED
    BY <2>1, <2>2, <2>3, <2>4, Zenon DEF TypeInv
<1> QED
  BY <1>1, <1>2

\* The state of the tree, of the scheduler and of what left the region keeps its type.
THEOREM TypeCorrect ==
  ASSUME TopologyAssumption
  PROVE  Spec => []TypeInv
<1>1. Init => TypeInv
  BY TypeInit
<1>2. TypeInv /\ [Next]_vars => TypeInv'
  BY TypeStep
<1> QED
  BY <1>1, <1>2, PTL DEF Spec

-----------------------------------------------------------------------------
\* The recursion ends with a flush, which leaves nothing behind.

LEMMA PushPop ==
  ASSUME NEW S, NEW s \in Seq(S), NEW a \in Seq(S), Len(s) > 1
  PROVE  /\ a \o Tail(s) # <<>>
         /\ (a \o Tail(s))[Len(a \o Tail(s))] = s[Len(s)]
<1>1. Tail(s) \in Seq(S) /\ Len(Tail(s)) = Len(s) - 1 /\ Len(s) \in Nat /\ Len(a) \in Nat
  BY TailElements
<1>2. Len(a \o Tail(s)) = Len(a) + (Len(s) - 1)
  BY <1>1, ConcatElements
<1>3. Tail(s)[Len(s) - 1] = s[Len(s)]
  <2>1. Len(s) - 1 \in DOMAIN Tail(s)
    BY <1>1
  <2> QED
    BY <1>1, <2>1, TailElements
<1>4. (a \o Tail(s))[Len(a) + (Len(s) - 1)] = Tail(s)[Len(s) - 1]
  BY <1>1
<1>5. a \o Tail(s) \in Seq(S) /\ Len(a \o Tail(s)) # 0
  BY <1>1, <1>2, ConcatElements
<1>6. a \o Tail(s) # <<>>
  <2> DEFINE c == a \o Tail(s)
  <2>1. c \in Seq(S) /\ Len(c) # 0
    BY <1>5
  <2> HIDE DEF c
  <2>2. c # <<>>
    BY <2>1
  <2> QED
    BY <2>2 DEF c
<1> QED
  BY <1>2, <1>3, <1>4, <1>6

\* A frame other than a flush is never the last one.
LEMMA NotLast ==
  ASSUME TypeInv, StackInv, NEW op, Top(op), op # "flush",
         NEW frames \in Seq(FramesOf(arrival)), calls' = frames \o Tail(calls)
  PROVE  calls' # <<>> /\ calls'[Len(calls')].op = "flush"
<1>1. calls \in Seq(FramesOf(arrival)) /\ calls # <<>> /\ calls[1].op = op
  BY TopFrame
<1>2. calls[Len(calls)].op = "flush"
  BY <1>1 DEF StackInv
<1>3. Len(calls) \in Nat /\ Len(calls) # 0 /\ Len(calls) # 1
  BY <1>1, <1>2
<1> QED
  BY <1>1, <1>2, <1>3, PushPop

\* Frames replace the one that runs; the last one is a flush.
LEMMA StackStep ==
  ASSUME TopologyAssumption, TypeInv, StackInv, [Next]_vars
  PROVE  StackInv'
<1>1. ASSUME UNCHANGED <<running, failed, calls, pending, forwarding>> PROVE StackInv'
  BY <1>1 DEF StackInv
<1>2. CASE Arrival
  <2>1. PICK kind \in Kinds : \E frames \in Seq(FramesOf(kind)) :
          /\ running' = TRUE /\ UNCHANGED <<forwarding, failed>> /\ failed = "no" /\ ~running
          /\ calls' = Append(frames, FlushFrame)
    BY <1>2 DEF Arrival, Dispatch
  <2>2. PICK frames \in Seq(FramesOf(kind)) : calls' = Append(frames, FlushFrame)
    BY <2>1
  <2>3. Len(Append(frames, FlushFrame)) = Len(frames) + 1 /\ Append(frames, FlushFrame)[Len(frames) + 1] = FlushFrame
    BY FlushFrames, AppendElements
  <2>4. calls' # <<>> /\ calls'[Len(calls')].op = "flush"
    BY <2>2, <2>3, FlushFrames
  <2> QED
    BY <2>1, <2>4, Zenon DEF StackInv
<1>3. CASE Next /\ (NodeWatermark \/ NodeStatus \/ NodeEndInput \/ EmitWatermark \/ EmitStatus)
  <2>1. PICK op \in {"watermark", "status", "end", "emitWatermark", "emitStatus"} :
        \E frames \in Seq(FramesOf(arrival)) : Top(op) /\ calls' = frames \o Tail(calls)
    BY <1>3, TreeFrames, Zenon
  <2>2. calls' # <<>> /\ calls'[Len(calls')].op = "flush"
    BY <2>1, NotLast, Zenon
  <2>3. running /\ UNCHANGED <<running, failed>>
    BY <1>3, Zenon DEF NodeWatermark, NodeStatus, NodeEndInput, EmitWatermark, EmitStatus, scheduler, Top
  <2> QED
    BY <2>2, <2>3 DEF StackInv
<1>4. CASE FlushFirst
  <2>1. running /\ UNCHANGED <<running, failed>> /\ calls' = <<FlushFrame>> \o calls /\ calls # <<>>
    BY <1>4 DEF FlushFirst, scheduler, Top
  <2>2. calls \in Seq(FramesOf(arrival)) /\ <<FlushFrame>> \in Seq(FramesOf(arrival))
    BY FlushFrames DEF TypeInv, CallsType
  <2>3. Len(calls') = Len(calls) + 1 /\ calls'[Len(calls) + 1] = calls[Len(calls)] /\ Len(calls) \in Nat
    BY <2>1, <2>2
  <2>4. calls' # <<>> /\ calls'[Len(calls')].op = "flush"
    BY <2>1, <2>2, <2>3 DEF StackInv
  <2> QED
    BY <2>1, <2>4 DEF StackInv
<1>5. CASE FlushDone
  <2>1. /\ running /\ UNCHANGED <<running, failed, pending, forwarding>> /\ pending = {} /\ forwarding = <<>>
        /\ Top("flush") /\ calls' = <<>> \o Tail(calls)
    BY <1>5 DEF FlushDone, scheduler, Top, Continue
  <2>2. calls \in Seq(FramesOf(arrival)) /\ calls # <<>>
    BY <2>1, TopFrame
  <2>3. CASE Len(calls) > 1
    <3>1. calls' # <<>> /\ calls'[Len(calls')].op = "flush"
      BY <2>1, <2>2, <2>3, PushPop, ShortSeqs, Zenon DEF StackInv
    <3> QED
      BY <2>1, <3>1 DEF StackInv
  <2>4. CASE ~(Len(calls) > 1)
    <3>1. calls' = <<>>
      BY <2>1, <2>2, <2>4
    <3> QED
      BY <2>1, <3>1 DEF StackInv
  <2> QED
    BY <2>3, <2>4
<1>6. CASE NativeFails \/ ForwardFails
  BY <1>6 DEF NativeFails, ForwardFails, Abandon, StackInv
<1>7. CASE FlushNative \/ Forward
  <2>1. running /\ calls # <<>> /\ UNCHANGED <<running, failed, calls>>
    BY <1>7 DEF FlushNative, Forward, Top
  <2> QED
    BY <2>1, Zenon DEF StackInv
<1>8. CASE Return
  <2>1. running /\ calls = <<>> /\ running' = FALSE /\ UNCHANGED <<failed, calls, pending, forwarding>>
    BY <1>8 DEF Return
  <2> QED
    BY <2>1 DEF StackInv
<1>9. CASE UNCHANGED vars
  BY <1>1, <1>9 DEF vars
<1> QED
  BY NextIs, <1>2, <1>3, <1>4, <1>5, <1>6, <1>7, <1>8, <1>9 DEF Step

-----------------------------------------------------------------------------
\* The barrier.

\* A barrier is forwarded when its dispatch returns, behind the flush.
LEMMA BarrierStep ==
  ASSUME TopologyAssumption, TypeInv, StackInv, BarrierInv, [Next]_vars
  PROVE  BarrierInv'
<1>0. \A n \in CheckpointStages : n \in Nodes /\ flushed[n] \in Nat /\ out.barrier \in Nat
  BY DEF TypeInv, LogType, OutType, TopologyAssumption
<1>1. ASSUME UNCHANGED <<flushed, out, running, arrival, pending>> PROVE BarrierInv'
  BY <1>1 DEF BarrierInv
<1>2. ASSUME UNCHANGED <<flushed, out>>, ~(running' /\ arrival' = "checkpoint") PROVE BarrierInv'
  BY <1>2 DEF BarrierInv
<1>3. CASE Arrival
  <2>1. PICK kind \in Kinds :
          UNCHANGED <<flushed, out>> /\ arrival' = kind /\ pending' = Controls(kind)
    BY <1>3 DEF Arrival, Dispatch
  <2>2. kind = "checkpoint" =>
          \A n \in CheckpointStages : BeforeCheckpoint(n, out.barrier + 1) \in pending'
    BY <2>1 DEF Controls
  <2> QED
    BY <2>1, <2>2, Zenon DEF BarrierInv
<1>4. CASE Next /\ (NodeWatermark \/ NodeStatus \/ NodeEndInput \/ EmitWatermark \/ EmitStatus)
  <2>1. PICK op \in {"watermark", "status", "end", "emitWatermark", "emitStatus"} :
          Top(op) /\ arrival' = arrival
    BY <1>4, TreeFrames
  <2>2. arrival # "checkpoint"
    BY <2>1, TopFrame DEF OpsOf
  <2>3. UNCHANGED <<flushed, out>>
    BY <1>4, Zenon DEF NodeWatermark, NodeStatus, NodeEndInput, EmitWatermark, EmitStatus, scheduler, history
  <2> QED
    BY <1>2, <2>1, <2>2, <2>3
<1>5. CASE FlushNative
  <2>1. /\ UNCHANGED <<running, arrival, out>>
        /\ flushed' = [n \in Nodes |->
             IF BeforeCheckpoint(n, out.barrier + 1) \in pending THEN out.barrier + 1 ELSE flushed[n]]
    BY <1>5 DEF FlushNative, environment
  <2> QED
    BY <1>0, <2>1 DEF BarrierInv
<1>6. CASE NativeFails \/ ForwardFails
  <2>1. UNCHANGED <<flushed, out>> /\ running' = FALSE
    BY <1>6 DEF NativeFails, ForwardFails, Abandon, history
  <2> QED
    BY <1>2, <2>1
<1>7. CASE Forward
  <2>1. UNCHANGED <<flushed, running, arrival, pending>> /\ out'.barrier = out.barrier
    <3>1. out' = out \/ \E v : out' = [out EXCEPT !.wm = v] \/ out' = [out EXCEPT !.idle = v]
      BY <1>7, Zenon DEF Forward, Emit
    <3> QED
      BY <1>7, <3>1, Zenon DEF Forward, environment, TypeInv, OutType
  <2> QED
    BY <2>1 DEF BarrierInv
<1>8. CASE Return
  <2>1. running /\ running' = FALSE /\ calls = <<>> /\ UNCHANGED <<flushed, arrival>>
    BY <1>8 DEF Return, environment, history
  <2>2. pending = {}
    BY <2>1 DEF StackInv
  <2>3. CASE arrival = "checkpoint"
    <3>1. out'.barrier = out.barrier + 1
      BY <1>8, <2>3 DEF Return, TypeInv, OutType
    <3> QED
      BY <2>1, <2>2, <2>3, <3>1 DEF BarrierInv
  <2>4. CASE arrival # "checkpoint"
    <3>1. out'.barrier = out.barrier
      BY <1>8, <2>4 DEF Return, TypeInv, OutType
    <3> QED
      BY <2>1, <3>1 DEF BarrierInv
  <2> QED
    BY <2>3, <2>4
<1>9. CASE FlushFirst \/ FlushDone
  <2>1. UNCHANGED <<flushed, out, running, arrival, pending>>
    BY <1>9 DEF FlushFirst, FlushDone, scheduler, environment, history
  <2> QED
    BY <1>1, <2>1
<1>10. CASE UNCHANGED vars
  BY <1>1, <1>10 DEF vars
<1> QED
  BY NextIs, <1>3, <1>4, <1>5, <1>6, <1>7, <1>8, <1>9, <1>10, Zenon DEF Step

-----------------------------------------------------------------------------
\* The end of input.

\* The last port that ends is the one that completes its node.
LEMMA EndStep ==
  ASSUME TopologyAssumption, TypeInv, StackInv, EndInv, [Next]_vars
  PROVE  EndInv'
<1>0. EndStages \subseteq Nodes
  BY Zenon DEF TopologyAssumption
<1>1. ASSUME UNCHANGED <<ends, ended, failed>>,
             \A n \in EndStages : EndInput(n) \in pending' <=> EndInput(n) \in pending
      PROVE  EndInv'
  BY <1>1 DEF EndInv, AllEnded
<1>2. CASE Arrival
  <2>1. PICK kind \in Kinds : UNCHANGED <<ends, ended, failed>> /\ pending' = Controls(kind) /\ ~running
    BY <1>2 DEF Arrival, Dispatch, tree
  <2>2. pending = {}
    BY <2>1 DEF StackInv
  <2>3. \A n \in EndStages : EndInput(n) \notin Controls(kind)
    BY Zenon DEF Controls, EndInput, BeforeCheckpoint
  <2> QED
    BY <1>1, <2>1, <2>2, <2>3
<1>3. CASE NodeEndInput
  <2>0. PICK m, port : m = Head(calls).node /\ port = Head(calls).port
    OBVIOUS
  <2> DEFINE now == [ended[m] EXCEPT ![port] = TRUE]
             completes == ~ended[m][port] /\ \A p \in Ports(m) : now[p]
  <2>1. /\ Top("end") /\ UNCHANGED <<ends, failed>>
        /\ ended' = [ended EXCEPT ![m] = now]
        /\ pending' = IF completes /\ m \in EndStages THEN Put(EndInput(m)) ELSE pending
    BY <1>3, <2>0, Zenon DEF NodeEndInput
  <2>2. m \in Nodes /\ port \in Ports(m)
    BY <2>0, <2>1, NodeFrame, Zenon
  <2>3. DOMAIN ended = Nodes /\ ended[m] \in [Ports(m) -> BOOLEAN]
    BY <2>2 DEF TypeInv, TreeType
  <2>4. ASSUME NEW n \in EndStages, n # m
        PROVE  (AllEnded(n)' <=> AllEnded(n)) /\ (EndInput(n) \in pending' <=> EndInput(n) \in pending)
    <3>1. ended'[n] = ended[n]
      BY <1>0, <2>1, <2>3, <2>4
    <3>2. EndInput(n) # EndInput(m) /\ EndInput(n).node = n /\ EndInput(m).node = m
      BY <2>4 DEF EndInput
    <3>3. EndInput(n) \in Put(EndInput(m)) <=> EndInput(n) \in pending
      BY <2>4, <3>2 DEF Put
    <3> QED
      BY <2>1, <3>1, <3>3 DEF AllEnded
  <2>5. ended'[m] = now /\ now \in [Ports(m) -> BOOLEAN]
    BY <2>1, <2>2, <2>3, Zenon
  <2>6. AllEnded(m)' <=> \A p \in Ports(m) : now[p]
    BY <2>5, Zenon DEF AllEnded
  <2>7. AllEnded(m) => (~completes /\ AllEnded(m)')
    <3>1. AllEnded(m) => ended[m][port] /\ \A p \in Ports(m) : now[p]
      BY <2>2, <2>3, Zenon DEF AllEnded
    <3> QED
      BY <2>6, <3>1
  <2>8. AllEnded(m)' /\ ~AllEnded(m) => completes
    <3>1. ASSUME ended[m][port], \A p \in Ports(m) : now[p] PROVE AllEnded(m)
      <4>1. now = ended[m]
        BY <2>2, <2>3, <3>1, Zenon
      <4> QED
        BY <3>1, <4>1 DEF AllEnded
    <3> QED
      BY <2>6, <3>1
  <2>9. completes => AllEnded(m)' /\ ~AllEnded(m)
    BY <2>6, <2>7
  <2>10. m \in EndStages => (EndInput(m) \in pending' <=> completes \/ EndInput(m) \in pending)
    BY <2>1 DEF Put
  <2>11. ASSUME NEW n \in EndStages
         PROVE  /\ ends'[n] \in {0, 1} /\ (ends'[n] = 1 => AllEnded(n)')
                /\ EndInput(n) \in pending' => AllEnded(n)' /\ ends'[n] = 0
                /\ failed' = "no" /\ AllEnded(n)' => ends'[n] = 1 \/ EndInput(n) \in pending'
    <3> HIDE DEF completes
    <3>1. CASE n # m
      BY <2>1, <2>4, <3>1, Zenon DEF EndInv
    <3>2. CASE n = m
      BY <2>1, <2>7, <2>8, <2>9, <2>10, <3>2 DEF EndInv
    <3> QED
      BY <3>1, <3>2
  <2> QED
    BY <2>11 DEF EndInv
<1>4. CASE EmitWatermark
  <2> DEFINE e == Watermark(Head(calls).node, Clock(Head(calls).node, Head(calls).value))
  <2>1. /\ Top("emitWatermark") /\ UNCHANGED <<ends, ended, failed>>
        /\ pending' = pending \/ pending' = Put(e)
    BY <1>4 DEF EmitWatermark
  <2>2. \A c \in pending : c.kind = "watermark"
    BY <2>1, TopFrame DEF OpsOf, ControlOf, TypeInv, PendingType
  <2>3. e.kind = "watermark" /\ \A n \in EndStages : EndInput(n).kind = "end"
    BY Zenon DEF Watermark, EndInput
  <2> HIDE DEF e
  <2> QED
    BY <1>1, <2>1, <2>2, <2>3, Zenon DEF Put
<1>5. CASE FlushNative
  <2>1. /\ UNCHANGED <<ended, failed>> /\ pending' = {}
        /\ ends' = [n \in Nodes |-> IF EndInput(n) \in pending THEN ends[n] + 1 ELSE ends[n]]
    BY <1>5 DEF FlushNative, tree
  <2>2. ASSUME NEW n \in EndStages
        PROVE  ends'[n] = IF EndInput(n) \in pending THEN ends[n] + 1 ELSE ends[n]
    BY <1>0, <2>1
  <2>3. ASSUME NEW n \in EndStages
        PROVE  /\ ends'[n] \in {0, 1} /\ (ends'[n] = 1 => AllEnded(n))
               /\ failed = "no" /\ AllEnded(n) => ends'[n] = 1
    <3>1. CASE EndInput(n) \in pending
      <4>1. AllEnded(n) /\ ends[n] = 0
        BY <3>1 DEF EndInv
      <4>2. ends'[n] = 0 + 1
        BY <2>2, <3>1, <4>1
      <4> QED
        BY <4>1, <4>2
    <3>2. CASE EndInput(n) \notin pending
      <4>1. ends[n] \in {0, 1} /\ (ends[n] = 1 => AllEnded(n))
            /\ (failed = "no" /\ AllEnded(n) => ends[n] = 1)
        BY <3>2 DEF EndInv
      <4>2. ends'[n] = ends[n]
        BY <2>2, <3>2, <4>1
      <4> QED
        BY <4>1, <4>2
    <3> QED
      BY <3>1, <3>2
  <2>4. \A n \in EndStages : AllEnded(n)' <=> AllEnded(n)
    BY <2>1 DEF AllEnded
  <2>5. ASSUME NEW n \in EndStages
        PROVE  /\ ends'[n] \in {0, 1} /\ (ends'[n] = 1 => AllEnded(n)')
               /\ EndInput(n) \notin pending'
               /\ failed' = "no" /\ AllEnded(n)' => ends'[n] = 1
    BY <2>1, <2>3, <2>4, Zenon
  <2> QED
    BY <2>5, Zenon DEF EndInv
<1>6. CASE NativeFails \/ ForwardFails
  <2>1. UNCHANGED <<ends, ended>> /\ failed' # "no" /\ pending' = {}
    BY <1>6 DEF NativeFails, ForwardFails, Abandon, history, tree
  <2> QED
    BY <2>1 DEF EndInv, AllEnded
<1>7. CASE NodeWatermark \/ NodeStatus \/ EmitStatus \/ FlushFirst \/ Forward \/ FlushDone \/ Return
  <2>1. UNCHANGED <<ends, ended, failed, pending>>
    BY <1>7, Zenon DEF NodeWatermark, NodeStatus, EmitStatus, FlushFirst, Forward, FlushDone, Return,
                scheduler, history, tree
  <2> QED
    BY <1>1, <2>1
<1>8. CASE UNCHANGED vars
  BY <1>1, <1>8 DEF vars
<1> QED
  BY NextIs, <1>2, <1>3, <1>4, <1>5, <1>6, <1>7, <1>8, Zenon DEF Step

-----------------------------------------------------------------------------
\* Announcements.

LEMMA PrefixOf ==
  ASSUME NEW S, NEW a \in Seq(S), NEW b \in Seq(S)
  PROVE  a = SubSeq(a \o b, 1, Len(a))
<1> DEFINE c == SubSeq(a \o b, 1, Len(a))
<1>1. a \o b \in Seq(S) /\ Len(a \o b) = Len(a) + Len(b) /\ Len(a) \in Nat /\ Len(b) \in Nat
  BY ConcatElements
<1>2. c \in Seq(S) /\ Len(c) = Len(a) /\ \A i \in 1..Len(a) : c[i] = (a \o b)[i]
  BY <1>1
<1>3. \A i \in 1..Len(a) : (a \o b)[i] = a[i]
  OBVIOUS
<1> HIDE DEF c
<1>4. a = c
  BY <1>2, <1>3
<1> QED
  BY <1>4 DEF c

LEMMA ConcatLeft ==
  ASSUME NEW S, NEW a \in Seq(S), NEW b \in Seq(S), NEW i \in DOMAIN a
  PROVE  i \in DOMAIN (a \o b) /\ (a \o b)[i] = a[i]
  OBVIOUS

LEMMA AppendConcat ==
  ASSUME NEW S, NEW a \in Seq(S), NEW b \in Seq(S), NEW e \in S
  PROVE  a \o Append(b, e) = Append(a \o b, e)
  OBVIOUS

LEMMA MoveHead ==
  ASSUME NEW S, NEW a \in Seq(S), NEW b \in Seq(S), b # <<>>
  PROVE  /\ Append(a, Head(b)) \o Tail(b) = a \o b
         /\ Len(a) + 1 \in DOMAIN (a \o b) /\ (a \o b)[Len(a) + 1] = Head(b)
  OBVIOUS

\* Nothing that waits for a stage is lost when another control is put.
LEMMA NothingReplaced ==
  ASSUME TopologyAssumption, TypeInv
  PROVE  /\ NodeEndInput => pending \subseteq pending'
         /\ EmitWatermark => pending \subseteq pending'
<1>1. ASSUME NodeEndInput PROVE pending \subseteq pending'
  <2> DEFINE m == Head(calls).node
  <2>1. Top("end") /\ (pending' = pending \/ pending' = Put(EndInput(m)))
    BY <1>1, Zenon DEF NodeEndInput
  <2>2. \A c \in pending : c \in Events /\ c.kind = "end"
    BY <2>1, TopFrame, Zenon DEF OpsOf, ControlOf, TypeInv, PendingType
  <2>3. \A c \in Events : c.node = m /\ c.kind = "end" => c = EndInput(m)
    BY DEF Events, Announced, EndInput
  <2>4. EndInput(m).node = m
    BY DEF EndInput
  <2> HIDE DEF m
  <2> QED
    BY <2>1, <2>2, <2>3, <2>4 DEF Put
<1>2. ASSUME EmitWatermark PROVE pending \subseteq pending'
  <2> DEFINE n == Head(calls).node
             e == Watermark(n, Clock(n, Head(calls).value))
  <2>1. /\ Top("emitWatermark") /\ ~MustFlush(Head(calls))
        /\ pending' = IF n \in WatermarkStages THEN Put(e) ELSE pending
    BY <1>2, Zenon DEF EmitWatermark
  <2>2. Head(calls).op = "emitWatermark" /\ e.node = n
    BY <2>1, Zenon DEF Top, Watermark
  <2>3. n \in WatermarkStages => \A c \in pending : c.node # n
    BY <2>1, <2>2 DEF MustFlush
  <2> HIDE DEF n, e
  <2> QED
    BY <2>1, <2>2, <2>3 DEF Put
<1> QED
  BY <1>1, <1>2

\* Listener calls are taken from the front of what the tree emitted.
LEMMA AnnounceStep ==
  ASSUME TopologyAssumption, TypeInv, StackInv, AnnounceInv, [Next]_vars
  PROVE  AnnounceInv'
<1>0. /\ forwarding \in Seq(Announced) /\ emitted \in Seq(Announced) /\ told \in Seq(Announced)
      /\ native \in [Nodes -> Seq(Events)]
  BY Zenon DEF TypeInv, LogType
<1>1. ASSUME UNCHANGED <<emitted, told, native, forwarding, pending, failed>> PROVE AnnounceInv'
  BY <1>1, Zenon DEF AnnounceInv, AnnouncedBehindNative
<1>2. CASE Arrival
  <2>1. emitted' = <<>> /\ told' = <<>> /\ UNCHANGED forwarding /\ ~running
    BY <1>2 DEF Arrival, Dispatch
  <2>2. forwarding = <<>>
    BY <2>1 DEF StackInv
  <2>3. <<>> = <<>> \o <<>> /\ <<>> = SubSeq(<<>>, 1, Len(<<>>)) /\ DOMAIN <<>> = {}
    <3>1. <<>> = SubSeq(<<>> \o <<>>, 1, Len(<<>>))
      BY PrefixOf, ShortSeqs, Zenon
    <3> QED
      BY <3>1
  <2> QED
    BY <2>1, <2>2, <2>3, Zenon DEF AnnounceInv, AnnouncedBehindNative
<1>3. ASSUME NEW e \in Announced, running, emitted' = Append(emitted, e),
             forwarding' = Append(forwarding, e), UNCHANGED <<native, told, failed>>,
             pending \subseteq pending', Concerns(e) => e \in pending'
      PROVE  AnnounceInv'
  <2>1. failed = "no"
    BY <1>3 DEF StackInv
  <2>2. emitted' = told' \o forwarding'
    <3>1. emitted = told \o forwarding
      BY <2>1 DEF AnnounceInv
    <3>2. told \o Append(forwarding, e) = Append(told \o forwarding, e)
      BY <1>0, AppendConcat
    <3> QED
      BY <1>3, <3>1, <3>2
  <2>3. told' = SubSeq(emitted', 1, Len(told'))
    <3>1. Append(forwarding, e) \in Seq(Announced)
      BY <1>0, AppendElements, Zenon
    <3> QED
      BY <1>0, <1>3, <2>2, <3>1, PrefixOf, Zenon
  <2>4. ASSUME NEW i \in DOMAIN emitted', Concerns(emitted'[i])
        PROVE  emitted'[i] \in pending' \cup Range(native'[emitted'[i].node])
    <3>1. CASE i \in DOMAIN emitted
      <4>1. emitted'[i] = emitted[i]
        BY <1>0, <1>3, <3>1, AppendElements
      <4>2. emitted[i] \in pending \cup Range(native[emitted[i].node])
        BY <2>1, <2>4, <3>1, <4>1, Zenon DEF AnnounceInv, AnnouncedBehindNative
      <4> QED
        BY <1>3, <4>1, <4>2, Zenon
    <3>2. CASE i = Len(emitted) + 1
      <4>1. emitted'[i] = e
        BY <1>0, <1>3, <3>2, AppendElements
      <4> QED
        BY <1>3, <2>4, <4>1, Zenon
    <3> QED
      BY <1>0, <1>3, <3>1, <3>2, AppendElements, Zenon
  <2> QED
    BY <1>3, <2>2, <2>3, <2>4 DEF AnnounceInv, AnnouncedBehindNative
<1>4. CASE NodeEndInput
  <2> DEFINE e == EndInput(Head(calls).node)
  <2>1. /\ Top("end") /\ UNCHANGED <<native, told, failed>>
        /\ \/ UNCHANGED <<emitted, forwarding, pending>>
           \/ /\ emitted' = Append(emitted, e) /\ forwarding' = Append(forwarding, e)
              /\ Head(calls).node \in EndStages => pending' = Put(e)
    <3> DEFINE f == Head(calls)
               now == [ended[f.node] EXCEPT ![f.port] = TRUE]
               completes == ~ended[f.node][f.port] /\ \A p \in Ports(f.node) : now[p]
    <3>1. /\ Top("end") /\ UNCHANGED <<native, told, failed>>
          /\ emitted' = IF completes THEN Append(emitted, e) ELSE emitted
          /\ forwarding' = IF completes THEN Append(forwarding, e) ELSE forwarding
          /\ pending' = IF completes /\ f.node \in EndStages THEN Put(e) ELSE pending
      BY <1>4, Zenon DEF NodeEndInput
    <3> HIDE DEF completes, e
    <3> QED
      BY <3>1
  <2>2. e \in Announced /\ running
    BY <2>1, EmittedEvents, Zenon DEF Top
  <2>3. Concerns(e) => Head(calls).node \in EndStages
    BY DEF Concerns, EndInput
  <2>4. e \in Put(e)
    BY DEF Put
  <2>5. pending \subseteq pending'
    BY <1>4, NothingReplaced, Zenon
  <2> HIDE DEF e
  <2> QED
    BY <1>1, <1>3, <2>1, <2>2, <2>3, <2>4, <2>5, Zenon
<1>5. CASE EmitWatermark
  <2> DEFINE e == Watermark(Head(calls).node, Clock(Head(calls).node, Head(calls).value))
  <2>1. /\ Top("emitWatermark") /\ UNCHANGED <<native, told, failed>>
        /\ emitted' = Append(emitted, e) /\ forwarding' = Append(forwarding, e)
        /\ Head(calls).node \in WatermarkStages => pending' = Put(e)
    BY <1>5, Zenon DEF EmitWatermark
  <2>2. e \in Announced /\ running
    BY <2>1, EmittedEvents, Zenon DEF Top
  <2>3. Concerns(e) => Head(calls).node \in WatermarkStages
    BY Zenon DEF Concerns, Watermark
  <2>4. e \in Put(e)
    BY DEF Put
  <2>5. pending \subseteq pending'
    BY <1>5, NothingReplaced
  <2> HIDE DEF e
  <2> QED
    BY <1>3, <2>1, <2>2, <2>3, <2>4, <2>5
<1>6. CASE EmitStatus
  <2> DEFINE e == Status(Head(calls).node, Head(calls).value)
  <2>1. /\ Top("emitStatus") /\ UNCHANGED <<native, told, failed, pending>>
        /\ emitted' = Append(emitted, e) /\ forwarding' = Append(forwarding, e)
    BY <1>6, Zenon DEF EmitStatus
  <2>2. e \in Announced /\ running
    BY <2>1, EmittedEvents DEF Top
  <2>3. ~Concerns(e)
    BY DEF Concerns, Status
  <2> HIDE DEF e
  <2> QED
    BY <1>3, <2>1, <2>2, <2>3
<1>7. CASE FlushNative
  <2>1. /\ UNCHANGED <<emitted, told, forwarding, failed>>
        /\ native' = [n \in Nodes |-> native[n] \o Queued(n)]
    BY <1>7, Zenon DEF FlushNative
  <2>2. ASSUME NEW n \in Nodes
        PROVE  /\ Range(native[n]) \subseteq Range(native'[n])
               /\ \A c \in pending : c.node = n => c \in Range(native'[n])
    <3>1. native[n] \in Seq(Events) /\ Queued(n) \in Seq(Events) /\ native'[n] = native[n] \o Queued(n)
      BY <1>0, <2>1, QueuedControl, Zenon DEF TypeInv
    <3>2. Range(native[n]) \subseteq Range(native[n] \o Queued(n))
      <4>1. \A i \in DOMAIN native[n] :
              i \in DOMAIN (native[n] \o Queued(n)) /\ (native[n] \o Queued(n))[i] = native[n][i]
        BY <3>1, ConcatLeft
      <4> QED
        BY <4>1, Zenon DEF Range
    <3>3. ASSUME NEW c \in pending, c.node = n PROVE c \in Range(native[n] \o Queued(n))
      <4>1. Queued(n) = <<c>>
        BY <3>3, QueuedControl DEF TypeInv
      <4>2. /\ Len(native[n]) + 1 \in DOMAIN (native[n] \o <<c>>)
            /\ (native[n] \o <<c>>)[Len(native[n]) + 1] = c
        BY <3>1
      <4> QED
        BY <4>1, <4>2 DEF Range
    <3> QED
      BY <3>1, <3>2, <3>3
  <2>3. \A e \in Announced : e.node \in Nodes
    BY DEF Announced
  <2>4. \A i \in DOMAIN told : told[i].node \in Nodes
    BY <1>0, <2>3, SeqElement
  <2>5. \A i \in DOMAIN emitted : emitted[i].node \in Nodes
    BY <1>0, <2>3, SeqElement, Zenon
  <2>6. \A i \in DOMAIN told : Concerns(told[i]) => told[i] \in Range(native'[told[i].node])
    BY <2>2, <2>4 DEF AnnounceInv, AnnouncedBehindNative
  <2>7. failed = "no" => \A i \in DOMAIN emitted :
          Concerns(emitted[i]) => emitted[i] \in Range(native'[emitted[i].node])
    BY <2>2, <2>5, Zenon DEF AnnounceInv, AnnouncedBehindNative
  <2>8. AnnouncedBehindNative'
    BY <2>1, <2>6, <2>7, Zenon DEF AnnounceInv, AnnouncedBehindNative
  <2> QED
    BY <2>1, <2>8, Zenon DEF AnnounceInv
<1>8. CASE Forward
  <2> DEFINE e == Head(forwarding)
  <2>1. /\ Top("flush") /\ pending = {} /\ forwarding # <<>> /\ told' = Append(told, e)
        /\ forwarding' = Tail(forwarding) /\ UNCHANGED <<emitted, native, failed, pending>>
    BY <1>8 DEF Forward
  <2>2. failed = "no"
    BY <2>1 DEF StackInv, Top
  <2>3. /\ Append(told, e) \o Tail(forwarding) = emitted
        /\ Len(told) + 1 \in DOMAIN emitted /\ emitted[Len(told) + 1] = e
    <3>1. emitted = told \o forwarding
      BY <2>2 DEF AnnounceInv
    <3> QED
      BY <1>0, <2>1, <3>1, MoveHead, Zenon
  <2>4. e \in Announced /\ Tail(forwarding) \in Seq(Announced)
    BY <1>0, <2>1, TailElements, SeqElement
  <2>5. Concerns(e) => e \in Range(native[e.node])
    <3>1. \A i \in DOMAIN emitted : Concerns(emitted[i]) => emitted[i] \in pending \cup Range(native[emitted[i].node])
      BY <2>2 DEF AnnounceInv, AnnouncedBehindNative
    <3> QED
      BY <2>1, <2>3, <3>1, Zenon
  <2> HIDE DEF e
  <2>6. told' = SubSeq(emitted, 1, Len(told'))
    <3>1. Append(told, e) \in Seq(Announced)
      BY <1>0, <2>4, AppendElements, Zenon
    <3> QED
      BY <2>1, <2>3, <2>4, <3>1, PrefixOf
  <2>7. ASSUME NEW i \in DOMAIN told', Concerns(told'[i])
        PROVE  told'[i] \in Range(native[told'[i].node])
    <3>1. CASE i \in DOMAIN told
      <4>1. told'[i] = told[i]
        BY <1>0, <2>1, <2>4, <3>1, AppendElements
      <4> QED
        BY <2>7, <3>1, <4>1, Zenon DEF AnnounceInv, AnnouncedBehindNative
    <3>2. CASE i = Len(told) + 1
      <4>1. told'[i] = e
        BY <1>0, <2>1, <2>4, <3>2, AppendElements
      <4> QED
        BY <2>5, <2>7, <4>1, Zenon
    <3> QED
      BY <1>0, <2>1, <2>4, <3>1, <3>2, AppendElements
  <2> QED
    BY <2>1, <2>2, <2>3, <2>6, <2>7, Zenon DEF AnnounceInv, AnnouncedBehindNative
<1>9. CASE NativeFails \/ ForwardFails
  <2>1. UNCHANGED <<emitted, told, native>> /\ failed' # "no"
    BY <1>9 DEF NativeFails, ForwardFails, Abandon, history
  <2> QED
    BY <2>1, Zenon DEF AnnounceInv, AnnouncedBehindNative
<1>10. CASE NodeWatermark \/ NodeStatus \/ FlushFirst \/ FlushDone \/ Return
  <2>1. UNCHANGED <<emitted, told, native, forwarding, pending, failed>>
    BY <1>10, Zenon DEF NodeWatermark, NodeStatus, FlushFirst, FlushDone, Return, scheduler, history
  <2> QED
    BY <1>1, <2>1
<1>11. CASE UNCHANGED vars
  BY <1>1, <1>11 DEF vars
<1> QED
  BY NextIs, <1>2, <1>4, <1>5, <1>6, <1>7, <1>8, <1>9, <1>10, <1>11 DEF Step

-----------------------------------------------------------------------------
\* The inductive invariant of the dispatch, and the properties that follow from it.

ControlInv == TypeInv /\ StackInv /\ AnnounceInv /\ EndInv /\ BarrierInv

LEMMA ControlInit ==
  ASSUME TopologyAssumption, Init
  PROVE  ControlInv
<1>1. TypeInv
  BY TypeInit
<1>2. StackInv
  BY Zenon DEF Init, StackInv
<1>3. AnnounceInv
  <2>1. emitted = <<>> /\ told = <<>> /\ forwarding = <<>>
    BY Zenon DEF Init
  <2>2. <<>> = <<>> \o <<>> /\ <<>> = SubSeq(<<>>, 1, Len(<<>>)) /\ DOMAIN <<>> = {}
    <3>1. <<>> = SubSeq(<<>> \o <<>>, 1, Len(<<>>))
      BY PrefixOf, ShortSeqs
    <3> QED
      BY <3>1
  <2> QED
    BY <2>1, <2>2 DEF AnnounceInv, AnnouncedBehindNative
<1>4. EndInv
  <2>1. ASSUME NEW n \in EndStages PROVE n \in Nodes /\ ~AllEnded(n) /\ ends[n] = 0 /\ EndInput(n) \notin pending
    <3>1. n \in Nodes /\ 1 \in Ports(n)
      BY DEF TopologyAssumption, Ports
    <3>2. ends[n] = 0 /\ EndInput(n) \notin pending /\ ended[n][1] = FALSE
      BY <3>1, Zenon DEF Init
    <3> QED
      BY <3>1, <3>2, Zenon DEF AllEnded
  <2> QED
    BY <2>1 DEF EndInv
<1>5. BarrierInv
  <2>1. \A n \in CheckpointStages : n \in Nodes
    BY DEF TopologyAssumption
  <2>2. flushed = [n \in Nodes |-> 0] /\ out.barrier = 0 /\ running = FALSE
    BY Zenon DEF Init
  <2> QED
    BY <2>1, <2>2 DEF BarrierInv
<1> QED
  BY <1>1, <1>2, <1>3, <1>4, <1>5 DEF ControlInv

LEMMA ControlStep ==
  ASSUME TopologyAssumption, ControlInv, [Next]_vars
  PROVE  ControlInv'
<1>1. TypeInv' /\ StackInv'
  BY TypeStep, StackStep DEF ControlInv
<1>2. AnnounceInv' /\ EndInv' /\ BarrierInv'
  BY AnnounceStep, EndStep, BarrierStep DEF ControlInv
<1> QED
  BY <1>1, <1>2 DEF ControlInv

LEMMA ControlInvariant ==
  ASSUME TopologyAssumption
  PROVE  Spec => []ControlInv
<1>1. Init => ControlInv
  BY ControlInit
<1>2. ControlInv /\ [Next]_vars => ControlInv'
  BY ControlStep
<1> QED
  BY <1>1, <1>2, PTL DEF Spec

\* For every graph of stages a checkpoint barrier leaves the region only after
\* every stage that buffers rows has flushed for it.
THEOREM FlushBeforeBarrier ==
  ASSUME TopologyAssumption
  PROVE  Spec => []BarrierBehindFlush
<1>1. ControlInv => BarrierBehindFlush
  BY DEF ControlInv, BarrierInv, BarrierBehindFlush
<1> QED
  BY <1>1, ControlInvariant, PTL

\* For every graph of stages the native stage of a node is told of the end of its
\* input once at most, not before all its ports ended, and no later than the
\* dispatch that ended them.
THEOREM EndsWithItsPorts ==
  ASSUME TopologyAssumption
  PROVE  Spec => []EndFollowsPorts
<1>1. ControlInv => EndFollowsPorts
  <2> SUFFICES ASSUME ControlInv, NEW n \in EndStages
               PROVE  /\ ends[n] <= 1
                      /\ ends[n] = 1 => AllEnded(n)
                      /\ ~running /\ failed = "no" /\ AllEnded(n) => ends[n] = 1
    BY DEF EndFollowsPorts, AllEnded
  <2>1. /\ ends[n] \in {0, 1} /\ (ends[n] = 1 => AllEnded(n))
        /\ failed = "no" /\ AllEnded(n) => ends[n] = 1 \/ EndInput(n) \in pending
    BY DEF ControlInv, EndInv
  <2>2. ~running => pending = {}
    BY DEF ControlInv, StackInv
  <2> QED
    BY <2>1, <2>2
<1> QED
  BY <1>1, ControlInvariant, PTL

\* For every graph of stages watermarks, statuses and ends are announced in the
\* order of the tree and only behind the native output they cause.
THEOREM NativeBeforeAnnouncement ==
  ASSUME TopologyAssumption
  PROVE  Spec => []AnnouncedBehindNative
<1>1. ControlInv => AnnouncedBehindNative
  BY DEF ControlInv, AnnounceInv
<1> QED
  BY <1>1, ControlInvariant, PTL
=============================================================================
