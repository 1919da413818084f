-------------------------- MODULE RegionControlProofs -------------------------
(* The watermarks of the control tree of RegionControl: each reaches its      *)
(* native stage, in order and once, and neither a clock nor the watermark     *)
(* that leaves the region goes back, for every graph of stages.               *)

EXTENDS RegionControl

\* An emitWatermark frame runs next, or behind the flush it waits for.
EmitInv ==
  \A i \in DOMAIN calls : calls[i].op = "emitWatermark" =>
    /\ i = 1 \/ (i = 2 /\ calls[1].op = "flush")
    /\ calls[i].value = node[calls[i].node].out

\* The watermarks of a node that wait to be announced.
MarksOf(n) == {i \in DOMAIN forwarding : forwarding[i].kind = "watermark" /\ forwarding[i].node = n}

\* They ascend and are not ahead of the clock of their node; the clock of a stage
\* without a window is not ahead of its watermark.
ClockInv ==
  /\ \A n \in Nodes \ Windows : last[n] <= node[n].out
  /\ \A n \in Nodes : \A i \in MarksOf(n) :
       /\ forwarding[i].value <= last[n]
       /\ \A j \in MarksOf(n) : i <= j => forwarding[i].value <= forwarding[j].value

\* An exit that has reported waits for the others with a watermark between the
\* region's and all that it will report; each exit reports once.
WaveInv ==
  /\ \A x, y \in wave.watermark : x[1] = y[1] => x = y
  /\ \A x \in wave.watermark :
       /\ x[2] >= out.wm /\ x[2] <= last[x[1]]
       /\ \A i \in MarksOf(x[1]) : x[2] <= forwarding[i].value
  /\ \A n \in Outputs :
       /\ last[n] >= out.wm
       /\ \A i \in MarksOf(n) : forwarding[i].value >= out.wm

-----------------------------------------------------------------------------
\* The watermark that a node emits is the one it has just computed.

\* A leaf is tried with SMT, with Zenon, and then with SMT for longer.
USE SMT, Zenon, SMTT(20), SMTT(40)

\* Behind a frame that is not a flush no watermark waits to be emitted.
LEMMA RestEmitsNothing ==
  ASSUME TypeInv, EmitInv, NEW op, Top(op), op # "flush"
  PROVE  \A i \in DOMAIN calls : calls[i].op = "emitWatermark" => i = 1
<1>1. calls[1].op = op
  BY TopFrame
<1> QED
  BY <1>1 DEF EmitInv

\* No other frame of the node runs between its change and the emission of it.
LEMMA EmitStep ==
  ASSUME TopologyAssumption, TypeInv, EmitInv, [Next]_vars
  PROVE  EmitInv'
<1>0. calls \in Seq(FramesOf(arrival))
  BY DEF TypeInv, CallsType
<1>1. ASSUME UNCHANGED <<calls, node>> PROVE EmitInv'
  BY <1>1 DEF EmitInv
<1>2. CASE Arrival
  <2>1. PICK kind \in Kinds : \E frames \in Seq(FramesOf(kind)) :
          /\ calls' = Append(frames, FlushFrame)
          /\ \A i \in DOMAIN frames : frames[i].op # "emitWatermark"
    BY <1>2 DEF Arrival, Dispatch
  <2>2. PICK frames \in Seq(FramesOf(kind)) :
          /\ calls' = Append(frames, FlushFrame)
          /\ \A i \in DOMAIN frames : frames[i].op # "emitWatermark"
    BY <2>1
  <2>3. \A i \in DOMAIN Append(frames, FlushFrame) :
          \/ i \in DOMAIN frames /\ Append(frames, FlushFrame)[i] = frames[i]
          \/ Append(frames, FlushFrame)[i] = FlushFrame
    OBVIOUS
  <2>4. \A i \in DOMAIN calls' : calls'[i].op # "emitWatermark"
    BY <2>2, <2>3, FlushFrames
  <2> QED
    BY <2>4 DEF EmitInv
<1>3. CASE Next /\ (NodeWatermark \/ NodeStatus \/ NodeEndInput \/ EmitWatermark \/ EmitStatus)
  <2>1. PICK op \in {"watermark", "status", "end", "emitWatermark", "emitStatus"} :
        \E frames \in Seq(FramesOf(arrival)) :
           /\ Top(op) /\ calls' = frames \o Tail(calls)
           /\ \A i \in DOMAIN frames : frames[i].op = "emitWatermark" =>
                i = 1 /\ frames[i].value = node'[frames[i].node].out
    BY <1>3, TreeFrames, Zenon
  <2>2. PICK frames \in Seq(FramesOf(arrival)) :
           /\ calls' = frames \o Tail(calls)
           /\ \A i \in DOMAIN frames : frames[i].op = "emitWatermark" =>
                i = 1 /\ frames[i].value = node'[frames[i].node].out
    BY <2>1
  <2>3. Tail(calls) \in Seq(FramesOf(arrival)) /\ calls # <<>>
    BY <2>1, TopFrame
  <2>4. \A i \in DOMAIN Tail(calls) : Tail(calls)[i].op # "emitWatermark"
    <3>1. \A i \in DOMAIN Tail(calls) : i \in Nat /\ i + 1 # 1 /\ i + 1 \in DOMAIN calls /\ Tail(calls)[i] = calls[i + 1]
      BY <1>0, <2>3
    <3> QED
      BY <2>1, <3>1, RestEmitsNothing, Zenon
  <2>5. \A i \in DOMAIN (frames \o Tail(calls)) :
          \/ i \in DOMAIN frames /\ (frames \o Tail(calls))[i] = frames[i]
          \/ \E j \in DOMAIN Tail(calls) : (frames \o Tail(calls))[i] = Tail(calls)[j]
    BY <2>3, ConcatElements
  <2>6. \A i \in DOMAIN calls' : calls'[i].op = "emitWatermark" =>
          i = 1 /\ calls'[i].value = node'[calls'[i].node].out
    BY <2>2, <2>4, <2>5
  <2> QED
    BY <2>6 DEF EmitInv
<1>4. CASE FlushFirst
  <2>1. /\ Top("emitWatermark") \/ Top("emitStatus")
        /\ calls' = <<FlushFrame>> \o calls /\ node' = node
    BY <1>4 DEF FlushFirst, tree
  <2>2. \A i \in DOMAIN calls : calls[i].op = "emitWatermark" => i = 1
    BY <2>1, RestEmitsNothing
  <2>3. /\ calls'[1] = FlushFrame
        /\ \A i \in DOMAIN calls' : i = 1 \/ (i - 1 \in DOMAIN calls /\ i \in Nat /\ calls'[i] = calls[i - 1])
    <3>1. <<FlushFrame>> \in Seq(FramesOf(arrival))
      BY FlushFrames
    <3> HIDE DEF FlushFrame
    <3> QED
      BY <1>0, <2>1, <3>1
  <2>4. \A i \in DOMAIN calls' : calls'[i].op = "emitWatermark" => i = 2 /\ calls'[i] = calls[1]
    BY <2>2, <2>3, FlushFrames
  <2>5. \A i \in DOMAIN calls' : calls'[i].op = "emitWatermark" => calls'[i].value = node[calls'[i].node].out
    <3>1. 1 \in DOMAIN calls
      BY <2>1, TopFrame
    <3> QED
      BY <2>4, <3>1 DEF EmitInv
  <2> QED
    BY <2>1, <2>3, <2>4, <2>5, FlushFrames, Zenon DEF EmitInv
<1>5. CASE FlushDone
  <2>1. Top("flush") /\ calls' = <<>> \o Tail(calls) /\ node' = node
    BY <1>5 DEF FlushDone, Continue, tree
  <2>2. calls # <<>> /\ calls[1].op = "flush"
    BY <2>1, TopFrame
  <2>3. \A i \in DOMAIN calls' : i \in Nat /\ i + 1 \in DOMAIN calls /\ calls'[i] = calls[i + 1]
    BY <1>0, <2>1, <2>2
  <2>4. \A i \in DOMAIN calls' : calls'[i].op = "emitWatermark" =>
          i = 1 /\ calls'[i].value = node[calls'[i].node].out
    BY <2>2, <2>3 DEF EmitInv
  <2> QED
    BY <2>1, <2>4 DEF EmitInv
<1>6. CASE NativeFails \/ ForwardFails
  <2>1. calls' = <<>>
    BY <1>6 DEF NativeFails, ForwardFails, Abandon
  <2> QED
    BY <2>1 DEF EmitInv
<1>7. CASE FlushNative \/ Forward \/ Return
  <2>1. UNCHANGED <<calls, node>>
    BY <1>7 DEF FlushNative, Forward, Return, tree
  <2> QED
    BY <1>1, <2>1
<1>8. CASE UNCHANGED vars
  BY <1>1, <1>8 DEF vars
<1> QED
  BY NextIs, <1>2, <1>3, <1>4, <1>5, <1>6, <1>7, <1>8, Zenon DEF Step

-----------------------------------------------------------------------------
\* Watermarks and clocks never regress.

\* The watermarks that wait to be announced, when an event joins them or leaves.
LEMMA AppendMarks ==
  ASSUME forwarding \in Seq(Announced), NEW e \in Announced, forwarding' = Append(forwarding, e), NEW n
  PROVE  \A i \in MarksOf(n)' :
           \/ i \in MarksOf(n) /\ forwarding'[i] = forwarding[i] /\ i < Len(forwarding) + 1
           \/ i = Len(forwarding) + 1 /\ forwarding'[i] = e /\ e.kind = "watermark" /\ e.node = n
  BY AppendElements DEF MarksOf

LEMMA TailMarks ==
  ASSUME forwarding \in Seq(Announced), forwarding # <<>>, forwarding' = Tail(forwarding), NEW n
  PROVE  \A i \in MarksOf(n)' : i \in Nat /\ i > 0 /\ i + 1 \in MarksOf(n) /\ forwarding'[i] = forwarding[i + 1]
  BY TailElements DEF MarksOf

LEMMA MarkValues ==
  ASSUME TypeInv, NEW n
  PROVE  \A i \in MarksOf(n) : forwarding[i].value \in Timestamps /\ i \in Nat /\ i <= Len(forwarding)
<1>1. \A i \in DOMAIN forwarding : forwarding[i] \in Announced /\ i \in Nat /\ i <= Len(forwarding)
  BY SeqElement DEF TypeInv, LogType
<1>2. \A e \in Announced : e.kind = "watermark" => e.value \in Timestamps
  BY DEF Announced
<1> QED
  BY <1>1, <1>2 DEF MarksOf

\* Node.emitWatermark never takes a clock back.
LEMMA EmittedMark ==
  ASSUME TopologyAssumption, TypeInv, EmitInv, ClockInv, EmitWatermark
  PROVE  \E n \in Nodes, t \in Timestamps :
           /\ last' = [last EXCEPT ![n] = t] /\ t >= last[n]
           /\ n \notin Windows => t = node[n].out
           /\ Watermark(n, t) \in Announced /\ forwarding' = Append(forwarding, Watermark(n, t))
<1> DEFINE n == Head(calls).node
           v == Head(calls).value
           t == Clock(n, v)
<1>1. Top("emitWatermark") /\ last' = [last EXCEPT ![n] = t]
      /\ forwarding' = Append(forwarding, Watermark(n, t))
  BY DEF EmitWatermark
<1>2. n \in Nodes /\ v \in Timestamps
  BY <1>1, NodeFrame
<1>3. t \in Timestamps /\ Watermark(n, t) \in Announced
  BY <1>1, EmittedEvents
<1>4. v = node[n].out
  <2>1. Head(calls) = calls[1] /\ 1 \in DOMAIN calls /\ calls[1].op = "emitWatermark"
    BY <1>1, TopFrame
  <2> QED
    BY <2>1 DEF EmitInv
<1>5. last[n] \in Timestamps /\ node[n].out \in Timestamps
  BY <1>2 DEF TypeInv, TreeType, NodeStates
<1>6. t >= last[n] /\ (n \notin Windows => t = v)
  <2> HIDE DEF n, v
  <2>1. CASE n \in Windows
    <3>1. Max({v, last[n]}) >= last[n]
      BY <1>2, <1>5, Greater DEF Timestamps
    <3> QED
      BY <2>1, <3>1 DEF Clock
  <2>2. CASE n \notin Windows
    <3>1. last[n] <= node[n].out
      BY <1>2, <2>2 DEF ClockInv
    <3> QED
      BY <1>4, <1>5, <2>2, <3>1 DEF Clock, Timestamps, TopologyAssumption
  <2> QED
    BY <2>1, <2>2
<1> HIDE DEF n, v, t
<1> QED
  BY <1>1, <1>2, <1>3, <1>4, <1>6, Zenon

\* A node emits watermarks that ascend.
LEMMA ClockStep ==
  ASSUME TopologyAssumption, TypeInv, EmitInv, ClockInv, [Next]_vars
  PROVE  ClockInv'
<1>0. /\ forwarding \in Seq(Announced) /\ Len(forwarding) \in Nat
      /\ \A n \in Nodes : last[n] \in Nat /\ node[n].out \in Nat
      /\ \A n : \A i \in MarksOf(n) : forwarding[i].value \in Nat /\ i \in Nat /\ i <= Len(forwarding)
  <2>1. Timestamps \subseteq Nat
    BY DEF Timestamps, TopologyAssumption
  <2>2. \A n \in Nodes : last[n] \in Timestamps /\ node[n].out \in Timestamps
    BY DEF TypeInv, TreeType, NodeStates
  <2>3. \A n : \A i \in MarksOf(n) : forwarding[i].value \in Timestamps /\ i \in Nat /\ i <= Len(forwarding)
    BY MarkValues
  <2>4. forwarding \in Seq(Announced) /\ Len(forwarding) \in Nat
    BY DEF TypeInv, LogType
  <2> QED
    BY <2>1, <2>2, <2>3, <2>4, Zenon
<1>1. ASSUME UNCHANGED <<last, forwarding>>,
             \A n \in Nodes : node'[n].out \in Nat /\ node'[n].out >= node[n].out
      PROVE  ClockInv'
  <2>1. \A n \in Nodes \ Windows : last'[n] <= node'[n].out
    BY <1>0, <1>1 DEF ClockInv
  <2>2. \A n : MarksOf(n)' = MarksOf(n)
    BY <1>1 DEF MarksOf
  <2> QED
    BY <1>1, <2>1, <2>2 DEF ClockInv
<1>2. ASSUME NEW e \in Announced, e.kind # "watermark", forwarding' = Append(forwarding, e),
             UNCHANGED <<last, node>>
      PROVE  ClockInv'
  <2>1. \A n : \A i \in MarksOf(n)' : i \in MarksOf(n) /\ forwarding'[i] = forwarding[i]
    BY <1>0, <1>2, AppendMarks, Zenon
  <2> QED
    BY <1>2, <2>1, Zenon DEF ClockInv
<1>3. CASE EmitWatermark
  <2>1. PICK n \in Nodes, t \in Timestamps :
           /\ last' = [last EXCEPT ![n] = t] /\ t >= last[n]
           /\ n \notin Windows => t = node[n].out
           /\ Watermark(n, t) \in Announced /\ forwarding' = Append(forwarding, Watermark(n, t))
    BY <1>3, EmittedMark, Zenon
  <2>2. UNCHANGED node /\ t \in Nat
    BY <1>3 DEF EmitWatermark, Timestamps, TopologyAssumption
  <2>3. Watermark(n, t).value = t /\ Watermark(n, t).node = n
    BY DEF Watermark
  <2>4. /\ last'[n] = t /\ \A m \in Nodes : last'[m] >= last[m] /\ last'[m] \in Nat /\ (m # n => last'[m] = last[m])
    BY <1>0, <2>1, <2>2 DEF TypeInv, TreeType
  <2>5. \A m \in Nodes \ Windows : last'[m] <= node'[m].out
    BY <1>0, <2>1, <2>2, <2>4 DEF ClockInv
  <2>6. ASSUME NEW m \in Nodes, NEW i \in MarksOf(m)'
        PROVE  /\ forwarding'[i].value <= last'[m]
               /\ \A j \in MarksOf(m)' : i <= j => forwarding'[i].value <= forwarding'[j].value
    <3>1. \A k \in MarksOf(m)' :
            \/ k \in MarksOf(m) /\ forwarding'[k] = forwarding[k] /\ k < Len(forwarding) + 1
            \/ k = Len(forwarding) + 1 /\ forwarding'[k].value = t /\ m = n
      <4> DEFINE e == Watermark(n, t)
      <4>1. e \in Announced /\ forwarding' = Append(forwarding, e) /\ e.value = t /\ e.node = n
        BY <2>1, <2>3
      <4> HIDE DEF e
      <4>2. \A k \in MarksOf(m)' :
              \/ k \in MarksOf(m) /\ forwarding'[k] = forwarding[k] /\ k < Len(forwarding) + 1
              \/ k = Len(forwarding) + 1 /\ forwarding'[k] = e /\ e.kind = "watermark" /\ e.node = m
        BY <1>0, <4>1, AppendMarks, Zenon
      <4> QED
        BY <4>1, <4>2, Zenon
    <3>2. \A k \in MarksOf(m) : forwarding[k].value <= last[m]
      BY DEF ClockInv
    <3>3. \A k, l \in MarksOf(m) : k <= l => forwarding[k].value <= forwarding[l].value
      BY DEF ClockInv
    <3>4. forwarding'[i].value <= last'[m]
      BY <1>0, <2>2, <2>4, <3>1, <3>2
    <3>5. ASSUME NEW j \in MarksOf(m)', i <= j PROVE forwarding'[i].value <= forwarding'[j].value
      <4>1. CASE j = Len(forwarding) + 1 /\ forwarding'[j].value = t /\ m = n
        BY <2>4, <3>4, <4>1
      <4>2. CASE j \in MarksOf(m) /\ forwarding'[j] = forwarding[j] /\ j < Len(forwarding) + 1
        <5>1. i \in MarksOf(m) /\ forwarding'[i] = forwarding[i]
          BY <1>0, <3>1, <3>5, <4>2
        <5> QED
          BY <3>3, <3>5, <4>2, <5>1
      <4> QED
        BY <3>1, <4>1, <4>2
    <3> QED
      BY <3>4, <3>5
  <2> QED
    BY <2>5, <2>6 DEF ClockInv
<1>4. CASE EmitStatus
  <2> DEFINE e == Status(Head(calls).node, Head(calls).value)
  <2>1. Top("emitStatus") /\ forwarding' = Append(forwarding, e) /\ UNCHANGED <<last, node>>
    BY <1>4 DEF EmitStatus, tree
  <2>2. e \in Announced /\ e.kind # "watermark"
    BY <2>1, EmittedEvents DEF Status
  <2> HIDE DEF e
  <2> QED
    BY <1>2, <2>1, <2>2
<1>5. CASE NodeEndInput
  <2> DEFINE e == EndInput(Head(calls).node)
  <2>1. Top("end") /\ (forwarding' = Append(forwarding, e) \/ forwarding' = forwarding) /\ UNCHANGED <<last, node>>
    BY <1>5, Zenon DEF NodeEndInput
  <2>2. e \in Announced /\ e.kind # "watermark"
    BY <2>1, EmittedEvents DEF EndInput
  <2>3. \A n \in Nodes : node'[n].out \in Nat /\ node'[n].out >= node[n].out
    BY <1>0, <2>1
  <2> HIDE DEF e
  <2> QED
    BY <1>1, <1>2, <2>1, <2>2, <2>3
<1>6. CASE Forward
  <2>1. forwarding # <<>> /\ forwarding' = Tail(forwarding) /\ UNCHANGED <<last, node>>
    BY <1>6 DEF Forward, tree
  <2>2. \A n : \A i \in MarksOf(n)' : i \in Nat /\ i + 1 \in MarksOf(n) /\ forwarding'[i] = forwarding[i + 1]
    BY <1>0, <2>1, TailMarks
  <2>3. ASSUME NEW n \in Nodes, NEW i \in MarksOf(n)'
        PROVE  /\ forwarding'[i].value <= last'[n]
               /\ \A j \in MarksOf(n)' : i <= j => forwarding'[i].value <= forwarding'[j].value
    <3>1. forwarding'[i].value <= last'[n]
      BY <2>1, <2>2, Zenon DEF ClockInv
    <3>2. ASSUME NEW j \in MarksOf(n)', i <= j PROVE forwarding'[i].value <= forwarding'[j].value
      <4>1. i + 1 \in MarksOf(n) /\ j + 1 \in MarksOf(n) /\ i + 1 <= j + 1
        BY <2>2, <3>2
      <4>2. forwarding[i + 1].value <= forwarding[j + 1].value
        BY <4>1 DEF ClockInv
      <4> QED
        BY <2>2, <4>2
    <3> QED
      BY <3>1, <3>2
  <2> QED
    BY <2>1, <2>3, Zenon DEF ClockInv
<1>7. CASE NativeFails \/ ForwardFails
  <2>1. forwarding' = <<>> /\ UNCHANGED <<last, node>>
    BY <1>7 DEF NativeFails, ForwardFails, Abandon, tree
  <2>2. \A n : MarksOf(n)' = {}
    BY <2>1 DEF MarksOf
  <2> QED
    BY <2>1, <2>2 DEF ClockInv
<1>8. CASE Next /\ (NodeWatermark \/ NodeStatus)
  <2>1. UNCHANGED <<last, forwarding>>
    BY <1>8, Zenon DEF NodeWatermark, NodeStatus, scheduler
  <2>2. \A n \in Nodes : node'[n].out \in Nat /\ node'[n].out >= node[n].out
    BY <1>8, TreeTypeStep DEF TreeType, NodeStates, Timestamps
  <2> QED
    BY <1>1, <2>1, <2>2
<1>9. CASE Arrival \/ FlushFirst \/ FlushNative \/ FlushDone \/ Return \/ UNCHANGED vars
  <2>1. UNCHANGED <<last, forwarding, node>>
    BY <1>9 DEF Arrival, Dispatch, FlushFirst, FlushNative, FlushDone, Return, vars, tree, scheduler
  <2>2. \A n \in Nodes : node'[n].out \in Nat /\ node'[n].out >= node[n].out
    BY <1>0, <2>1
  <2> QED
    BY <1>1, <2>1, <2>2, Zenon
<1> QED
  BY NextIs, <1>3, <1>4, <1>5, <1>6, <1>7, <1>8, <1>9 DEF Step

\* The next watermark that an exit of the region announces.
LEMMA ForwardedMark ==
  ASSUME TopologyAssumption, TypeInv, ClockInv, WaveInv, Forward,
         NEW e \in Announced, e = Head(forwarding), External(e), e.kind = "watermark"
  PROVE  /\ e.node \in Outputs /\ e.value \in Timestamps
         /\ \A x \in wave.watermark : x[1] # e.node
         /\ e.value >= out.wm /\ e.value <= last[e.node]
         /\ \A i \in MarksOf(e.node)' : e.value <= forwarding'[i].value
<1>1. e.node \in Outputs /\ e.node \in Nodes /\ e.value \in Timestamps
  BY DEF External, Announced, TopologyAssumption
<1>2. /\ forwarding \in Seq(Announced) /\ forwarding # <<>> /\ forwarding' = Tail(forwarding)
      /\ ~(External(Head(forwarding)) /\ Disagrees(Head(forwarding)))
  BY DEF TypeInv, LogType, Forward
<1>3. \A x \in wave.watermark : x[1] # e.node
  BY <1>2 DEF Disagrees
<1>4. 1 \in MarksOf(e.node) /\ forwarding[1] = e
  <2>1. 1 \in DOMAIN forwarding /\ forwarding[1] = e
    BY <1>2, TailElements
  <2> QED
    BY <2>1 DEF MarksOf
<1>5. e.value >= out.wm /\ e.value <= last[e.node]
  BY <1>1, <1>4 DEF WaveInv, ClockInv
<1>6. ASSUME NEW i \in MarksOf(e.node)' PROVE e.value <= forwarding'[i].value
  <2>1. i \in Nat /\ i + 1 \in MarksOf(e.node) /\ forwarding'[i] = forwarding[i + 1]
    BY <1>2, TailMarks, Zenon
  <2>2. forwarding[1].value <= forwarding[i + 1].value
    BY <1>1, <1>4, <2>1 DEF ClockInv
  <2> QED
    BY <1>4, <2>1, <2>2
<1> QED
  BY <1>1, <1>3, <1>5, <1>6, Zenon

\* The exits of a region announce a watermark together; it is then behind none
\* that they announced before and ahead of none that they still will.
LEMMA WaveStep ==
  ASSUME TopologyAssumption, TypeInv, EmitInv, ClockInv, WaveInv, [Next]_vars
  PROVE  WaveInv' /\ out'.wm >= out.wm
<1>0. /\ forwarding \in Seq(Announced) /\ out.wm \in Nat
      /\ wave.watermark \in SUBSET (Outputs \X Timestamps)
      /\ \A n \in Outputs : n \in Nodes /\ last[n] \in Nat
      /\ \A n : \A i \in MarksOf(n) : forwarding[i].value \in Nat
  <2>1. Timestamps \subseteq Nat
    BY DEF Timestamps, TopologyAssumption
  <2>2. \A n : \A i \in MarksOf(n) : forwarding[i].value \in Timestamps
    BY MarkValues
  <2>3. forwarding \in Seq(Announced) /\ out.wm \in Timestamps /\ wave.watermark \in SUBSET (Outputs \X Timestamps)
    BY DEF TypeInv, LogType, OutType
  <2>4. \A n \in Outputs : n \in Nodes /\ last[n] \in Timestamps
    BY Zenon DEF TypeInv, TreeType, TopologyAssumption
  <2> QED
    BY <2>1, <2>2, <2>3, <2>4, Zenon
\* A step that announces no watermark and only adds those that the tree emits.
<1>1. ASSUME wave'.watermark = wave.watermark, out'.wm = out.wm,
             \A n \in Outputs : last'[n] >= last[n] /\ last'[n] \in Nat,
             \A n \in Outputs : \A i \in MarksOf(n)' :
               \/ \E j \in MarksOf(n) : forwarding'[i] = forwarding[j]
               \/ forwarding'[i].value \in Nat /\ forwarding'[i].value >= last[n]
      PROVE  WaveInv' /\ out'.wm >= out.wm
  <2>1. \A n \in Outputs : last[n] >= out.wm /\ \A j \in MarksOf(n) : forwarding[j].value >= out.wm
    BY Zenon DEF WaveInv
  <2>2. \A n \in Outputs : last'[n] >= out.wm
    BY <1>0, <1>1, <2>1
  <2>3. ASSUME NEW n \in Outputs, NEW i \in MarksOf(n)' PROVE forwarding'[i].value >= out.wm
    <3>1. CASE \E j \in MarksOf(n) : forwarding'[i] = forwarding[j]
      BY <2>1, <3>1
    <3>2. CASE forwarding'[i].value \in Nat /\ forwarding'[i].value >= last[n]
      BY <1>0, <2>1, <3>2
    <3> QED
      BY <1>1, <3>1, <3>2
  <2>4. ASSUME NEW x \in wave.watermark
        PROVE  /\ x[2] >= out.wm /\ x[2] <= last'[x[1]]
               /\ \A i \in MarksOf(x[1])' : x[2] <= forwarding'[i].value
    <3>1. /\ x[1] \in Outputs /\ x[2] \in Nat /\ x[2] >= out.wm /\ x[2] <= last[x[1]]
          /\ \A j \in MarksOf(x[1]) : x[2] <= forwarding[j].value
      BY <1>0 DEF WaveInv, Timestamps, TopologyAssumption
    <3>2. x[2] <= last'[x[1]]
      BY <1>0, <1>1, <3>1
    <3>3. ASSUME NEW i \in MarksOf(x[1])' PROVE x[2] <= forwarding'[i].value
      <4>1. CASE \E j \in MarksOf(x[1]) : forwarding'[i] = forwarding[j]
        BY <3>1, <4>1
      <4>2. CASE forwarding'[i].value \in Nat /\ forwarding'[i].value >= last[x[1]]
        BY <1>0, <3>1, <4>2
      <4> QED
        BY <1>1, <3>1, <4>1, <4>2
    <3> QED
      BY <3>1, <3>2, <3>3, Zenon
  <2>5. out'.wm >= out.wm
    BY <1>0, <1>1
  <2>6. \A x, y \in wave.watermark : x[1] = y[1] => x = y
    BY DEF WaveInv
  <2> QED
    BY <1>1, <2>2, <2>3, <2>4, <2>5, <2>6, Zenon DEF WaveInv
<1>2. ASSUME UNCHANGED last, wave'.watermark = wave.watermark, out'.wm = out.wm,
             \/ UNCHANGED forwarding
             \/ forwarding' = <<>>
             \/ forwarding # <<>> /\ forwarding' = Tail(forwarding)
             \/ \E e \in Announced : e.kind # "watermark" /\ forwarding' = Append(forwarding, e)
      PROVE  WaveInv' /\ out'.wm >= out.wm
  <2>1. \A n \in Outputs : last'[n] >= last[n] /\ last'[n] \in Nat
    BY <1>0, <1>2
  <2>2. ASSUME NEW n \in Outputs, NEW i \in MarksOf(n)'
        PROVE  \E j \in MarksOf(n) : forwarding'[i] = forwarding[j]
    <3>1. CASE UNCHANGED forwarding
      BY <3>1 DEF MarksOf
    <3>2. CASE forwarding' = <<>>
      BY <3>2 DEF MarksOf
    <3>3. CASE forwarding # <<>> /\ forwarding' = Tail(forwarding)
      BY <1>0, <3>3, TailMarks, Zenon
    <3>4. CASE \E e \in Announced : e.kind # "watermark" /\ forwarding' = Append(forwarding, e)
      BY <1>0, <3>4, AppendMarks, Zenon
    <3> QED
      BY <1>2, <3>1, <3>2, <3>3, <3>4
  <2> QED
    BY <1>1, <1>2, <2>1, <2>2
<1>3. CASE EmitWatermark
  <2>1. PICK n \in Nodes, t \in Timestamps :
           /\ last' = [last EXCEPT ![n] = t] /\ t >= last[n]
           /\ Watermark(n, t) \in Announced /\ forwarding' = Append(forwarding, Watermark(n, t))
    BY <1>3, EmittedMark, Zenon
  <2>2. UNCHANGED <<wave, out>> /\ t \in Nat
    BY <1>3 DEF EmitWatermark, Timestamps, TopologyAssumption
  <2>3. \A m \in Outputs : last'[m] >= last[m] /\ last'[m] \in Nat
    BY <1>0, <2>1, <2>2 DEF TypeInv, TreeType
  <2> DEFINE e == Watermark(n, t)
  <2>4. e.value = t /\ e.node = n /\ e \in Announced /\ forwarding' = Append(forwarding, e)
    BY <2>1 DEF Watermark
  <2> HIDE DEF e
  <2>5. ASSUME NEW m
        PROVE  \A i \in MarksOf(m)' :
                 \/ i \in MarksOf(m) /\ forwarding'[i] = forwarding[i]
                 \/ forwarding'[i] = e /\ e.node = m
    <3>1. \A i \in MarksOf(m)' :
             \/ i \in MarksOf(m) /\ forwarding'[i] = forwarding[i] /\ i < Len(forwarding) + 1
             \/ i = Len(forwarding) + 1 /\ forwarding'[i] = e /\ e.kind = "watermark" /\ e.node = m
      BY <1>0, <2>4, AppendMarks, Zenon
    <3> QED
      BY <3>1, Zenon
  <2>6. \A m \in Outputs : \A i \in MarksOf(m)' :
          \/ \E j \in MarksOf(m) : forwarding'[i] = forwarding[j]
          \/ forwarding'[i].value \in Nat /\ forwarding'[i].value >= last[m]
    BY <2>1, <2>2, <2>4, <2>5, Zenon
  <2> QED
    BY <1>1, <2>2, <2>3, <2>6
<1>4. CASE EmitStatus
  <2> DEFINE e == Status(Head(calls).node, Head(calls).value)
  <2>1. Top("emitStatus") /\ forwarding' = Append(forwarding, e) /\ UNCHANGED <<last, wave, out>>
    BY <1>4, Zenon DEF EmitStatus, tree
  <2>2. e \in Announced /\ e.kind # "watermark"
    BY <2>1, EmittedEvents DEF Status
  <2> HIDE DEF e
  <2> QED
    BY <1>2, <2>1, <2>2
<1>5. CASE NodeEndInput
  <2> DEFINE e == EndInput(Head(calls).node)
  <2>1. Top("end") /\ (forwarding' = Append(forwarding, e) \/ forwarding' = forwarding) /\ UNCHANGED <<last, wave, out>>
    BY <1>5, Zenon DEF NodeEndInput
  <2>2. e \in Announced /\ e.kind # "watermark"
    BY <2>1, EmittedEvents DEF EndInput
  <2> HIDE DEF e
  <2> QED
    BY <1>2, <2>1, <2>2
<1>6. CASE Forward
  <2>1. forwarding # <<>> /\ forwarding' = Tail(forwarding) /\ UNCHANGED last
    BY <1>6 DEF Forward, tree
  <2>2. PICK e \in Announced : e = Head(forwarding)
    <3>1. Head(forwarding) \in Announced
      BY <1>0, <2>1, TailElements, SeqElement
    <3> QED
      BY <3>1
  <2> DEFINE W == wave.watermark \cup {<<e.node, e.value>>}
  <2>3. wave \in [watermark : SUBSET (Outputs \X Timestamps), status : SUBSET (Outputs \X BOOLEAN)]
        /\ out \in [wm : Timestamps, idle : BOOLEAN, barrier : 0..MaxCheckpoints, finished : BOOLEAN]
    BY DEF TypeInv, OutType
  <2>4. CASE ~(External(e) /\ e.kind = "watermark")
    <3>1. \/ UNCHANGED <<wave, out>>
          \/ /\ e.kind = "status"
             /\ \E v : wave' = [wave EXCEPT !.status = v]
             /\ out' = out \/ out' = [out EXCEPT !.idle = e.value]
      <4>1. External(e) => e.kind = "status"
        BY <2>2, <2>4 DEF External, Announced
      <4> QED
        BY <1>6, <2>2, <2>4, <4>1, Zenon DEF Forward, Emit
    <3>2. wave'.watermark = wave.watermark /\ out'.wm = out.wm
      BY <2>3, <3>1
    <3> QED
      BY <1>2, <2>1, <3>2
  <2>5. CASE External(e) /\ e.kind = "watermark"
    <3>1. /\ e.node \in Outputs /\ e.value \in Timestamps
          /\ \A x \in wave.watermark : x[1] # e.node
          /\ e.value >= out.wm /\ e.value <= last[e.node]
          /\ \A i \in MarksOf(e.node)' : e.value <= forwarding'[i].value
      BY <1>6, <2>2, <2>5, ForwardedMark
    <3>2. \/ wave' = [wave EXCEPT !.watermark = W] /\ out' = out
          \/ /\ wave' = [wave EXCEPT !.watermark = {}] /\ out' = [out EXCEPT !.wm = e.value]
             /\ \A n \in Outputs : \E x \in W : x[1] = n
             /\ \A x \in wave.watermark : x[2] = e.value
      BY <1>6, <2>2, <2>5, Zenon DEF Forward, Emit, Leaves, Wave, Disagrees
    <3>3. W \in SUBSET (Outputs \X Timestamps)
      BY <2>3, <3>1
    <3>4. \A x, y \in W : x[1] = y[1] => x = y
      <4>1. \A x, y \in wave.watermark : x[1] = y[1] => x = y
        BY Zenon DEF WaveInv
      <4> QED
        BY <3>1, <4>1
    <3>5. ASSUME NEW x \in W
          PROVE  /\ x[1] \in Outputs /\ x[2] >= out.wm /\ x[2] <= last[x[1]]
                 /\ \A i \in MarksOf(x[1])' : x[2] <= forwarding'[i].value
      <4>1. CASE x = <<e.node, e.value>>
        BY <3>1, <4>1, Zenon
      <4>2. CASE x \in wave.watermark
        <5>1. \A i \in MarksOf(x[1])' : i + 1 \in MarksOf(x[1]) /\ forwarding'[i] = forwarding[i + 1]
          BY <1>0, <2>1, TailMarks, Zenon
        <5> QED
          BY <1>0, <4>2, <5>1 DEF WaveInv
      <4> QED
        BY <4>1, <4>2
    <3>6. \A n \in Outputs : \A i \in MarksOf(n)' : forwarding'[i].value >= out.wm
      <4>1. \A n : \A i \in MarksOf(n)' : i + 1 \in MarksOf(n) /\ forwarding'[i] = forwarding[i + 1]
        BY <1>0, <2>1, TailMarks, Zenon
      <4> QED
        BY <4>1 DEF WaveInv
    <3>7. CASE wave' = [wave EXCEPT !.watermark = W] /\ out' = out
      <4> HIDE DEF W
      <4>1. wave'.watermark = W /\ out'.wm = out.wm /\ out'.wm >= out.wm
        BY <1>0, <2>3, <3>7
      <4>2. \A n \in Outputs : last'[n] >= out'.wm
        BY <2>1, <4>1, Zenon DEF WaveInv
      <4> QED
        BY <2>1, <3>4, <3>5, <3>6, <4>1, <4>2, Zenon DEF WaveInv
    <3>8. CASE /\ wave' = [wave EXCEPT !.watermark = {}] /\ out' = [out EXCEPT !.wm = e.value]
               /\ \A n \in Outputs : \E x \in W : x[1] = n
               /\ \A x \in wave.watermark : x[2] = e.value
      <4>1. wave'.watermark = {} /\ out'.wm = e.value
        BY <2>3, <3>8
      <4>2. \A x \in W : x[2] = e.value
        BY <3>8
      <4> HIDE DEF W
      <4>3. \A n \in Outputs : \E x \in W : x[1] = n
        BY <3>8
      <4>4. \A n \in Outputs : /\ last'[n] >= e.value
                               /\ \A i \in MarksOf(n)' : forwarding'[i].value >= e.value
        BY <2>1, <3>5, <4>2, <4>3, Zenon
      <4> QED
        BY <3>1, <4>1, <4>4 DEF WaveInv
    <3> QED
      BY <3>2, <3>7, <3>8
  <2> QED
    BY <2>4, <2>5
<1>7. CASE NativeFails \/ ForwardFails
  <2>1. forwarding' = <<>> /\ UNCHANGED <<last, wave, out>>
    BY <1>7 DEF NativeFails, ForwardFails, Abandon, tree
  <2> QED
    BY <1>2, <2>1
<1>8. CASE Return
  <2>1. UNCHANGED <<last, wave, forwarding>>
    BY <1>8 DEF Return, tree
  <2>2. out'.wm = out.wm
    BY <1>8 DEF Return, TypeInv, OutType
  <2> QED
    BY <1>2, <2>1, <2>2
<1>9. CASE \/ Arrival \/ NodeWatermark \/ NodeStatus \/ FlushFirst \/ FlushNative \/ FlushDone
           \/ UNCHANGED vars
  <2>1. UNCHANGED <<last, wave, forwarding, out>>
    BY <1>9, Zenon DEF Arrival, Dispatch, NodeWatermark, NodeStatus, FlushFirst, FlushNative, FlushDone,
                vars, tree, scheduler
  <2> QED
    BY <1>2, <2>1
<1> QED
  BY NextIs, <1>3, <1>4, <1>5, <1>6, <1>7, <1>8, <1>9 DEF Step

-----------------------------------------------------------------------------
\* Every watermark of the tree reaches its stage once.

\* A control that is no watermark adds none to those a stage received.
LEMMA JoinedMarks ==
  ASSUME NEW s \in Seq(Events), NEW q,
         q = <<>> \/ \E c \in Events : q = <<c>> /\ c.kind # "watermark"
  PROVE  /\ {k \in DOMAIN (s \o q) : (s \o q)[k].kind = "watermark"}
              = {k \in DOMAIN s : s[k].kind = "watermark"}
         /\ \A k \in DOMAIN s : (s \o q)[k] = s[k]
<1>1. CASE q = <<>>
  <2>1. s \o <<>> = s
    OBVIOUS
  <2> QED
    BY <1>1, <2>1
<1>2. ASSUME NEW c \in Events, q = <<c>>, c.kind # "watermark"
      PROVE  /\ {k \in DOMAIN (s \o q) : (s \o q)[k].kind = "watermark"}
                  = {k \in DOMAIN s : s[k].kind = "watermark"}
             /\ \A k \in DOMAIN s : (s \o q)[k] = s[k]
  <2>1. /\ DOMAIN (s \o <<c>>) = DOMAIN s \cup {Len(s) + 1} /\ Len(s) + 1 \notin DOMAIN s
        /\ (s \o <<c>>)[Len(s) + 1] = c
        /\ \A k \in DOMAIN s : (s \o <<c>>)[k] = s[k]
    OBVIOUS
  <2> QED
    BY <1>2, <2>1
<1> QED
  BY <1>1, <1>2

\* The events of the tree behind a new one.
LEMMA SentMarks ==
  ASSUME emitted \in Seq(Announced), NEW e \in Announced, emitted' = Append(emitted, e), NEW n
  PROVE  /\ Sent(n)' = IF e.kind = "watermark" /\ e.node = n THEN Sent(n) \cup {Len(emitted) + 1} ELSE Sent(n)
         /\ \A i \in Sent(n) : emitted'[i] = emitted[i] /\ i < Len(emitted) + 1 /\ i \in Nat
         /\ emitted'[Len(emitted) + 1] = e /\ Len(emitted) \in Nat
<1>1. /\ DOMAIN emitted' = DOMAIN emitted \cup {Len(emitted) + 1}
      /\ \A i \in DOMAIN emitted : emitted'[i] = emitted[i] /\ i < Len(emitted) + 1 /\ i \in Nat
      /\ emitted'[Len(emitted) + 1] = e /\ Len(emitted) \in Nat
  OBVIOUS
<1>2. \A i \in Sent(n) : emitted'[i] = emitted[i] /\ i < Len(emitted) + 1 /\ i \in Nat
  BY <1>1, Zenon DEF Sent
<1> QED
  BY <1>1, <1>2 DEF Sent

LEMMA SameDelivery ==
  ASSUME NEW n, DeliveredOnce(n), Received(n)' = Received(n), Sent(n)' = Sent(n),
         \A k \in Received(n) : Reached(n)'[k] = Reached(n)[k],
         \A i \in Sent(n) : emitted'[i] = emitted[i]
  PROVE  DeliveredOnce(n)'
<1>1. PICK at \in [Received(n) -> Sent(n)] :
    /\ \A i \in Sent(n) : \E k \in Received(n) : at[k] = i
    /\ \A k \in Received(n) : Reached(n)[k] = emitted[at[k]]
    /\ \A k, l \in Received(n) : k < l => at[k] < at[l]
  BY Zenon DEF DeliveredOnce
<1>2. at \in [Received(n)' -> Sent(n)'] /\ \A k \in Received(n)' : Reached(n)'[k] = emitted'[at[k]]
  BY <1>1
<1> QED
  BY <1>1, <1>2 DEF DeliveredOnce

\* The tree emits a watermark at a stage that has none pending.
LEMMA NextDelivery ==
  ASSUME TypeInv, NEW n \in Nodes, DeliveredOnce(n), NEW e \in Announced, e.kind = "watermark", e.node = n,
         emitted' = Append(emitted, e), native' = native, Queued(n) = <<>>, Queued(n)' = <<e>>
  PROVE  DeliveredOnce(n)'
<1> DEFINE L == Len(native[n]) + 1
           M == Len(emitted) + 1
<1>1. native[n] \in Seq(Events) /\ emitted \in Seq(Announced) /\ e \in Events
  BY DEF TypeInv, LogType, Events
<1>2. /\ Sent(n)' = Sent(n) \cup {M} /\ emitted'[M] = e
      /\ \A i \in Sent(n) : emitted'[i] = emitted[i] /\ i < M
  BY <1>1, SentMarks, Zenon
<1>3. Reached(n) = native[n] /\ Reached(n)' = native[n] \o <<e>>
  BY <1>1 DEF Reached
<1>4. /\ DOMAIN (native[n] \o <<e>>) = DOMAIN native[n] \cup {L} /\ L \notin DOMAIN native[n]
      /\ (native[n] \o <<e>>)[L] = e /\ L \in Nat
      /\ \A k \in DOMAIN native[n] : (native[n] \o <<e>>)[k] = native[n][k] /\ k < L /\ k \in Nat
  BY <1>1
<1>5. /\ Received(n)' = Received(n) \cup {L} /\ L \notin Received(n)
      /\ Reached(n)'[L] = e
      /\ \A k \in Received(n) : Reached(n)'[k] = Reached(n)[k] /\ k < L /\ k \in Nat
  BY <1>3, <1>4 DEF Received
<1>6. PICK at \in [Received(n) -> Sent(n)] :
    /\ \A i \in Sent(n) : \E k \in Received(n) : at[k] = i
    /\ \A k \in Received(n) : Reached(n)[k] = emitted[at[k]]
    /\ \A k, l \in Received(n) : k < l => at[k] < at[l]
  BY DEF DeliveredOnce
<1>7. PICK R, S, T, l0, m0 : R = Received(n) /\ S = Sent(n) /\ T = Received(n)' /\ l0 = L /\ m0 = M
  OBVIOUS
<1> HIDE DEF L, M
<1>8. PICK to \in [T -> S \cup {m0}] : to[l0] = m0 /\ \A k \in R : to[k] = at[k]
  <2> DEFINE f == [k \in T |-> IF k = l0 THEN m0 ELSE at[k]]
  <2>1. f \in [T -> S \cup {m0}] /\ f[l0] = m0 /\ \A k \in R : f[k] = at[k]
    BY <1>5, <1>6, <1>7, Zenon
  <2> HIDE DEF f
  <2> QED
    BY <2>1, Zenon
<1>9. \A i \in S \cup {m0} : \E k \in T : to[k] = i
  BY <1>5, <1>6, <1>7, <1>8
<1>10. ASSUME NEW k \in T PROVE Reached(n)'[k] = emitted'[to[k]]
  <2>1. CASE k = L
    BY <1>2, <1>5, <1>7, <1>8, <2>1, Zenon
  <2>2. CASE k \in Received(n)
    <3>1. to[k] = at[k] /\ at[k] \in Sent(n) /\ Reached(n)[k] = emitted[at[k]]
      BY <1>6, <1>7, <1>8, <2>2, Zenon
    <3> QED
      BY <1>2, <1>5, <2>2, <3>1, Zenon
  <2> QED
    BY <1>5, <1>7, <2>1, <2>2, Zenon
<1>11. \A k, l \in T : k < l => to[k] < to[l]
  <2>1. \A k \in R : to[k] < m0
    BY <1>2, <1>6, <1>7, <1>8
  <2>2. \A l \in T : ~(l0 < l)
    BY <1>4, <1>5, <1>7
  <2> QED
    BY <1>5, <1>6, <1>7, <1>8, <2>1, <2>2
<1>12. to \in [Received(n)' -> Sent(n)']
  BY <1>2, <1>7, <1>8
<1>13. /\ \A i \in Sent(n)' : \E k \in Received(n)' : to[k] = i
       /\ \A k \in Received(n)' : Reached(n)'[k] = emitted'[to[k]]
       /\ \A k, l \in Received(n)' : k < l => to[k] < to[l]
  BY <1>2, <1>7, <1>9, <1>10, <1>11, Zenon
<1> QED
  BY <1>12, <1>13, Zenon DEF DeliveredOnce

\* The listener flushes before a second watermark for the same stage.
LEMMA DeliveryStep ==
  ASSUME TopologyAssumption, TypeInv, WatermarksNotMerged, [Next]_vars
  PROVE  WatermarksNotMerged'
<1>0. /\ WatermarkStages \subseteq Nodes /\ emitted \in Seq(Announced)
      /\ \A n \in Nodes : native[n] \in Seq(Events)
  BY DEF TypeInv, LogType, TopologyAssumption
<1>1. ASSUME UNCHANGED <<native, pending, emitted, failed>> PROVE WatermarksNotMerged'
  <2>1. ASSUME NEW n, DeliveredOnce(n) PROVE DeliveredOnce(n)'
    <3>1. Reached(n)' = Reached(n)
      BY <1>1 DEF Reached, Queued
    <3>2. Received(n)' = Received(n) /\ Sent(n)' = Sent(n)
      BY <1>1, <3>1 DEF Received, Sent
    <3> QED
      BY <1>1, <2>1, <3>1, <3>2, SameDelivery
  <2> QED
    BY <1>1, <2>1 DEF WatermarksNotMerged
<1>2. ASSUME failed' # "no" PROVE WatermarksNotMerged'
  BY <1>2 DEF WatermarksNotMerged
\* A dispatch whose controls are no watermarks.
<1>3. ASSUME PendingType, PendingType', ControlOf(arrival) # "watermark", ControlOf(arrival') # "watermark",
             UNCHANGED <<native, failed>>,
             \/ UNCHANGED emitted
             \/ \E e \in Announced : e.kind # "watermark" /\ emitted' = Append(emitted, e)
      PROVE  WatermarksNotMerged'
  <2>1. ASSUME NEW n \in WatermarkStages, DeliveredOnce(n)
        PROVE  DeliveredOnce(n)'
    <3>1. Queued(n) = <<>> \/ \E c \in Events : Queued(n) = <<c>> /\ c.kind # "watermark"
      BY <1>3, Zenon DEF Queued, PendingType
    <3>2. Queued(n)' = <<>> \/ \E c \in Events : Queued(n)' = <<c>> /\ c.kind # "watermark"
      BY <1>3, Zenon DEF Queued, PendingType
    <3>3. native[n] \in Seq(Events) /\ native'[n] = native[n]
      BY <1>0, <1>3, <2>1, Zenon
    <3>4. /\ Received(n) = {k \in DOMAIN native[n] : native[n][k].kind = "watermark"}
          /\ \A k \in DOMAIN native[n] : Reached(n)[k] = native[n][k]
      BY <3>1, <3>3, JoinedMarks, Zenon DEF Received, Reached
    <3>5. /\ Received(n)' = {k \in DOMAIN native[n] : native[n][k].kind = "watermark"}
          /\ \A k \in DOMAIN native[n] : Reached(n)'[k] = native[n][k]
      BY <3>2, <3>3, JoinedMarks DEF Received, Reached
    <3>6. Sent(n)' = Sent(n) /\ \A i \in Sent(n) : emitted'[i] = emitted[i]
      <4>1. CASE UNCHANGED emitted
        BY <4>1 DEF Sent
      <4>2. CASE \E e \in Announced : e.kind # "watermark" /\ emitted' = Append(emitted, e)
        BY <1>0, <4>2, SentMarks, Zenon
      <4> QED
        BY <1>3, <4>1, <4>2
    <3> QED
      BY <2>1, <3>4, <3>5, <3>6, SameDelivery, Zenon
  <2> QED
    BY <1>3, <2>1 DEF WatermarksNotMerged
<1>4. CASE Next /\ Arrival
  <2>1. PICK kind \in Kinds :
          arrival' = kind /\ pending' = Controls(kind) /\ emitted' = <<>> /\ native' = NoEvents
    BY <1>4 DEF Arrival, Dispatch
  <2>2. ASSUME NEW n \in WatermarkStages PROVE DeliveredOnce(n)'
    <3>1. \A c \in pending' : c.kind # "watermark" /\ c \in Events
      <4>1. \A c \in Controls(kind) : c.kind # "watermark"
        BY DEF Controls, BeforeCheckpoint
      <4>2. pending' \subseteq Events
        BY <1>4, PendingTypeStep DEF PendingType
      <4> QED
        BY <2>1, <4>1, <4>2
    <3>2. Queued(n)' = <<>> \/ \E c \in Events : Queued(n)' = <<c>> /\ c.kind # "watermark"
      BY <3>1, Zenon DEF Queued
    <3>3. native'[n] = <<>> /\ <<>> \in Seq(Events) /\ DOMAIN <<>> = {}
      BY <1>0, <2>1 DEF NoEvents
    <3>4. Received(n)' = {}
      BY <3>2, <3>3, JoinedMarks DEF Received, Reached
    <3>5. Sent(n)' = {}
      BY <2>1 DEF Sent
    <3>6. [x \in {} |-> x] \in [{} -> {}]
      OBVIOUS
    <3> QED
      BY <3>4, <3>5, <3>6, Zenon DEF DeliveredOnce
  <2> QED
    BY <2>2 DEF WatermarksNotMerged
<1>5. CASE Next /\ NodeEndInput
  <2> DEFINE e == EndInput(Head(calls).node)
  <2>1. Top("end") /\ UNCHANGED <<native, failed, arrival>> /\ (emitted' = Append(emitted, e) \/ UNCHANGED emitted)
    BY <1>5, Zenon DEF NodeEndInput, environment
  <2>2. e \in Announced /\ e.kind # "watermark"
    BY <2>1, EmittedEvents DEF EndInput
  <2>3. ControlOf(arrival) # "watermark"
    BY <2>1, TopFrame DEF OpsOf, ControlOf
  <2>4. PendingType /\ PendingType'
    BY <1>5, PendingTypeStep DEF TypeInv
  <2> HIDE DEF e
  <2> QED
    BY <1>3, <2>1, <2>2, <2>3, <2>4
<1>6. CASE EmitStatus
  <2> DEFINE e == Status(Head(calls).node, Head(calls).value)
  <2>1. Top("emitStatus") /\ UNCHANGED <<native, failed, pending>> /\ emitted' = Append(emitted, e)
    BY <1>6, Zenon DEF EmitStatus
  <2>2. e \in Announced /\ e.kind # "watermark"
    BY <2>1, EmittedEvents, Zenon DEF Status
  <2> HIDE DEF e
  <2>3. ASSUME NEW n \in WatermarkStages, DeliveredOnce(n) PROVE DeliveredOnce(n)'
    <3>1. Sent(n)' = Sent(n) /\ \A i \in Sent(n) : emitted'[i] = emitted[i]
      BY <1>0, <2>1, <2>2, SentMarks, Zenon
    <3>2. Reached(n)' = Reached(n)
      BY <2>1 DEF Reached, Queued
    <3>3. Received(n)' = Received(n)
      BY <3>2 DEF Received
    <3> QED
      BY <2>3, <3>1, <3>2, <3>3, SameDelivery
  <2> QED
    BY <2>1, <2>3 DEF WatermarksNotMerged
<1>7. CASE EmitWatermark
  <2>1. PICK m, e : /\ m \in Nodes /\ e \in Announced /\ e.kind = "watermark" /\ e.node = m
                    /\ UNCHANGED <<native, failed>> /\ emitted' = Append(emitted, e)
                    /\ m \in WatermarkStages => \A c \in pending : c.node # m
                    /\ pending' = IF m \in WatermarkStages THEN Put(e) ELSE pending
    <3> DEFINE m == Head(calls).node
               e == Watermark(m, Clock(m, Head(calls).value))
    <3>1. /\ Top("emitWatermark") /\ UNCHANGED <<native, failed>> /\ emitted' = Append(emitted, e)
          /\ pending' = IF m \in WatermarkStages THEN Put(e) ELSE pending
          /\ ~MustFlush(Head(calls))
      BY <1>7, Zenon DEF EmitWatermark
    <3>2. m \in Nodes /\ e \in Announced
      BY <3>1, NodeFrame, EmittedEvents, Zenon
    <3>3. e.kind = "watermark" /\ e.node = m
      BY Zenon DEF Watermark
    <3>4. m \in WatermarkStages => \A c \in pending : c.node # m
      BY <3>1, Zenon DEF MustFlush, Top
    <3> HIDE DEF m, e
    <3> QED
      BY <3>1, <3>2, <3>3, <3>4, Zenon
  <2>2. ASSUME NEW n \in WatermarkStages, DeliveredOnce(n), n # m PROVE DeliveredOnce(n)'
    <3>1. Sent(n)' = Sent(n) /\ \A i \in Sent(n) : emitted'[i] = emitted[i]
      BY <1>0, <2>1, <2>2, SentMarks, Zenon
    <3>2. {c \in pending' : c.node = n} = {c \in pending : c.node = n}
      BY <2>1, <2>2 DEF Put
    <3>3. Queued(n)' = Queued(n)
      <4> DEFINE P == {c \in pending : c.node = n}
                 Q == {c \in pending' : c.node = n}
      <4>1. Queued(n) = IF P = {} THEN <<>> ELSE <<CHOOSE c \in P : TRUE>>
        BY DEF Queued
      <4>2. Queued(n)' = IF Q = {} THEN <<>> ELSE <<CHOOSE c \in Q : TRUE>>
        BY DEF Queued
      <4>3. P = Q
        BY <3>2
      <4> HIDE DEF P, Q
      <4> QED
        BY <4>1, <4>2, <4>3
    <3>4. Reached(n)' = Reached(n)
      BY <2>1, <3>3, Zenon DEF Reached
    <3>5. Received(n)' = Received(n)
      BY <3>4 DEF Received
    <3> QED
      BY <2>2, <3>1, <3>4, <3>5, SameDelivery
  <2>3. ASSUME m \in WatermarkStages, DeliveredOnce(m) PROVE DeliveredOnce(m)'
    <3>1. {c \in pending : c.node = m} = {} /\ {c \in pending' : c.node = m} = {e}
      BY <2>1, <2>3 DEF Put
    <3>2. Queued(m) = <<>> /\ Queued(m)' = <<e>>
      <4>1. (CHOOSE c \in {e} : TRUE) = e
        OBVIOUS
      <4> QED
        BY <3>1, <4>1 DEF Queued
    <3> QED
      BY <2>1, <2>3, <3>2, NextDelivery
  <2> QED
    BY <2>1, <2>2, <2>3 DEF WatermarksNotMerged
<1>8. CASE FlushNative
  <2>1. /\ UNCHANGED <<emitted, failed>> /\ pending' = {}
        /\ native' = [n \in Nodes |-> native[n] \o Queued(n)]
    BY <1>8 DEF FlushNative
  <2>2. ASSUME NEW n \in WatermarkStages, DeliveredOnce(n) PROVE DeliveredOnce(n)'
    <3>1. n \in Nodes /\ Queued(n) \in Seq(Events) /\ native[n] \in Seq(Events)
      BY <1>0, <2>2, QueuedControl DEF TypeInv
    <3>2. Queued(n)' = <<>>
      BY <2>1, Zenon DEF Queued
    <3>3. Reached(n) \in Seq(Events) /\ Reached(n)' = Reached(n) \o <<>>
      BY <2>1, <3>1, <3>2, ConcatElements DEF Reached
    <3>4. Reached(n)' = Reached(n)
      BY <3>3
    <3>5. Received(n)' = Received(n) /\ Sent(n)' = Sent(n)
      BY <2>1, <3>4 DEF Received, Sent
    <3> QED
      BY <2>1, <2>2, <3>4, <3>5, SameDelivery
  <2> QED
    BY <2>1, <2>2 DEF WatermarksNotMerged
<1>9. CASE NativeFails \/ ForwardFails
  <2>1. failed' # "no"
    BY <1>9 DEF NativeFails, ForwardFails, Abandon
  <2> QED
    BY <1>2, <2>1
<1>10. CASE NodeWatermark \/ NodeStatus \/ FlushFirst \/ Forward \/ FlushDone \/ Return \/ UNCHANGED vars
  <2>1. UNCHANGED <<native, pending, emitted, failed>>
    BY <1>10, Zenon DEF NodeWatermark, NodeStatus, FlushFirst, Forward, FlushDone, Return, vars, scheduler, history
  <2> QED
    BY <1>1, <2>1
<1> QED
  BY NextIs, <1>4, <1>5, <1>6, <1>7, <1>8, <1>9, <1>10, Zenon DEF Step

-----------------------------------------------------------------------------
\* The inductive invariant, and the properties that follow from it.

RegionInv == ControlInv /\ EmitInv /\ ClockInv /\ WaveInv /\ WatermarksNotMerged

LEMMA RegionInit ==
  ASSUME TopologyAssumption, Init
  PROVE  RegionInv
<1>1. ControlInv
  BY ControlInit
<1>2. /\ node = [n \in Nodes |->
           [ch |-> [p \in Ports(n) |-> [wm |-> 0, idle |-> FALSE, aligned |-> TRUE]],
            out |-> 0, idle |-> FALSE]]
      /\ last = Restored /\ pending = {} /\ forwarding = <<>> /\ calls = <<>>
      /\ wave = [watermark |-> {}, status |-> {}]
      /\ emitted = <<>> /\ native = NoEvents
      /\ out = [wm |-> 0, idle |-> FALSE, barrier |-> 0, finished |-> FALSE]
  BY Zenon DEF Init
<1>3. EmitInv /\ ClockInv /\ WaveInv
  <2>1. EmitInv
    <3>1. calls = <<>>
      BY <1>2, Zenon
    <3> QED
      BY <3>1 DEF EmitInv
  <2>2. \A n : MarksOf(n) = {}
    <3>1. forwarding = <<>>
      BY <1>2, Zenon
    <3> QED
      BY <3>1 DEF MarksOf
  <2>3. wave.watermark = {} /\ out.wm = 0 /\ last = Restored
    BY <1>2, Zenon
  <2>4. \A n \in Nodes : node[n].out = 0
    BY <1>2, Zenon
  <2>5. Restored \in [Nodes -> 0..MaxWatermark] /\ Outputs \subseteq Nodes
    BY Zenon DEF TopologyAssumption
  <2>6. \A n \in Nodes \ Windows : Restored[n] = 0
    BY Zenon DEF TopologyAssumption
  <2>7. ClockInv
    BY <2>2, <2>3, <2>4, <2>6 DEF ClockInv
  <2>8. \A n \in Outputs : Restored[n] >= 0
    BY <2>5
  <2>9. WaveInv
    BY <2>2, <2>3, <2>8 DEF WaveInv
  <2> QED
    BY <2>1, <2>7, <2>9, Zenon
<1>4. WatermarksNotMerged
  <2>1. ASSUME NEW n \in WatermarkStages PROVE DeliveredOnce(n)
    <3>1. Queued(n) = <<>> /\ native[n] = <<>> /\ <<>> \o <<>> = <<>> /\ DOMAIN <<>> = {}
      <4>1. n \in Nodes
        BY Zenon DEF TopologyAssumption
      <4>2. pending = {} /\ native = NoEvents
        BY <1>2, Zenon
      <4>3. native[n] = <<>>
        BY <4>1, <4>2, Zenon DEF NoEvents
      <4>4. Queued(n) = <<>>
        BY <4>2 DEF Queued
      <4>5. <<>> \o <<>> = <<>> /\ DOMAIN <<>> = {}
        OBVIOUS
      <4> QED
        BY <4>3, <4>4, <4>5, Zenon
    <3>2. Received(n) = {}
      BY <3>1 DEF Received, Reached
    <3>3. Sent(n) = {}
      <4>1. emitted = <<>>
        BY <1>2, Zenon
      <4> QED
        BY <4>1 DEF Sent
    <3>4. [x \in {} |-> x] \in [{} -> {}]
      OBVIOUS
    <3> QED
      BY <3>2, <3>3, <3>4, Zenon DEF DeliveredOnce
  <2> QED
    BY <2>1 DEF WatermarksNotMerged
<1> QED
  BY <1>1, <1>3, <1>4, Zenon DEF RegionInv

LEMMA RegionStep ==
  ASSUME TopologyAssumption, RegionInv, [Next]_vars
  PROVE  RegionInv'
<1>1. ControlInv'
  BY ControlStep DEF RegionInv
<1>2. EmitInv' /\ ClockInv' /\ WaveInv'
  BY EmitStep, ClockStep, WaveStep DEF RegionInv, ControlInv
<1>3. WatermarksNotMerged'
  BY DeliveryStep DEF RegionInv, ControlInv
<1> QED
  BY <1>1, <1>2, <1>3 DEF RegionInv

LEMMA RegionInvariant ==
  ASSUME TopologyAssumption
  PROVE  Spec => []RegionInv
<1>1. Init => RegionInv
  BY RegionInit
<1>2. RegionInv /\ [Next]_vars => RegionInv'
  BY RegionStep
<1> QED
  BY <1>1, <1>2, PTL DEF Spec

\* For every graph of stages each watermark that the tree emits at a stage reaches
\* the native stage once, in the order of the tree, or is pending for it.
THEOREM WatermarksReachTheirStage ==
  ASSUME TopologyAssumption
  PROVE  Spec => []WatermarksNotMerged
<1>1. RegionInv => WatermarksNotMerged
  BY DEF RegionInv
<1> QED
  BY <1>1, RegionInvariant, PTL

\* For every graph of stages and every restored clock, neither the region's output
\* watermark nor a window stage's clock ever regresses.
THEOREM ClocksNeverRegress ==
  ASSUME TopologyAssumption
  PROVE  Spec => [][ClocksAdvance]_vars
<1>1. RegionInv /\ [Next]_vars => [ClocksAdvance]_vars
  <2> SUFFICES ASSUME RegionInv, Next PROVE ClocksAdvance
    OBVIOUS
  <2>1. out'.wm >= out.wm
    BY WaveStep DEF RegionInv, ControlInv
  <2>2. TypeInv /\ EmitInv /\ ClockInv
    BY Zenon DEF RegionInv, ControlInv
  <2>3. DOMAIN last = Nodes /\ \A n \in Nodes : last[n] \in Nat
    BY <2>2 DEF TypeInv, TreeType, Timestamps, TopologyAssumption
  <2>4. CASE EmitWatermark
    <3>1. PICK n \in Nodes, t \in Timestamps : last' = [last EXCEPT ![n] = t] /\ t >= last[n]
      BY <2>2, <2>4, EmittedMark
    <3> QED
      BY <2>1, <2>3, <3>1 DEF ClocksAdvance
  <2>5. CASE ~EmitWatermark
    <3>1. UNCHANGED last
      <4>1. CASE Arrival
        BY <4>1 DEF Arrival, Dispatch, tree
      <4>2. CASE Step
        BY <2>5, <4>2, Zenon DEF Step, NodeWatermark, NodeStatus, NodeEndInput, EmitStatus, FlushFirst, FlushNative,
               NativeFails, Forward, ForwardFails, FlushDone, Return, tree
      <4> QED
        BY <2>2, <4>1, <4>2, NextIs, Zenon
    <3> QED
      BY <2>1, <2>3, <3>1 DEF ClocksAdvance
  <2> QED
    BY <2>4, <2>5
<1> QED
  BY <1>1, RegionInvariant, PTL DEF Spec
=============================================================================
