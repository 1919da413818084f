------------------------------ MODULE Exchange -------------------------------
(***************************************************************************)
(* The hash exchange between native operators.  A writer routes each Arrow *)
(* batch into frames, Flink's network carries a frame on the channel that  *)
(* its key-group tag selects, and a reader decodes it.  Frames come from   *)
(* batches of the host ("arrow"), from the output of a native region       *)
(* ("owned"), or are written by the persistent per-channel writers         *)
(* ("stream").                                                             *)
(*                                                                         *)
(* An exchange is compiled for one parallelism.  When checkpoints are      *)
(* aligned, all rows of a batch for one subtask share a frame; when they   *)
(* may be unaligned (preserveKeyGroups) each frame is a run of rows of one *)
(* key group, so that frames in flight can be handed to new subtasks.      *)
(*                                                                         *)
(* Column indices count from 0 as in the code; None is an absent index.    *)
(* A row in flight is its columns and, as a label only, its number in the  *)
(* log of everything that was sent.                                        *)
(***************************************************************************)
EXTENDS Integers, Sequences, SequencesExt, FiniteSets

-----------------------------------------------------------------------------
(***************************************************************************)
(* The Flink BinaryRow layout that the native side writes for the key      *)
(* columns of a row: the bytes that are hashed into a key group and under  *)
(* which keyed state is kept.                                              *)
(*                                                                         *)
(* A layout is a sequence of 8-byte words.  A word is a tuple whose first  *)
(* member says what it holds: null bits, a fixed value, up to seven inline *)
(* bytes, the offset and size of a variable part, or data.  A column value *)
(* is <<>> (NULL) or <<v>>.  A type is a tuple: <<"fixed">>, <<"bytes">>,  *)
(* <<"timestamp", per>> with per units to the millisecond, <<"decimal",    *)
(* precision>>, <<"list", element>>, <<"map", key, value>> or              *)
(* <<"row", fields>>; any other tuple is a type without an encoding.       *)
(* Values of a fixed type are integers; their own byte order, and the      *)
(* packing of narrow list elements into one word, are left out.            *)
(***************************************************************************)

Null == <<>>

WordBytes == 8
InlineBytes == 7
CompactDecimal == 18

RoundUp(n, unit) == (n + unit - 1) \div unit

RECURSIVE FromArrowType(_)
\* Whether a column of this type can be a key field: nested types as far as
\* their children can.
FromArrowType(type) ==
    CASE type[1] \in {"fixed", "bytes", "timestamp", "decimal"} -> TRUE
      [] type[1] = "list" -> FromArrowType(type[2])
      [] type[1] = "map" -> FromArrowType(type[2]) /\ FromArrowType(type[3])
      [] type[1] = "row" -> \A i \in 1 .. Len(type[2]) : FromArrowType(type[2][i])
      [] OTHER -> FALSE

-----------------------------------------------------------------------------
(***************************************************************************)
(* The writer of one container: its null bits, the slots written so far,   *)
(* the number of words in front of the variable part, and the variable     *)
(* part.  Fields are written in order.  Offsets are relative to the        *)
(* container.                                                              *)
(***************************************************************************)

RowWriter(arity) ==
    [nulls |-> {}, slots |-> <<>>, fixed |-> (arity + 63 + 8) \div 64 + arity, variable |-> <<>>]

ArrayWriter(count, stride) ==
    [nulls |-> {}, slots |-> <<>>,
     fixed |-> RoundUp(4 + RoundUp(count, 32) * 4 + count * stride, WordBytes), variable |-> <<>>]

Stride(type) == IF type = <<"fixed">> THEN 4 ELSE WordBytes

Offset(writer) == (writer.fixed + Len(writer.variable)) * WordBytes

SetNull(writer) ==
    [writer EXCEPT !.nulls = @ \cup {Len(writer.slots) + 1}, !.slots = Append(@, <<"fixed", 0>>)]

WriteFixed(writer, value) == [writer EXCEPT !.slots = Append(@, <<"fixed", value>>)]

\* A variable part of the given words; the slot has its offset and a number,
\* the size of the part or, for a timestamp, the nanoseconds.
WriteVariable(writer, number, words) ==
    [writer EXCEPT !.slots = Append(@, <<"variable", Offset(writer), number>>),
                   !.variable = @ \o words]

\* Bytes in words, the last one padded with zeros.
DataWords(bytes) ==
    LET Byte(i) == IF i <= Len(bytes) THEN bytes[i] ELSE 0
    IN  [w \in 1 .. RoundUp(Len(bytes), WordBytes) |->
            <<"data", [i \in 1 .. WordBytes |-> Byte((w - 1) * WordBytes + i)]>>]

\* Up to seven bytes are kept in the slot, with their number.
WriteBytes(writer, bytes) ==
    IF Len(bytes) <= InlineBytes
    THEN [writer EXCEPT !.slots = Append(@, <<"inline", bytes>>)]
    ELSE WriteVariable(writer, Len(bytes), DataWords(bytes))

TimestampParts(per, value) == [millis |-> value \div per, nanos |-> (value % per) * (1000000 \div per)]

WriteTimestamp(writer, per, value) ==
    IF per = 1
    THEN WriteFixed(writer, value)
    ELSE WriteVariable(writer, TimestampParts(per, value).nanos,
                       <<<<"fixed", TimestampParts(per, value).millis>>>>)

\* The bytes a decimal needs in two's complement.
MinimalTwosComplement(value) ==
    Min({n \in 1 .. 3 : -(2 ^ (8 * n - 1)) <= value /\ value < 2 ^ (8 * n - 1)})

WriteDecimal(writer, precision, value) ==
    IF precision <= CompactDecimal
    THEN WriteFixed(writer, value)
    ELSE WriteVariable(writer, MinimalTwosComplement(value), <<<<"fixed", value>>, <<"fixed", 0>>>>)

Words(writer) ==
    <<<<"nulls", Len(writer.slots), writer.nulls>>>> \o writer.slots \o writer.variable

-----------------------------------------------------------------------------
(***************************************************************************)
(* Rows, lists and maps of values.  A map is its keys' array, preceded by  *)
(* the size of that array, and its values' array.                          *)
(***************************************************************************)

RECURSIVE WriteValue(_, _, _), WriteFields(_, _, _)

AppendArray(type, values) ==
    Words(WriteFields(ArrayWriter(Len(values), Stride(type)), [i \in DOMAIN values |-> type], values))

NestedWords(type, value) ==
    CASE type[1] = "list" -> AppendArray(type[2], value)
      [] type[1] = "map" ->
            LET keys == AppendArray(type[2], [i \in DOMAIN value |-> value[i][1]])
            IN  <<<<"size", Len(keys)>>>> \o keys
                    \o AppendArray(type[3], [i \in DOMAIN value |-> value[i][2]])
      [] type[1] = "row" -> Words(WriteFields(RowWriter(Len(type[2])), type[2], value))

WriteNested(writer, words) == WriteVariable(writer, Len(words) * WordBytes, words)

WriteValue(writer, type, value) ==
    IF value = Null THEN SetNull(writer)
    ELSE CASE type[1] = "fixed" -> WriteFixed(writer, value[1])
           [] type[1] = "bytes" -> WriteBytes(writer, value[1])
           [] type[1] = "timestamp" -> WriteTimestamp(writer, type[2], value[1])
           [] type[1] = "decimal" -> WriteDecimal(writer, type[2], value[1])
           [] OTHER -> WriteNested(writer, NestedWords(type, value[1]))

WriteFields(writer, types, values) ==
    IF Len(writer.slots) = Len(values) THEN writer
    ELSE LET next == Len(writer.slots) + 1
         IN  WriteFields(WriteValue(writer, types[next], values[next]), types, values)

\* The key of a row: the BinaryRow of its key columns.
EncodeBinaryRow(types, values) == Words(WriteFields(RowWriter(Len(values)), types, values))

-----------------------------------------------------------------------------

CONSTANTS Plans,         \* the exchange plans handed to the writer, valid or not
          Paths,         \* where rows come from: "arrow", "owned", "stream"
          KeyChoices(_), \* the payload columns a row of a plan may have
          HashOf(_),     \* Flink's hash of a key's words
          MaxBatch,      \* rows in a batch
          MaxEvents,     \* rows and control events sent
          Budget,        \* memory the host grants to one routed batch
          ExportLimit    \* bytes a Java array can hold

VARIABLES plan,      \* the compiled plan
          path,      \* the source of rows
          phase,     \* "new", "refused", "running" or "failed"
          channels,  \* per subtask: the frames and control events in flight
          buffers,   \* per subtask: batches not yet flushed by a persistent writer
          log,       \* what was sent: the payload of a row, or Control
          received,  \* per subtask: what it has received since the last rescale
          recovered, \* how much of the log was sent before the last rescale
          done       \* what was received before the last rescale

vars == <<plan, path, phase, channels, buffers, log, received, recovered, done>>

None == -1
\* What the log has for a control event: no columns.
Control == <<>>
MaxKeyGroups == 32768

-----------------------------------------------------------------------------
(***************************************************************************)
(* Validation of a plan.                                                   *)
(***************************************************************************)

InSchema(p, index) == index \in 0 .. Len(p.fields) - 1
Field(p, index) == p.fields[index + 1]

ValidMetadata(p) ==
    /\ p.version \in {1, 2}
    /\ p.transport
    /\ InSchema(p, p.rowKind)
    /\ Field(p, p.rowKind) = [type |-> <<"fixed">>, nullable |-> FALSE]
    /\ p.timestamp # None =>
           /\ InSchema(p, p.timestamp) /\ p.timestamp # p.rowKind
           /\ Field(p, p.timestamp) = [type |-> <<"fixed">>, nullable |-> TRUE]

ValidRoutingKey(p) ==
    IF p.routingKey # None
    THEN p.distribution = "hash" /\ p.routingKey = Len(p.fields)
    ELSE p.transportRoutingKey => p.version >= 2 /\ p.distribution = "hash"

ValidDistribution(p) ==
    \/ /\ p.distribution = "hash"
       /\ p.keys # <<>>
       /\ p.maxParallelism \in 1 .. MaxKeyGroups
       /\ p.parallelism \in 1 .. p.maxParallelism
       /\ \A i \in DOMAIN p.keys : InSchema(p, p.keys[i]) /\ p.keys[i] \notin {p.rowKind, p.timestamp}
    \/ /\ p.distribution = "singleton"
       /\ p.keys = <<>>
       /\ p.maxParallelism = 1 /\ p.parallelism = 1

\* The key columns must have an encoding, unless the host encodes the key.
HasKeyFields(p) ==
    p.routingKey = None => \A i \in DOMAIN p.keys : FromArrowType(Field(p, p.keys[i]).type)

DecodeExchangePlan(p) ==
    ValidMetadata(p) /\ ValidRoutingKey(p) /\ ValidDistribution(p) /\ HasKeyFields(p)

\* A native region encodes its own keys.
ValidateNativeOutput(p) == p.routingKey = None

-----------------------------------------------------------------------------
(***************************************************************************)
(* Rows.  The columns of a row are its payload, the row kind and the       *)
(* timestamp in the places the plan names.                                 *)
(***************************************************************************)

KeyTypes(p) == [i \in DOMAIN p.keys |-> Field(p, p.keys[i]).type]
KeyColumns(p, columns) == [i \in DOMAIN p.keys |-> columns[p.keys[i] + 1]]
EncodedKey(p, columns) == EncodeBinaryRow(KeyTypes(p), KeyColumns(p, columns))

RowKindOf(id) == <<id % 4>>
TimestampOf(id) == IF id % 3 = 0 THEN Null ELSE <<id>>

\* The host's columns: payload, row kind, timestamp if the plan carries one.
AttachRecordMetadata(p, payload, id) ==
    payload \o <<RowKindOf(id)>> \o (IF p.timestamp = None THEN <<>> ELSE <<TimestampOf(id)>>)

\* A native region's columns: payload, timestamp, row kind, detached ordinal.
OwnedEnvelope(payload, id) == payload \o <<TimestampOf(id), RowKindOf(id), <<0>>>>

\* The exchange carries payload, row kind and timestamp; the ordinal is dropped.
RouteOwned(p, columns) ==
    LET fields == Len(p.fields) - 2
    IN  SubSeq(columns, 1, fields) \o <<columns[fields + 2], columns[fields + 1]>>

\* The rows of a batch as the router receives them; a host-encoded key follows
\* the declared columns, and is missing from a damaged batch.
RouterColumns(payload, id, damaged) ==
    IF path = "owned" THEN RouteOwned(plan, OwnedEnvelope(payload, id))
    ELSE LET columns == AttachRecordMetadata(plan, payload, id)
         IN  IF plan.routingKey = None THEN columns
             ELSE Append(columns, IF damaged THEN Null ELSE <<EncodedKey(plan, columns)>>)

RouterBatch(payloads, damaged) ==
    [i \in DOMAIN payloads |->
        [id |-> Len(log) + i, columns |-> RouterColumns(payloads[i], Len(log) + i, damaged)]]

-----------------------------------------------------------------------------
(***************************************************************************)
(* Routing one batch.                                                      *)
(***************************************************************************)

Generated(p) == p.transportRoutingKey /\ p.routingKey = None

AppendGeneratedKeys(p, batch) ==
    [i \in DOMAIN batch |->
        [batch[i] EXCEPT !.columns = Append(@, <<EncodedKey(p, batch[i].columns)>>)]]

WithKeys(p, batch) == IF Generated(p) THEN AppendGeneratedKeys(p, batch) ELSE batch

\* A key that was encoded before is taken from its column.
Preencoded(p) == p.routingKey # None \/ p.transportRoutingKey

MissingKey(p, batch) ==
    Preencoded(p) /\ \E i \in DOMAIN batch : batch[i].columns[Len(p.fields) + 1] = Null

KeyBytes(p, row) ==
    IF Preencoded(p) THEN row.columns[Len(p.fields) + 1][1] ELSE EncodedKey(p, row.columns)

AssignKeyGroup(bytes, maxParallelism) == HashOf(bytes) % maxParallelism

KeyGroups(p, batch) ==
    [i \in DOMAIN batch |-> AssignKeyGroup(KeyBytes(p, batch[i]), p.maxParallelism)]

TransportColumns(p) == Len(p.fields) + (IF p.transportRoutingKey THEN 1 ELSE 0)

Materialize(p, rows) ==
    [i \in DOMAIN rows |-> [rows[i] EXCEPT !.columns = SubSeq(@, 1, TransportColumns(p))]]

\* Fault: every occurrence of a key group in the batch joins one frame.
RouteBatchByKeyGroup_Grouped(p, batch, groups) ==
    LET With(g) == SelectSeq([i \in DOMAIN batch |-> i], LAMBDA i : groups[i] = g)
        present == SetToSortSeq({groups[i] : i \in DOMAIN batch}, <)
    IN  [k \in DOMAIN present |->
            [keyGroup |-> present[k], rows |-> [j \in DOMAIN With(present[k]) |-> batch[With(present[k])[j]]]]]

\* One frame for each run of neighbouring rows of one key group.
RouteBatchByKeyGroup(p, batch, groups) ==
    LET starts == SelectSeq([i \in DOMAIN batch |-> i],
                            LAMBDA i : i = 1 \/ groups[i] # groups[i - 1])
        End(k) == IF k = Len(starts) THEN Len(batch) ELSE starts[k + 1] - 1
    IN  [k \in DOMAIN starts |->
            [keyGroup |-> groups[starts[k]], rows |-> SubSeq(batch, starts[k], End(k))]]

Destination(keyGroup, parallelism, maxParallelism) == (keyGroup * parallelism) \div maxParallelism

RoutingRows(p, batch, groups, parallelism) ==
    [d \in 0 .. parallelism - 1 |->
        SelectSeq(batch, LAMBDA row :
            Destination(groups[row.id - batch[1].id + 1], parallelism, p.maxParallelism) = d)]

NonEmpty(routed, parallelism) ==
    SelectSeq([d \in 1 .. parallelism |-> d - 1], LAMBDA d : routed[d] # <<>>)

\* The first key group of the subtask that the plan's parallelism gives.
RepresentativeKeyGroup(p, destination) ==
    (destination * p.maxParallelism + p.parallelism - 1) \div p.parallelism

RouteBatch(p, batch, groups) ==
    LET routed == RoutingRows(p, batch, groups, p.parallelism)
        nonempty == NonEmpty(routed, p.parallelism)
    IN  [k \in DOMAIN nonempty |->
            [keyGroup |-> RepresentativeKeyGroup(p, nonempty[k]), rows |-> routed[nonempty[k]]]]

FrameHashExchangeBatch(p, batch, groups) ==
    LET frames == IF p.preserveKeyGroups THEN RouteBatchByKeyGroup(p, batch, groups)
                                         ELSE RouteBatch(p, batch, groups)
    IN  [k \in DOMAIN frames |-> [frames[k] EXCEPT !.rows = Materialize(p, @)]]

-----------------------------------------------------------------------------
(***************************************************************************)
(* Memory of routing, in units of one cell or descriptor: the workspace of *)
(* routing is granted first, before each frame the workspace to encode it, *)
(* and encoded frames stay charged.  The Java array of all frames has a    *)
(* limit of its own.                                                       *)
(***************************************************************************)

FrameUnits(frame) == Len(frame.rows) * Len(frame.rows[1].columns)

Allowance(p, batch) ==
    LET destinations == IF p.preserveKeyGroups THEN p.maxParallelism ELSE p.parallelism
        nonempty == IF p.preserveKeyGroups THEN Len(batch) ELSE Min({Len(batch), destinations})
    IN  [routing |-> destinations + Len(batch) + nonempty,
         workspace |-> 4 * TransportColumns(p) * Len(batch)]

AdmitFrame(memory, frame) ==
    LET bytes == memory.routing + memory.retained + memory.workspace
        grown == IF bytes <= memory.reserved THEN memory.reserved
                 ELSE memory.reserved + Max({bytes - memory.reserved, memory.workspace \div 4})
    IN  [memory EXCEPT !.reserved = grown,
                       !.retained = @ + FrameUnits(frame),
                       !.granted = @ /\ grown <= Budget /\ FrameUnits(frame) <= memory.workspace]

FramesAdmitted(p, batch, frames) ==
    LET sizes == Allowance(p, batch)
        start == [routing |-> sizes.routing, workspace |-> sizes.workspace, retained |-> 0,
                  reserved |-> sizes.routing, granted |-> sizes.routing <= Budget]
    IN  FoldLeft(AdmitFrame, start, frames).granted

ExportFits(frames) == FoldLeft(LAMBDA n, frame : n + 1 + FrameUnits(frame), 1, frames) <= ExportLimit

\* The frames of one batch, or none when any step of routing it fails.
RouteRecordBatch(p, batch) ==
    LET keyed == WithKeys(p, batch)
    IN  IF MissingKey(p, keyed) THEN <<>>
        ELSE LET frames == FrameHashExchangeBatch(p, keyed, KeyGroups(p, keyed))
             IN  IF FramesAdmitted(p, keyed, frames) /\ ExportFits(frames) THEN frames ELSE <<>>

-----------------------------------------------------------------------------
(***************************************************************************)
(* The network.  The partitioner maps a frame's tag to the current number  *)
(* of channels.                                                            *)
(***************************************************************************)

Subtasks(parallelism) == 0 .. parallelism - 1
Empty(parallelism) == [d \in Subtasks(parallelism) |-> <<>>]
Parallelism == Cardinality(DOMAIN channels)

SelectChannel(frame, parallelism) == (frame.keyGroup * parallelism) \div plan.maxParallelism

Emit(queues, frames) ==
    FoldLeft(LAMBDA q, frame : [q EXCEPT ![SelectChannel(frame, Cardinality(DOMAIN queues))] = Append(@, frame)],
             queues, frames)

ControlItem == [keyGroup |-> None, rows |-> <<[id |-> Len(log) + 1, columns |-> <<>>]>>]

Init ==
    /\ plan \in Plans
    /\ path \in Paths
    /\ path = "stream" => ~plan.preserveKeyGroups /\ ~plan.transportRoutingKey /\ plan.routingKey = None
    /\ path = "owned" => plan.timestamp # None
    /\ phase = "new"
    /\ channels = Empty(plan.parallelism)
    /\ buffers = Empty(plan.parallelism)
    /\ log = <<>>
    /\ received = Empty(plan.parallelism)
    /\ recovered = 0
    /\ done = {}

Open ==
    /\ phase = "new"
    /\ phase' = IF DecodeExchangePlan(plan) /\ (path = "owned" => ValidateNativeOutput(plan))
                THEN "running" ELSE "refused"
    /\ UNCHANGED <<plan, path, channels, buffers, log, received, recovered, done>>

Payloads == {s \in BoundedSeq(KeyChoices(plan), MaxBatch) : s # <<>> /\ Len(log) + Len(s) <= MaxEvents}

\* Route a batch and hand all of its frames to the network.
WriteFrames ==
    /\ phase = "running" /\ path # "stream"
    /\ \E payloads \in Payloads, damaged \in {FALSE, plan.routingKey # None} :
         \E frames \in {RouteRecordBatch(plan, RouterBatch(payloads, damaged))} :
            /\ channels' = Emit(channels, frames)
            /\ phase' = IF frames = <<>> THEN "failed" ELSE phase
            /\ log' = IF frames = <<>> THEN log ELSE log \o payloads
    /\ UNCHANGED <<plan, path, buffers, received, recovered, done>>

\* The persistent writers: each destination's rows go to its writer.
WriteStream ==
    /\ phase = "running" /\ path = "stream"
    /\ \E payloads \in Payloads :
         \E batch \in {RouterBatch(payloads, FALSE)} :
           \E routed \in {RoutingRows(plan, batch, KeyGroups(plan, batch), Parallelism)} :
             /\ buffers' = [d \in DOMAIN buffers |->
                   IF routed[d] = <<>> THEN buffers[d]
                   ELSE Append(buffers[d], [keyGroup |-> RepresentativeKeyGroup(plan, d), rows |-> routed[d]])]
             /\ log' = log \o payloads
    /\ UNCHANGED <<plan, path, phase, channels, received, recovered, done>>

\* A writer's output passes a batch on before it is told to.
Spill(d) ==
    /\ buffers[d] # <<>>
    /\ channels' = [channels EXCEPT ![d] = Append(@, Head(buffers[d]))]
    /\ buffers' = [buffers EXCEPT ![d] = Tail(@)]
    /\ UNCHANGED <<plan, path, phase, log, received, recovered, done>>

FlushBeforeControlEvent == [d \in DOMAIN channels |-> channels[d] \o buffers[d]]

\* A watermark, a status or a barrier, broadcast behind the rows before it.
SendControl ==
    /\ phase = "running"
    /\ Len(log) < MaxEvents
    /\ \E flushed \in {FlushBeforeControlEvent} :
         channels' = [d \in DOMAIN channels |-> Append(flushed[d], ControlItem)]
    /\ buffers' = Empty(Parallelism)
    /\ log' = Append(log, Control)
    /\ UNCHANGED <<plan, path, phase, received, recovered, done>>

\* The reader decodes a frame with the schema of the plan it was bound to.
DecodeBatch(p, frame) ==
    [i \in DOMAIN frame.rows |->
        [frame.rows[i] EXCEPT !.columns = SubSeq(@, 1, TransportColumns(p))]]

Receive(d) ==
    /\ channels[d] # <<>>
    /\ LET item == Head(channels[d])
       IN  received' = [received EXCEPT ![d] = @ \o (IF item.keyGroup = None THEN item.rows
                                                     ELSE DecodeBatch(plan, item))]
    /\ channels' = [channels EXCEPT ![d] = Tail(@)]
    /\ UNCHANGED <<plan, path, phase, buffers, log, recovered, done>>

-----------------------------------------------------------------------------
(***************************************************************************)
(* A restart with another number of subtasks.  An aligned checkpoint finds *)
(* the channels empty.  An unaligned one keeps the frames in flight, which *)
(* are handed out by their tags, channel by channel in any order.  The     *)
(* plan is compiled anew, or kept by a scheduler that rescales the running *)
(* job.  A kept plan that merges key groups is outside the model (README,  *)
(* section 5).                                                             *)
(***************************************************************************)

InFlight(order) == SelectSeq(FlattenSeq([i \in DOMAIN order |-> channels[order[i]]]),
                             LAMBDA frame : frame.keyGroup # None)

Rescale ==
    /\ phase = "running" /\ path # "stream"
    /\ plan.distribution = "hash"
    /\ recovered = 0 /\ log # <<>>
    /\ plan.preserveKeyGroups \/ channels = Empty(Parallelism)
    /\ \E parallelism \in 1 .. plan.maxParallelism, order \in SetToSeqs(DOMAIN channels) :
         /\ parallelism # Parallelism
         /\ channels' = Emit(Empty(parallelism), InFlight(order))
         /\ buffers' = Empty(parallelism)
         /\ received' = Empty(parallelism)
         /\ plan' \in {[plan EXCEPT !.parallelism = parallelism]}
                        \cup (IF plan.preserveKeyGroups THEN {plan} ELSE {})
    /\ recovered' = Len(log)
    /\ done' = UNION {{received[d][i].id : i \in DOMAIN received[d]} : d \in DOMAIN received}
                   \cup {i \in DOMAIN log : log[i] = Control}
    /\ UNCHANGED <<path, phase, log>>

Next ==
    \/ Open
    \/ WriteFrames
    \/ WriteStream
    \/ SendControl
    \/ Rescale
    \/ \E d \in DOMAIN channels : Spill(d) \/ Receive(d)

Spec == Init /\ [][Next]_vars

-----------------------------------------------------------------------------
(***************************************************************************)
(* Properties.  What a row should look like when it arrives, and where.    *)
(***************************************************************************)

SentColumns(id) == AttachRecordMetadata(plan, log[id], id)
SentKey(id) == EncodedKey(plan, SentColumns(id))
SentKeyGroup(id) == HashOf(SentKey(id)) % plan.maxParallelism

\* A row is what was sent, with its key when the plan transports it, and the
\* subtask owns its key group.
ArrivedWhole(d, row) ==
    /\ row.columns = SentColumns(row.id) \o (IF plan.transportRoutingKey THEN <<<<SentKey(row.id)>>>> ELSE <<>>)
    /\ Destination(SentKeyGroup(row.id), Parallelism, plan.maxParallelism) = d

\* Two arrivals are in the order in which they were sent, except rows of
\* different key groups that were in flight at a rescale.
ArrivedInOrder(first, second) ==
    \/ first.id < second.id
    \/ /\ first.id # second.id /\ first.id <= recovered /\ log[first.id] # Control /\ log[second.id] # Control
       /\ SentKeyGroup(first.id) # SentKeyGroup(second.id)

Owed(d) == {id \in DOMAIN log \ done :
               log[id] = Control \/ Destination(SentKeyGroup(id), Parallelism, plan.maxParallelism) = d}

\* Every row reaches, once and unchanged, the subtask that owns its key group;
\* a subtask sees rows and control events in the order in which they were sent,
\* so a watermark or barrier neither overtakes a row nor is overtaken; nothing
\* is left out once the channels are empty; and two rows have the same key bytes
\* only if they have the same key.
RowsReachTheirOwner ==
    /\ \A d \in DOMAIN received :
         /\ \A i \in DOMAIN received[d] :
              /\ log[received[d][i].id] # Control => ArrivedWhole(d, received[d][i])
              /\ \A j \in 1 .. i - 1 : ArrivedInOrder(received[d][j], received[d][i])
         /\ channels[d] = <<>> /\ buffers[d] = <<>> =>
              Owed(d) \subseteq {received[d][i].id : i \in DOMAIN received[d]}
    /\ \A i, j \in {k \in DOMAIN log : log[k] # Control} :
         SentKey(i) = SentKey(j) => KeyColumns(plan, SentColumns(i)) = KeyColumns(plan, SentColumns(j))
=============================================================================
