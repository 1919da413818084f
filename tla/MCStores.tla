------------------------------ MODULE MCStores -------------------------------
(* The keyed state stores, the timer service and the keyed exchange.         *)
EXTENDS Integers, Sequences, FiniteSets, SequencesExt

VARIABLES
  part,      \* the component that runs
  store, truth, phase, writes, svc, parked, frontier, draining, batch, steps, plan,
  path, channels, buffers, log, received, recovered, done

StoreRanges == {<<0, 1>>, <<1, 1>>, <<1, 0>>}

\* Keys with prefixes and 0xFF bytes (here 2) among them, values of two lengths,
\* batches with duplicate keys, deletions and foreign groups.
StoreKeys == {<<>>, <<1>>, <<1, 2>>, <<2>>, <<2, 2>>}

Put(g, k, v) == [group |-> g, key |-> k, put |-> TRUE, value |-> v]
Delete(g, k) == [group |-> g, key |-> k, put |-> FALSE, value |-> <<>>]
StoreBatches ==
  {<<Put(1, k, v)>> : k \in StoreKeys, v \in {<<1>>}}
    \cup {<<Put(0, <<2>>, <<1>>)>>,
          <<Put(1, <<1>>, <<2, 2, 2>>), Put(1, <<2>>, <<1>>), Put(1, <<1>>, <<1>>)>>,
          <<Delete(1, <<1>>), Put(1, <<1>>, <<2, 2, 2>>)>>,
          <<Put(1, <<1, 2>>, <<1>>), Put(0, <<1, 2>>, <<1>>), Delete(1, <<2>>)>>,
          <<Delete(1, <<>>)>>, <<Delete(1, <<2, 2>>), Delete(0, <<2>>)>>}

Unbounded == [bounded |-> FALSE, key |-> <<>>]
Bounded(key) == [bounded |-> TRUE, key |-> key]
Request(start, end, rows, bytes, admitted, stop) ==
  [start |-> start, end |-> end, rows |-> rows, bytes |-> bytes, admitted |-> admitted, stop |-> stop]
ScanRequests ==
  {Request(<<>>, Unbounded, 2, 20, FALSE, 0), Request(<<>>, Unbounded, 1, 20, TRUE, 1),
   Request(<<1>>, Bounded(<<2>>), 2, 3, TRUE, 0), Request(<<1>>, Bounded(<<2, 2>>), 3, 5, FALSE, 0),
   Request(<<2>>, Unbounded, 2, 7, TRUE, 2), Request(<<2, 2>>, Bounded(<<2>>), 2, 7, FALSE, 0),
   Request(<<2, 2>>, Unbounded, 1, 9, FALSE, 1)}

Column(t) == [type |-> t, nullable |-> TRUE]
RowKind == [type |-> <<"fixed">>, nullable |-> FALSE]
Timestamp == Column(<<"fixed">>)
None == -1
Null == <<>>

HashPlan(types) ==
  [version |-> 2, transport |-> TRUE, distribution |-> "hash",
   fields |-> [i \in DOMAIN types |-> Column(types[i])] \o <<RowKind, Timestamp>>,
   rowKind |-> Len(types), timestamp |-> Len(types) + 1, routingKey |-> None,
   transportRoutingKey |-> FALSE, preserveKeyGroups |-> FALSE,
   keys |-> [i \in DOMAIN types |-> i - 1], maxParallelism |-> 4, parallelism |-> 3]

Integer == <<"fixed">>
Text == <<"bytes">>

Merging == HashPlan(<<Integer>>)
Preserving == [HashPlan(<<Integer>>) EXCEPT !.preserveKeyGroups = TRUE, !.parallelism = 2]
TextKeys == [HashPlan(<<Text, Text>>) EXCEPT !.transportRoutingKey = TRUE, !.parallelism = 2]
NestedKeys == [HashPlan(<<<<"list", Text>>, <<"map", Integer, Text>>>>) EXCEPT !.parallelism = 2]
RowKeys == [HashPlan(<<<<"row", <<Text, Integer>>>>, <<"decimal", 20>>>>) EXCEPT !.parallelism = 2]
TimeKeys == [HashPlan(<<<<"timestamp", 1000>>, <<"timestamp", 1>>, <<"decimal", 4>>>>) EXCEPT !.keys = <<2, 0>>]
HostKeys == [HashPlan(<<Integer>>) EXCEPT !.routingKey = 3, !.preserveKeyGroups = TRUE]
HostKeysCarried == [HostKeys EXCEPT !.transportRoutingKey = TRUE, !.preserveKeyGroups = FALSE]
Singleton ==
  [HashPlan(<<Integer>>) EXCEPT !.distribution = "singleton", !.keys = <<>>,
                                !.maxParallelism = 1, !.parallelism = 1]

Refused ==
  {[Merging EXCEPT !.version = 3], [Merging EXCEPT !.transport = FALSE],
   [Merging EXCEPT !.rowKind = 3], [Merging EXCEPT !.rowKind = 0],
   [Merging EXCEPT !.timestamp = 1], [Merging EXCEPT !.keys = <<1>>], [Merging EXCEPT !.keys = <<>>],
   [Merging EXCEPT !.parallelism = 5], [Merging EXCEPT !.maxParallelism = 0],
   [Merging EXCEPT !.version = 1, !.transportRoutingKey = TRUE],
   [HostKeys EXCEPT !.routingKey = 2], [Singleton EXCEPT !.transportRoutingKey = TRUE],
   HashPlan(<<<<"list", <<"interval">>>>>>)}

ExchangePlans ==
  {Merging, Preserving, TextKeys, NestedKeys, RowKeys, TimeKeys, HostKeys, HostKeysCarried, Singleton}
    \cup Refused

Long == <<1, 1, 1, 1, 1, 1, 1, 0>>

KeysOf(p) ==
  CASE p.fields = TextKeys.fields -> {<<Null, <<Long>>>>, <<<<<<1>>>>, <<Long>>>>, <<<<<<1, 0>>>>, <<Long>>>>}
    [] p.fields = NestedKeys.fields -> {<<<<<<Null>>>>, Null>>, <<<<<<<<<<1>>>>>>>>, <<<<<<<<1>>, Null>>>>>>>>}
    [] p.fields = RowKeys.fields -> {<<<<<<Null, Null>>>>, <<200>>>>, <<<<<<<<Long>>, <<1>>>>>>, <<0 - 200>>>>}
    [] p.fields = TimeKeys.fields -> {<<<<0 - 1>>, <<0>>, <<1>>>>, <<<<1>>, <<0>>, <<1>>>>, <<Null, <<0>>, <<2>>>>}
    [] OTHER -> {<<<<0>>>>, <<<<1>>>>, <<<<2>>>>, <<Null>>}

\* A hash that spreads the keys above over the key groups.
WordHash(word) ==
  CASE word[1] = "fixed" -> word[2]
    [] word[1] = "inline" -> Len(word[2])
    [] word[1] = "variable" -> word[3]
    [] word[1] = "nulls" -> Cardinality(word[3]) * 3
    [] OTHER -> 1

Murmur(words) ==
  LET sum == FoldLeft(LAMBDA n, word : n + WordHash(word), 0, words)
  IN  IF sum < 0 THEN 0 - sum ELSE sum

-----------------------------------------------------------------------------

Stores == INSTANCE KeyedStores WITH
    ByteMax <- 2, Ranges <- StoreRanges,
    StateKeys <- StoreKeys, StateValues <- {<<1>>, <<2, 2, 2>>},
    Batches <- StoreBatches, Budget <- 40, MaxWrites <- 5, Capacity <- 2,
    RestoreRows <- 2, Requests <- ScanRequests

Timers == INSTANCE TimerService WITH
    Ranges <- StoreRanges, Times <- {1, 2},
    Keys <- {1, 2}, Limits <- {1, 2, 9}, Budget <- 14, MaxSteps <- 4

Exchanged == INSTANCE Exchange WITH
    Plans <- ExchangePlans,
    Paths <- {"arrow", "owned", "stream"}, KeyChoices <- KeysOf, HashOf <- Murmur,
    MaxBatch <- 3, MaxEvents <- 3, Budget <- 72, ExportLimit <- 17

ASSUME ConstantsAreValid ==
  /\ Stores!StateScansAssumption

vars == <<part, store, truth, phase, writes, svc, parked, frontier, draining, batch, steps, plan,
         path, channels, buffers, log, received, recovered, done>>

Off == "off"   \* the value of the variables of the components that do not run

OthersStores == <<svc, parked, frontier, draining, batch, steps, plan, path, channels, buffers, log,
    received, recovered, done>>
OthersTimers == <<store, truth, writes, plan, path, channels, buffers, log, received, recovered, done>>
OthersExchanged == <<store, truth, writes, svc, parked, frontier, draining, batch, steps>>

Init ==
  \/ /\ part = "state" /\ Stores!Init
     /\ svc = Off /\ parked = Off /\ frontier = Off /\ draining = Off /\ batch = Off /\
        steps = Off /\ plan = Off /\ path = Off /\ channels = Off /\ buffers = Off /\
        log = Off /\ received = Off /\ recovered = Off /\ done = Off
  \/ /\ part = "timers" /\ Timers!Init
     /\ store = Off /\ truth = Off /\ writes = Off /\ plan = Off /\ path = Off /\
        channels = Off /\ buffers = Off /\ log = Off /\ received = Off /\
        recovered = Off /\ done = Off
  \/ /\ part = "exchange" /\ Exchanged!Init
     /\ store = Off /\ truth = Off /\ writes = Off /\ svc = Off /\ parked = Off /\
        frontier = Off /\ draining = Off /\ batch = Off /\ steps = Off

Next ==
  \/ part = "state" /\ Stores!Next /\ UNCHANGED <<part, OthersStores>>
  \/ part = "timers" /\ Timers!Next /\ UNCHANGED <<part, OthersTimers>>
  \/ part = "exchange" /\ Exchanged!Next /\ UNCHANGED <<part, OthersExchanged>>

Spec == Init /\ [][Next]_vars

-----------------------------------------------------------------------------
(* Properties.                                                                *)

\* The hash, ordered and RocksDB stores hold and return the same entries, within
\* their memory, through writes, scans, snapshots, restores and rescales
\* (KeyedStores; state/memory.rs, ordered_memory.rs, rocks_plugin.rs).
StoresAgree == part = "state" => Stores!StoresAgree

\* Timers are drained in order, once each, and only when due, however the drain
\* is cut into batches; the memory reserved covers them (TimerService).
TimersDrainInOrder == part = "timers" => Timers!TimersDrainInOrder

\* Every row reaches the subtask that owns the key group of its key, once and in
\* order, before and after a rescale (Exchange; exchange_framer.rs, binary_row.rs).
RowsReachTheirOwner == part = "exchange" => Exchanged!RowsReachTheirOwner
=============================================================================
