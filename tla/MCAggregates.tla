---------------------------- MODULE MCAggregates -----------------------------
(* Group aggregation in one stage (two groups; values that wrap when summed, *)
(* a NULL and a row that fails the FILTER) and in two or three stages (two   *)
(* local subtasks and one group, with and without a split into two buckets); *)
(* and OVER aggregation of rows whose sort keys tie, are null or lie further *)
(* apart than a RANGE frame.                                                 *)
EXTENDS Integers, Sequences, TLC

VARIABLES
  operator,  \* the component that runs
  plan, store, bundle, draining, output, invocation, input, settled, table, q, local,
  channel, incremental, finals, read, state, timers, progress, now, phase, cursor,
  pending, live

CONSTANTS NULL, k1, k2, l1, l2,
          SelectsDistinct   \* only SELECT DISTINCT over a changelog is checked

LocalSymmetry == Permutations({l1, l2})

Call(function, distinct, filtered, retractable) ==
  [function |-> function, distinct |-> distinct, filtered |-> filtered, retractable |-> retractable,
   type |-> "int"]

F(function) == Call(function, FALSE, FALSE, TRUE)
A(function) == Call(function, FALSE, FALSE, FALSE)
D(function) == Call(function, TRUE, FALSE, TRUE)

Row(k, v) == [key |-> k, value |-> v, pass |-> v # 1]
GroupRows == {Row(k1, v) : v \in {1, 3, NULL}} \cup {Row(k2, 3)}

Sums == <<F("CountStar"), F("Sum"), D("Sum"), F("Avg")>>
Extrema == <<F("Min"), F("Max"), D("Count"), D("Avg")>>
Members == <<D("Count"), Call("Count", TRUE, TRUE, TRUE), F("Sum0")>>
Appending == <<A("Min"), A("Max"), A("Count"), A("Avg")>>

GroupPlan ==
  [calls |-> Sums, changelog |-> TRUE, before |-> TRUE, mini |-> 0, bounded |-> FALSE,
   partial |-> FALSE, keyless |-> FALSE]

\* SELECT DISTINCT over a changelog: a group aggregate without calls.
DistinctPlan == [GroupPlan EXCEPT !.calls = <<>>]

\* The last two are refused.
GroupPlans ==
  IF SelectsDistinct THEN {DistinctPlan} ELSE
  {[GroupPlan EXCEPT !.calls = c, !.mini = m] : c \in {Sums, Extrema, Members}, m \in {0, 2}} \cup
  {[GroupPlan EXCEPT !.calls = Members, !.mini = m, !.changelog = FALSE] : m \in {0, 2}} \cup
  {[GroupPlan EXCEPT !.calls = c, !.mini = m, !.changelog = FALSE, !.before = FALSE] :
     c \in {Appending, <<A("Sum")>>}, m \in {0, 2}} \cup
  {[GroupPlan EXCEPT !.bounded = TRUE, !.calls = c] : c \in {Sums, Extrema, Members}} \cup
  {[GroupPlan EXCEPT !.bounded = TRUE, !.calls = Appending, !.changelog = FALSE],
   [GroupPlan EXCEPT !.bounded = TRUE, !.calls = <<A("CountStar"), A("Sum"), A("Sum0"), D("Sum")>>,
                     !.changelog = FALSE, !.keyless = TRUE],
   [GroupPlan EXCEPT !.calls = <<>>, !.mini = 2], [GroupPlan EXCEPT !.calls = <<>>, !.changelog = FALSE],
   [GroupPlan EXCEPT !.calls = <<A("Min")>>],
   [GroupPlan EXCEPT !.calls = <<[F("Sum") EXCEPT !.type = "text"]>>, !.changelog = FALSE]}

StagedPlan(sql, totals, indices, split, changes) ==
  [sqlCalls |-> sql, localCalls |-> sql, finalCalls |-> totals, valueIndices |-> indices,
   incremental |-> split, changelog |-> changes, before |-> TRUE,
   localMini |-> 2, incrementalMini |-> 2, globalMini |-> 2]

Direct == <<F("Sum"), D("Count"), D("Sum"), F("Min"), F("Avg")>>
DirectAppending == <<A("Max"), A("Avg")>>

\* A split plan with SUM reads no retractions: the incremental stage loses a
\* difference whose count is zero (README, section 5).
StagedPlans ==
  {StagedPlan(Direct, Direct, <<>>, FALSE, TRUE),
   StagedPlan(DirectAppending, DirectAppending, <<>>, FALSE, FALSE),
   StagedPlan(<<D("Count"), F("Max"), F("CountStar")>>, <<F("Sum0"), F("Max"), F("Sum0")>>, <<1, 2, 3>>, TRUE, TRUE),
   StagedPlan(<<D("Count"), F("Sum")>>, <<F("Sum0"), F("Sum")>>, <<1, 2>>, TRUE, FALSE)}

BucketOf(v) == IF v = 3 THEN 1 ELSE 0   \* two values share a bucket

NullOrder == 0   \* a null sort key

OverRows ==
  [key : {1}, order : {NullOrder, 1, 2, 3}, value : {2}, pass : {TRUE}] \cup
  [key : {1}, order : {1}, value : {NULL}, pass : {TRUE}] \cup
  [key : {2}, order : {2}, value : {1}, pass : {TRUE}]

OverPlan ==
  [time |-> "none", rowsFrame |-> TRUE, offset |-> -1, changelog |-> TRUE, final |-> FALSE,
   nullsLast |-> FALSE, ascending |-> TRUE, ttl |-> 0, calls |-> <<F("Sum"), F("Min"), F("Count")>>]

Frames(p) == {[p EXCEPT !.rowsFrame = rows] : rows \in BOOLEAN}
Offsets(p) == Frames(p) \cup Frames([p EXCEPT !.offset = 1]) \cup {[p EXCEPT !.offset = 0]}

Final == [OverPlan EXCEPT !.final = TRUE]
Decimals == <<[F("Sum") EXCEPT !.type = "decimal"]>>

\* One plan for every way of holding state; the last four are refused.
OverPlans ==
  Offsets(OverPlan) \cup Frames([OverPlan EXCEPT !.nullsLast = TRUE]) \cup
  Offsets([OverPlan EXCEPT !.time = "event"]) \cup
  Offsets([OverPlan EXCEPT !.time = "processing", !.changelog = FALSE]) \cup
  Frames([OverPlan EXCEPT !.time = "processing"]) \cup
  Offsets(Final) \cup Frames([Final EXCEPT !.calls = Decimals, !.offset = 1]) \cup
  {[OverPlan EXCEPT !.ascending = FALSE], [OverPlan EXCEPT !.ttl = 1], [OverPlan EXCEPT !.calls = <<>>],
   [Final EXCEPT !.time = "event"]}

-----------------------------------------------------------------------------

Group == INSTANCE GroupAggregate WITH
    Width <- 8, MaxDecimal <- 4,
    Keys <- {k1, k2}, Plans <- GroupPlans, Rows <- GroupRows, MaxBatch <- 2,
    MaxLive <- 3, ControlMaxGroups <- 1, BoundedOutputMaxRows <- 1

Staged == INSTANCE TwoPhaseAggregate WITH
    Width <- 16, MaxDecimal <- 4,
    Keys <- {k1}, Locals <- {l1, l2}, Values <- 1..3, Bucket <- BucketOf,
    Plans <- StagedPlans, MaxChanges <- 3, MaxQueue <- 2, ControlMaxGroups <- 1

Over == INSTANCE OverAggregate WITH
    Width <- 16, MaxDecimal <- 40,
    TimersPerCallback <- 1, Plans <- OverPlans, Keys <- {1, 2}, InputRows <- OverRows,
    MaxBatch <- 2, MaxRows <- 3, MaxTime <- 4, OutputRows <- 2

ASSUME ConstantsAreValid ==
  /\ Group!AccumulatorsAssumption
  /\ Group!GroupAggregateAssumption
  /\ Staged!AccumulatorsAssumption
  /\ Staged!TwoPhaseAssumption
  /\ Over!OverAggregateAssumption

vars == <<operator, plan, store, bundle, draining, output, invocation, input, settled, table, q,
         local, channel, incremental, finals, read, state, timers, progress, now,
         phase, cursor, pending, live>>

Off == "off"   \* the value of the variables of the components that do not run

OthersGroup == <<q, local, channel, incremental, finals, read, state, timers, progress, now, phase,
    cursor, pending, live>>
OthersStaged == <<plan, draining, output, invocation, settled, state, timers, progress, now, phase,
    cursor, pending, live>>
OthersOver == <<store, bundle, draining, output, invocation, input, settled, q, local, channel,
    incremental, finals>>

Init ==
  \/ /\ operator = "group" /\ Group!Init
     /\ q = Off /\ local = Off /\ channel = Off /\ incremental = Off /\ finals = Off /\
        read = Off /\ state = Off /\ timers = Off /\ progress = Off /\ now = Off /\
        phase = Off /\ cursor = Off /\ pending = Off /\ live = Off
  \/ /\ operator = "staged" /\ ~SelectsDistinct /\ Staged!Init
     /\ plan = Off /\ draining = Off /\ output = Off /\ invocation = Off /\
        settled = Off /\ state = Off /\ timers = Off /\ progress = Off /\ now = Off /\
        phase = Off /\ cursor = Off /\ pending = Off /\ live = Off
  \/ /\ operator = "over" /\ ~SelectsDistinct /\ Over!Init
     /\ store = Off /\ bundle = Off /\ draining = Off /\ output = Off /\
        invocation = Off /\ input = Off /\ settled = Off /\ q = Off /\ local = Off /\
        channel = Off /\ incremental = Off /\ finals = Off

Next ==
  \/ operator = "group" /\ Group!Next /\ UNCHANGED <<operator, OthersGroup>>
  \/ operator = "staged" /\ Staged!Next /\ UNCHANGED <<operator, OthersStaged>>
  \/ operator = "over" /\ Over!Next /\ UNCHANGED <<operator, OthersOver>>

Spec == Init /\ [][Next]_vars

-----------------------------------------------------------------------------
(* Properties.                                                                *)

\* The consumer of a group aggregation holds for every group what SQL returns
\* for the rows it has been told about, which are all except those of the groups
\* still in the bundle (GroupAggregate; group_aggregate.rs and its accumulators).
AggregatesAreExact == operator = "group" => Group!AggregatesAreExact

\* SELECT DISTINCT shows a key from the change that makes its count one until the
\* retraction that removes it, so exactly while rows of it are left
\* (GroupAggregate; select_distinct.rs).
VisibleWhileCounted == operator = "group" => Group!VisibleWhileCounted

\* Once every bundle of every stage has been flushed, the stages together have
\* announced what one aggregation of all the rows returns (TwoPhaseAggregate;
\* the local, incremental and global group aggregates).
StagesAgree == operator = "staged" => Staged!StagesAgree

\* The consumer of an OVER aggregation holds every row that was released with
\* what SQL returns for its frame (OverAggregate; over_aggregate.rs).
FramesAreExact == operator = "over" => Over!FramesAreExact
=============================================================================
