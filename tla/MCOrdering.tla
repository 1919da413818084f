----------------------------- MODULE MCOrdering ------------------------------
(* The operators that keep, rank, order or normalise rows: deduplication,    *)
(* Top-N, temporal sort and changelog normalisation.                         *)
EXTENDS Integers, Sequences, TLC

VARIABLES
  operator,  \* the component that runs
  plan, state, input, table, invocation, saved, shared, saturated, pending, phase, now,
  live, access, emitted, read, rows, markers, storedTrigger, timers, lastTrigger,
  drain, progress, watermark, accepted, cuts, schema, clock, latest, status

CONSTANTS k1, k2

Symmetry == Permutations({k1, k2})

Null == 0   \* a null sort key
NaN == 99
NoEnd == -1   \* the rank end is a column

DedupPlan(processingTime, keepLast, insert, before, changelog) ==
  [processingTime |-> processingTime, keepLast |-> keepLast, generateInsert |-> insert,
   generateUpdateBefore |-> before, inputChangelog |-> changelog]

\* Every plan Flink can ask for.
DedupPlans ==
  {DedupPlan(p, k, i, b, FALSE) : p, k, i, b \in BOOLEAN} \cup
  {DedupPlan(FALSE, TRUE, TRUE, b, TRUE) : b \in BOOLEAN}

DedupTicks == {-1, 0, 1}   \* one before the epoch, two in one millisecond

\* A full and a small partition; null, two values and NaN as sort keys.
RankRows ==
  [key : {1}, order : {Null, 1, 2, NaN}, id : {1}, top : {0}] \cup
  [key : {1}, order : {1}, id : {2}, top : {0}] \cup
  [key : {1}, order : {1, 2}, id : {1}, top : {1, 2}] \cup
  [key : {2}, order : {1}, id : {1}, top : {0, 2}]

RankPlan ==
  [strategy |-> "AppendFast", rankType |-> "RowNumber", rankStart |-> 1, rankEnd |-> 2,
   variableEnd |-> FALSE, sort |-> "encoded", ascending |-> TRUE, nullsLast |-> FALSE,
   partitioned |-> TRUE, outputRank |-> FALSE, updateBefore |-> TRUE, bounded |-> FALSE,
   physical |-> FALSE, ttl |-> 0]

Appends ==
  {[RankPlan EXCEPT !.outputRank = rank, !.updateBefore = rank] : rank \in BOOLEAN} \cup
  {[RankPlan EXCEPT !.rankEnd = 1, !.updateBefore = FALSE],
   [RankPlan EXCEPT !.rankEnd = 3, !.ascending = FALSE],
   [RankPlan EXCEPT !.rankStart = 2, !.nullsLast = TRUE],
   [RankPlan EXCEPT !.ttl = 2], [RankPlan EXCEPT !.sort = "compared", !.rankEnd = 1],
   [RankPlan EXCEPT !.rankEnd = NoEnd, !.variableEnd = TRUE]}

Limits ==
  {[RankPlan EXCEPT !.sort = "none", !.partitioned = FALSE, !.rankStart = 2, !.ttl = ttl] : ttl \in {0, 2}}

Updates ==
  {[RankPlan EXCEPT !.strategy = "UpdateFast", !.rankEnd = end, !.updateBefore = (end = 1)] : end \in 1..2} \cup
  {[RankPlan EXCEPT !.strategy = "UpdateFast", !.sort = "compared", !.ascending = FALSE, !.outputRank = TRUE]}

Retractions ==
  {[RankPlan EXCEPT !.strategy = "Retract", !.rankEnd = 1, !.sort = sort] : sort \in {"encoded", "compared"}} \cup
  {[RankPlan EXCEPT !.strategy = "Retract", !.outputRank = TRUE, !.updateBefore = FALSE],
   [RankPlan EXCEPT !.strategy = "Retract", !.ttl = 2, !.ascending = FALSE],
   [RankPlan EXCEPT !.strategy = "Retract", !.rankEnd = NoEnd, !.variableEnd = TRUE],
   [RankPlan EXCEPT !.strategy = "Retract", !.sort = "none", !.partitioned = FALSE]}

Ranks ==
  {[RankPlan EXCEPT !.rankType = "Rank", !.bounded = TRUE, !.physical = TRUE, !.outputRank = TRUE,
                    !.rankStart = start, !.sort = sort] :
     start \in 1..2, sort \in {"encoded", "compared"}}

RankPlans == Appends \cup Limits \cup Updates \cup Retractions \cup Ranks

\* One event time with every secondary key, and one before and after it.
SortRows == [time : {2}, key : {Null, 1, 2}] \cup [time : {1, 3}, key : {1}]

SortPlan == [processingTime |-> FALSE, secondary |-> "none", nullsLast |-> FALSE, keys |-> 1, directions |-> 1]

SortPlans ==
  {[SortPlan EXCEPT !.processingTime = p, !.secondary = s, !.nullsLast = (s = "descending")] :
     p \in BOOLEAN, s \in {"none", "descending"}} \cup
  {[SortPlan EXCEPT !.secondary = "ascending", !.directions = 0]}

\* Scalar and map rows; the last plans and the last schema are refused.
Columns == {<<"bigint", "string">>, <<"bigint", "map">>}

NormalizePlan(columns, filter, before, ttl) ==
  [maxParallelism |-> 128, keys |-> <<1>>, schema |-> columns, hasFilter |-> filter,
   generateUpdateBefore |-> before, ttl |-> ttl]

NormalizePlans ==
  {NormalizePlan(<<"bigint", "string">>, FALSE, FALSE, 0), NormalizePlan(<<"bigint", "map">>, TRUE, TRUE, 0),
   NormalizePlan(<<"bigint", "map">>, FALSE, TRUE, 1)} \cup
  {[NormalizePlan(columns, FALSE, FALSE, 0) EXCEPT !.maxParallelism = m, !.keys = k] :
     m \in {0, 128}, k \in {<<>>, <<3>>}, columns \in {<<>>, <<"bigint", "map">>}}

NormalizeSchemas ==
  {[key |-> TRUE, kind |-> TRUE, filter |-> f, visible |-> columns] : f \in BOOLEAN, columns \in Columns} \cup
  {[key |-> FALSE, kind |-> TRUE, filter |-> FALSE, visible |-> <<"bigint", "string">>],
   [key |-> TRUE, kind |-> FALSE, filter |-> FALSE, visible |-> <<"bigint", "map">>]}

-----------------------------------------------------------------------------

Dedup == INSTANCE Deduplicate WITH
    Plans <- DedupPlans, Keys <- {k1, k2},
    Values <- {1}, Ticks <- DedupTicks, TicksPerMilli <- 2, MaxBatch <- 2, MaxRows <- 3

Rank == INSTANCE TopN WITH
    Plans <- RankPlans, Keys <- {1, 2},
    InputRows <- RankRows, MaxBatch <- 2, MaxRows <- 3, MaxTime <- 3, OutputRows <- 2

Sort == INSTANCE TemporalSort WITH
    Plans <- SortPlans, InputRows <- SortRows,
    MaxTime <- 3, MaxBatch <- 2, MaxRows <- 3, PageRows <- 2, TimersPerOutput <- 1

Normalize == INSTANCE ChangelogNormalize WITH
    Plans <- NormalizePlans,
    Schemas <- NormalizeSchemas, Keys <- {k1, k2}, MaxBatch <- 2, MaxRows <- 3,
    MaxTime <- 2

ASSUME ConstantsAreValid ==
  /\ Dedup!DeduplicateAssumption
  /\ Rank!TopNAssumption
  /\ Sort!TemporalSortAssumption
  /\ Normalize!ChangelogNormalizeAssumption

vars == <<operator, plan, state, input, table, invocation, saved, shared, saturated, pending,
         phase, now, live, access, emitted, read, rows, markers, storedTrigger, timers,
         lastTrigger, drain, progress, watermark, accepted, cuts, schema, clock,
         latest, status>>

Off == "off"   \* the value of the variables of the components that do not run

OthersDedup == <<shared, saturated, pending, phase, now, live, access, emitted, read, rows, markers,
    storedTrigger, timers, lastTrigger, drain, progress, watermark, accepted, cuts,
    schema, clock, latest, status>>
OthersRank == <<input, invocation, saved, rows, markers, storedTrigger, timers, lastTrigger, drain,
    progress, watermark, accepted, cuts, schema, clock, latest, status>>
OthersSort == <<state, input, table, invocation, saved, shared, saturated, pending, live, access,
    schema, clock, latest, status>>
OthersNormalize == <<input, invocation, saved, shared, saturated, pending, phase, now, live, access,
    emitted, rows, markers, storedTrigger, timers, lastTrigger, drain, progress,
    watermark, accepted, cuts>>

Init ==
  \/ /\ operator = "dedup" /\ Dedup!Init
     /\ shared = Off /\ saturated = Off /\ pending = Off /\ phase = Off /\ now = Off /\
        live = Off /\ access = Off /\ emitted = Off /\ read = Off /\ rows = Off /\
        markers = Off /\ storedTrigger = Off /\ timers = Off /\ lastTrigger = Off /\
        drain = Off /\ progress = Off /\ watermark = Off /\ accepted = Off /\
        cuts = Off /\ schema = Off /\ clock = Off /\ latest = Off /\ status = Off
  \/ /\ operator = "rank" /\ Rank!Init
     /\ input = Off /\ invocation = Off /\ saved = Off /\ rows = Off /\
        markers = Off /\ storedTrigger = Off /\ timers = Off /\ lastTrigger = Off /\
        drain = Off /\ progress = Off /\ watermark = Off /\ accepted = Off /\
        cuts = Off /\ schema = Off /\ clock = Off /\ latest = Off /\ status = Off
  \/ /\ operator = "sort" /\ Sort!Init
     /\ state = Off /\ input = Off /\ table = Off /\ invocation = Off /\ saved = Off /\
        shared = Off /\ saturated = Off /\ pending = Off /\ live = Off /\
        access = Off /\ schema = Off /\ clock = Off /\ latest = Off /\ status = Off
  \/ /\ operator = "normalize" /\ Normalize!Init
     /\ input = Off /\ invocation = Off /\ saved = Off /\ shared = Off /\
        saturated = Off /\ pending = Off /\ phase = Off /\ now = Off /\ live = Off /\
        access = Off /\ emitted = Off /\ rows = Off /\ markers = Off /\
        storedTrigger = Off /\ timers = Off /\ lastTrigger = Off /\ drain = Off /\
        progress = Off /\ watermark = Off /\ accepted = Off /\ cuts = Off

Next ==
  \/ operator = "dedup" /\ Dedup!Next /\ UNCHANGED <<operator, OthersDedup>>
  \/ operator = "rank" /\ Rank!Next /\ UNCHANGED <<operator, OthersRank>>
  \/ operator = "sort" /\ Sort!Next /\ UNCHANGED <<operator, OthersSort>>
  \/ operator = "normalize" /\ Normalize!Next /\ UNCHANGED <<operator, OthersNormalize>>

Spec == Init /\ [][Next]_vars

-----------------------------------------------------------------------------
(* Properties.                                                                *)

\* The consumer of a deduplication holds, for every key, the one row its rule
\* keeps of the rows that came (Deduplicate; deduplicate.rs).
KeepsOneRow == operator = "dedup" => Dedup!KeepsOneRow

\* The consumer of a Top-N holds exactly the rows whose rank is in the range
\* (TopN; top_n.rs, top_n/batch.rs, top_n/selection.rs).
TopIsExact == operator = "rank" => Rank!TopIsExact

\* Temporal sort gives out every row once, in order, when its time has come
\* (TemporalSort; temporal_sort.rs).
ReleasedInOrder == operator = "sort" => Sort!ReleasedInOrder

\* The consumer of a normalised changelog holds the current row of every key
\* that passes the filter (ChangelogNormalize; changelog_normalize.rs).
NormalizedTableIsCurrent == operator = "normalize" => Normalize!NormalizedTableIsCurrent
=============================================================================
