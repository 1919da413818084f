------------------------- MODULE MCWindowAggregates --------------------------
(* Aggregation of rows, partial results and attached windows into time and   *)
(* count windows, and sessions: merged by the aggregate, and assigned by the *)
(* table function.                                                           *)
EXTENDS Integers, Sequences, TLC

VARIABLES
  operator,  \* the component that runs
  plan, state, now, watermark, due, log, results, failed, input, live, expected, read,
  status, schema, groups, timers, saved, progress, registered, callbacks

CONSTANTS k1, k2

Symmetry == Permutations({k1, k2})

\* Zones whose clock never changes, is put back and is put forward.
Utc == [at |-> 0, before |-> 0, after |-> 0]
Back == [at |-> 4, before |-> 2, after |-> 0]
Forward == [at |-> 4, before |-> 0, after |-> 2]

AggregatePlan(kind, size, slide, from) ==
  [kind |-> kind, size |-> size, slide |-> slide, offset |-> 0, input |-> from,
   changelog |-> FALSE, processingTime |-> FALSE, zone |-> Utc]

InZone(p, zone) == [p EXCEPT !.zone = zone]
WithChanges(p) == [p EXCEPT !.changelog = TRUE]
OnArrival(p) == [p EXCEPT !.processingTime = TRUE]

\* The last is refused.
AggregatePlans ==
  {WithChanges(AggregatePlan("Tumble", 3, 0, "rows")), AggregatePlan("Hop", 4, 2, "partial"),
   InZone(AggregatePlan("Tumble", 2, 0, "rows"), Back),
   InZone(AggregatePlan("Tumble", 2, 0, "partial"), Forward),
   AggregatePlan("Cumulate", 4, 2, "rows"), AggregatePlan("Hop", 4, 2, "attached"),
   OnArrival(AggregatePlan("Tumble", 2, 0, "rows")),
   OnArrival(AggregatePlan("CountTumble", 2, 0, "rows")),
   OnArrival(AggregatePlan("CountHop", 3, 2, "rows")),
   AggregatePlan("CountHop", 1, 2, "rows")}

GroupOf == [k \in {k1, k2} |-> k]

\* With changelog input the shared path is not taken.
MergePlans ==
  {[shared |-> s, changelog |-> FALSE] : s \in BOOLEAN} \cup {[shared |-> FALSE, changelog |-> TRUE]}

Columns == <<"bigint", "timestamp">>

AssignPlan(keys, processing, zone) ==
  [kind |-> "Session", gap |-> 2, maxParallelism |-> 128, schema |-> Columns, timeIndex |-> 2,
   keys |-> keys, processing |-> processing, zone |-> zone]

Refused ==
  {[AssignPlan(<<1>>, FALSE, Utc) EXCEPT !.kind = "Tumble"], [AssignPlan(<<1>>, FALSE, Utc) EXCEPT !.gap = 0],
   [AssignPlan(<<1>>, FALSE, Utc) EXCEPT !.maxParallelism = 0], AssignPlan(<<3>>, FALSE, Utc),
   [AssignPlan(<<1>>, FALSE, Utc) EXCEPT !.timeIndex = 3]}

AssignPlans ==
  {AssignPlan(<<1>>, FALSE, z) : z \in {Utc, Back, Forward}} \cup
  {AssignPlan(<<1>>, TRUE, Back), AssignPlan(<<>>, FALSE, Utc)} \cup Refused

AssignSchemas ==
  {[key |-> FALSE, kind |-> k, visible |-> Columns] : k \in BOOLEAN} \cup
  {[key |-> FALSE, kind |-> TRUE, visible |-> <<"bigint">>]}

-----------------------------------------------------------------------------

Aggregate == INSTANCE WindowAggregate WITH
    Plans <- AggregatePlans,
    KeyGroupOf <- GroupOf, Keys <- {k1, k2}, Times <- {2, 5}, Values <- {1},
    Watermarks <- {2, 4, 9}, MaxNow <- 3, MaxChanges <- 3, MaxBatch <- 2,
    MaxTimersPerOutput <- 1

Merge == INSTANCE SessionWindows WITH
    Plans <- MergePlans, Keys <- {k1, k2},
    Times <- {1, 3, 4, 6}, Gap <- 2, OutputRows <- 1, Watermarks <- {2, 4, 9},
    MaxChanges <- 3, MaxBatch <- 2

Assign == INSTANCE SessionTableFunction WITH
    Plans <- AssignPlans,
    Schemas <- AssignSchemas, Keys <- {1, 2}, KeyGroupOf <- <<1, 2>>,
    Times <- {1, 3, 6}, Watermarks <- {4, 9}, MaxBatch <- 2, MaxRows <- 3, MaxTime <- 6

ASSUME ConstantsAreValid ==
  /\ Assign!SessionTableFunctionAssumption

vars == <<operator, plan, state, now, watermark, due, log, results, failed, input, live,
         expected, read, status, schema, groups, timers, saved, progress, registered,
         callbacks>>

Off == "off"   \* the value of the variables of the components that do not run

OthersAggregate == <<failed, input, live, expected, read, status, schema, groups, timers, saved, progress,
    registered, callbacks>>
OthersMerge == <<now, log, status, schema, groups, timers, saved, progress, registered, callbacks>>
OthersAssign == <<state, watermark, due, log, failed, input>>

Init ==
  \/ /\ operator = "aggregate" /\ Aggregate!Init
     /\ failed = Off /\ input = Off /\ live = Off /\ expected = Off /\ read = Off /\
        status = Off /\ schema = Off /\ groups = Off /\ timers = Off /\ saved = Off /\
        progress = Off /\ registered = Off /\ callbacks = Off
  \/ /\ operator = "merge" /\ Merge!Init
     /\ now = Off /\ log = Off /\ status = Off /\ schema = Off /\ groups = Off /\
        timers = Off /\ saved = Off /\ progress = Off /\ registered = Off /\
        callbacks = Off
  \/ /\ operator = "assign" /\ Assign!Init
     /\ state = Off /\ watermark = Off /\ due = Off /\ log = Off /\ failed = Off /\
        input = Off

Next ==
  \/ operator = "aggregate" /\ Aggregate!Next /\ UNCHANGED <<operator, OthersAggregate>>
  \/ operator = "merge" /\ Merge!Next /\ UNCHANGED <<operator, OthersMerge>>
  \/ operator = "assign" /\ Assign!Next /\ UNCHANGED <<operator, OthersAssign>>

Spec == Init /\ [][Next]_vars

-----------------------------------------------------------------------------
(* Properties.                                                                *)


\* The sessions stored and emitted are those obtained by merging all rows that
\* were not late, whatever the order of arrival (SessionWindows).
SessionsAreMerged == operator = "merge" => Merge!SessionsAreMerged

\* Every row that is not late leaves once, with the session it ended up in, when
\* that session has closed (SessionTableFunction;
\* session_window_table_function.rs).
SessionRowsAreComplete == operator = "assign" => Assign!SessionRowsAreComplete
=============================================================================
