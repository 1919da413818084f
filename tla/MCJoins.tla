------------------------------- MODULE MCJoins -------------------------------
(* The four streaming joins. The plan has one of them as its operator,       *)
(* chosen in the initial state; each has a key that joins and a null key,    *)
(* and few rows at few times.                                                *)
EXTENDS Changelog

VARIABLES
  operator,  \* the component that runs
  plan, store, status, port, cursor, input, table, emitted, tail, read, states, timers,
  storedTimers, dirty, eventTime, processingTime, inputWatermarks, emittedWatermark,
  now, registered, callbacks, phase, live, overtaken, probes, versions, touched,
  expected, early, directories, pages, pending

\* "rows" bounds the input of a plan.
RegularPlan ==
  [type |-> "Full", filterNulls |-> TRUE, residual |-> TRUE, bounded |-> FALSE, spill |-> FALSE,
   valid |-> TRUE, rows |-> 3]

\* Two values of which the residual condition accepts one order. The last is refused.
RegularPlans ==
  {[RegularPlan EXCEPT !.rows = 4], [RegularPlan EXCEPT !.type = "Left"], [RegularPlan EXCEPT !.type = "Semi"],
   [RegularPlan EXCEPT !.type = "Anti"], [RegularPlan EXCEPT !.type = "Inner", !.filterNulls = FALSE, !.spill = TRUE],
   [RegularPlan EXCEPT !.bounded = TRUE, !.rows = 4], [RegularPlan EXCEPT !.bounded = TRUE, !.type = "Anti"],
   [RegularPlan EXCEPT !.valid = FALSE]}

RegularRows == [key : {1}, value : {1, 2}] \cup [key : {0}, value : {1}]

Row(key, time, id) == [key |-> key, time |-> time, id |-> id]

IntervalRows == {Row(1, 1, 1), Row(1, 2, 1), Row(1, 3, 1), Row(0, 2, 1)}

IntervalPlan ==
  [type |-> "FULL", leftKeys |-> 1, rightKeys |-> 1, filterNulls |-> TRUE, lower |-> -1, upper |-> 1,
   lateness |-> 0, minCleanup |-> 0, eventTime |-> TRUE, changelog |-> FALSE, rows |-> 3]

\* The last three are refused.
IntervalPlans ==
  {IntervalPlan, [IntervalPlan EXCEPT !.changelog = TRUE, !.type = "LEFT", !.lower = 0],
   [IntervalPlan EXCEPT !.type = "INNER", !.minCleanup = 1, !.filterNulls = FALSE, !.rows = 2],
   [IntervalPlan EXCEPT !.type = "RIGHT", !.lower = 1, !.lateness = 1, !.rows = 2],
   [IntervalPlan EXCEPT !.eventTime = FALSE, !.lower = -2, !.upper = 0],
   [IntervalPlan EXCEPT !.lower = 2], [IntervalPlan EXCEPT !.type = "SEMI"],
   [IntervalPlan EXCEPT !.rightKeys = 2]}

Probes ==
  {Change(INSERT, Row(1, 1, 1)), Change(INSERT, Row(1, 3, 1)), Change(DELETE, Row(1, 2, 1)),
   Change(INSERT, Row(0, 1, 1))}

\* The second version of a time fails the residual condition.
Versions ==
  {Change(UPDATE_AFTER, Row(1, 1, 1)), Change(UPDATE_AFTER, Row(1, 1, 2)), Change(UPDATE_AFTER, Row(1, 2, 1)),
   Change(DELETE, Row(1, 1, 1)), Change(UPDATE_AFTER, Row(0, 1, 1))}

\* "rows" bounds the input of a plan.
TemporalPlan ==
  [type |-> "LEFT", leftKeys |-> 1, rightKeys |-> 1, filterNulls |-> TRUE, eventTime |-> TRUE,
   condition |-> FALSE, rows |-> 3, minRetention |-> 0, maxRetention |-> 0]

\* The last three are refused.
TemporalPlans ==
  {TemporalPlan,
   [TemporalPlan EXCEPT !.type = "INNER", !.condition = TRUE, !.filterNulls = FALSE],
   [TemporalPlan EXCEPT !.condition = TRUE, !.rows = 2, !.minRetention = 2, !.maxRetention = 2],
   [TemporalPlan EXCEPT !.type = "INNER", !.eventTime = FALSE, !.minRetention = 2, !.maxRetention = 2],
   [TemporalPlan EXCEPT !.type = "FULL"], [TemporalPlan EXCEPT !.minRetention = 1],
   [TemporalPlan EXCEPT !.rightKeys = 2]}

\* Three inputs with one row twice, a row that matches nothing and a null.
MultiChanges ==
  {[input |-> i, kind |-> k, row |-> [key |-> 1, a |-> a]] : i \in 1..3, k \in {INSERT, DELETE}, a \in 1..2}
    \cup {[input |-> i, kind |-> INSERT, row |-> [key |-> 1, a |-> 0]] : i \in 1..2}
    \cup {[input |-> 2, kind |-> INSERT, row |-> [key |-> 2, a |-> 1]]}

On(depth, left) == [depth |-> depth, left |-> left, leftField |-> "a", rightField |-> "a"]

MultiPlan ==
  [types |-> <<"INNER", "LEFT", "LEFT">>, conditions |-> {On(2, 1), On(3, 2)}, retention |-> 0,
   commonKeys |-> {"key"}, pull |-> TRUE, rows |-> 4]

\* The last five are refused.
MultiPlans ==
  {[MultiPlan EXCEPT !.rows = 5, !.types = <<"INNER", "LEFT">>, !.conditions = {On(2, 1)}], MultiPlan,
   [MultiPlan EXCEPT !.conditions = {On(2, 1), On(3, 1)}, !.pull = FALSE],
   [MultiPlan EXCEPT !.types = <<"INNER", "INNER", "LEFT">>, !.conditions = {On(3, 2)}, !.rows = 3],
   [MultiPlan EXCEPT !.types = <<"INNER", "LEFT", "INNER">>, !.conditions = {On(2, 1), On(3, 1)}, !.rows = 3],
   [MultiPlan EXCEPT !.types = <<"LEFT", "LEFT">>], [MultiPlan EXCEPT !.types = <<"INNER", "RIGHT", "LEFT">>],
   [MultiPlan EXCEPT !.conditions = {On(2, 2)}], [MultiPlan EXCEPT !.retention = 1],
   [MultiPlan EXCEPT !.commonKeys = {"b"}]}

-----------------------------------------------------------------------------

Regular == INSTANCE RegularJoin WITH
    Plans <- RegularPlans, Keys <- {0, 1},
    NullKey <- 0, Rows <- RegularRows, Values <- {1, 2}, PageRows <- 2, SpillRows <- 1,
    Kinds <- {INSERT, DELETE}, MaxBatch <- 2

Interval == INSTANCE IntervalJoin WITH
    Plans <- IntervalPlans,
    InputRows <- IntervalRows, Watermarks <- {2, 100}, MaxBatch <- 2, MaxTime <- 3

Temporal == INSTANCE TemporalJoin WITH
    Plans <- TemporalPlans, LeftInput <- Probes,
    RightInput <- Versions, Watermarks <- {2, 100}, MaxBatch <- 2, MaxTime <- 3

Multi == INSTANCE MultiJoin WITH
    Plans <- MultiPlans, InputChanges <- MultiChanges,
    MaxBatch <- 2, OutputRows <- 2, PageRows <- 2

ASSUME ConstantsAreValid ==
  /\ Regular!StoreAssumption
  /\ Regular!JoinAssumption
  /\ Interval!IntervalJoinAssumption
  /\ Temporal!TemporalJoinAssumption
  /\ Multi!MultiJoinAssumption

vars == <<operator, plan, store, status, port, cursor, input, table, emitted, tail, read, states,
         timers, storedTimers, dirty, eventTime, processingTime, inputWatermarks,
         emittedWatermark, now, registered, callbacks, phase, live, overtaken, probes,
         versions, touched, expected, early, directories, pages, pending>>

Off == "off"   \* the value of the variables of the components that do not run

OthersRegular == <<states, timers, storedTimers, dirty, eventTime, processingTime, inputWatermarks,
    emittedWatermark, now, registered, callbacks, phase, live, overtaken, probes,
    versions, touched, expected, early, directories, pages, pending>>
OthersInterval == <<store, status, port, cursor, input, table, tail, probes, versions, touched, expected,
    early, directories, pages, pending>>
OthersTemporal == <<store, status, port, cursor, input, table, tail, live, overtaken, directories, pages,
    pending>>
OthersMulti == <<store, status, port, cursor, input, table, tail, states, timers, storedTimers, dirty,
    eventTime, processingTime, inputWatermarks, emittedWatermark, now, registered,
    callbacks, overtaken, probes, versions, touched, expected, early>>

Init ==
  \/ /\ operator = "regular" /\ Regular!Init
     /\ states = Off /\ timers = Off /\ storedTimers = Off /\ dirty = Off /\
        eventTime = Off /\ processingTime = Off /\ inputWatermarks = Off /\
        emittedWatermark = Off /\ now = Off /\ registered = Off /\ callbacks = Off /\
        phase = Off /\ live = Off /\ overtaken = Off /\ probes = Off /\
        versions = Off /\ touched = Off /\ expected = Off /\ early = Off /\
        directories = Off /\ pages = Off /\ pending = Off
  \/ /\ operator = "interval" /\ Interval!Init
     /\ store = Off /\ status = Off /\ port = Off /\ cursor = Off /\ input = Off /\
        table = Off /\ tail = Off /\ probes = Off /\ versions = Off /\ touched = Off /\
        expected = Off /\ early = Off /\ directories = Off /\ pages = Off /\
        pending = Off
  \/ /\ operator = "temporal" /\ Temporal!Init
     /\ store = Off /\ status = Off /\ port = Off /\ cursor = Off /\ input = Off /\
        table = Off /\ tail = Off /\ live = Off /\ overtaken = Off /\
        directories = Off /\ pages = Off /\ pending = Off
  \/ /\ operator = "multi" /\ Multi!Init
     /\ store = Off /\ status = Off /\ port = Off /\ cursor = Off /\ input = Off /\
        table = Off /\ tail = Off /\ states = Off /\ timers = Off /\
        storedTimers = Off /\ dirty = Off /\ eventTime = Off /\ processingTime = Off /\
        inputWatermarks = Off /\ emittedWatermark = Off /\ now = Off /\
        registered = Off /\ callbacks = Off /\ overtaken = Off /\ probes = Off /\
        versions = Off /\ touched = Off /\ expected = Off /\ early = Off

Next ==
  \/ operator = "regular" /\ Regular!Next /\ UNCHANGED <<operator, OthersRegular>>
  \/ operator = "interval" /\ Interval!Next /\ UNCHANGED <<operator, OthersInterval>>
  \/ operator = "temporal" /\ Temporal!Next /\ UNCHANGED <<operator, OthersTemporal>>
  \/ operator = "multi" /\ Multi!Next /\ UNCHANGED <<operator, OthersMulti>>

Spec == Init /\ [][Next]_vars

-----------------------------------------------------------------------------
(* Properties.                                                                *)

\* The consumer of a regular join holds the SQL join of the two inputs whenever
\* a checkpoint may be taken, and the paged state holds their rows
\* (RegularJoin; regular_join.rs, change_cursor.rs, paged_state.rs).
JoinIsExact == operator = "regular" => Regular!JoinIsExact

\* The consumer of an interval join holds the joined and the null-padded rows
\* the accepted input calls for, none late to the delayed watermark, and cleanup
\* survives a checkpoint (IntervalJoin; process_change, expire_rows, fire).
IntervalJoinIsExact == operator = "interval" => Interval!IntervalJoinIsExact

\* Every probe of a temporal join is answered once, with the version valid at
\* its time, and no key is cleared within its retention (TemporalJoin;
\* process_accounted, emit_event_rows).
JoinsValidVersion == operator = "temporal" => Temporal!JoinsValidVersion

\* A multi-way join never retracts a row its consumer does not hold, and
\* announces the left-to-right join of the live rows, which its pages hold
\* (MultiJoin; multi_join.rs, cursor.rs, pages.rs, work.rs).
JoinsAllInputs == operator = "multi" => Multi!JoinsAllInputs
=============================================================================
