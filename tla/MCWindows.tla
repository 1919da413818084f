------------------------------ MODULE MCWindows ------------------------------
(* Event-time slices fed by two local aggregations, processing-time slices,  *)
(* window Top-N and deduplication, and the window join.                      *)
EXTENDS WindowJoin, TLC

VARIABLES
  operator,  \* the component that runs: the window join stays idle elsewhere
  plan, buffer, channel, slices, sent, heard, firing, held, failed, onTime, possible,
  results, read, now, deadline, arrived, values, ordered, identities, storedTimers,
  closing, progress, phase, live, emitted

CONSTANTS s1, s2

Symmetry == Permutations({s1, s2})

NoTime == -1   \* no event time

SlicePlan(kind, size, slide, offset, attached, processingTime) ==
  [kind |-> kind, size |-> size, slide |-> slide, offset |-> offset, attached |-> attached,
   changelog |-> FALSE, processingTime |-> processingTime]

\* HOP and CUMULATE over shared slices, TUMBLE with an offset, an attached TUMBLE.
SlicedPlans ==
  {SlicePlan("Hop", 4, 2, 0, FALSE, FALSE), SlicePlan("Tumble", 2, 0, 1, FALSE, FALSE),
   SlicePlan("Tumble", 2, 0, 0, TRUE, FALSE), SlicePlan("Cumulate", 4, 2, 0, FALSE, FALSE)}

\* The last is refused.
ProcessingPlans ==
  {SlicePlan("Tumble", 2, 0, 0, FALSE, TRUE), SlicePlan("Tumble", 2, 0, 1, FALSE, TRUE),
   SlicePlan("Tumble", 2, 0, 0, FALSE, FALSE)}

\* One full window with ties and duplicates, a window of another key and a row
\* without an end.
SelectionRows ==
  [key : {1}, end : {2}, order : {0, 1, 2}, id : {1}] \cup
  {[key |-> 1, end |-> 2, order |-> 1, id |-> 2], [key |-> 2, end |-> 3, order |-> 1, id |-> 1],
   [key |-> 1, end |-> 0, order |-> 1, id |-> 1]}

SelectionPlan ==
  [rank |-> TRUE, indexed |-> TRUE, rankStart |-> 1, rankEnd |-> 2, ascending |-> TRUE,
   nullsLast |-> FALSE, keepLast |-> FALSE, offset |-> 0, columns |-> 4, endColumn |-> 1]

SelectionPlans ==
  {[SelectionPlan EXCEPT !.indexed = indexed, !.rankStart = start] : indexed \in BOOLEAN, start \in 0..2} \cup
  {[SelectionPlan EXCEPT !.ascending = FALSE, !.nullsLast = TRUE, !.offset = 1, !.rankEnd = 3],
   [SelectionPlan EXCEPT !.rankStart = 3], [SelectionPlan EXCEPT !.endColumn = 5]} \cup
  {[SelectionPlan EXCEPT !.rank = FALSE, !.indexed = FALSE, !.keepLast = last] : last \in BOOLEAN}

Row(id, side, key, end) ==
  [id |-> id, side |-> side, key |-> key, end |-> end, retracts |-> FALSE]

\* Three left rows and one right row share a window whose left side takes two
\* pages; one row is of another window whose end is the largest timestamp, one
\* has no window end and one is a retraction.
JoinRows ==
  {Row(1, 1, 1, 2), Row(2, 1, 1, 2), Row(3, 1, 1, 2), Row(4, 2, 1, 2),
   Row(5, 2, 2, 3), [Row(6, 2, 1, 2) EXCEPT !.retracts = TRUE], Row(7, 1, 2, 0)}
JoinGroups == <<2, 1>>

-----------------------------------------------------------------------------

Sliced == INSTANCE SlicedWindows WITH
    Plans <- SlicedPlans, Senders <- {s1, s2},
    Keys <- {1, 2}, Times <- {2, 5, NoTime}, Watermarks <- {3, 20}, MaxTime <- 20,
    MaxRows <- 2, MaxBatch <- 1, Capacity <- 3, OutputRows <- 1, FireRows <- 2

Processing == INSTANCE ProcessingWindows WITH
    Plans <- ProcessingPlans,
    Keys <- {1, 2}, MaxNow <- 5, MaxTime <- 20, MaxRows <- 4, MaxBatch <- 2,
    Capacity <- 4, OutputRows <- 1, FireRows <- 1

Selection == INSTANCE WindowSelection WITH
    Plans <- SelectionPlans,
    InputRows <- SelectionRows, MaxBatch <- 2, MaxRows <- 4, MaxTime <- 2,
    timers <- closing, clock <- progress

ASSUME ConstantsAreValid ==
  /\ Sliced!BufferAssumption
  /\ Processing!BufferAssumption
  /\ Selection!WindowSelectionAssumption
  /\ WindowJoinAssumption

otherVars == <<plan, buffer, channel, slices, sent, heard, firing, held, failed,
               onTime, possible, results, read, now, deadline, arrived, values,
               ordered, identities, storedTimers, closing, progress, phase, live,
               emitted>>
suiteVars == <<vars, operator, otherVars>>

Off == "off"   \* the value of the variables of the components that do not run

OthersSliced == <<now, deadline, arrived, values, ordered, identities, storedTimers,
    closing, progress, phase, live, emitted>>
OthersProcessing == <<channel, sent, heard, firing, held, failed, onTime, possible, values,
    ordered, identities, storedTimers, closing, progress, phase, live,
    emitted>>
OthersSelection == <<buffer, channel, slices, sent, heard, firing, held, failed, onTime,
    possible, results, now, deadline, arrived>>

SuiteInit ==
  /\ Init
  /\ \/ /\ operator = "sliced" /\ Sliced!Init
        /\ now = Off /\ deadline = Off /\ arrived = Off /\ values = Off /\ ordered = Off /\
           identities = Off /\ storedTimers = Off /\ closing = Off /\ progress = Off /\
           phase = Off /\ live = Off /\ emitted = Off
     \/ /\ operator = "processing" /\ Processing!Init
        /\ channel = Off /\ sent = Off /\ heard = Off /\ firing = Off /\ held = Off /\
           failed = Off /\ onTime = Off /\ possible = Off /\ values = Off /\ ordered = Off /\
           identities = Off /\ storedTimers = Off /\ closing = Off /\ progress = Off /\
           phase = Off /\ live = Off /\ emitted = Off
     \/ /\ operator = "selection" /\ Selection!Init
        /\ buffer = Off /\ channel = Off /\ slices = Off /\ sent = Off /\ heard = Off /\
           firing = Off /\ held = Off /\ failed = Off /\ onTime = Off /\ possible = Off /\
           results = Off /\ now = Off /\ deadline = Off /\ arrived = Off
     \/ /\ operator = "join"
        /\ plan = Off /\ buffer = Off /\ channel = Off /\ slices = Off /\ sent = Off /\
           heard = Off /\ firing = Off /\ held = Off /\ failed = Off /\ onTime = Off /\
           possible = Off /\ results = Off /\ read = Off /\ now = Off /\ deadline = Off /\
           arrived = Off /\ values = Off /\ ordered = Off /\ identities = Off /\
           storedTimers = Off /\ closing = Off /\ progress = Off /\ phase = Off /\
           live = Off /\ emitted = Off

SuiteNext ==
  \/ operator = "sliced" /\ Sliced!Next /\ UNCHANGED <<operator, vars, OthersSliced>>
  \/ operator = "processing" /\ Processing!Next /\ UNCHANGED <<operator, vars, OthersProcessing>>
  \/ operator = "selection" /\ Selection!Next /\ UNCHANGED <<operator, vars, OthersSelection>>
  \/ operator = "join" /\ Next /\ UNCHANGED <<operator, otherVars>>

SuiteSpec == SuiteInit /\ [][SuiteNext]_suiteVars

-----------------------------------------------------------------------------
(* Properties.                                                                *)

\* A window over slices is emitted once, when it is closed, with every row that
\* no watermark had overtaken; no slice outlives its windows or loses its timer
\* (SlicedWindows; buffered.rs, buffered/control.rs, shared_slices).
WindowsAreExact == operator = "sliced" => Sliced!WindowsAreExact

\* A processing-time window is emitted once, with exactly the rows that arrived
\* in it (ProcessingWindows; shared_processing.rs, processing_time.rs).
ArrivalsAreCounted == operator = "processing" => Processing!ArrivalsAreCounted

\* A closed window has announced exactly the rows Top-N or deduplication selects
\* from the changes that came in time; an open one nothing (WindowSelection).
SelectedOnClose == operator = "selection" => Selection!SelectedOnClose

Result == INSTANCE WindowJoinResult WITH
  Forever <- {w \in Windows : w[2] = MaxTime},
  waiting <- Meaning.waiting, retained <- Meaning.retained,
  clock <- Meaning.clock, output <- Meaning.output,
  saved <- [waiting |-> saved.waiting, retained |-> Retained(saved.payload),
            output |-> saved.output]

\* Draining page by page, with failures and restarts anywhere in between, the
\* window join behaves like WindowJoinResult, which closes every due window
\* whole and at once: each pair of a window's rows once, in left-major order,
\* none of a window that is still open, and nothing half closed in a checkpoint.
ImplementsResult ==
  /\ operator = "join" => Result!Init
  /\ [][operator = "join" => Result!Next \/ UNCHANGED Result!vars]_suiteVars
=============================================================================
