---------------------------- MODULE MCTaskControl ----------------------------
(* Parts of a task that control events and checkpoints pass through, one at  *)
(* a time: incremental checkpoints whose completions are late or lost, the   *)
(* control tree of a region, a shared region with two exits, and the native  *)
(* invocation.                                                               *)
EXTENDS NativeInvocation, Sequences

VARIABLES
  part,      \* the component that runs: the native invocation stays idle elsewhere
  \* IncrementalCheckpoints
  incarnation, live, used, att, snap, shared, pendingMaps, completedId, completed,
  deliveredIds, notified, store, jm, registered, inbox,
  \* RegionControl
  node, last, ended, pendingEvents, forwarding, running, failed, calls, wave, input, flips,
  arrival, emittedEvents, native, told, ends, flushes, out

reuseVars == <<incarnation, live, used, att, snap, shared, pendingMaps, completedId, completed,
               deliveredIds, notified, store, jm, registered, inbox>>
controlVars == <<node, last, ended, pendingEvents, forwarding, running, failed, calls, wave,
                 input, flips, arrival, emittedEvents, native, told, ends, flushes, out>>
suiteVars == <<vars, part, reuseVars, controlVars>>

Edge(n, p) == [node |-> n, port |-> p]

\* A window aggregation (2) that restored its clock, over a UNION (1) of two
\* inputs, joined (3) with a third input: the shape in which one idle event
\* advances an ancestor twice.
TreeEntry == <<Edge(1, 1), Edge(1, 2), Edge(3, 2)>>
TreeParents == <<<<Edge(2, 1)>>, <<Edge(3, 1)>>, <<>>>>

\* One input, a mini-batch stage (1) and two exits.
SharedEntry == <<Edge(1, 1)>>
SharedParents == <<<<Edge(2, 1), Edge(3, 1)>>, <<>>, <<>>>>

-----------------------------------------------------------------------------

Late == INSTANCE IncrementalCheckpoints WITH
    Files <- {"f"}, MaxCheckpoint <- 3,
    MaxIncarnation <- 2, LateCompletions <- TRUE,
    pending <- pendingMaps, delivered <- deliveredIds

Tree == INSTANCE RegionControl WITH
    Nodes <- 1..3, Inputs <- 1..3,
    Arity <- <<2, 1, 2>>, Entry <- TreeEntry, Parents <- TreeParents, Outputs <- {3},
    Unions <- {1}, Windows <- {2}, Restored <- <<0, 2, 0>>, WatermarkStages <- {2, 3},
    EndStages <- {2, 3}, CheckpointStages <- {2}, MaxWatermark <- 3, MaxFlips <- 3,
    MaxCheckpoints <- 1,
    pending <- pendingEvents, emitted <- emittedEvents, flushed <- flushes

Exits == INSTANCE RegionControl WITH
    Nodes <- 1..3, Inputs <- {1},
    Arity <- <<1, 1, 1>>, Entry <- SharedEntry, Parents <- SharedParents,
    Outputs <- {2, 3}, Unions <- {}, Windows <- {}, Restored <- <<0, 0, 0>>,
    WatermarkStages <- {1, 3}, EndStages <- {1}, CheckpointStages <- {1},
    MaxWatermark <- 3, MaxFlips <- 4, MaxCheckpoints <- 2,
    pending <- pendingEvents, emitted <- emittedEvents, flushed <- flushes

ASSUME ConstantsAreValid ==
  /\ Tree!TopologyAssumption
  /\ Exits!TopologyAssumption
  /\ BoundsAssumption

Off == "off"   \* the value of the variables of the components that do not run

ReuseOff ==
  incarnation = Off /\ live = Off /\ used = Off /\ att = Off /\ snap = Off /\ shared = Off /\
  pendingMaps = Off /\ completedId = Off /\ completed = Off /\ deliveredIds = Off /\
  notified = Off /\ store = Off /\ jm = Off /\ registered = Off /\ inbox = Off

ControlOff ==
  node = Off /\ last = Off /\ ended = Off /\ pendingEvents = Off /\ forwarding = Off /\
  running = Off /\ failed = Off /\ calls = Off /\ wave = Off /\ input = Off /\ flips = Off /\
  arrival = Off /\ emittedEvents = Off /\ native = Off /\ told = Off /\ ends = Off /\
  flushes = Off /\ out = Off

SuiteInit ==
  /\ part \in {"invocation", "late", "tree", "exits"}
  /\ Init /\ (part # "invocation" => plan = [n |-> 0, region |-> FALSE])
  /\ \/ part = "invocation" /\ ReuseOff /\ ControlOff
     \/ part = "late" /\ Late!Init /\ ControlOff
     \/ part = "tree" /\ Tree!Init /\ ReuseOff
     \/ part = "exits" /\ Exits!Init /\ ReuseOff

SuiteNext ==
  \/ part = "invocation" /\ Next /\ UNCHANGED <<part, reuseVars, controlVars>>
  \/ part = "late" /\ Late!Next /\ UNCHANGED <<part, vars, controlVars>>
  \/ part = "tree" /\ Tree!Next /\ UNCHANGED <<part, vars, reuseVars>>
  \/ part = "exits" /\ Exits!Next /\ UNCHANGED <<part, vars, reuseVars>>

SuiteSpec == SuiteInit /\ [][SuiteNext]_suiteVars

-----------------------------------------------------------------------------
(* Properties.                                                                *)

\* However late completions, abortions and uploads arrive, the reuse base is a
\* completed checkpoint and no map outlives the notice of its checkpoint's end.
\* (IncrementalCheckpoints; the reuse maps of StreamFusionKeyedStateBackend).
ReuseMapsAreCurrent == part = "late" => Late!ReuseMapsAreCurrent

\* What the native stages of a region are told follows its control tree:
\* watermarks, ends of input, idleness and the flush before a barrier.
NativeFollowsTree == part = "tree" => Tree!NativeFollowsTree

\* The region's watermark and its window clocks never regress and overtake no
\* active input, and no watermark leaves an idle region.
OutputInOrder == [][part = "tree" => Tree!OutputStep]_suiteVars

\* The exits of a shared region never disagree about a control event.
ExitsAgree == part = "exits" => Exits!ExitsAgree
=============================================================================
