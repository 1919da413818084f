-------------------------- MODULE NativeInvocation ---------------------------
(***************************************************************************)
(* The invocations of one NativeExecutionContext by the task's mailbox:    *)
(* claiming the context (invocation.rs), installing the control events     *)
(* (control.rs), lowering and filling the input slots (execution_context), *)
(* opening and pulling the persistent stages (unary.rs) as a tree          *)
(* (stream.rs) or a region (region.rs, output.rs), state controls          *)
(* (state.rs), and every way for one to fail, be dropped or end.           *)
(*                                                                         *)
(* The stages form a chain 1 .. plan.n, input first.  A plan without       *)
(* persistent stages is a stateless tree, whose stream is retained.  The   *)
(* mailbox is one thread, but a stream outlives the call that started it,  *)
(* so any call may come while one is open.                                 *)
(***************************************************************************)
EXTENDS Naturals, TLAPS

CONSTANTS MaxStages,   \* bound on the persistent stages of the plan
          MaxBatches   \* bound on the batches a stage emits per control event

BoundsAssumption == MaxStages \in Nat /\ MaxBatches \in Nat \ {0}

VARIABLES
    plan,       \* the lowered plan: number of stages, tree or region
    ctx,        \* NativeExecutionContext.invocation: 0 idle, 1 active, 2 failed
    region,     \* PhysicalRegion.invocation, likewise
    armed,      \* the region's SharedStage slots are armed
    controls,   \* stages addressed by the installed ControlRequest, {} when none
    installed,  \* a ControlRequest is installed
    inputs,     \* the ReusableInputExec slots hold a batch
    proc,       \* InvocationState of each stage's processor
    stream,     \* each stage's UnaryStream: none, open, ended
    retained,   \* a stateless stream is kept in retained_stream
    pc,         \* where the mailbox, or the stream it left open, is
    at,         \* the stage the batch in flight is about to reach, 0 when none
    emitted,    \* batches the current stage emitted for its control event
    flushed,    \* stages that were given their control event
    touched,    \* stages whose state this invocation has changed
    single,     \* the caller takes exactly one output batch
    fed,        \* the input batch has entered the chain
    delivered,  \* output batches delivered so far, up to two
    image,      \* what the last snapshot caught of unfinished or torn stages
    torn        \* stages whose state was left changed by a failed invocation

claimVars  == <<ctx, region, armed, installed, controls, inputs>>
stageVars  == <<proc, stream>>
driveVars  == <<at, emitted, flushed, touched, single, fed, delivered>>
vars == <<plan, claimVars, stageVars, retained, pc, driveVars, image, torn>>

Stages == 1 .. plan.n
Persistent == plan.n > 0

Init ==
    /\ plan \in {p \in [n : 0 .. MaxStages, region : BOOLEAN] : p.region => p.n > 0}
    /\ ctx = 0 /\ region = 0 /\ armed = FALSE
    /\ installed = FALSE /\ controls = {} /\ inputs = FALSE
    /\ proc = [i \in Stages |-> "idle"] /\ stream = [i \in Stages |-> "none"]
    /\ retained = FALSE
    /\ pc = "mailbox"
    /\ at = 0 /\ emitted = 0 /\ flushed = {} /\ touched = {}
    /\ single = FALSE /\ fed = FALSE /\ delivered = 0
    /\ image = {} /\ torn = {}

-----------------------------------------------------------------------------
\* Ending an invocation

\* finish_invocation: controls and inputs are cleared before the claim is given
\* up; a failure of a persistent plan or of a region poisons the context.
FinishInvocation(successful) ==
    /\ installed' = FALSE /\ controls' = {} /\ inputs' = FALSE
    /\ ctx' = IF ~successful /\ (Persistent \/ plan.region) THEN 2 ELSE 0
    /\ torn' = IF successful THEN torn ELSE torn \cup touched
    /\ at' = 0 /\ emitted' = 0 /\ flushed' = {} /\ touched' = {}
    /\ single' = FALSE /\ fed' = FALSE /\ delivered' = 0
    /\ pc' = "mailbox"
    /\ UNCHANGED image

\* Dropping the root stream drops every stage's: those short of their end fail.
DropStreams ==
    /\ proc' = [i \in Stages |-> IF stream[i] = "open" THEN "failed" ELSE proc[i]]
    /\ stream' = [i \in Stages |-> "none"]

\* RegionOutput.finish: streams, then shared slots, then the region, and only
\* then the completion that releases the context.
FinishRegion(successful) ==
    /\ armed' = FALSE
    /\ region' = IF ~plan.region THEN region ELSE IF successful THEN 0 ELSE 2

End(successful) ==
    /\ DropStreams
    /\ FinishRegion(successful)
    /\ FinishInvocation(successful)
    /\ UNCHANGED <<plan, retained>>

-----------------------------------------------------------------------------
\* Starting an invocation

\* Fault: a failed context is claimed again.
Begin_AfterFailure(control, one) ==
    /\ pc = "mailbox" /\ ctx # 1
    /\ one => ~control /\ ~plan.region
    /\ ctx' = 1
    /\ pc' = IF control THEN "install" ELSE "prepare"
    /\ single' = one
    /\ UNCHANGED <<plan, region, armed, installed, controls, inputs, stageVars, retained, at,
                   emitted, flushed, touched, fed, delivered, image, torn>>

\* InvocationGuard::begin, after validate_control_inputs for a control; a claim
\* on an active or failed context is refused and changes nothing.
Begin(control, one) ==
    /\ pc = "mailbox" /\ ctx = 0
    /\ one => ~control /\ ~plan.region
    /\ ctx' = 1
    /\ pc' = IF control THEN "install" ELSE "prepare"
    /\ single' = one
    /\ UNCHANGED <<plan, region, armed, installed, controls, inputs, stageVars, retained, at,
                   emitted, flushed, touched, fed, delivered, image, torn>>

\* ControlEvents::install; the events may be refused, or the memory for them.
Install(events) ==
    /\ pc = "install" /\ ~installed
    /\ installed' = TRUE /\ controls' = events
    /\ pc' = "prepare"
    /\ UNCHANGED <<plan, ctx, region, armed, inputs, stageVars, retained, driveVars, image, torn>>

\* Set-up failures end the claim without poisoning: the guard is not executing.
SetupFails ==
    /\ pc \in {"install", "prepare"}
    /\ FinishInvocation(TRUE)
    /\ UNCHANGED <<plan, region, armed, stageVars, retained>>

\* prepare_execution: the plan is lowered and the slots are filled.
Prepare ==
    /\ pc = "prepare"
    /\ inputs' = TRUE
    /\ pc' = IF plan.region THEN "claimRegion" ELSE IF Persistent THEN "open" ELSE "stateless"
    /\ at' = plan.n
    /\ UNCHANGED <<plan, ctx, region, armed, installed, controls, stageVars, retained, emitted,
                   flushed, touched, single, fed, delivered, image, torn>>

\* PhysicalRegion::start claims the region and arms its shared stages; that it
\* finds either taken cannot happen (IdleIsClean), so its refusals are no step.
ClaimRegion ==
    /\ pc = "claimRegion" /\ region = 0 /\ ~armed
    /\ region' = 1 /\ armed' = TRUE
    /\ pc' = "open"
    /\ UNCHANGED <<plan, ctx, installed, controls, inputs, stageVars, retained, driveVars, image, torn>>

\* UnaryExec::execute, root first: the processor is claimed, then the child opened.
OpenStage ==
    /\ pc = "open" /\ at > 0 /\ proc[at] = "idle"
    /\ proc' = [proc EXCEPT ![at] = "active"]
    /\ stream' = [stream EXCEPT ![at] = "open"]
    /\ at' = at - 1
    /\ pc' = IF at = 1 THEN "pull" ELSE "open"
    /\ UNCHANGED <<plan, claimVars, retained, emitted, flushed, touched, single, fed, delivered, image, torn>>

\* A stage cannot be opened (its memory, or its processor, is refused): the stages
\* above it have consumed nothing and are idle again.
OpenFails ==
    /\ pc = "open"
    /\ proc' = [i \in Stages |-> IF stream[i] = "open" THEN "idle" ELSE proc[i]]
    /\ stream' = [i \in Stages |-> "none"]
    /\ FinishRegion(FALSE)
    /\ FinishInvocation(FALSE)
    /\ UNCHANGED <<plan, retained>>

\* A stateless tree takes its retained stream, or executes the plan.
OpenStateless ==
    /\ pc = "stateless"
    /\ retained' = FALSE
    /\ pc' = "pull"
    /\ UNCHANGED <<plan, claimVars, stageVars, driveVars, image, torn>>

-----------------------------------------------------------------------------
\* Pulling

\* The lowest stage that has not ended drives; stage i + 1 is polled through it.
Driver == CHOOSE i \in Stages : stream[i] = "open" /\ \A j \in Stages : j < i => stream[j] # "open"
AllEnded == \A i \in Stages : stream[i] # "open"

\* execute_single_batch pulls no further once it has had two batches.
Pulling == pc = "pull" /\ ~(single /\ delivered = 2)

\* The batch its input slot held when it was opened enters the chain.
TakeInput ==
    /\ Pulling /\ at = 0 /\ Persistent /\ ~fed
    /\ fed' = TRUE
    /\ at' = 1
    /\ UNCHANGED <<plan, claimVars, stageVars, retained, pc, emitted, flushed, touched, single,
                   delivered, image, torn>>

\* process_batch of the stage the batch has reached; past the last it is delivered.
ProcessBatch ==
    /\ Pulling /\ at > 0
    /\ touched' = touched \cup {at}
    /\ at' = IF at = plan.n THEN 0 ELSE at + 1
    /\ delivered' = IF at = plan.n /\ delivered < 2 THEN delivered + 1 ELSE delivered
    /\ UNCHANGED <<plan, claimVars, stageVars, retained, pc, emitted, flushed, single, fed, image, torn>>

\* Fault: a stage is flushed before the input reached it.
ControlBatch_Early ==
    /\ Pulling /\ at = 0 /\ ~AllEnded
    /\ plan.n \in controls /\ emitted < MaxBatches
    /\ emitted' = emitted + 1
    /\ flushed' = flushed \cup {plan.n}
    /\ touched' = touched \cup {Driver}
    /\ at' = IF Driver = plan.n THEN 0 ELSE Driver + 1
    /\ delivered' = IF Driver = plan.n /\ delivered < 2 THEN delivered + 1 ELSE delivered
    /\ UNCHANGED <<plan, claimVars, stageVars, retained, pc, single, fed, image, torn>>

\* poll_control of the driver, whose child has ended: a batch for its event.
ControlBatch ==
    /\ Pulling /\ at = 0 /\ fed /\ ~AllEnded
    /\ Driver \in controls /\ emitted < MaxBatches
    /\ emitted' = emitted + 1
    /\ flushed' = flushed \cup {Driver}
    /\ touched' = touched \cup {Driver}
    /\ at' = IF Driver = plan.n THEN 0 ELSE Driver + 1
    /\ delivered' = IF Driver = plan.n /\ delivered < 2 THEN delivered + 1 ELSE delivered
    /\ UNCHANGED <<plan, claimVars, stageVars, retained, pc, single, fed, image, torn>>

\* Its event is exhausted, or it has none: the stage ends and is idle.
StageEnds ==
    /\ Pulling /\ at = 0 /\ fed /\ ~AllEnded
    /\ proc' = [proc EXCEPT ![Driver] = "idle"]
    /\ stream' = [stream EXCEPT ![Driver] = "ended"]
    /\ emitted' = 0
    /\ flushed' = IF Driver \in controls THEN flushed \cup {Driver} ELSE flushed
    /\ touched' = IF Driver \in controls THEN touched \cup {Driver} ELSE touched
    /\ UNCHANGED <<plan, claimVars, retained, pc, at, single, fed, delivered, image, torn>>

\* A kernel, a child or the edge fails, or the consumer drops the stream.
PullAborts ==
    /\ pc = "pull"
    /\ End(FALSE)

\* The root ends: a success.
PullEnds ==
    /\ Pulling /\ Persistent /\ at = 0 /\ AllEnded /\ ~single
    /\ End(TRUE)

\* A stateless stream whose input is exhausted is pending, and is kept.
Retain ==
    /\ pc = "pull" /\ ~Persistent
    /\ retained' = TRUE
    /\ FinishInvocation(TRUE)
    /\ UNCHANGED <<plan, region, armed, stageVars>>

\* execute_single_batch at the end of the stream: the invocation is finished, and
\* then the edge is handed over.
SingleEnds ==
    /\ Pulling /\ single /\ Persistent /\ at = 0 /\ AllEnded
    /\ DropStreams /\ FinishRegion(TRUE)
    /\ installed' = FALSE /\ controls' = {} /\ inputs' = FALSE
    /\ ctx' = 0
    /\ pc' = "edge"
    /\ UNCHANGED <<plan, retained, driveVars, image, torn>>

\* The hand-over to Arrow succeeds, or is refused and poisons.
SingleEdge(ok) ==
    /\ pc = "edge"
    /\ ctx' = IF ok THEN ctx ELSE 2
    /\ torn' = IF ok THEN torn ELSE torn \cup touched
    /\ pc' = "mailbox"
    /\ emitted' = 0 /\ flushed' = {} /\ touched' = {}
    /\ single' = FALSE /\ fed' = FALSE /\ delivered' = 0
    /\ UNCHANGED <<plan, region, armed, installed, controls, inputs, stageVars, retained, at, image>>

\* execute_plan runs a whole tree in one call: a retained stream is given up.
ExecutePlan(ok) ==
    /\ pc = "mailbox" /\ ctx = 0 /\ ~plan.region
    /\ retained' = FALSE
    /\ ctx' = IF ok \/ ~Persistent THEN 0 ELSE 2
    /\ torn' = IF ok THEN torn ELSE Stages
    /\ UNCHANGED <<plan, region, armed, installed, controls, inputs, stageVars, pc, driveVars,
                   image>>

-----------------------------------------------------------------------------
\* State controls: state_control and restore_state_reader

\* snapshot_state, write_snapshot_state, checkpoint_state: what is read is what
\* the stages hold.
Unfinished == torn \cup touched \cup {i \in Stages : proc[i] # "idle"}

\* The mailbox is free between calls, also while a stream is left open.
MailboxFree == pc = "mailbox" \/ (pc = "pull" /\ ~single)

Snapshot ==
    /\ MailboxFree /\ ctx = 0 /\ Persistent
    /\ image' = Unfinished
    /\ UNCHANGED <<plan, claimVars, stageVars, retained, pc, driveVars, torn>>

\* restore_state, import_state_checkpoint; a failure leaves the stage half written.
Restore(i, ok) ==
    /\ pc = "mailbox" /\ ctx = 0 /\ Persistent
    /\ ctx' = IF ok THEN 0 ELSE 2
    /\ torn' = IF ok THEN torn ELSE torn \cup {i}
    /\ UNCHANGED <<plan, region, armed, installed, controls, inputs, stageVars, retained, pc,
                   driveVars, image>>

-----------------------------------------------------------------------------

PullStep ==
    \/ TakeInput \/ ProcessBatch \/ ControlBatch \/ StageEnds \/ PullAborts
    \/ PullEnds \/ Retain \/ SingleEnds \/ \E ok \in BOOLEAN : SingleEdge(ok)

StartStep ==
    \/ \E events \in SUBSET Stages : Install(events)
    \/ SetupFails \/ Prepare \/ ClaimRegion
    \/ OpenStage \/ OpenFails \/ OpenStateless

CallStep ==
    \/ \E control, one \in BOOLEAN : Begin(control, one)
    \/ Snapshot
    \/ \E ok \in BOOLEAN : ExecutePlan(ok)
    \/ \E i \in Stages, ok \in BOOLEAN : Restore(i, ok)

Next == CallStep \/ StartStep \/ PullStep

Spec == Init /\ [][Next]_vars

-----------------------------------------------------------------------------
\* Properties

\* Every variable has its type.
TypeOK ==
    /\ ctx \in 0 .. 2 /\ region \in 0 .. 2
    /\ armed \in BOOLEAN /\ installed \in BOOLEAN /\ inputs \in BOOLEAN /\ retained \in BOOLEAN
    /\ single \in BOOLEAN /\ fed \in BOOLEAN
    /\ controls \in SUBSET Stages /\ flushed \in SUBSET Stages /\ touched \in SUBSET Stages
    /\ torn \in SUBSET Stages /\ image \in SUBSET Stages
    /\ proc \in [Stages -> {"idle", "active", "failed"}]
    /\ stream \in [Stages -> {"none", "open", "ended"}]
    /\ pc \in {"mailbox", "install", "prepare", "claimRegion", "open", "stateless", "pull", "edge"}
    /\ at \in 0 .. plan.n /\ emitted \in 0 .. MaxBatches /\ delivered \in 0 .. 2

\* A context that admits an invocation has nothing left of the previous one: no
\* control event that would flush a stage again, no input batch, no open or failed
\* stage, no busy or failed region.
IdleIsClean ==
    ctx = 0 =>
        /\ ~installed /\ ~inputs
        /\ region = 0 /\ ~armed
        /\ \A i \in Stages : proc[i] = "idle" /\ stream[i] = "none"

\* State that a failed, dropped or refused invocation, or a failed restore, has
\* left changed is never executed on again: the context is failed, and stays so.
TornStateIsFenced == torn # {} => ctx = 2

\* A stage handles its control event only after everything upstream has drained,
\* its own events included, and an invocation that reaches its end has handled
\* exactly the events it was given.
ControlsInOrder ==
    /\ \A i \in flushed : i \in controls /\ \A j \in Stages : j < i => stream[j] # "open"
    /\ pc = "pull" /\ Persistent /\ AllEnded => flushed = controls

\* A snapshot or checkpoint never reads a stage in the middle of an invocation, or
\* one that a failure has left half changed.
SnapshotIsWhole == image = {}

\* Only whole state is executed on or saved: an admitted invocation finds nothing
\* of the previous one, changed state that was not finished is fenced off, and a
\* snapshot never reads it.
OnlyWholeState == IdleIsClean /\ TornStateIsFenced /\ SnapshotIsWhole

-----------------------------------------------------------------------------
(***************************************************************************)
(* NativeInvocation for a chain of any length and any number of batches:   *)
(* only whole state is executed on or saved, and control events are        *)
(* handled in the order of the chain.                                      *)
(*                                                                         *)
(* The inductive invariant says, for each place an invocation can be at,   *)
(* what it has claimed so far (AtPlace): nothing before the region is      *)
(* claimed, the stages above `at` while the chain is opened, and while it  *)
(* is pulled all stages but an ended prefix, Drained(k).                   *)
(***************************************************************************)

PlanOK == plan \in [n : 0 .. MaxStages, region : BOOLEAN] /\ (plan.region => plan.n > 0)

StagesClean == \A i \in Stages : proc[i] = "idle" /\ stream[i] = "none"
Unclaimed == region = 0 /\ armed = FALSE /\ StagesClean

\* A region is claimed with its shared stages; a tree has nothing to claim.
RegionHeld == IF plan.region THEN region = 1 /\ armed = TRUE ELSE region = 0 /\ armed = FALSE

\* Root first: the stages above at are open.
Opened ==
    /\ at \in Stages
    /\ \A i \in Stages : IF i <= at THEN proc[i] = "idle" /\ stream[i] = "none"
                                    ELSE proc[i] = "active" /\ stream[i] = "open"

\* Input first: the first k stages have ended.
Drained(k) ==
    \A i \in Stages : IF i <= k THEN proc[i] = "idle" /\ stream[i] = "ended"
                                ELSE proc[i] = "active" /\ stream[i] = "open"

AtPlace ==
    /\ pc = "mailbox" => ctx # 1
    /\ pc = "install" => ctx = 1 /\ Unclaimed /\ installed = FALSE /\ single = FALSE
    /\ pc = "prepare" => ctx = 1 /\ Unclaimed
    /\ pc = "claimRegion" => ctx = 1 /\ Unclaimed /\ plan.region /\ at = plan.n
    /\ pc = "stateless" => ctx = 1 /\ Unclaimed /\ plan.n = 0
    /\ pc = "open" => ctx = 1 /\ RegionHeld /\ Opened
    /\ pc = "pull" => ctx = 1 /\ RegionHeld /\ \E k \in 0 .. plan.n : Drained(k)
    /\ pc = "edge" => ctx = 0
    /\ pc \notin {"pull", "edge"} => touched = {}

\* Events are given only to the stages addressed, and to each of those before it
\* ends; nothing is given before the chain is pulled, or to a single-batch call.
Events ==
    /\ flushed \subseteq controls
    /\ pc # "pull" => flushed = {}
    /\ installed = FALSE => controls = {}
    /\ single => controls = {}
    /\ \A i \in flushed, j \in Stages : j < i => stream[j] # "open"
    /\ \A i \in controls : stream[i] = "ended" => i \in flushed

InvocationInv == PlanOK /\ TypeOK /\ AtPlace /\ Events /\ OnlyWholeState

-----------------------------------------------------------------------------

\* A leaf is tried with SMT, with Zenon, and then with SMT for longer.
USE SMT, Zenon, SMTT(20), SMTT(40)

\* The stage that drives is the one after the ended prefix.
LEMMA DriverIsNext ==
    ASSUME BoundsAssumption, PlanOK, NEW k \in 0 .. plan.n, Drained(k), ~AllEnded
    PROVE  Driver = k + 1 /\ k + 1 \in Stages /\ k < plan.n
<1> DEFINE Drives(i) == stream[i] = "open" /\ \A j \in Stages : j < i => stream[j] # "open"
<1>0. plan.n \in Nat
  BY DEF BoundsAssumption, PlanOK
<1>1. k < plan.n /\ k + 1 \in Stages
  BY <1>0 DEF AllEnded, Drained, Stages
<1>2. Drives(k + 1)
  BY <1>0, <1>1 DEF Drained, Stages
<1>3. ASSUME NEW i \in Stages, Drives(i) PROVE i = k + 1
  BY <1>0, <1>1, <1>3 DEF Drained, Stages
<1> QED
  BY <1>1, <1>2, <1>3 DEF Driver

LEMMA InvocationInit == ASSUME BoundsAssumption, Init PROVE InvocationInv
<1>1. PlanOK
  BY DEF Init, PlanOK
<1>2. plan.n \in Nat
  BY <1>1 DEF BoundsAssumption, PlanOK
<1>3. /\ armed \in BOOLEAN /\ installed \in BOOLEAN /\ inputs \in BOOLEAN
      /\ retained \in BOOLEAN /\ single \in BOOLEAN /\ fed \in BOOLEAN
  BY Zenon DEF Init
<1>4. TypeOK
  BY <1>2, <1>3 DEF Init, TypeOK, BoundsAssumption
<1>5. AtPlace /\ Events
  BY DEF Init, AtPlace, Events
<1>6. OnlyWholeState
  BY DEF Init, OnlyWholeState, IdleIsClean, TornStateIsFenced, SnapshotIsWhole
<1> QED
  BY <1>1, <1>4, <1>5, <1>6 DEF InvocationInv

-----------------------------------------------------------------------------
\* Steps

USE DEF claimVars, stageVars, driveVars, OnlyWholeState

\* What ends an invocation leaves nothing of its events behind.
LEMMA FinishEvents ==
    ASSUME NEW successful \in BOOLEAN, FinishInvocation(successful), plan' = plan
    PROVE  Events'
  BY DEF FinishInvocation, Events, Stages

LEMMA FinishTypes ==
    ASSUME BoundsAssumption, PlanOK, TypeOK, NEW successful \in BOOLEAN,
           FinishInvocation(successful), plan' = plan
    PROVE  /\ ctx' \in 0 .. 2 /\ installed' \in BOOLEAN /\ inputs' \in BOOLEAN
           /\ single' \in BOOLEAN /\ fed' \in BOOLEAN
           /\ controls' = {} /\ flushed' = {} /\ touched' = {}
           /\ torn' \in SUBSET Stages /\ image' \in SUBSET Stages
           /\ pc' = "mailbox"
           /\ at' \in 0 .. plan.n /\ emitted' \in 0 .. MaxBatches /\ delivered' \in 0 .. 2
<1>1. installed' \in BOOLEAN /\ inputs' \in BOOLEAN /\ single' \in BOOLEAN /\ fed' \in BOOLEAN
  BY Zenon DEF FinishInvocation
<1>2. torn' \in SUBSET Stages /\ image' \in SUBSET Stages
  BY DEF TypeOK, FinishInvocation
<1> QED
  BY <1>1, <1>2 DEF BoundsAssumption, PlanOK, TypeOK, FinishInvocation

LEMMA EndTypes ==
    ASSUME BoundsAssumption, PlanOK, TypeOK, NEW successful \in BOOLEAN, End(successful)
    PROVE  TypeOK' /\ PlanOK'
<1>1. FinishInvocation(successful) /\ plan' = plan /\ Stages' = Stages /\ armed' \in BOOLEAN
  BY Zenon DEF End, FinishRegion, Stages
<1>2. region' \in 0 .. 2 /\ retained' \in BOOLEAN
  BY DEF TypeOK, End, FinishRegion
<1>3. /\ proc' \in [Stages -> {"idle", "active", "failed"}]
      /\ stream' \in [Stages -> {"none", "open", "ended"}]
  BY DEF TypeOK, End, DropStreams
<1> QED
  BY <1>1, <1>2, <1>3, FinishTypes DEF TypeOK, PlanOK

LEMMA BeginStep ==
    ASSUME BoundsAssumption, InvocationInv, NEW control \in BOOLEAN, NEW one \in BOOLEAN,
           Begin(control, one)
    PROVE  InvocationInv'
<1>1. TypeOK' /\ PlanOK'
  BY DEF InvocationInv, TypeOK, PlanOK, Begin, Stages
<1>2. AtPlace'
  BY DEF InvocationInv, TypeOK, AtPlace, IdleIsClean, Begin, Stages, Unclaimed, StagesClean
<1>3. Events'
  BY DEF InvocationInv, TypeOK, Events, IdleIsClean, Begin, Stages
<1>4. OnlyWholeState'
  BY DEF InvocationInv, TypeOK, IdleIsClean, TornStateIsFenced, SnapshotIsWhole, Begin, Stages
<1> QED
  BY <1>1, <1>2, <1>3, <1>4 DEF InvocationInv

LEMMA StartSteps ==
    ASSUME BoundsAssumption, InvocationInv, StartStep
    PROVE  InvocationInv'
<1> USE DEF InvocationInv
<1>0. plan.n \in Nat
  BY DEF BoundsAssumption, PlanOK
<1>1. ASSUME NEW events \in SUBSET Stages, Install(events) PROVE InvocationInv'
  <2>1. TypeOK' /\ PlanOK'
    BY <1>1 DEF TypeOK, PlanOK, Install, Stages
  <2>2. AtPlace'
    BY <1>1 DEF TypeOK, AtPlace, Install, Stages, Unclaimed, StagesClean
  <2>3. Events'
    BY <1>1 DEF TypeOK, AtPlace, Events, Install, Stages, Unclaimed, StagesClean
  <2>4. OnlyWholeState'
    BY <1>1 DEF TypeOK, AtPlace, IdleIsClean, TornStateIsFenced, SnapshotIsWhole, Install, Stages
  <2> QED
    BY <2>1, <2>2, <2>3, <2>4
<1>2. ASSUME SetupFails PROVE InvocationInv'
  <2>1. TypeOK' /\ PlanOK'
    BY <1>2, FinishTypes, Zenon DEF TypeOK, PlanOK, SetupFails, Stages
  <2>2. AtPlace' /\ OnlyWholeState'
    BY <1>2 DEF TypeOK, AtPlace, IdleIsClean, TornStateIsFenced, SnapshotIsWhole, SetupFails,
                FinishInvocation, Stages, Unclaimed, StagesClean
  <2> QED
    BY <1>2, <2>1, <2>2, FinishEvents, Zenon DEF SetupFails
<1>3. ASSUME Prepare PROVE InvocationInv'
  <2>1. TypeOK' /\ PlanOK'
    BY <1>0, <1>3 DEF TypeOK, PlanOK, Prepare, Stages
  <2>2. AtPlace'
    BY <1>0, <1>3 DEF TypeOK, PlanOK, AtPlace, Prepare, Stages, Unclaimed, StagesClean, RegionHeld,
                      Opened, Persistent
  <2>3. Events'
    BY <1>3 DEF TypeOK, Events, Prepare, Stages
  <2>4. OnlyWholeState'
    BY <1>3 DEF TypeOK, AtPlace, IdleIsClean, TornStateIsFenced, SnapshotIsWhole, Prepare, Stages
  <2> QED
    BY <2>1, <2>2, <2>3, <2>4
<1>4. ASSUME ClaimRegion PROVE InvocationInv'
  <2>1. TypeOK' /\ PlanOK'
    BY <1>4 DEF TypeOK, PlanOK, ClaimRegion, Stages
  <2>2. AtPlace'
    BY <1>0, <1>4 DEF TypeOK, PlanOK, AtPlace, ClaimRegion, Stages, Unclaimed, StagesClean,
                      RegionHeld, Opened
  <2>3. Events'
    BY <1>4 DEF TypeOK, Events, ClaimRegion, Stages
  <2>4. OnlyWholeState'
    BY <1>4 DEF TypeOK, AtPlace, IdleIsClean, TornStateIsFenced, SnapshotIsWhole, ClaimRegion, Stages
  <2> QED
    BY <2>1, <2>2, <2>3, <2>4
<1>5. ASSUME OpenStage PROVE InvocationInv'
  <2>1. TypeOK' /\ PlanOK'
    BY <1>0, <1>5 DEF TypeOK, PlanOK, OpenStage, Stages
  <2>2. CASE at = 1
    <3>1. Drained(0)'
      BY <1>0, <1>5, <2>2 DEF TypeOK, AtPlace, Opened, Drained, OpenStage, Stages
    <3> QED
      BY <1>0, <1>5, <2>1, <2>2, <3>1 DEF TypeOK, AtPlace, OpenStage, RegionHeld, Events, Stages,
         IdleIsClean, TornStateIsFenced, SnapshotIsWhole
  <2>3. CASE at # 1
    <3>1. Opened'
      BY <1>0, <1>5, <2>3 DEF TypeOK, AtPlace, Opened, OpenStage, Stages
    <3> QED
      BY <1>0, <1>5, <2>1, <2>3, <3>1 DEF TypeOK, AtPlace, OpenStage, RegionHeld, Events, Stages,
         IdleIsClean, TornStateIsFenced, SnapshotIsWhole
  <2> QED
    BY <2>2, <2>3
<1>6. ASSUME OpenFails PROVE InvocationInv'
  <2>0. Persistent
    BY <1>0, <1>6 DEF AtPlace, OpenFails, Opened, Persistent, Stages
  <2>1. TypeOK' /\ PlanOK'
    <3>1. armed' \in BOOLEAN /\ plan' = plan /\ FinishInvocation(FALSE)
      BY <1>6, Zenon DEF OpenFails, FinishRegion
    <3>2. region' \in 0 .. 2 /\ retained' \in BOOLEAN
      BY <1>6 DEF TypeOK, OpenFails, FinishRegion
    <3> QED
      BY <1>6, <3>1, <3>2, FinishTypes, Zenon DEF TypeOK, PlanOK, OpenFails, Stages
  <2>2. AtPlace' /\ OnlyWholeState'
    BY <1>6, <2>0 DEF TypeOK, AtPlace, IdleIsClean, TornStateIsFenced, SnapshotIsWhole, OpenFails,
                FinishRegion, FinishInvocation, Stages
  <2> QED
    BY <1>6, <2>1, <2>2, FinishEvents, Zenon DEF OpenFails
<1>7. ASSUME OpenStateless PROVE InvocationInv'
  <2>1. TypeOK' /\ PlanOK'
    <3>1. retained' \in BOOLEAN
      BY <1>7, Zenon DEF OpenStateless
    <3> QED
      BY <1>7, <3>1 DEF TypeOK, PlanOK, OpenStateless, Stages
  <2>2. Drained(0)' /\ RegionHeld' /\ 0 \in 0 .. plan.n
    BY <1>7 DEF PlanOK, AtPlace, Unclaimed, OpenStateless, Drained, RegionHeld, Stages
  <2> QED
    BY <1>7, <2>1, <2>2 DEF TypeOK, AtPlace, OpenStateless, Events, Stages, IdleIsClean,
       TornStateIsFenced, SnapshotIsWhole
<1> QED
  BY <1>1, <1>2, <1>3, <1>4, <1>5, <1>6, <1>7 DEF StartStep

LEMMA PullSteps ==
    ASSUME BoundsAssumption, InvocationInv, PullStep
    PROVE  InvocationInv'
<1> USE DEF InvocationInv
<1>0. plan.n \in Nat
  BY DEF BoundsAssumption, PlanOK
<1>1. ASSUME TakeInput PROVE InvocationInv'
  <2>1. TypeOK' /\ PlanOK'
    BY <1>0, <1>1 DEF TypeOK, PlanOK, TakeInput, Stages, Persistent
  <2> QED
    BY <1>1, <2>1 DEF TypeOK, AtPlace, TakeInput, Pulling, RegionHeld, Drained, Events, Stages,
       IdleIsClean, TornStateIsFenced, SnapshotIsWhole
<1>2. ASSUME ProcessBatch PROVE InvocationInv'
  <2>1. TypeOK' /\ PlanOK'
    BY <1>0, <1>2 DEF TypeOK, PlanOK, ProcessBatch, Stages
  <2> QED
    BY <1>2, <2>1 DEF TypeOK, AtPlace, ProcessBatch, Pulling, RegionHeld, Drained, Events, Stages,
       IdleIsClean, TornStateIsFenced, SnapshotIsWhole
<1>3. ASSUME ControlBatch PROVE InvocationInv'
  <2> PICK k \in 0 .. plan.n : Drained(k)
    BY <1>3 DEF AtPlace, ControlBatch, Pulling
  <2>0. Driver = k + 1 /\ k + 1 \in Stages /\ k < plan.n
    BY <1>3, DriverIsNext DEF ControlBatch
  <2>1. TypeOK' /\ PlanOK'
    BY <1>0, <1>3, <2>0 DEF TypeOK, PlanOK, ControlBatch, Stages, BoundsAssumption
  <2>2. AtPlace' /\ OnlyWholeState'
    BY <1>3 DEF TypeOK, AtPlace, ControlBatch, Pulling, RegionHeld, Drained, Stages,
       IdleIsClean, TornStateIsFenced, SnapshotIsWhole
  <2>3. \A j \in Stages : j < k + 1 => stream[j] # "open"
    BY <1>0 DEF Drained, Stages
  <2>4. Events'
    BY <1>3, <2>0, <2>3 DEF TypeOK, AtPlace, Events, ControlBatch, Pulling, Stages
  <2> QED
    BY <2>1, <2>2, <2>4
<1>4. ASSUME StageEnds PROVE InvocationInv'
  <2> PICK k \in 0 .. plan.n : Drained(k)
    BY <1>4 DEF AtPlace, StageEnds, Pulling
  <2>0. Driver = k + 1 /\ k + 1 \in Stages /\ k < plan.n
    BY <1>4, DriverIsNext DEF StageEnds
  <2>1. TypeOK' /\ PlanOK'
    BY <1>0, <1>4, <2>0 DEF TypeOK, PlanOK, StageEnds, Stages, BoundsAssumption
  <2>2. Drained(k + 1)' /\ k + 1 \in 0 .. plan.n
    BY <1>0, <1>4, <2>0 DEF TypeOK, Drained, StageEnds, Stages
  <2>3. AtPlace' /\ OnlyWholeState'
    BY <1>4, <2>2 DEF TypeOK, AtPlace, StageEnds, Pulling, RegionHeld, IdleIsClean,
       TornStateIsFenced, SnapshotIsWhole
  <2>4. \A j \in Stages : j <= k + 1 => stream'[j] # "open"
    BY <1>0, <1>4, <2>2 DEF Drained, Stages, StageEnds
  <2>5. \A j \in Stages : stream'[j] = "open" => stream[j] = "open"
    BY <1>4, <2>0, Zenon DEF TypeOK, StageEnds
  <2>6. Events'
    BY <1>0, <1>4, <2>0, <2>4, <2>5 DEF TypeOK, AtPlace, Events, StageEnds, Pulling, Stages
  <2> QED
    BY <2>1, <2>3, <2>6
<1>5. ASSUME PullAborts PROVE InvocationInv'
  <2>0. FinishInvocation(FALSE) /\ plan' = plan /\ Events'
    BY <1>5, FinishEvents, Zenon DEF PullAborts, End
  <2>1. TypeOK' /\ PlanOK'
    BY <1>5, <2>0, EndTypes, Zenon DEF PullAborts
  <2>2. AtPlace' /\ SnapshotIsWhole'
    BY <2>0 DEF TypeOK, AtPlace, FinishInvocation, SnapshotIsWhole
  <2>3. CASE Persistent
    BY <2>0, <2>1, <2>2, <2>3 DEF FinishInvocation, IdleIsClean, TornStateIsFenced
  <2>4. CASE ~Persistent
    <3>1. Stages = {} /\ Stages' = {} /\ ~plan.region
      BY <1>0, <2>0, <2>4 DEF PlanOK, Persistent, Stages
    <3>2. region' = 0 /\ armed' = FALSE
      BY <1>5, <3>1 DEF AtPlace, RegionHeld, PullAborts, End, FinishRegion
    <3>3. IdleIsClean'
      BY <2>0, <3>1, <3>2 DEF FinishInvocation, IdleIsClean
    <3>4. TornStateIsFenced'
      BY <2>1, <3>1 DEF TypeOK, TornStateIsFenced
    <3> QED
      BY <2>0, <2>1, <2>2, <3>3, <3>4
  <2> QED
    BY <2>3, <2>4
<1>6. ASSUME PullEnds PROVE InvocationInv'
  <2>0. FinishInvocation(TRUE) /\ plan' = plan /\ Events'
    BY <1>6, FinishEvents, Zenon DEF PullEnds, End
  <2>1. TypeOK' /\ PlanOK'
    BY <1>6, <2>0, EndTypes, Zenon DEF PullEnds
  <2>2. StagesClean' /\ region' = 0 /\ armed' = FALSE
    BY <1>6, <2>0 DEF TypeOK, AtPlace, RegionHeld, Drained, PullEnds, Pulling, End, DropStreams,
       FinishRegion, AllEnded, StagesClean, Stages
  <2>3. AtPlace' /\ SnapshotIsWhole'
    BY <2>0 DEF TypeOK, AtPlace, FinishInvocation, SnapshotIsWhole
  <2>4. IdleIsClean' /\ TornStateIsFenced'
    BY <1>6, <2>0, <2>2 DEF AtPlace, FinishInvocation, StagesClean, IdleIsClean, TornStateIsFenced,
       PullEnds, Pulling
  <2> QED
    BY <2>0, <2>1, <2>3, <2>4
<1>7. ASSUME Retain PROVE InvocationInv'
  <2>0. FinishInvocation(TRUE) /\ plan' = plan /\ Events' /\ retained' \in BOOLEAN
    BY <1>7, FinishEvents, Zenon DEF Retain
  <2>1. TypeOK' /\ PlanOK'
    BY <1>7, <2>0, FinishTypes, Zenon DEF TypeOK, PlanOK, Retain, Stages
  <2>2. Stages' = {} /\ region' = 0 /\ armed' = FALSE
    BY <1>0, <1>7 DEF PlanOK, AtPlace, RegionHeld, Retain, Persistent, Stages
  <2>3. AtPlace' /\ SnapshotIsWhole'
    BY <2>0 DEF TypeOK, AtPlace, FinishInvocation, SnapshotIsWhole
  <2>4. IdleIsClean' /\ TornStateIsFenced'
    BY <1>7, <2>0, <2>2 DEF AtPlace, FinishInvocation, IdleIsClean, TornStateIsFenced, Retain
  <2> QED
    BY <2>0, <2>1, <2>3, <2>4
<1>8. ASSUME SingleEnds PROVE InvocationInv'
  <2>1. /\ armed' \in BOOLEAN /\ installed' \in BOOLEAN /\ inputs' \in BOOLEAN
    BY <1>8, Zenon DEF SingleEnds, FinishRegion
  <2>2. TypeOK' /\ PlanOK'
    BY <1>8, <2>1 DEF TypeOK, PlanOK, SingleEnds, DropStreams, FinishRegion, Stages
  <2>3. StagesClean' /\ region' = 0 /\ armed' = FALSE
    BY <1>8 DEF TypeOK, AtPlace, RegionHeld, Drained, SingleEnds, Pulling, DropStreams,
       FinishRegion, AllEnded, StagesClean, Stages
  <2>4. flushed' = {} /\ controls' = {}
    BY <1>8 DEF Events, SingleEnds
  <2>5. Events'
    BY <1>8, <2>4 DEF Events, SingleEnds
  <2>6. AtPlace' /\ SnapshotIsWhole'
    BY <1>8 DEF AtPlace, SingleEnds, SnapshotIsWhole
  <2>7. IdleIsClean' /\ TornStateIsFenced'
    BY <1>8, <2>3 DEF AtPlace, StagesClean, IdleIsClean, TornStateIsFenced, SingleEnds, Pulling
  <2> QED
    BY <2>2, <2>5, <2>6, <2>7
<1>9. ASSUME NEW ok \in BOOLEAN, SingleEdge(ok) PROVE InvocationInv'
  <2>0. single' \in BOOLEAN /\ fed' \in BOOLEAN
    BY <1>9, Zenon DEF SingleEdge
  <2>1. TypeOK' /\ PlanOK'
    BY <1>9, <2>0 DEF TypeOK, PlanOK, SingleEdge, Stages, BoundsAssumption
  <2>2. Events'
    BY <1>9 DEF Events, SingleEdge, Stages, AtPlace
  <2> QED
    BY <1>9, <2>1, <2>2 DEF TypeOK, AtPlace, IdleIsClean, TornStateIsFenced, SnapshotIsWhole,
       SingleEdge, Stages
<1> QED
  BY <1>1, <1>2, <1>3, <1>4, <1>5, <1>6, <1>7, <1>8, <1>9, Zenon DEF PullStep

LEMMA OtherCalls ==
    ASSUME BoundsAssumption, InvocationInv,
           \/ Snapshot
           \/ \E ok \in BOOLEAN : ExecutePlan(ok)
           \/ \E i \in Stages, ok \in BOOLEAN : Restore(i, ok)
    PROVE  InvocationInv'
<1> USE DEF InvocationInv
<1>1. ASSUME Snapshot PROVE InvocationInv'
  <2>1. pc = "mailbox" /\ Unfinished = {}
    BY <1>1 DEF TypeOK, AtPlace, IdleIsClean, TornStateIsFenced, Snapshot, MailboxFree, Unfinished
  <2> QED
    BY <1>1, <2>1 DEF TypeOK, PlanOK, AtPlace, Events, IdleIsClean, TornStateIsFenced,
       SnapshotIsWhole, Snapshot, Stages
<1>2. ASSUME NEW ok \in BOOLEAN, ExecutePlan(ok) PROVE InvocationInv'
  <2>1. TypeOK' /\ PlanOK'
    <3>1. retained' \in BOOLEAN
      BY <1>2, Zenon DEF ExecutePlan
    <3> QED
      BY <1>2, <3>1 DEF TypeOK, PlanOK, ExecutePlan, Stages
  <2>2. Events' /\ AtPlace'
    BY <1>2 DEF Events, AtPlace, ExecutePlan, Stages
  <2>3. plan.n > 0 \/ Stages = {}
    BY DEF PlanOK, BoundsAssumption, Stages
  <2> QED
    BY <1>2, <2>1, <2>2, <2>3, Zenon DEF TypeOK, IdleIsClean, TornStateIsFenced, SnapshotIsWhole,
       ExecutePlan, Persistent, Stages
<1>3. ASSUME NEW i \in Stages, NEW ok \in BOOLEAN, Restore(i, ok) PROVE InvocationInv'
  <2>1. TypeOK' /\ PlanOK'
    BY <1>3 DEF TypeOK, PlanOK, Restore, Stages
  <2>2. Events'
    BY <1>3, Zenon DEF Events, Restore, Stages
  <2>3. AtPlace'
    BY <1>3 DEF AtPlace, Restore, Stages
  <2> QED
    BY <1>3, <2>1, <2>2, <2>3, Zenon DEF TypeOK, IdleIsClean, TornStateIsFenced, SnapshotIsWhole, Restore, Stages
<1> QED
  BY <1>1, <1>2, <1>3, Zenon

\* Every step of the mailbox or of an open stream keeps the invariant.
LEMMA InvocationStep == ASSUME BoundsAssumption, InvocationInv, [Next]_vars PROVE InvocationInv'
<1>1. ASSUME CallStep PROVE InvocationInv'
  BY <1>1, BeginStep, OtherCalls DEF CallStep
<1>2. ASSUME UNCHANGED vars PROVE InvocationInv'
  <2>1. PlanOK' /\ Stages' = Stages
    BY <1>2 DEF vars, InvocationInv, PlanOK, Stages
  <2>2. TypeOK'
    BY <1>2, <2>1 DEF vars, InvocationInv, TypeOK
  <2>3. AtPlace'
    BY <1>2, <2>1 DEF vars, InvocationInv, AtPlace, Unclaimed, StagesClean, RegionHeld, Opened, Drained
  <2>4. Events'
    BY <1>2, <2>1 DEF vars, InvocationInv, Events
  <2>5. OnlyWholeState'
    BY <1>2, <2>1 DEF vars, InvocationInv, IdleIsClean, TornStateIsFenced, SnapshotIsWhole
  <2> QED
    BY <2>1, <2>2, <2>3, <2>4, <2>5 DEF InvocationInv
<1> QED
  BY <1>1, <1>2, StartSteps, PullSteps DEF Next

\* For a plan of any length: whatever invocation failed, was dropped or was refused
\* before, a context that admits one is clean, changed state that was not finished
\* is fenced off for good, and no snapshot reads a stage in mid-invocation.
THEOREM WholeState == ASSUME BoundsAssumption PROVE Spec => []OnlyWholeState
<1>1. InvocationInv => OnlyWholeState
  BY DEF InvocationInv
<1> QED
  BY <1>1, InvocationInit, InvocationStep, PTL DEF Spec

\* For a chain of any length: a stage is given its control event only after every
\* stage upstream has ended, and an invocation that reaches its end has given out
\* exactly the events it was started with.
THEOREM ControlOrder == ASSUME BoundsAssumption PROVE Spec => []ControlsInOrder
<1>1. ASSUME InvocationInv PROVE ControlsInOrder
  <2>1. \A i \in flushed : i \in controls /\ \A j \in Stages : j < i => stream[j] # "open"
    BY <1>1 DEF InvocationInv, Events
  <2>2. ASSUME pc = "pull", AllEnded PROVE \A i \in Stages : stream[i] = "ended"
    BY <1>1, <2>2 DEF InvocationInv, AtPlace, Drained, AllEnded
  <2>3. pc = "pull" /\ AllEnded => flushed = controls
    BY <1>1, <2>2 DEF InvocationInv, TypeOK, Events
  <2> QED
    BY <2>1, <2>3 DEF ControlsInOrder
<1> QED
  BY <1>1, InvocationInit, InvocationStep, PTL DEF Spec

===============================================================================
