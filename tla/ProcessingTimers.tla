--------------------------- MODULE ProcessingTimers ---------------------------
(* Processing-time timers of a native region                                  *)
(* (NativeRegionProcessingTimeScheduler). Native stages own the deadlines;    *)
(* the scheduler keeps one Flink timer for the earliest of them. The timer    *)
(* service runs on another thread: a timer it has already handed to the       *)
(* task's mailbox is not withdrawn by a later cancel.                         *)
EXTENDS Naturals, FiniteSets, FiniteSetsExt, Functions

CONSTANTS
  Stages,      \* stages that negotiated processing-time timers
  MaxTime,     \* last tick of the clock
  MaxArrivals  \* bound on the data and control arrivals

\* A scheduler without stages returns from refresh at once, and does nothing else.
StagesAssumption ==
  Stages # {} /\ IsFiniteSet(Stages) /\ MaxTime \in Nat /\ MaxArrivals \in Nat

None == MaxTime + 1            \* a stage without a deadline
Times == 1..MaxTime
Deadlines == Times \cup {None}

VARIABLES
  clock, arrivals,
  deadline,               \* native: stage -> its next deadline
  scheduled,              \* generation of the timer the scheduler holds, 0 if null
  timestamp, owners, generation, closed, failed,
  timers,                 \* timer service: armed and queued callbacks
  firing                  \* callback being run: its time, its owners, those left to call

timerVars == <<clock, arrivals, deadline, scheduled, timestamp, owners, generation,
          closed, failed, timers, firing>>

scheduler == <<scheduled, timestamp, owners, generation, timers, failed>>
Idle == [time |-> None, due |-> {}, left |-> {}]

TimersInit ==
  /\ clock = 0 /\ arrivals = 0
  /\ deadline = [s \in Stages |-> None]
  /\ scheduled = 0 /\ timestamp = None /\ owners = {} /\ generation = 1
  /\ closed = FALSE /\ failed = FALSE
  /\ timers = {} /\ firing = Idle

-----------------------------------------------------------------------------
(* The timer service: external to the repository.                             *)

Tick ==
  /\ clock < MaxTime
  /\ clock' = clock + 1
  /\ UNCHANGED <<arrivals, deadline, scheduler, closed, firing>>

\* The timer thread puts a due callback into the mailbox.
Enqueue(t) ==
  /\ t \in timers /\ ~t.queued /\ t.time <= clock
  /\ timers' = (timers \ {t}) \cup {[t EXCEPT !.queued = TRUE]}
  /\ UNCHANGED <<clock, arrivals, deadline, scheduled, timestamp, owners,
                 generation, closed, failed, firing>>

\* ScheduledFuture.cancel(false): only a timer that is not in the mailbox yet.
Withdrawn(ts, g) == {t \in ts : t.generation # g \/ t.queued}

-----------------------------------------------------------------------------
(* The scheduler.                                                             *)

Earliest(d) == Min(Range(d))

Cancel ==
  /\ generation' = generation + 1
  /\ timers' = Withdrawn(timers, scheduled)
  /\ scheduled' = 0 /\ timestamp' = None


\* refresh with a valid snapshot: the timer moves to the earliest deadline.
Schedule(d, held, stamp) ==
  LET earliest == Earliest(d) IN
    /\ owners' = {s \in Stages : d[s] = earliest /\ earliest # None}
    /\ IF held # 0 /\ earliest # None /\ earliest = stamp
       THEN scheduled' = held /\ timestamp' = stamp /\ UNCHANGED <<generation, timers>>
       ELSE /\ generation' = generation + 1
            /\ timestamp' = earliest
            /\ scheduled' = IF earliest = None THEN 0 ELSE generation + 1
            /\ timers' = Withdrawn(timers, held) \cup
                 (IF earliest = None THEN {}
                  ELSE {[generation |-> generation + 1, time |-> earliest, queued |-> FALSE]})

Mailbox == firing = Idle /\ ~failed

\* Data or a control event is processed by the native stages, then refresh.
Arrive(d) ==
  /\ Mailbox /\ ~closed /\ arrivals < MaxArrivals
  /\ arrivals' = arrivals + 1
  /\ deadline' = d
  /\ Schedule(d, scheduled, timestamp)
  /\ UNCHANGED <<clock, closed, failed, firing>>

\* The native side or the timer service refuses: timers end with the controls.
ArriveFails ==
  /\ Mailbox /\ ~closed /\ arrivals < MaxArrivals
  /\ arrivals' = arrivals + 1
  /\ failed' = TRUE
  /\ Cancel
  /\ UNCHANGED <<clock, deadline, owners, closed, firing>>

\* fire: a stale generation, or a closed scheduler, does nothing.
FireStale(t) ==
  /\ firing = Idle /\ t \in timers /\ t.queued
  /\ closed \/ t.generation # generation
  /\ timers' = timers \ {t}
  /\ UNCHANGED <<clock, arrivals, deadline, scheduled, timestamp, owners,
                 generation, closed, failed, firing>>

\* Fault: a callback that reaches the task late is left for a later one.
Fire_OnTimeOnly(t) ==
  /\ firing = Idle /\ t \in timers /\ t.queued /\ t.time = clock
  /\ ~closed /\ t.generation = generation
  /\ timers' = timers \ {t}
  /\ firing' = [time |-> t.time, due |-> owners, left |-> owners]
  /\ scheduled' = 0 /\ timestamp' = None /\ owners' = {}
  /\ UNCHANGED <<clock, arrivals, deadline, generation, closed, failed>>

Fire(t) ==
  /\ firing = Idle /\ t \in timers /\ t.queued
  /\ ~closed /\ t.generation = generation
  /\ timers' = timers \ {t}
  /\ firing' = [time |-> t.time, due |-> owners, left |-> owners]
  /\ scheduled' = 0 /\ timestamp' = None /\ owners' = {}
  /\ UNCHANGED <<clock, arrivals, deadline, generation, closed, failed>>

\* controls.processingTime for one owner. The rows it emits may move the
\* deadline of another stage, to a time that is still to come.
Deliver(s, d) ==
  /\ s \in firing.left
  /\ \A r \in Stages \ {s} : d[r] = deadline[r] \/ d[r] > clock
  /\ firing' = [firing EXCEPT !.left = @ \ {s}]
  /\ deadline' = d
  /\ UNCHANGED <<clock, arrivals, scheduler, closed>>

\* A callback ends with a refresh; a fired owner must have moved its deadline.
Stuck == \E s \in firing.due : deadline[s] <= firing.time

FireDone ==
  /\ firing # Idle /\ firing.left = {} /\ ~Stuck
  /\ Schedule(deadline, scheduled, timestamp)
  /\ firing' = Idle
  /\ UNCHANGED <<clock, arrivals, deadline, closed, failed>>

\* The native invocation fails, or the deadline did not advance.
FireFails ==
  /\ firing # Idle /\ (firing.left # {} \/ Stuck)
  /\ failed' = TRUE
  /\ Cancel
  /\ firing' = Idle
  /\ UNCHANGED <<clock, arrivals, deadline, owners, closed>>

\* Operator.finish and close.
Close ==
  /\ firing = Idle /\ ~closed
  /\ closed' = TRUE
  /\ Cancel
  /\ owners' = {}
  /\ UNCHANGED <<clock, arrivals, deadline, failed, firing>>

-----------------------------------------------------------------------------
Callback == \E t \in timers : FireStale(t) \/ Fire(t)
FireStep ==
  \/ \E s \in Stages, d \in [Stages -> Deadlines] : Deliver(s, d)
  \/ FireDone \/ FireFails

TimersNext ==
  \/ Tick \/ \E t \in timers : Enqueue(t)
  \/ \E d \in [Stages -> Deadlines] : Arrive(d)
  \/ ArriveFails \/ Callback \/ FireStep \/ Close

\* The clock runs on; the timer thread hands over a due callback; the mailbox
\* runs its mails, and a callback it started to the end.
TimersSpec == TimersInit /\ [][TimersNext]_timerVars
          /\ WF_timerVars(Tick) /\ WF_timerVars(\E t \in timers : Enqueue(t))
          /\ WF_timerVars(Callback) /\ WF_timerVars(FireStep)

-----------------------------------------------------------------------------
\* Values of the scheduler and of the timer service.
TimersTypeOK ==
  /\ clock \in 0..MaxTime /\ arrivals \in 0..MaxArrivals
  /\ deadline \in [Stages -> Deadlines]
  /\ scheduled \in {0, generation} /\ generation \in Nat \ {0}
  /\ timestamp \in Deadlines /\ owners \subseteq Stages
  /\ closed \in BOOLEAN /\ failed \in BOOLEAN
  /\ \A t \in timers : /\ t.generation \in 1..generation
                       /\ t.time \in Times /\ t.queued \in BOOLEAN
  /\ firing.time \in Deadlines /\ firing.left \subseteq firing.due /\ firing.due \subseteq Stages

LiveTimers == {t \in timers : t.generation = generation}

\* Between mails of a healthy region exactly the earliest native deadline has a
\* live timer, for exactly the stages that own it; without one there is none.
\* After a failure or close no timer of the region is left armed.
EarliestIsArmed ==
  /\ firing = Idle /\ ~failed /\ ~closed =>
       LET earliest == Earliest(deadline) IN
         IF earliest = None THEN LiveTimers = {} /\ owners = {}
         ELSE /\ \E t \in LiveTimers : LiveTimers = {t} /\ t.time = earliest
              /\ owners = {s \in Stages : deadline[s] = earliest}
  /\ closed \/ failed => \A t \in timers : t.queued

\* A callback that waited in the mailbox while its timer was moved, cancelled,
\* closed or given up is ignored: one starts only in a healthy region, at a time
\* that has come, and for stages that still have exactly that deadline.
CallbackIsCurrent ==
  firing = Idle /\ firing' # Idle =>
    /\ ~closed /\ ~failed /\ firing'.time <= clock
    /\ firing'.due # {} /\ \A s \in firing'.due : deadline[s] = firing'.time

\* The region's timer follows its deadlines: every step leaves the earliest one
\* armed, and only a callback that still is the current one starts.
TimerStep == EarliestIsArmed' /\ CallbackIsCurrent

\* A deadline that has come is called, moved or given up with the region.
IsDue(s, d) == deadline[s] = d /\ clock >= d

IsSettled(s, d) == deadline[s] # d \/ closed \/ failed
=============================================================================
