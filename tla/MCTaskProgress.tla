--------------------------- MODULE MCTaskProgress ----------------------------
(* Two parts of a task that must not stop: the fan-out of a shared source to *)
(* three readers, and the processing-time timer of a region with two stages: *)
(* equal and different deadlines, deadlines that are over when they are      *)
(* registered, and a callback that waits in the mailbox while its timer is   *)
(* moved.                                                                    *)
EXTENDS SharedFanout, ProcessingTimers

VARIABLE part   \* the component that runs: the other one stays in an initial state

suiteVars == <<vars, part, timerVars>>

ASSUME ConstantsAreValid ==
  /\ ReadersAssumption
  /\ StagesAssumption

Off == "off"   \* the value of the timers' variables while the fan-out runs

SuiteInit ==
  /\ Init
  /\ \/ /\ part = "fanout"
        /\ clock = Off /\ arrivals = Off /\ deadline = Off /\ scheduled = Off /\
           timestamp = Off /\ owners = Off /\ generation = Off /\ closed = Off /\
           failed = Off /\ timers = Off /\ firing = Off
     \/ part = "timers" /\ source = "ready" /\ TimersInit

SuiteNext ==
  \/ part = "fanout" /\ Next /\ UNCHANGED <<part, timerVars>>
  \/ part = "timers" /\ TimersNext /\ UNCHANGED <<part, vars>>

RunsFanout(A) == part = "fanout" /\ A /\ UNCHANGED <<part, timerVars>>
RunsTimers(A) == part = "timers" /\ A /\ UNCHANGED <<part, vars>>

\* The executor polls a reader that was woken; the clock goes on, the timer service
\* puts due callbacks into the mailbox, and the mailbox thread runs its mails.
Fairness ==
  /\ WF_suiteVars(RunsFanout(SourceReady))
  /\ \A r \in Readers : WF_suiteVars(RunsFanout(Poll(r)))
  /\ WF_suiteVars(RunsTimers(Tick))
  /\ WF_suiteVars(RunsTimers(\E t \in timers : Enqueue(t)))
  /\ WF_suiteVars(RunsTimers(Callback))
  /\ WF_suiteVars(RunsTimers(FireStep))

SuiteSpec == SuiteInit /\ [][SuiteNext]_suiteVars /\ Fairness

-----------------------------------------------------------------------------
(* Properties.                                                                *)

\* No reader is left waiting for a wake-up that never comes, whoever fails, is
\* dropped or runs ahead, and so the invocation is always completed.
AllReadersEnd == part = "fanout" ~> (part = "fanout" /\ Completed)


\* A deadline that has come is called, moved or given up with the region.
DueIsCalled ==
  \A s \in Stages, d \in Times :
    (part = "timers" /\ IsDue(s, d)) ~> (part = "timers" /\ IsSettled(s, d))
=============================================================================
