-------------------------- MODULE TaskProgressProofs --------------------------
(* The fan-out of a shared source (SharedFanout) and the timer of a native    *)
(* region (ProcessingTimers), for any readers, batches, stages and deadlines. *)
EXTENDS SharedFanout, ProcessingTimers, FiniteSetTheorems, WellFoundedInduction, TLAPS

-----------------------------------------------------------------------------
(***************************************************************************)
(* The fan-out of SharedFanout for any finite set of readers and any       *)
(* number of batches: the readers stay in step, the completion is          *)
(* truthful, and no wake-up is lost.                                       *)
(*                                                                         *)
(* Two invariants are proved one after the other.  SharingInv is what      *)
(* InStep and CompletionIsTruthful need to be inductive: the end of the    *)
(* source and a failure are final, and each is recorded where the other    *)
(* variables can be compared with it.  WakeInv says who wakes a reader     *)
(* that waits; it rests on SharingInv.                                     *)
(***************************************************************************)

\* Where the source has gone, and that a failure is the only failed completion.
SharingInv ==
    /\ TypeOK
    /\ ReadersShareTheSource
    /\ eof => source = "dropped" /\ ~batch
    /\ source = "dropped" => eof \/ failure
    /\ completion = "failed" => failure

\* A leaf is tried with SMT, with Zenon, and then with SMT for longer.
USE SMT, Zenon, SMTT(20), SMTT(40)

USE DEF Live, Polls

LEMMA SharingInit == ASSUME ReadersAssumption, Init PROVE SharingInv
<1>1. {r \in Readers : reader[r] # "eof"} = Readers
  BY DEF Init
<1>2. batch \in BOOLEAN /\ eof \in BOOLEAN /\ failure \in BOOLEAN
  BY Zenon DEF Init
<1>3. remaining = Cardinality({r \in Readers : reader[r] # "eof"})
  BY <1>1 DEF Init
<1>4. /\ got \in [Readers -> 0 .. MaxBatches] /\ produced \in 0 .. MaxBatches
      /\ reader \in [Readers -> {"reading", "eof", "error", "dropped"}]
  BY DEF ReadersAssumption, Init
<1>5. TypeOK
  BY <1>2, <1>3, <1>4 DEF Init, TypeOK
<1> QED
  BY <1>5 DEF Init, SharingInv, ReadersShareTheSource, InStep, CompletionIsTruthful

\* The readers short of EOF after one of them has reached it: one less, and none
\* is left if there was one.
LEMMA OneReaderLess ==
    ASSUME ReadersAssumption, TypeOK, NEW r \in Readers, reader[r] = "reading",
           reader' = [reader EXCEPT ![r] = "eof"]
    PROVE  /\ remaining - 1 = Cardinality({s \in Readers : reader'[s] # "eof"})
           /\ remaining = 1 => \A s \in Readers : reader'[s] = "eof"
<1> DEFINE Before == {s \in Readers : reader[s] # "eof"}
           After == {s \in Readers : reader'[s] # "eof"}
<1>1. r \in Before /\ After = Before \ {r}
  BY DEF TypeOK
<1>2. IsFiniteSet(Before)
  BY FS_Subset DEF ReadersAssumption
<1>3. IsFiniteSet(After) /\ Cardinality(After) = Cardinality(Before) - 1
  BY <1>1, <1>2, FS_RemoveElement, Zenon
<1>4. Cardinality(After) = 0 => After = {}
  BY <1>3, FS_EmptySet
<1>5. remaining = Cardinality(Before) /\ Cardinality(Before) \in Nat
  BY <1>2, FS_CardinalityType DEF TypeOK
<1> QED
  BY <1>3, <1>4, <1>5

\* A step that ends no reader leaves their number alone.
LEMMA NoReaderLess ==
    ASSUME TypeOK, NEW r \in Readers, NEW end \in {"error", "dropped"}, reader[r] = "reading",
           reader' = [reader EXCEPT ![r] = end]
    PROVE  {s \in Readers : reader'[s] # "eof"} = {s \in Readers : reader[s] # "eof"}
  BY DEF TypeOK

\* Every step keeps the readers in step and the completion truthful.
LEMMA SharingStep == ASSUME ReadersAssumption, SharingInv, [Next]_vars PROVE SharingInv'
<1> USE DEF ReadersShareTheSource
<1>1. ASSUME NEW r \in Readers, PollFailure(r) PROVE SharingInv'
  <2>1. TypeOK'
    BY <1>1, NoReaderLess DEF SharingInv, TypeOK, PollFailure
  <2> QED
    BY <1>1, <2>1 DEF SharingInv, TypeOK, InStep, CompletionIsTruthful, PollFailure
<1>2. ASSUME NEW r \in Readers, PollHeld(r) PROVE SharingInv'
  <2>1. got[r] = produced - 1 /\ completion = "none" /\ ~eof
    BY <1>2 DEF SharingInv, TypeOK, InStep, CompletionIsTruthful, PollHeld
  <2>2. got' = [got EXCEPT ![r] = produced]
    BY <1>2, <2>1 DEF SharingInv, TypeOK, PollHeld, Take
  <2>3. TypeOK'
    BY <1>2, <2>2 DEF SharingInv, TypeOK, PollHeld, Take
  <2>4. InStep'
    BY <1>2, <2>2, Zenon DEF SharingInv, TypeOK, InStep, PollHeld, Take
  <2> QED
    BY <1>2, <2>1, <2>3, <2>4 DEF SharingInv, TypeOK, CompletionIsTruthful, PollHeld, Take
<1>3. ASSUME NEW r \in Readers, PollAhead(r) PROVE SharingInv'
  BY <1>3 DEF SharingInv, TypeOK, InStep, CompletionIsTruthful, PollAhead
<1>4. ASSUME NEW r \in Readers, PollEof(r) PROVE SharingInv'
  <2>1. /\ remaining - 1 = Cardinality({s \in Readers : reader'[s] # "eof"})
        /\ remaining = 1 => \A s \in Readers : reader'[s] = "eof"
    BY <1>4, OneReaderLess, Zenon DEF SharingInv, PollEof, EndReader
  <2>2. TypeOK'
    BY <1>4, <2>1 DEF SharingInv, TypeOK, PollEof, EndReader
  <2>3. CompletionIsTruthful'
    BY <1>4, <2>1 DEF SharingInv, TypeOK, InStep, CompletionIsTruthful, PollEof, EndReader
  <2> QED
    BY <1>4, <2>2, <2>3 DEF SharingInv, TypeOK, InStep, PollEof, EndReader
<1>5. ASSUME NEW r \in Readers, PollSourceBatch(r) PROVE SharingInv'
  <2>1. (\A s \in Readers : got[s] = produced) /\ completion = "none"
    BY <1>5 DEF SharingInv, TypeOK, InStep, CompletionIsTruthful, PollSourceBatch
  <2>2. got' = [got EXCEPT ![r] = produced + 1] /\ produced' = produced + 1
    BY <1>5, <2>1, Zenon DEF SharingInv, TypeOK, PollSourceBatch, Take
  <2>3. TypeOK'
    BY <1>5, <2>2 DEF ReadersAssumption, SharingInv, TypeOK, PollSourceBatch, Take
  <2>4. ASSUME NEW s \in Readers
        PROVE  got'[s] = IF batch' /\ s \in pending' THEN produced' - 1 ELSE produced'
    <3>1. CASE s = r
      BY <1>5, <2>2, <3>1 DEF SharingInv, TypeOK, PollSourceBatch, Take
    <3>2. CASE s # r
      <4>1. batch' /\ s \in pending'
        BY <1>5, <3>2, Zenon DEF PollSourceBatch, Take
      <4> QED
        BY <2>1, <2>2, <3>2, <4>1 DEF SharingInv, TypeOK
    <3> QED
      BY <3>1, <3>2
  <2>5. InStep'
    BY <2>4 DEF InStep
  <2> QED
    BY <1>5, <2>1, <2>3, <2>5 DEF SharingInv, TypeOK, CompletionIsTruthful, PollSourceBatch, Take
<1>6. ASSUME NEW r \in Readers, PollSourceEof(r) PROVE SharingInv'
  <2>1. /\ remaining - 1 = Cardinality({s \in Readers : reader'[s] # "eof"})
        /\ remaining = 1 => \A s \in Readers : reader'[s] = "eof"
    BY <1>6, OneReaderLess, Zenon DEF SharingInv, PollSourceEof, EndReader
  <2>2. TypeOK'
    BY <1>6, <2>1 DEF SharingInv, TypeOK, PollSourceEof, EndReader
  <2>3. CompletionIsTruthful'
    BY <1>6, <2>1 DEF SharingInv, TypeOK, InStep, CompletionIsTruthful, PollSourceEof, EndReader
  <2> QED
    BY <1>6, <2>2, <2>3 DEF SharingInv, TypeOK, InStep, PollSourceEof, EndReader
<1>7. ASSUME NEW r \in Readers, PollSourceError(r) PROVE SharingInv'
  <2>1. TypeOK'
    BY <1>7, NoReaderLess, Zenon DEF SharingInv, TypeOK, PollSourceError, Fail
  <2> QED
    BY <1>7, <2>1 DEF SharingInv, TypeOK, InStep, CompletionIsTruthful, PollSourceError, Fail
<1>8. ASSUME NEW r \in Readers, PollSourcePending(r) PROVE SharingInv'
  BY <1>8 DEF SharingInv, TypeOK, InStep, CompletionIsTruthful, PollSourcePending
<1>9. ASSUME SourceReady PROVE SharingInv'
  BY <1>9 DEF SharingInv, TypeOK, InStep, CompletionIsTruthful, SourceReady
<1>10. ASSUME NEW r \in Readers, DropReader(r) PROVE SharingInv'
  <2>1. TypeOK'
    BY <1>10, NoReaderLess, Zenon DEF SharingInv, TypeOK, DropReader, Fail
  <2> QED
    BY <1>10, <2>1 DEF SharingInv, TypeOK, InStep, CompletionIsTruthful, DropReader, Fail
<1>11. ASSUME UNCHANGED vars PROVE SharingInv'
  BY <1>11 DEF SharingInv, TypeOK, InStep, CompletionIsTruthful, vars
<1> QED
  BY <1>1, <1>2, <1>3, <1>4, <1>5, <1>6, <1>7, <1>8, <1>9, <1>10, <1>11 DEF Next, Poll

\* Every reader of a shared source receives every batch of it once and in step
\* with the others, whoever is polled when; the invocation is a success only once
\* all have read to the end, and its work is released before it is completed.
THEOREM Sharing == ASSUME ReadersAssumption PROVE Spec => []ReadersShareTheSource
<1>1. SharingInv => ReadersShareTheSource
  BY DEF SharingInv
<1> QED
  BY <1>1, SharingInit, SharingStep, PTL DEF Spec

-----------------------------------------------------------------------------
\* Wake-ups

\* A reader that waits is in the list of wakers, and nothing it waits for has been
\* passed over: before the end and without a failure every reader is reading; the
\* readers yet to take a held batch are woken; if none is held, the source holds a
\* waker, or everyone is woken, or it is ready and someone is about to poll it.
WakeInv ==
    /\ \A r \in Live : r \in runnable \/ (r \in wakers /\ ~failure /\ ~eof)
    /\ ~failure /\ ~eof => Live = Readers
    /\ batch => pending # {} /\ pending \subseteq runnable
    /\ ~batch /\ source = "pending" => Readers \subseteq runnable \/ sourceWaker # {}
    /\ ~batch /\ source = "ready" => runnable # {}

LEMMA WakeInit == ASSUME ReadersAssumption, Init PROVE WakeInv
  BY DEF ReadersAssumption, Init, WakeInv

\* After the last reader has taken a batch, or the source ended or failed, no
\* reader is left asleep.
LEMMA WakeStep == ASSUME ReadersAssumption, SharingInv, WakeInv, [Next]_vars PROVE WakeInv'
<1> USE DEF ReadersShareTheSource
<1>1. ASSUME NEW r \in Readers, PollFailure(r) PROVE WakeInv'
  BY <1>1 DEF SharingInv, TypeOK, CompletionIsTruthful, WakeInv, PollFailure
<1>2. ASSUME NEW r \in Readers, PollHeld(r) PROVE WakeInv'
  BY <1>2, Zenon DEF SharingInv, TypeOK, WakeInv, PollHeld, Take
<1>3. ASSUME NEW r \in Readers, PollAhead(r) PROVE WakeInv'
  BY <1>3 DEF SharingInv, TypeOK, WakeInv, PollAhead
<1>4. ASSUME NEW r \in Readers, PollEof(r) PROVE WakeInv'
  BY <1>4 DEF SharingInv, TypeOK, WakeInv, PollEof, EndReader
<1>5. ASSUME NEW r \in Readers, PollSourceBatch(r) PROVE WakeInv'
  BY <1>5 DEF SharingInv, TypeOK, WakeInv, PollSourceBatch, Take
<1>6. ASSUME NEW r \in Readers, PollSourceEof(r) PROVE WakeInv'
  BY <1>6 DEF SharingInv, TypeOK, WakeInv, PollSourceEof, EndReader
<1>7. ASSUME NEW r \in Readers, PollSourceError(r) PROVE WakeInv'
  BY <1>7 DEF SharingInv, TypeOK, WakeInv, PollSourceError, Fail
<1>8. ASSUME NEW r \in Readers, PollSourcePending(r) PROVE WakeInv'
  BY <1>8 DEF SharingInv, TypeOK, WakeInv, PollSourcePending
<1>9. ASSUME SourceReady PROVE WakeInv'
  BY <1>9 DEF ReadersAssumption, SharingInv, TypeOK, WakeInv, SourceReady
<1>10. ASSUME NEW r \in Readers, DropReader(r) PROVE WakeInv'
  BY <1>10 DEF SharingInv, TypeOK, CompletionIsTruthful, WakeInv, DropReader, Fail
<1>11. ASSUME UNCHANGED vars PROVE WakeInv'
  BY <1>11 DEF WakeInv, vars
<1> QED
  BY <1>1, <1>2, <1>3, <1>4, <1>5, <1>6, <1>7, <1>8, <1>9, <1>10, <1>11 DEF Next, Poll

\* No wake-up is lost: until all readers have ended, one of them has been woken or
\* will be by the source.  Which reader takes the last copy, runs ahead, is dropped
\* or polled the source last makes no difference.
THEOREM WakeUps == ASSUME ReadersAssumption PROVE Spec => []NoneIsStranded
<1>1. ASSUME SharingInv, WakeInv PROVE NoneIsStranded
  BY <1>1 DEF SharingInv, TypeOK, WakeInv, NoneIsStranded
<1>2. ReadersAssumption /\ Init => SharingInv /\ WakeInv
  BY SharingInit, WakeInit
<1>3. ReadersAssumption /\ SharingInv /\ WakeInv /\ [Next]_vars => (SharingInv /\ WakeInv)'
  BY SharingStep, WakeStep
<1> QED
  BY <1>1, <1>2, <1>3, PTL DEF Spec

-----------------------------------------------------------------------------
(* The proof, for any stages and any deadlines. TimerInv says what            *)
(* EarliestIsArmed does not: that the scheduler's own record of its timer     *)
(* (scheduled, timestamp) agrees with the timer service, that callbacks of    *)
(* earlier generations are all in the mailbox already, where cancel cannot    *)
(* reach them and the generation tells them apart, and that nothing is armed  *)
(* while a callback runs.                                                     *)

Callbacks == [generation : Nat, time : Times, queued : BOOLEAN]

TimerType ==
    /\ clock \in 0 .. MaxTime
    /\ deadline \in [Stages -> Deadlines]
    /\ generation \in Nat \ {0} /\ scheduled \in {0, generation}
    /\ timestamp \in Deadlines /\ owners \in SUBSET Stages
    /\ timers \in SUBSET Callbacks
    /\ firing \in [time : Deadlines, due : SUBSET Stages, left : SUBSET Stages]

\* Callbacks of earlier generations wait in the mailbox, and what waits there is due.
Outdated ==
    \A t \in timers : /\ t.generation <= generation
                      /\ t.generation # generation => t.queued
                      /\ t.queued => t.time <= clock

\* The scheduler knows the one live timer.
Recorded ==
    /\ scheduled = 0 => LiveTimers = {} /\ timestamp = None
    /\ scheduled # 0 => \E t \in timers : LiveTimers = {t} /\ t.time = timestamp

\* Which deadline it is for.
Follows ==
    /\ closed \/ failed \/ firing # Idle => scheduled = 0
    /\ firing # Idle => ~closed /\ ~failed /\ firing.time # None
    /\ firing = Idle /\ ~closed /\ ~failed =>
         /\ timestamp = Earliest(deadline)
         /\ owners = {s \in Stages : deadline[s] = timestamp /\ timestamp # None}

TimerInv == TimerType /\ Outdated /\ Recorded /\ Follows

-----------------------------------------------------------------------------
\* The earliest deadline

LEMMA TimeFacts ==
    ASSUME StagesAssumption
    PROVE  /\ Deadlines \subseteq Nat /\ None \in Deadlines /\ None \notin Times
           /\ Times \subseteq Deadlines /\ \A x \in Deadlines : x # None => x \in Times
  BY DEF StagesAssumption, Deadlines, Times, None

\* A non-empty set of natural numbers has a least element, and Min is it.
LEMMA LeastNatural ==
    ASSUME NEW S \in SUBSET Nat, S # {}
    PROVE  Min(S) \in S /\ \A y \in S : Min(S) <= y
<1>1. PICK x \in S : \A y \in S : ~(<<y, x>> \in OpToRel(<, Nat))
  BY NatLessThanWellFounded, WFMin, Zenon
<1>2. ASSUME NEW y \in S, y < x PROVE FALSE
  <2>1. <<y, x>> \in Nat \X Nat /\ <<y, x>>[1] < <<y, x>>[2]
    BY <1>2
  <2>2. <<y, x>> \in {ss \in Nat \X Nat : ss[1] < ss[2]}
    BY <2>1
  <2> QED
    BY <1>1, <2>2 DEF OpToRel
<1>3. \A y \in S : x <= y
  BY <1>2
<1> QED
  BY <1>3, Zenon DEF Min

LEMMA EarliestFacts ==
    ASSUME StagesAssumption, NEW d \in [Stages -> Deadlines]
    PROVE  /\ Earliest(d) \in Deadlines
           /\ \E s \in Stages : d[s] = Earliest(d)
           /\ \A s \in Stages : Earliest(d) <= d[s]
<1>1. Range(d) = {d[s] : s \in Stages}
  BY DEF Range
<1>2. Range(d) \subseteq Nat /\ Range(d) # {} /\ Range(d) \subseteq Deadlines
  BY <1>1, TimeFacts DEF StagesAssumption
<1>3. Earliest(d) \in Range(d) /\ \A y \in Range(d) : Earliest(d) <= y
  BY <1>2, LeastNatural DEF Earliest
<1> QED
  BY <1>1, <1>2, <1>3

-----------------------------------------------------------------------------
\* What cancel and refresh leave behind

\* Only queued callbacks of earlier generations survive a cancel.
LEMMA Leftover ==
    ASSUME StagesAssumption, TimerType, Outdated, Recorded
    PROVE  /\ Withdrawn(timers, scheduled) \in SUBSET Callbacks
           /\ \A t \in Withdrawn(timers, scheduled) :
                  t.queued /\ t.time <= clock /\ t.generation < generation + 1
<1>1. Withdrawn(timers, scheduled) \subseteq timers
  BY DEF Withdrawn
<1> SUFFICES ASSUME NEW t \in Withdrawn(timers, scheduled)
             PROVE  t.queued /\ t.time <= clock /\ t.generation < generation + 1
  BY <1>1 DEF TimerType
<1>2. t \in timers /\ t.generation \in Nat /\ generation \in Nat
  BY <1>1 DEF TimerType, Callbacks
<1>3. t.queued
  <2>1. CASE t.generation # generation
    BY <1>2, <2>1 DEF Outdated
  <2>2. CASE t.generation = generation /\ scheduled = 0
    BY <1>2, <2>2 DEF Recorded, LiveTimers
  <2>3. CASE t.generation = generation /\ scheduled # 0
    BY <1>2, <2>3 DEF Withdrawn, TimerType
  <2> QED
    BY <2>1, <2>2, <2>3
<1> QED
  BY <1>2, <1>3 DEF Outdated

LEMMA AfterCancel ==
    ASSUME StagesAssumption, TimerType, Outdated, Recorded, Cancel, clock' = clock
    PROVE  /\ generation' \in Nat \ {0} /\ scheduled' = 0 /\ timestamp' = None
           /\ timers' \in SUBSET Callbacks /\ Outdated' /\ Recorded'
<1>1. /\ generation' = generation + 1 /\ scheduled' = 0 /\ timestamp' = None
      /\ timers' = Withdrawn(timers, scheduled)
  BY DEF Cancel
<1>2. generation \in Nat /\ \A t \in timers' : t.generation \in Nat
  BY <1>1, Leftover DEF TimerType, Callbacks
<1>3. Outdated'
  BY <1>1, <1>2, Leftover DEF Outdated
<1>4. LiveTimers' = {}
  BY <1>1, <1>2, Leftover DEF LiveTimers
<1> QED
  BY <1>1, <1>2, <1>3, <1>4, Leftover DEF Recorded

LEMMA AfterSchedule ==
    ASSUME StagesAssumption, TimerType, Outdated, Recorded, NEW d \in [Stages -> Deadlines],
           Schedule(d, scheduled, timestamp), clock' = clock
    PROVE  /\ generation' \in Nat \ {0} /\ scheduled' \in {0, generation'}
           /\ timers' \in SUBSET Callbacks /\ Outdated' /\ Recorded'
           /\ timestamp' = Earliest(d)
           /\ owners' = {s \in Stages : d[s] = Earliest(d) /\ Earliest(d) # None}
<1> DEFINE earliest == Earliest(d)
<1>1. earliest \in Deadlines /\ (earliest # None => earliest \in Times)
  BY EarliestFacts, TimeFacts
<1>2. owners' = {s \in Stages : d[s] = earliest /\ earliest # None}
  BY DEF Schedule
<1>3. CASE scheduled # 0 /\ earliest # None /\ earliest = timestamp
  <2>1. UNCHANGED <<scheduled, timestamp, generation, timers>> /\ timestamp = earliest
    BY <1>3 DEF Schedule
  <2>2. LiveTimers' = LiveTimers
    BY <2>1 DEF LiveTimers
  <2>3. Outdated' /\ Recorded'
    BY <2>1, <2>2 DEF Outdated, Recorded
  <2> QED
    BY <1>2, <2>1, <2>3 DEF TimerType
<1>4. CASE ~(scheduled # 0 /\ earliest # None /\ earliest = timestamp)
  <2> DEFINE new == [generation |-> generation + 1, time |-> earliest, queued |-> FALSE]
             left == Withdrawn(timers, scheduled)
  <2>1. /\ generation' = generation + 1 /\ timestamp' = earliest
        /\ scheduled' = IF earliest = None THEN 0 ELSE generation + 1
        /\ timers' = left \cup (IF earliest = None THEN {} ELSE {new})
    BY <1>4 DEF Schedule
  <2>2. generation \in Nat /\ left \subseteq Callbacks /\ \A t \in left : t.generation \in Nat
    BY Leftover DEF TimerType, Callbacks
  <2>3. \A t \in left : t.queued /\ t.time <= clock /\ t.generation < generation + 1
    BY Leftover
  <2>4. earliest # None => new \in Callbacks
    BY <1>1, <2>2 DEF Callbacks
  <2> HIDE DEF earliest, left
  <2>5. CASE earliest = None
    <3>1. timers' = left
      BY <2>1, <2>5
    <3>2. LiveTimers' = {}
      BY <2>1, <2>2, <2>3, <3>1 DEF LiveTimers
    <3>3. Outdated'
      BY <2>1, <2>2, <2>3, <3>1 DEF Outdated
    <3>4. Recorded'
      BY <2>1, <2>5, <3>2, Zenon DEF Recorded
    <3> QED
      BY <1>2, <2>1, <2>2, <2>5, <3>1, <3>3, <3>4 DEF earliest
  <2>6. CASE earliest # None
    <3>1. timers' = left \cup {new}
      BY <2>1, <2>6
    <3>2. LiveTimers' = {new} /\ new.time = earliest
      BY <2>1, <2>2, <2>3, <3>1 DEF LiveTimers
    <3>3. Outdated'
      BY <2>1, <2>2, <2>3, <3>1 DEF Outdated
    <3>4. scheduled' # 0 /\ new \in timers' /\ timestamp' = new.time
      BY <2>1, <2>2, <2>6, <3>1, <3>2
    <3>5. Recorded'
      BY <3>2, <3>4, Zenon DEF Recorded
    <3>6. timers' \in SUBSET Callbacks
      BY <2>2, <2>4, <2>6, <3>1, Zenon
    <3> QED
      BY <1>2, <2>1, <2>2, <2>6, <3>3, <3>5, <3>6 DEF earliest
  <2> QED
    BY <2>5, <2>6
<1> QED
  BY <1>3, <1>4

-----------------------------------------------------------------------------
\* The invariant

LEMMA TimerInvInit == ASSUME StagesAssumption, TimersInit PROVE TimerInv
<1>1. deadline \in [Stages -> Deadlines] /\ Earliest(deadline) = None
  BY EarliestFacts, TimeFacts DEF TimersInit
<1>2. TimerType
  BY <1>1, TimeFacts DEF TimersInit, TimerType, StagesAssumption, Idle
<1> QED
  BY <1>1, <1>2 DEF TimersInit, TimerInv, Outdated, Recorded, Follows, LiveTimers

\* A step that leaves the scheduler, its timers and the callback alone.
LEMMA NothingScheduled ==
    ASSUME TimerInv, UNCHANGED <<scheduler, deadline, closed, firing>>,
           clock' \in 0 .. MaxTime, clock' >= clock
    PROVE  TimerInv'
<1> USE DEF scheduler
<1>1. LiveTimers' = LiveTimers
  BY DEF LiveTimers
<1>2. TimerType' /\ Recorded' /\ Follows'
  BY <1>1 DEF TimerInv, TimerType, Recorded, Follows
<1>3. \A t \in timers : t.queued => t.time <= clock'
  <2>1. \A t \in timers : t.time \in Times
    BY DEF TimerInv, TimerType, Callbacks
  <2>2. clock \in Nat /\ clock' \in Nat
    BY DEF TimerInv, TimerType
  <2> QED
    BY <2>1, <2>2 DEF TimerInv, Outdated, Times
<1> QED
  BY <1>2, <1>3 DEF TimerInv, Outdated

LEMMA EnqueueStep ==
    ASSUME StagesAssumption, TimerInv, NEW t \in timers, Enqueue(t) PROVE TimerInv'
<1> DEFINE q == [t EXCEPT !.queued = TRUE]
<1>1. /\ t \in Callbacks /\ q \in Callbacks /\ q.generation = t.generation /\ q.time = t.time
      /\ q.queued = TRUE
  BY Zenon DEF TimerInv, TimerType, Callbacks
<1>2. /\ timers' = (timers \ {t}) \cup {q} /\ t.time <= clock /\ ~t.queued
      /\ UNCHANGED <<clock, deadline, scheduled, timestamp, owners, generation, closed, failed, firing>>
  BY DEF Enqueue
<1> HIDE DEF q
<1>3. t.generation = generation
  BY <1>2 DEF TimerInv, Outdated
<1>4. TimerType' /\ Follows'
  BY <1>1, <1>2 DEF TimerInv, TimerType, Follows
<1>5. Outdated'
  BY <1>1, <1>2 DEF TimerInv, Outdated
<1>6. Recorded'
  <2>1. t \in LiveTimers
    BY <1>3 DEF LiveTimers
  <2>2. scheduled # 0 /\ LiveTimers = {t} /\ t.time = timestamp
    BY <2>1 DEF TimerInv, Recorded
  <2>3. LiveTimers' = {q}
    BY <1>1, <1>2, <1>3, <2>2 DEF LiveTimers
  <2> QED
    BY <1>1, <1>2, <2>2, <2>3 DEF Recorded
<1> QED
  BY <1>4, <1>5, <1>6 DEF TimerInv

\* refresh, with the deadlines a stage now has.
LEMMA RefreshStep ==
    ASSUME StagesAssumption, TimerInv, deadline' \in [Stages -> Deadlines],
           Schedule(deadline', scheduled, timestamp), firing' = Idle, ~closed, ~failed,
           UNCHANGED <<clock, closed, failed>>
    PROVE  TimerInv'
<1>1. /\ generation' \in Nat \ {0} /\ scheduled' \in {0, generation'}
      /\ timers' \in SUBSET Callbacks /\ Outdated' /\ Recorded'
      /\ timestamp' = Earliest(deadline')
      /\ owners' = {s \in Stages : deadline'[s] = Earliest(deadline') /\ Earliest(deadline') # None}
  BY AfterSchedule DEF TimerInv
<1>2. TimerType'
  <2>1. Earliest(deadline') \in Deadlines
    BY EarliestFacts
  <2>2. Idle \in [time : Deadlines, due : SUBSET Stages, left : SUBSET Stages]
    BY TimeFacts DEF Idle
  <2> QED
    BY <1>1, <2>1, <2>2 DEF TimerInv, TimerType
<1>3. Follows'
  BY <1>1 DEF Follows, Earliest
<1> QED
  BY <1>1, <1>2, <1>3 DEF TimerInv

\* Timers end with the controls, or with the region.
LEMMA CancelStep ==
    ASSUME StagesAssumption, TimerInv, Cancel, firing' = Idle, closed' \/ failed',
           owners' \in {owners, {}}, UNCHANGED <<clock, deadline>>
    PROVE  TimerInv'
<1>1. /\ generation' \in Nat \ {0} /\ scheduled' = 0 /\ timestamp' = None
      /\ timers' \in SUBSET Callbacks /\ Outdated' /\ Recorded'
  BY AfterCancel DEF TimerInv
<1>2. TimerType'
  BY <1>1, TimeFacts DEF TimerInv, TimerType, Idle
<1>3. Follows'
  BY <1>1 DEF Follows
<1> QED
  BY <1>1, <1>2, <1>3 DEF TimerInv

LEMMA CallbackStep ==
    ASSUME StagesAssumption, TimerInv, NEW t \in timers, FireStale(t) \/ Fire(t)
    PROVE  TimerInv' /\ CallbackIsCurrent
<1>1. CASE FireStale(t)
  <2>1. /\ timers' = timers \ {t} /\ firing = Idle /\ (closed \/ t.generation # generation)
        /\ UNCHANGED <<clock, deadline, scheduled, timestamp, owners, generation, closed, failed,
                       firing>>
    BY <1>1 DEF FireStale
  <2>2. t \notin LiveTimers
    BY <2>1 DEF TimerInv, Recorded, Follows, LiveTimers
  <2>3. LiveTimers' = LiveTimers /\ LiveTimers \subseteq timers'
    BY <2>1, <2>2 DEF LiveTimers
  <2>4. TimerType' /\ Follows' /\ Outdated'
    BY <2>1 DEF TimerInv, TimerType, Follows, Outdated
  <2>5. Recorded'
    BY <2>1, <2>3 DEF TimerInv, Recorded
  <2> QED
    BY <2>1, <2>4, <2>5 DEF TimerInv, CallbackIsCurrent
<1>2. CASE Fire(t)
  <2>1. /\ firing = Idle /\ t.queued /\ ~closed /\ t.generation = generation
        /\ timers' = timers \ {t}
        /\ firing' = [time |-> t.time, due |-> owners, left |-> owners]
        /\ scheduled' = 0 /\ timestamp' = None /\ owners' = {}
        /\ UNCHANGED <<clock, deadline, generation, closed, failed>>
    BY <1>2 DEF Fire
  <2>2. t.time \in Times /\ t.time # None /\ t.time \in Deadlines /\ t.time <= clock
    BY <2>1, TimeFacts DEF TimerInv, TimerType, Callbacks, Outdated
  <2>3. scheduled # 0 /\ LiveTimers = {t} /\ t.time = timestamp
    BY <2>1, Zenon DEF TimerInv, Recorded, LiveTimers
  <2>4. ~failed /\ timestamp = Earliest(deadline)
        /\ owners = {s \in Stages : deadline[s] = timestamp /\ timestamp # None}
    BY <2>1, <2>3, Zenon DEF TimerInv, Follows
  <2>5. firing' # Idle /\ firing'.time = t.time /\ firing'.due = owners
    BY <2>1, <2>2 DEF Idle
  <2>6. \E s \in Stages : deadline[s] = timestamp
    BY <2>4, EarliestFacts DEF TimerInv, TimerType
  <2>7. owners # {} /\ \A s \in owners : deadline[s] = t.time
    BY <2>2, <2>3, <2>4, <2>6
  <2>8. CallbackIsCurrent
    BY <2>1, <2>2, <2>4, <2>5, <2>7 DEF CallbackIsCurrent
  <2>9. LiveTimers' = {}
    BY <2>1, <2>3 DEF LiveTimers
  <2>10. TimerType'
    BY <2>1, <2>2, TimeFacts DEF TimerInv, TimerType
  <2>11. Outdated' /\ Recorded'
    BY <2>1, <2>9, Zenon DEF TimerInv, Outdated, Recorded
  <2>12. Follows'
    BY <2>1, <2>2, <2>4, <2>5 DEF Follows
  <2> QED
    BY <2>8, <2>10, <2>11, <2>12 DEF TimerInv
<1> QED
  BY <1>1, <1>2

LEMMA DeliverStep ==
    ASSUME StagesAssumption, TimerInv, NEW s \in Stages, NEW d \in [Stages -> Deadlines],
           Deliver(s, d)
    PROVE  TimerInv' /\ firing # Idle
<1> USE DEF scheduler
<1>1. /\ s \in firing.left /\ firing' = [firing EXCEPT !.left = @ \ {s}] /\ deadline' = d
      /\ UNCHANGED <<clock, scheduled, timestamp, owners, generation, timers, failed, closed>>
  BY DEF Deliver
<1>2. firing # Idle
  BY <1>1 DEF Idle
<1>3. firing' \in [time : Deadlines, due : SUBSET Stages, left : SUBSET Stages]
      /\ firing'.time = firing.time
  BY <1>1, Zenon DEF TimerInv, TimerType
<1>4. firing' # Idle /\ scheduled = 0 /\ ~closed /\ ~failed /\ firing.time # None
  BY <1>2, <1>3 DEF TimerInv, Follows, Idle
<1>5. LiveTimers' = LiveTimers
  BY <1>1 DEF LiveTimers
<1>6. TimerType'
  BY <1>1, <1>3 DEF TimerInv, TimerType
<1>7. Outdated' /\ Recorded'
  BY <1>1, <1>5 DEF TimerInv, Outdated, Recorded
<1>8. Follows'
  BY <1>1, <1>3, <1>4 DEF Follows
<1> QED
  BY <1>2, <1>6, <1>7, <1>8 DEF TimerInv

LEMMA TimerInvStep ==
    ASSUME StagesAssumption, TimerInv, [TimersNext]_timerVars PROVE TimerInv' /\ CallbackIsCurrent
<1>1. CASE Tick
  <2>1. clock' \in 0 .. MaxTime /\ clock' >= clock
    BY <1>1 DEF Tick, TimerInv, TimerType, StagesAssumption
  <2>2. TimerInv'
    BY <1>1, <2>1, NothingScheduled DEF Tick
  <2> QED
    BY <1>1, <2>2 DEF Tick, CallbackIsCurrent
<1>2. ASSUME NEW t \in timers, Enqueue(t) PROVE TimerInv' /\ CallbackIsCurrent
  BY <1>2, EnqueueStep DEF Enqueue, CallbackIsCurrent
<1>3. ASSUME NEW d \in [Stages -> Deadlines], Arrive(d) PROVE TimerInv' /\ CallbackIsCurrent
  BY <1>3, RefreshStep DEF Arrive, Mailbox, CallbackIsCurrent
<1>4. CASE ArriveFails
  <2>1. /\ Cancel /\ firing' = Idle /\ (closed' \/ failed') /\ owners' \in {owners, {}}
        /\ UNCHANGED <<clock, deadline>>
    BY <1>4 DEF ArriveFails, Mailbox
  <2> QED
    BY <2>1, CancelStep DEF CallbackIsCurrent
<1>5. CASE Callback
  BY <1>5, CallbackStep DEF Callback
<1>6. CASE FireStep
  <2>1. ASSUME NEW s \in Stages, NEW d \in [Stages -> Deadlines], Deliver(s, d)
        PROVE  TimerInv' /\ CallbackIsCurrent
    BY <2>1, DeliverStep DEF CallbackIsCurrent
  <2>2. CASE FireDone
    <3>1. /\ firing # Idle /\ firing' = Idle /\ deadline' = deadline
          /\ Schedule(deadline, scheduled, timestamp) /\ UNCHANGED <<clock, closed, failed>>
      BY <2>2 DEF FireDone
    <3>2. ~closed /\ ~failed /\ deadline \in [Stages -> Deadlines]
      BY <3>1 DEF TimerInv, Follows, TimerType
    <3> QED
      BY <3>1, <3>2, RefreshStep, Zenon DEF CallbackIsCurrent
  <2>3. CASE FireFails
    <3>1. /\ Cancel /\ firing' = Idle /\ (closed' \/ failed') /\ owners' \in {owners, {}}
          /\ UNCHANGED <<clock, deadline>>
      BY <2>3 DEF FireFails
    <3> QED
      BY <3>1, CancelStep DEF CallbackIsCurrent
  <2> QED
    BY <1>6, <2>1, <2>2, <2>3 DEF FireStep
<1>7. CASE Close
  <2>1. /\ Cancel /\ firing' = Idle /\ (closed' \/ failed') /\ owners' \in {owners, {}}
        /\ UNCHANGED <<clock, deadline>>
    BY <1>7 DEF Close
  <2> QED
    BY <2>1, CancelStep DEF CallbackIsCurrent
<1>8. CASE UNCHANGED timerVars
  <2>1. clock' \in 0 .. MaxTime /\ clock' >= clock
    BY <1>8 DEF timerVars, TimerInv, TimerType
  <2>2. UNCHANGED <<scheduler, deadline, closed, firing>>
    BY <1>8 DEF timerVars, scheduler
  <2> QED
    BY <2>1, <2>2, NothingScheduled DEF CallbackIsCurrent
<1> QED
  BY <1>1, <1>2, <1>3, <1>4, <1>5, <1>6, <1>7, <1>8 DEF TimersNext

LEMMA InvArms == ASSUME StagesAssumption, TimerInv PROVE EarliestIsArmed
<1>1. ASSUME firing = Idle, ~failed, ~closed
      PROVE  IF Earliest(deadline) = None THEN LiveTimers = {} /\ owners = {}
             ELSE /\ \E t \in LiveTimers : LiveTimers = {t} /\ t.time = Earliest(deadline)
                  /\ owners = {s \in Stages : deadline[s] = Earliest(deadline)}
  <2>1. /\ timestamp = Earliest(deadline)
        /\ owners = {s \in Stages : deadline[s] = timestamp /\ timestamp # None}
    BY <1>1 DEF TimerInv, Follows
  <2>2. scheduled = 0 <=> timestamp = None
    BY TimeFacts, Zenon DEF TimerInv, Recorded, TimerType, Callbacks
  <2> QED
    BY <2>1, <2>2 DEF TimerInv, Recorded
<1>2. ASSUME closed \/ failed PROVE \A t \in timers : t.queued
  BY <1>2 DEF TimerInv, Follows, Recorded, Outdated, LiveTimers
<1> QED
  BY <1>1, <1>2 DEF EarliestIsArmed

\* Every step of the region leaves its earliest deadline armed, and only a callback
\* that still is the current one starts: one that waited in the mailbox while its
\* timer was moved, cancelled, closed or given up is ignored
\* (NativeRegionProcessingTimeScheduler.refresh, fire, cancel, close).
THEOREM TimerFollows == ASSUME StagesAssumption PROVE TimersSpec => [][TimerStep]_timerVars
<1>1. TimersInit => TimerInv
  BY TimerInvInit
<1>2. TimerInv /\ [TimersNext]_timerVars => TimerInv'
  BY TimerInvStep
<1>3. TimerInv => EarliestIsArmed
  BY InvArms
<1>4. TimerInv /\ [TimersNext]_timerVars => CallbackIsCurrent
  BY TimerInvStep
<1>5. EarliestIsArmed' /\ CallbackIsCurrent => TimerStep
  BY DEF TimerStep
<1> QED
  BY <1>1, <1>2, <1>3, <1>4, <1>5, PTL DEF TimersSpec
=============================================================================
