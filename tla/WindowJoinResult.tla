--------------------------- MODULE WindowJoinResult ---------------------------
(* What an event-time window join promises. Rows wait in their window until a *)
(* watermark passes it; that watermark then emits, in one step, every pair of *)
(* rows of each window that closed, and forgets the rows. A checkpoint keeps  *)
(* the rows and the output so far; a restart returns to it, with the clock    *)
(* back at its minimum.                                                       *)
EXTENDS Integers, Sequences, SequencesExt

CONSTANTS
  Records,      \* the records of the two inputs
  Windows,      \* pairs of a key and a window end
  WindowOf(_),  \* the window of a row, no member of Windows if it has none
  Deadline(_),  \* the watermark that closes a window
  Forever,      \* windows that never make a record late
  Times, MinTime

VARIABLES waiting, retained, clock, output, saved

vars == <<waiting, retained, clock, output, saved>>

Nothing == <<<<>>, <<>>>>

Late(r) ==
  \/ WindowOf(r) \notin Windows
  \/ WindowOf(r) \notin Forever /\ Deadline(WindowOf(r)) <= clock

\* Left-major pairs of one window.
Pairs(sides) ==
  FlattenSeq([i \in 1..Len(sides[1]) |->
                [j \in 1..Len(sides[2]) |-> <<sides[1][i], sides[2][j]>>]])

Init ==
  /\ waiting = Records
  /\ retained = [w \in Windows |-> Nothing]
  /\ clock = MinTime /\ output = <<>>
  /\ saved = [waiting |-> waiting, retained |-> retained, output |-> output]

\* Some records of one side arrive, in the order of their identities.
Accept(S, side) ==
  LET batch == SetToSortSeq(S, LAMBDA a, b : a.id < b.id)
      Of(w) == SelectSeq(batch, LAMBDA r : ~Late(r) /\ WindowOf(r) = w)
  IN  /\ \A r \in S : r.side = side /\ (r.retracts => Late(r))
      /\ waiting' = waiting \ S
      /\ retained' = [w \in Windows |->
                        [retained[w] EXCEPT ![side] = @ \o Of(w)]]
      /\ UNCHANGED <<clock, output, saved>>

Due(time) == {w \in Windows : retained[w] # Nothing /\ Deadline(w) <= time}

Watermark(time) ==
  /\ time > clock
  /\ clock' = time
  /\ \E order \in SetToSeqs(Due(time)) :
       output' = output \o
                 FlattenSeq([i \in 1..Len(order) |-> Pairs(retained[order[i]])])
  /\ retained' = [w \in Windows |-> IF w \in Due(time) THEN Nothing ELSE retained[w]]
  /\ UNCHANGED <<waiting, saved>>

Checkpoint ==
  /\ saved' = [waiting |-> waiting, retained |-> retained, output |-> output]
  /\ UNCHANGED <<waiting, retained, clock, output>>

Restore ==
  /\ waiting' = saved.waiting /\ retained' = saved.retained
  /\ output' = saved.output /\ clock' = MinTime
  /\ UNCHANGED saved

Next ==
  \/ \E S \in SUBSET waiting : \E side \in 1..2 : Accept(S, side)
  \/ \E time \in Times : Watermark(time)
  \/ Checkpoint
  \/ Restore

Spec == Init /\ [][Next]_vars
=============================================================================
