-------------------------- MODULE WindowJoinProofs ---------------------------
(***************************************************************************)
(* The index, the payload and the timers of the window join, for any rows, *)
(* keys, windows, key groups and page sizes.                               *)
(*                                                                         *)
(* TimersMatchIndex speaks of the time between invocations.  JoinInv says  *)
(* what holds inside one: the windows other than the pending one are still *)
(* indexed, the pending one keeps its header and its timer until both go   *)
(* in one step, and its last page is known to leave no payload behind.     *)
(* The saved timers agree with those in memory except in dirty key groups. *)
(***************************************************************************)
EXTENDS WindowJoin, WellFoundedInduction, FiniteSetTheorems, TLAPS

\* Whatever a batch may hold in one place.
Place(S, i) == CHOOSE r \in S : Cardinality({q \in S : q.id < r.id}) = i - 1
Delivered == {Place(S, i) : S \in SUBSET Records, i \in Nat}

Entry == [first : Nat, rows : Seq(Delivered)]
Page == [entries : Seq(Entry), exhausted : BOOLEAN, emitted : BOOLEAN]
Headers == {NoHeader} \cup (Nat \X Nat)
Payloads == Seq(Entry) \X Seq(Entry)
AllTimers == {Timer(w) : w \in Windows}

TimersOf(h, g) == {Timer(w) : w \in {v \in Windows : GroupOf(v) = g /\ h[v] # NoHeader}}

\* The entries of a side lead from the first ordinal to the last one.
Spans(entries, first, last) ==
  Contiguous(entries, first) /\ EndOf(entries, Len(entries), first) = last

WindowIndexed(h, p, w) ==
  IF h[w] = NoHeader THEN p[w] = NoEntries
  ELSE \A side \in 1..2 : Spans(p[w][side], 0, h[w][side])

JoinType ==
  /\ waiting \subseteq Records
  /\ header \in [Windows -> Headers]
  /\ payload \in [Windows -> Payloads]
  /\ blob \in [Groups -> SUBSET AllTimers]
  /\ timers \in [Groups -> SUBSET AllTimers]

\* Only dirty key groups differ from what the state holds of them.
CleanIsSaved == \A g \in Groups : g \notin dirty => blob[g] = timers[g]

SavedInv ==
  /\ saved.waiting \subseteq Records
  /\ saved.header \in [Windows -> Headers]
  /\ saved.payload \in [Windows -> Payloads]
  /\ saved.blob \in [Groups -> SUBSET AllTimers]
  /\ Indexed(saved.header, saved.payload, saved.blob)

\* A page that exhausted the left side leaves nothing behind.
PageInv(page, left) ==
  page # NoPage =>
    /\ page \in Page
    /\ Len(page.entries) <= Len(left)
    /\ page.exhausted => Len(page.entries) = Len(left)

PendingInv ==
  pending # NoPending =>
    /\ pending = [window |-> pending.window, counts |-> pending.counts, cursor |-> pending.cursor,
                  page |-> pending.page, right |-> pending.right]
    /\ pending.window \in Windows
    /\ header[pending.window] # NoHeader
    /\ PageInv(pending.page, payload[pending.window][1])

LiveInv ==
  invocation # "Failed" =>
    /\ \A g \in Groups : timers[g] = TimersOf(header, g)
    /\ \A w \in Windows : w # pending.window => WindowIndexed(header, payload, w)
    /\ PendingInv

IdleInv == invocation = "Idle" => pending = NoPending

JoinInv == JoinType /\ CleanIsSaved /\ SavedInv /\ IdleInv /\ LiveInv

-----------------------------------------------------------------------------
\* Naturals, pairs and windows.

\* A leaf is tried with SMT, with Zenon, and then with SMT for longer.
USE SMT, Zenon, SMTT(20), SMTT(40)

LEMMA LeastNatural ==
  ASSUME NEW S \in SUBSET Nat, S # {}
  PROVE  \E x \in S : \A y \in S : x <= y
<1>1. PICK x \in S : \A y \in S : ~(<<y, x>> \in OpToRel(<, Nat))
  BY NatLessThanWellFounded, WFMin, Zenon
<1>2. ASSUME NEW y \in S, y < x PROVE FALSE
  <2>1. <<y, x>> \in {ss \in Nat \X Nat : ss[1] < ss[2]}
    <3>1. <<y, x>> \in Nat \X Nat /\ <<y, x>>[1] < <<y, x>>[2]
      BY <1>2
    <3> QED
      BY <3>1
  <2> QED
    BY <1>1, <2>1 DEF OpToRel
<1> QED
  BY <1>2

LEMMA LeastOf ==
  ASSUME NEW S \in SUBSET Nat, S # {}
  PROVE  Min(S) \in S
<1>1. PICK x \in S : \A y \in S : x <= y
  BY LeastNatural
<1> QED
  BY <1>1, Zenon DEF Min

LEMMA GreatestOf ==
  ASSUME NEW n \in Nat, NEW S \in SUBSET (0..n), S # {}
  PROVE  Max(S) \in S
<1> DEFINE D == {n - x : x \in S}
<1>1. \A x \in S : x \in 0..n /\ n - x \in Nat
  OBVIOUS
<1>2. D \in SUBSET Nat /\ D # {}
  BY <1>1, Zenon
<1>3. PICK d \in D : \A e \in D : d <= e
  BY <1>2, LeastNatural, Zenon
<1>4. PICK m \in S : d = n - m
  BY <1>3
<1>5. ASSUME NEW y \in S PROVE m >= y
  <2>1. n - m <= n - y
    BY <1>3, <1>4
  <2> QED
    BY <1>1, <2>1
<1> QED
  BY <1>5, Zenon DEF Max

LEMMA PairExcept ==
  ASSUME NEW A, NEW p \in A \X A, NEW side \in 1..2, NEW v \in A
  PROVE  /\ [p EXCEPT ![side] = v] \in A \X A
         /\ [p EXCEPT ![side] = v][side] = v
         /\ \A other \in 1..2 : other # side => [p EXCEPT ![side] = v][other] = p[other]
<1>1. PICK a \in A, b \in A : p = <<a, b>>
  OBVIOUS
<1>2. CASE side = 1
  <2>1. [p EXCEPT ![side] = v] = <<v, b>>
    BY <1>1, <1>2
  <2> QED
    BY <1>1, <1>2, <2>1
<1>3. CASE side = 2
  <2>1. [p EXCEPT ![side] = v] = <<a, v>>
    BY <1>1, <1>3
  <2> QED
    BY <1>1, <1>3, <2>1
<1> QED
  BY <1>2, <1>3

LEMMA WindowFacts ==
  ASSUME WindowJoinAssumption, NEW w \in Windows
  PROVE  /\ w[1] \in Keys /\ w[1] \in Nat /\ w[2] \in Ends /\ w[2] \in 1..MaxTime
         /\ w # NoWindow
         /\ GroupOf(w) \in Groups
         /\ Timer(w) \in AllTimers /\ Timer(w).window = w
         /\ Timer(w).timestamp = Deadline(w)
<1>1. w[1] \in Keys /\ w[2] \in Ends
  BY DEF Windows
<1>2. w[1] \in Nat /\ w[2] \in 1..MaxTime
  BY <1>1, Zenon DEF WindowJoinAssumption
<1>3. w # NoWindow
  BY DEF Windows, NoWindow
<1>4. GroupOf(w) \in Groups
  BY <1>1 DEF GroupOf, Groups
<1>5. Timer(w).window = w /\ Timer(w).timestamp = Deadline(w)
  BY DEF Timer
<1>6. Timer(w) \in AllTimers
  BY DEF AllTimers
<1> QED
  BY <1>1, <1>2, <1>3, <1>4, <1>5, <1>6

LEMMA GroupFacts ==
  ASSUME WindowJoinAssumption
  PROVE  Groups \subseteq Nat
BY DEF WindowJoinAssumption, Groups

-----------------------------------------------------------------------------
\* The next timer of a drain belongs to a window.

LEMMA LeastTimer ==
  ASSUME WindowJoinAssumption, NEW G \in SUBSET AllTimers, G # {}
  PROVE  \E t \in G : \A u \in G : TimerBefore(t, u)
<1> DEFINE Moment(t) == t.timestamp + ZoneOffset
<1>1. ASSUME NEW t \in G
      PROVE  /\ t.timestamp \in Int /\ Moment(t) \in Nat
             /\ t.window[1] \in Nat /\ t.window[2] \in Nat
  <2>1. PICK w \in Windows : t = Timer(w)
    BY DEF AllTimers
  <2>2. t.window = w /\ t.timestamp = Deadline(w)
    BY <2>1, WindowFacts
  <2>3. w[1] \in Nat /\ w[2] \in 1..MaxTime /\ MaxTime \in Nat /\ ZoneOffset \in Nat
    BY WindowFacts DEF WindowJoinAssumption
  <2>4. Deadline(w) \in Int /\ Deadline(w) + ZoneOffset \in Nat
    BY <2>3 DEF Deadline, TimerTimestamp
  <2> QED
    BY <2>2, <2>3, <2>4
<1> DEFINE A == {Moment(t) : t \in G}
<1>2. A \in SUBSET Nat /\ A # {}
  BY <1>1
<1> HIDE DEF A
<1>3. PICK a \in A : \A y \in A : a <= y
  BY <1>2, LeastNatural
<1> DEFINE B == {t.window[1] : t \in {u \in G : Moment(u) = a}}
<1>4. B \in SUBSET Nat /\ B # {}
  BY <1>1, <1>3 DEF A
<1> HIDE DEF B
<1>5. PICK b \in B : \A y \in B : b <= y
  BY <1>4, LeastNatural
<1> DEFINE C == {t.window[2] : t \in {u \in G : Moment(u) = a /\ u.window[1] = b}}
<1>6. C \in SUBSET Nat /\ C # {}
  BY <1>1, <1>5 DEF B
<1> HIDE DEF C
<1>7. PICK c \in C : \A y \in C : c <= y
  BY <1>6, LeastNatural
<1>8. PICK t \in G : Moment(t) = a /\ t.window[1] = b /\ t.window[2] = c
  BY <1>7 DEF C
<1>9. ASSUME NEW u \in G PROVE TimerBefore(t, u)
  <2>1. Moment(u) \in A /\ a <= Moment(u)
    BY <1>3 DEF A
  <2>2. t.timestamp <= u.timestamp
    <3>1. t.timestamp + ZoneOffset <= u.timestamp + ZoneOffset
      BY <1>8, <2>1
    <3>2. t.timestamp \in Int /\ u.timestamp \in Int /\ ZoneOffset \in Int
      BY <1>1 DEF WindowJoinAssumption
    <3> QED
      BY <3>1, <3>2
  <2>3. CASE t.timestamp < u.timestamp
    BY <2>3 DEF TimerBefore
  <2>4. CASE t.timestamp = u.timestamp
    <3>1. Moment(u) = a
      BY <1>8, <2>4
    <3>2. b <= u.window[1]
      BY <3>1, <1>5 DEF B
    <3>3. CASE b < u.window[1]
      BY <2>4, <3>3, <1>8 DEF TimerBefore
    <3>4. CASE b = u.window[1]
      <4>1. c <= u.window[2]
        BY <3>1, <3>4, <1>7 DEF C
      <4> QED
        BY <2>4, <3>4, <4>1, <1>8 DEF TimerBefore
    <3>5. b \in Nat /\ u.window[1] \in Nat
      BY <1>1, <1>4, <1>5
    <3> QED
      BY <3>2, <3>3, <3>4, <3>5
  <2> QED
    BY <2>2, <2>3, <2>4, <1>1
<1> QED
  BY <1>9

LEMMA NextIsWindow ==
  ASSUME WindowJoinAssumption, JoinType, NEW time, DueGroups(time) # {}
  PROVE  NextDue(time).window \in Windows
<1>1. DueGroups(time) \subseteq Groups /\ DueGroups(time) \in SUBSET Nat
  BY GroupFacts DEF DueGroups
<1>2. Min(DueGroups(time)) \in DueGroups(time)
  BY <1>1, LeastOf
<1> DEFINE group == timers[Min(DueGroups(time))]
<1>3. group \in SUBSET AllTimers /\ group # {}
  BY <1>1, <1>2, Zenon DEF DueGroups, JoinType
<1>4. \E t \in group : \A u \in group : TimerBefore(t, u)
  BY <1>3, LeastTimer
<1>5. NextDue(time) \in group
  BY <1>4 DEF NextDue
<1>6. PICK w \in Windows : NextDue(time) = Timer(w)
  BY <1>3, <1>5 DEF AllTimers
<1> QED
  BY <1>6, WindowFacts

-----------------------------------------------------------------------------
\* The payload of a window.

LEMMA BatchIsSequence ==
  ASSUME WindowJoinAssumption, NEW S \in SUBSET Records
  PROVE  Batch(S) \in Seq(Delivered) /\ Len(Batch(S)) \in Nat
<1>1. Cardinality(S) \in Nat
  BY FS_Subset, FS_CardinalityType DEF WindowJoinAssumption
<1>2. Batch(S) = [i \in 1..Cardinality(S) |-> Place(S, i)]
  BY DEF Batch, Place
<1>3. ASSUME NEW i \in 1..Cardinality(S) PROVE Place(S, i) \in Delivered
  BY <1>1 DEF Delivered
<1>4. Batch(S) \in [1..Cardinality(S) -> Delivered]
  BY <1>2, <1>3
<1> QED
  BY <1>1, <1>4

LEMMA Pages ==
  ASSUME NEW M \in Nat \ {0}, NEW L \in Nat, NEW n \in Nat, n = (L + M - 1) \div M
  PROVE  /\ n = 0 <=> L = 0
         /\ n * M >= L
         /\ \A i \in 1..n : (i - 1) * M < L /\ (i - 1) * M \in Nat /\ i * M \in Nat
         /\ \A i \in 1..n : i < n => i * M <= L
<1>1. n * M <= L + M - 1 /\ L + M - 1 < n * M + M
  OBVIOUS
<1> QED
  OBVIOUS

LEMMA Smaller ==
  ASSUME NEW a \in Int, NEW b \in Int
  PROVE  Min({a, b}) = IF a <= b THEN a ELSE b
BY DEF Min

LEMMA EntriesSpan ==
  ASSUME WindowJoinAssumption, NEW first \in Nat, NEW rows \in Seq(Delivered)
  PROVE  /\ Entries(first, rows) \in Seq(Entry)
         /\ Spans(Entries(first, rows), first, first + Len(rows))
<1> DEFINE L == Len(rows)
           n == (L + MaxRows - 1) \div MaxRows
           From(i) == (i - 1) * MaxRows
           To(i) == Min({i * MaxRows, L})
           E == Entries(first, rows)
<1>1. MaxRows \in Nat \ {0} /\ L \in Nat /\ n \in Nat
  BY DEF WindowJoinAssumption
<1>2. /\ n = 0 <=> L = 0
      /\ n * MaxRows >= L
      /\ \A i \in 1..n : From(i) < L /\ From(i) \in Nat /\ i * MaxRows \in Nat
      /\ \A i \in 1..n : i < n => i * MaxRows <= L
  BY <1>1, Pages
<1>3. E = [i \in 1..n |-> [first |-> first + From(i), rows |-> SubSeq(rows, From(i) + 1, To(i))]]
  BY DEF Entries
<1>4. ASSUME NEW i \in 1..n
      PROVE  /\ To(i) \in Nat /\ From(i) < To(i) /\ To(i) <= L
             /\ To(i) = IF i < n THEN i * MaxRows ELSE L
  <2>1. To(i) = IF i * MaxRows <= L THEN i * MaxRows ELSE L
    <3>1. i * MaxRows \in Int /\ L \in Int
      BY <1>1, <1>2
    <3> HIDE DEF L
    <3> QED
      BY <3>1, Smaller
  <2>2. i * MaxRows = From(i) + MaxRows
    BY <1>1
  <2>3. i < n => i * MaxRows <= L
    BY <1>2
  <2>4. i = n => i * MaxRows >= L
    BY <1>2
  <2> HIDE DEF To, From, n, L
  <2> QED
    BY <1>1, <1>2, <2>1, <2>2, <2>3, <2>4
<1> HIDE DEF To, From, n, L, E
<1>5. ASSUME NEW i \in 1..n
      PROVE  /\ E[i] \in Entry
             /\ E[i].first = first + From(i)
             /\ Len(E[i].rows) = To(i) - From(i)
  <2>1. /\ SubSeq(rows, From(i) + 1, To(i)) \in Seq(Delivered)
        /\ Len(SubSeq(rows, From(i) + 1, To(i))) = To(i) - From(i)
    BY <1>1, <1>2, <1>4 DEF L
  <2>2. E[i] = [first |-> first + From(i), rows |-> SubSeq(rows, From(i) + 1, To(i))]
    BY <1>3
  <2> QED
    BY <1>2, <2>1, <2>2 DEF Entry
<1>6. E \in Seq(Entry) /\ Len(E) = n
  BY <1>1, <1>3, <1>5
<1>7. ASSUME NEW i \in 1..n PROVE E[i].first = EndOf(E, i - 1, first)
  <2>1. CASE i = 1
    BY <1>1, <1>5, <2>1 DEF EndOf, From
  <2>2. CASE i # 1
    <3>1. i - 1 \in 1..n /\ i - 1 < n /\ i - 1 # 0
      BY <1>1, <2>2
    <3>2. To(i - 1) = (i - 1) * MaxRows
      BY <1>4, <3>1
    <3>3. From(i) = To(i - 1)
      BY <3>2 DEF From
    <3>4. EndOf(E, i - 1, first) = first + From(i - 1) + (To(i - 1) - From(i - 1))
      BY <1>5, <3>1 DEF EndOf
    <3>5. From(i - 1) \in Nat /\ To(i - 1) \in Nat
      BY <1>2, <1>4, <3>1
    <3> QED
      BY <1>5, <3>3, <3>4, <3>5
  <2> QED
    BY <2>1, <2>2
<1>8. EndOf(E, n, first) = first + L
  <2>1. CASE n = 0
    BY <1>1, <1>2, <2>1 DEF EndOf
  <2>2. CASE n # 0
    <3>1. n \in 1..n
      BY <1>1, <2>2
    <3>2. To(n) = L /\ From(n) \in Nat
      BY <1>1, <1>2, <1>4, <3>1
    <3>3. EndOf(E, n, first) = first + From(n) + (L - From(n))
      BY <1>5, <2>2, <3>1, <3>2 DEF EndOf
    <3> QED
      BY <1>1, <3>2, <3>3
  <2> QED
    BY <2>1, <2>2
<1> QED
  BY <1>6, <1>7, <1>8 DEF Spans, Contiguous, E, L

LEMMA SpansJoin ==
  ASSUME NEW a \in Seq(Entry), NEW b \in Seq(Entry), NEW n \in Nat, NEW m \in Nat,
         Spans(a, 0, n), Spans(b, n, m)
  PROVE  Spans(a \o b, 0, m)
<1> DEFINE c == a \o b
<1>1. c \in Seq(Entry) /\ Len(c) = Len(a) + Len(b) /\ Len(a) \in Nat /\ Len(b) \in Nat
  OBVIOUS
<1>2. /\ \A i \in 1..Len(a) : c[i] = a[i]
      /\ \A i \in 1..Len(b) : c[Len(a) + i] = b[i]
  OBVIOUS
<1> HIDE DEF c
<1>3. ASSUME NEW i \in 1..Len(c) PROVE c[i].first = EndOf(c, i - 1, 0)
  <2>1. CASE i <= Len(a)
    <3>1. i \in 1..Len(a) /\ (i - 1 # 0 => i - 1 \in 1..Len(a))
      BY <1>1, <2>1
    <3>2. c[i] = a[i] /\ (i - 1 # 0 => c[i - 1] = a[i - 1])
      BY <1>2, <3>1
    <3>3. a[i].first = EndOf(a, i - 1, 0)
      BY <3>1 DEF Spans, Contiguous
    <3> QED
      BY <3>2, <3>3 DEF EndOf
  <2>2. CASE i = Len(a) + 1
    <3>1. c[i] = b[1] /\ 1 \in 1..Len(b)
      BY <1>1, <1>2, <2>2
    <3>2. c[i].first = n
      BY <3>1 DEF Spans, Contiguous, EndOf
    <3>3. EndOf(c, i - 1, 0) = EndOf(a, Len(a), 0)
      <4>1. i - 1 = Len(a)
        BY <1>1, <2>2
      <4>2. CASE Len(a) = 0
        BY <4>1, <4>2 DEF EndOf
      <4>3. CASE Len(a) # 0
        <5>1. c[Len(a)] = a[Len(a)]
          BY <1>1, <1>2, <4>3
        <5> QED
          BY <4>1, <4>3, <5>1 DEF EndOf
      <4> QED
        BY <4>2, <4>3
    <3> QED
      BY <3>2, <3>3 DEF Spans
  <2>3. CASE i > Len(a) + 1
    <3> DEFINE j == i - Len(a)
    <3>1. j \in 1..Len(b) /\ j - 1 \in 1..Len(b) /\ i = Len(a) + j /\ i - 1 = Len(a) + (j - 1)
      BY <1>1, <2>3
    <3>2. c[i] = b[j] /\ c[i - 1] = b[j - 1]
      BY <1>2, <3>1
    <3>3. b[j].first = b[j - 1].first + Len(b[j - 1].rows)
      <4>1. b[j].first = EndOf(b, j - 1, n)
        BY <3>1 DEF Spans, Contiguous
      <4>2. j - 1 # 0
        BY <3>1
      <4> QED
        BY <4>1, <4>2, Zenon DEF EndOf
    <3>4. i - 1 # 0
      BY <1>1, <2>3
    <3>5. EndOf(c, i - 1, 0) = c[i - 1].first + Len(c[i - 1].rows)
      BY <3>4 DEF EndOf
    <3> QED
      BY <3>2, <3>3, <3>5
  <2>4. i <= Len(a) \/ i = Len(a) + 1 \/ i > Len(a) + 1
    BY <1>1
  <2> QED
    BY <2>1, <2>2, <2>3, <2>4
<1>4. EndOf(c, Len(c), 0) = m
  <2>1. CASE Len(b) = 0
    BY <1>1, <1>2, <2>1 DEF Spans, EndOf
  <2>2. CASE Len(b) # 0
    <3>1. /\ Len(b) \in 1..Len(b) /\ Len(c) = Len(a) + Len(b) /\ Len(c) # 0
      BY <1>1, <2>2
    <3>2. c[Len(c)] = b[Len(b)]
      BY <1>2, <3>1
    <3>3. EndOf(b, Len(b), n) = m
      BY DEF Spans
    <3> QED
      BY <2>2, <3>1, <3>2, <3>3 DEF EndOf
  <2> QED
    BY <2>1, <2>2
<1> QED
  BY <1>3, <1>4 DEF Spans, Contiguous, c

-----------------------------------------------------------------------------
\* Batches, their windows and their timers.

LEMMA WindowsOfBatch ==
  ASSUME WindowJoinAssumption, NEW S \in SUBSET Records
  PROVE  WindowsOf(S) \subseteq Windows
<1>1. ASSUME NEW r \in Timely(S) PROVE WindowOf(r) \in Windows
  <2>1. r \in Records /\ WindowOf(r) # NoWindow
    BY DEF Timely, OnTime
  <2>2. r.end \in Ends /\ r.key \in Keys
    BY <2>1 DEF WindowOf, WindowJoinAssumption
  <2> QED
    BY <2>2 DEF WindowOf, Windows
<1> QED
  BY <1>1 DEF WindowsOf

LEMMA Registered ==
  ASSUME WindowJoinAssumption, JoinType, NEW W \in SUBSET Windows
  PROVE  /\ Register(timers, W) \in [Groups -> SUBSET AllTimers]
         /\ \A g \in Groups : g \notin Fresh(W) => Register(timers, W)[g] = timers[g]
<1>1. ASSUME NEW g \in Groups
      PROVE  /\ Register(timers, W)[g] \in SUBSET AllTimers
             /\ g \notin Fresh(W) => Register(timers, W)[g] = timers[g]
  <2> DEFINE new == {Timer(w) : w \in {v \in W : GroupOf(v) = g}}
  <2>1. Register(timers, W)[g] = timers[g] \cup new
    BY DEF Register
  <2>2. new \subseteq AllTimers
    BY DEF AllTimers
  <2>3. timers[g] \subseteq AllTimers
    BY DEF JoinType
  <2>4. ASSUME g \notin Fresh(W), NEW t \in new PROVE t \in timers[g]
    BY <2>4 DEF Fresh
  <2> QED
    BY <2>1, <2>2, <2>3, <2>4
<1>2. DOMAIN Register(timers, W) = Groups /\ Register(timers, W) = [g \in Groups |-> Register(timers, W)[g]]
  BY DEF Register
<1> QED
  BY <1>1, <1>2

LEMMA PayloadPair ==
  /\ <<>> \in Seq(Entry) /\ NoEntries \in Payloads
  /\ \A a \in Seq(Entry), b \in Seq(Entry) : <<a, b>> \in Payloads
<1>1. <<>> \in Seq(Entry)
  OBVIOUS
<1>2. <<<<>>, <<>>>> \in Seq(Entry) \X Seq(Entry)
  BY <1>1, Zenon
<1> QED
  BY <1>1, <1>2 DEF NoEntries, Payloads

LEMMA EmptySpan == Spans(<<>>, 0, 0)
BY DEF Spans, Contiguous, EndOf

\* What a window holds on both sides, when it holds nothing yet included.
LEMMA Counted ==
  ASSUME WindowJoinAssumption, JoinType, NEW w \in Windows, WindowIndexed(header, payload, w)
  PROVE  LET counts == IF header[w] = NoHeader THEN <<0, 0>> ELSE header[w]
         IN  /\ counts \in Nat \X Nat
             /\ \A side \in 1..2 : Spans(payload[w][side], 0, counts[side])
<1>1. CASE header[w] = NoHeader
  <2>1. payload[w] = <<<<>>, <<>>>>
    BY <1>1 DEF WindowIndexed, NoEntries
  <2>2. \A side \in 1..2 : payload[w][side] = <<>> /\ <<0, 0>>[side] = 0
    BY <2>1
  <2> QED
    BY <1>1, <2>2, EmptySpan
<1>2. CASE header[w] # NoHeader
  BY <1>2 DEF WindowIndexed, JoinType, Headers
<1> QED
  BY <1>1, <1>2

-----------------------------------------------------------------------------
\* One lemma per action.

LEMMA JoinInit ==
  ASSUME WindowJoinAssumption, Init
  PROVE  JoinInv
<1>1. NoEntries \in Payloads /\ NoHeader \in Headers
  BY PayloadPair DEF Headers
<1>2. JoinType
  BY <1>1 DEF Init, JoinType
<1>3. CleanIsSaved /\ IdleInv
  BY DEF Init, CleanIsSaved, IdleInv
<1>4. \A w \in Windows : header[w] = NoHeader /\ payload[w] = NoEntries
  BY DEF Init
<1>5. \A g \in Groups : timers[g] = TimersOf(header, g)
  BY <1>4 DEF Init, TimersOf
<1>6. LiveInv
  BY <1>4, <1>5 DEF Init, LiveInv, PendingInv, WindowIndexed
<1>7. Indexed(header, payload, timers)
  BY <1>4, <1>5 DEF Indexed, TimersOf
<1>8. SavedInv
  <2>1. /\ saved.waiting = waiting /\ saved.header = header /\ saved.payload = payload
        /\ saved.blob = blob /\ blob = timers
    BY DEF Init
  <2> QED
    BY <1>2, <1>7, <2>1 DEF SavedInv, JoinType
<1> QED
  BY <1>2, <1>3, <1>6, <1>8 DEF JoinInv

LEMMA IngestStep ==
  ASSUME WindowJoinAssumption, JoinInv, NEW side \in 1..2, NEW S \in SUBSET waiting, Ingest(S, side)
  PROVE  JoinInv'
<1> DEFINE Of(w) == Batch({r \in Timely(S) : WindowOf(r) = w})
           Counts(w) == IF header[w] = NoHeader THEN <<0, 0>> ELSE header[w]
           W == WindowsOf(S)
<1>1. /\ JoinType /\ CleanIsSaved /\ SavedInv /\ invocation = "Idle" /\ pending = NoPending
      /\ S \in SUBSET Records
  BY Zenon DEF JoinInv, IdleInv, JoinType, Ingest, RequireIdle
<1>2. /\ \A g \in Groups : timers[g] = TimersOf(header, g)
      /\ \A w \in Windows : WindowIndexed(header, payload, w)
  BY <1>1, WindowFacts, Zenon DEF JoinInv, LiveInv, NoPending
<1>3. /\ payload' = [w \in Windows |->
           IF w \in W THEN [payload[w] EXCEPT ![side] = @ \o Entries(Counts(w)[side], Of(w))]
           ELSE payload[w]]
      /\ header' = [w \in Windows |->
           IF w \in W THEN [Counts(w) EXCEPT ![side] = @ + Len(Of(w))] ELSE header[w]]
      /\ timers' = Register(timers, W) /\ dirty' = dirty \cup Fresh(W)
      /\ waiting' = waiting \ S
      /\ UNCHANGED <<blob, draining, pending, closingFailed, invocation, saved>>
  BY DEF Ingest, drain
<1>4. W \in SUBSET Windows
  BY <1>1, WindowsOfBatch
<1>5. ASSUME NEW w \in Windows
      PROVE  Of(w) \in Seq(Delivered) /\ Len(Of(w)) \in Nat
  <2>1. {r \in Timely(S) : WindowOf(r) = w} \in SUBSET Records
    BY <1>1 DEF Timely
  <2> QED
    BY <2>1, BatchIsSequence
<1>6. ASSUME NEW w \in Windows
      PROVE  /\ Counts(w) \in Nat \X Nat
             /\ \A other \in 1..2 : Spans(payload[w][other], 0, Counts(w)[other])
  BY <1>1, <1>2, Counted
<1> HIDE DEF Of, Counts, W
<1>7. ASSUME NEW w \in W
      PROVE  /\ header'[w] \in Nat \X Nat /\ payload'[w] \in Payloads
             /\ \A other \in 1..2 : Spans(payload'[w][other], 0, header'[w][other])
  <2> DEFINE c == Counts(w)[side]
             new == Entries(c, Of(w))
  <2>1. w \in Windows /\ payload[w] \in Seq(Entry) \X Seq(Entry)
    BY <1>1, <1>4 DEF JoinType, Payloads
  <2>2. /\ c \in Nat /\ c + Len(Of(w)) \in Nat /\ payload[w][side] \in Seq(Entry)
        /\ Spans(payload[w][side], 0, c)
    BY <1>5, <1>6, <2>1
  <2>3. new \in Seq(Entry) /\ Spans(new, c, c + Len(Of(w)))
    BY <1>5, <2>1, <2>2, EntriesSpan, Zenon
  <2> HIDE DEF c, new
  <2>4. /\ payload[w][side] \o new \in Seq(Entry)
        /\ Spans(payload[w][side] \o new, 0, c + Len(Of(w)))
    BY <2>2, <2>3, SpansJoin
  <2>5. /\ payload'[w] = [payload[w] EXCEPT ![side] = payload[w][side] \o new]
        /\ header'[w] = [Counts(w) EXCEPT ![side] = c + Len(Of(w))]
    BY <1>3, <2>1, Zenon DEF c, new
  <2>6. /\ payload'[w] \in Payloads /\ payload'[w][side] = payload[w][side] \o new
        /\ \A other \in 1..2 : other # side => payload'[w][other] = payload[w][other]
    <3> DEFINE v == payload[w][side] \o new
               A == Seq(Entry)
    <3>1. payload[w] \in A \X A /\ v \in A
      BY <2>1, <2>4
    <3> HIDE DEF v, A
    <3>2. /\ [payload[w] EXCEPT ![side] = v] \in A \X A
          /\ [payload[w] EXCEPT ![side] = v][side] = v
          /\ \A other \in 1..2 : other # side => [payload[w] EXCEPT ![side] = v][other] = payload[w][other]
      BY <3>1, PairExcept
    <3>3. payload'[w] = [payload[w] EXCEPT ![side] = v]
      BY <2>5 DEF v
    <3> QED
      BY <3>2, <3>3 DEF Payloads, A, v
  <2>7. /\ header'[w] \in Nat \X Nat /\ header'[w][side] = c + Len(Of(w))
        /\ \A other \in 1..2 : other # side => header'[w][other] = Counts(w)[other]
    BY <1>6, <2>1, <2>2, <2>5, PairExcept
  <2> QED
    <3>1. ASSUME NEW other \in 1..2 PROVE Spans(payload'[w][other], 0, header'[w][other])
      <4>1. CASE other = side
        BY <2>4, <2>6, <2>7, <4>1, Zenon
      <4>2. CASE other # side
        BY <1>6, <2>1, <2>6, <2>7, <4>2, Zenon
      <4> QED
        BY <4>1, <4>2, Zenon
    <3> QED
      BY <2>6, <2>7, <3>1, Zenon
<1>8. ASSUME NEW w \in Windows, w \notin W
      PROVE  header'[w] = header[w] /\ payload'[w] = payload[w]
  BY <1>3, <1>8
<1>9. ASSUME NEW w \in W PROVE header'[w] # NoHeader
  BY <1>7 DEF NoHeader
<1>10. header' \in [Windows -> Headers] /\ payload' \in [Windows -> Payloads]
  <2>1. \A w \in Windows : header'[w] \in Headers /\ payload'[w] \in Payloads
    BY <1>1, <1>7, <1>8 DEF JoinType, Headers
  <2>2. DOMAIN header' = Windows /\ DOMAIN payload' = Windows
    BY <1>3
  <2>3. header' = [w \in Windows |-> header'[w]] /\ payload' = [w \in Windows |-> payload'[w]]
    BY <1>3
  <2> QED
    BY <2>1, <2>3
<1>11. JoinType'
  BY <1>1, <1>3, <1>4, <1>10, Registered, Zenon DEF JoinType
<1>12. CleanIsSaved'
  BY <1>1, <1>3, <1>4, Registered, Zenon DEF CleanIsSaved
<1>13. ASSUME NEW g \in Groups PROVE timers'[g] = TimersOf(header', g)
  <2>1. timers'[g] = timers[g] \cup {Timer(w) : w \in {v \in W : GroupOf(v) = g}}
    BY <1>3 DEF Register
  <2>2. {v \in Windows : GroupOf(v) = g /\ header'[v] # NoHeader}
        = {v \in Windows : GroupOf(v) = g /\ header[v] # NoHeader} \cup {v \in W : GroupOf(v) = g}
    BY <1>4, <1>8, <1>9
  <2> QED
    BY <1>2, <2>1, <2>2 DEF TimersOf
<1>14. ASSUME NEW w \in Windows PROVE WindowIndexed(header', payload', w)
  <2>1. CASE w \in W
    BY <1>7, <1>9, <2>1 DEF WindowIndexed
  <2>2. CASE w \notin W
    BY <1>2, <1>8, <2>2 DEF WindowIndexed
  <2> QED
    BY <2>1, <2>2
<1>15. LiveInv'
  BY <1>1, <1>3, <1>13, <1>14, Zenon DEF LiveInv, PendingInv
<1>16. SavedInv' /\ IdleInv'
  BY <1>1, <1>3, Zenon DEF SavedInv, IdleInv
<1> QED
  BY <1>11, <1>12, <1>15, <1>16 DEF JoinInv

LEMMA IngestFailsStep ==
  ASSUME WindowJoinAssumption, JoinInv, NEW side \in 1..2, NEW S \in SUBSET waiting,
         IngestFails(S, side)
  PROVE  JoinInv'
<1>1. JoinType /\ CleanIsSaved /\ SavedInv /\ S \in SUBSET Records
  BY DEF JoinInv, JoinType
<1>2. PICK first \in {{}} \cup {{q \in S : q.id <= r.id} : r \in S} :
        /\ timers' = Register(timers, WindowsOf(first))
        /\ dirty' = dirty \cup Fresh(WindowsOf(first))
  BY DEF IngestFails
<1>3. first \in SUBSET Records
  BY <1>1, <1>2
<1>4. WindowsOf(first) \in SUBSET Windows
  BY <1>3, WindowsOfBatch
<1>5. /\ invocation' = "Failed"
      /\ UNCHANGED <<waiting, header, payload, blob, saved>>
  BY Zenon DEF IngestFails, store
<1>6. JoinType' /\ CleanIsSaved'
  BY <1>1, <1>2, <1>4, <1>5, Registered DEF JoinType, CleanIsSaved
<1> QED
  BY <1>1, <1>5, <1>6 DEF JoinInv, SavedInv, IdleInv, LiveInv

LEMMA BeginWatermarkStep ==
  ASSUME JoinInv, NEW time, BeginWatermark(time)
  PROVE  JoinInv'
<1>1. /\ UNCHANGED <<waiting, header, payload, blob, timers, dirty, pending, saved>>
      /\ invocation' = "Active" /\ invocation = "Idle"
  BY Zenon DEF BeginWatermark, store, RequireIdle
<1>2. JoinType' /\ CleanIsSaved' /\ SavedInv' /\ IdleInv'
  BY <1>1, Zenon DEF JoinInv, JoinType, CleanIsSaved, SavedInv, IdleInv
<1>3. LiveInv'
  BY <1>1 DEF JoinInv, LiveInv, PendingInv, PageInv, WindowIndexed
<1> QED
  BY <1>2, <1>3 DEF JoinInv

\* A page is a prefix of the left side; one that exhausted it is all of it.
LEMMA PageIsPrefix ==
  ASSUME NEW entries \in Seq(Entry)
  PROVE  PageInv(PageOf(entries), entries)
<1> DEFINE Total(n) == Len(RowsOf(SubSeq(entries, 1, n)))
           N == {0} \cup {i \in 1..Len(entries) : i = 1 \/ Total(i) <= PageRows}
           n == Max(N)
           full == n = Len(entries) /\ Total(n) < PageRows
<1>1. Len(entries) \in Nat /\ N \in SUBSET (0..Len(entries)) /\ N # {}
  OBVIOUS
<1>2. n \in 0..Len(entries)
  <2> HIDE DEF N
  <2> QED
    BY <1>1, GreatestOf, Zenon
<1>3. PageOf(entries) = [entries |-> SubSeq(entries, 1, n), exhausted |-> full, emitted |-> FALSE]
  BY DEF PageOf
<1>4. full \in BOOLEAN /\ (full => n = Len(entries))
  BY Zenon
<1> HIDE DEF full, n
<1>5. SubSeq(entries, 1, n) \in Seq(Entry) /\ Len(SubSeq(entries, 1, n)) = n
  BY <1>1, <1>2
<1>6. PageOf(entries) \in Page
  BY <1>3, <1>4, <1>5 DEF Page
<1> QED
  BY <1>1, <1>2, <1>3, <1>4, <1>5, <1>6 DEF PageInv

LEMMA LoadClosedWindowStep ==
  ASSUME WindowJoinAssumption, JoinInv, LoadClosedWindow
  PROVE  JoinInv'
<1> DEFINE p == IF pending = NoPending THEN Opened ELSE pending
           page == PageOf(payload[p.window][1])
<1>1. /\ UNCHANGED <<waiting, header, payload, blob, timers, dirty, invocation, saved>>
      /\ invocation = "Active" /\ p.counts # NoHeader
      /\ pending' = [p EXCEPT !.page = page]
      /\ pending = NoPending => DueGroups(draining) # {}
  BY DEF LoadClosedWindow, store
<1>2. JoinType /\ LiveInv /\ PendingInv
  BY <1>1 DEF JoinInv, LiveInv
<1>3. /\ p = [window |-> p.window, counts |-> p.counts, cursor |-> p.cursor,
              page |-> p.page, right |-> p.right]
      /\ p.window \in Windows /\ header[p.window] # NoHeader
      /\ pending # NoPending => p.window = pending.window
  <2>1. CASE pending = NoPending
    <3> DEFINE w == NextDue(draining).window
    <3>1. w \in Windows
      BY <1>1, <1>2, <2>1, NextIsWindow, Zenon
    <3>2. p = [window |-> w, counts |-> header[w], cursor |-> 0, page |-> NoPage,
               right |-> payload[w][2]]
      BY <2>1 DEF Opened
    <3> HIDE DEF w, p
    <3> QED
      BY <1>1, <2>1, <3>1, <3>2
  <2>2. CASE pending # NoPending
    BY <1>2, <2>2 DEF PendingInv
  <2> QED
    BY <2>1, <2>2
<1>4. PageInv(page, payload[p.window][1])
  <2>1. payload[p.window][1] \in Seq(Entry)
    BY <1>2, <1>3 DEF JoinType, Payloads
  <2> QED
    BY <2>1, PageIsPrefix
<1> HIDE DEF p, page
<1>5. pending' = [window |-> p.window, counts |-> p.counts, cursor |-> p.cursor,
                  page |-> page, right |-> p.right]
  BY <1>1, <1>3
<1>6. pending'.window = p.window /\ pending'.page = page
  BY <1>5
<1>7. PendingInv'
  BY <1>1, <1>3, <1>4, <1>5, <1>6 DEF PendingInv
<1>8. ASSUME NEW w \in Windows, w # p.window PROVE WindowIndexed(header, payload, w)
  <2>1. CASE pending = NoPending
    BY <1>1, <1>2, <2>1, WindowFacts DEF LiveInv, NoPending
  <2>2. CASE pending # NoPending
    BY <1>1, <1>2, <1>3, <1>8, <2>2 DEF LiveInv
  <2> QED
    BY <2>1, <2>2
<1>9. LiveInv'
  BY <1>1, <1>2, <1>6, <1>7, <1>8 DEF LiveInv
<1>10. JoinType' /\ CleanIsSaved' /\ SavedInv' /\ IdleInv'
  BY <1>1 DEF JoinInv, JoinType, CleanIsSaved, SavedInv, IdleInv
<1> QED
  BY <1>9, <1>10 DEF JoinInv

LEMMA EmitPageStep ==
  ASSUME JoinInv, EmitPage
  PROVE  JoinInv'
<1> DEFINE page == [pending.page EXCEPT !.emitted = TRUE]
<1>1. /\ UNCHANGED <<waiting, header, payload, blob, timers, dirty, invocation, saved>>
      /\ invocation = "Active" /\ pending # NoPending /\ pending.page # NoPage
      /\ pending' = [pending EXCEPT !.page = page]
  BY DEF EmitPage, store
<1>2. LiveInv /\ PendingInv
  BY <1>1 DEF JoinInv, LiveInv
<1>3. /\ pending = [window |-> pending.window, counts |-> pending.counts, cursor |-> pending.cursor,
                    page |-> pending.page, right |-> pending.right]
      /\ pending.window \in Windows /\ header[pending.window] # NoHeader
      /\ PageInv(pending.page, payload[pending.window][1])
  BY <1>1, <1>2 DEF PendingInv
<1>4. PageInv(page, payload[pending.window][1])
  <2>1. pending.page \in Page
    BY <1>1, <1>3 DEF PageInv
  <2>2. page \in Page /\ page.entries = pending.page.entries
        /\ page.exhausted = pending.page.exhausted
    BY <2>1, Zenon DEF Page
  <2> HIDE DEF page
  <2> QED
    BY <1>1, <1>3, <2>2 DEF PageInv
<1> HIDE DEF page
<1>5. pending' = [window |-> pending.window, counts |-> pending.counts, cursor |-> pending.cursor,
                  page |-> page, right |-> pending.right]
  BY <1>1, <1>3
<1>6. pending'.window = pending.window /\ pending'.page = page
  BY <1>5
<1>7. LiveInv'
  BY <1>1, <1>2, <1>3, <1>4, <1>5, <1>6 DEF LiveInv, PendingInv
<1>8. JoinType' /\ CleanIsSaved' /\ SavedInv' /\ IdleInv'
  BY <1>1 DEF JoinInv, JoinType, CleanIsSaved, SavedInv, IdleInv
<1> QED
  BY <1>7, <1>8 DEF JoinInv

\* The pending window when a page has been emitted.
LEMMA Emitted ==
  ASSUME JoinInv, PageEmitted
  PROVE  /\ JoinType /\ LiveInv /\ invocation = "Active" /\ pending # NoPending
         /\ pending = [window |-> pending.window, counts |-> pending.counts,
                       cursor |-> pending.cursor, page |-> pending.page, right |-> pending.right]
         /\ pending.window \in Windows /\ header[pending.window] # NoHeader
         /\ payload[pending.window][2] \in Seq(Entry)
         /\ LeftRest \in Seq(Entry)
         /\ pending.page.exhausted => LeftRest = <<>>
<1>1. invocation = "Active" /\ pending # NoPending /\ pending.page # NoPage
  BY DEF PageEmitted
<1>2. JoinType /\ LiveInv /\ PendingInv
  BY <1>1 DEF JoinInv, LiveInv
<1>3. /\ pending.window \in Windows /\ header[pending.window] # NoHeader
      /\ PageInv(pending.page, payload[pending.window][1])
  BY <1>1, <1>2 DEF PendingInv
<1> DEFINE left == payload[pending.window][1]
           n == Len(pending.page.entries)
<1>4. left \in Seq(Entry) /\ payload[pending.window][2] \in Seq(Entry)
  BY <1>2, <1>3 DEF JoinType, Payloads
<1>5. n \in Nat /\ n <= Len(left) /\ (pending.page.exhausted => n = Len(left))
  BY <1>1, <1>3 DEF PageInv, Page
<1>6. LeftRest = SubSeq(left, n + 1, Len(left))
  BY DEF LeftRest
<1> HIDE DEF left, n
<1>7. LeftRest \in Seq(Entry) /\ (pending.page.exhausted => LeftRest = <<>>)
  BY <1>4, <1>5, <1>6
<1> QED
  BY <1>1, <1>2, <1>3, <1>4, <1>7 DEF PendingInv

LEMMA FinishPageStep ==
  ASSUME JoinInv, FinishPage
  PROVE  JoinInv'
<1> DEFINE w == pending.window
<1>1. /\ UNCHANGED <<waiting, header, blob, timers, dirty, invocation, saved>>
      /\ PageEmitted
      /\ payload' = [payload EXCEPT ![w] = <<LeftRest, payload[w][2]>>]
      /\ pending' = [pending EXCEPT !.cursor = NextCursor, !.page = NoPage]
  BY DEF FinishPage
<1>2. /\ JoinType /\ LiveInv /\ invocation = "Active" /\ pending # NoPending
      /\ pending = [window |-> w, counts |-> pending.counts,
                    cursor |-> pending.cursor, page |-> pending.page, right |-> pending.right]
      /\ w \in Windows /\ header[w] # NoHeader
      /\ payload[w][2] \in Seq(Entry) /\ LeftRest \in Seq(Entry)
  BY <1>1, Emitted
<1> HIDE DEF w
<1>3. pending' = [window |-> w, counts |-> pending.counts, cursor |-> NextCursor,
                  page |-> NoPage, right |-> pending.right]
  <2>1. DOMAIN pending' = {"window", "counts", "cursor", "page", "right"}
    BY <1>1, <1>2
  <2>2. /\ pending'.window = w /\ pending'.counts = pending.counts /\ pending'.cursor = NextCursor
        /\ pending'.page = NoPage /\ pending'.right = pending.right
    BY <1>1, <1>2
  <2>3. pending' = [f \in {"window", "counts", "cursor", "page", "right"} |-> pending'[f]]
    BY <1>1, <1>2, <2>1, Zenon
  <2> QED
    BY <2>2, <2>3
<1>4. pending'.window = w /\ pending'.page = NoPage
  BY <1>3
<1>5. payload' \in [Windows -> Payloads] /\ \A v \in Windows : v # w => payload'[v] = payload[v]
  BY <1>1, <1>2 DEF JoinType, Payloads
<1>6. JoinType'
  BY <1>1, <1>2, <1>5 DEF JoinType
<1>7. PendingInv'
  BY <1>1, <1>2, <1>3, <1>4, Zenon DEF PendingInv, PageInv
<1>8. ASSUME NEW v \in Windows, v # w PROVE WindowIndexed(header', payload', v)
  <2>1. WindowIndexed(header, payload, v)
    BY <1>2, <1>8 DEF LiveInv, w
  <2> QED
    BY <1>1, <1>5, <1>8, <2>1 DEF WindowIndexed
<1>9. LiveInv'
  BY <1>1, <1>2, <1>4, <1>7, <1>8, Zenon DEF LiveInv
<1>10. CleanIsSaved' /\ SavedInv' /\ IdleInv'
  BY <1>1, <1>2 DEF JoinInv, CleanIsSaved, SavedInv, IdleInv
<1> QED
  BY <1>6, <1>9, <1>10 DEF JoinInv

\* Rows, header and timer of a window go together, and its key group is marked.
LEMMA FinishClosedWindowStep ==
  ASSUME WindowJoinAssumption, JoinInv, FinishClosedWindow
  PROVE  JoinInv'
<1> DEFINE w == pending.window
           g == GroupOf(w)
<1>1. /\ UNCHANGED <<waiting, blob, invocation, saved>>
      /\ PageEmitted /\ Finished /\ TailIsEmpty
      /\ payload' = [payload EXCEPT ![w] = <<LeftRest, <<>>>>]
      /\ header' = [header EXCEPT ![w] = NoHeader]
      /\ timers' = [timers EXCEPT ![g] = timers[g] \ {Timer(w)}]
      /\ dirty' = dirty \cup {g}
      /\ pending' = NoPending
  BY DEF FinishClosedWindow
<1>2. /\ JoinType /\ LiveInv /\ invocation = "Active"
      /\ w \in Windows /\ (pending.page.exhausted => LeftRest = <<>>)
  BY <1>1, Emitted
<1>3. LeftRest = <<>>
  BY <1>1, <1>2 DEF TailIsEmpty
<1>4. g \in Groups /\ \A v \in Windows : Timer(v) = Timer(w) => v = w
  BY <1>2, WindowFacts
<1> HIDE DEF w, g
<1>5. /\ payload'[w] = NoEntries /\ header'[w] = NoHeader
      /\ \A v \in Windows : v # w => payload'[v] = payload[v] /\ header'[v] = header[v]
  BY <1>1, <1>2, <1>3 DEF JoinType, NoEntries
<1>6. payload' \in [Windows -> Payloads] /\ header' \in [Windows -> Headers]
  <2>1. <<<<>>, <<>>>> \in Payloads
    BY PayloadPair, Zenon DEF NoEntries
  <2> QED
    BY <1>1, <1>2, <1>3, <2>1 DEF JoinType, Headers
<1>7. JoinType'
  BY <1>1, <1>2, <1>4, <1>6, Zenon DEF JoinType
<1>8. CleanIsSaved'
  BY <1>1, <1>2, <1>4 DEF JoinInv, CleanIsSaved, JoinType
<1>9. ASSUME NEW h \in Groups PROVE timers'[h] = TimersOf(header', h)
  <2>1. timers[h] = TimersOf(header, h)
    BY <1>2 DEF LiveInv
  <2>2. CASE h = g
    <3>1. timers'[h] = timers[h] \ {Timer(w)}
      BY <1>1, <1>2, <1>4, <2>2 DEF JoinType
    <3>2. \A t : t \in TimersOf(header', h) <=> t \in TimersOf(header, h) /\ t # Timer(w)
      BY <1>4, <1>5 DEF TimersOf
    <3> QED
      BY <2>1, <3>1, <3>2
  <2>3. CASE h # g
    <3>1. timers'[h] = timers[h]
      BY <1>1, <1>2, <1>4, <2>3 DEF JoinType
    <3>2. {v \in Windows : GroupOf(v) = h /\ header'[v] # NoHeader}
          = {v \in Windows : GroupOf(v) = h /\ header[v] # NoHeader}
      BY <1>5, <2>3 DEF g
    <3> QED
      BY <2>1, <3>1, <3>2 DEF TimersOf
  <2> QED
    BY <2>2, <2>3
<1>10. ASSUME NEW v \in Windows PROVE WindowIndexed(header', payload', v)
  <2>1. CASE v = w
    BY <1>5, <2>1 DEF WindowIndexed
  <2>2. CASE v # w
    <3>1. WindowIndexed(header, payload, v)
      BY <1>2, <2>2 DEF LiveInv, w
    <3> QED
      BY <1>5, <2>2, <3>1 DEF WindowIndexed
  <2> QED
    BY <2>1, <2>2
<1>11. LiveInv'
  <2>1. PendingInv'
    BY <1>1 DEF PendingInv
  <2>2. /\ \A h \in Groups : timers'[h] = TimersOf(header', h)
        /\ \A v \in Windows : WindowIndexed(header', payload', v)
    BY <1>9, <1>10, Zenon
  <2> QED
    BY <2>1, <2>2 DEF LiveInv
<1>12. SavedInv' /\ IdleInv'
  BY <1>1, Zenon DEF JoinInv, SavedInv, IdleInv
<1> QED
  BY <1>7, <1>8, <1>11, <1>12 DEF JoinInv

LEMMA EndDrainStep ==
  ASSUME JoinInv, EndDrain
  PROVE  JoinInv'
<1>1. /\ UNCHANGED <<waiting, header, payload, blob, timers, dirty, pending, saved>>
      /\ invocation = "Active" /\ pending = NoPending
  BY DEF EndDrain, store
<1> QED
  BY <1>1 DEF JoinInv, JoinType, CleanIsSaved, SavedInv, IdleInv, LiveInv, PendingInv, WindowIndexed

\* After a failure only the types and the timers that a checkpoint would not have
\* written again matter, until the restart.
LEMMA FailureSteps ==
  ASSUME JoinInv, CancelDrain \/ LoadFails \/ FinishFails
  PROVE  JoinInv'
<1>1. /\ UNCHANGED <<waiting, blob, timers, dirty, saved>>
      /\ invocation' = "Failed"
  BY DEF CancelDrain, LoadFails, FinishFails, store
<1>2. header' \in [Windows -> Headers] /\ payload' \in [Windows -> Payloads]
  <2>1. CASE CancelDrain \/ LoadFails
    BY <2>1 DEF CancelDrain, LoadFails, store, JoinInv, JoinType
  <2>2. CASE FinishFails
    <3> DEFINE w == pending.window
    <3>1. PageEmitted
      BY <2>2 DEF FinishFails
    <3>2. /\ JoinType /\ w \in Windows
          /\ payload[w][2] \in Seq(Entry) /\ LeftRest \in Seq(Entry)
      BY <3>1, Emitted, Zenon
    <3>3. /\ \/ payload' = payload
             \/ payload' = [payload EXCEPT ![w] = <<LeftRest, payload[w][2]>>]
             \/ payload' = [payload EXCEPT ![w] = <<LeftRest, <<>>>>]
          /\ header' = header \/ header' = [header EXCEPT ![w] = NoHeader]
      BY <2>2 DEF FinishFails
    <3> HIDE DEF w
    <3>4. <<LeftRest, payload[w][2]>> \in Payloads /\ <<LeftRest, <<>>>> \in Payloads
      BY <3>2, PayloadPair, Zenon
    <3>5. NoHeader \in Headers
      BY DEF Headers
    <3>6. payload \in [Windows -> Payloads] /\ header \in [Windows -> Headers]
      BY <3>2 DEF JoinType
    <3>7. payload' \in [Windows -> Payloads]
      BY <3>3, <3>4, <3>6
    <3>8. header' \in [Windows -> Headers]
      BY <3>3, <3>5, <3>6
    <3> QED
      BY <3>7, <3>8
  <2> QED
    BY <2>1, <2>2
<1> QED
  BY <1>1, <1>2, Zenon DEF JoinInv, JoinType, CleanIsSaved, SavedInv, IdleInv, LiveInv

\* The timers written are those in memory: of the dirty key groups because they
\* are written now, of the others because they are as they were.
LEMMA CheckpointStep ==
  ASSUME WindowJoinAssumption, JoinInv, Checkpoint
  PROVE  JoinInv'
<1>1. /\ UNCHANGED <<waiting, header, payload, timers, invocation, pending>>
      /\ blob' = [g \in Groups |-> IF g \in dirty THEN timers[g] ELSE blob[g]]
      /\ saved' = [waiting |-> waiting, header |-> header, payload |-> payload,
                   blob |-> blob', output |-> output]
      /\ invocation = "Idle"
  BY Zenon DEF Checkpoint, drain, RequireIdle
<1>2. JoinType /\ CleanIsSaved /\ LiveInv /\ pending = NoPending
  BY <1>1 DEF JoinInv, IdleInv
<1>3. blob' = timers
  <2>1. \A g \in Groups : blob'[g] = timers[g]
    BY <1>1, <1>2 DEF CleanIsSaved
  <2>2. timers = [g \in Groups |-> timers[g]]
    BY <1>2, Zenon DEF JoinType
  <2>3. blob' = [g \in Groups |-> blob'[g]]
    BY <1>1
  <2> QED
    BY <2>1, <2>2, <2>3, Zenon
<1>4. /\ \A g \in Groups : timers[g] = TimersOf(header, g)
      /\ \A w \in Windows : WindowIndexed(header, payload, w)
  BY <1>1, <1>2, WindowFacts, Zenon DEF LiveInv, NoPending
<1>5. Indexed(header, payload, timers)
  BY <1>4, Zenon DEF Indexed, TimersOf, WindowIndexed, Spans
<1>6. SavedInv'
  <2>1. /\ saved'.waiting = waiting /\ saved'.header = header /\ saved'.payload = payload
        /\ saved'.blob = timers
    BY <1>1, <1>3, Zenon
  <2> QED
    BY <1>2, <1>5, <2>1 DEF SavedInv, JoinType
<1>7. JoinType' /\ CleanIsSaved'
  BY <1>1, <1>2, <1>3, Zenon DEF JoinType, CleanIsSaved
<1>8. IdleInv' /\ LiveInv'
  BY <1>1, <1>2, <1>4 DEF IdleInv, LiveInv, PendingInv
<1> QED
  BY <1>6, <1>7, <1>8, Zenon DEF JoinInv

LEMMA RestoreStep ==
  ASSUME JoinInv, Restore
  PROVE  JoinInv'
<1>1. /\ waiting' = saved.waiting /\ header' = saved.header /\ payload' = saved.payload
      /\ blob' = saved.blob /\ timers' = saved.blob /\ saved' = saved
      /\ pending' = NoPending /\ invocation' = "Idle"
  BY DEF Restore
<1>2. SavedInv
  BY Zenon DEF JoinInv
<1>3. JoinType' /\ CleanIsSaved' /\ SavedInv' /\ IdleInv'
  BY <1>1, <1>2, Zenon DEF JoinType, CleanIsSaved, SavedInv, IdleInv
<1>4. /\ \A g \in Groups : timers'[g] = TimersOf(header', g)
      /\ \A w \in Windows : WindowIndexed(header', payload', w)
  BY <1>1, <1>2 DEF SavedInv, Indexed, TimersOf, WindowIndexed, Spans
<1>5. LiveInv'
  BY <1>1, <1>4 DEF LiveInv, PendingInv
<1> QED
  BY <1>3, <1>5 DEF JoinInv

LEMMA JoinStep ==
  ASSUME WindowJoinAssumption, JoinInv, [Next]_vars
  PROVE  JoinInv'
<1>1. CASE UNCHANGED vars
  <2>1. UNCHANGED <<waiting, header, payload, blob, timers, dirty, pending, invocation, saved>>
    BY <1>1 DEF vars, store, drain
  <2> QED
    BY <2>1 DEF JoinInv, JoinType, CleanIsSaved, SavedInv, IdleInv, LiveInv, PendingInv,
       WindowIndexed
<1> QED
  BY <1>1, IngestStep, IngestFailsStep, BeginWatermarkStep, LoadClosedWindowStep, EmitPageStep,
     FinishPageStep, FinishClosedWindowStep, EndDrainStep, FailureSteps, CheckpointStep,
     RestoreStep, Zenon DEF Next

-----------------------------------------------------------------------------

\* Between invocations, and in every checkpoint, a window of the join is indexed
\* exactly when its key group holds its timer, and the index counts its rows, for
\* any batches, watermarks, failures and restarts.
THEOREM IndexIsKept == ASSUME WindowJoinAssumption PROVE Spec => []TimersMatchIndex
<1>1. Init => JoinInv
  BY JoinInit
<1>2. JoinInv /\ [Next]_vars => JoinInv'
  BY JoinStep
<1>3. JoinInv => TimersMatchIndex
  <2> SUFFICES ASSUME JoinInv PROVE TimersMatchIndex
    OBVIOUS
  <2>1. ASSUME invocation = "Idle" PROVE Indexed(header, payload, timers)
    <3>1. /\ \A g \in Groups : timers[g] = TimersOf(header, g)
          /\ \A w \in Windows : WindowIndexed(header, payload, w)
      BY <2>1, WindowFacts DEF JoinInv, IdleInv, LiveInv, NoPending
    <3> QED
      BY <3>1, Zenon DEF Indexed, TimersOf, WindowIndexed, Spans
  <2> QED
    BY <2>1 DEF JoinInv, SavedInv, TimersMatchIndex
<1> QED
  BY <1>1, <1>2, <1>3, PTL DEF Spec

=============================================================================
