------------------------ MODULE ContinuousStepProofs ------------------------
(***************************************************************************)
(* Lemmas about one operation of ContinuousSession: what its loops leave   *)
(* of the list of active events, that the time window stays in the order   *)
(* of the event times and has exactly the events that are young enough,    *)
(* and that a state that is in order is so after the operation.            *)
(***************************************************************************)
EXTENDS ContinuousSession, FiniteSetTheorems, SequenceTheorems, WellFoundedInduction, TLAPS

-----------------------------------------------------------------------------
(* Induction and recursion, in the first-order form that the provers take *)

\* A nonempty set of numbers has a least one.
LEMMA NatMin ==
    ASSUME NEW T \in SUBSET Nat, T # {}
    PROVE  \E n \in T : \A m \in T : n <= m
<1> DEFINE R == {ss \in Nat \X Nat : ss[1] < ss[2]}
<1>1. IsWellFoundedOn(R, Nat)
  BY NatLessThanWellFounded, Zenon DEF OpToRel
<1>2. \E n \in T : \A m \in T : ~(<<m, n>> \in R)
  <2> HIDE DEF R
  <2> QED BY <1>1, WFMin, Zenon
<1>3. PICK n \in T : \A m \in T : ~(<<m, n>> \in R)
  BY <1>2, Zenon
<1>4. ASSUME NEW m \in T PROVE n <= m
  <2>1. m \in Nat /\ n \in Nat /\ ~(<<m, n>> \in R)
    BY <1>3, Zenon
  <2>2. ~(m < n)
    BY <2>1, Zenon
  <2> QED BY <2>1, <2>2
<1> QED BY <1>4, Zenon

\* Induction up to n.
LEMMA UpTo ==
    ASSUME NEW n \in Nat, NEW T, 0 \in T, \A i \in 1..n : i - 1 \in T => i \in T
    PROVE  \A i \in 0..n : i \in T
<1> DEFINE Bad == {i \in 0..n : i \notin T}
<1> SUFFICES ASSUME Bad # {} PROVE FALSE
  BY Zenon
<1>1. Bad \in SUBSET Nat
  OBVIOUS
<1>2. PICK i \in Bad : \A j \in Bad : i <= j
  <2> HIDE DEF Bad
  <2> QED BY <1>1, NatMin, Zenon
<1>3. i \in 1..n
  BY <1>2
<1>4. i - 1 \in T
  BY <1>2, <1>3
<1> QED BY <1>2, <1>3, <1>4, Zenon

\* f is the sequence of values of a loop of n rounds that starts with a.
IsLoop(f, n, S, a, G) ==
    f \in [0..n -> S] /\ f[0] = a /\ \A i \in 1..n : f[i] = G[i][f[i - 1]]

\* The sequence that a loop computes exists.
LEMMA LoopExists ==
    ASSUME NEW n \in Nat, NEW S, NEW a \in S, NEW G \in [1..n -> [S -> S]]
    PROVE  \E f : IsLoop(f, n, S, a, G)
<1> DEFINE Loop(f, m) == f[0] = a /\ \A i \in 1..m : f[i] = G[i][f[i - 1]]
<1> DEFINE Has(m) == \E f \in [0..m -> S] : Loop(f, m)
<1> DEFINE T == {m \in 0..n : Has(m)}
<1>1. Has(0)
  <2> DEFINE f == [i \in 0..0 |-> a]
  <2>1. f \in [0..0 -> S]
    BY Zenon
  <2>2. f[0] = a
    OBVIOUS
  <2>3. Loop(f, 0)
    BY <2>2
  <2> HIDE DEF f, Loop
  <2> QED BY <2>1, <2>3, Zenon
<1>2. ASSUME NEW m \in 1..n, Has(m - 1) PROVE Has(m)
  <2>1. PICK f \in [0..(m - 1) -> S] : Loop(f, m - 1)
    BY <1>2, Zenon
  <2>2. PICK last \in S : last = G[m][f[m - 1]]
    <3>1. f[m - 1] \in S
      BY <2>1
    <3> QED BY <3>1, Zenon
  <2> DEFINE g == [i \in 0..m |-> IF i = m THEN last ELSE f[i]]
  <2>3. g \in [0..m -> S]
    BY <2>1
  <2>4. g[m] = last /\ \A i \in 0..(m - 1) : g[i] = f[i]
    OBVIOUS
  <2>5. g[0] = a
    BY <2>1, <2>4
  <2> HIDE DEF g
  <2>6. ASSUME NEW i \in 1..m PROVE g[i] = G[i][g[i - 1]]
    <3>1. g[i - 1] = f[i - 1]
      BY <2>4
    <3>2. CASE i = m
      BY <2>2, <2>4, <3>1, <3>2, Zenon
    <3>3. CASE i # m
      <4>1. i \in 1..(m - 1) /\ i \in 0..(m - 1)
        BY <3>3
      <4>2. f[i] = G[i][f[i - 1]]
        BY <2>1, <4>1, Zenon
      <4> QED BY <2>4, <3>1, <4>1, <4>2, Zenon
    <3> QED BY <3>2, <3>3, Zenon
  <2>7. Loop(g, m)
    BY <2>5, <2>6, Zenon
  <2> HIDE DEF Loop
  <2> QED BY <2>3, <2>7, Zenon
<1> HIDE DEF Has
<1>3. 0 \in T /\ \A m \in 1..n : m - 1 \in T => m \in T
  BY <1>1, <1>2
<1>4. n \in T
  <2> HIDE DEF T
  <2>1. \A i \in 0..n : i \in T
    BY <1>3, UpTo, Zenon
  <2> QED BY <2>1
<1>5. PICK f \in [0..n -> S] : Loop(f, n)
  BY <1>4, Zenon DEF Has
<1>6. IsLoop(f, n, S, a, G)
  BY <1>5, Zenon DEF IsLoop
<1> QED BY <1>6, Zenon

-----------------------------------------------------------------------------
(* The window and the list of active events *)

Sorted(s) == \A i, j \in 1..Len(s) : i < j => s[i].time <= s[j].time

\* The event is inside the time window at watermark w.
Young(w, e) == w # NoTime => w - e.time <= WindowSize

\* The constants as the proofs use them.
LEMMA Constants ==
    /\ \A e \in Event : e.time \in Times /\ e.time \in Int /\ MinTime <= e.time /\ e.time <= MaxTime
    /\ \A e \in Event : e.id \in Ids
    /\ NoTime \notin Int /\ MinTime \in Int /\ MaxTime \in Int /\ WindowSize \in Nat
    /\ EventRetention \in Nat /\ DedupRetention \in Nat /\ Lateness \in Nat
    /\ \A w \in Marks : w \in Int /\ MinTime <= w /\ w <= MaxTime
BY ContinuousAssumption, Zenon DEF ContinuousAssumption, ValidConfig, Event

\* What the loop over active_events_ keeps.
LEMMA RetainedKeeps ==
    ASSUME NEW s \in Seq(Event), NEW b \in Int
    PROVE  /\ Retained(s, b) \in Seq(Event)
           /\ Len(Retained(s, b)) <= Len(s)
           /\ Range(Retained(s, b)) = {e \in Range(s) : e.time > b}
           /\ Sorted(s) => Sorted(Retained(s, b))
<1>1. PICK n \in Nat : n = Len(s)
  OBVIOUS
<1>2. \A i \in 1..n : s[i] \in Event /\ s[i].time \in Int
  BY <1>1, Constants
<1> DEFINE Round(i, r) == IF s[i].time <= b THEN r ELSE Append(r, s[i])
<1> DEFINE G == [i \in 1..n |-> [r \in Seq(Event) |-> Round(i, r)]]
<1>3. G \in [1..n -> [Seq(Event) -> Seq(Event)]]
  BY <1>2
<1>4. \A i \in 1..n, r \in Seq(Event) : G[i][r] = Round(i, r)
  BY Zenon
<1> HIDE DEF G
<1> DEFINE IsOut(f) == f = [i \in 0..Len(s) |-> IF i = 0 THEN <<>>
                                ELSE IF s[i].time <= b THEN f[i - 1] ELSE Append(f[i - 1], s[i])]
<1>5. \E f : IsOut(f)
  <2>1. PICK none \in Seq(Event) : none = <<>>
    <3>1. <<>> \in Seq(Event)
      OBVIOUS
    <3> QED BY <3>1, Zenon
  <2>2. PICK f : IsLoop(f, n, Seq(Event), none, G)
    <3>1. n \in Nat /\ none \in Seq(Event)
      BY <1>1, <2>1, Zenon
    <3> HIDE DEF Round, IsOut
    <3> QED BY <1>3, <3>1, LoopExists, Zenon
  <2>3. /\ f \in [0..n -> Seq(Event)]
        /\ f[0] = none /\ \A i \in 1..n : f[i] = G[i][f[i - 1]]
    BY <2>2, Zenon DEF IsLoop
  <2>4. ASSUME NEW i \in 1..n PROVE f[i] = Round(i, f[i - 1])
    <3>1. i - 1 \in 0..n
      OBVIOUS
    <3>2. f[i - 1] \in Seq(Event)
      BY <2>3, <3>1, Zenon
    <3> HIDE DEF Round
    <3> QED BY <1>4, <2>3, <3>2, Zenon
  <2>5. ASSUME NEW i \in 0..n
        PROVE  f[i] = IF i = 0 THEN <<>>
                      ELSE IF s[i].time <= b THEN f[i - 1] ELSE Append(f[i - 1], s[i])
    <3>1. CASE i = 0
      BY <2>1, <2>3, <3>1, Zenon
    <3>2. CASE i # 0
      <4>1. i \in 1..n
        BY <3>2
      <4> QED BY <2>4, <3>2, <4>1, Zenon
    <3> QED BY <3>1, <3>2, Zenon
  <2> QED BY <1>1, <2>3, <2>5, Zenon
<1>6. PICK f : IsOut(f) /\ Retained(s, b) = f[Len(s)]
  BY <1>5, Zenon DEF Retained
<1>7. f[0] = <<>> /\ \A i \in 1..n : f[i] = Round(i, f[i - 1])
  <2>1. \A i \in 0..n : f[i] = IF i = 0 THEN <<>>
                ELSE IF s[i].time <= b THEN f[i - 1] ELSE Append(f[i - 1], s[i])
    BY <1>1, <1>6, Zenon
  <2>2. 0 \in 0..n /\ \A i \in 1..n : i \in 0..n /\ i # 0
    OBVIOUS
  <2> QED BY <2>1, <2>2, Zenon
<1> HIDE DEF IsOut
<1> DEFINE Same(i, r) == \A e \in Event :
              (\E j \in 1..Len(r) : r[j] = e) <=> (\E j \in 1..i : s[j] = e /\ e.time > b)
<1> DEFINE Kept(i, r) ==
      r \in Seq(Event) /\ Len(r) <= i /\ Same(i, r) /\ (Sorted(s) => Sorted(r))
<1> DEFINE T == {i \in 0..n : Kept(i, f[i])}
<1>8. Kept(0, f[0])
  <2>1. Kept(0, <<>>)
    BY DEF Sorted
  <2> HIDE DEF Kept
  <2> QED BY <1>7, <2>1, Zenon
<1>9. ASSUME NEW i \in 1..n, Kept(i - 1, f[i - 1]) PROVE Kept(i, f[i])
  <2>1. PICK r \in Seq(Event) : r = f[i - 1]
    BY <1>9, Zenon
  <2>2. Len(r) <= i - 1 /\ Same(i - 1, r) /\ (Sorted(s) => Sorted(r))
    BY <1>9, <2>1, Zenon
  <2>3. CASE s[i].time <= b
    <3>1. f[i] = r
      BY <1>7, <2>1, <2>3, Zenon
    <3>2. Same(i, r)
      BY <1>2, <2>2, <2>3, SMTT(30)
    <3>3. Kept(i, r)
      BY <2>2, <3>2
    <3> HIDE DEF Kept
    <3> QED BY <3>1, <3>3, Zenon
  <2>4. CASE ~(s[i].time <= b)
    <3>1. PICK t : t = Append(r, s[i])
      BY Zenon
    <3>2. /\ t \in Seq(Event) /\ Len(t) = Len(r) + 1
          /\ \A j \in 1..Len(r) : t[j] = r[j]
          /\ t[Len(r) + 1] = s[i]
      BY <1>2, <3>1
    <3>3. ASSUME NEW e \in Event
          PROVE  (\E j \in 1..Len(t) : t[j] = e) <=> (\E j \in 1..i : s[j] = e /\ e.time > b)
      <4>1. ASSUME NEW j \in 1..Len(t), t[j] = e
            PROVE  e = s[i] \/ \E k \in 1..Len(r) : r[k] = e
        <5>1. j \in 1..Len(r) \/ j = Len(r) + 1
          BY <3>2
        <5> QED BY <3>2, <4>1, <5>1, Zenon
      <4>2. ASSUME e = s[i] \/ \E k \in 1..Len(r) : r[k] = e
            PROVE  \E j \in 1..Len(t) : t[j] = e
        <5>1. Len(r) + 1 \in 1..Len(t) /\ \A j \in 1..Len(r) : j \in 1..Len(t)
          BY <3>2
        <5> QED BY <3>2, <4>2, <5>1, Zenon
      <4>3. (\E j \in 1..i : s[j] = e /\ e.time > b)
              <=> (e = s[i] \/ \E j \in 1..(i - 1) : s[j] = e /\ e.time > b)
        BY <1>2, <2>4
      <4> QED BY <2>2, <4>1, <4>2, <4>3, Zenon
    <3>4. ASSUME Sorted(s) PROVE Sorted(t)
      <4>1. ASSUME NEW j \in 1..Len(r) PROVE r[j] \in Event /\ r[j].time <= s[i].time
        <5>1. r[j] \in Event
          OBVIOUS
        <5>2. PICK k \in 1..(i - 1) : s[k] = r[j]
          BY <2>2, <5>1, Zenon
        <5> QED BY <1>1, <3>4, <5>1, <5>2 DEF Sorted
      <4>2. ASSUME NEW j \in 1..Len(t), NEW k \in 1..Len(t), j < k
            PROVE  t[j].time <= t[k].time
        <5>1. j \in 1..Len(r) /\ t[j] = r[j]
          BY <3>2, <4>2
        <5>2. CASE k = Len(r) + 1
          BY <3>2, <4>1, <5>1, <5>2, Zenon
        <5>3. CASE k # Len(r) + 1
          <6>1. k \in 1..Len(r) /\ t[k] = r[k]
            BY <3>2, <5>3
          <6> QED BY <2>2, <3>4, <4>2, <5>1, <6>1, Zenon DEF Sorted
        <5> QED BY <5>2, <5>3, Zenon
      <4> QED BY <4>2, Zenon DEF Sorted
    <3>5. Same(i, t)
      BY <3>3, Zenon
    <3>6. Kept(i, t)
      <4> HIDE DEF Same
      <4> QED BY <2>2, <3>2, <3>4, <3>5
    <3>7. f[i] = t
      BY <1>7, <2>1, <2>4, <3>1, Zenon
    <3> HIDE DEF Kept
    <3> QED BY <3>6, <3>7, Zenon
  <2> QED BY <2>3, <2>4, Zenon
<1>10. Kept(n, f[n])
  <2> HIDE DEF Kept
  <2>1. 0 \in T /\ \A i \in 1..n : i - 1 \in T => i \in T
    BY <1>8, <1>9
  <2>2. n \in T
    <3> HIDE DEF T
    <3>1. n \in Nat /\ n \in 0..n
      BY <1>1
    <3>2. \A i \in 0..n : i \in T
      BY <2>1, <3>1, UpTo, Zenon
    <3> QED BY <3>1, <3>2, Zenon
  <2> QED BY <2>2, Zenon
<1>11. PICK r \in Seq(Event) : r = Retained(s, b)
  BY <1>1, <1>6, <1>10, Zenon
<1>12. Kept(n, r)
  <2> HIDE DEF Kept
  <2> QED BY <1>1, <1>6, <1>10, <1>11, Zenon
<1>13. ASSUME NEW e PROVE e \in Range(r) <=> e \in Range(s) /\ e.time > b
  <2>1. e \in Range(r) <=> \E j \in 1..Len(r) : r[j] = e
    BY DEF Range
  <2>2. e \in Range(s) <=> \E j \in 1..n : s[j] = e
    BY <1>1 DEF Range
  <2>3. (\E j \in 1..Len(r) : r[j] = e) \/ (\E j \in 1..n : s[j] = e) => e \in Event
    BY <1>2
  <2>4. Same(n, r)
    BY <1>12, Zenon
  <2> QED BY <2>1, <2>2, <2>3, <2>4, Zenon
<1> QED BY <1>1, <1>11, <1>12, <1>13, Zenon

\* The least element of a nonempty set of numbers.
LEMMA MinOf ==
    ASSUME NEW T \in SUBSET Nat, T # {}
    PROVE  Min(T) \in T /\ \A m \in T : Min(T) <= m
BY NatMin, Zenon DEF Min

\* What evaluate_expiration leaves in the window.
LEMMA UnexpiredKeeps ==
    ASSUME NEW win \in Seq(Event), Sorted(win), NEW w \in Int \cup {NoTime}
    PROVE  /\ Unexpired(win, w) \in Seq(Event)
           /\ Sorted(Unexpired(win, w))
           /\ Range(Unexpired(win, w)) = {e \in Range(win) : w # NoTime => w - e.time <= WindowSize}
<1>1. CASE w = NoTime
  <2>1. Unexpired(win, w) = win
    BY <1>1, Zenon DEF Unexpired
  <2> QED BY <1>1, <2>1, Zenon
<1>2. CASE w # NoTime
  <2>1. w \in Int /\ WindowSize \in Nat
    BY <1>2, Constants, Zenon
  <2>2. PICK n \in Nat : n = Len(win)
    OBVIOUS
  <2>3. \A i \in 1..n : win[i] \in Event /\ win[i].time \in Int
    BY <2>2, Constants
  <2> DEFINE T == {i \in 1..(Len(win) + 1) : i <= Len(win) => w - win[i].time <= WindowSize}
  <2>4. PICK first \in Nat : first = Min(T) /\ first \in T /\ \A i \in T : first <= i
    <3>1. T \in SUBSET Nat /\ Len(win) + 1 \in T
      OBVIOUS
    <3>2. Min(T) \in T /\ \A i \in T : Min(T) <= i
      <4> HIDE DEF T
      <4> QED BY <3>1, MinOf, Zenon
    <3> HIDE DEF T
    <3> QED BY <3>1, <3>2, Zenon
  <2>5. PICK r : r = SubSeq(win, first, n)
    BY Zenon
  <2>6. Unexpired(win, w) = r
    BY <1>2, <2>2, <2>4, <2>5, Zenon DEF Unexpired
  <2>7. /\ first \in 1..(n + 1)
        /\ first <= n => w - win[first].time <= WindowSize
        /\ \A i \in 1..n : i < first => ~(w - win[i].time <= WindowSize)
    <3>1. first \in 1..(n + 1) /\ (first <= n => w - win[first].time <= WindowSize)
      BY <2>2, <2>4, Zenon
    <3>2. ASSUME NEW i \in 1..n, i < first PROVE ~(w - win[i].time <= WindowSize)
      <4>1. i \notin T
        <5> HIDE DEF T
        <5> QED BY <2>4, <3>2
      <4>2. i \in 1..(Len(win) + 1)
        BY <2>2
      <4> QED BY <4>1, <4>2, Zenon
    <3> QED BY <3>1, <3>2, Zenon
  <2>8. /\ r \in Seq(Event) /\ Len(r) = n - first + 1
        /\ \A i \in 1..Len(r) : r[i] = win[first + i - 1] /\ first + i - 1 \in 1..n
    BY <2>2, <2>5, <2>7
  <2>9. Sorted(r)
    <3>1. ASSUME NEW i \in 1..Len(r), NEW j \in 1..Len(r), i < j
          PROVE  r[i].time <= r[j].time
      <4>1. first + i - 1 < first + j - 1
        BY <2>7, <2>8, <3>1
      <4> QED BY <2>2, <2>8, <4>1, Zenon DEF Sorted
    <3> QED BY <3>1, Zenon DEF Sorted
  <2>10. \A i \in 1..n : first <= i <=> w - win[i].time <= WindowSize
    <3> TAKE i \in 1..n
    <3>1. CASE first <= i
      <4>1. first \in 1..n /\ win[first].time <= win[i].time
        BY <2>2, <2>3, <2>7, <3>1 DEF Sorted
      <4> QED BY <2>1, <2>3, <2>7, <3>1, <4>1, SMTT(30)
    <3>2. CASE ~(first <= i)
      BY <2>7, <3>2
    <3> QED BY <3>1, <3>2, Zenon
  <2>11. ASSUME NEW e PROVE e \in Range(r) <=> e \in Range(win) /\ w - e.time <= WindowSize
    <3>1. e \in Range(r) <=> \E j \in 1..Len(r) : r[j] = e
      BY <2>8 DEF Range
    <3>2. e \in Range(win) <=> \E j \in 1..n : win[j] = e
      BY <2>2 DEF Range
    <3>3. ASSUME NEW j \in 1..n, first <= j PROVE \E i \in 1..Len(r) : r[i] = win[j]
      <4>1. j - first + 1 \in 1..Len(r) /\ first + (j - first + 1) - 1 = j
        BY <2>7, <2>8, <3>3
      <4>2. r[j - first + 1] = win[j]
        BY <2>8, <4>1, Zenon
      <4> QED BY <4>1, <4>2, Zenon
    <3>4. ASSUME NEW i \in 1..Len(r) PROVE \E j \in 1..n : first <= j /\ r[i] = win[j]
      <4>1. first <= first + i - 1
        BY <2>7, <2>8
      <4> QED BY <2>8, <4>1, Zenon
    <3>5. ASSUME e \in Range(r) PROVE e \in Range(win) /\ w - e.time <= WindowSize
      BY <2>10, <3>1, <3>2, <3>4, <3>5, Zenon
    <3>6. ASSUME e \in Range(win), w - e.time <= WindowSize PROVE e \in Range(r)
      BY <2>10, <3>1, <3>2, <3>3, <3>6, Zenon
    <3> QED BY <3>5, <3>6, Zenon
  <2> QED BY <1>2, <2>6, <2>8, <2>9, <2>11, Zenon
<1> QED BY <1>1, <1>2, Zenon

\* The place that upper_bound finds keeps the window in the order of the times.
LEMMA EnqueueKeeps ==
    ASSUME NEW win \in Seq(Event), Sorted(win), NEW e \in Event
    PROVE  /\ Enqueue(win, e) \in Seq(Event)
           /\ Sorted(Enqueue(win, e))
           /\ Range(Enqueue(win, e)) = Range(win) \cup {e}
<1>1. PICK n \in Nat : n = Len(win)
  OBVIOUS
<1>2. e.time \in Int /\ \A i \in 1..n : win[i] \in Event /\ win[i].time \in Int
  BY <1>1, Constants
<1> DEFINE T == {i \in 1..(Len(win) + 1) : i <= Len(win) => e.time < win[i].time}
<1>3. PICK p \in Nat : p = Min(T) /\ p \in T /\ \A i \in T : p <= i
  <2>1. T \in SUBSET Nat /\ Len(win) + 1 \in T
    OBVIOUS
  <2>2. Min(T) \in T /\ \A i \in T : Min(T) <= i
    <3> HIDE DEF T
    <3> QED BY <2>1, MinOf, Zenon
  <2> HIDE DEF T
  <2> QED BY <2>1, <2>2, Zenon
<1>4. /\ p \in 1..(n + 1)
      /\ p <= n => e.time < win[p].time
      /\ \A i \in 1..n : i < p => ~(e.time < win[i].time)
  <2>1. p \in 1..(n + 1) /\ (p <= n => e.time < win[p].time)
    BY <1>1, <1>3, Zenon
  <2>2. ASSUME NEW i \in 1..n, i < p PROVE ~(e.time < win[i].time)
    <3>1. i \notin T
      <4> HIDE DEF T
      <4> QED BY <1>3, <2>2
    <3>2. i \in 1..(Len(win) + 1)
      BY <1>1
    <3> QED BY <3>1, <3>2, Zenon
  <2> QED BY <2>1, <2>2, Zenon
<1>5. PICK r : r = SubSeq(win, 1, p - 1) \o <<e>> \o SubSeq(win, p, Len(win))
  BY Zenon
<1>6. Enqueue(win, e) = r
  BY <1>3, <1>5, Zenon DEF Enqueue
<1>7. /\ r \in Seq(Event) /\ Len(r) = n + 1
      /\ \A i \in 1..(p - 1) : r[i] = win[i]
      /\ r[p] = e
      /\ \A i \in (p + 1)..(n + 1) : r[i] = win[i - 1]
  <2> DEFINE x == SubSeq(win, 1, p - 1)
             y == SubSeq(win, p, Len(win))
             z == x \o <<e>>
  <2>1. x \in Seq(Event) /\ Len(x) = p - 1 /\ \A i \in 1..(p - 1) : x[i] = win[i]
    BY <1>1, <1>4
  <2>2. /\ y \in Seq(Event) /\ Len(y) = n - p + 1
        /\ \A i \in 1..(n - p + 1) : y[i] = win[p + i - 1]
    BY <1>1, <1>4
  <2>3. r = z \o y
    BY <1>5, Zenon
  <2> HIDE DEF x, y
  <2>4. z \in Seq(Event) /\ Len(z) = p /\ z[p] = e /\ \A i \in 1..(p - 1) : z[i] = x[i]
    BY <1>4, <2>1
  <2> HIDE DEF z
  <2>5. /\ r \in Seq(Event) /\ Len(r) = n + 1
        /\ \A i \in 1..p : r[i] = z[i]
        /\ \A i \in (p + 1)..(n + 1) : r[i] = y[i - p]
    <3>1. r \in Seq(Event) /\ Len(r) = Len(z) + Len(y)
      BY <2>2, <2>4, <2>3
    <3>2. Len(z) + Len(y) = n + 1
      BY <1>1, <1>4, <2>2, <2>4
    <3>3. \A i \in 1..p : r[i] = z[i]
      BY <1>4, <2>2, <2>4, <2>3
    <3>4. ASSUME NEW i \in (p + 1)..(n + 1) PROVE r[i] = y[i - p]
      <4>1. i \in 1..(Len(z) + Len(y)) /\ ~(i <= Len(z))
        BY <1>4, <2>4, <3>2
      <4>2. (z \o y)[i] = y[i - Len(z)]
        BY <2>2, <2>4, <4>1, ConcatProperties, Zenon
      <4> QED BY <2>4, <2>3, <4>2, Zenon
    <3> QED BY <3>1, <3>2, <3>3, <3>4, Zenon
  <2>6. ASSUME NEW i \in (p + 1)..(n + 1) PROVE r[i] = win[i - 1]
    <3>1. i - p \in 1..(n - p + 1) /\ p + (i - p) - 1 = i - 1
      BY <1>4
    <3> QED BY <2>2, <2>5, <3>1, Zenon
  <2>7. \A i \in 1..(p - 1) : r[i] = win[i]
    <3> TAKE i \in 1..(p - 1)
    <3>1. i \in 1..p
      BY <1>4
    <3> QED BY <2>1, <2>4, <2>5, <3>1, Zenon
  <2>8. r[p] = e
    BY <1>4, <2>4, <2>5
  <2> QED BY <2>5, <2>6, <2>7, <2>8, Zenon
<1>8. \A i \in 1..n : p <= i => e.time <= win[i].time
  BY <1>1, <1>2, <1>4 DEF Sorted
<1>9. Sorted(r)
  <2>1. ASSUME NEW i \in 1..(n + 1), NEW j \in 1..(n + 1), i < j
        PROVE  r[i].time <= r[j].time
    <3>1. CASE i < p /\ j < p
      BY <1>1, <1>4, <1>7, <2>1, <3>1, SMTT(30) DEF Sorted
    <3>2. CASE i < p /\ j = p
      BY <1>2, <1>4, <1>7, <2>1, <3>2
    <3>3. CASE i < p /\ j > p
      <4>1. r[i] = win[i] /\ r[j] = win[j - 1] /\ i < j - 1 /\ i \in 1..n /\ j - 1 \in 1..n
        BY <1>4, <1>7, <2>1, <3>3
      <4> QED BY <1>1, <4>1, Zenon DEF Sorted
    <3>4. CASE i = p /\ j > p
      <4>1. r[i] = e /\ r[j] = win[j - 1] /\ p <= j - 1 /\ j - 1 \in 1..n
        BY <1>4, <1>7, <2>1, <3>4
      <4> QED BY <1>8, <4>1, Zenon
    <3>5. CASE i > p /\ j > p
      <4>1. /\ r[i] = win[i - 1] /\ r[j] = win[j - 1] /\ i - 1 < j - 1
            /\ i - 1 \in 1..n /\ j - 1 \in 1..n
        BY <1>4, <1>7, <2>1, <3>5
      <4> QED BY <1>1, <4>1, Zenon DEF Sorted
    <3> QED BY <1>4, <2>1, <3>1, <3>2, <3>3, <3>4, <3>5
  <2> QED BY <1>7, <2>1, Zenon DEF Sorted
<1>10. ASSUME NEW d PROVE d \in Range(r) <=> d \in Range(win) \/ d = e
  <2>1. d \in Range(r) <=> \E j \in 1..(n + 1) : r[j] = d
    BY <1>7 DEF Range
  <2>2. d \in Range(win) <=> \E j \in 1..n : win[j] = d
    BY <1>1 DEF Range
  <2>3. ASSUME NEW j \in 1..n PROVE \E i \in 1..(n + 1) : r[i] = win[j]
    <3>1. CASE j < p
      BY <1>4, <1>7, <3>1
    <3>2. CASE ~(j < p)
      <4>1. j + 1 \in (p + 1)..(n + 1) /\ j + 1 \in 1..(n + 1) /\ (j + 1) - 1 = j
        BY <1>4, <3>2
      <4> QED BY <1>7, <4>1, Zenon
    <3> QED BY <3>1, <3>2, Zenon
  <2>4. ASSUME NEW i \in 1..(n + 1) PROVE r[i] = e \/ \E j \in 1..n : r[i] = win[j]
    <3>1. CASE i < p
      BY <1>4, <1>7, <3>1
    <3>2. CASE i = p
      BY <1>7, <3>2, Zenon
    <3>3. CASE i > p
      <4>1. i \in (p + 1)..(n + 1) /\ i - 1 \in 1..n
        BY <1>4, <3>3
      <4> QED BY <1>7, <4>1, Zenon
    <3> QED BY <1>4, <3>1, <3>2, <3>3
  <2>5. p \in 1..(n + 1) /\ r[p] = e
    BY <1>4, <1>7, Zenon
  <2> QED BY <2>1, <2>2, <2>3, <2>4, <2>5, Zenon
<1> QED BY <1>6, <1>7, <1>9, <1>10, Zenon

\* A window at watermark w, and what a batch of events must make of it.
WindowInput(win, es, w) ==
    /\ win \in Seq(Event) /\ Sorted(win) /\ es \in Seq(Event)
    /\ w \in Int \cup {NoTime} /\ \A e \in Range(win) : Young(w, e)

WindowResult(r, win, es, w) ==
    /\ r \in Seq(Event) /\ Sorted(r)
    /\ Range(r) = {e \in Range(win) \cup Range(es) : Young(w, e)}

\* What insert_event_into makes of the window, for a batch of events.
LEMMA WindowedKeeps ==
    ASSUME NEW win, NEW es, NEW w, WindowInput(win, es, w)
    PROVE  WindowResult(Windowed(win, es, w), win, es, w)
<1> SUFFICES ASSUME win \in Seq(Event), Sorted(win), es \in Seq(Event), w \in Int \cup {NoTime},
                    \A e \in Range(win) : Young(w, e)
             PROVE  WindowResult(Windowed(win, es, w), win, es, w)
  BY Zenon DEF WindowInput
<1>1. PICK n \in Nat : n = Len(es)
  OBVIOUS
<1>2. \A i \in 1..n : es[i] \in Event
  BY <1>1
<1> DEFINE S == {r \in Seq(Event) : Sorted(r)}
<1> DEFINE Round(r, e) == Unexpired(Enqueue(r, e), w)
<1>3. ASSUME NEW r \in S, NEW e \in Event
      PROVE  /\ Round(r, e) \in S
             /\ \A d : d \in Range(Round(r, e)) <=> Young(w, d) /\ (d \in Range(r) \/ d = e)
  <2>1. PICK q : q = Enqueue(r, e)
    BY Zenon
  <2>2. q \in Seq(Event) /\ Sorted(q) /\ Range(q) = Range(r) \cup {e}
    BY <2>1, EnqueueKeeps, Zenon
  <2>3. /\ Unexpired(q, w) \in Seq(Event) /\ Sorted(Unexpired(q, w))
        /\ Range(Unexpired(q, w)) = {d \in Range(q) : w # NoTime => w - d.time <= WindowSize}
    BY <2>2, UnexpiredKeeps, Zenon
  <2> QED BY <2>1, <2>2, <2>3, Zenon DEF Young
<1> DEFINE G == [i \in 1..n |-> [r \in S |-> Round(r, es[i])]]
<1>4. /\ G \in [1..n -> [S -> S]]
      /\ \A i \in 1..n, r \in S : G[i][r] = Round(r, es[i])
  <2> HIDE DEF Round, S
  <2> QED BY <1>2, <1>3, Zenon
<1> DEFINE IsOut(g) == g = [i \in 0..Len(es) |-> IF i = 0 THEN win
                                ELSE [in \in Seq(Event) |-> Unexpired(Enqueue(in, es[i]), w)][g[i - 1]]]
<1>5. PICK f : IsLoop(f, n, S, win, G)
  <2>1. n \in Nat /\ win \in S
    BY <1>1, Zenon
  <2> HIDE DEF S, G
  <2> QED BY <1>4, <2>1, LoopExists, Zenon
<1>6. /\ f \in [0..n -> S] /\ f[0] = win
      /\ \A i \in 1..n : f[i - 1] \in S /\ f[i] = Round(f[i - 1], es[i])
  <2> HIDE DEF S, G, Round
  <2>1. /\ f \in [0..n -> S] /\ f[0] = win
        /\ \A i \in 1..n : f[i] = G[i][f[i - 1]]
    BY <1>5, Zenon DEF IsLoop
  <2>2. \A i \in 1..n : i - 1 \in 0..n
    OBVIOUS
  <2> QED BY <1>4, <2>1, <2>2, Zenon
<1>7. ASSUME NEW i \in 0..n
      PROVE  f[i] = IF i = 0 THEN win ELSE [in \in Seq(Event) |-> Round(in, es[i])][f[i - 1]]
  <2> HIDE DEF Round
  <2>1. CASE i = 0
    BY <1>6, <2>1, Zenon
  <2>2. CASE i # 0
    <3>1. i \in 1..n /\ f[i - 1] \in Seq(Event) /\ f[i] = Round(f[i - 1], es[i])
      BY <1>6, <2>2
    <3> QED BY <2>2, <3>1, Zenon
  <2> QED BY <2>1, <2>2, Zenon
<1>8. \E g : IsOut(g)
  <2>1. f = [i \in 0..n |-> f[i]]
    <3> HIDE DEF S
    <3> QED BY <1>6, Zenon
  <2>2. f = [i \in 0..n |-> IF i = 0 THEN win
                            ELSE [in \in Seq(Event) |-> Round(in, es[i])][f[i - 1]]]
    <3> HIDE DEF Round
    <3> QED BY <1>7, <2>1, Zenon
  <2>3. IsOut(f)
    BY <1>1, <2>2, Zenon
  <2> HIDE DEF IsOut
  <2> QED BY <2>3, Zenon
<1>9. PICK g : IsOut(g) /\ Windowed(win, es, w) = g[Len(es)]
  BY <1>8, Zenon DEF Windowed
<1>10. /\ g[0] = win
       /\ \A i \in 1..n : g[i - 1] \in S => g[i] = Round(g[i - 1], es[i])
  <2> HIDE DEF Round
  <2>1. \A i \in 0..n : g[i] = IF i = 0 THEN win
                               ELSE [in \in Seq(Event) |-> Round(in, es[i])][g[i - 1]]
    BY <1>1, <1>9, Zenon DEF Round
  <2>2. 0 \in 0..n /\ \A i \in 1..n : i \in 0..n /\ i # 0
    OBVIOUS
  <2> HIDE DEF IsOut
  <2>3. ASSUME NEW i \in 1..n, g[i - 1] \in S PROVE g[i] = Round(g[i - 1], es[i])
    <3>1. g[i - 1] \in Seq(Event)
      BY <2>3, Zenon
    <3>2. g[i] = [in \in Seq(Event) |-> Round(in, es[i])][g[i - 1]]
      BY <2>1, <2>2, Zenon
    <3> QED BY <3>1, <3>2, Zenon
  <2> QED BY <2>1, <2>2, <2>3, Zenon
<1> HIDE DEF IsOut, G
<1> DEFINE Kept(i, r) ==
      r \in S /\ \A e : e \in Range(r) <=> Young(w, e) /\ (e \in Range(win) \/ \E j \in 1..i : es[j] = e)
<1> DEFINE T == {i \in 0..n : Kept(i, g[i])}
<1>11. Kept(0, g[0])
  <2>1. Kept(0, win)
    OBVIOUS
  <2> HIDE DEF Kept
  <2> QED BY <1>10, <2>1, Zenon
<1>12. ASSUME NEW i \in 1..n, Kept(i - 1, g[i - 1]) PROVE Kept(i, g[i])
  <2>1. PICK r \in S : r = g[i - 1]
    BY <1>12, Zenon
  <2>2. g[i] = Round(r, es[i])
    BY <1>10, <2>1, Zenon
  <2> HIDE DEF Round, S
  <2>3. /\ g[i] \in S
        /\ \A d : d \in Range(g[i]) <=> Young(w, d) /\ (d \in Range(r) \/ d = es[i])
    BY <1>2, <1>3, <2>2
  <2>4. \A d : d \in Range(r) <=> Young(w, d) /\ (d \in Range(win) \/ \E j \in 1..(i - 1) : es[j] = d)
    BY <1>12, <2>1, Zenon
  <2>5. \A d : (\E j \in 1..i : es[j] = d) <=> (d = es[i] \/ \E j \in 1..(i - 1) : es[j] = d)
    OBVIOUS
  <2> QED BY <2>3, <2>4, <2>5, Zenon
<1>13. Kept(n, g[n])
  <2> HIDE DEF Kept
  <2>1. 0 \in T /\ \A i \in 1..n : i - 1 \in T => i \in T
    BY <1>11, <1>12
  <2>2. n \in T
    <3> HIDE DEF T
    <3>1. n \in Nat /\ n \in 0..n
      BY <1>1
    <3>2. \A i \in 0..n : i \in T
      BY <2>1, <3>1, UpTo, Zenon
    <3> QED BY <3>1, <3>2, Zenon
  <2> QED BY <2>2, Zenon
<1>14. PICK r \in S : r = Windowed(win, es, w) /\ Kept(n, r)
  <2>1. g[n] \in S
    BY <1>13, Zenon
  <2> HIDE DEF Kept, S
  <2> QED BY <1>1, <1>9, <1>13, <2>1, Zenon
<1>15. \A e : e \in Range(es) <=> \E j \in 1..n : es[j] = e
  BY <1>1, SMTT(30) DEF Range
<1> QED BY <1>14, <1>15, Zenon DEF WindowResult

-----------------------------------------------------------------------------
(* The states of the history.  x.w, x.a, x.d, x.f and x.win stand for the  *)
(* variables watermark, active, dedup, facts and window, x.m for the       *)
(* outputs if every activation fires in the operation that brings it.      *)

Now(x) == watermark = x.w /\ active = x.a /\ dedup = x.d /\ facts = x.f /\ window = x.win

InputOK(x) ==
    /\ x.w \in Marks \cup {NoTime}
    /\ x.a \in Seq(Event) /\ Len(x.a) <= MaxActive
    /\ x.f = Range(x.a)
    /\ x.w # NoTime /\ Lateness < EventRetention => \A e \in x.f : x.w - e.time < EventRetention

DedupOK(x) ==
    /\ DOMAIN x.d \subseteq Ids /\ \A i \in DOMAIN x.d : x.d[i] \in Times
    /\ IsFiniteSet(DOMAIN x.d) /\ Cardinality(DOMAIN x.d) <= MaxDedup

WindowOK(x) ==
    /\ x.win \in Seq(Event) /\ Sorted(x.win)
    /\ Range(x.win) = {e \in x.f : Young(x.w, e)}

StateOK(x) == InputOK(x) /\ DedupOK(x) /\ WindowOK(x)

AcceptsIn(x, es) ==
    /\ Len(es) \in 1..MaxInput
    /\ Len(x.a) + Len(es) <= MaxActive
    /\ Cardinality(DOMAIN x.d) + Len(es) <= MaxDedup
    /\ \A i \in 1..Len(es) :
        /\ es[i].id \notin DOMAIN x.d
        /\ \A j \in 1..(i - 1) : es[j].id # es[i].id
        /\ x.w # NoTime =>
            /\ es[i].time >= Subtract(x.w, Lateness)
            /\ x.w > MaxTime - Lead \/ es[i].time <= x.w + Lead

\* The operation o passes the checks in state x.
Legal(x, o) ==
    /\ o \in Operation
    /\ \/ o.kind = "events" /\ AcceptsIn(x, o.events)
       \/ /\ o.kind = "watermark" /\ o.events = <<>>
          /\ o.mark \in Marks /\ (x.w # NoTime => o.mark >= x.w)
       \/ o.kind = "drain" /\ o.events = <<>>

Noted(d, es) ==
    [i \in DOMAIN d \cup {e.id : e \in Range(es)} |->
        IF \E e \in Range(es) : e.id = i
        THEN (CHOOSE e \in Range(es) : e.id = i).time ELSE d[i]]

StepEvents(x, o, y) ==
    /\ y.w = x.w
    /\ y.a = x.a \o o.events
    /\ y.d = Noted(x.d, o.events)
    /\ y.f = x.f \cup Range(o.events)
    /\ y.win = Windowed(x.win, o.events, x.w)

StepWatermark(x, o, y) ==
    /\ y.w = o.mark
    /\ y.a = Retained(x.a, Subtract(o.mark, EventRetention))
    /\ y.d = Restrict(x.d, {i \in DOMAIN x.d : x.d[i] > Subtract(o.mark, DedupRetention)})
    /\ y.f = {e \in x.f : e.time > Subtract(o.mark, EventRetention)}
    /\ y.win = Retained(Unexpired(x.win, o.mark), Subtract(o.mark, EventRetention))

\* The operation o takes the state x to the state y.
Step(x, o, y) ==
    /\ y.m = x.m \cup Range(o.events)
    /\ o.kind = "events" => StepEvents(x, o, y)
    /\ o.kind = "watermark" => StepWatermark(x, o, y)
    /\ o.kind = "drain" =>
        y.w = x.w /\ y.a = x.a /\ y.d = x.d /\ y.f = x.f /\ y.win = x.win

\* The event was accepted before x: its ID is remembered, or it is too old.
Known(x, e) ==
    \/ e.id \in DOMAIN x.d /\ x.d[e.id] = e.time
    \/ x.w # NoTime /\ e.time <= Subtract(x.w, DedupRetention)

-----------------------------------------------------------------------------
(* One operation *)

\* checked_subtract stays in range and is monotone.
LEMMA SubtractProps ==
    ASSUME NEW t \in Int, NEW d \in Nat
    PROVE  /\ Subtract(t, d) \in Int
           /\ \A u \in Int : u >= t => Subtract(u, d) >= Subtract(t, d)
BY Constants DEF Subtract

\* The events of a sequence, and of two.
LEMMA RangeProps ==
    /\ \A s \in Seq(Event) : Range(s) = {s[i] : i \in 1..Len(s)} /\ Range(s) \subseteq Event
    /\ \A s, t \in Seq(Event) : Range(s \o t) = Range(s) \cup Range(t)
    /\ Range(<<>>) = {}
<1>1. \A s \in Seq(Event) : Range(s) = {s[i] : i \in 1..Len(s)} /\ Range(s) \subseteq Event
  BY DEF Range
<1>2. ASSUME NEW s \in Seq(Event), NEW t \in Seq(Event)
      PROVE  Range(s \o t) = Range(s) \cup Range(t)
  <2> DEFINE r == s \o t
  <2>1. /\ r \in Seq(Event) /\ Len(r) = Len(s) + Len(t)
        /\ \A i \in 1..Len(s) : r[i] = s[i]
        /\ \A i \in 1..Len(t) : r[Len(s) + i] = t[i]
    OBVIOUS
  <2> HIDE DEF r
  <2>2. ASSUME NEW e PROVE e \in Range(r) <=> e \in Range(s) \/ e \in Range(t)
    <3>1. ASSUME NEW i \in 1..Len(r)
          PROVE  (\E j \in 1..Len(s) : r[i] = s[j]) \/ (\E j \in 1..Len(t) : r[i] = t[j])
      <4>1. CASE i <= Len(s)
        BY <2>1, <4>1
      <4>2. CASE ~(i <= Len(s))
        <5>1. i - Len(s) \in 1..Len(t) /\ Len(s) + (i - Len(s)) = i
          BY <2>1, <4>2
        <5> QED BY <2>1, <5>1, Zenon
      <4> QED BY <4>1, <4>2, Zenon
    <3>2. \A j \in 1..Len(s) : j \in 1..Len(r)
      BY <2>1
    <3>3. \A j \in 1..Len(t) : Len(s) + j \in 1..Len(r)
      BY <2>1
    <3>4. e \in Range(r) <=> \E j \in 1..Len(r) : r[j] = e
      BY <1>1, <2>1, ZenonT(30)
    <3>5. e \in Range(s) <=> \E j \in 1..Len(s) : s[j] = e
      BY <1>1, Zenon
    <3>6. e \in Range(t) <=> \E j \in 1..Len(t) : t[j] = e
      BY <1>1, Zenon
    <3> QED BY <2>1, <3>1, <3>2, <3>3, <3>4, <3>5, <3>6, ZenonT(30)
  <2> QED BY <2>2, Zenon DEF r
<1>3. Range(<<>>) = {}
  BY DEF Range
<1> QED BY <1>1, <1>2, <1>3, Zenon

\* A batch of n events has at most n event IDs and at most n events.
LEMMA ToSetFinite ==
    ASSUME NEW es \in Seq(Event)
    PROVE  /\ IsFiniteSet(Range(es)) /\ Cardinality(Range(es)) <= Len(es)
           /\ IsFiniteSet({e.id : e \in Range(es)})
           /\ Cardinality({e.id : e \in Range(es)}) <= Len(es)
<1> DEFINE I == 1..Len(es)
<1>1. IsFiniteSet(I) /\ Cardinality(I) = Len(es)
  <2>1. PICK n \in Nat : n = Len(es)
    OBVIOUS
  <2>2. 1 \in Int /\ n \in Int
    BY <2>1
  <2>3. IsFiniteSet(1..n) /\ Cardinality(1..n) = IF 1 > n THEN 0 ELSE n - 1 + 1
    BY <2>2, FS_Interval, Zenon
  <2>4. Cardinality(1..n) = n
    BY <2>1, <2>3
  <2> QED BY <2>1, <2>3, <2>4, Zenon
<1>2. Range(es) = {es[i] : i \in I}
  BY RangeProps, Zenon
<1>3. /\ IsFiniteSet({es[i] : i \in I}) /\ Cardinality({es[i] : i \in I}) <= Len(es)
  <2> DEFINE f == [i \in I |-> es[i]]
             R == {es[i] : i \in I}
  <2>1. f \in Surjection(I, R)
    BY Zenon DEF Surjection
  <2> HIDE DEF f, R, I
  <2>2. IsFiniteSet(R) /\ Cardinality(R) <= Cardinality(I)
    BY <1>1, <2>1, FS_Surjection, Zenon
  <2> QED BY <1>1, <2>2, Zenon DEF R
<1>4. {e.id : e \in Range(es)} = {es[i].id : i \in I}
  BY <1>2, Zenon
<1>5. IsFiniteSet({es[i].id : i \in I}) /\ Cardinality({es[i].id : i \in I}) <= Len(es)
  <2> DEFINE f == [i \in I |-> es[i].id]
             R == {es[i].id : i \in I}
  <2>1. f \in Surjection(I, R)
    BY Zenon DEF Surjection
  <2> HIDE DEF f, R, I
  <2>2. IsFiniteSet(R) /\ Cardinality(R) <= Cardinality(I)
    BY <1>1, <2>1, FS_Surjection, Zenon
  <2> QED BY <1>1, <2>2, Zenon DEF R
<1> QED BY <1>2, <1>3, <1>4, <1>5, Zenon

\* What a batch adds to dedup_event_times_.
LEMMA NotedProps ==
    ASSUME NEW x, DedupOK(x), NEW es \in Seq(Event), AcceptsIn(x, es)
    PROVE  /\ DOMAIN Noted(x.d, es) = DOMAIN x.d \cup {e.id : e \in Range(es)}
           /\ \A i \in DOMAIN x.d : Noted(x.d, es)[i] = x.d[i]
           /\ \A e \in Range(es) : Noted(x.d, es)[e.id] = e.time
<1>1. DOMAIN Noted(x.d, es) = DOMAIN x.d \cup {e.id : e \in Range(es)}
  BY Zenon DEF Noted
<1>2. \A e \in Range(es) : \E i \in 1..Len(es) : e = es[i]
  BY RangeProps
<1>3. \A e \in Range(es) : e.id \notin DOMAIN x.d
  BY <1>2, Zenon DEF AcceptsIn
<1>4. ASSUME NEW i \in DOMAIN x.d PROVE Noted(x.d, es)[i] = x.d[i]
  BY <1>3, Zenon DEF Noted
<1>5. ASSUME NEW e \in Range(es), NEW c \in Range(es), e.id = c.id PROVE e = c
  <2>1. PICK i \in 1..Len(es), j \in 1..Len(es) : e = es[i] /\ c = es[j]
    BY <1>2, Zenon
  <2>2. ~(i < j) /\ ~(j < i)
    BY <1>5, <2>1 DEF AcceptsIn
  <2> QED BY <2>1, <2>2
<1>6. ASSUME NEW e \in Range(es) PROVE Noted(x.d, es)[e.id] = e.time
  <2>1. (CHOOSE c \in Range(es) : c.id = e.id) = e
    BY <1>5, Zenon
  <2>2. e.id \in DOMAIN x.d \cup {c.id : c \in Range(es)}
    BY Zenon
  <2>3. Noted(x.d, es)[e.id] = IF \E c \in Range(es) : c.id = e.id
            THEN (CHOOSE c \in Range(es) : c.id = e.id).time ELSE x.d[e.id]
    BY <2>2, Zenon DEF Noted
  <2> QED BY <2>1, <2>3, Zenon
<1> QED BY <1>1, <1>4, <1>6, Zenon

\* A batch keeps the state as it should be.
LEMMA EventsStepOK ==
    ASSUME NEW x, NEW o, NEW y, StateOK(x), Legal(x, o), o.kind = "events", Step(x, o, y)
    PROVE  StateOK(y)
<1> DEFINE es == o.events
<1>1. es \in Seq(Event) /\ AcceptsIn(x, es) /\ StepEvents(x, o, y)
  BY Zenon DEF Legal, Step, Operation
<1>2. InputOK(x) /\ DedupOK(x) /\ WindowOK(x)
  BY Zenon DEF StateOK
<1>3. Range(es) \subseteq Event
  BY <1>1, RangeProps, Zenon
<1> HIDE DEF es
<1>4. InputOK(y)
  <2>1. y.w = x.w /\ y.a = x.a \o es /\ y.f = x.f \cup Range(es)
    BY <1>1, Zenon DEF StepEvents, es
  <2>2. x.a \in Seq(Event) /\ x.f = Range(x.a) /\ x.w \in Marks \cup {NoTime}
    BY <1>2, Zenon DEF InputOK
  <2>3. y.a \in Seq(Event) /\ Len(y.a) = Len(x.a) + Len(es) /\ y.f = Range(y.a)
    BY <1>1, <2>1, <2>2, RangeProps
  <2>4. Len(y.a) <= MaxActive
    BY <1>1, <2>3, Zenon DEF AcceptsIn
  <2>5. ASSUME x.w # NoTime, Lateness < EventRetention, NEW e \in Range(es)
        PROVE  x.w - e.time < EventRetention
    <3>1. PICK i \in 1..Len(es) : e = es[i]
      BY <1>1, RangeProps
    <3>2. e.time >= Subtract(x.w, Lateness)
      BY <1>1, <2>5, <3>1, Zenon DEF AcceptsIn
    <3>3. x.w \in Int /\ e.time \in Int /\ MinTime <= e.time
      BY <1>3, <2>2, <2>5, Constants, Zenon
    <3> QED BY <2>5, <3>2, <3>3, Constants DEF Subtract
  <2> QED BY <1>2, <2>1, <2>2, <2>3, <2>4, <2>5, Zenon DEF InputOK
<1>5. DedupOK(y)
  <2> DEFINE new == {e.id : e \in Range(es)}
  <2>1. y.d = Noted(x.d, es)
    BY <1>1, Zenon DEF StepEvents, es
  <2>2. /\ DOMAIN y.d = DOMAIN x.d \cup new
        /\ \A i \in DOMAIN x.d : y.d[i] = x.d[i]
        /\ \A e \in Range(es) : y.d[e.id] = e.time
    <3>1. /\ DOMAIN Noted(x.d, es) = DOMAIN x.d \cup new
          /\ \A i \in DOMAIN x.d : Noted(x.d, es)[i] = x.d[i]
          /\ \A e \in Range(es) : Noted(x.d, es)[e.id] = e.time
      BY <1>1, <1>2, NotedProps, Zenon
    <3> HIDE DEF new
    <3> QED BY <2>1, <3>1, Zenon
  <2>3. /\ DOMAIN x.d \subseteq Ids /\ \A i \in DOMAIN x.d : x.d[i] \in Times
        /\ IsFiniteSet(DOMAIN x.d)
    BY <1>2, Zenon DEF DedupOK
  <2>4. DOMAIN y.d \subseteq Ids /\ \A i \in DOMAIN y.d : y.d[i] \in Times
    BY <1>3, <2>2, <2>3, Constants
  <2>5. IsFiniteSet(new) /\ Cardinality(new) <= Len(es)
    BY <1>1, ToSetFinite, Zenon
  <2> HIDE DEF new
  <2>6. /\ IsFiniteSet(DOMAIN y.d)
        /\ Cardinality(DOMAIN y.d) = Cardinality(DOMAIN x.d) + Cardinality(new)
                                       - Cardinality(DOMAIN x.d \cap new)
    BY <2>2, <2>3, <2>5, FS_Union
  <2>7. IsFiniteSet(DOMAIN x.d \cap new)
    BY <2>5, FS_Subset, Zenon
  <2>8. /\ Cardinality(DOMAIN x.d) \in Nat /\ Cardinality(new) \in Nat
        /\ Cardinality(DOMAIN x.d \cap new) \in Nat
    BY <2>3, <2>5, <2>7, FS_CardinalityType, Zenon
  <2>9. Cardinality(DOMAIN x.d) + Len(es) <= MaxDedup /\ Len(es) \in Nat /\ MaxDedup \in Nat
    BY <1>1, ContinuousAssumption DEF AcceptsIn, ValidConfig
  <2>10. Cardinality(DOMAIN y.d) <= MaxDedup
    BY <2>5, <2>6, <2>8, <2>9
  <2> QED BY <2>4, <2>6, <2>10, Zenon DEF DedupOK
<1>6. WindowOK(y)
  <2>1. y.w = x.w /\ y.f = x.f \cup Range(es) /\ y.win = Windowed(x.win, es, x.w)
    BY <1>1, Zenon DEF StepEvents, es
  <2>2. x.w \in Int \cup {NoTime}
    BY <1>2, Constants, Zenon DEF InputOK
  <2>3. x.win \in Seq(Event) /\ Sorted(x.win) /\ Range(x.win) = {e \in x.f : Young(x.w, e)}
    BY <1>2, Zenon DEF WindowOK
  <2>4. WindowInput(x.win, es, x.w)
    BY <1>1, <2>2, <2>3, Zenon DEF WindowInput
  <2>5. WindowResult(Windowed(x.win, es, x.w), x.win, es, x.w)
    BY <2>4, WindowedKeeps, Zenon
  <2>6. /\ y.win \in Seq(Event) /\ Sorted(y.win)
        /\ Range(y.win) = {e \in Range(x.win) \cup Range(es) : Young(x.w, e)}
    BY <2>1, <2>5, Zenon DEF WindowResult
  <2>7. Range(y.win) = {e \in y.f : Young(y.w, e)}
    BY <2>1, <2>3, <2>6, Zenon
  <2> QED BY <2>6, <2>7, Zenon DEF WindowOK
<1> QED BY <1>4, <1>5, <1>6, Zenon DEF StateOK

\* A watermark keeps the state as it should be.
LEMMA WatermarkStepOK ==
    ASSUME NEW x, NEW o, NEW y, StateOK(x), Legal(x, o), o.kind = "watermark", Step(x, o, y)
    PROVE  StateOK(y)
<1>1. PICK w \in Marks : w = o.mark /\ (x.w # NoTime => w >= x.w)
  BY Zenon DEF Legal
<1>2. w \in Int /\ MinTime <= w /\ w # NoTime
  BY <1>1, Constants, Zenon
<1>3. PICK b \in Int : b = Subtract(w, EventRetention)
  BY <1>2, SubtractProps, Constants, Zenon
<1>4. /\ y.w = w
      /\ y.a = Retained(x.a, b)
      /\ y.d = Restrict(x.d, {i \in DOMAIN x.d : x.d[i] > Subtract(w, DedupRetention)})
      /\ y.f = {e \in x.f : e.time > b}
      /\ y.win = Retained(Unexpired(x.win, w), b)
  BY <1>1, <1>3, Zenon DEF Step, StepWatermark
<1>5. InputOK(x) /\ DedupOK(x) /\ WindowOK(x)
  BY Zenon DEF StateOK
<1>6. x.a \in Seq(Event) /\ Len(x.a) <= MaxActive /\ x.f = Range(x.a)
  BY <1>5, Zenon DEF InputOK
<1>7. x.f \subseteq Event
  BY <1>6, RangeProps, Zenon
<1>8. InputOK(y)
  <2>1. /\ y.a \in Seq(Event) /\ Len(y.a) <= Len(x.a)
        /\ Range(y.a) = {e \in Range(x.a) : e.time > b}
    <3>1. /\ Retained(x.a, b) \in Seq(Event) /\ Len(Retained(x.a, b)) <= Len(x.a)
          /\ Range(Retained(x.a, b)) = {e \in Range(x.a) : e.time > b}
      BY <1>3, <1>6, RetainedKeeps, Zenon
    <3> QED BY <1>4, <3>1, Zenon
  <2>2. Len(y.a) <= MaxActive
    BY <1>6, <2>1, ContinuousAssumption, SMTT(30) DEF ValidConfig
  <2>3. ASSUME NEW e \in y.f PROVE w - e.time < EventRetention
    <3>1. e.time \in Int /\ MinTime <= e.time /\ e.time > b
      BY <1>4, <1>7, Constants, Zenon
    <3> QED BY <1>2, <1>3, <3>1, Constants DEF Subtract
  <2> QED BY <1>4, <1>6, <2>1, <2>2, <2>3, Zenon DEF InputOK
<1>9. DedupOK(y)
  <2> DEFINE K == {i \in DOMAIN x.d : x.d[i] > Subtract(w, DedupRetention)}
  <2>1. DOMAIN y.d = K /\ \A i \in K : y.d[i] = x.d[i]
    BY <1>4, Zenon DEF Restrict
  <2>2. /\ DOMAIN x.d \subseteq Ids /\ \A i \in DOMAIN x.d : x.d[i] \in Times
        /\ IsFiniteSet(DOMAIN x.d) /\ Cardinality(DOMAIN x.d) <= MaxDedup
    BY <1>5, Zenon DEF DedupOK
  <2>3. K \in SUBSET DOMAIN x.d
    BY Zenon
  <2> HIDE DEF K
  <2>4. IsFiniteSet(K) /\ Cardinality(K) <= Cardinality(DOMAIN x.d)
    BY <2>2, <2>3, FS_Subset, Zenon
  <2>5. Cardinality(K) \in Nat /\ Cardinality(DOMAIN x.d) \in Nat /\ MaxDedup \in Nat
    BY <2>2, <2>4, FS_CardinalityType, ContinuousAssumption, Zenon DEF ValidConfig
  <2> QED BY <2>1, <2>2, <2>3, <2>4, <2>5 DEF DedupOK
<1>10. WindowOK(y)
  <2>1. x.win \in Seq(Event) /\ Sorted(x.win) /\ Range(x.win) = {e \in x.f : Young(x.w, e)}
    BY <1>5, Zenon DEF WindowOK
  <2>2. PICK u : u = Unexpired(x.win, w)
    BY Zenon
  <2>3. /\ u \in Seq(Event) /\ Sorted(u)
        /\ Range(u) = {e \in Range(x.win) : w # NoTime => w - e.time <= WindowSize}
    <3>1. w \in Int \cup {NoTime}
      BY <1>2, Zenon
    <3> DEFINE v == Unexpired(x.win, w)
    <3>2. /\ v \in Seq(Event) /\ Sorted(v)
          /\ Range(v) = {e \in Range(x.win) : w # NoTime => w - e.time <= WindowSize}
      BY <2>1, <3>1, UnexpiredKeeps, Zenon
    <3> QED BY <2>2, <3>2, Zenon
  <2>4. /\ y.win \in Seq(Event) /\ Sorted(y.win)
        /\ Range(y.win) = {e \in Range(u) : e.time > b}
    <3>1. /\ Retained(u, b) \in Seq(Event) /\ Sorted(Retained(u, b))
          /\ Range(Retained(u, b)) = {e \in Range(u) : e.time > b}
      BY <1>3, <2>3, RetainedKeeps, Zenon
    <3> QED BY <1>4, <2>2, <3>1, Zenon
  <2>5. ASSUME NEW e \in x.f, w - e.time <= WindowSize PROVE Young(x.w, e)
    <3>1. e.time \in Int /\ x.w \in Int \cup {NoTime}
      BY <1>5, <1>7, Constants, Zenon DEF InputOK
    <3> QED BY <1>1, <1>2, <2>5, <3>1, Constants DEF Young
  <2>6. Range(y.win) = {e \in y.f : Young(y.w, e)}
    BY <1>2, <1>4, <2>1, <2>3, <2>4, <2>5, Zenon DEF Young
  <2> QED BY <2>4, <2>6, Zenon DEF WindowOK
<1> QED BY <1>8, <1>9, <1>10, Zenon DEF StateOK

\* Every operation does.
LEMMA StepOK ==
    ASSUME NEW x, NEW o, NEW y, StateOK(x), Legal(x, o), Step(x, o, y)
    PROVE  StateOK(y)
<1>1. CASE o.kind = "events"
  BY <1>1, EventsStepOK, Zenon
<1>2. CASE o.kind = "watermark"
  BY <1>2, WatermarkStepOK, Zenon
<1>3. CASE o.kind = "drain"
  <2>1. y.w = x.w /\ y.a = x.a /\ y.d = x.d /\ y.f = x.f /\ y.win = x.win
    BY <1>3, Zenon DEF Step
  <2> QED BY <2>1, Zenon DEF StateOK, InputOK, DedupOK, WindowOK
<1> QED BY <1>1, <1>2, <1>3, Zenon DEF Legal

\* An operation accepts its events and forgets none before it is too old.
LEMMA StepKnown ==
    ASSUME NEW x, NEW o, NEW y, StateOK(x), Legal(x, o), Step(x, o, y), NEW e \in Event,
           Known(x, e) \/ e \in Range(o.events)
    PROVE  Known(y, e)
<1>1. DedupOK(x) /\ x.w \in Int \cup {NoTime} /\ o.events \in Seq(Event)
  BY Constants, Zenon DEF StateOK, InputOK, Legal, Operation
<1>2. CASE o.kind = "events"
  <2>1. AcceptsIn(x, o.events) /\ y.w = x.w /\ y.d = Noted(x.d, o.events)
    BY <1>2, Zenon DEF Legal, Step, StepEvents
  <2>2. /\ DOMAIN Noted(x.d, o.events) = DOMAIN x.d \cup {c.id : c \in Range(o.events)}
        /\ \A i \in DOMAIN x.d : Noted(x.d, o.events)[i] = x.d[i]
        /\ \A c \in Range(o.events) : Noted(x.d, o.events)[c.id] = c.time
    BY <1>1, <2>1, NotedProps, Zenon
  <2> QED BY <2>1, <2>2, Zenon DEF Known
<1>3. CASE o.kind = "watermark"
  <2>1. PICK w \in Marks : w = o.mark /\ (x.w # NoTime => w >= x.w) /\ o.events = <<>>
    BY <1>3, Zenon DEF Legal
  <2>2. w \in Int /\ w # NoTime /\ e.time \in Int
    BY <2>1, Constants, Zenon
  <2>3. PICK b \in Int : b = Subtract(w, DedupRetention)
    BY <2>2, SubtractProps, Constants, Zenon
  <2>4. y.w = w /\ y.d = Restrict(x.d, {i \in DOMAIN x.d : x.d[i] > b})
    BY <1>3, <2>1, <2>3, Zenon DEF Step, StepWatermark
  <2>5. Known(x, e)
    BY <2>1, RangeProps, Zenon
  <2>6. CASE e.id \in DOMAIN x.d /\ x.d[e.id] = e.time
    BY <2>2, <2>3, <2>4, <2>6 DEF Known, Restrict
  <2>7. CASE x.w # NoTime /\ e.time <= Subtract(x.w, DedupRetention)
    <3>1. x.w \in Int /\ w >= x.w
      BY <1>1, <2>1, <2>7, Zenon
    <3>2. Subtract(x.w, DedupRetention) \in Int /\ b >= Subtract(x.w, DedupRetention)
      BY <2>2, <2>3, <3>1, SubtractProps, Constants, Zenon
    <3>3. e.time <= b
      BY <2>2, <2>7, <3>2
    <3> QED BY <2>2, <2>3, <2>4, <3>3, Zenon DEF Known
  <2> QED BY <2>5, <2>6, <2>7, Zenon DEF Known
<1>4. CASE o.kind = "drain"
  <2>1. y.w = x.w /\ y.d = x.d /\ o.events = <<>>
    BY <1>4, Zenon DEF Step, Legal
  <2> QED BY <2>1, RangeProps DEF Known
<1> QED BY <1>2, <1>3, <1>4, Zenon DEF Legal

\* An event that was accepted before is not accepted again.
LEMMA KnownRejected ==
    ASSUME DedupRetention > Lateness, MinTime \notin Times,
           NEW x, NEW o, StateOK(x), Legal(x, o), NEW e \in Event, Known(x, e)
    PROVE  \A i \in 1..Len(o.events) : o.events[i] # e
<1> SUFFICES ASSUME NEW i \in 1..Len(o.events), o.events[i] = e PROVE FALSE
  BY Zenon
<1>1. AcceptsIn(x, o.events)
  BY DEF Legal
<1>2. e.id \notin DOMAIN x.d /\ (x.w # NoTime => e.time >= Subtract(x.w, Lateness))
  BY <1>1, Zenon DEF AcceptsIn
<1>3. x.w # NoTime /\ e.time <= Subtract(x.w, DedupRetention)
  BY <1>2, Zenon DEF Known
<1>4. x.w \in Int /\ e.time \in Int /\ MinTime <= e.time /\ e.time # MinTime
  BY <1>3, Constants, Zenon DEF StateOK, InputOK
<1> QED BY <1>2, <1>3, <1>4, Constants DEF Subtract
=============================================================================
