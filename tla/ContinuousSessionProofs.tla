---------------------- MODULE ContinuousSessionProofs ----------------------
(***************************************************************************)
(* Theorems about ContinuousSession, for every set of events, every limit  *)
(* and every window: the events, their IDs, the window and, if a step may  *)
(* fire all that it brings, the whole session are what the committed       *)
(* operations make of a fresh session, whatever failed and was replayed.   *)
(***************************************************************************)
EXTENDS ContinuousHistoryProofs

-----------------------------------------------------------------------------
(* The ledgers: accepted_events counts the events of the log, and          *)
(* pending_results the results of the batches, so that neither an          *)
(* acknowledgement nor a failed operation makes one of them negative.      *)

\* The loop that Total is the end of.
LEMMA TotalLoop ==
    ASSUME NEW s \in Seq(Nat)
    PROVE  \E f \in [0..Len(s) -> Nat] :
             /\ f[0] = 0 /\ \A i \in 1..Len(s) : f[i] = f[i - 1] + s[i]
             /\ Total(s) = f[Len(s)]
<1>1. PICK n \in Nat : n = Len(s)
  OBVIOUS
<1>2. \A i \in 1..n : s[i] \in Nat
  BY <1>1
<1> DEFINE G == [i \in 1..n |-> [r \in Nat |-> r + s[i]]]
<1>3. G \in [1..n -> [Nat -> Nat]] /\ \A i \in 1..n, r \in Nat : G[i][r] = r + s[i]
  BY <1>2
<1> HIDE DEF G
<1> DEFINE IsSum(f) == f = [i \in 0..Len(s) |-> IF i = 0 THEN 0 ELSE f[i - 1] + s[i]]
<1>4. \E f : IsSum(f)
  <2>1. PICK f : IsLoop(f, n, Nat, 0, G)
    <3>1. 0 \in Nat
      BY Zenon
    <3> HIDE DEF IsSum
    <3> QED BY <1>1, <1>3, <3>1, LoopExists, Zenon
  <2>2. /\ f \in [0..n -> Nat]
        /\ f[0] = 0 /\ \A i \in 1..n : f[i] = G[i][f[i - 1]]
    BY <2>1, Zenon DEF IsLoop
  <2>3. ASSUME NEW i \in 0..n PROVE f[i] = IF i = 0 THEN 0 ELSE f[i - 1] + s[i]
    <3>1. CASE i = 0
      BY <2>2, <3>1, Zenon
    <3>2. CASE i # 0
      <4>1. i \in 1..n /\ i - 1 \in 0..n
        BY <3>2
      <4>2. f[i - 1] \in Nat
        BY <2>2, <4>1, Zenon
      <4> QED BY <1>3, <2>2, <3>2, <4>1, <4>2, Zenon
    <3> QED BY <3>1, <3>2, Zenon
  <2> QED BY <1>1, <2>2, <2>3
<1>5. PICK f : IsSum(f) /\ Total(s) = f[Len(s)]
  BY <1>4, Zenon DEF Total
<1>6. f[0] = 0 /\ \A i \in 1..n : f[i] = f[i - 1] + s[i]
  <2>1. \A i \in 0..n : f[i] = IF i = 0 THEN 0 ELSE f[i - 1] + s[i]
    BY <1>1, <1>5, Zenon
  <2>2. 0 \in 0..n /\ \A i \in 1..n : i \in 0..n /\ i # 0
    OBVIOUS
  <2> QED BY <2>1, <2>2, Zenon
<1>7. \A i \in 0..n : f[i] \in Nat
  <2> DEFINE T == {i \in 0..n : f[i] \in Nat}
  <2>1. 0 \in T
    BY <1>6
  <2>2. ASSUME NEW i \in 1..n, i - 1 \in T PROVE i \in T
    <3>1. f[i] = f[i - 1] + s[i] /\ s[i] \in Nat /\ f[i - 1] \in Nat /\ i \in 0..n
      BY <1>2, <1>6, <2>2
    <3> QED BY <3>1
  <2> HIDE DEF T
  <2>3. \A i \in 0..n : i \in T
    BY <2>1, <2>2, UpTo, Zenon
  <2> QED BY <2>3, Zenon DEF T
<1>8. f \in [0..n -> Nat]
  BY <1>1, <1>5, <1>7, Zenon
<1> QED BY <1>1, <1>5, <1>6, <1>8, Zenon

\* What a count adds to the total, at either end.
LEMMA TotalProps ==
    ASSUME NEW s \in Seq(Nat)
    PROVE  /\ Total(s) \in Nat
           /\ s = <<>> => Total(s) = 0
           /\ \A c \in Nat : Total(Append(s, c)) = Total(s) + c
           /\ s # <<>> => Total(s) = s[1] + Total(Tail(s))
<1>1. PICK n \in Nat : n = Len(s)
  OBVIOUS
<1>2. PICK f \in [0..n -> Nat] : /\ f[0] = 0 /\ \A i \in 1..n : f[i] = f[i - 1] + s[i]
                                 /\ Total(s) = f[n]
  BY <1>1, TotalLoop, Zenon
<1>3. \A i \in 0..n : f[i] \in Nat
  BY <1>2, Zenon
<1>4. ASSUME NEW c \in Nat PROVE Total(Append(s, c)) = Total(s) + c
  <2>1. PICK t \in Seq(Nat) : t = Append(s, c)
    BY SMTT(30)
  <2>2. Len(t) = n + 1 /\ t[n + 1] = c /\ \A i \in 1..n : t[i] = s[i] /\ s[i] \in Nat
    BY <1>1, <2>1
  <2>3. PICK g \in [0..(n + 1) -> Nat] :
          /\ g[0] = 0 /\ \A i \in 1..(n + 1) : g[i] = g[i - 1] + t[i]
          /\ Total(t) = g[n + 1]
    BY <2>2, TotalLoop, Zenon
  <2>4. g[n] = f[n]
    <3> DEFINE T == {i \in 0..n : g[i] = f[i]}
    <3>1. 0 \in T
      BY <1>2, <2>3
    <3>2. ASSUME NEW i \in 1..n, i - 1 \in T PROVE i \in T
      <4>1. i \in 1..(n + 1) /\ i \in 0..n
        BY <1>1
      <4>3. g[i - 1] = f[i - 1]
        BY <3>2, Zenon
      <4>4. t[i] = s[i]
        BY <2>2, Zenon
      <4>2. g[i] = g[i - 1] + t[i] /\ f[i] = f[i - 1] + s[i]
        BY <1>2, <2>3, <4>1, Zenon
      <4> QED BY <4>1, <4>2, <4>3, <4>4, Zenon
    <3> HIDE DEF T
    <3>3. \A i \in 0..n : i \in T
      BY <1>1, <3>1, <3>2, UpTo, Zenon
    <3>4. n \in T
      BY <1>1, <3>3
    <3> QED BY <3>4, Zenon DEF T
  <2>5. g[n + 1] = g[n] + c /\ g[n] = f[n]
    <3>1. n + 1 \in 1..(n + 1) /\ (n + 1) - 1 = n
      BY <1>1
    <3> QED BY <2>2, <2>3, <2>4, <3>1, Zenon
  <2> QED BY <1>2, <2>1, <2>3, <2>5, Zenon
<1>5. ASSUME s # <<>> PROVE Total(s) = s[1] + Total(Tail(s))
  <2>1. PICK m \in Nat : n = m + 1
    BY <1>1, <1>5
  <2>2. PICK t : t = Tail(s)
    BY Zenon
  <2>3. /\ t \in Seq(Nat) /\ Len(t) = m /\ s[1] \in Nat
        /\ \A i \in 1..m : t[i] = s[i + 1]
    <3>1. /\ Tail(s) \in Seq(Nat) /\ Len(Tail(s)) = Len(s) - 1
          /\ \A i \in 1..Len(Tail(s)) : Tail(s)[i] = s[i + 1]
      BY <1>5, HeadTailProperties, Zenon
    <3>2. s[1] \in Nat
      <4>1. 1 \in 1..Len(s)
        BY <1>1, <2>1
      <4> QED BY <4>1, ElementOfSeq, Zenon
    <3>3. Len(t) = m
      BY <1>1, <2>1, <2>2, <3>1
    <3> QED BY <2>2, <3>1, <3>2, <3>3, Zenon
  <2>4. PICK g \in [0..m -> Nat] :
          /\ g[0] = 0 /\ \A i \in 1..m : g[i] = g[i - 1] + t[i]
          /\ Total(t) = g[m]
    BY <2>3, TotalLoop, Zenon
  <2>5. f[m + 1] = g[m] + s[1]
    <3> DEFINE T == {i \in 0..m : f[i + 1] = g[i] + s[1]}
    <3>1. 0 \in T
      <4>1. 1 \in 1..n /\ 1 - 1 = 0
        BY <2>1
      <4>2. f[1] = f[1 - 1] + s[1]
        BY <1>2, <4>1, Zenon
      <4> QED BY <1>2, <2>1, <2>4, <4>1, <4>2
    <3>2. ASSUME NEW i \in 1..m, i - 1 \in T PROVE i \in T
      <4>1. /\ i + 1 \in 1..n /\ (i + 1) - 1 = i /\ (i - 1) + 1 = i
            /\ i \in 0..m /\ i - 1 \in 0..m
        BY <2>1
      <4>2. f[i] = g[i - 1] + s[1]
        BY <3>2, <4>1, Zenon
      <4>3. f[i + 1] = f[i] + s[i + 1] /\ g[i] = g[i - 1] + s[i + 1]
        <5>1. f[i + 1] = f[(i + 1) - 1] + s[i + 1]
          BY <1>2, <4>1, Zenon
        <5>2. g[i] = g[i - 1] + t[i] /\ t[i] = s[i + 1]
          BY <2>3, <2>4, Zenon
        <5> QED BY <4>1, <5>1, <5>2, Zenon
      <4>4. g[i - 1] \in Nat /\ s[i + 1] \in Nat
        BY <1>1, <2>4, <4>1
      <4>5. f[i + 1] = g[i] + s[1]
        <5>1. PICK a \in Nat, b \in Nat, c \in Nat : a = g[i - 1] /\ b = s[1] /\ c = s[i + 1]
          BY <2>3, <4>4, Zenon
        <5>2. f[i + 1] = (a + b) + c /\ g[i] = a + c
          BY <4>2, <4>3, <5>1, Zenon
        <5>3. (a + b) + c = (a + c) + b
          OBVIOUS
        <5> QED BY <5>1, <5>2, <5>3, Zenon
      <4> QED BY <4>1, <4>5, Zenon
    <3> HIDE DEF T
    <3>3. \A i \in 0..m : i \in T
      BY <2>1, <3>1, <3>2, UpTo, Zenon
    <3>4. m \in T
      BY <2>1, <3>3
    <3> QED BY <3>4, Zenon DEF T
  <2>6. g[m] \in Nat
    BY <2>4
  <2> QED BY <1>2, <2>1, <2>2, <2>3, <2>4, <2>5, <2>6
<1>6. Total(s) \in Nat /\ (s = <<>> => Total(s) = 0)
  BY <1>1, <1>2, <1>3
<1> QED BY <1>4, <1>5, <1>6, Zenon

ResultBatch == [id : Nat, count : Nat]
Sizes(operations) == [i \in 1..Len(operations) |-> Len(operations[i].events)]
Counts(waiting) == [i \in 1..Len(waiting) |-> waiting[i].count]

\* The fields of a result batch.
LEMMA ResultBatchProps ==
    /\ \A b \in ResultBatch : b.count \in Nat /\ b.id \in Nat
    /\ \A i, c \in Nat : /\ [id |-> i, count |-> c] \in ResultBatch
                         /\ [id |-> i, count |-> c].count = c /\ [id |-> i, count |-> c].id = i
BY Zenon DEF ResultBatch

\* The events of an operation.
LEMMA OperationEvents == \A o \in Operation : o.events \in Seq(Event) /\ Len(o.events) \in Nat
BY DEF Operation

\* An operation more in the log.
LEMMA SizesAppend ==
    ASSUME NEW l \in Seq(Operation), NEW o \in Operation
    PROVE  /\ Total(Sizes(l)) \in Nat
           /\ Total(Sizes(Append(l, o))) = Total(Sizes(l)) + Len(o.events)
<1>1. PICK n \in Nat : n = Len(l)
  OBVIOUS
<1>2. \A i \in 1..n : l[i] \in Operation
  BY <1>1
<1>3. Len(o.events) \in Nat /\ \A i \in 1..n : Len(l[i].events) \in Nat
  BY <1>2, OperationEvents, Zenon
<1>4. Sizes(l) \in Seq(Nat) /\ Len(Sizes(l)) = n /\ \A i \in 1..n : Sizes(l)[i] = Len(l[i].events)
  BY <1>1, <1>3 DEF Sizes
<1>5. PICK m : m = Append(l, o)
  BY Zenon
<1>6. m \in Seq(Operation) /\ Len(m) = n + 1 /\ m[n + 1] = o /\ \A i \in 1..n : m[i] = l[i]
  BY <1>1, <1>5
<1>7. PICK s \in Seq(Nat) : s = Sizes(l)
  BY <1>4, Zenon
<1>8. PICK t : t = Append(s, Len(o.events))
  BY Zenon
<1>9. /\ t \in Seq(Nat) /\ Len(t) = n + 1 /\ t[n + 1] = Len(o.events)
      /\ \A i \in 1..n : t[i] = s[i]
  BY <1>3, <1>4, <1>7, <1>8
<1>10. ASSUME NEW i \in 1..(n + 1) PROVE t[i] = Len(m[i].events)
  <2>1. CASE i = n + 1
    BY <1>6, <1>9, <2>1, Zenon
  <2>2. CASE i # n + 1
    <3>1. i \in 1..n
      BY <2>2
    <3> QED BY <1>4, <1>6, <1>7, <1>9, <3>1, Zenon
  <2> QED BY <2>1, <2>2, Zenon
<1>11. t = Sizes(m)
  BY <1>6, <1>9, <1>10 DEF Sizes
<1>12. Total(s) \in Nat /\ Total(t) = Total(s) + Len(o.events)
  BY <1>3, <1>8, TotalProps, Zenon
<1> QED BY <1>5, <1>7, <1>11, <1>12, Zenon

\* A batch more in the outbox, and one less.
LEMMA CountsStep ==
    ASSUME NEW b \in Seq(ResultBatch)
    PROVE  /\ Total(Counts(b)) \in Nat
           /\ \A r \in ResultBatch : Total(Counts(Append(b, r))) = Total(Counts(b)) + r.count
           /\ b # <<>> => /\ Head(b).count \in Nat
                          /\ Total(Counts(b)) = Head(b).count + Total(Counts(Tail(b)))
<1>1. PICK n \in Nat : n = Len(b)
  OBVIOUS
<1>2. \A i \in 1..n : b[i] \in ResultBatch
  BY <1>1
<1>3. \A i \in 1..n : b[i].count \in Nat
  BY <1>2, ResultBatchProps, Zenon
<1>4. PICK s : s = Counts(b)
  BY Zenon
<1>5. s \in Seq(Nat) /\ Len(s) = n /\ \A i \in 1..n : s[i] = b[i].count
  BY <1>1, <1>3, <1>4 DEF Counts
<1>6. ASSUME NEW r \in ResultBatch
      PROVE  Total(Counts(Append(b, r))) = Total(s) + r.count
  <2>1. PICK m : m = Append(b, r)
    BY Zenon
  <2>2. m \in Seq(ResultBatch) /\ Len(m) = n + 1 /\ m[n + 1] = r /\ \A i \in 1..n : m[i] = b[i]
    BY <1>1, <2>1
  <2>3. r.count \in Nat
    BY ResultBatchProps, Zenon
  <2>4. PICK t : t = Append(s, r.count)
    BY Zenon
  <2>5. /\ t \in Seq(Nat) /\ Len(t) = n + 1 /\ t[n + 1] = r.count
        /\ \A i \in 1..n : t[i] = s[i]
    BY <1>5, <2>3, <2>4
  <2>6. ASSUME NEW i \in 1..(n + 1) PROVE t[i] = m[i].count
    <3>1. CASE i = n + 1
      BY <2>2, <2>5, <3>1, Zenon
    <3>2. CASE i # n + 1
      <4>1. i \in 1..n
        BY <3>2
      <4> QED BY <1>5, <2>2, <2>5, <4>1, Zenon
    <3> QED BY <3>1, <3>2, Zenon
  <2>7. t = Counts(m)
    BY <2>2, <2>5, <2>6 DEF Counts
  <2>8. Total(t) = Total(s) + r.count
    BY <1>5, <2>3, <2>4, TotalProps, Zenon
  <2> QED BY <2>1, <2>7, <2>8, Zenon
<1>7. ASSUME b # <<>>
      PROVE  Head(b).count \in Nat /\ Total(s) = Head(b).count + Total(Counts(Tail(b)))
  <2>1. PICK k \in Nat : n = k + 1
    BY <1>1, <1>7
  <2>2. PICK t, m : t = Tail(s) /\ m = Tail(b)
    BY Zenon
  <2>3. s # <<>>
    BY <1>5, <2>1
  <2>4. /\ t \in Seq(Nat) /\ Len(t) = Len(s) - 1
        /\ \A i \in 1..Len(t) : t[i] = s[i + 1]
    BY <1>5, <2>2, <2>3, HeadTailProperties, Zenon
  <2>5. /\ m \in Seq(ResultBatch) /\ Len(m) = Len(b) - 1
        /\ \A i \in 1..Len(m) : m[i] = b[i + 1]
    BY <1>7, <2>2, HeadTailProperties, Zenon
  <2>6. Len(t) = k /\ Len(m) = k
    <3>1. Len(s) = k + 1 /\ Len(b) = k + 1
      BY <1>1, <1>5, <2>1, Zenon
    <3>2. Len(t) = (k + 1) - 1 /\ Len(m) = (k + 1) - 1
      BY <2>4, <2>5, <3>1, Zenon
    <3>3. (k + 1) - 1 = k
      OBVIOUS
    <3> QED BY <3>2, <3>3, Zenon
  <2>7. ASSUME NEW i \in 1..k PROVE t[i] = m[i].count
    <3>1. i + 1 \in 1..n
      BY <2>1
    <3> QED BY <1>5, <2>4, <2>5, <2>6, <3>1, Zenon
  <2>8. t = Counts(m)
    BY <2>4, <2>6, <2>7 DEF Counts
  <2>9. Head(b) = b[1] /\ 1 \in 1..n
    BY <1>1, <1>7, <2>1
  <2>10. Head(b).count \in Nat /\ s[1] = Head(b).count
    BY <1>3, <1>5, <2>9, Zenon
  <2>11. Total(s) = s[1] + Total(Tail(s))
    BY <1>5, <2>3, TotalProps, Zenon
  <2> QED BY <2>2, <2>8, <2>10, <2>11, Zenon
<1>8. Total(s) \in Nat
  BY <1>5, TotalProps, Zenon
<1> QED BY <1>4, <1>6, <1>7, <1>8, Zenon

OutboxInv ==
    /\ batches \in Seq(ResultBatch) /\ next_batch \in Nat
    /\ Len(batches) <= MaxBatches /\ results <= MaxResults
    /\ LedgersAgree

\* LedgersAgree in the terms of these lemmas.
LEMMA LedgersAre ==
    LedgersAgree <=>
        /\ accepted = Total(Sizes(log))
        /\ results = Total(Counts(batches))
        /\ next_batch = Len(published) + 1
        /\ \A i \in 1..Len(batches) : batches[i].id = next_batch - 1 - Len(batches) + i
BY Zenon DEF LedgersAgree, Sizes, Counts

\* Nothing is pending at first.
LEMMA InitOutbox == Init => OutboxInv
<1> SUFFICES ASSUME Init PROVE OutboxInv
  BY Zenon
<1>1. /\ batches = <<>> /\ Len(batches) = 0 /\ next_batch = 1 /\ results = 0
      /\ log = <<>> /\ accepted = 0 /\ Len(published) = 0
  BY Zenon DEF Init
<1>2. MaxBatches \in Nat /\ MaxResults \in Nat
  BY ContinuousAssumption, Zenon DEF ValidConfig
<1>3. Sizes(log) = <<>> /\ Counts(batches) = <<>>
  BY <1>1 DEF Sizes, Counts
<1>4. Total(<<>>) = 0
  <2>1. <<>> \in Seq(Nat)
    OBVIOUS
  <2> QED BY <2>1, TotalProps, Zenon
<1>5. LedgersAgree
  BY <1>1, <1>3, <1>4, LedgersAre
<1> QED BY <1>1, <1>2, <1>5 DEF OutboxInv

\* acknowledge takes the first batch off the sum, and the others move up.
LEMMA AcknowledgeOutbox ==
    ASSUME OutboxInv, Acknowledge
    PROVE  OutboxInv'
<1>1. /\ batches # <<>> /\ results' = results - Head(batches).count
      /\ batches' = Tail(batches) /\ UNCHANGED <<next_batch, published, log, accepted>>
  BY Zenon DEF Acknowledge, ledger
<1>2. batches \in Seq(ResultBatch) /\ next_batch \in Nat
  BY Zenon DEF OutboxInv
<1>3. PICK k \in Nat : Len(batches) = k + 1
  BY <1>1, <1>2
<1>4. /\ batches' \in Seq(ResultBatch) /\ Len(batches') = k
      /\ \A i \in 1..k : batches'[i] = batches[i + 1]
  <2>1. /\ batches' \in Seq(ResultBatch) /\ Len(batches') = Len(batches) - 1
        /\ \A i \in 1..Len(batches') : batches'[i] = batches[i + 1]
    BY <1>1, <1>2, HeadTailProperties, Zenon
  <2>2. (k + 1) - 1 = k
    OBVIOUS
  <2> QED BY <1>3, <2>1, <2>2, Zenon
<1>5. results = Total(Counts(batches)) /\ results <= MaxResults /\ MaxResults \in Nat
  BY LedgersAre, ContinuousAssumption, Zenon DEF OutboxInv, ValidConfig
<1>6. PICK c \in Nat, rest \in Nat :
        c = Head(batches).count /\ rest = Total(Counts(batches')) /\ results = c + rest
  <2>1. Head(batches).count \in Nat /\ Total(Counts(batches)) = Head(batches).count + Total(Counts(batches'))
    BY <1>1, <1>2, CountsStep, Zenon
  <2>2. Total(Counts(batches')) \in Nat
    BY <1>4, CountsStep, Zenon
  <2> QED BY <1>5, <2>1, <2>2, Zenon
<1>7. results' = rest /\ rest <= MaxResults
  BY <1>1, <1>5, <1>6, SMTT(30)
<1>8. ASSUME NEW i \in 1..k PROVE batches'[i].id = next_batch' - 1 - k + i
  <2>1. i + 1 \in 1..(k + 1)
    OBVIOUS
  <2>2. batches[i + 1].id = next_batch - 1 - (k + 1) + (i + 1)
    BY <1>3, <2>1, LedgersAre, Zenon DEF OutboxInv
  <2> QED BY <1>1, <1>2, <1>4, <2>2
<1>9. accepted' = Total(Sizes(log')) /\ next_batch' = Len(published') + 1
  BY <1>1, LedgersAre, Zenon DEF OutboxInv
<1>10. LedgersAgree'
  <2>1. results' = Total(Counts(batches'))
    BY <1>6, <1>7, Zenon
  <2> QED BY <1>4, <1>8, <1>9, <2>1, Zenon DEF LedgersAgree, Sizes, Counts
<1>11. Len(batches') <= MaxBatches
  BY <1>3, <1>4, ContinuousAssumption, SMTT(30) DEF OutboxInv, ValidConfig
<1> QED BY <1>1, <1>2, <1>4, <1>7, <1>10, <1>11, Zenon DEF OutboxInv

\* publish_result adds a batch to the sum, with the next ID.
LEMMA PublishOutbox ==
    ASSUME OutboxInv, HistoryInv, Publish
    PROVE  OutboxInv'
<1>1. PICK c \in Nat : c = Cardinality(fired)
  BY FS_CardinalityType, Zenon DEF HistoryInv, InnerTypes
<1>2. /\ Len(batches) < MaxBatches /\ results + c <= MaxResults
      /\ batches' = Append(batches, [id |-> next_batch, count |-> c])
      /\ next_batch' = next_batch + 1 /\ results' = results + c
      /\ published' = Append(published, fired) /\ UNCHANGED <<log, accepted>>
  BY <1>1, Zenon DEF Publish, ledger
<1>3. batches \in Seq(ResultBatch) /\ next_batch \in Nat
  BY Zenon DEF OutboxInv
<1>4. PICK n \in Nat : n = Len(batches)
  BY <1>3
<1>5. PICK b \in ResultBatch : b = [id |-> next_batch, count |-> c] /\ b.count = c /\ b.id = next_batch
  BY <1>1, <1>3, ResultBatchProps, ZenonT(30)
<1>6. /\ batches' \in Seq(ResultBatch) /\ Len(batches') = n + 1
      /\ batches'[n + 1] = b /\ \A i \in 1..n : batches'[i] = batches[i]
  BY <1>2, <1>3, <1>4, <1>5
<1>7. results' = Total(Counts(batches'))
  <2>1. Total(Counts(batches')) = Total(Counts(batches)) + c
    BY <1>2, <1>3, <1>5, CountsStep, Zenon
  <2>2. results = Total(Counts(batches))
    BY LedgersAre, Zenon DEF OutboxInv
  <2> QED BY <1>2, <2>1, <2>2, Zenon
<1>8. ASSUME NEW i \in 1..(n + 1) PROVE batches'[i].id = next_batch' - 1 - (n + 1) + i
  <2>1. CASE i = n + 1
    <3>1. batches'[i].id = next_batch
      BY <1>5, <1>6, <2>1, Zenon
    <3> QED BY <1>2, <1>3, <1>4, <2>1, <3>1
  <2>2. CASE i # n + 1
    <3>1. i \in 1..n
      BY <2>2
    <3>2. batches[i].id = next_batch - 1 - n + i
      BY <1>4, <3>1, LedgersAre, Zenon DEF OutboxInv
    <3>3. batches'[i].id = batches[i].id
      BY <1>6, <3>1, Zenon
    <3> QED BY <1>2, <1>3, <1>4, <3>2, <3>3
  <2> QED BY <2>1, <2>2, ZenonT(30)
<1>9. accepted' = Total(Sizes(log'))
  BY <1>2, LedgersAre, Zenon DEF OutboxInv
<1>10. next_batch' = Len(published') + 1
  <2>1. published \in Seq(SUBSET Event) /\ next_batch = Len(published) + 1
    BY LedgersAre, Zenon DEF OutboxInv, HistoryInv, Types
  <2> QED BY <1>2, <2>1
<1>11. LedgersAgree'
  BY <1>6, <1>7, <1>8, <1>9, <1>10, Zenon DEF LedgersAgree, Sizes, Counts
<1>12. Len(batches') <= MaxBatches /\ results' <= MaxResults /\ next_batch' \in Nat
  BY <1>2, <1>3, <1>4, <1>6, ContinuousAssumption, SMTT(30) DEF ValidConfig
<1> QED BY <1>6, <1>11, <1>12, Zenon DEF OutboxInv

\* The log and its count grow together, and shrink together.
LEMMA LogOutbox ==
    ASSUME OutboxInv, HistoryInv, Fire \/ PublishFails
    PROVE  OutboxInv'
<1>1. UNCHANGED <<batches, next_batch, results, published>>
  BY Zenon DEF Fire, PublishFails, outbox
<1>2. log \in Seq(Operation) /\ op \in Operation /\ accepted \in Nat
  BY Zenon DEF HistoryInv, Types
<1>3. accepted = Total(Sizes(log))
  BY LedgersAre, Zenon DEF OutboxInv
<1>4. accepted' = Total(Sizes(log'))
  <2>1. CASE UNCHANGED <<log, accepted>>
    BY <1>3, <2>1, Zenon
  <2>2. CASE log' = Append(log, op) /\ accepted' = accepted + Len(op.events)
    BY <1>2, <1>3, <2>2, SizesAppend, Zenon
  <2>3. CASE PublishFails
    <3>1. log' = SubSeq(log, 1, Len(log) - 1) /\ accepted' = accepted - Len(op.events)
          /\ pc = "publish"
      BY <2>3, Zenon DEF PublishFails
    <3>2. log # <<>> /\ log[Len(log)] = op
      BY <3>1, Zenon DEF HistoryInv, CallPlace
    <3>3. log' \in Seq(Operation) /\ log = Append(log', op)
      BY <1>2, <3>1, <3>2
    <3>4. Total(Sizes(log')) \in Nat /\ Total(Sizes(log)) = Total(Sizes(log')) + Len(op.events)
      BY <1>2, <3>3, SizesAppend, Zenon
    <3>5. Len(op.events) \in Nat
      BY <1>2, OperationEvents, Zenon
    <3> QED BY <1>2, <1>3, <3>1, <3>4, <3>5
  <2> QED BY <2>1, <2>2, <2>3, Zenon DEF Fire, ledger
<1>5. LedgersAgree'
  BY <1>1, <1>4, LedgersAre, Zenon DEF OutboxInv, LedgersAgree, Sizes, Counts
<1> QED BY <1>1, <1>5, Zenon DEF OutboxInv

\* No other step touches the ledgers.
LEMMA NextOutbox == OutboxInv /\ HistoryInv /\ [Next]_vars => OutboxInv'
<1> SUFFICES ASSUME OutboxInv, HistoryInv, [Next]_vars PROVE OutboxInv'
  BY Zenon
<1>1. ASSUME UNCHANGED <<outbox, ledger>> PROVE OutboxInv'
  <2>1. UNCHANGED <<batches, next_batch, results, published, log, accepted>>
    BY <1>1, Zenon DEF outbox, ledger
  <2> QED BY <2>1, Zenon DEF OutboxInv, LedgersAgree
<1>2. CASE Acknowledge
  BY <1>2, AcknowledgeOutbox, Zenon
<1>3. CASE Publish
  BY <1>3, PublishOutbox, Zenon
<1>4. CASE Fire \/ PublishFails
  BY <1>4, LogOutbox, Zenon
<1>5. CASE ~Acknowledge /\ ~Publish /\ ~Fire /\ ~PublishFails
  <2>1. UNCHANGED <<outbox, ledger>>
    BY <1>5, Zenon DEF Next, Running, PushBatch, AdvanceWatermark, Drain, Begin, Rejected, Apply,
                StepFails, Recover, ReplayNext, ReplayEnd, vars
  <2> QED BY <1>1, <2>1, Zenon
<1> QED BY <1>2, <1>3, <1>4, <1>5, Zenon

\* The ledgers are right in every behaviour.
LEMMA OutboxHolds == Spec => []OutboxInv
BY InitOutbox, NextOutbox, HistoryHolds, PTL DEF Spec

-----------------------------------------------------------------------------
(* The theorems *)

\* Types, and that replay happens only inside a call.
THEOREM TypeCorrect == Spec => []TypeOK
<1>1. HistoryInv /\ OutboxInv => TypeOK
  <2> SUFFICES ASSUME HistoryInv, OutboxInv PROVE TypeOK
    BY Zenon
  <2>1. Types /\ InnerTypes
    BY Zenon DEF HistoryInv
  <2>2. PICK x : StateOK(x) /\ Now(x)
    BY <2>1, Zenon DEF InnerTypes
  <2>3. watermark \in Int \cup {NoTime} /\ active \in Seq(Event) /\ facts = Range(active)
    BY <2>2, Constants, ZenonT(30) DEF StateOK, InputOK, Now
  <2>4. DOMAIN dedup \subseteq Ids /\ \A i \in DOMAIN dedup : dedup[i] \in Times
    BY <2>2, Zenon DEF StateOK, DedupOK, Now
  <2>5. window \in Seq(Event)
    BY <2>2, ZenonT(30) DEF StateOK, WindowOK, Now
  <2>6. facts \subseteq Event
    BY <2>3, RangeProps, Zenon
  <2>7. results \in Nat
    BY LedgersAre, CountsStep, Zenon DEF OutboxInv
  <2>8. batches \in Seq([id : Nat, count : Nat]) /\ next_batch \in Nat
    BY Zenon DEF OutboxInv, ResultBatch
  <2> QED BY <2>1, <2>3, <2>4, <2>5, <2>6, <2>7, <2>8, Zenon DEF TypeOK, Types, InnerTypes
<1> QED BY <1>1, HistoryHolds, OutboxHolds, PTL

\* Every structure that grows stays within its limit, also in the middle of an
\* operation and of a replay.
THEOREM StaysBounded == Spec => []Bounded
<1>1. HistoryInv /\ OutboxInv => Bounded
  <2> SUFFICES ASSUME HistoryInv, OutboxInv PROVE Bounded
    BY Zenon
  <2>1. PICK x : StateOK(x) /\ Now(x)
    BY Zenon DEF HistoryInv, InnerTypes
  <2>2. Len(active) <= MaxActive /\ Cardinality(DOMAIN dedup) <= MaxDedup
    BY <2>1, Zenon DEF StateOK, InputOK, DedupOK, Now
  <2> QED BY <2>2, Zenon DEF Bounded, HistoryInv, Types, OutboxInv
<1> QED BY <1>1, HistoryHolds, OutboxHolds, PTL

\* The metrics count the events of the log and the results of the outbox, and the
\* batches that wait are the last ones published, in order and without a gap.
THEOREM LedgersStayInStep == Spec => []LedgersAgree
<1>1. OutboxInv => LedgersAgree
  BY Zenon DEF OutboxInv
<1> QED BY <1>1, OutboxHolds, PTL

\* The event facts are the active events, none past its retention.
THEOREM ActiveStaysCurrent == Spec => []ActiveIsCurrent
<1>1. HistoryInv => ActiveIsCurrent
  <2> SUFFICES ASSUME HistoryInv PROVE ActiveIsCurrent
    BY Zenon
  <2>1. PICK x : StateOK(x) /\ Now(x)
    BY Zenon DEF HistoryInv, InnerTypes
  <2> QED BY <2>1, Zenon DEF ActiveIsCurrent, StateOK, InputOK, Now
<1> QED BY <1>1, HistoryHolds, PTL

\* The time window has exactly the active events that are young enough, in the
\* order of their times, however late or out of order they came.
THEOREM WindowStaysCurrent == Spec => []WindowCurrent
<1>1. HistoryInv => WindowCurrent
  <2> SUFFICES ASSUME HistoryInv PROVE WindowCurrent
    BY Zenon
  <2>1. PICK x : StateOK(x) /\ Now(x)
    BY Zenon DEF HistoryInv, InnerTypes
  <2>2. Sorted(window) /\ Range(window) = {e \in facts : Young(watermark, e)}
    BY <2>1, Zenon DEF StateOK, WindowOK, Now
  <2> QED BY <2>2, Zenon DEF WindowCurrent, Sorted, Young
<1> QED BY <1>1, HistoryHolds, PTL

\* No event is committed twice, although event IDs are forgotten.
LEMMA CommittedOnceInv == HistoryInv => CommittedOnce
<1> SUFFICES ASSUME HistoryInv, DedupRetention > Lateness, MinTime \notin Times,
                    NEW i \in 1..Len(log), NEW j \in 1..Len(log),
                    NEW k \in 1..Len(log[i].events), NEW l \in 1..Len(log[j].events),
                    log[i].events[k] = log[j].events[l]
             PROVE  i = j /\ k = l
  BY Zenon DEF CommittedOnce
<1>1. PICK h : History(h)
  BY Zenon DEF HistoryInv
<1>2. log \in Seq(Operation) /\ Len(log) \in Nat
  BY DEF HistoryInv, Types
<1>3. \A n \in 1..Len(log) : log[n].events \in Seq(Event)
  BY <1>2, OperationEvents
<1>4. ASSUME NEW a \in 1..Len(log), NEW b \in 1..Len(log), a < b,
             NEW c \in 1..Len(log[a].events), NEW d \in 1..Len(log[b].events),
             log[a].events[c] = log[b].events[d]
      PROVE  FALSE
  <2>1. a \in 1..(b - 1) /\ b - 1 \in 0..Len(log)
    BY <1>2, <1>4
  <2>2. PICK e \in Event : e = log[a].events[c] /\ e \in Range(log[a].events)
    BY <1>3, RangeProps, SMTT(30)
  <2>3. Known(h[b - 1], e) /\ StateOK(h[b - 1]) /\ Legal(h[b - 1], log[b])
    BY <1>1, <2>1, <2>2, ZenonT(60) DEF History
  <2>4. \A n \in 1..Len(log[b].events) : log[b].events[n] # e
    BY <2>3, KnownRejected, ZenonT(30)
  <2> QED BY <1>4, <2>2, <2>4, Zenon
<1>5. i = j
  <2>1. ASSUME i < j PROVE FALSE
    BY <1>4, <2>1, Zenon
  <2>2. ASSUME j < i PROVE FALSE
    BY <1>4, <2>2, Zenon
  <2> QED BY <1>2, <2>1, <2>2
<1>6. ASSUME k # l PROVE FALSE
  <2>1. Legal(h[i - 1], log[i])
    BY <1>1, ZenonT(30) DEF History
  <2>2. AcceptsIn(h[i - 1], log[i].events)
    BY <1>3, <2>1 DEF Legal
  <2>3. k < l \/ l < k
    BY <1>3, <1>5, <1>6
  <2>4. \A n \in 1..Len(log[i].events) : \A m \in 1..(n - 1) : log[i].events[m].id # log[i].events[n].id
    BY <2>2, Zenon DEF AcceptsIn
  <2>5. l \in 1..Len(log[i].events) /\ log[i].events[k] = log[i].events[l]
    BY <1>5, Zenon
  <2>6. k \in 1..(l - 1) \/ l \in 1..(k - 1)
    BY <1>3, <2>3, <2>5
  <2> QED BY <2>4, <2>5, <2>6, Zenon
<1> QED BY <1>5, <1>6, Zenon

\* "Duplicate event ID": no event is ever committed a second time, if event IDs are
\* kept for longer than an event may be late.
THEOREM EventsCommittedOnce == Spec => []CommittedOnce
BY CommittedOnceInv, HistoryHolds, PTL

\* Whatever the budget, recover_by_replay restores the watermark, the events, the
\* event IDs, the event facts and the window of the last commit.
InputRestored ==
    Settled => \E T, M : committed = <<input, <<facts, T, M, window>>>>

\* However often operations fail, a replay restores the input side of the session.
THEOREM ReplayRestoresInput == Spec => []InputRestored
<1>1. HistoryInv => InputRestored
  <2> SUFFICES ASSUME HistoryInv, Settled
               PROVE  \E T, M : committed = <<input, <<facts, T, M, window>>>>
    BY Zenon DEF InputRestored
  <2>1. PICK h : CallPlace(h) /\ CommitPlace(h)
    BY Zenon DEF HistoryInv
  <2>2. pc = "idle" /\ consistent /\ Done = Len(log)
    BY Zenon DEF Settled, Done
  <2>3. Now(h[Done])
    BY <2>1, <2>2, Zenon DEF CallPlace, At
  <2> QED BY <2>1, <2>3, Zenon DEF CommitPlace, Now, input
<1> QED BY <1>1, HistoryHolds, PTL

\* If a step may fire every activation that a batch brings, recover_by_replay
\* restores the session of the last commit as a whole.
THEOREM ReplayRestoresAll ==
    ASSUME MaxInput <= MaxRules
    PROVE  Spec => []ReplayRestores
<1>1. HistoryInv => ReplayRestores
  <2> SUFFICES ASSUME HistoryInv, Settled PROVE <<input, inner>> = committed
    BY Zenon DEF ReplayRestores
  <2>1. PICK h : CallPlace(h) /\ CommitPlace(h)
    BY Zenon DEF HistoryInv
  <2>2. pc = "idle" /\ consistent /\ Done = Len(log) /\ Exact
    BY Zenon DEF Settled, Done, Exact
  <2>3. Now(h[Done]) /\ todo = {} /\ made = h[Done].m
    BY <2>1, <2>2, Zenon DEF CallPlace, At
  <2>4. committed = <<<<h[Done].w, h[Done].a, h[Done].d>>, <<h[Done].f, {}, h[Done].m, h[Done].win>>>>
    BY <2>1, <2>2, Zenon DEF CommitPlace
  <2> QED BY <2>3, <2>4, Zenon DEF Now, input, inner
<1> QED BY <1>1, HistoryHolds, PTL

\* Then each output is also published exactly once, if no event is committed twice.
THEOREM OutputsPublishedOnce ==
    ASSUME MaxInput <= MaxRules, DedupRetention > Lateness, MinTime \notin Times
    PROVE  Spec => []PublishedOnce
<1>1. HistoryInv => PublishedOnce
  <2> SUFFICES ASSUME HistoryInv, Settled
               PROVE  /\ UNION Range(published) = made
                      /\ \A i, j \in 1..Len(published) : i # j => published[i] \cap published[j] = {}
    BY Zenon DEF PublishedOnce
  <2>1. PICK h : History(h) /\ CallPlace(h) /\ CommitPlace(h)
    BY Zenon DEF HistoryInv
  <2>2. pc = "idle" /\ consistent /\ Done = Len(log) /\ Exact
    BY Zenon DEF Settled, Done, Exact
  <2>3. /\ log \in Seq(Operation) /\ Len(log) \in Nat /\ published \in Seq(SUBSET Event)
        /\ \A i \in 1..Len(log) : log[i].events \in Seq(Event)
    BY OperationEvents DEF HistoryInv, Types
  <2>4. Len(published) = Len(log) /\ \A i \in 1..Len(log) : published[i] = Range(log[i].events)
    BY <2>1, <2>2, Zenon DEF CommitPlace
  <2>5. made = h[Len(log)].m
    BY <2>1, <2>2, Zenon DEF CallPlace, At
  <2>6. \A e : e \in made <=> \E i \in 1..Len(log) : e \in Range(log[i].events)
    BY <2>1, <2>3, <2>5 DEF History
  <2>7. Range(published) = {published[i] : i \in 1..Len(log)}
    BY <2>3, <2>4 DEF Range
  <2>8. UNION Range(published) = made
    BY <2>4, <2>6, <2>7, Zenon
  <2>9. ASSUME NEW i \in 1..Len(log), NEW j \in 1..Len(log), i # j, NEW e,
               e \in Range(log[i].events), e \in Range(log[j].events)
        PROVE  FALSE
    <3>1. \A s \in Seq(Event) : e \in Range(s) => \E k \in 1..Len(s) : s[k] = e
      BY RangeProps
    <3>2. PICK k \in 1..Len(log[i].events) : log[i].events[k] = e
      BY <2>3, <2>9, <3>1, Zenon
    <3>3. PICK l \in 1..Len(log[j].events) : log[j].events[l] = e
      BY <2>3, <2>9, <3>1, Zenon
    <3> QED BY <2>9, <3>2, <3>3, CommittedOnceInv, Zenon DEF CommittedOnce
  <2>10. ASSUME NEW i \in 1..Len(published), NEW j \in 1..Len(published), i # j
         PROVE  published[i] \cap published[j] = {}
    <3>1. i \in 1..Len(log) /\ j \in 1..Len(log)
      BY <2>4, Zenon
    <3>2. published[i] = Range(log[i].events) /\ published[j] = Range(log[j].events)
      BY <2>4, <3>1, Zenon
    <3> QED BY <2>9, <2>10, <3>1, <3>2, Zenon
  <2> QED BY <2>8, <2>10, Zenon
<1> QED BY <1>1, HistoryHolds, PTL

=============================================================================
