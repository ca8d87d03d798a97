---------------------------- MODULE AgendaProofs ----------------------------
(***************************************************************************)
(* Proofs about the agenda for any activations, rules and attributes: the  *)
(* lazily cleaned queue never loses an activation and, if the hashes are   *)
(* distinct, does what AgendaSpec promises.                                *)
(***************************************************************************)
EXTENDS Agenda, FiniteSetTheorems, TLAPS

IInv == TypeOK /\ BatchDetached /\ NoLostActivation

-----------------------------------------------------------------------------
\* An element of a sequence of S is in S: what pop_batch reads from its batch.
LEMMA ItemType ==
    ASSUME NEW S, NEW q \in Seq(S), NEW j \in 1..Len(q)
    PROVE  q[j] \in S
OBVIOUS

\* What Agenda::add pushes is a queue entry, whatever the rule and its salience.
LEMMA EntryType ==
    /\ \A a \in Activations : EntryOf(a) \in Entries
    /\ \A a \in Activations : HashOf[a] \in Hashes
    /\ \A a \in Activations : Salience[RuleOf[a]] \in Saliences
BY AgendaAssumption, Zenon DEF EntryOf, Entries, Hashes, Saliences

\* The bag operations stay bags.
LEMMA BagOps ==
    ASSUME NEW b \in Bag, NEW c \in Bag, NEW e \in Entries
    PROVE  /\ EmptyBag \in Bag
           /\ Push(b, e) \in Bag
           /\ b[e] > 0 => PopEntry(b, e) \in Bag
           /\ Merge(b, c) \in Bag
BY DEF Bag, EmptyBag, Push, PopEntry, Merge

\* Dropping the stale entries of the queue (compaction in Agenda) leaves a bag.
LEMMA CompactedBag ==
    ASSUME NEW b \in Bag
    PROVE  Compacted(b) \in Bag
BY Zenon DEF Bag, Compacted

\* After compaction, as before it, each activation on the agenda has an entry.
LEMMA CompactedCovers ==
    ASSUME NEW b \in Bag, NEW a \in agenda_map_, agenda_map_ \subseteq Activations,
           \E s \in Saliences : b[<<s, HashOf[a]>>] > 0
    PROVE  \E s \in Saliences : Compacted(b)[<<s, HashOf[a]>>] > 0
<1>1. CASE Compacted(b) = b
  BY <1>1, Zenon
<1>2. CASE Compacted(b) = [e \in Entries |->
             IF \E x \in agenda_map_ : EntryOf(x) = e THEN 1 ELSE 0]
  <2>1. EntryOf(a) \in Entries /\ Compacted(b)[EntryOf(a)] = 1
    BY <1>2, EntryType, Zenon
  <2> QED BY <2>1, EntryType DEF EntryOf
<1> QED BY <1>1, <1>2, Zenon DEF Compacted

\* Adding an activation (add, and each round of flush_ready_delayed).
LEMMA PutKeepsIInv ==
    ASSUME IInv, NEW a \in Activations, PutActivation(a), ~Popping,
           delayed_activations_' \in [Activations -> Nat],
           UNCHANGED <<focus_stack_, lock_on_active_blocked_, max_items, out, deferred,
                       stale_skipped, op>>
    PROVE  IInv'
<1>1. agenda_map_' \subseteq Activations
      /\ \A x, y \in agenda_map_' : HashOf[x] = HashOf[y] => x = y
  BY Zenon DEF IInv, TypeOK, PutActivation, MapPut
<1>2. agenda_queue_' \in Bag
      /\ \A e \in Entries : agenda_queue_'[e] >= agenda_queue_[e]
      /\ agenda_queue_'[EntryOf(a)] > 0
  BY EntryType DEF IInv, TypeOK, PutActivation, Push, Bag
<1>3. activation_group_map_' \in [Groups -> SUBSET Hashes]
  BY EntryType, ZenonT(30) DEF IInv, TypeOK, PutActivation, GroupPut
<1>4. TypeOK'
  BY <1>1, <1>2, <1>3, Zenon DEF IInv, TypeOK, Popping
<1>5. BatchDetached'
  BY Zenon DEF IInv, BatchDetached, Popping
<1>6. NoLostActivation'
  <2> SUFFICES ASSUME NEW x \in agenda_map_'
               PROVE  \E s \in Saliences :
                        agenda_queue_'[<<s, HashOf[x]>>] + deferred[<<s, HashOf[x]>>] > 0
    BY Zenon DEF NoLostActivation
  <2>1. deferred \in Bag
    BY Zenon DEF IInv, TypeOK
  <2>2. CASE x = a
    <3>1. Salience[RuleOf[a]] \in Saliences /\ EntryOf(a) \in Entries
      BY EntryType, Zenon
    <3>2. agenda_queue_'[EntryOf(a)] + deferred[EntryOf(a)] > 0
      BY <1>2, <2>1, <3>1 DEF Bag
    <3> QED BY <2>2, <3>1, <3>2, Zenon DEF EntryOf
  <2>3. CASE x \in agenda_map_
    <3>1. PICK s \in Saliences :
            agenda_queue_[<<s, HashOf[x]>>] + deferred[<<s, HashOf[x]>>] > 0
      BY <2>3, Zenon DEF IInv, NoLostActivation
    <3>2. <<s, HashOf[x]>> \in Entries
      BY <2>3, EntryType, Zenon DEF IInv, TypeOK, Entries
    <3>3. \A e \in Entries : agenda_queue_[e] \in Nat /\ agenda_queue_'[e] \in Nat
                             /\ deferred[e] \in Nat
      BY <1>2, <2>1, Zenon DEF IInv, TypeOK, Bag
    <3>4. agenda_queue_'[<<s, HashOf[x]>>] + deferred[<<s, HashOf[x]>>] > 0
      BY <1>2, <3>1, <3>2, <3>3
    <3> QED BY <3>4, Zenon
  <2> QED BY <2>2, <2>3, Zenon DEF PutActivation, MapPut
<1> QED BY <1>4, <1>5, <1>6, Zenon DEF IInv

\* Taking activations off the agenda leaves the entries of the others in place.
LEMMA ShrinkKeepsIInv ==
    ASSUME IInv, agenda_map_' \subseteq agenda_map_,
           activation_group_map_' \in [Groups -> SUBSET Hashes],
           UNCHANGED <<agenda_queue_, delayed_activations_, locals>>,
           focus_stack_' \in Seq(Foci), lock_on_active_blocked_' \subseteq LockOnActive
    PROVE  IInv'
<1>1. TypeOK'
  BY Zenon DEF IInv, TypeOK, locals, Popping, IsEmptyBag
<1>2. BatchDetached'
  BY Zenon DEF IInv, BatchDetached, locals, Popping, AtHash
<1>3. NoLostActivation'
  BY Zenon DEF IInv, NoLostActivation, locals
<1> QED BY <1>1, <1>2, <1>3, Zenon DEF IInv

\* Erasing activations from the activation groups keeps the index well typed.
LEMMA GroupEraseType ==
    ASSUME NEW m \in [Groups -> SUBSET Hashes], NEW A
    PROVE  GroupErase(m, A) \in [Groups -> SUBSET Hashes]
BY Zenon DEF GroupErase

\* One round of the pop loop.
LEMMA PopStepKeepsIInv ==
    ASSUME IInv, NEW e \in Entries, PopStep(e)
    PROVE  IInv'
<1>1. /\ agenda_queue_ \in Bag /\ deferred \in Bag /\ agenda_queue_[e] > 0
      /\ agenda_queue_' = PopEntry(agenda_queue_, e)
      /\ agenda_map_ \subseteq Activations
      /\ Popping /\ Popping'
  BY Zenon DEF IInv, TypeOK, PopStep, IsTop, Popping
<1>2. agenda_queue_' \in Bag
  BY <1>1, BagOps, Zenon
<1>3. \A x \in Entries : x # e => agenda_queue_'[x] = agenda_queue_[x]
  BY <1>1, Zenon DEF PopEntry, Bag
<1>4. \A x \in Entries : agenda_queue_[x] \in Nat /\ agenda_queue_'[x] \in Nat /\ deferred[x] \in Nat
  BY <1>1, <1>2, Zenon DEF Bag
<1>5. \A a \in agenda_map_, s \in Saliences : <<s, HashOf[a]>> \in Entries
  BY <1>1, EntryType, Zenon DEF Entries
\* Entries of other hashes are untouched, so their activations stay covered.
<1>6. ASSUME NEW a \in agenda_map_, HashOf[a] # e[2], deferred' = deferred
      PROVE  \E s \in Saliences :
               agenda_queue_'[<<s, HashOf[a]>>] + deferred'[<<s, HashOf[a]>>] > 0
  <2>1. PICK s \in Saliences : agenda_queue_[<<s, HashOf[a]>>] + deferred[<<s, HashOf[a]>>] > 0
    BY Zenon DEF IInv, NoLostActivation
  <2>2. <<s, HashOf[a]>> \in Entries /\ <<s, HashOf[a]>> # e
    BY <1>5, <1>6
  <2> QED BY <1>3, <1>6, <2>1, <2>2, Zenon
<1>7. CASE SkipStale(e)
  <2>1. TypeOK'
    BY <1>1, <1>2, <1>7 DEF IInv, TypeOK, PopStep, SkipStale, aside, Popping
  <2>2. BatchDetached'
    BY <1>1, <1>7, Zenon DEF IInv, BatchDetached, SkipStale, AtHash
  <2>3. \A a \in agenda_map_ : HashOf[a] # e[2]
    BY <1>7, Zenon DEF SkipStale, AtHash
  <2>4. NoLostActivation'
    BY <1>6, <1>7, <2>3, Zenon DEF NoLostActivation, SkipStale
  <2> QED BY <2>1, <2>2, <2>4, Zenon DEF IInv
<1>8. ASSUME NEW a \in agenda_map_, TakeInFocus(e, a)
      PROVE  IInv'
  <2>1. a \in Activations /\ HashOf[a] = e[2] /\ e[1] \in Saliences
    BY <1>1, <1>8, Zenon DEF TakeInFocus, AtHash, Entries
  <2>2. /\ out' = Append(out, [salience |-> e[1], activation |-> a])
        /\ agenda_map_' = agenda_map_ \ {a}
        /\ deferred' = deferred /\ stale_skipped' = stale_skipped
    BY <1>8, Zenon DEF TakeInFocus
  <2>3. /\ out \in Seq([salience : Saliences, activation : Activations])
        /\ Len(out) \in Nat /\ Len(out) < max_items /\ max_items \in Nat /\ max_items' = max_items
    BY DEF IInv, TypeOK, PopStep
  <2>4. /\ out' \in Seq([salience : Saliences, activation : Activations])
        /\ Len(out') = Len(out) + 1
        /\ \A i \in 1..Len(out) : out'[i] = out[i]
        /\ out'[Len(out) + 1].activation = a
    BY <2>1, <2>2, <2>3
  <2>5. activation_group_map_' \in [Groups -> SUBSET Hashes]
    BY <1>8, GroupEraseType, Zenon DEF IInv, TypeOK, TakeInFocus
  <2>6. TypeOK'
    BY <1>1, <1>2, <2>2, <2>3, <2>4, <2>5 DEF IInv, TypeOK, PopStep, aside, Popping
  <2>7. \A i \in 1..Len(out) : HashOf[out[i].activation] # HashOf[a]
    BY <1>1, <1>8, Zenon DEF IInv, BatchDetached, AtHash
  <2>8. \A b \in agenda_map_ \ {a} : HashOf[b] # HashOf[a]
    BY <1>8, Zenon DEF IInv, TypeOK
  <2>9. BatchDetached'
    <3>1. \A i \in 1..Len(out') : i \in 1..Len(out) \/ i = Len(out) + 1
      BY <2>3, <2>4
    <3>2. \A i, j \in 1..Len(out') :
            HashOf[out'[i].activation] = HashOf[out'[j].activation] => i = j
      BY <2>4, <2>7, <3>1, Zenon DEF IInv, BatchDetached
    <3>3. \A i \in 1..Len(out') : AtHash(agenda_map_', HashOf[out'[i].activation]) = {}
      BY <1>1, <2>2, <2>4, <2>8, <3>1 DEF IInv, BatchDetached, AtHash
    <3> QED BY <3>2, <3>3, Zenon DEF BatchDetached
  <2>10. NoLostActivation'
    BY <1>6, <2>1, <2>2, <2>8, Zenon DEF NoLostActivation
  <2> QED BY <2>6, <2>9, <2>10, Zenon DEF IInv
<1>9. ASSUME NEW a \in agenda_map_, DeferOutOfFocus(e, a)
      PROVE  IInv'
  <2>1. /\ deferred' = Push(deferred, e) /\ agenda_map_' = agenda_map_ /\ out' = out
        /\ activation_group_map_' = activation_group_map_ /\ stale_skipped' = stale_skipped
    BY <1>9, Zenon DEF DeferOutOfFocus
  <2>2. deferred' \in Bag
    BY <1>1, <2>1, BagOps, Zenon
  <2>3. TypeOK'
    BY <1>1, <1>2, <2>1, <2>2, Zenon DEF IInv, TypeOK, PopStep, aside, Popping
  <2>4. BatchDetached'
    BY <1>1, <2>1, Zenon DEF IInv, BatchDetached, AtHash
  <2>5. \A x \in Entries : agenda_queue_'[x] + deferred'[x] = agenda_queue_[x] + deferred[x]
    BY <1>1, <1>4, <2>1 DEF Push, PopEntry, Bag
  <2>6. NoLostActivation'
    BY <1>5, <2>1, <2>5, Zenon DEF IInv, NoLostActivation
  <2> QED BY <2>3, <2>4, <2>6, Zenon DEF IInv
<1> QED BY <1>7, <1>8, <1>9, Zenon DEF PopStep

\* The end of a pop: deferred entries return, then the queue may be rebuilt.
LEMMA PopEndKeepsIInv ==
    ASSUME IInv, PopEnd
    PROVE  IInv'
<1> DEFINE q == Merge(agenda_queue_, deferred)
<1>1. /\ agenda_queue_ \in Bag /\ deferred \in Bag
      /\ agenda_map_ \subseteq Activations /\ agenda_map_' = agenda_map_
      /\ agenda_queue_' = Compacted(q) /\ deferred' = EmptyBag
      /\ op' = "none" /\ stale_skipped' = 0
      /\ out' = out /\ max_items' = max_items
      /\ activation_group_map_' = activation_group_map_
  BY Zenon DEF IInv, TypeOK, PopEnd
<1>2. EmptyBag \in Bag /\ q \in Bag
  BY <1>1 DEF Bag, EmptyBag, Merge
<1>3. agenda_queue_' \in Bag
  BY <1>1, <1>2, CompactedBag, Zenon
<1>4. TypeOK'
  BY <1>1, <1>2, <1>3 DEF IInv, TypeOK, PopEnd, aside, Popping, IsEmptyBag, EmptyBag
<1>5. BatchDetached'
  BY <1>1, Zenon DEF IInv, BatchDetached, Popping
<1>6. NoLostActivation'
  <2> SUFFICES ASSUME NEW a \in agenda_map_
               PROVE  \E s \in Saliences :
                        agenda_queue_'[<<s, HashOf[a]>>] + deferred'[<<s, HashOf[a]>>] > 0
    BY <1>1, Zenon DEF NoLostActivation
  <2>1. \A s \in Saliences : <<s, HashOf[a]>> \in Entries
    BY <1>1, EntryType, Zenon DEF Entries
  <2>2. PICK s \in Saliences : agenda_queue_[<<s, HashOf[a]>>] + deferred[<<s, HashOf[a]>>] > 0
    BY Zenon DEF IInv, NoLostActivation
  <2>3. q[<<s, HashOf[a]>>] > 0
    BY <2>1, <2>2, Zenon DEF Merge
  <2>4. \E x \in Saliences : Compacted(q)[<<x, HashOf[a]>>] > 0
    BY <1>1, <1>2, <2>3, CompactedCovers, Zenon
  <2>5. PICK x \in Saliences : Compacted(q)[<<x, HashOf[a]>>] > 0
    BY <2>4, Zenon
  <2>6. <<x, HashOf[a]>> \in Entries
    BY <2>1, Zenon
  <2>7. deferred'[<<x, HashOf[a]>>] = 0
    BY <1>1, <2>6, Zenon DEF EmptyBag
  <2>8. agenda_queue_'[<<x, HashOf[a]>>] \in Nat
    BY <1>3, <2>6, Zenon DEF Bag
  <2>9. agenda_queue_'[<<x, HashOf[a]>>] + deferred'[<<x, HashOf[a]>>] > 0
    BY <1>1, <2>5, <2>7, <2>8
  <2> QED BY <2>9, Zenon
<1> QED BY <1>4, <1>5, <1>6, Zenon DEF IInv

\* The rest of a batch goes back, each item with an entry of its own.
LEMMA RequeueKeepsIInv ==
    ASSUME IInv, NEW i \in 1..Len(out), RequeueBatch(i)
    PROVE  IInv'
<1> DEFINE rest == i..Len(out)
           back == {out[j].activation : j \in rest}
           EntryAt(j) == <<out[j].salience, HashOf[out[j].activation]>>
           Copies(e) == Cardinality({j \in rest : EntryAt(j) = e})
<1>1. /\ out \in Seq([salience : Saliences, activation : Activations])
      /\ Len(out) \in Nat /\ agenda_queue_ \in Bag /\ agenda_map_ \subseteq Activations
      /\ deferred \in Bag
  BY DEF IInv, TypeOK
<1>2. /\ agenda_map_' = {b \in agenda_map_ : \A a \in back : HashOf[a] # HashOf[b]} \cup back
      /\ agenda_queue_' = [e \in Entries |-> agenda_queue_[e] + Copies(e)]
      /\ activation_group_map_' = [g \in Groups |-> activation_group_map_[g] \cup
           {HashOf[a] : a \in {b \in back : ActivationGroup[RuleOf[b]] = g}}]
      /\ op = "none" /\ op' = "none" /\ out' = <<>> /\ max_items' = max_items
      /\ deferred' = deferred /\ stale_skipped' = stale_skipped
      /\ UNCHANGED aside
  BY Zenon DEF RequeueBatch
<1>3. \A j \in rest : /\ out[j].activation \in Activations /\ out[j].salience \in Saliences
                      /\ j \in 1..Len(out)
  <2>1. \A j \in rest : j \in 1..Len(out)
    BY <1>1
  <2>2. \A j \in 1..Len(out) : out[j] \in [salience : Saliences, activation : Activations]
    BY <1>1, ItemType, Zenon
  <2> QED BY <2>1, <2>2, Zenon
<1>4. \A e \in Entries : /\ Copies(e) \in Nat
                         /\ \A j \in rest : EntryAt(j) = e => Copies(e) > 0
  <2> TAKE e \in Entries
  <2> DEFINE J == {j \in rest : EntryAt(j) = e}
  <2>1. IsFiniteSet(rest)
    BY <1>1, FS_Interval
  <2>2. IsFiniteSet(J)
    <3>1. J \subseteq rest
      BY Zenon
    <3> QED BY <2>1, <3>1, FS_Subset, Zenon
  <2>3. Cardinality(J) \in Nat
    BY <2>2, FS_CardinalityType, Zenon
  <2>4. Cardinality(J) = 0 <=> J = {}
    BY <2>2, FS_EmptySet, Zenon
  <2>5. \A j \in rest : EntryAt(j) = e => J # {}
    BY Zenon
  <2>6. Copies(e) = Cardinality(J)
    BY Zenon
  <2> HIDE DEF J, EntryAt, Copies
  <2> QED BY <2>3, <2>4, <2>5, <2>6
<1> HIDE DEF Copies
<1>5. agenda_queue_' \in Bag
  BY <1>1, <1>2, <1>4 DEF Bag
<1>6. back \subseteq Activations
  BY <1>3, Zenon
<1>7. \A x, y \in back : HashOf[x] = HashOf[y] => x = y
  BY <1>3, Zenon DEF IInv, BatchDetached
<1>8. TypeOK'
  <2>1. activation_group_map_' \in [Groups -> SUBSET Hashes]
    BY <1>2, <1>6, EntryType, ZenonT(30) DEF IInv, TypeOK
  <2>2. agenda_map_' \subseteq Activations
        /\ \A x, y \in agenda_map_' : HashOf[x] = HashOf[y] => x = y
    BY <1>2, <1>6, <1>7, Zenon DEF IInv, TypeOK
  <2> QED BY <1>2, <1>5, <2>1, <2>2 DEF IInv, TypeOK, aside, Popping
<1>9. BatchDetached'
  BY <1>2 DEF BatchDetached, Popping
<1>10. NoLostActivation'
  <2> SUFFICES ASSUME NEW a \in agenda_map_'
               PROVE  \E s \in Saliences :
                        agenda_queue_'[<<s, HashOf[a]>>] + deferred'[<<s, HashOf[a]>>] > 0
    BY Zenon DEF NoLostActivation
  <2>0. \A e \in Entries : agenda_queue_[e] \in Nat /\ deferred[e] \in Nat
    BY <1>1, Zenon DEF Bag
  <2>1. CASE a \in back
    <3>1. PICK j \in rest : a = out[j].activation
      BY <2>1, Zenon
    <3>2. EntryAt(j) \in Entries
      BY <1>3, EntryType, Zenon DEF Entries
    <3>3. agenda_queue_'[EntryAt(j)] + deferred'[EntryAt(j)] > 0
      BY <1>2, <1>4, <2>0, <3>2
    <3> QED BY <1>3, <3>1, <3>3, Zenon
  <2>2. CASE a \in agenda_map_
    <3>1. PICK s \in Saliences : agenda_queue_[<<s, HashOf[a]>>] + deferred[<<s, HashOf[a]>>] > 0
      BY <2>2, Zenon DEF IInv, NoLostActivation
    <3>2. <<s, HashOf[a]>> \in Entries
      BY <1>1, <2>2, EntryType, Zenon DEF Entries
    <3>3. agenda_queue_'[<<s, HashOf[a]>>] + deferred'[<<s, HashOf[a]>>] > 0
      BY <1>2, <1>4, <2>0, <3>1, <3>2
    <3> QED BY <3>3, Zenon
  <2> QED BY <1>2, <2>1, <2>2, Zenon
<1> QED BY <1>8, <1>9, <1>10, Zenon DEF IInv

-----------------------------------------------------------------------------
\* A new agenda is empty and satisfies the invariant.
LEMMA InitIInv == Init => IInv
<1> SUFFICES ASSUME Init PROVE IInv
  BY Zenon
<1>1. EmptyBag \in Bag
  BY Zenon DEF EmptyBag, Bag
<1>2. TypeOK
  BY <1>1 DEF Init, TypeOK, Popping, IsEmptyBag, EmptyBag
<1>3. BatchDetached /\ NoLostActivation
  BY DEF Init, BatchDetached, NoLostActivation
<1> QED BY <1>2, <1>3, Zenon DEF IInv

\* Every operation of the agenda, each round of its loops included, keeps the
\* invariant.
LEMMA NextIInv == IInv /\ [Next]_vars => IInv'
<1> SUFFICES ASSUME IInv, [Next]_vars PROVE IInv'
  BY Zenon
<1> USE DEF IInv
<1>1. CASE UNCHANGED vars
  BY <1>1, ShrinkKeepsIInv, Zenon DEF vars, store, aside, TypeOK
<1>2. ASSUME NEW a \in Activations, Add(a) PROVE IInv'
  BY <1>2, PutKeepsIInv, Zenon DEF Add, aside, locals, TypeOK, Popping
<1>3. ASSUME NEW a \in Activations, AddWithDuration(a) PROVE IInv'
  <2>1. CASE RuleOf[a] \in Timed
    <3>1. delayed_activations_' \in [Activations -> Nat]
      BY <1>3, <2>1 DEF AddWithDuration, TypeOK
    <3>2. UNCHANGED <<store, focus_stack_, lock_on_active_blocked_, locals>>
      BY <1>3, <2>1, Zenon DEF AddWithDuration
    <3>3. TypeOK'
      BY <3>1, <3>2, Zenon DEF TypeOK, store, locals, Popping, IsEmptyBag
    <3>4. BatchDetached' /\ NoLostActivation'
      BY <3>2, Zenon DEF BatchDetached, NoLostActivation, store, locals, Popping, AtHash
    <3> QED BY <3>3, <3>4, Zenon
  <2>2. CASE RuleOf[a] \notin Timed
    BY <1>3, <2>2, PutKeepsIInv, Zenon DEF AddWithDuration, locals, TypeOK, Popping
  <2> QED BY <2>1, <2>2, Zenon
<1>4. ASSUME NEW a \in Activations, FlushReady(a) PROVE IInv'
  <2>1. delayed_activations_' \in [Activations -> Nat]
    BY <1>4 DEF FlushReady, TypeOK
  <2> QED BY <1>4, <2>1, PutKeepsIInv, Zenon DEF FlushReady, locals, Popping
<1>5. CASE FlushBegin \/ FlushEnd
  <2>1. /\ UNCHANGED <<store, aside, max_items, out, deferred, stale_skipped>>
        /\ op \in {"none", "flush"} /\ op' \in {"none", "flush"}
    BY <1>5, Zenon DEF FlushBegin, FlushEnd
  <2>2. TypeOK'
    BY <2>1, Zenon DEF TypeOK, store, aside, Popping, IsEmptyBag
  <2>3. BatchDetached' /\ NoLostActivation'
    BY <2>1, Zenon DEF BatchDetached, NoLostActivation, store, Popping
  <2> QED BY <2>2, <2>3, Zenon
<1>6. ASSUME NEW h \in Hashes, Remove(h) PROVE IInv'
  <2>1. RemoveAll(AtHash(agenda_map_, h))
    BY <1>6, Zenon DEF Remove
  <2> QED BY <2>1, ShrinkKeepsIInv, GroupEraseType, Zenon DEF RemoveAll, aside, TypeOK
<1>7. ASSUME NEW f \in Facts, RemoveActivationsWithFact(f) PROVE IInv'
  <2>1. RemoveAll({a \in agenda_map_ : f \in FactsOf[a]})
    BY <1>7, Zenon DEF RemoveActivationsWithFact
  <2> QED BY <2>1, ShrinkKeepsIInv, GroupEraseType, Zenon DEF RemoveAll, aside, TypeOK
<1>8. ASSUME NEW g \in Groups, NEW h \in Hashes, CancelActivationGroup(g, h) PROVE IInv'
  <2> DEFINE gone == {a \in agenda_map_ : HashOf[a] \in activation_group_map_[g] \ {h}}
             m == GroupErase(activation_group_map_, gone)
  <2>1. m \in [Groups -> SUBSET Hashes]
    BY GroupEraseType, Zenon DEF TypeOK
  <2>2. agenda_map_' = agenda_map_ \ gone
        /\ activation_group_map_' = [m EXCEPT ![g] = @ \ {h}]
        /\ UNCHANGED <<agenda_queue_, aside, locals>>
    BY <1>8, Zenon DEF CancelActivationGroup
  <2> HIDE DEF m, gone
  <2>3. activation_group_map_' \in [Groups -> SUBSET Hashes]
    BY <2>1, <2>2, Zenon
  <2> QED BY <2>2, <2>3, ShrinkKeepsIInv, Zenon DEF aside, TypeOK
<1>9. CASE ClearActivationGroups
  BY <1>9, ShrinkKeepsIInv, Zenon DEF ClearActivationGroups, aside, TypeOK
<1>10. ASSUME NEW g \in Foci, SetFocus(g) PROVE IInv'
  BY <1>10, ShrinkKeepsIInv DEF SetFocus, store, TypeOK
<1>11. CASE PopFocus
  <2>1. focus_stack_' \in Seq(Foci)
    BY <1>11 DEF PopFocus, TypeOK
  <2> QED BY <1>11, <2>1, ShrinkKeepsIInv, Zenon DEF PopFocus, store, TypeOK
<1>12. CASE SeedLockOnActive \/ ClearLockOnActive
  BY <1>12, ShrinkKeepsIInv, Zenon DEF SeedLockOnActive, ClearLockOnActive, store, TypeOK
<1>13. ASSUME NEW m \in {"pop_next", "pop_batch"}, NEW n \in 0..MaxItems, PopBegin(m, n)
       PROVE  IInv'
  <2>1. /\ op' = m /\ max_items' = n /\ out' = <<>>
        /\ UNCHANGED <<store, aside, deferred, stale_skipped>>
    BY <1>13, Zenon DEF PopBegin
  <2>2. n \in Nat
    BY AgendaAssumption
  <2>3. TypeOK'
    BY <2>1, <2>2 DEF TypeOK, store, aside, Popping
  <2>4. BatchDetached' /\ NoLostActivation'
    BY <2>1 DEF BatchDetached, NoLostActivation, store
  <2> QED BY <2>3, <2>4, Zenon
<1>14. ASSUME NEW e \in Entries, PopStep(e) PROVE IInv'
  BY <1>14, PopStepKeepsIInv, Zenon
<1>15. CASE PopEnd
  BY <1>15, PopEndKeepsIInv, Zenon
<1>16. ASSUME NEW i \in 1..Len(out), RequeueBatch(i) PROVE IInv'
  BY <1>16, RequeueKeepsIInv, Zenon
<1> QED
  BY <1>1, <1>2, <1>3, <1>4, <1>5, <1>6, <1>7, <1>8, <1>9, <1>10, <1>11, <1>12,
     <1>13, <1>14, <1>15, <1>16, Zenon DEF Next

\* For any activations, rules, attributes and hashes, colliding ones included:
\* every activation on the agenda keeps a queue entry that leads to it, and what
\* a batch holds is detached from the map (agenda.hpp, all operations).
THEOREM AgendaKeepsActivations == Spec => [](TypeOK /\ BatchDetached /\ NoLostActivation)
<1>1. Spec => []IInv
  BY InitIInv, NextIInv, PTL DEF Spec
<1> QED BY <1>1, PTL DEF IInv

\* For any activations, rules and hashes the map keeps one activation per hash, a
\* batch holds no more than was asked for, and only a running pop has put entries
\* aside or counted stale ones (agenda.hpp, all operations).
THEOREM AgendaTypes == Spec => []TypeOK
BY AgendaKeepsActivations, PTL

\* A batch that fire_all_rules has detached (pop_batch) shares no activation with
\* the map, so that putting the rest of it back overwrites nothing.
THEOREM BatchesStayDetached == Spec => []BatchDetached
BY AgendaKeepsActivations, PTL

-----------------------------------------------------------------------------
(* The agenda implements AgendaSpec, if no two activations have one hash *)

DistinctHashes == \A a, b \in Activations : HashOf[a] = HashOf[b] => a = b

\* The entries of the queue and the items of a batch have the salience of the
\* activation they stand for, and the entries a pop has put aside are out of
\* focus: it cannot have overlooked an activation that should fire first.
Ordered ==
    /\ \A e \in Entries : agenda_queue_[e] > 0 \/ deferred[e] > 0 =>
         \E a \in Activations : e = EntryOf(a)
    /\ \A j \in 1..Len(out) : out[j].salience = Salience[RuleOf[out[j].activation]]
    /\ Popping => \A e \in Entries : deferred[e] > 0 =>
         \A a \in agenda_map_ : HashOf[a] = e[2] => ~InFocus(a)

RInv == IInv /\ Ordered

\* A new agenda has no entry at all.
LEMMA InitOrdered == Init => Ordered
BY DEF Init, Ordered, EmptyBag, Popping

\* Adding an activation pushes its own entry (add, flush_ready_delayed).
LEMMA PutOrdered ==
    ASSUME RInv, NEW a \in Activations, PutActivation(a), ~Popping,
           UNCHANGED <<out, deferred, op>>
    PROVE  Ordered'
<1>1. EntryOf(a) \in Entries /\ agenda_queue_ \in [Entries -> Nat]
  BY EntryType, Zenon DEF RInv, IInv, TypeOK, Bag
<1>2. \A e \in Entries : agenda_queue_'[e] > 0 => agenda_queue_[e] > 0 \/ e = EntryOf(a)
  BY <1>1, Zenon DEF PutActivation, Push
<1> QED BY <1>2, Zenon DEF RInv, Ordered, Popping

\* A step that pushes nothing and runs no pop keeps the order: removals, changes
\* of the focus, of the locks and of the groups.
LEMMA QuietOrdered ==
    ASSUME RInv, UNCHANGED <<agenda_queue_, out, deferred, op>>, 
           Popping => agenda_map_' \subseteq agenda_map_ /\ UNCHANGED focus_stack_
    PROVE  Ordered'
BY Zenon DEF RInv, Ordered, Popping, InFocus, Focus

\* One round of a pop: the entry on top goes; it is put aside only if its
\* activation is out of focus.
LEMMA PopStepOrdered ==
    ASSUME RInv, DistinctHashes, NEW e \in Entries, PopStep(e)
    PROVE  Ordered'
<1>1. /\ agenda_queue_ \in [Entries -> Nat] /\ deferred \in [Entries -> Nat]
      /\ agenda_queue_[e] > 0 /\ agenda_queue_' = [agenda_queue_ EXCEPT ![e] = @ - 1]
      /\ agenda_map_ \subseteq Activations
      /\ UNCHANGED <<focus_stack_, op>> /\ Popping
  BY Zenon DEF RInv, IInv, TypeOK, Bag, PopStep, IsTop, PopEntry, aside
<1>2. \A f \in Entries : agenda_queue_'[f] > 0 => agenda_queue_[f] > 0
  BY <1>1, Zenon
<1>3. PICK b \in Activations : e = EntryOf(b)
  BY <1>1, Zenon DEF RInv, Ordered
<1>4. CASE SkipStale(e)
  BY <1>1, <1>2, <1>4, Zenon DEF SkipStale, RInv, Ordered, Popping, InFocus, Focus
<1>5. ASSUME NEW a \in agenda_map_, TakeInFocus(e, a) PROVE Ordered'
  <2>1. /\ a = b /\ e[1] = Salience[RuleOf[a]]
        /\ out' = Append(out, [salience |-> e[1], activation |-> a])
        /\ agenda_map_' = agenda_map_ \ {a} /\ UNCHANGED deferred
    BY <1>1, <1>3, <1>5, Zenon DEF TakeInFocus, AtHash, DistinctHashes, EntryOf
  <2>2. out \in Seq([salience : Saliences, activation : Activations])
    BY Zenon DEF RInv, IInv, TypeOK
  <2>3. \A j \in 1..Len(out') : out'[j].salience = Salience[RuleOf[out'[j].activation]]
    BY <2>1, <2>2 DEF RInv, Ordered
  <2> QED BY <1>1, <1>2, <2>1, <2>3, Zenon DEF RInv, Ordered, Popping, InFocus, Focus
<1>6. ASSUME NEW a \in agenda_map_, DeferOutOfFocus(e, a) PROVE Ordered'
  <2>1. /\ a = b /\ ~InFocus(a) /\ deferred' = [deferred EXCEPT ![e] = @ + 1]
        /\ UNCHANGED <<agenda_map_, out>>
    BY <1>1, <1>3, <1>6, Zenon DEF DeferOutOfFocus, AtHash, DistinctHashes, EntryOf, Push
  <2>2. \A f \in Entries : deferred'[f] > 0 => deferred[f] > 0 \/ f = e
    BY <1>1, <2>1, Zenon
  <2>3. \A x \in agenda_map_ : HashOf[x] = e[2] => x = a
    BY <1>1, <1>3, <2>1, Zenon DEF DistinctHashes, EntryOf
  <2>4. \A f \in Entries : deferred'[f] > 0 =>
          \A x \in agenda_map_ : HashOf[x] = f[2] => ~InFocus(x)
    BY <1>1, <2>1, <2>2, <2>3, Zenon DEF RInv, Ordered
  <2> QED BY <1>1, <1>2, <1>3, <2>1, <2>2, <2>4, Zenon DEF RInv, Ordered, Popping, InFocus, Focus
<1> QED BY <1>4, <1>5, <1>6, Zenon DEF PopStep

\* The end of a pop: what goes back, and what a compaction makes, are entries of
\* activations.
LEMMA PopEndOrdered ==
    ASSUME RInv, PopEnd
    PROVE  Ordered'
<1> DEFINE q == Merge(agenda_queue_, deferred)
<1>1. /\ agenda_queue_ \in [Entries -> Nat] /\ deferred \in [Entries -> Nat]
      /\ agenda_map_ \subseteq Activations
      /\ agenda_queue_' = Compacted(q) /\ deferred' = EmptyBag /\ UNCHANGED out /\ op' = "none"
  BY Zenon DEF RInv, IInv, TypeOK, Bag, PopEnd
<1>2. \A e \in Entries : q[e] > 0 => \E a \in Activations : e = EntryOf(a)
  BY <1>1 DEF Merge, RInv, Ordered
<1> HIDE DEF q
<1>3. \A e \in Entries : Compacted(q)[e] > 0 => \E a \in Activations : e = EntryOf(a)
  BY <1>1, <1>2 DEF Compacted
<1> QED BY <1>1, <1>3 DEF RInv, Ordered, Popping, EmptyBag

\* The rest of a batch goes back with the salience it was popped with, which is
\* that of its rule.
LEMMA RequeueOrdered ==
    ASSUME RInv, NEW i \in 1..Len(out), RequeueBatch(i)
    PROVE  Ordered'
<1> DEFINE EntryAt(j) == <<out[j].salience, HashOf[out[j].activation]>>
<1>1. /\ agenda_queue_ \in [Entries -> Nat] /\ op = "none" /\ UNCHANGED <<op, deferred>>
      /\ out' = <<>>
      /\ agenda_queue_' = [e \in Entries |->
            agenda_queue_[e] + Cardinality({j \in i..Len(out) : EntryAt(j) = e})]
  BY Zenon DEF RInv, IInv, TypeOK, Bag, RequeueBatch
<1>2. out \in Seq([salience : Saliences, activation : Activations])
  BY Zenon DEF RInv, IInv, TypeOK
<1>3. ASSUME NEW e \in Entries, agenda_queue_'[e] > 0
      PROVE  \E a \in Activations : e = EntryOf(a)
  <2>1. CASE \E j \in i..Len(out) : EntryAt(j) = e
    <3>1. PICK j \in i..Len(out) : EntryAt(j) = e
      BY <2>1, Zenon
    <3> j \in 1..Len(out)
      OBVIOUS
    <3>2. out[j] \in [salience : Saliences, activation : Activations]
      BY <1>2, ItemType, Zenon
    <3>3. out[j].activation \in Activations
      BY <3>2, Zenon
    <3>4. out[j].salience = Salience[RuleOf[out[j].activation]]
      BY Zenon DEF RInv, Ordered
    <3> QED BY <3>1, <3>3, <3>4, Zenon DEF EntryOf
  <2>2. CASE ~ \E j \in i..Len(out) : EntryAt(j) = e
    <3>1. {j \in i..Len(out) : EntryAt(j) = e} = {}
      BY <2>2, Zenon
    <3>2. agenda_queue_[e] > 0
      BY <1>1, <1>3, <3>1, FS_EmptySet
    <3> QED BY <3>2, Zenon DEF RInv, Ordered
  <2> QED BY <2>1, <2>2, Zenon
<1> QED BY <1>1, <1>3 DEF RInv, Ordered, Popping

\* Every operation keeps the order.
LEMMA NextOrdered == DistinctHashes /\ RInv /\ [Next]_vars => Ordered'
<1> SUFFICES ASSUME DistinctHashes, RInv, [Next]_vars PROVE Ordered'
  BY Zenon
<1>1. CASE UNCHANGED vars
  BY <1>1, QuietOrdered, Zenon DEF vars, store, aside, locals
<1>2. ASSUME NEW a \in Activations, Add(a) \/ AddWithDuration(a) \/ FlushReady(a)
      PROVE  Ordered'
  <2>1. CASE PutActivation(a) /\ UNCHANGED locals
    BY <1>2, <2>1, PutOrdered, Zenon DEF Add, AddWithDuration, FlushReady, locals, Popping
  <2>2. CASE UNCHANGED <<store, focus_stack_, locals>>
    BY <2>2, QuietOrdered, Zenon DEF store, locals
  <2> QED BY <1>2, <2>1, <2>2, Zenon DEF Add, AddWithDuration, FlushReady
<1>3. CASE FlushBegin \/ FlushEnd
  BY <1>3, Zenon DEF FlushBegin, FlushEnd, store, RInv, Ordered, Popping
<1>4. ASSUME NEW A, op = "none", RemoveAll(A) PROVE Ordered'
  BY <1>4, QuietOrdered, Zenon DEF RemoveAll, locals, Popping
<1>5. ASSUME NEW h \in Hashes, Remove(h) PROVE Ordered'
  BY <1>4, <1>5, Zenon DEF Remove
<1>6. ASSUME NEW f \in Facts, RemoveActivationsWithFact(f) PROVE Ordered'
  BY <1>4, <1>6, Zenon DEF RemoveActivationsWithFact
<1>7. ASSUME NEW g \in Groups, NEW h \in Hashes, CancelActivationGroup(g, h) PROVE Ordered'
  BY <1>7, QuietOrdered, Zenon DEF CancelActivationGroup, locals, Popping
<1>8. CASE ClearActivationGroups \/ PopFocus \/ SeedLockOnActive \/ ClearLockOnActive
  BY <1>8, QuietOrdered, Zenon DEF ClearActivationGroups, PopFocus, SeedLockOnActive, ClearLockOnActive,
                            store, locals, Popping
<1>9. ASSUME NEW g \in Foci, SetFocus(g) PROVE Ordered'
  BY <1>9, QuietOrdered, Zenon DEF SetFocus, store, locals, Popping
<1>10. ASSUME NEW m \in {"pop_next", "pop_batch"}, NEW n \in 0..MaxItems, PopBegin(m, n)
       PROVE  Ordered'
  <2>1. IsEmptyBag(deferred) /\ deferred \in [Entries -> Nat]
    BY <1>10, Zenon DEF PopBegin, RInv, IInv, TypeOK, Popping, Bag
  <2>2. out' = <<>> /\ UNCHANGED <<agenda_queue_, deferred>>
    BY <1>10, Zenon DEF PopBegin, store
  <2> QED BY <2>1, <2>2 DEF RInv, Ordered, IsEmptyBag
<1>11. ASSUME NEW e \in Entries, PopStep(e) PROVE Ordered'
  BY <1>11, PopStepOrdered, Zenon
<1>12. CASE PopEnd
  BY <1>12, PopEndOrdered, Zenon
<1>13. ASSUME NEW i \in 1..Len(out), RequeueBatch(i) PROVE Ordered'
  BY <1>13, RequeueOrdered, Zenon
<1> QED
  BY <1>1, <1>2, <1>3, <1>5, <1>6, <1>7, <1>8, <1>9, <1>10, <1>11, <1>12, <1>13, Zenon DEF Next

\* A new agenda is a new agenda of AgendaSpec.
LEMMA InitRefines == Init => AG!Init
BY DEF Init, AG!Init, Popping

\* Adding an activation, with no other of the same hash to overwrite.
LEMMA PutRefines ==
    ASSUME DistinctHashes, RInv, NEW a \in Activations, PutActivation(a), ~Popping,
           UNCHANGED <<focus_stack_, op, max_items, out>>
    PROVE  AG!Put(a)
<1>1. agenda_map_' = agenda_map_ \cup {a}
  BY Zenon DEF DistinctHashes, RInv, IInv, TypeOK, PutActivation, MapPut
<1> QED BY <1>1, Zenon DEF AG!Put, Popping

\* Removing activations, by hash, by fact or by group.
LEMMA DiscardRefines ==
    ASSUME NEW A \in SUBSET Activations, agenda_map_' = agenda_map_ \ A, op = "none",
           UNCHANGED <<focus_stack_, op, max_items, out>>
    PROVE  AG!Next
<1>1. AG!Discard(A)
  BY Zenon DEF AG!Discard, Popping
<1> QED BY <1>1, Zenon DEF AG!Next

\* The entry on top of the queue, if its activation is pending and in focus, is
\* that of a pending activation with the highest salience in focus: whatever has
\* a higher one would have an entry above it, or was put aside out of focus.
LEMMA TakeRefines ==
    ASSUME DistinctHashes, RInv, NEW e \in Entries, PopStep(e),
           NEW a \in agenda_map_, TakeInFocus(e, a)
    PROVE  AG!Take(a)
<1>1. /\ agenda_map_ \subseteq Activations
      /\ agenda_queue_ \in [Entries -> Nat] /\ deferred \in [Entries -> Nat]
      /\ agenda_queue_[e] > 0 /\ Popping /\ Len(out) < max_items
      /\ UNCHANGED <<focus_stack_, op, max_items>>
      /\ \A f \in Entries \ {e} : agenda_queue_[f] > 0 => Above(e, f)
  BY Zenon DEF RInv, IInv, TypeOK, Bag, PopStep, IsTop, aside
<1>2. PICK b \in Activations : e = EntryOf(b)
  BY <1>1, Zenon DEF RInv, Ordered
<1>3. e[1] = Salience[RuleOf[a]] /\ InFocus(a) /\ agenda_map_' = agenda_map_ \ {a}
      /\ out' = Append(out, [salience |-> e[1], activation |-> a])
  BY <1>1, <1>2, Zenon DEF TakeInFocus, AtHash, DistinctHashes, EntryOf
<1>4. ASSUME NEW c \in agenda_map_, InFocus(c) PROVE Salience[RuleOf[c]] <= e[1]
  <2>1. PICK s \in Saliences :
          agenda_queue_[<<s, HashOf[c]>>] + deferred[<<s, HashOf[c]>>] > 0
    BY Zenon DEF RInv, IInv, NoLostActivation
  <2> DEFINE f == <<s, HashOf[c]>>
  <2>2. f \in Entries /\ f[1] = s /\ f[2] = HashOf[c]
    BY <1>1, EntryType, Zenon DEF Entries
  <2>3. deferred[f] = 0
    BY <1>1, <1>4, <2>2 DEF RInv, Ordered
  <2>4. agenda_queue_[f] > 0
    BY <1>1, <2>1, <2>2, <2>3
  <2>5. PICK d \in Activations : f = EntryOf(d)
    BY <2>2, <2>4, Zenon DEF RInv, Ordered
  <2>6. s = Salience[RuleOf[c]]
    BY <1>1, <2>5, Zenon DEF EntryOf, DistinctHashes
  <2>7. f = e \/ Above(e, f)
    BY <1>1, <2>2, <2>4, Zenon
  <2>8. e[1] \in Int /\ s \in Int
    BY <1>1, <1>3, <2>6, AgendaAssumption, Zenon
  <2> QED BY <2>2, <2>6, <2>7, <2>8 DEF Above
<1>5. a \in AG!Eligible /\ \A c \in AG!Eligible : c \in agenda_map_ /\ InFocus(c)
  BY <1>1, <1>3, Zenon DEF AG!Eligible, AG!Focus, InFocus, Focus
<1> QED BY <1>1, <1>3, <1>4, <1>5, Zenon DEF AG!Take, Popping

\* A pop that ends with less than it may take leaves nothing in focus: an empty
\* queue has all the pending activations among the entries put aside.
LEMMA PopEndRefines ==
    ASSUME RInv, PopEnd
    PROVE  AG!End
<1>1. /\ agenda_map_ \subseteq Activations
      /\ agenda_queue_ \in [Entries -> Nat] /\ deferred \in [Entries -> Nat]
      /\ Popping /\ (Len(out) >= max_items \/ IsEmptyBag(agenda_queue_))
      /\ op' = "none" /\ UNCHANGED <<agenda_map_, focus_stack_, max_items, out>>
  BY Zenon DEF RInv, IInv, TypeOK, Bag, PopEnd, aside
<1>2. ASSUME IsEmptyBag(agenda_queue_), NEW c \in agenda_map_ PROVE ~InFocus(c)
  <2>1. PICK s \in Saliences :
          agenda_queue_[<<s, HashOf[c]>>] + deferred[<<s, HashOf[c]>>] > 0
    BY Zenon DEF RInv, IInv, NoLostActivation
  <2> DEFINE f == <<s, HashOf[c]>>
  <2>2. f \in Entries /\ f[2] = HashOf[c]
    BY <1>1, EntryType, Zenon DEF Entries
  <2>3. deferred[f] > 0
    BY <1>1, <1>2, <2>1, <2>2 DEF IsEmptyBag
  <2> QED BY <1>1, <2>2, <2>3, Zenon DEF RInv, Ordered
<1>3. \A c \in AG!Eligible : c \in agenda_map_ /\ InFocus(c)
  BY <1>1, Zenon DEF AG!Eligible, AG!Focus, InFocus, Focus
<1>4. Len(out) >= max_items \/ AG!Eligible = {}
  BY <1>1, <1>2, <1>3, Zenon
<1> QED BY <1>1, <1>4 DEF AG!End, Popping

\* Putting back the rest of a batch overwrites nothing.
LEMMA RequeueRefines ==
    ASSUME DistinctHashes, RInv, NEW i \in 1..Len(out), RequeueBatch(i)
    PROVE  AG!Requeue(i)
<1> DEFINE back == {out[j].activation : j \in i..Len(out)}
<1>1. out \in Seq([salience : Saliences, activation : Activations]) /\ Len(out) \in Nat
  BY DEF RInv, IInv, TypeOK
<1>2. ASSUME NEW j \in i..Len(out) PROVE out[j].activation \in Activations
  <2>1. j \in 1..Len(out)
    BY <1>1
  <2>2. out[j] \in [salience : Saliences, activation : Activations]
    BY <1>1, <2>1, ItemType, Zenon
  <2> QED BY <2>2, Zenon
<1>3. back \subseteq Activations /\ agenda_map_ \subseteq Activations
  BY <1>2, Zenon DEF RInv, IInv, TypeOK
<1>4. /\ agenda_map_' = {b \in agenda_map_ : \A a \in back : HashOf[a] # HashOf[b]} \cup back
      /\ op = "none" /\ out' = <<>> /\ UNCHANGED <<op, focus_stack_, max_items>>
  BY Zenon DEF RequeueBatch, aside
<1>5. agenda_map_' = agenda_map_ \cup back
  <2> HIDE DEF back
  <2> QED BY <1>3, <1>4, Zenon DEF DistinctHashes
<1> QED BY <1>4, <1>5, Zenon DEF AG!Requeue, Popping

\* Every step of the agenda is a step of AgendaSpec or changes nothing there.
LEMMA NextRefines == DistinctHashes /\ RInv /\ [Next]_vars => [AG!Next]_AG!vars
<1> SUFFICES ASSUME DistinctHashes, RInv, [Next]_vars PROVE AG!Next \/ UNCHANGED AG!vars
  BY Zenon
<1>1. ASSUME UNCHANGED <<agenda_map_, focus_stack_, max_items, out>>, Popping' = Popping
      PROVE  UNCHANGED AG!vars
  BY <1>1, Zenon DEF AG!vars
<1>2. CASE UNCHANGED vars
  BY <1>1, <1>2, Zenon DEF vars, store, aside, locals, Popping
<1>3. ASSUME NEW a \in Activations, Add(a) \/ AddWithDuration(a) \/ FlushReady(a)
      PROVE  AG!Next \/ UNCHANGED AG!vars
  <2>1. CASE PutActivation(a)
    <3>1. AG!Put(a)
      BY <1>3, <2>1, PutRefines, Zenon DEF Add, AddWithDuration, FlushReady, aside, locals, Popping
    <3> QED BY <3>1, Zenon DEF AG!Next
  <2>2. CASE UNCHANGED <<store, focus_stack_, locals>>
    BY <1>1, <2>2, Zenon DEF store, locals, Popping
  <2> QED BY <1>3, <2>1, <2>2, Zenon DEF Add, AddWithDuration, FlushReady
<1>4. CASE FlushBegin \/ FlushEnd \/ ClearActivationGroups \/ SeedLockOnActive \/ ClearLockOnActive
  BY <1>1, <1>4 DEF FlushBegin, FlushEnd, ClearActivationGroups, SeedLockOnActive,
                    ClearLockOnActive, store, aside, locals, Popping
<1>5. agenda_map_ \subseteq Activations
  BY Zenon DEF RInv, IInv, TypeOK
<1>6. ASSUME NEW h \in Hashes, Remove(h) PROVE AG!Next
  <2>1. AtHash(agenda_map_, h) \in SUBSET Activations
    BY <1>5, Zenon DEF AtHash
  <2> QED BY <1>6, <2>1, DiscardRefines, Zenon DEF Remove, RemoveAll, aside, locals
<1>7. ASSUME NEW f \in Facts, RemoveActivationsWithFact(f) PROVE AG!Next
  <2>1. {a \in agenda_map_ : f \in FactsOf[a]} \in SUBSET Activations
    BY <1>5, Zenon
  <2> QED BY <1>7, <2>1, DiscardRefines, Zenon DEF RemoveActivationsWithFact, RemoveAll, aside, locals
<1>8. ASSUME NEW g \in Groups, NEW h \in Hashes, CancelActivationGroup(g, h) PROVE AG!Next
  <2>1. {a \in agenda_map_ : HashOf[a] \in activation_group_map_[g] \ {h}} \in SUBSET Activations
    BY <1>5, Zenon
  <2> QED BY <1>8, <2>1, DiscardRefines, Zenon DEF CancelActivationGroup, aside, locals
<1>9. ASSUME NEW g \in Foci, SetFocus(g) PROVE AG!Next
  <2>1. AG!PushFocus(g)
    BY <1>9, Zenon DEF SetFocus, AG!PushFocus, store, locals, Popping
  <2> QED BY <2>1, Zenon DEF AG!Next
<1>10. CASE PopFocus
  <2>1. AG!DropFocus
    BY <1>10, Zenon DEF PopFocus, AG!DropFocus, store, locals, Popping
  <2> QED BY <2>1, Zenon DEF AG!Next
<1>11. ASSUME NEW m \in {"pop_next", "pop_batch"}, NEW n \in 0..MaxItems, PopBegin(m, n)
       PROVE  AG!Next
  <2>1. n \in Nat
    BY AgendaAssumption
  <2>2. AG!Begin
    BY <1>11, <2>1, Zenon DEF PopBegin, AG!Begin, store, aside, Popping
  <2> QED BY <2>2, Zenon DEF AG!Next
<1>12. ASSUME NEW e \in Entries, PopStep(e) PROVE AG!Next \/ UNCHANGED AG!vars
  <2>1. CASE SkipStale(e) \/ \E a \in agenda_map_ : DeferOutOfFocus(e, a)
    BY <1>1, <1>12, <2>1, Zenon DEF PopStep, SkipStale, DeferOutOfFocus, aside, Popping
  <2>2. ASSUME NEW a \in agenda_map_, TakeInFocus(e, a) PROVE AG!Next
    <3>1. AG!Take(a) /\ a \in Activations
      BY <1>5, <1>12, <2>2, TakeRefines, Zenon
    <3> QED BY <3>1, Zenon DEF AG!Next
  <2> QED BY <1>12, <2>1, <2>2, Zenon DEF PopStep
<1>13. CASE PopEnd
  BY <1>13, PopEndRefines, Zenon DEF AG!Next
<1>14. ASSUME NEW i \in 1..Len(out), RequeueBatch(i) PROVE AG!Next
  BY <1>14, RequeueRefines, Zenon DEF AG!Next
<1> QED
  BY <1>2, <1>3, <1>4, <1>6, <1>7, <1>8, <1>9, <1>10, <1>11, <1>12, <1>13, <1>14, Zenon DEF Next

\* For any activations, rules, saliences and agenda groups, if the hashes are
\* distinct: the agenda with its lazily cleaned queue implements AgendaSpec.  Each
\* pop takes a pending activation of the focused group with the highest salience,
\* and returns fewer than asked only when that group has none left (pop_next,
\* pop_next_batch_activations, requeue_batch_activations, compact_if_needed).
THEOREM AgendaImplementsSpec ==
    ASSUME DistinctHashes
    PROVE  Spec => ImplementsAgendaSpec
<1>1. Init => RInv
  BY InitIInv, InitOrdered, Zenon DEF RInv
<1>2. RInv /\ [Next]_vars => RInv'
  BY NextIInv, NextOrdered, Zenon DEF RInv
<1>3. RInv /\ [Next]_vars => [AG!Next]_AG!vars
  BY NextRefines, Zenon
<1> QED BY <1>1, <1>2, <1>3, InitRefines, PTL DEF Spec, ImplementsAgendaSpec, AG!Spec
=============================================================================
