------------------------------- MODULE Agenda -------------------------------
(***************************************************************************)
(* The agenda of rulesforge/include/engine/agenda.hpp: activations waiting *)
(* to fire, in a hash map, and a priority queue of (salience, hash) that   *)
(* is cleaned lazily: remove() leaves the queue alone, so the queue holds  *)
(* stale and duplicate entries that the pops skip and compaction drops.    *)
(*                                                                         *)
(* The loops of pop_next, pop_next_batch_activations and                   *)
(* flush_ready_delayed are one action per iteration; `op` says which       *)
(* method is running, and no other method runs meanwhile.                  *)
(***************************************************************************)
EXTENDS Integers, Sequences, FiniteSets, FiniteSetsExt

CONSTANTS
    Activations,      \* activations the network can create
    Rules,
    Facts,
    RuleOf,           \* rule of each activation
    FactsOf,          \* facts in the token of each activation
    HashOf,           \* hash_value: address of the token XOR address of the rule
    Salience,         \* attributes of each rule
    AgendaGroup,      \* agenda_group.value_or("MAIN")
    ActivationGroup,  \* activation_group, or NoGroup
    LockOnActive,     \* the rules with lock-on-active
    Timed,            \* the rules with duration > 0
    Main,             \* "MAIN"
    NoGroup,
    StaleLimit,       \* the 64 of compact_if_needed
    MaxEntries,       \* bound: copies of one queue entry
    MaxItems,         \* bound: the max_items argument
    MaxFocus          \* bound: depth of focus_stack_

Groups == {ActivationGroup[r] : r \in Rules} \ {NoGroup}
Hashes == {HashOf[a] : a \in Activations}
Saliences == {Salience[r] : r \in Rules}
Foci == {AgendaGroup[r] : r \in Rules} \cup {Main}

\* A queue entry is <<salience, hash>>; a queue is a bag of entries.
Entries == Saliences \X Hashes
Bag == [Entries -> Nat]

ASSUME AgendaAssumption ==
    /\ RuleOf \in [Activations -> Rules]
    /\ FactsOf \in [Activations -> SUBSET Facts]
    /\ HashOf \in [Activations -> Nat]
    /\ Salience \in [Rules -> Int]
    /\ LockOnActive \subseteq Rules
    /\ Timed \subseteq Rules
    /\ StaleLimit \in Nat
    /\ MaxEntries \in Nat
    /\ MaxItems \in Nat
    /\ MaxFocus \in Nat

VARIABLES
    agenda_map_,            \* set of activations, at most one per hash
    agenda_queue_,          \* bag of entries
    activation_group_map_,  \* group -> set of hashes
    delayed_activations_,   \* bag of activations: how often each is waiting
    focus_stack_,
    lock_on_active_blocked_,
    op,                     \* the running method, or "none"
    max_items,              \* its argument
    out,                    \* its result: <<[salience, activation], ...>>
    deferred,               \* its local: bag of entries out of focus
    stale_skipped           \* its local

store == <<agenda_map_, agenda_queue_, activation_group_map_>>
aside == <<delayed_activations_, focus_stack_, lock_on_active_blocked_>>
locals == <<op, max_items, out, deferred, stale_skipped>>
vars == <<store, aside, locals>>

-----------------------------------------------------------------------------
EmptyBag == [e \in Entries |-> 0]
EntryOf(a) == <<Salience[RuleOf[a]], HashOf[a]>>
Push(bag, e) == [bag EXCEPT ![e] = @ + 1]
PopEntry(bag, e) == [bag EXCEPT ![e] = @ - 1]
Merge(b, c) == [e \in Entries |-> b[e] + c[e]]
BagSize(bag) == MapThenSumSet(LAMBDA e : bag[e], Entries)

\* The order of std::pair<int, size_t>, and the top of a priority queue.
Above(e, f) == e[1] > f[1] \/ (e[1] = f[1] /\ e[2] > f[2])
IsTop(e, bag) ==
    /\ bag[e] > 0
    /\ \A f \in Entries \ {e} : bag[f] > 0 => Above(e, f)
IsEmptyBag(bag) == \A e \in Entries : bag[e] = 0

\* agenda_map_[hash] = activation overwrites what has the same hash.
MapPut(map, a) == {b \in map : HashOf[b] # HashOf[a]} \cup {a}
AtHash(map, h) == {b \in map : HashOf[b] = h}

\* The group index: insert and erase the hash of an activation that has a group.
\* (An empty set stands for a group without an entry.)
GroupPut(groups, a) ==
    [g \in Groups |-> IF g = ActivationGroup[RuleOf[a]]
                      THEN groups[g] \cup {HashOf[a]} ELSE groups[g]]
GroupErase(groups, A) ==
    [g \in Groups |-> groups[g] \ {HashOf[a] : a \in {b \in A : ActivationGroup[RuleOf[b]] = g}}]

\* get_focus
Focus == IF focus_stack_ = <<>> THEN Main ELSE focus_stack_[Len(focus_stack_)]
InFocus(a) == AgendaGroup[RuleOf[a]] = Focus

-----------------------------------------------------------------------------
Init ==
    /\ agenda_map_ = {}
    /\ agenda_queue_ = EmptyBag
    /\ activation_group_map_ = [g \in Groups |-> {}]
    /\ delayed_activations_ = [a \in Activations |-> 0]
    /\ focus_stack_ = <<>>
    /\ lock_on_active_blocked_ = {}
    /\ op = "none"
    /\ max_items = 0
    /\ out = <<>>
    /\ deferred = EmptyBag
    /\ stale_skipped = 0

\* The body of add(), which flush_ready_delayed calls too.
PutActivation(a) ==
    /\ agenda_queue_[EntryOf(a)] < MaxEntries
    /\ agenda_map_' = MapPut(agenda_map_, a)
    /\ agenda_queue_' = Push(agenda_queue_, EntryOf(a))
    /\ activation_group_map_' = GroupPut(activation_group_map_, a)

\* add; add_batch is a sequence of these, whatever the duration of the rule.
Add(a) ==
    /\ op = "none"
    /\ PutActivation(a)
    /\ UNCHANGED <<aside, locals>>

\* add_with_duration
AddWithDuration(a) ==
    /\ op = "none"
    /\ IF RuleOf[a] \in Timed
       THEN /\ delayed_activations_[a] < MaxEntries
            /\ delayed_activations_' = [delayed_activations_ EXCEPT ![a] = @ + 1]
            /\ UNCHANGED store
       ELSE PutActivation(a) /\ UNCHANGED delayed_activations_
    /\ UNCHANGED <<focus_stack_, lock_on_active_blocked_, locals>>

\* flush_ready_delayed: every activation whose fire_time has come is added.
FlushBegin ==
    /\ op = "none"
    /\ op' = "flush"
    /\ UNCHANGED <<store, aside, max_items, out, deferred, stale_skipped>>

FlushReady(a) ==
    /\ op = "flush"
    /\ delayed_activations_[a] > 0
    /\ delayed_activations_' = [delayed_activations_ EXCEPT ![a] = @ - 1]
    /\ PutActivation(a)
    /\ UNCHANGED <<focus_stack_, lock_on_active_blocked_, locals>>

FlushEnd ==
    /\ op = "flush"
    /\ op' = "none"
    /\ UNCHANGED <<store, aside, max_items, out, deferred, stale_skipped>>

\* remove of each activation of A that is in the map: the queue keeps the entries.
RemoveAll(A) ==
    /\ agenda_map_' = agenda_map_ \ A
    /\ activation_group_map_' = GroupErase(activation_group_map_, A \cap agenda_map_)
    /\ UNCHANGED <<agenda_queue_, aside, locals>>

\* remove(hash)
Remove(h) ==
    /\ op = "none"
    /\ RemoveAll(AtHash(agenda_map_, h))

\* remove_activations_with_fact_id: pending activations only, delayed ones stay.
RemoveActivationsWithFact(f) ==
    /\ op = "none"
    /\ RemoveAll({a \in agenda_map_ : f \in FactsOf[a]})

\* cancel_activation_group: every indexed member but the one that fires.  The
\* index entry of a hash that is no longer in the map stays.
CancelActivationGroup(g, except) ==
    LET cancelled == {a \in agenda_map_ : HashOf[a] \in activation_group_map_[g] \ {except}}
    IN  /\ op = "none"
        /\ agenda_map_' = agenda_map_ \ cancelled
        /\ activation_group_map_' =
             [GroupErase(activation_group_map_, cancelled) EXCEPT ![g] = @ \ {except}]
        /\ UNCHANGED <<agenda_queue_, aside, locals>>

\* clear_activation_groups
ClearActivationGroups ==
    /\ op = "none"
    /\ activation_group_map_' = [g \in Groups |-> {}]
    /\ UNCHANGED <<agenda_map_, agenda_queue_, aside, locals>>

\* set_focus and pop_focus
SetFocus(g) ==
    /\ op = "none"
    /\ Len(focus_stack_) < MaxFocus
    /\ focus_stack_' = Append(focus_stack_, g)
    /\ UNCHANGED <<store, delayed_activations_, lock_on_active_blocked_, locals>>

PopFocus ==
    /\ op = "none"
    /\ focus_stack_ # <<>>
    /\ focus_stack_' = SubSeq(focus_stack_, 1, Len(focus_stack_) - 1)
    /\ UNCHANGED <<store, delayed_activations_, lock_on_active_blocked_, locals>>

\* seed_lock_on_active_for_focus and clear_lock_on_active
SeedLockOnActive ==
    /\ op = "none"
    /\ lock_on_active_blocked_' =
         {r \in LockOnActive : \E a \in agenda_map_ : RuleOf[a] = r /\ InFocus(a)}
    /\ UNCHANGED <<store, delayed_activations_, focus_stack_, locals>>

ClearLockOnActive ==
    /\ op = "none"
    /\ lock_on_active_blocked_' = {}
    /\ UNCHANGED <<store, delayed_activations_, focus_stack_, locals>>

-----------------------------------------------------------------------------
\* pop_next (one item) and pop_next_batch_activations(max_items)
PopBegin(method, n) ==
    /\ op = "none"
    /\ method = "pop_next" => n = 1
    /\ op' = method
    /\ max_items' = n
    /\ out' = <<>>
    /\ UNCHANGED <<store, aside, deferred, stale_skipped>>

Popping == op \in {"pop_next", "pop_batch"}

\* The three branches of the loop body, for the entry e at the top of the queue.
SkipStale(e) ==
    /\ AtHash(agenda_map_, e[2]) = {}
    /\ stale_skipped' = stale_skipped + 1
    /\ UNCHANGED <<agenda_map_, activation_group_map_, out, deferred>>

\* Mutant: the popped activation is not erased from the map.
TakeWithoutErase(e, a) ==
    /\ a \in AtHash(agenda_map_, e[2])
    /\ InFocus(a)
    /\ out' = Append(out, [salience |-> e[1], activation |-> a])
    /\ UNCHANGED <<agenda_map_, activation_group_map_, deferred, stale_skipped>>

TakeInFocus(e, a) ==
    /\ a \in AtHash(agenda_map_, e[2])
    /\ InFocus(a)
    /\ agenda_map_' = agenda_map_ \ {a}
    /\ out' = Append(out, [salience |-> e[1], activation |-> a])
    /\ activation_group_map_' = IF op = "pop_batch"
                                THEN GroupErase(activation_group_map_, {a})
                                ELSE activation_group_map_
    /\ UNCHANGED <<deferred, stale_skipped>>

DeferOutOfFocus(e, a) ==
    /\ a \in AtHash(agenda_map_, e[2])
    /\ ~InFocus(a)
    /\ deferred' = Push(deferred, e)
    /\ UNCHANGED <<agenda_map_, activation_group_map_, out, stale_skipped>>

PopStep(e) ==
    /\ Popping
    /\ Len(out) < max_items
    /\ IsTop(e, agenda_queue_)
    /\ agenda_queue_' = PopEntry(agenda_queue_, e)
    /\ \/ SkipStale(e)
       \/ \E a \in agenda_map_ : TakeInFocus(e, a) \/ DeferOutOfFocus(e, a)
    /\ UNCHANGED <<aside, op, max_items>>

\* Mutant: the rebuilt queue forgets the salience of the rules.
CompactedWithoutSalience(queue) ==
    IF stale_skipped > StaleLimit /\ BagSize(queue) > 2 * Cardinality(agenda_map_)
    THEN [e \in Entries |-> IF \E a \in agenda_map_ : e = <<0, HashOf[a]>> THEN 1 ELSE 0]
    ELSE queue

\* compact_if_needed: rebuild the queue from the map.
Compacted(queue) ==
    IF stale_skipped > StaleLimit /\ BagSize(queue) > 2 * Cardinality(agenda_map_)
    THEN [e \in Entries |-> IF \E a \in agenda_map_ : EntryOf(a) = e THEN 1 ELSE 0]
    ELSE queue

\* Mutants: the deferred entries are forgotten; the count of stale entries is
\* not reset.
PopEndDropsDeferred ==
    /\ Popping
    /\ Len(out) >= max_items \/ IsEmptyBag(agenda_queue_)
    /\ agenda_queue_' = Compacted(agenda_queue_)
    /\ deferred' = EmptyBag
    /\ stale_skipped' = 0
    /\ op' = "none"
    /\ UNCHANGED <<agenda_map_, activation_group_map_, aside, max_items, out>>

PopEndKeepsStaleCount ==
    /\ Popping
    /\ Len(out) >= max_items \/ IsEmptyBag(agenda_queue_)
    /\ agenda_queue_' = Compacted(Merge(agenda_queue_, deferred))
    /\ deferred' = EmptyBag
    /\ op' = "none"
    /\ UNCHANGED <<agenda_map_, activation_group_map_, aside, max_items, out, stale_skipped>>

\* The end of both methods: the deferred entries go back.
PopEnd ==
    /\ Popping
    /\ Len(out) >= max_items \/ IsEmptyBag(agenda_queue_)
    /\ agenda_queue_' = Compacted(Merge(agenda_queue_, deferred))
    /\ deferred' = EmptyBag
    /\ stale_skipped' = 0
    /\ op' = "none"
    /\ UNCHANGED <<agenda_map_, activation_group_map_, aside, max_items, out>>

\* requeue_batch_activations(batch, i): the rest of the last batch goes back,
\* with the salience it was popped with.
RequeueBatch(i) ==
    LET rest == i..Len(out)
        back == {out[j].activation : j \in rest}
        EntryAt(j) == <<out[j].salience, HashOf[out[j].activation]>>
    IN  /\ op = "none"
        /\ \A j \in rest : agenda_queue_[EntryAt(j)] < MaxEntries
        /\ agenda_map_' =
             {b \in agenda_map_ : \A a \in back : HashOf[a] # HashOf[b]} \cup back
        /\ agenda_queue_' = [e \in Entries |->
             agenda_queue_[e] + Cardinality({j \in rest : EntryAt(j) = e})]
        /\ activation_group_map_' = [g \in Groups |-> activation_group_map_[g] \cup
             {HashOf[a] : a \in {b \in back : ActivationGroup[RuleOf[b]] = g}}]
        /\ out' = <<>>
        /\ UNCHANGED <<aside, op, max_items, deferred, stale_skipped>>

-----------------------------------------------------------------------------
Next ==
    \/ \E a \in Activations : Add(a) \/ AddWithDuration(a) \/ FlushReady(a)
    \/ FlushBegin \/ FlushEnd
    \/ \E h \in Hashes : Remove(h)
    \/ \E f \in Facts : RemoveActivationsWithFact(f)
    \/ \E g \in Groups, h \in Hashes : CancelActivationGroup(g, h)
    \/ ClearActivationGroups
    \/ \E g \in Foci : SetFocus(g)
    \/ PopFocus
    \/ SeedLockOnActive \/ ClearLockOnActive
    \/ \E m \in {"pop_next", "pop_batch"}, n \in 0..MaxItems : PopBegin(m, n)
    \/ \E e \in Entries : PopStep(e)
    \/ PopEnd
    \/ \E i \in 1..Len(out) : RequeueBatch(i)

Spec == Init /\ [][Next]_vars

-----------------------------------------------------------------------------
\* Types.  The map keeps one activation per hash, a batch never holds more than
\* was asked for, and only a running pop has deferred entries.
TypeOK ==
    /\ agenda_map_ \subseteq Activations
    /\ \A a, b \in agenda_map_ : HashOf[a] = HashOf[b] => a = b
    /\ agenda_queue_ \in Bag
    /\ activation_group_map_ \in [Groups -> SUBSET Hashes]
    /\ delayed_activations_ \in [Activations -> Nat]
    /\ focus_stack_ \in Seq(Foci)
    /\ lock_on_active_blocked_ \subseteq LockOnActive
    /\ op \in {"none", "flush", "pop_next", "pop_batch"}
    /\ max_items \in Nat
    /\ out \in Seq([salience : Saliences, activation : Activations])
    /\ Len(out) <= max_items
    /\ deferred \in Bag
    /\ stale_skipped \in Nat
    /\ ~Popping => IsEmptyBag(deferred) /\ stale_skipped = 0

\* What is in a batch is off the agenda: its items have hashes of their own, and
\* while the pop runs none of them is in the map, so that a requeue cannot put
\* one activation over another.
BatchDetached ==
    /\ \A i, j \in 1..Len(out) :
         HashOf[out[i].activation] = HashOf[out[j].activation] => i = j
    /\ Popping => \A i \in 1..Len(out) : AtHash(agenda_map_, HashOf[out[i].activation]) = {}

\* Lazy deletion loses nothing: an activation on the agenda always has a queue
\* entry that leads to it, however adds, removals, requeues, focus changes, pops
\* that defer entries and compactions follow each other (agenda.hpp: remove,
\* both pops, compact_if_needed).  Without an entry it would never fire.
NoLostActivation ==
    \A a \in agenda_map_ :
        \E s \in Saliences : agenda_queue_[<<s, HashOf[a]>>] + deferred[<<s, HashOf[a]>>] > 0

\* The agenda with its lazily cleaned queue does what AgendaSpec promises: each
\* pop takes a pending activation of the focused group with the highest salience
\* and returns fewer than asked only when that group has none left.
AG == INSTANCE AgendaSpec WITH
        SalienceOf <- [a \in Activations |-> Salience[RuleOf[a]]],
        FocusOf <- [a \in Activations |-> AgendaGroup[RuleOf[a]]],
        pending <- agenda_map_, popping <- Popping, want <- max_items, batch <- out

ImplementsAgendaSpec == AG!Spec
=============================================================================
