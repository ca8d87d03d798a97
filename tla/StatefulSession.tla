-------------------------- MODULE StatefulSession --------------------------
(***************************************************************************)
(* The execution core of a session (engine/stateful_session.cpp): working  *)
(* memory, the matches of the rules, the agenda, the firing loop, the RHS  *)
(* transaction with its commit and rollback, and truth maintenance         *)
(* (engine/tms.cpp).                                                       *)
(*                                                                         *)
(* Rules have one pattern each, so a match is a fact that the rule         *)
(* accepts; the network below the session is then an alpha node, a join    *)
(* with the root and a terminal node per rule (rete/rete_node.cpp,         *)
(* rete_node_terminal.inc).  A fact has one field.  An RHS is any sequence *)
(* of at most MaxOps actions, so every program of that length is covered.  *)
(* The agenda is taken as AgendaSpec promises it.                          *)
(*                                                                         *)
(* Two rules may share the TokenWME of a fact (get_or_create_wme); here    *)
(* each has a token of its own.  Every change of a fact ends the tokens of *)
(* all rules on it, so shared tokens end together.  The rules are those of *)
(* a knowledge base that lists a rule with a wider pattern first: no rule  *)
(* then takes over the token that the RHS of another is running on.        *)
(*                                                                         *)
(* A batch has facts with one value, which an alpha node accepts or        *)
(* rejects as a whole; MatchNetwork has mixed batches.  Every pattern has  *)
(* a constraint, so every rule has an alpha node.                          *)
(***************************************************************************)
EXTENDS Integers, Sequences

CONSTANTS
    Facts,
    Vals,            \* values of the field
    Bad,             \* the values that break the declared schema
    Strict,          \* validation_mode_ = ValidationMode::Strict
    Rules,
    Pattern,         \* rule -> the values its pattern accepts
    Salience,
    AgendaGroup,     \* agenda_group.value_or("MAIN")
    Main,            \* "MAIN"
    ActivationGroup, \* activation_group, or NoGroup
    NoGroup,
    NoLoop,          \* rules with no-loop
    LockOnActive,    \* rules with lock-on-active
    AutoFocus,       \* rules with auto-focus and an agenda group
    Timed,           \* rules with duration > 0
    BatchSize,       \* kAgendaBatchSize, 64 in the code
    NoToken,
    NoVal,
    Limits,          \* bound: the max_rules arguments tried, -1 for none
    MaxCalls,        \* bound: calls between two resets
    MaxOps,          \* bound: actions of one RHS
    MaxGen           \* bound: tokens made for one fact

ASSUME SessionAssumption ==
    /\ Bad \subseteq Vals
    /\ NoVal \notin Vals
    /\ NoToken \notin [rule : Rules, fact : Facts, gen : Nat]
    /\ Strict \in BOOLEAN
    /\ Pattern \in [Rules -> SUBSET Vals]
    /\ Salience \in [Rules -> Int]
    /\ NoLoop \subseteq Rules
    /\ LockOnActive \subseteq Rules
    /\ AutoFocus \subseteq Rules
    /\ Timed \subseteq Rules
    /\ BatchSize \in Nat \ {0}
    /\ Limits \subseteq Int
    /\ MaxCalls \in Nat
    /\ MaxOps \in Nat
    /\ MaxGen \in Nat

VARIABLES
    wm,        \* working_memory_: the facts in it
    val,       \* the field of each fact, NoVal before its first use
    fresh,     \* facts the session has not used yet
    gen,       \* how many tokens each fact has had
    memory,    \* the tokens in the terminal nodes: the current matches
    pending,   \* agenda_: activations waiting to fire
    delayed,   \* delayed_activations_
    grouped,   \* the pending activations in activation_group_map_
    focus,     \* get_focus(): the top of the focus stack
    noloop,    \* no_loop_blocked_
    locked,    \* lock_on_active_blocked_
    just,      \* the token that justifies a logical fact (tms_), or NoToken
    calls,     \* calls made since the last reset
    pc,        \* where fire_all_rules is; "idle" outside of it
    max,       \* its max_rules
    fired,     \* its total_fired_count
    batch,     \* the rest of the batch it popped
    current,   \* current_activation_
    ops,       \* actions the RHS has done
    halt,      \* halt_requested_
    consistent,\* is_consistent_
    inserted,  \* transaction_inserted_facts_
    retracted, \* transaction_retracted_facts_
    snapshot,  \* transaction_updated_fact_snapshots_: of the fact of the token
    rollback_ok,
    saved,     \* history: <<wm, val>> when the transaction began
    logical,   \* history: facts made by insertLogical
    settled    \* history: activations that fired, or were refused, cancelled or
               \* lost in an exception

store == <<wm, val, fresh, gen>>
agenda == <<pending, delayed, grouped, focus, settled>>
blocks == <<noloop, locked>>
tms == <<just, logical>>
loop == <<max, fired, batch, current>>
tx == <<inserted, snapshot, rollback_ok, saved>>
flags == <<halt, consistent>>
vars == <<calls, store, memory, agenda, blocks, tms, pc, loop, ops, flags, tx, retracted>>

Token == [rule : Rules, fact : Facts, gen : Nat]
Foci == {AgendaGroup[r] : r \in Rules} \cup {Main}
Elems(s) == {s[i] : i \in 1..Len(s)}

-----------------------------------------------------------------------------
(* The network under the session *)

\* The tokens that the value v gives the fact f, as the n-th of its tokens.
TokensFor(f, v, n) == {[rule |-> r, fact |-> f, gen |-> n] : r \in {q \in Rules : v \in Pattern[q]}}
LiveOn(F) == {t \in memory : t.fact \in F}

\* Mutant of Blocked: no-loop is not asked.
BlockedByLockOnly(t) == t.rule \in LockOnActive /\ t.rule \in locked

\* add_activation: what no-loop and lock-on-active refuse.
Blocked(t) ==
    \/ t.rule \in NoLoop /\ <<t.rule, t.fact>> \in noloop
    \/ t.rule \in LockOnActive /\ t.rule \in locked

\* Mutant of Doomed: no cascade.
DirectlyDoomed(W, T) == {f \in W : just[f] \in T}

\* remove_justifications_by_token, for tokens that leave the terminal nodes: the
\* facts they justify are retracted, which takes the tokens of those facts, and
\* so on.  The least set of facts in W closed under that.
Doomed(W, T) ==
    {f \in W : \A S \in SUBSET W :
        (\A g \in W : just[g] \in T \cup LiveOn(S) => g \in S) => f \in S}

\* What reaches the terminal nodes when a fact changes: the tokens `dead` leave,
\* the tokens `born` come.  W is the working memory after the change itself, out
\* are the facts it retracts: remove_activations_with_fact_id, on_fact_retracted.
\* Inside a transaction retract_fact defers what truth maintenance retracts.
\* `timed` are the rules whose duration counts: add_batch ignores it.  J is just
\* with the justification of a new logical fact.
Propagate(W, out, dead, born, timed, J) ==
    LET gone == IF pc = "rhs" THEN {} ELSE Doomed(W, dead)
        off == dead \cup LiveOn(gone)
        accepted == {t \in born : ~Blocked(t)}
        late == {t \in accepted : t.rule \in timed}
        Stays(a) == a \notin off /\ a.fact \notin gone \cup out
        autos == {t.rule : t \in {u \in born : u.rule \in AutoFocus}}
    IN  /\ wm' = W \ gone
        /\ memory' = (memory \ off) \cup born
        /\ pending' = {a \in pending : Stays(a)} \cup (accepted \ late)
        /\ grouped' = {a \in grouped : Stays(a)}
                        \cup {t \in accepted \ late : ActivationGroup[t.rule] # NoGroup}
        /\ delayed' = delayed \cup late
        /\ settled' = settled \cup (born \ accepted)
        /\ focus' \in IF autos = {} THEN {focus} ELSE {AgendaGroup[r] : r \in autos}
        /\ just' = [g \in Facts |-> IF just[g] \in off \/ g \in gone \cup out
                                    THEN NoToken ELSE J[g]]

\* right_activate with ASSERT, RETRACT and MODIFY.  A modified fact that matched
\* loses its token and, if it still matches, gets a new one.
AssertFact(f, v, J) ==
    /\ val' = [val EXCEPT ![f] = v]
    /\ gen' = [gen EXCEPT ![f] = @ + 1]
    /\ Propagate(wm \cup {f}, {}, {}, TokensFor(f, v, gen[f] + 1), Timed, J)

RetractFactNow(f) ==
    /\ Propagate(wm \ {f}, {f}, LiveOn({f}), {}, Timed, just)
    /\ UNCHANGED <<val, gen>>

ModifyFact(f, v) ==
    /\ val' = [val EXCEPT ![f] = v]
    /\ gen' = [gen EXCEPT ![f] = @ + 1]
    /\ Propagate(wm, {}, LiveOn({f}), TokensFor(f, v, gen[f] + 1), Timed, just)

-----------------------------------------------------------------------------
Init ==
    /\ wm = {}
    /\ val = [f \in Facts |-> NoVal]
    /\ fresh = Facts
    /\ gen = [f \in Facts |-> 0]
    /\ memory = {}
    /\ pending = {} /\ delayed = {} /\ grouped = {} /\ settled = {}
    /\ focus = Main
    /\ noloop = {} /\ locked = {}
    /\ just = [f \in Facts |-> NoToken] /\ logical = {}
    /\ calls = 0
    /\ pc = "idle" /\ max = 0 /\ fired = 0 /\ batch = <<>> /\ current = NoToken
    /\ ops = 0
    /\ halt = FALSE /\ consistent = TRUE
    /\ inserted = {} /\ retracted = {} /\ snapshot = NoVal /\ rollback_ok = TRUE
    /\ saved = <<>>

-----------------------------------------------------------------------------
(* Calls of the owner between two runs of fire_all_rules *)

Idle == pc = "idle" /\ consistent   \* ensure_consistent_for_mutation
Valid(v) == ~(Strict /\ v \in Bad)  \* validate_fact_for_insert

AddFact(f, v) ==
    /\ Idle
    /\ Valid(v)
    /\ f \notin wm /\ gen[f] < MaxGen
    /\ fresh' = fresh \ {f}
    /\ AssertFact(f, v, just)
    /\ UNCHANGED <<blocks, logical, pc, loop, ops, flags, tx, retracted>>

\* add_facts: all facts are validated first, then propagated together; the
\* terminal nodes use add_activations_batch.
AddFacts(F, v) ==
    /\ Idle
    /\ Valid(v)
    /\ F # {} /\ \A f \in F : f \notin wm /\ gen[f] < MaxGen
    /\ fresh' = fresh \ F
    /\ val' = [f \in Facts |-> IF f \in F THEN v ELSE val[f]]
    /\ gen' = [f \in Facts |-> IF f \in F THEN gen[f] + 1 ELSE gen[f]]
    /\ Propagate(wm \cup F, {}, {}, UNION {TokensFor(f, v, gen[f] + 1) : f \in F}, {}, just)
    /\ UNCHANGED <<blocks, logical, pc, loop, ops, flags, tx, retracted>>

RetractFact(f) ==
    /\ Idle
    /\ f \in wm
    /\ RetractFactNow(f)
    /\ UNCHANGED <<fresh, blocks, logical, pc, loop, ops, flags, tx, retracted>>

\* retract_facts: neither the agenda nor truth maintenance is told of the facts
\* themselves; what their tokens meant to both goes with the tokens.
RetractFacts(F) ==
    /\ Idle
    /\ F # {} /\ F \subseteq wm
    /\ Propagate(wm \ F, {}, LiveOn(F), {}, Timed, just)
    /\ UNCHANGED <<val, gen, fresh, blocks, logical, pc, loop, ops, flags, tx, retracted>>

UpdateFact(f, v) ==
    /\ Idle
    /\ f \in wm /\ gen[f] < MaxGen
    /\ ModifyFact(f, v)
    /\ UNCHANGED <<fresh, blocks, logical, pc, loop, ops, flags, tx, retracted>>

SetFocus(g) ==
    /\ Idle
    /\ focus' = g
    /\ UNCHANGED <<store, memory, pending, delayed, grouped, settled, blocks, tms, pc, loop,
                   ops, flags, tx, retracted>>

\* reset: the only call an inconsistent session accepts.
Reset ==
    /\ pc = "idle"
    /\ wm' = {} /\ val' = [f \in Facts |-> NoVal] /\ fresh' = Facts
    /\ gen' = [f \in Facts |-> 0]
    /\ memory' = {}
    /\ pending' = {} /\ delayed' = {} /\ grouped' = {} /\ settled' = {}
    /\ focus' = Main
    /\ noloop' = {} /\ locked' = {}
    /\ just' = [f \in Facts |-> NoToken] /\ logical' = {}
    /\ halt' = FALSE /\ consistent' = TRUE
    /\ inserted' = {} /\ retracted' = {} /\ snapshot' = NoVal
    /\ UNCHANGED <<pc, loop, ops, rollback_ok, saved>>

-----------------------------------------------------------------------------
(* fire_all_rules_impl *)

InFocus(a) == AgendaGroup[a.rule] = focus
LimitReached == max >= 0 /\ fired >= max

\* Entry: halt_requested_ is reset, seed_lock_on_active_for_focus.
FireBegin(m) ==
    /\ Idle
    /\ max' = m /\ fired' = 0
    /\ halt' = FALSE
    /\ locked' = {a.rule : a \in {b \in pending : b.rule \in LockOnActive /\ InFocus(b)}}
    /\ pc' = "loop"
    /\ UNCHANGED <<store, memory, agenda, noloop, tms, batch, current, ops, consistent, tx, retracted>>

\* pop_next_batch_activations(n) on the pending set P: n activations in focus, or
\* all of them, none passed over for one of a lower salience.
Batches(P, n) ==
    LET C == {a \in P : InFocus(a)}
        S(a) == Salience[a.rule]
    IN  {b \in UNION {[1..k -> C] : k \in 0..n} :
            /\ Len(b) < n => C \subseteq Elems(b)
            /\ \A i, j \in 1..Len(b) : i < j => b[i] # b[j] /\ S(b[i]) >= S(b[j])
            /\ \A c \in C \ Elems(b) : \A i \in 1..Len(b) : S(b[i]) >= S(c)}

Budget == IF max >= 0 /\ max - fired < BatchSize THEN max - fired ELSE BatchSize

\* The head of the loop: flush_ready_delayed adds the delayed activations whose
\* time has come; then the loop ends or takes a batch.
LoopHead ==
    /\ pc = "loop"
    /\ \E ready \in SUBSET delayed :
         LET added == pending \cup ready
             regrouped == grouped \cup {a \in ready : ActivationGroup[a.rule] # NoGroup}
         IN  /\ delayed' = delayed \ ready
             /\ \/ /\ LimitReached
                   /\ pending' = added /\ grouped' = regrouped
                   /\ pc' = "end"
                   /\ UNCHANGED batch
                \/ /\ ~LimitReached
                   /\ \E b \in Batches(added, Budget) :
                        /\ batch' = b
                        /\ pending' = added \ Elems(b)
                        /\ grouped' = regrouped \ Elems(b)
                        /\ pc' = IF b = <<>> THEN "end" ELSE "batch"
    /\ UNCHANGED <<store, memory, focus, settled, blocks, tms, max, fired, current, ops,
                   flags, tx, retracted>>

\* An exception leaves fire_all_rules_impl: the rest of the batch is gone and
\* nothing is cleared.
Escape(rest) ==
    /\ pc' = "idle"
    /\ settled' = settled \cup Elems(rest)
    /\ batch' = <<>> /\ current' = NoToken /\ max' = 0 /\ fired' = 0 /\ ops' = 0

\* The end of the loop: the state of this cycle is cleared.
FireEnd ==
    /\ pc = "end"
    /\ noloop' = {} /\ locked' = {} /\ grouped' = {}
    /\ focus' = Main
    /\ pc' = "idle" /\ max' = 0 /\ fired' = 0
    /\ UNCHANGED <<store, memory, pending, delayed, settled, tms, batch, current, ops, flags,
                   tx, retracted>>

\* Between two activations of a batch: the batch is over, or halt or the limit
\* puts its rest back on the agenda (requeue_batch_activations).
BatchDone ==
    /\ pc = "batch" /\ batch = <<>>
    /\ pc' = IF halt \/ LimitReached THEN "end" ELSE "loop"
    /\ UNCHANGED <<store, memory, agenda, blocks, tms, loop, ops, flags, tx, retracted>>

\* Mutant of Requeue: off by one, from the next activation.
RequeueFromNext ==
    /\ pc = "batch" /\ batch # <<>>
    /\ halt \/ LimitReached
    /\ pending' = pending \cup Elems(Tail(batch))
    /\ grouped' = grouped \cup {a \in Elems(Tail(batch)) : ActivationGroup[a.rule] # NoGroup}
    /\ batch' = <<>>
    /\ pc' = "end"
    /\ UNCHANGED <<store, memory, delayed, focus, settled, blocks, tms, max, fired, current,
                   ops, flags, tx, retracted>>

Requeue ==
    /\ pc = "batch" /\ batch # <<>>
    /\ halt \/ LimitReached
    /\ pending' = pending \cup Elems(batch)
    /\ grouped' = grouped \cup {a \in Elems(batch) : ActivationGroup[a.rule] # NoGroup}
    /\ batch' = <<>>
    /\ pc' = "end"
    /\ UNCHANGED <<store, memory, delayed, focus, settled, blocks, tms, max, fired, current,
                   ops, flags, tx, retracted>>

\* Mutant of SkipStale: the stale activation goes back to the agenda.
PutBackStale ==
    /\ pc = "batch" /\ batch # <<>>
    /\ ~(halt \/ LimitReached)
    /\ Head(batch).fact \notin wm
    /\ batch' = Tail(batch)
    /\ pending' = pending \cup {Head(batch)}
    /\ UNCHANGED <<store, memory, settled, delayed, grouped, focus, blocks, tms, pc, max, fired,
                   current, ops, flags, tx, retracted>>

\* A fact of the activation has left working memory since the batch was popped.
SkipStale ==
    /\ pc = "batch" /\ batch # <<>>
    /\ ~(halt \/ LimitReached)
    /\ Head(batch).fact \notin wm
    /\ batch' = Tail(batch)
    /\ settled' = settled \cup {Head(batch)}
    /\ UNCHANGED <<store, memory, pending, delayed, grouped, focus, blocks, tms, pc, max, fired,
                   current, ops, flags, tx, retracted>>

\* fire_activation up to the RHS: no-loop blocks the rule on these facts, the
\* other pending members of the activation group are cancelled, and
\* begin_rhs_transaction.
FireActivation ==
    LET a == Head(batch)
        cancelled == {b \in pending \cap grouped :
                        ActivationGroup[a.rule] # NoGroup
                        /\ ActivationGroup[b.rule] = ActivationGroup[a.rule]}
    IN  /\ pc = "batch" /\ batch # <<>>
        /\ ~(halt \/ LimitReached)
        /\ a.fact \in wm
        /\ batch' = Tail(batch)
        /\ fired' = fired + 1
        /\ noloop' = IF a.rule \in NoLoop THEN noloop \cup {<<a.rule, a.fact>>} ELSE noloop
        /\ pending' = pending \ cancelled
        /\ grouped' = grouped \ cancelled
        /\ settled' = settled \cup cancelled \cup {a}
        /\ current' = a
        /\ pc' = "rhs"
        /\ inserted' = {} /\ retracted' = {} /\ snapshot' = NoVal
        /\ saved' = <<wm, val>>
        /\ UNCHANGED <<store, memory, delayed, focus, locked, tms, max, ops, flags, rollback_ok>>

\* A listener throws in before_rule_fired: total_fired_count is counted, no-loop and
\* the activation group are not touched.
BeforeListenerThrows ==
    /\ pc = "batch" /\ batch # <<>>
    /\ ~(halt \/ LimitReached)
    /\ Head(batch).fact \in wm
    /\ Escape(batch)
    /\ UNCHANGED <<store, memory, pending, delayed, grouped, focus, blocks, tms, flags, tx, retracted>>

-----------------------------------------------------------------------------
(* rhs_executor_->execute: actions on the fact the token binds, and new facts.  *)
(* NewFact is what create_fact allocates in the session's arena.                *)

RhsStep == pc = "rhs" /\ ops < MaxOps /\ ops' = ops + 1
NewFact(f) == f \in fresh /\ fresh' = fresh \ {f}

\* execute_insert and execute_insert_logical, whose fact is justified by the
\* token that fires.
RhsInsert(f, v) ==
    /\ RhsStep
    /\ NewFact(f) /\ Valid(v)
    /\ AssertFact(f, v, just)
    /\ inserted' = inserted \cup {f}
    /\ UNCHANGED <<blocks, logical, pc, loop, flags, snapshot, rollback_ok, saved, retracted>>

RhsInsertLogical(f, v) ==
    /\ RhsStep
    /\ NewFact(f) /\ Valid(v)
    /\ AssertFact(f, v, [just EXCEPT ![f] = current])
    /\ inserted' = inserted \cup {f}
    /\ logical' = logical \cup {f}
    /\ UNCHANGED <<blocks, pc, loop, flags, snapshot, rollback_ok, saved, retracted>>

\* Mutant of TakeSnapshot: the last one wins.
LastSnapshotWins == snapshot' = val[current.fact]

\* track_rhs_update_snapshot: the first one of a transaction wins.
TakeSnapshot == snapshot' = IF snapshot = NoVal THEN val[current.fact] ELSE snapshot

\* execute_update.  The new value is not validated.  (The bound on gen leaves
\* room for the token a rollback makes.)
RhsUpdate(v) ==
    /\ RhsStep
    /\ current.fact \in wm /\ v # val[current.fact] /\ gen[current.fact] + 1 < MaxGen
    /\ TakeSnapshot
    /\ ModifyFact(current.fact, v)
    /\ retracted' = retracted \cup {g \in wm : just[g] \in LiveOn({current.fact})}
    /\ UNCHANGED <<fresh, blocks, logical, pc, loop, flags, inserted, rollback_ok, saved>>

\* execute_update with several assignments, a later one of which throws: the
\* field has changed, propagate_modify is not reached.
RhsUpdateThrows(v) ==
    /\ RhsStep
    /\ v # val[current.fact] /\ gen[current.fact] < MaxGen
    /\ TakeSnapshot
    /\ val' = [val EXCEPT ![current.fact] = v]
    /\ pc' = "rollback_updates" /\ rollback_ok' = TRUE
    /\ UNCHANGED <<wm, fresh, gen, memory, agenda, blocks, tms, loop, flags, inserted, saved,
                   retracted>>

\* Mutant of RhsRetract: done at once.
RetractAtOnce ==
    /\ RhsStep
    /\ current.fact \in wm
    /\ RetractFactNow(current.fact)
    /\ UNCHANGED <<fresh, blocks, logical, pc, loop, flags, tx, retracted>>

\* execute_retract: deferred to the commit.
RhsRetract ==
    /\ RhsStep
    /\ current.fact \in wm
    /\ retracted' = retracted \cup {current.fact}
    /\ UNCHANGED <<store, memory, agenda, blocks, tms, pc, loop, flags, tx>>

RhsHalt ==
    /\ RhsStep
    /\ halt' = TRUE
    /\ UNCHANGED <<store, memory, agenda, blocks, tms, pc, loop, consistent, tx, retracted>>

RhsSetFocus(g) ==
    /\ RhsStep
    /\ focus' = g
    /\ UNCHANGED <<store, memory, pending, delayed, grouped, settled, blocks, tms, pc, loop,
                   flags, tx, retracted>>

\* Any other exception of an action: a missing variable or field, an insert that
\* fails validation, a while loop at its limit.
RhsThrow ==
    /\ pc = "rhs"
    /\ pc' = "rollback_updates" /\ rollback_ok' = TRUE
    /\ UNCHANGED <<store, memory, agenda, blocks, tms, loop, ops, flags, inserted, snapshot,
                   saved, retracted>>

-----------------------------------------------------------------------------
(* end_rhs_transaction *)

\* Mutant of RhsCommit: the inserted facts stay tracked.
CommitKeepsTracking ==
    /\ pc = "rhs"
    /\ pc' = "commit"
    /\ consistent' = TRUE
    /\ snapshot' = NoVal
    /\ UNCHANGED <<store, memory, agenda, blocks, tms, loop, ops, halt, inserted, rollback_ok,
                   saved, retracted>>

\* commit: the transaction is over, then the deferred retractions are done.
RhsCommit ==
    /\ pc = "rhs"
    /\ pc' = "commit"
    /\ consistent' = TRUE
    /\ inserted' = {} /\ snapshot' = NoVal
    /\ UNCHANGED <<store, memory, agenda, blocks, tms, loop, ops, halt, rollback_ok, saved,
                   retracted>>

CommitRetract(f) ==
    /\ pc = "commit"
    /\ f \in retracted
    /\ RetractFactNow(f)
    /\ retracted' = retracted \ {f}
    /\ UNCHANGED <<fresh, blocks, logical, pc, loop, ops, flags, tx>>

\* execute and fire_activation return, or after_rule_fired of a listener throws.
CommitEnd ==
    /\ pc = "commit" /\ retracted = {}
    /\ saved' = <<>>
    /\ \/ /\ pc' = "batch" /\ current' = NoToken /\ ops' = 0
          /\ UNCHANGED <<settled, batch, max, fired>>
       \/ Escape(batch)
    /\ UNCHANGED <<store, memory, pending, delayed, grouped, focus, blocks, tms, flags, inserted,
                   snapshot, rollback_ok, retracted>>

\* Mutant of RollbackUpdate: fields restored, propagate_modify forgotten.
RestoreFieldsOnly ==
    LET f == current.fact
    IN  /\ pc = "rollback_updates"
        /\ IF snapshot # NoVal /\ f \in wm /\ Valid(val[f])
           THEN val' = [val EXCEPT ![f] = snapshot] /\ UNCHANGED rollback_ok
           ELSE rollback_ok' = (snapshot = NoVal \/ f \notin wm) /\ UNCHANGED val
        /\ snapshot' = NoVal
        /\ pc' = "rollback_inserts"
        /\ UNCHANGED <<wm, gen, memory, agenda, just, fresh, blocks, logical, loop, ops, flags,
                       inserted, saved, retracted>>

\* Rollback, first loop: the updated fact is validated as it is now; if it passes
\* its fields are restored and the change is propagated.
RollbackUpdate ==
    LET f == current.fact
    IN  /\ pc = "rollback_updates"
        /\ IF snapshot # NoVal /\ f \in wm /\ Valid(val[f])
           THEN ModifyFact(f, snapshot) /\ UNCHANGED rollback_ok
           ELSE /\ rollback_ok' = (snapshot = NoVal \/ f \notin wm)
                /\ UNCHANGED <<wm, val, gen, memory, agenda, just>>
        /\ snapshot' = NoVal
        /\ pc' = "rollback_inserts"
        /\ UNCHANGED <<fresh, blocks, logical, loop, ops, flags, inserted, saved, retracted>>

\* Second loop: the inserted facts are retracted.
RollbackInsert(f) ==
    /\ pc = "rollback_inserts"
    /\ f \in inserted
    /\ inserted' = inserted \ {f}
    /\ IF f \in wm THEN RetractFactNow(f) ELSE UNCHANGED <<wm, val, gen, memory, agenda, just>>
    /\ UNCHANGED <<fresh, blocks, logical, pc, loop, ops, flags, snapshot, rollback_ok, saved,
                   retracted>>

\* Third loop: a retracted fact that is not in working memory is added again.
RollbackRetract(f) ==
    /\ pc = "rollback_inserts" /\ inserted = {}
    /\ f \in retracted
    /\ retracted' = retracted \ {f}
    /\ IF f \in wm THEN UNCHANGED <<wm, val, gen, memory, agenda, just, rollback_ok>>
       ELSE IF Valid(val[f]) THEN AssertFact(f, val[f], just) /\ UNCHANGED rollback_ok
       ELSE rollback_ok' = FALSE /\ UNCHANGED <<wm, val, gen, memory, agenda, just>>
    /\ UNCHANGED <<fresh, blocks, logical, pc, loop, ops, flags, inserted, snapshot, saved>>

\* Mutant of RollbackEnd: working_memory_.clear() forgotten.
RollbackEndKeepsFacts ==
    /\ pc = "rollback_inserts" /\ inserted = {} /\ retracted = {}
    /\ consistent' = rollback_ok
    /\ halt' = (halt \/ ~rollback_ok)
    /\ rollback_ok' = TRUE
    /\ saved' = <<>>
    /\ Escape(batch)
    /\ UNCHANGED <<wm, val, fresh, gen, memory, pending, delayed, grouped, focus, blocks, tms,
                   inserted, snapshot, retracted>>

\* A rollback that failed leaves an inconsistent, empty session.  The exception
\* of the RHS goes on to the caller of fire_all_rules, with or without fail_fast:
\* fire_activation stops only ReteExecutionException, which nothing throws.
RollbackEnd ==
    /\ pc = "rollback_inserts" /\ inserted = {} /\ retracted = {}
    /\ consistent' = rollback_ok
    /\ halt' = (halt \/ ~rollback_ok)
    /\ wm' = IF rollback_ok THEN wm ELSE {}
    /\ rollback_ok' = TRUE
    /\ saved' = <<>>
    /\ Escape(batch)
    /\ UNCHANGED <<val, fresh, gen, memory, pending, delayed, grouped, focus, blocks, tms,
                   inserted, snapshot, retracted>>

-----------------------------------------------------------------------------
\* A step inside fire_all_rules.
Running ==
    \/ LoopHead \/ FireEnd \/ BatchDone \/ Requeue \/ SkipStale
    \/ FireActivation \/ BeforeListenerThrows
    \/ \E f \in Facts, v \in Vals : RhsInsert(f, v) \/ RhsInsertLogical(f, v)
    \/ \E v \in Vals : RhsUpdate(v) \/ RhsUpdateThrows(v)
    \/ RhsRetract \/ RhsHalt \/ RhsThrow \/ RhsCommit
    \/ \E g \in Foci : RhsSetFocus(g)
    \/ \E f \in Facts : CommitRetract(f) \/ RollbackInsert(f) \/ RollbackRetract(f)
    \/ CommitEnd \/ RollbackUpdate \/ RollbackEnd

Run == Running /\ UNCHANGED calls

\* A call of the owner of the session.
Call ==
    \/ \E f \in Facts, v \in Vals : AddFact(f, v) \/ UpdateFact(f, v)
    \/ \E F \in SUBSET Facts, v \in Vals : AddFacts(F, v)
    \/ \E f \in Facts : RetractFact(f)
    \/ \E F \in SUBSET Facts : RetractFacts(F)
    \/ \E g \in Foci : SetFocus(g)
    \/ \E m \in Limits : FireBegin(m)

Next ==
    \/ Call /\ calls < MaxCalls /\ calls' = calls + 1
    \/ Reset /\ calls' = 0
    \/ Run

Spec == Init /\ [][Next]_vars

\* fire_all_rules is sequential code: once called, it goes on.
FairSpec == Spec /\ WF_vars(Run)

-----------------------------------------------------------------------------
\* Types.  A call never fires more rules than its limit, only a transaction has
\* tracked changes, and an index of activation groups only lists the agenda.
TypeOK ==
    /\ wm \subseteq Facts \ fresh
    /\ val \in [Facts -> Vals \cup {NoVal}]
    /\ fresh \subseteq Facts
    /\ gen \in [Facts -> Nat]
    /\ memory \subseteq Token
    /\ pending \subseteq Token /\ delayed \subseteq Token /\ settled \subseteq Token
    /\ grouped \subseteq pending
    /\ focus \in Foci
    /\ noloop \subseteq NoLoop \X Facts
    /\ locked \subseteq LockOnActive
    /\ just \in [Facts -> Token \cup {NoToken}]
    /\ logical \subseteq Facts
    /\ pc \in {"idle", "loop", "batch", "rhs", "commit", "rollback_updates", "rollback_inserts", "end"}
    /\ calls \in 0..MaxCalls
    /\ max \in Limits \cup {0} /\ fired \in Nat
    /\ max >= 0 => fired <= max
    /\ batch \in Seq(Token)
    /\ current \in Token \cup {NoToken}
    /\ ops \in 0..MaxOps
    /\ halt \in BOOLEAN /\ consistent \in BOOLEAN /\ rollback_ok \in BOOLEAN
    /\ inserted \subseteq Facts /\ retracted \subseteq Facts
    /\ snapshot \in Vals \cup {NoVal}
    /\ pc = "idle" => batch = <<>> /\ inserted = {} /\ retracted = {} /\ snapshot = NoVal

\* The terminal nodes hold exactly the matches of working memory, one token each:
\* whatever adds, updates, retractions, cascades, commits and rollbacks have
\* happened, a rule has a match for a fact if and only if the fact is in working
\* memory and its pattern accepts the field as it is now.  (Between a field
\* change that throws and its rollback the network has not been told.)
MatchesExact ==
    consistent /\ rollback_ok /\ pc # "rollback_updates" =>
        memory = UNION {TokensFor(f, val[f], gen[f]) : f \in wm}

\* No match is forgotten and none fires twice: a current match waits on the
\* agenda, for its duration or in the batch, or it has had its turn (it fired,
\* no-loop or lock-on-active refused it, its activation group cancelled it, or an
\* exception took the batch it was in); never both.
EveryMatchAccounted ==
    LET waiting == pending \cup delayed \cup Elems(batch)
    IN  /\ memory \subseteq waiting \cup settled
        /\ waiting \cap settled = {}
        /\ pending \cap delayed = {} /\ pending \cap Elems(batch) = {}

\* "This preserves the activation's token/WME chain for subsequent actions"
\* (stateful_session.cpp:641): while an RHS runs, the fact it fires on, the facts
\* it has inserted and those whose retraction is deferred are in working memory,
\* even if an update of the RHS itself ended the match.
DeferredStayInMemory ==
    pc = "rhs" => {current.fact} \cup inserted \cup retracted \subseteq wm

\* After a failed rollback the session is empty, and stays so until reset.
InconsistentIsEmpty == ~consistent => wm = {} /\ pc = "idle"

\* "If false, all tracked changes are rolled back" (i_network_callback.hpp:91): a
\* rollback that reports success leaves the facts that are not logical exactly as
\* they were when the RHS began, with the fields they had.
RollbackRestores ==
    [][RollbackEnd /\ rollback_ok =>
        /\ wm' \ logical = saved[1] \ logical
        /\ \A f \in wm' : f \in saved[1] => val[f] = saved[2][f]]_vars

\* The same for the facts the RHS inserted itself: none of them outlives the
\* rollback.
RollbackRemovesInserted ==
    [][RollbackEnd /\ rollback_ok => wm' \subseteq saved[1]]_vars

\* Truth maintenance: when a token leaves the network, by a retraction, an update
\* or a cascade, each fact it justifies leaves working memory in the same step,
\* or is due for retraction at the commit of the running transaction.
SupportLostRetracts ==
    [][pc' # "idle" \/ consistent' =>
        \A t \in memory \ memory' : \A g \in wm \cap wm' :
            just[g] = t => g \in retracted']_vars

\* "retracts logical facts when support is removed" (engine_core_test.cpp:1548):
\* between two calls, no logical fact is justified by a match on a fact that has
\* left working memory.
LogicalFactsSupported ==
    Idle => \A g \in wm : just[g] # NoToken => just[g].fact \in wm

\* "no-loop prevents self-reactivation" (noloop_test.cpp:26): while a no-loop rule
\* fires on a fact, nothing puts that rule with that fact on the agenda, the
\* rollback of its own update included.
NoSelfReactivation ==
    [][current # NoToken /\ current.rule \in NoLoop =>
        \A a \in (pending' \cup delayed') \ (pending \cup delayed) :
            ~(a.rule = current.rule /\ a.fact = current.fact) \/ a \in Elems(batch)]_vars

\* "Called when a change in facts causes a previously-activated rule to no longer
\* be valid" (i_engine_listener.hpp:28): an activation that was reported retracted
\* does not fire afterwards.
FiresOnlyMatches ==
    [][pc = "batch" /\ pc' = "rhs" => current' \in memory]_vars

\* fire_all_rules with a limit returns: every firing counts, stale activations
\* are used up, and commits and rollbacks come to their end.
FireReturns == pc # "idle" ~> pc = "idle"
=============================================================================
