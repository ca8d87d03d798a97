---------------------------- MODULE MatchNetwork ----------------------------
(***************************************************************************)
(* The match network (rete/rete_node.cpp) below two patterns on one fact   *)
(* type, as beta_builder.cpp lays it out:                                  *)
(*                                                                         *)
(*   entry point -- alpha L -- root join --+-- left side of every node     *)
(*              \-- alpha R ---------------+-- right side of every node    *)
(*                                                                         *)
(* The nodes are a hashed join (R.key == L.key), a cross-product join      *)
(* (R.key != L.key) and any number of not and exists nodes, indexed by the *)
(* key or not.  A fact may satisfy both patterns and so join with itself.  *)
(* One action is one call of the session: it changes working memory and    *)
(* runs the whole propagation, first below alpha L, then below alpha R.    *)
(*                                                                         *)
(* A token is <<fact, n>>, the TokenWME that the root join made of the     *)
(* fact in the n-th call; a child of a join is <<token, fact>>.  The       *)
(* terminal memories below the nodes hold what their kids and out hold.    *)
(***************************************************************************)
EXTENDS Integers

CONSTANTS
    Facts,
    Keys,        \* values of the field that the patterns join on
    Nil,         \* a field is absent: get_field returns nothing
    Vals,        \* values of the field that the alpha nodes test
    LeftVals,    \* those alpha L accepts
    RightVals,   \* those alpha R accepts
    Conds,       \* the not and exists nodes
    NotNodes,    \* those that are not nodes
    Indexed,     \* those with an == constraint; the others have !=
    Out,         \* the fact is not in the right memory
    Inputs,      \* bound: the <<key, value>> pairs that the caller gives each fact
    MaxCalls     \* bound: calls between two resets

ASSUME NetworkAssumption ==
    /\ Nil \notin Keys \cup Vals
    /\ Out \notin Keys \cup {Nil}
    /\ LeftVals \subseteq Vals
    /\ RightVals \subseteq Vals
    /\ NotNodes \subseteq Conds
    /\ Indexed \subseteq Conds
    /\ Inputs \in [Facts -> SUBSET ((Keys \cup {Nil}) \X (Vals \cup {Nil}))]
    /\ MaxCalls \in Nat

VARIABLES
    wm,       \* working_memory_
    key, val, \* the two fields of each fact
    calls,    \* calls made since the last reset
    lpass,    \* passing_facts of alpha L, and the right memory of the root join
    rpass,    \* passing_facts of alpha R
    tok,      \* left_to_children of the root join: the tokens below it
    hashed,   \* HashedJoinMem
    cross,    \* CrossProductJoinMem
    cond,     \* BetaConditionMem of each not and exists node
    rekeyed   \* history: facts whose key changed while an alpha node passed them

alpha == <<lpass, rpass, tok>>
vars == <<wm, key, val, calls, alpha, hashed, cross, cond, rekeyed>>

KeyOpt == Keys \cup {Nil}
ValOpt == Vals \cup {Nil}
Token == Facts \X Nat

-----------------------------------------------------------------------------
(* check_all_join_conditions: a missing field satisfies no constraint *)

SameKey(K, a, b) == K[a] # Nil /\ K[b] # Nil /\ K[a] = K[b]
OtherKey(K, a, b) == K[a] # Nil /\ K[b] # Nil /\ K[a] # K[b]
Joins(n, K, a, b) == IF n \in Indexed THEN SameKey(K, a, b) ELSE OtherKey(K, a, b)

-----------------------------------------------------------------------------
(* HashedJoinNode: buckets of tokens and of facts.  The key is always the    *)
(* present one; the node keeps no record of the key an entry was stored with. *)

\* Mutant of HashedIn: the facts that come do not look at the left bucket.
HashedInQuietly(h, F, K) ==
    [h EXCEPT !.right = @ \cup {<<K[f], f>> : f \in {g \in F : K[g] # Nil}}]

\* left_activate: the tokens `dead` go, then the tokens `born` come.
HashedLeft(h, dead, born, K) ==
    LET gone == {<<K[t[1]], t>> : t \in dead}
        came == {<<K[t[1]], t>> : t \in {u \in born : K[u[1]] # Nil}}
    IN  [left  |-> (h.left \ gone) \cup came,
         right |-> h.right,
         kids  |-> {c \in h.kids : ~(c[1] \in dead /\ <<K[c[1][1]], c[2]>> \in h.right)}
                     \cup {c \in born \X Facts : /\ <<K[c[1][1]], c[2]>> \in h.right
                                                 /\ SameKey(K, c[1][1], c[2])}]

\* Mutant of HashedOut: the children of the facts that go are left.
HashedOutOfBucket(h, F, K) == [h EXCEPT !.right = @ \ {<<K[f], f>> : f \in F}]

\* right_activate with RETRACT, and the first half of MODIFY.
HashedOut(h, F, K) ==
    [left  |-> h.left,
     right |-> h.right \ {<<K[f], f>> : f \in F},
     kids  |-> {c \in h.kids : ~(c[2] \in F /\ <<K[c[2]], c[1]>> \in h.left)}]

\* right_activate with ASSERT, the second half of MODIFY, right_activate_batch.
HashedIn(h, F, K) ==
    [left  |-> h.left,
     right |-> h.right \cup {<<K[f], f>> : f \in {g \in F : K[g] # Nil}},
     kids  |-> h.kids \cup {c \in {e[2] : e \in h.left} \X F :
                              <<K[c[2]], c[1]>> \in h.left /\ SameKey(K, c[1][1], c[2])}]

\* A MODIFY takes out what it finds under the present key, then puts it in again.
HashedRight(h, F, p, K) ==
    LET found == {f \in F : <<K[f], f>> \in h.right}
        out == IF p = "RETRACT" THEN HashedOut(h, F, K)
               ELSE IF p = "MODIFY" THEN HashedOut(h, found, K) ELSE h
    IN  IF p = "ASSERT" \/ p = "MODIFY" THEN HashedIn(out, F, K) ELSE out

-----------------------------------------------------------------------------
(* CrossProductJoinNode *)

CrossLeft(c, dead, born, K) ==
    [left  |-> (c.left \ dead) \cup born,
     right |-> c.right,
     kids  |-> {x \in c.kids : ~(x[1] \in dead \cap c.left /\ x[2] \in c.right)}
                 \cup {x \in born \X c.right : OtherKey(K, x[1][1], x[2])}]

CrossOut(c, F) ==
    [left  |-> c.left,
     right |-> c.right \ F,
     kids  |-> {x \in c.kids : ~(x[1] \in c.left /\ x[2] \in F \cap c.right)}]

CrossIn(c, F, K) ==
    [left  |-> c.left,
     right |-> c.right \cup F,
     kids  |-> c.kids \cup {x \in c.left \X F : OtherKey(K, x[1][1], x[2])}]

\* Mutant of CrossRight: a MODIFY does not retract the old matches first.
CrossRightAddsOnly(c, F, p, K) ==
    IF p = "RETRACT" THEN CrossOut(c, F)
    ELSE IF p = "none" THEN c ELSE CrossIn(c, F, K)

CrossRight(c, F, p, K) ==
    LET out == IF p = "RETRACT" \/ p = "MODIFY" THEN CrossOut(c, F) ELSE c
    IN  IF p = "ASSERT" \/ p = "MODIFY" THEN CrossIn(out, F, K) ELSE out

-----------------------------------------------------------------------------
(* BetaConditionNode.  left holds <<key, token>>, right the key of each fact  *)
(* in it, as they were stored: left_index and left_keys, right_index and      *)
(* right_keys; under Nil, left_unindexed and right_unindexed.                 *)

\* get_hash_key
HashKey(n, K, f) == IF n \in Indexed THEN K[f] ELSE Nil

\* What a key selects from the other side: its bucket and what is unindexed;
\* everything, if there is no key.
LeftCandidates(c, k) ==
    {e[2] : e \in {d \in c.left : k = Nil \/ d[1] = k \/ d[1] = Nil}}
RightCandidates(c, k) ==
    {f \in Facts : c.right[f] # Out /\ (k = Nil \/ c.right[f] = k \/ c.right[f] = Nil)}

\* condition_passes, for the matches M of the token t.
Passes(n, M, t) ==
    LET some == \E m \in M : m[1] = t IN IF n \in NotNodes THEN ~some ELSE some

\* left_activate
CondLeft(n, c, dead, born, K) ==
    LET new == {m \in born \X Facts : /\ m[2] \in RightCandidates(c, HashKey(n, K, m[1][1]))
                                      /\ Joins(n, K, m[1][1], m[2])}
    IN  [left    |-> {e \in c.left : e[2] \notin dead}
                       \cup {<<HashKey(n, K, t[1]), t>> : t \in born},
         right   |-> c.right,
         matched |-> {m \in c.matched : m[1] \notin dead} \cup new,
         out     |-> (c.out \ dead) \cup {t \in born : Passes(n, new, t)}]

\* Mutant of OldCandidates: the key that the fact has now.
OldCandidatesNow(n, c, f, K) ==
    IF c.right[f] = Out THEN {} ELSE LeftCandidates(c, HashKey(n, K, f))

\* Where a match of the fact f may be: under the key it was stored with.
OldCandidates(n, c, f, K) ==
    IF c.right[f] = Out THEN {} ELSE LeftCandidates(c, c.right[f])

\* right_activate, for each fact of F; propagate_condition_transition.
CondRight(n, c, F, p, K) ==
    LET stays == {m \in c.matched : ~(m[2] \in F /\ m[1] \in OldCandidates(n, c, m[2], K))}
        new == {m \in {e[2] : e \in c.left} \X F :
                    /\ m[1] \in LeftCandidates(c, HashKey(n, K, m[2]))
                    /\ Joins(n, K, m[1][1], m[2])}
        matched == IF p = "RETRACT" THEN stays ELSE stays \cup new
        Rises(t) == ~Passes(n, c.matched, t) /\ Passes(n, matched, t)
        Falls(t) == Passes(n, c.matched, t) /\ ~Passes(n, matched, t)
    IN  IF p = "none" THEN c
        ELSE [left    |-> c.left,
              right   |-> [f \in Facts |-> IF f \notin F THEN c.right[f]
                                           ELSE IF p = "RETRACT" THEN Out
                                           ELSE HashKey(n, K, f)],
              matched |-> matched,
              out     |-> {t \in c.out : ~Falls(t)}
                            \cup {t \in {e[2] : e \in c.left} : Rises(t)}]

-----------------------------------------------------------------------------
(* Propagation *)

\* The effect on the nodes of the tokens that leave and reach the root join, and
\* of the event p that alpha R then passes on for the facts F.  The fields have
\* changed by then.  No fact may enter a bucket of the hashed join twice: only
\* facts that were rekeyed before could.
Propagate(dead, born, F, p) ==
    /\ p = "ASSERT" => \A f \in F : <<key'[f], f>> \notin hashed.right
    /\ tok' = (tok \ dead) \cup born
    /\ \E h \in {HashedLeft(hashed, dead, born, key')} : hashed' = HashedRight(h, F, p, key')
    /\ \E c \in {CrossLeft(cross, dead, born, key')} : cross' = CrossRight(c, F, p, key')
    /\ \E C \in {[n \in Conds |-> CondLeft(n, cond[n], dead, born, key')]} :
         cond' = [n \in Conds |-> CondRight(n, C[n], F, p, key')]

TokensOf(F) == {t \in tok : t[1] \in F}
NewTokens(F) == {<<f, calls + 1>> : f \in F}

\* AlphaNode::right_activate: what the node passes on for the event p.
AlphaEvent(pass, accepts, f, p) ==
    IF p = "RETRACT" \/ ~accepts
      THEN IF f \in pass THEN "RETRACT" ELSE "none"
      ELSE IF p = "MODIFY" /\ f \notin pass THEN "ASSERT" ELSE p

\* Mutant of Passing: the node does not forget the fact that it retracts.
PassingForever(pass, f, e) == IF e = "none" THEN pass ELSE pass \cup {f}

\* passing_facts after the event e.
Passing(pass, f, e) ==
    IF e = "none" THEN pass ELSE IF e = "RETRACT" THEN pass \ {f} ELSE pass \cup {f}

\* The event for the fact f, as alpha L passes it on (l) and as alpha R does (r).
Activate(f, l, r) ==
    /\ lpass' = Passing(lpass, f, l)
    /\ rpass' = Passing(rpass, f, r)
    /\ Propagate(IF l \in {"RETRACT", "MODIFY"} THEN TokensOf({f}) ELSE {},
                 IF l \in {"ASSERT", "MODIFY"} THEN NewTokens({f}) ELSE {},
                 {f}, r)

\* EntryPointNode::right_activate for a fact whose tested field is v.
Enter(f, v, p) ==
    Activate(f, AlphaEvent(lpass, v \in LeftVals, f, p), AlphaEvent(rpass, v \in RightVals, f, p))

\* The keys of the facts in the alpha memories that change.
Rekeyed == rekeyed \cup {f \in lpass \cup rpass : key'[f] # key[f]}

-----------------------------------------------------------------------------
Init ==
    /\ wm = {}
    /\ key = [f \in Facts |-> Nil]
    /\ val = [f \in Facts |-> Nil]
    /\ calls = 0
    /\ lpass = {} /\ rpass = {} /\ tok = {}
    /\ hashed = [left |-> {}, right |-> {}, kids |-> {}]
    /\ cross = [left |-> {}, right |-> {}, kids |-> {}]
    /\ cond = [n \in Conds |-> [left |-> {}, right |-> [f \in Facts |-> Out],
                                matched |-> {}, out |-> {}]]
    /\ rekeyed = {}

AddFact(f, k, v) ==
    /\ f \notin wm
    /\ wm' = wm \cup {f}
    /\ key' = [key EXCEPT ![f] = k] /\ val' = [val EXCEPT ![f] = v]
    /\ Enter(f, v, "ASSERT")
    /\ UNCHANGED rekeyed

\* AlphaNode::right_activate_batch.  Alpha L has one child, so it filters in place
\* the vector that the entry point hands to alpha R next, unless it accepts none.
Survivors(F, W) ==
    LET S == {f \in F : W[f] \in LeftVals} IN IF S = {} THEN F ELSE S

\* add_facts, for facts of one type.
AddFacts(F, K, W) ==
    LET left == {f \in F : W[f] \in LeftVals}
        right == {f \in Survivors(F, W) : W[f] \in RightVals}
    IN  /\ F # {} /\ F \cap wm = {}
        /\ wm' = wm \cup F
        /\ key' = [f \in Facts |-> IF f \in F THEN K[f] ELSE key[f]]
        /\ val' = [f \in Facts |-> IF f \in F THEN W[f] ELSE val[f]]
        /\ lpass' = lpass \cup left
        /\ rpass' = rpass \cup right
        /\ Propagate({}, NewTokens(left), right, "ASSERT")
        /\ UNCHANGED rekeyed

RetractFact(f) ==
    /\ f \in wm
    /\ wm' = wm \ {f}
    /\ UNCHANGED <<key, val, rekeyed>>
    /\ Enter(f, val[f], "RETRACT")

\* retract_facts: alpha L passes on every RETRACT, then alpha R does.
RetractFacts(F) ==
    /\ F # {} /\ F \subseteq wm
    /\ wm' = wm \ F
    /\ UNCHANGED <<key, val, rekeyed>>
    /\ lpass' = lpass \ F
    /\ rpass' = rpass \ F
    /\ Propagate(TokensOf(F), {}, F \cap rpass, "RETRACT")

\* update_fact: the modifier changes the fields before the network hears of it.
UpdateFact(f, k, v) ==
    /\ f \in wm
    /\ key' = [key EXCEPT ![f] = k] /\ val' = [val EXCEPT ![f] = v]
    /\ Enter(f, v, "MODIFY")
    /\ rekeyed' = Rekeyed
    /\ UNCHANGED wm

\* propagate_modify with a hint that only the key changed: the alpha nodes, which
\* test the other field, go by what they remember.
PropagateModify(f, k) ==
    LET Remembered(pass) == IF f \in pass THEN "MODIFY" ELSE "none"
    IN  /\ f \in wm
        /\ key' = [key EXCEPT ![f] = k]
        /\ Activate(f, Remembered(lpass), Remembered(rpass))
        /\ rekeyed' = Rekeyed
        /\ UNCHANGED <<wm, val>>

\* reset: the network memory is allocated anew.
Reset ==
    /\ wm' = {} /\ key' = [f \in Facts |-> Nil] /\ val' = [f \in Facts |-> Nil]
    /\ calls' = 0
    /\ lpass' = {} /\ rpass' = {} /\ tok' = {}
    /\ hashed' = [left |-> {}, right |-> {}, kids |-> {}]
    /\ cross' = [left |-> {}, right |-> {}, kids |-> {}]
    /\ cond' = [n \in Conds |-> [left |-> {}, right |-> [f \in Facts |-> Out],
                                 matched |-> {}, out |-> {}]]
    /\ rekeyed' = {}

\* The fields that a batch of the facts F may have.
BatchInputs ==
    [F \in SUBSET Facts |-> {X \in [F -> KeyOpt \X ValOpt] : \A f \in F : X[f] \in Inputs[f]}]

Call ==
    \/ \E f \in Facts : \E x \in Inputs[f] : AddFact(f, x[1], x[2])
    \/ \E F \in SUBSET (Facts \ wm) : \E X \in BatchInputs[F] :
         AddFacts(F, [f \in F |-> X[f][1]], [f \in F |-> X[f][2]])
    \/ \E f \in Facts : RetractFact(f)
    \/ \E F \in SUBSET wm : RetractFacts(F)
    \/ \E f \in Facts : \E x \in Inputs[f] : UpdateFact(f, x[1], x[2])
    \/ \E f \in Facts : \E x \in Inputs[f] : PropagateModify(f, x[1])

Next ==
    \/ calls < MaxCalls /\ calls' = calls + 1 /\ Call
    \/ Reset

Spec == Init /\ [][Next]_vars

-----------------------------------------------------------------------------
(* Properties *)

\* The variables have their types.
TypeOK ==
    /\ wm \subseteq Facts
    /\ key \in [Facts -> KeyOpt] /\ val \in [Facts -> ValOpt] /\ calls \in Nat
    /\ lpass \subseteq wm /\ rpass \subseteq wm
    /\ tok \subseteq Token
    /\ hashed.left \subseteq Keys \X Token /\ hashed.right \subseteq Keys \X Facts
    /\ hashed.kids \subseteq Token \X Facts
    /\ cross.left \subseteq Token /\ cross.right \subseteq Facts
    /\ cross.kids \subseteq Token \X Facts
    /\ \A n \in Conds :
         /\ cond[n].left \subseteq KeyOpt \X Token
         /\ cond[n].right \in [Facts -> KeyOpt \cup {Out}]
         /\ cond[n].matched \subseteq Token \X Facts
         /\ cond[n].out \subseteq Token
    /\ rekeyed \subseteq Facts

\* Not and exists nodes pass on exactly the tokens that have no, or some, match
\* among the facts of alpha R, whatever keys have changed on either side and
\* through whatever MODIFY, RETRACT and batch (BetaConditionNode re-indexes).
ConditionsExact ==
    \A n \in Conds :
        cond[n].out = {t \in tok : LET some == \E f \in rpass : Joins(n, key, t[1], f)
                                   IN  IF n \in NotNodes THEN ~some ELSE some}

\* A cross-product join has exactly the pairs of a live token and a fact of alpha
\* R that satisfy its constraint now.
CrossExact == cross.kids = {x \in tok \X rpass : OtherKey(key, x[1][1], x[2])}

\* A hashed join has every pair of a live token and a fact of alpha R with equal
\* keys, also after their keys have changed.
HashedComplete ==
    \A t \in tok, f \in rpass : SameKey(key, t[1], f) => <<t, f>> \in hashed.kids

\* What else a hashed join has is due to a change of the join key of a fact in it:
\* a child of two facts whose keys did not change is a match now.
HashedStaleOnlyByKey ==
    \A c \in hashed.kids :
        c[1][1] \notin rekeyed /\ c[2] \notin rekeyed =>
            c[1] \in tok /\ c[2] \in rpass /\ SameKey(key, c[1][1], c[2])

\* Every fact of working memory that satisfies the right pattern is in its alpha
\* memory ("propagate a vector of facts in one pass", rete_node_base.hpp).
AlphaComplete == \A f \in wm : val[f] \in RightVals => f \in rpass

=============================================================================
