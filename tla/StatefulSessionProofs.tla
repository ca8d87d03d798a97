----------------------- MODULE StatefulSessionProofs -----------------------
(***************************************************************************)
(* Proofs about the session for any facts, values, rules and bounds: the   *)
(* terminal nodes hold exactly the matches of working memory, an RHS keeps *)
(* its facts until the commit, a rollback restores working memory, and a   *)
(* session whose rollback failed is empty; every match is on the agenda,   *)
(* fired or discarded for a stated reason, no-loop rules do not            *)
(* re-activate themselves, and a fact that loses its support is retracted. *)
(* And the exact conditions on three things that do not always hold: every *)
(* logical fact has its support, only matches fire, and a rollback leaves  *)
(* working memory, logical facts included, as it was.                      *)
(***************************************************************************)
EXTENDS StatefulSession, TLAPS

Match(t) ==
    /\ t.fact \in wm
    /\ val[t.fact] \in Pattern[t.rule]
    /\ t.gen = gen[t.fact]

\* The terminal nodes are right about the facts F.
ExactOn(F) == \A t \in Token : t.fact \in F => (t \in memory <=> Match(t))

\* MatchesExact as it is inductive: while a rollback still has to restore an
\* update, the fact of the running token is the only one the terminal nodes may
\* be wrong about.
Exact ==
    consistent /\ rollback_ok =>
        ExactOn(IF pc = "rollback_updates" /\ snapshot # NoVal
                THEN Facts \ {current.fact} ELSE Facts)

\* What each place in fire_all_rules knows of the transaction.
Control ==
    /\ pc \in {"loop", "end"} => batch = <<>>
    /\ pc \in {"idle", "loop", "end", "batch"} => inserted = {} /\ retracted = {}
    /\ pc \notin {"rhs", "rollback_updates"} => snapshot = NoVal
    /\ pc = "commit" => inserted = {}
    /\ pc # "idle" => consistent
    /\ ~consistent => wm = {}
    /\ ~rollback_ok => pc = "rollback_inserts"
    /\ pc \in {"rhs", "rollback_updates"} => current \in Token /\ current.fact \in wm
    /\ pc = "rhs" => inserted \cup retracted \subseteq wm
    /\ retracted \cap fresh = {}
    /\ \A f \in Facts \ fresh : val[f] \in Vals

\* No fact supports itself: in each set of facts, some fact is not justified by a
\* token on a fact of the set.
Grounded ==
    /\ \A g \in Facts : just[g] # NoToken => just[g].fact \notin fresh
    /\ \A S \in SUBSET Facts :
         S # {} => \E g \in S : just[g] # NoToken => just[g].fact \notin S

IInv == TypeOK /\ Control /\ Grounded /\ Exact

-----------------------------------------------------------------------------
\* What TokensFor makes of a set of facts.
LEMMA TokensOf ==
    ASSUME NEW F \in SUBSET Facts, NEW v, NEW n \in [Facts -> Nat], NEW t
    PROVE  t \in UNION {TokensFor(f, v[f], n[f]) : f \in F}
             <=> /\ t \in Token /\ t.fact \in F
                 /\ v[t.fact] \in Pattern[t.rule] /\ t.gen = n[t.fact]
<1>1. ASSUME t \in UNION {TokensFor(f, v[f], n[f]) : f \in F}
      PROVE  /\ t \in Token /\ t.fact \in F
             /\ v[t.fact] \in Pattern[t.rule] /\ t.gen = n[t.fact]
  <2>1. PICK f \in F : t \in TokensFor(f, v[f], n[f])
    BY <1>1, Zenon
  <2>2. PICK r \in Rules : v[f] \in Pattern[r] /\ t = [rule |-> r, fact |-> f, gen |-> n[f]]
    BY <2>1, Zenon DEF TokensFor
  <2> QED BY <2>2, Zenon DEF Token
<1>2. ASSUME t \in Token, t.fact \in F, v[t.fact] \in Pattern[t.rule], t.gen = n[t.fact]
      PROVE  t \in UNION {TokensFor(f, v[f], n[f]) : f \in F}
  <2>1. t = [rule |-> t.rule, fact |-> t.fact, gen |-> n[t.fact]] /\ t.rule \in Rules
    BY <1>2, Zenon DEF Token
  <2>2. t \in TokensFor(t.fact, v[t.fact], n[t.fact])
    BY <1>2, <2>1, Zenon DEF TokensFor
  <2> QED BY <1>2, <2>2, Zenon
<1> QED BY <1>1, <1>2, Zenon

\* The same for one fact.
LEMMA TokensOfOne ==
    ASSUME NEW f \in Facts, NEW v, NEW n \in Nat, NEW t
    PROVE  t \in TokensFor(f, v, n)
             <=> t \in Token /\ t.fact = f /\ v \in Pattern[t.rule] /\ t.gen = n
<1>1. ASSUME t \in TokensFor(f, v, n)
      PROVE  t \in Token /\ t.fact = f /\ v \in Pattern[t.rule] /\ t.gen = n
  <2>1. PICK r \in Rules : v \in Pattern[r] /\ t = [rule |-> r, fact |-> f, gen |-> n]
    BY <1>1, Zenon DEF TokensFor
  <2> QED BY <2>1, Zenon DEF Token
<1>2. ASSUME t \in Token, t.fact = f, v \in Pattern[t.rule], t.gen = n
      PROVE  t \in TokensFor(f, v, n)
  <2>1. t = [rule |-> t.rule, fact |-> f, gen |-> n] /\ t.rule \in Rules
    BY <1>2, Zenon DEF Token
  <2> QED BY <1>2, <2>1, Zenon DEF TokensFor
<1> QED BY <1>1, <1>2, Zenon

\* Nothing is doomed when no token dies.
LEMMA NothingDoomed ==
    ASSUME NEW W
    PROVE  Doomed(W, {}) = {}
<1>1. LiveOn({}) = {}
  BY Zenon DEF LiveOn
<1>2. {} \in SUBSET W /\ \A g \in W : just[g] \in {} \cup LiveOn({}) => g \in {}
  BY <1>1, Zenon
<1> QED BY <1>2, Zenon DEF Doomed

\* The doomed facts are closed under the cascade, and each has a reason to be.
LEMMA DoomedClosed ==
    ASSUME NEW W, NEW T
    PROVE  /\ Doomed(W, T) \subseteq W
           /\ \A g \in W : just[g] \in T \cup LiveOn(Doomed(W, T)) => g \in Doomed(W, T)
           /\ \A g \in Doomed(W, T) : just[g] \in T \cup LiveOn(Doomed(W, T))
<1> DEFINE D == Doomed(W, T)
           Closed(S) == \A g \in W : just[g] \in T \cup LiveOn(S) => g \in S
<1>1. D = {f \in W : \A S \in SUBSET W : Closed(S) => f \in S}
  BY Zenon DEF Doomed
<1> HIDE DEF D
<1>2. D \subseteq W
  BY <1>1, Zenon
<1>3. \A S \in SUBSET W : Closed(S) => D \subseteq S
  BY <1>1, Zenon
<1>4. \A S \in SUBSET W : D \subseteq S => LiveOn(D) \subseteq LiveOn(S)
  BY Zenon DEF LiveOn
<1>5. ASSUME NEW g \in W, just[g] \in T \cup LiveOn(D)
      PROVE  g \in D
  <2>1. ASSUME NEW S \in SUBSET W, Closed(S)
        PROVE  g \in S
    <3>1. just[g] \in T \cup LiveOn(S)
      BY <1>3, <1>4, <1>5, <2>1, Zenon
    <3> QED BY <2>1, <3>1, Zenon
  <2> QED BY <1>1, <2>1, Zenon
<1>6. ASSUME NEW g \in D, just[g] \notin T \cup LiveOn(D)
      PROVE  FALSE
  <2> DEFINE S == D \ {g}
  <2>1. S \in SUBSET W
    BY <1>2, Zenon
  <2>2. LiveOn(S) \subseteq LiveOn(D)
    BY Zenon DEF LiveOn
  <2>3. ASSUME NEW h \in W, just[h] \in T \cup LiveOn(S)
        PROVE  h \in S
    BY <1>5, <1>6, <2>2, <2>3, Zenon
  <2>4. D \subseteq S
    BY <1>3, <2>1, <2>3, Zenon
  <2> QED BY <2>4, Zenon
<1> QED BY <1>2, <1>5, <1>6, Zenon DEF D

\* A fact that is modified does not lose its own support by that.
LEMMA ModifiedNotDoomed ==
    ASSUME TypeOK, Grounded, NEW f \in Facts, NEW W \in SUBSET Facts
    PROVE  f \notin Doomed(W, LiveOn({f}))
<1> DEFINE D == Doomed(W, LiveOn({f}))
<1>1. SUFFICES ASSUME f \in D PROVE FALSE
  BY Zenon
<1>2. D \subseteq W /\ \A g \in D : just[g] \in LiveOn({f}) \cup LiveOn(D)
  BY DoomedClosed, Zenon
<1> HIDE DEF D
<1>3. \A g \in D : just[g] \in Token /\ just[g].fact \in D
  BY <1>1, <1>2, Zenon DEF LiveOn, TypeOK
<1>4. PICK g \in D : just[g] # NoToken => just[g].fact \notin D
  BY <1>1, <1>2, Zenon DEF Grounded
<1> QED BY <1>3, <1>4, SessionAssumption, Zenon DEF Token

-----------------------------------------------------------------------------
\* Propagate keeps the types, takes facts away only, and drops justifications or
\* takes them from J.
LEMMA PropagateType ==
    ASSUME TypeOK, NEW W \in SUBSET Facts, NEW out, NEW dead, NEW born \in SUBSET Token,
           NEW timed, NEW J \in [Facts -> Token \cup {NoToken}],
           Propagate(W, out, dead, born, timed, J)
    PROVE  /\ wm' \subseteq W
           /\ pc = "rhs" => wm' = W
           /\ memory' \subseteq Token
           /\ pending' \subseteq Token /\ delayed' \subseteq Token /\ settled' \subseteq Token
           /\ grouped' \subseteq pending'
           /\ focus' \in Foci
           /\ just' \in [Facts -> Token \cup {NoToken}]
           /\ \A g \in Facts : just'[g] \in {J[g], NoToken}
<1> DEFINE gone == IF pc = "rhs" THEN {} ELSE Doomed(W, dead)
           off == dead \cup LiveOn(gone)
           accepted == {t \in born : ~Blocked(t)}
           late == {t \in accepted : t.rule \in timed}
           Stays(a) == a \notin off /\ a.fact \notin gone \cup out
           autos == {t.rule : t \in {u \in born : u.rule \in AutoFocus}}
<1>1. /\ wm' = W \ gone
      /\ memory' = (memory \ off) \cup born
      /\ pending' = {a \in pending : Stays(a)} \cup (accepted \ late)
      /\ grouped' = {a \in grouped : Stays(a)}
                      \cup {t \in accepted \ late : ActivationGroup[t.rule] # NoGroup}
      /\ delayed' = delayed \cup late
      /\ settled' = settled \cup (born \ accepted)
      /\ focus' \in IF autos = {} THEN {focus} ELSE {AgendaGroup[r] : r \in autos}
      /\ just' = [g \in Facts |-> IF just[g] \in off \/ g \in gone \cup out
                                  THEN NoToken ELSE J[g]]
  BY Zenon DEF Propagate
<1>2. pc = "rhs" => gone = {}
  BY Zenon
<1>3. autos \subseteq Rules
  BY Zenon DEF Token
<1>4. accepted \subseteq born /\ late \subseteq born
  BY Zenon
<1> HIDE DEF gone, off, accepted, late, autos
<1>5. focus' \in Foci
  BY <1>1, <1>3, Zenon DEF Foci, TypeOK
<1>6. wm' \subseteq W /\ (pc = "rhs" => wm' = W)
  BY <1>1, <1>2, Zenon
<1>7. /\ memory' \subseteq Token /\ pending' \subseteq Token
      /\ delayed' \subseteq Token /\ settled' \subseteq Token
  BY <1>1, <1>4, Zenon DEF TypeOK
<1>8. grouped' \subseteq pending'
  BY <1>1, Zenon DEF TypeOK
<1>9. /\ just' \in [Facts -> Token \cup {NoToken}]
      /\ \A g \in Facts : just'[g] \in {J[g], NoToken}
  BY <1>1, Zenon
<1> QED BY <1>5, <1>6, <1>7, <1>8, <1>9, Zenon

\* If the tokens on the changed facts F die and those that match as they are now
\* are born, the terminal nodes are right again, about the facts the cascade takes
\* too, as long as it takes none of F.
LEMMA PropagateExact ==
    ASSUME TypeOK, NEW W \in SUBSET Facts, NEW F \in SUBSET Facts, ExactOn(Facts \ F),
           NEW out, NEW born, NEW timed, NEW J,
           Propagate(W, out, LiveOn(F), born, timed, J),
           \A t : t \in born <=> /\ t \in Token /\ t.fact \in F \cap W
                                 /\ val'[t.fact] \in Pattern[t.rule] /\ t.gen = gen'[t.fact],
           \A f \in Facts \ F : /\ f \in W <=> f \in wm
                                /\ val'[f] = val[f] /\ gen'[f] = gen[f],
           pc # "rhs" => Doomed(W, LiveOn(F)) \cap F = {}
    PROVE  ExactOn(Facts)'
<1> DEFINE gone == IF pc = "rhs" THEN {} ELSE Doomed(W, LiveOn(F))
           off == LiveOn(F) \cup LiveOn(gone)
<1>1. wm' = W \ gone /\ memory' = (memory \ off) \cup born
  BY Zenon DEF Propagate
<1>2. gone \cap F = {}
  BY Zenon
<1>3. \A t \in memory : t \in off <=> t.fact \in F \/ t.fact \in gone
  BY Zenon DEF LiveOn
<1> HIDE DEF gone, off
<1>4. SUFFICES ASSUME NEW t \in Token
               PROVE  t \in memory' <=> /\ t.fact \in wm'
                                        /\ val'[t.fact] \in Pattern[t.rule]
                                        /\ t.gen = gen'[t.fact]
  BY Zenon DEF ExactOn, Match
<1>5. t.fact \in Facts
  BY Zenon DEF Token
<1>6. CASE t.fact \in F
  BY <1>1, <1>2, <1>3, <1>6, Zenon
<1>7. CASE t.fact \notin F
  <2>1. t \in memory <=> /\ t.fact \in wm /\ val[t.fact] \in Pattern[t.rule]
                         /\ t.gen = gen[t.fact]
    BY <1>5, <1>7, Zenon DEF ExactOn, Match
  <2>2. t \notin born
    BY <1>7, Zenon
  <2> QED BY <1>1, <1>3, <1>5, <1>7, <2>1, <2>2, Zenon
<1> QED BY <1>6, <1>7, Zenon

\* Dropping justifications, or facts from fresh, leaves every support grounded.
LEMMA ShrinkGrounded ==
    ASSUME Grounded, fresh' \subseteq fresh,
           \A g \in Facts : just'[g] \in {just[g], NoToken}
    PROVE  Grounded'
<1>1. \A g \in Facts : just'[g] # NoToken => just'[g].fact \notin fresh'
  BY Zenon DEF Grounded
<1>2. ASSUME NEW S \in SUBSET Facts, S # {}
      PROVE  \E g \in S : just'[g] # NoToken => just'[g].fact \notin S
  <2>1. PICK g \in S : just[g] # NoToken => just[g].fact \notin S
    BY <1>2, Zenon DEF Grounded
  <2> QED BY <2>1, Zenon
<1> QED BY <1>1, <1>2, Zenon DEF Grounded

\* The tokens on a fact outside of working memory: none.
LEMMA AbsentHasNoTokens ==
    ASSUME TypeOK, ExactOn(Facts), NEW F \in SUBSET Facts, F \cap wm = {}
    PROVE  LiveOn(F) = {}
BY Zenon DEF LiveOn, ExactOn, Match, TypeOK

-----------------------------------------------------------------------------
\* AssertFact, for a fact that is not in working memory.
LEMMA AssertFactStep ==
    ASSUME TypeOK, NEW f \in Facts \ wm, NEW v \in Vals,
           NEW J \in [Facts -> Token \cup {NoToken}], AssertFact(f, v, J)
    PROVE  /\ wm' \subseteq wm \cup {f}
           /\ pc = "rhs" => wm' = wm \cup {f}
           /\ val' \in [Facts -> Vals \cup {NoVal}] /\ val' = [val EXCEPT ![f] = v]
           /\ gen' \in [Facts -> Nat]
           /\ memory' \subseteq Token
           /\ pending' \subseteq Token /\ delayed' \subseteq Token /\ settled' \subseteq Token
           /\ grouped' \subseteq pending'
           /\ focus' \in Foci
           /\ just' \in [Facts -> Token \cup {NoToken}]
           /\ \A g \in Facts : just'[g] \in {J[g], NoToken}
           /\ ExactOn(Facts) => ExactOn(Facts)'
<1> DEFINE born == TokensFor(f, v, gen[f] + 1)
<1>1. Propagate(wm \cup {f}, {}, {}, born, Timed, J)
  BY Zenon DEF AssertFact
<1>2. wm \cup {f} \in SUBSET Facts /\ gen[f] + 1 \in Nat
  BY DEF TypeOK
<1>3. \A t : t \in born <=> t \in Token /\ t.fact = f /\ v \in Pattern[t.rule] /\ t.gen = gen[f] + 1
  BY <1>2, TokensOfOne
<1>4. born \in SUBSET Token
  BY <1>3, Zenon
<1>5. val' = [val EXCEPT ![f] = v] /\ gen' = [gen EXCEPT ![f] = @ + 1]
  BY Zenon DEF AssertFact
<1>6. val' \in [Facts -> Vals \cup {NoVal}] /\ gen' \in [Facts -> Nat]
  BY <1>5 DEF TypeOK
<1> HIDE DEF born
<1>7. ASSUME ExactOn(Facts)
      PROVE  ExactOn(Facts)'
  <2>1. ExactOn(Facts \ {f})
    BY <1>7, Zenon DEF ExactOn
  <2>2. LiveOn({f}) = {}
    BY <1>7, AbsentHasNoTokens, Zenon
  <2>3. Doomed(wm \cup {f}, {}) = {}
    BY NothingDoomed, Zenon
  <2>4. val'[f] = v /\ gen'[f] = gen[f] + 1
    BY <1>5, Zenon DEF TypeOK
  <2>5. \A h \in Facts \ {f} : /\ h \in wm \cup {f} <=> h \in wm
                               /\ val'[h] = val[h] /\ gen'[h] = gen[h]
    BY <1>5, Zenon DEF TypeOK
  <2>6. \A t : t \in born <=> /\ t \in Token /\ t.fact \in {f} \cap (wm \cup {f})
                              /\ val'[t.fact] \in Pattern[t.rule] /\ t.gen = gen'[t.fact]
    BY <1>3, <2>4, Zenon
  <2>7. Propagate(wm \cup {f}, {}, LiveOn({f}), born, Timed, J)
    BY <1>1, <2>2, Zenon
  <2>8. Doomed(wm \cup {f}, LiveOn({f})) \cap {f} = {}
    BY <2>2, <2>3, Zenon
  <2>9. wm \cup {f} \in SUBSET Facts /\ {f} \in SUBSET Facts
    BY <1>2, Zenon
  <2> QED BY <2>1, <2>5, <2>6, <2>7, <2>8, <2>9, PropagateExact, Zenon
<1>8. \A g \in Facts : just'[g] \in {J[g], NoToken}
  BY <1>1, <1>2, <1>4, PropagateType, Zenon
<1> QED BY <1>1, <1>2, <1>4, <1>5, <1>6, <1>7, <1>8, PropagateType, Zenon

\* add_facts: the same for a set of facts.
LEMMA AssertFactsStep ==
    ASSUME TypeOK, NEW F \in SUBSET Facts, F \cap wm = {}, NEW v \in Vals,
           val' = [f \in Facts |-> IF f \in F THEN v ELSE val[f]],
           gen' = [f \in Facts |-> IF f \in F THEN gen[f] + 1 ELSE gen[f]],
           Propagate(wm \cup F, {}, {}, UNION {TokensFor(f, v, gen[f] + 1) : f \in F}, {}, just)
    PROVE  /\ wm' \subseteq wm \cup F
           /\ val' \in [Facts -> Vals \cup {NoVal}]
           /\ gen' \in [Facts -> Nat]
           /\ memory' \subseteq Token
           /\ pending' \subseteq Token /\ delayed' \subseteq Token /\ settled' \subseteq Token
           /\ grouped' \subseteq pending'
           /\ focus' \in Foci
           /\ just' \in [Facts -> Token \cup {NoToken}]
           /\ \A g \in Facts : just'[g] \in {just[g], NoToken}
           /\ ExactOn(Facts) => ExactOn(Facts)'
<1> DEFINE born == UNION {TokensFor(f, v, gen[f] + 1) : f \in F}
<1>1. Propagate(wm \cup F, {}, {}, born, {}, just)
  BY Zenon
<1>2. /\ wm \cup F \in SUBSET Facts
      /\ val' \in [Facts -> Vals \cup {NoVal}] /\ gen' \in [Facts -> Nat]
      /\ just \in [Facts -> Token \cup {NoToken}]
  BY DEF TypeOK
<1>3. \A f \in F : f \in Facts /\ gen[f] + 1 \in Nat /\ v = val'[f] /\ gen[f] + 1 = gen'[f]
  BY DEF TypeOK
<1>4. ASSUME NEW t
      PROVE  t \in born <=> /\ t \in Token /\ t.fact \in F
                            /\ val'[t.fact] \in Pattern[t.rule] /\ t.gen = gen'[t.fact]
  <2>1. t \in born <=> \E f \in F : t \in TokensFor(f, v, gen[f] + 1)
    BY Zenon
  <2>2. ASSUME NEW f \in F
        PROVE  t \in TokensFor(f, v, gen[f] + 1)
                 <=> /\ t \in Token /\ t.fact = f
                     /\ v \in Pattern[t.rule] /\ t.gen = gen[f] + 1
    <3>1. f \in Facts /\ gen[f] + 1 \in Nat
      BY <1>3, Zenon
    <3> QED BY <3>1, TokensOfOne
  <2> QED BY <1>3, <2>1, <2>2, Zenon
<1>5. born \in SUBSET Token
  BY <1>4, Zenon
<1> HIDE DEF born
<1>6. ASSUME ExactOn(Facts)
      PROVE  ExactOn(Facts)'
  <2>1. ExactOn(Facts \ F)
    BY <1>6, Zenon DEF ExactOn
  <2>2. LiveOn(F) = {}
    BY <1>6, AbsentHasNoTokens, Zenon
  <2>3. Propagate(wm \cup F, {}, LiveOn(F), born, {}, just)
    BY <1>1, <2>2, Zenon
  <2>4. Doomed(wm \cup F, LiveOn(F)) \cap F = {}
    BY <2>2, NothingDoomed, Zenon
  <2>5. \A h \in Facts \ F : /\ h \in wm \cup F <=> h \in wm
                             /\ val'[h] = val[h] /\ gen'[h] = gen[h]
    BY Zenon
  <2>6. \A t : t \in born <=> /\ t \in Token /\ t.fact \in F \cap (wm \cup F)
                              /\ val'[t.fact] \in Pattern[t.rule] /\ t.gen = gen'[t.fact]
    BY <1>4, Zenon
  <2> QED BY <1>2, <2>1, <2>3, <2>4, <2>5, <2>6, PropagateExact, Zenon
<1>7. \A g \in Facts : just'[g] \in {just[g], NoToken}
  BY <1>1, <1>2, <1>5, PropagateType, Zenon
<1> QED BY <1>1, <1>2, <1>5, <1>6, <1>7, PropagateType, Zenon

\* retract_fact outside of a transaction, and retract_facts.
LEMMA RetractStep ==
    ASSUME TypeOK, NEW F \in SUBSET Facts, NEW out,
           Propagate(wm \ F, out, LiveOn(F), {}, Timed, just), UNCHANGED <<val, gen>>
    PROVE  /\ wm' \subseteq wm
           /\ memory' \subseteq Token
           /\ pending' \subseteq Token /\ delayed' \subseteq Token /\ settled' \subseteq Token
           /\ grouped' \subseteq pending'
           /\ focus' \in Foci
           /\ just' \in [Facts -> Token \cup {NoToken}]
           /\ \A g \in Facts : just'[g] \in {just[g], NoToken}
           /\ ExactOn(Facts) => ExactOn(Facts)'
<1>1. /\ wm \ F \in SUBSET Facts /\ {} \in SUBSET Token
      /\ just \in [Facts -> Token \cup {NoToken}]
  BY Zenon DEF TypeOK
<1>2. ASSUME ExactOn(Facts)
      PROVE  ExactOn(Facts)'
  <2>1. ExactOn(Facts \ F)
    BY <1>2, Zenon DEF ExactOn
  <2>2. Doomed(wm \ F, LiveOn(F)) \cap F = {}
    BY Zenon DEF Doomed
  <2>3. \A h \in Facts \ F : /\ h \in wm \ F <=> h \in wm
                             /\ val'[h] = val[h] /\ gen'[h] = gen[h]
    BY Zenon
  <2>4. \A t : t \in {} <=> /\ t \in Token /\ t.fact \in F \cap (wm \ F)
                            /\ val'[t.fact] \in Pattern[t.rule] /\ t.gen = gen'[t.fact]
    BY Zenon
  <2> QED BY <1>1, <2>1, <2>2, <2>3, <2>4, PropagateExact, Zenon
<1>3. \A g \in Facts : just'[g] \in {just[g], NoToken}
  BY <1>1, PropagateType, Zenon
<1> QED BY <1>1, <1>2, <1>3, PropagateType, Zenon

\* ModifyFact: it needs the terminal nodes to be right about the other facts only,
\* and makes them right about all.
LEMMA ModifyFactStep ==
    ASSUME TypeOK, Grounded, NEW f \in wm, NEW v \in Vals, ModifyFact(f, v)
    PROVE  /\ wm' \subseteq wm
           /\ pc = "rhs" => wm' = wm
           /\ val' \in [Facts -> Vals \cup {NoVal}] /\ val' = [val EXCEPT ![f] = v]
           /\ gen' \in [Facts -> Nat]
           /\ memory' \subseteq Token
           /\ pending' \subseteq Token /\ delayed' \subseteq Token /\ settled' \subseteq Token
           /\ grouped' \subseteq pending'
           /\ focus' \in Foci
           /\ just' \in [Facts -> Token \cup {NoToken}]
           /\ \A g \in Facts : just'[g] \in {just[g], NoToken}
           /\ ExactOn(Facts \ {f}) => ExactOn(Facts)'
<1> DEFINE born == TokensFor(f, v, gen[f] + 1)
<1>1. Propagate(wm, {}, LiveOn({f}), born, Timed, just)
  BY Zenon DEF ModifyFact
<1>2. /\ wm \in SUBSET Facts /\ f \in Facts /\ gen[f] + 1 \in Nat
      /\ just \in [Facts -> Token \cup {NoToken}]
  BY DEF TypeOK
<1>3. \A t : t \in born <=> t \in Token /\ t.fact = f /\ v \in Pattern[t.rule] /\ t.gen = gen[f] + 1
  BY <1>2, TokensOfOne
<1>4. born \in SUBSET Token
  BY <1>3, Zenon
<1>5. val' = [val EXCEPT ![f] = v] /\ gen' = [gen EXCEPT ![f] = @ + 1]
  BY Zenon DEF ModifyFact
<1>6. val' \in [Facts -> Vals \cup {NoVal}] /\ gen' \in [Facts -> Nat]
  BY <1>2, <1>5, Zenon DEF TypeOK
<1> HIDE DEF born
<1>7. ASSUME ExactOn(Facts \ {f})
      PROVE  ExactOn(Facts)'
  <2>1. Doomed(wm, LiveOn({f})) \cap {f} = {}
    BY <1>2, ModifiedNotDoomed, Zenon
  <2>2. val'[f] = v /\ gen'[f] = gen[f] + 1
    BY <1>2, <1>5, Zenon DEF TypeOK
  <2>3. \A h \in Facts \ {f} : /\ h \in wm <=> h \in wm
                               /\ val'[h] = val[h] /\ gen'[h] = gen[h]
    BY <1>5, Zenon DEF TypeOK
  <2>4. \A t : t \in born <=> /\ t \in Token /\ t.fact \in {f} \cap wm
                              /\ val'[t.fact] \in Pattern[t.rule] /\ t.gen = gen'[t.fact]
    BY <1>3, <2>2, Zenon
  <2>5. {f} \in SUBSET Facts
    BY <1>2, Zenon
  <2> QED BY <1>1, <1>2, <1>7, <2>1, <2>3, <2>4, <2>5, PropagateExact, Zenon
<1>8. \A g \in Facts : just'[g] \in {just[g], NoToken}
  BY <1>1, <1>2, <1>4, PropagateType, Zenon
<1> QED BY <1>1, <1>2, <1>4, <1>5, <1>6, <1>7, <1>8, PropagateType, Zenon

-----------------------------------------------------------------------------
(* One lemma for each action: it keeps the invariant. *)

\* The network is right about all facts wherever a call of the owner can be made.
LEMMA IdleExact ==
    ASSUME IInv, Idle
    PROVE  ExactOn(Facts)
BY Zenon DEF IInv, Control, Exact, Idle

\* The counters of the model's bounds stay in their range: an RHS step uses one of
\* MaxOps, a call one of MaxCalls.
LEMMA BoundsKept ==
    ASSUME TypeOK
    PROVE  /\ RhsStep => ops' \in 0..MaxOps
           /\ calls < MaxCalls /\ calls' = calls + 1 => calls' \in 0..MaxCalls
           /\ 0 \in 0..MaxOps
<1>1. ops \in 0..MaxOps /\ calls \in 0..MaxCalls
  BY Zenon DEF TypeOK
<1>2. MaxOps \in Nat /\ MaxCalls \in Nat
  BY SessionAssumption, Zenon
<1>3. RhsStep => ops < MaxOps /\ ops' = ops + 1
  BY Zenon DEF RhsStep
<1> QED BY <1>1, <1>2, <1>3

\* The count of fired rules never passes max_rules: it is compared before it grows.
LEMMA FiredKept ==
    ASSUME TypeOK, ~LimitReached, fired' = fired + 1
    PROVE  fired' \in Nat /\ (max >= 0 => fired' <= max)
<1>1. max \in Int /\ fired \in Nat
  BY SessionAssumption DEF TypeOK
<1>2. ~(max >= 0 /\ fired >= max)
  BY Zenon DEF LimitReached
<1> QED BY <1>1, <1>2

\* The empty batch is a batch.
LEMMA EmptyBatch == <<>> \in Seq(Token)
OBVIOUS

\* A new session is empty and satisfies the invariant.
LEMMA InitIInv == Init => IInv
<1> SUFFICES ASSUME Init PROVE IInv
  BY Zenon
<1>1. TypeOK
  <2>1. /\ val \in [Facts -> Vals \cup {NoVal}] /\ gen \in [Facts -> Nat]
        /\ just \in [Facts -> Token \cup {NoToken}]
    BY Zenon DEF Init
  <2>2. batch = <<>> /\ batch \in Seq(Token)
    BY DEF Init
  <2>3. calls \in 0..MaxCalls /\ ops \in 0..MaxOps /\ max \in Limits \cup {0} /\ fired \in Nat
    BY SessionAssumption DEF Init
  <2>4. max >= 0 => fired <= max
    BY Zenon DEF Init
  <2>5. focus \in Foci
    BY Zenon DEF Init, Foci
  <2> QED BY <2>1, <2>2, <2>3, <2>4, <2>5, Zenon DEF Init, TypeOK
<1>2. Control
  BY Zenon DEF Init, Control
<1>3. Grounded
  BY Zenon DEF Init, Grounded
<1>4. Exact
  BY Zenon DEF Init, Exact, ExactOn, Match
<1> QED BY <1>1, <1>2, <1>3, <1>4, Zenon DEF IInv

\* add_fact: the new fact gets its tokens, nobody else loses one.
LEMMA AddFactIInv ==
    ASSUME IInv, calls' \in 0..MaxCalls, NEW f \in Facts, NEW v \in Vals, AddFact(f, v)
    PROVE  IInv'
<1> USE DEF IInv
<1>1. /\ f \in Facts \ wm /\ Idle /\ AssertFact(f, v, just) /\ fresh' = fresh \ {f}
      /\ just \in [Facts -> Token \cup {NoToken}]
      /\ UNCHANGED <<blocks, logical, pc, loop, ops, flags, tx, retracted>>
  BY Zenon DEF AddFact, TypeOK
<1>2. /\ wm' \subseteq wm \cup {f}
      /\ val' \in [Facts -> Vals \cup {NoVal}] /\ val' = [val EXCEPT ![f] = v]
      /\ gen' \in [Facts -> Nat]
      /\ memory' \subseteq Token
      /\ pending' \subseteq Token /\ delayed' \subseteq Token /\ settled' \subseteq Token
      /\ grouped' \subseteq pending'
      /\ focus' \in Foci
      /\ just' \in [Facts -> Token \cup {NoToken}]
      /\ \A g \in Facts : just'[g] \in {just[g], NoToken}
      /\ ExactOn(Facts)'
  BY <1>1, AssertFactStep, IdleExact, Zenon
<1>3. TypeOK'
  BY <1>1, <1>2, ZenonT(30) DEF TypeOK, blocks, loop, flags, tx
<1>4. Control'
  BY <1>1, <1>2, ZenonT(30) DEF Control, TypeOK, Idle, loop, flags, tx
<1>5. Grounded'
  BY <1>1, <1>2, ShrinkGrounded, Zenon
<1>6. Exact'
  BY <1>1, <1>2, Zenon DEF Exact, Idle
<1> QED BY <1>3, <1>4, <1>5, <1>6, Zenon

\* add_facts: the same for a batch.
LEMMA AddFactsIInv ==
    ASSUME IInv, calls' \in 0..MaxCalls, NEW F \in SUBSET Facts, NEW v \in Vals, AddFacts(F, v)
    PROVE  IInv'
<1> USE DEF IInv
<1>1. /\ F \cap wm = {} /\ Idle /\ fresh' = fresh \ F
      /\ val' = [f \in Facts |-> IF f \in F THEN v ELSE val[f]]
      /\ gen' = [f \in Facts |-> IF f \in F THEN gen[f] + 1 ELSE gen[f]]
      /\ Propagate(wm \cup F, {}, {}, UNION {TokensFor(f, v, gen[f] + 1) : f \in F}, {}, just)
      /\ UNCHANGED <<blocks, logical, pc, loop, ops, flags, tx, retracted>>
  BY Zenon DEF AddFacts
<1>2. /\ wm' \subseteq wm \cup F
      /\ val' \in [Facts -> Vals \cup {NoVal}]
      /\ gen' \in [Facts -> Nat]
      /\ memory' \subseteq Token
      /\ pending' \subseteq Token /\ delayed' \subseteq Token /\ settled' \subseteq Token
      /\ grouped' \subseteq pending'
      /\ focus' \in Foci
      /\ just' \in [Facts -> Token \cup {NoToken}]
      /\ \A g \in Facts : just'[g] \in {just[g], NoToken}
      /\ ExactOn(Facts)'
  BY <1>1, AssertFactsStep, IdleExact, Zenon
<1>3. TypeOK'
  BY <1>1, <1>2, ZenonT(30) DEF TypeOK, blocks, loop, flags, tx
<1>4. Control'
  BY <1>1, <1>2, Zenon DEF Control, TypeOK, Idle, loop, flags, tx
<1>5. Grounded'
  BY <1>1, <1>2, ShrinkGrounded, Zenon
<1>6. Exact'
  BY <1>1, <1>2, Zenon DEF Exact, Idle
<1> QED BY <1>3, <1>4, <1>5, <1>6, Zenon

\* retract_fact and retract_facts.
LEMMA RetractCallIInv ==
    ASSUME IInv, calls' \in 0..MaxCalls, NEW F \in SUBSET Facts, NEW out, Idle,
           Propagate(wm \ F, out, LiveOn(F), {}, Timed, just),
           UNCHANGED <<val, gen, fresh, blocks, logical, pc, loop, ops, flags, tx, retracted>>
    PROVE  IInv'
<1> USE DEF IInv
<1>1. /\ wm' \subseteq wm
      /\ memory' \subseteq Token
      /\ pending' \subseteq Token /\ delayed' \subseteq Token /\ settled' \subseteq Token
      /\ grouped' \subseteq pending'
      /\ focus' \in Foci
      /\ just' \in [Facts -> Token \cup {NoToken}]
      /\ \A g \in Facts : just'[g] \in {just[g], NoToken}
      /\ ExactOn(Facts)'
  BY RetractStep, IdleExact, Zenon
<1>2. TypeOK'
  BY <1>1, ZenonT(30) DEF TypeOK, blocks, loop, flags, tx
<1>3. Control'
  BY <1>1, Zenon DEF Control, TypeOK, Idle, loop, flags, tx
<1>4. Grounded'
  BY <1>1, ShrinkGrounded, Zenon
<1>5. Exact'
  BY <1>1, Zenon DEF Exact, Idle
<1> QED BY <1>2, <1>3, <1>4, <1>5, Zenon

\* update_fact: old tokens leave with what they justified, the new ones come.
LEMMA UpdateFactIInv ==
    ASSUME IInv, calls' \in 0..MaxCalls, NEW f \in Facts, NEW v \in Vals, UpdateFact(f, v)
    PROVE  IInv'
<1> USE DEF IInv
<1>1. /\ f \in wm /\ Idle /\ ModifyFact(f, v)
      /\ UNCHANGED <<fresh, blocks, logical, pc, loop, ops, flags, tx, retracted>>
  BY Zenon DEF UpdateFact
<1>2. ExactOn(Facts \ {f})
  BY <1>1, IdleExact, Zenon DEF ExactOn
<1>3. /\ wm' \subseteq wm
      /\ val' \in [Facts -> Vals \cup {NoVal}] /\ val' = [val EXCEPT ![f] = v]
      /\ gen' \in [Facts -> Nat]
      /\ memory' \subseteq Token
      /\ pending' \subseteq Token /\ delayed' \subseteq Token /\ settled' \subseteq Token
      /\ grouped' \subseteq pending'
      /\ focus' \in Foci
      /\ just' \in [Facts -> Token \cup {NoToken}]
      /\ \A g \in Facts : just'[g] \in {just[g], NoToken}
      /\ ExactOn(Facts)'
  BY <1>1, <1>2, ModifyFactStep, Zenon
<1>4. TypeOK'
  BY <1>1, <1>3, ZenonT(30) DEF TypeOK, blocks, loop, flags, tx
<1>5. Control'
  BY <1>1, <1>3, ZenonT(30) DEF Control, TypeOK, Idle, loop, flags, tx
<1>6. Grounded'
  BY <1>1, <1>3, ShrinkGrounded, Zenon
<1>7. Exact'
  BY <1>1, <1>3, Zenon DEF Exact, Idle
<1> QED BY <1>4, <1>5, <1>6, <1>7, Zenon

\* Steps that leave facts, tokens and justifications alone.
LEMMA QuietStep ==
    ASSUME IInv, UNCHANGED <<store, memory, just>>
    PROVE  /\ Grounded'
           /\ \A F : ExactOn(F) => ExactOn(F)'
<1>1. Grounded'
  <2>1. Grounded /\ fresh' \subseteq fresh /\ \A g \in Facts : just'[g] \in {just[g], NoToken}
    BY Zenon DEF IInv, store
  <2> QED BY <2>1, ShrinkGrounded, Zenon
<1>2. \A F : ExactOn(F) => ExactOn(F)'
  BY Zenon DEF store, ExactOn, Match
<1> QED BY <1>1, <1>2, Zenon

\* set_focus touches the agenda only.
LEMMA SetFocusIInv ==
    ASSUME IInv, calls' \in 0..MaxCalls, NEW g \in Foci, SetFocus(g)
    PROVE  IInv'
<1> USE DEF IInv
<1>1. UNCHANGED <<store, memory, just>>
  BY Zenon DEF SetFocus, tms
<1>2. TypeOK'
  BY <1>1, ZenonT(30) DEF SetFocus, TypeOK, store, blocks, tms, loop, flags, tx
<1>3. Control'
  BY <1>1, Zenon DEF SetFocus, Control, store, loop, flags, tx
<1>4. Exact'
  BY <1>1, QuietStep, Zenon DEF SetFocus, Exact, loop, flags, tx
<1> QED BY <1>1, <1>2, <1>3, <1>4, QuietStep, Zenon

\* reset empties working memory and the network together, whatever the state.
LEMMA ResetIInv ==
    ASSUME IInv, calls' \in 0..MaxCalls, Reset
    PROVE  IInv'
<1> USE DEF IInv
<1>1. TypeOK'
  <2>1. /\ val' \in [Facts -> Vals \cup {NoVal}] /\ gen' \in [Facts -> Nat]
        /\ just' \in [Facts -> Token \cup {NoToken}] /\ focus' \in Foci
    BY Zenon DEF Reset, Foci
  <2> QED BY <2>1, Zenon DEF Reset, TypeOK, loop
<1>2. Control'
  BY Zenon DEF Reset, Control, TypeOK, loop
<1>3. Grounded'
  BY Zenon DEF Reset, Grounded
<1>4. Exact'
  BY Zenon DEF Reset, Exact, ExactOn, Match
<1> QED BY <1>1, <1>2, <1>3, <1>4, Zenon

\* Entering fire_all_rules changes no fact and no token.
LEMMA FireBeginIInv ==
    ASSUME IInv, calls' \in 0..MaxCalls, NEW m \in Limits, FireBegin(m)
    PROVE  IInv'
<1> USE DEF IInv
<1>1. UNCHANGED <<store, memory, just>>
  BY Zenon DEF FireBegin, tms
<1>2. TypeOK'
  <2>1. locked' \subseteq LockOnActive
    BY Zenon DEF FireBegin
  <2>2. max' \in Limits \cup {0} /\ fired' \in Nat /\ (max' >= 0 => fired' <= max')
    BY SessionAssumption, ZenonT(30) DEF FireBegin
  <2> QED BY <1>1, <2>1, <2>2, Zenon DEF FireBegin, Idle, TypeOK, store, agenda, tms, tx
<1>3. Control'
  BY <1>1, Zenon DEF FireBegin, Idle, Control, TypeOK, store, tx
<1>4. Exact'
  BY <1>1, QuietStep, Zenon DEF FireBegin, Idle, Exact, tx
<1> QED BY <1>1, <1>2, <1>3, <1>4, QuietStep, Zenon

-----------------------------------------------------------------------------
\* The parts of a batch of tokens are tokens.
LEMMA ElemsType ==
    ASSUME NEW q \in Seq(Token)
    PROVE  /\ Elems(q) \subseteq Token
           /\ q # <<>> => Head(q) \in Token /\ Tail(q) \in Seq(Token)
BY DEF Elems

\* A batch is a sequence of pending activations.
LEMMA BatchType ==
    ASSUME NEW P \in SUBSET Token, NEW n \in Nat, NEW b \in Batches(P, n)
    PROVE  b \in Seq(Token)
<1>1. PICK k \in 0..n : b \in [1..k -> {a \in P : InFocus(a)}]
  BY Zenon DEF Batches
<1>2. b \in [1..k -> Token]
  BY <1>1, Zenon
<1> QED BY <1>1, <1>2

\* An exception that leaves fire_all_rules drops the batch and the call's locals.
LEMMA EscapeType ==
    ASSUME TypeOK, Escape(batch)
    PROVE  /\ pc' = "idle" /\ batch' = <<>> /\ batch' \in Seq(Token)
           /\ settled' \subseteq Token /\ current' \in Token \cup {NoToken}
           /\ max' = 0 /\ fired' = 0 /\ ops' \in 0..MaxOps
<1>1. Elems(batch) \subseteq Token /\ settled \subseteq Token
  BY ElemsType, Zenon DEF TypeOK
<1>2. 0 \in 0..MaxOps
  BY BoundsKept, Zenon
<1>3. /\ pc' = "idle" /\ batch' = <<>> /\ settled' = settled \cup Elems(batch)
      /\ current' = NoToken /\ max' = 0 /\ fired' = 0 /\ ops' = 0
  BY Zenon DEF Escape
<1> QED BY <1>1, <1>2, <1>3, EmptyBatch, Zenon

\* What is left of max_rules below the limit is a natural number.
LEMMA BudgetType ==
    ASSUME TypeOK, ~LimitReached
    PROVE  Budget \in Nat
BY SessionAssumption DEF TypeOK, LimitReached, Budget

\* The head of the fire loop: flushing delayed activations and popping a batch
\* change no fact.
LEMMA LoopHeadIInv ==
    ASSUME IInv, calls' \in 0..MaxCalls, LoopHead
    PROVE  IInv'
<1> USE DEF IInv
<1>1. UNCHANGED <<store, memory, just>>
  BY Zenon DEF LoopHead, tms
<1>2. PICK ready \in SUBSET delayed :
        LET added == pending \cup ready
            regrouped == grouped \cup {a \in ready : ActivationGroup[a.rule] # NoGroup}
        IN  /\ delayed' = delayed \ ready
            /\ \/ /\ LimitReached
                  /\ pending' = added /\ grouped' = regrouped
                  /\ pc' = "end"
                  /\ UNCHANGED batch
               \/ /\ ~LimitReached
                  /\ \E b \in Batches(added, Budget) :
                       /\ batch' = b
                       /\ pending' = added \ Elems(b)
                       /\ grouped' = regrouped \ Elems(b)
                       /\ pc' = IF b = <<>> THEN "end" ELSE "batch"
  BY Zenon DEF LoopHead
<1>3. /\ pc = "loop" /\ batch = <<>>
      /\ UNCHANGED <<store, memory, focus, settled, blocks, tms, max, fired, current, ops,
                     flags, tx, retracted>>
  BY Zenon DEF LoopHead, Control
<1>4. /\ delayed' \subseteq Token /\ pending' \subseteq Token /\ grouped' \subseteq pending'
      /\ batch' \in Seq(Token)
      /\ pc' \in {"batch", "end"} /\ (pc' = "end" => batch' = <<>>)
  <2> DEFINE added == pending \cup ready
             regrouped == grouped \cup {a \in ready : ActivationGroup[a.rule] # NoGroup}
  <2>1. added \in SUBSET Token /\ regrouped \subseteq added
    BY Zenon DEF TypeOK
  <2>2. delayed' \subseteq Token
    BY <1>2, Zenon DEF TypeOK
  <2>3. CASE LimitReached
    BY <1>2, <1>3, <2>1, <2>2, <2>3
  <2>4. CASE ~LimitReached
    <3>1. PICK b \in Batches(added, Budget) :
                       /\ batch' = b
                       /\ pending' = added \ Elems(b)
                       /\ grouped' = regrouped \ Elems(b)
                       /\ pc' = IF b = <<>> THEN "end" ELSE "batch"
      BY <1>2, <2>4, Zenon
    <3>2. b \in Seq(Token)
      BY <2>1, <2>4, BatchType, BudgetType, Zenon
    <3> HIDE DEF added, regrouped
    <3> QED BY <2>1, <2>2, <3>1, <3>2, Zenon
  <2> QED BY <2>3, <2>4, Zenon
<1>5. TypeOK'
  BY <1>3, <1>4, ZenonT(30) DEF TypeOK, store, blocks, tms, flags, tx
<1>6. Control'
  BY <1>3, <1>4, Zenon DEF Control, store, flags, tx
<1>7. Exact'
  BY <1>1, <1>3, <1>4, QuietStep, Zenon DEF Exact, flags, tx
<1> QED BY <1>1, <1>5, <1>6, <1>7, QuietStep, Zenon

\* The steps of the loop that touch neither facts nor tokens.
LEMMA FireEndIInv ==
    ASSUME IInv, calls' \in 0..MaxCalls, FireEnd
    PROVE  IInv'
<1> USE DEF IInv
<1>1. UNCHANGED <<store, memory, just>>
  BY Zenon DEF FireEnd, tms
<1>2. TypeOK'
  <2>1. focus' \in Foci /\ max' = 0 /\ fired' = 0 /\ batch = <<>>
    BY Zenon DEF FireEnd, Foci, Control
  <2> QED BY <1>1, <2>1 DEF FireEnd, TypeOK, Control, store, tms, flags, tx
<1>3. Control'
  BY <1>1, Zenon DEF FireEnd, Control, store, flags, tx
<1>4. Exact'
  BY <1>1, QuietStep, Zenon DEF FireEnd, Exact, flags, tx
<1> QED BY <1>1, <1>2, <1>3, <1>4, QuietStep, Zenon

\* A finished batch returns to the head of the loop.
LEMMA BatchDoneIInv ==
    ASSUME IInv, calls' \in 0..MaxCalls, BatchDone
    PROVE  IInv'
<1> USE DEF IInv
<1>1. UNCHANGED <<store, memory, just>>
  BY Zenon DEF BatchDone, tms
<1>2. TypeOK'
  BY <1>1, Zenon DEF BatchDone, TypeOK, store, agenda, blocks, tms, loop, flags, tx
<1>3. Control'
  BY <1>1, Zenon DEF BatchDone, Control, store, loop, flags, tx
<1>4. Exact'
  BY <1>1, QuietStep, Zenon DEF BatchDone, Exact, loop, flags, tx
<1> QED BY <1>1, <1>2, <1>3, <1>4, QuietStep, Zenon

\* Putting back the rest of a batch after halt or at the limit changes no fact.
LEMMA RequeueIInv ==
    ASSUME IInv, calls' \in 0..MaxCalls, Requeue
    PROVE  IInv'
<1> USE DEF IInv
<1>1. UNCHANGED <<store, memory, just>>
  BY Zenon DEF Requeue, tms
<1>2. TypeOK'
  <2>1. Elems(batch) \subseteq Token
    BY ElemsType, Zenon DEF TypeOK
  <2>2. batch' \in Seq(Token)
    <3>1. batch' = <<>>
      BY Zenon DEF Requeue
    <3> QED BY <3>1, EmptyBatch, Zenon
  <2> QED BY <1>1, <2>1, <2>2, Zenon DEF Requeue, TypeOK, store, blocks, tms, flags, tx
<1>3. Control'
  BY <1>1, Zenon DEF Requeue, Control, store, flags, tx
<1>4. Exact'
  BY <1>1, QuietStep, Zenon DEF Requeue, Exact, flags, tx
<1> QED BY <1>1, <1>2, <1>3, <1>4, QuietStep, Zenon

\* Skipping an activation whose fact is gone changes no fact.
LEMMA SkipStaleIInv ==
    ASSUME IInv, calls' \in 0..MaxCalls, SkipStale
    PROVE  IInv'
<1> USE DEF IInv
<1>1. UNCHANGED <<store, memory, just>>
  BY Zenon DEF SkipStale, tms
<1>2. TypeOK'
  <2>1. Head(batch) \in Token /\ batch' \in Seq(Token)
    BY ElemsType, Zenon DEF SkipStale, TypeOK
  <2> QED BY <1>1, <2>1, Zenon DEF SkipStale, TypeOK, store, blocks, tms, flags, tx
<1>3. Control'
  BY <1>1, Zenon DEF SkipStale, Control, store, flags, tx
<1>4. Exact'
  BY <1>1, QuietStep, Zenon DEF SkipStale, Exact, flags, tx
<1> QED BY <1>1, <1>2, <1>3, <1>4, QuietStep, Zenon

\* fire_activation opens the transaction on a token whose fact is in working
\* memory.
LEMMA FireActivationIInv ==
    ASSUME IInv, calls' \in 0..MaxCalls, FireActivation
    PROVE  IInv'
<1> USE DEF IInv
<1>1. UNCHANGED <<store, memory, just>>
  BY Zenon DEF FireActivation, tms
<1>2. TypeOK'
  <2>1. Head(batch) \in Token /\ batch' \in Seq(Token)
    BY ElemsType, Zenon DEF FireActivation, TypeOK
  <2>2. fired' \in Nat /\ (max >= 0 => fired' <= max)
    <3>1. ~LimitReached /\ fired' = fired + 1 /\ max' = max
      BY Zenon DEF FireActivation
    <3> QED BY <3>1, FiredKept, Zenon
  <2>3. noloop' \subseteq NoLoop \X Facts
    <3>1. noloop' = IF Head(batch).rule \in NoLoop
                    THEN noloop \cup {<<Head(batch).rule, Head(batch).fact>>} ELSE noloop
      BY Zenon DEF FireActivation
    <3>2. noloop \subseteq NoLoop \X Facts /\ Head(batch).fact \in Facts
      BY <2>1, Zenon DEF TypeOK, Token
    <3>3. CASE Head(batch).rule \in NoLoop
      <4>1. <<Head(batch).rule, Head(batch).fact>> \in NoLoop \X Facts
        BY <3>2, <3>3, Zenon
      <4>2. noloop' = noloop \cup {<<Head(batch).rule, Head(batch).fact>>}
        BY <3>1, <3>3, Zenon
      <4> QED BY <3>2, <4>1, <4>2, Zenon
    <3>4. CASE Head(batch).rule \notin NoLoop
      BY <3>1, <3>2, <3>4, Zenon
    <3> QED BY <3>3, <3>4, Zenon
  <2>4. pending' \subseteq pending /\ grouped' \subseteq pending' /\ settled' \subseteq Token
    BY <2>1, Zenon DEF FireActivation, TypeOK
  <2>5. current' \in Token
    BY <2>1, Zenon DEF FireActivation
  <2> QED BY <1>1, <2>1, <2>2, <2>3, <2>4, <2>5, Zenon DEF FireActivation, TypeOK, store, tms, flags
<1>3. Control'
  <2>1. Head(batch) \in Token
    BY ElemsType, Zenon DEF FireActivation, TypeOK
  <2> QED BY <1>1, <2>1, Zenon DEF FireActivation, Control, store, flags
<1>4. Exact'
  BY <1>1, QuietStep, Zenon DEF FireActivation, Exact, flags
<1> QED BY <1>1, <1>2, <1>3, <1>4, QuietStep, Zenon

\* A listener that throws before the RHS leaves fire_all_rules with no transaction
\* open.
LEMMA BeforeListenerThrowsIInv ==
    ASSUME IInv, calls' \in 0..MaxCalls, BeforeListenerThrows
    PROVE  IInv'
<1> USE DEF IInv
<1>1. UNCHANGED <<store, memory, just>>
  BY Zenon DEF BeforeListenerThrows, tms
<1>2. TypeOK'
  <2>1. Escape(batch)
    BY Zenon DEF BeforeListenerThrows
  <2>2. /\ pc' = "idle" /\ batch' = <<>> /\ batch' \in Seq(Token)
        /\ settled' \subseteq Token /\ current' \in Token \cup {NoToken}
        /\ max' = 0 /\ fired' = 0 /\ ops' \in 0..MaxOps
    BY <2>1, EscapeType, Zenon
  <2> QED BY <1>1, <2>2, Zenon DEF BeforeListenerThrows, TypeOK, Control, store, blocks, tms, flags, tx
<1>3. Control'
  BY <1>1, Zenon DEF BeforeListenerThrows, Escape, Control, store, flags, tx
<1>4. Exact'
  BY <1>1, QuietStep, Zenon DEF BeforeListenerThrows, Escape, Exact, flags, tx
<1> QED BY <1>1, <1>2, <1>3, <1>4, QuietStep, Zenon

-----------------------------------------------------------------------------
\* What holds while an RHS runs.
LEMMA RhsState ==
    ASSUME IInv, pc = "rhs"
    PROVE  /\ consistent /\ rollback_ok /\ ExactOn(Facts)
           /\ current \in Token /\ current.fact \in wm /\ current.fact \in Facts
           /\ current.fact \notin fresh /\ val[current.fact] \in Vals
BY Zenon DEF IInv, Control, Exact, TypeOK

\* An insertion whose justification, if any, is a token on an older fact.
LEMMA InsertIInv ==
    ASSUME IInv, calls' \in 0..MaxCalls, NEW f \in fresh, NEW v \in Vals,
           NEW J, J = just \/ J = [just EXCEPT ![f] = current],
           RhsStep, fresh' = fresh \ {f}, AssertFact(f, v, J),
           inserted' = inserted \cup {f}, logical' \subseteq Facts,
           UNCHANGED <<blocks, pc, loop, flags, snapshot, rollback_ok, saved, retracted>>
    PROVE  IInv'
<1> USE DEF IInv
<1>1. pc = "rhs" /\ ops' \in 0..MaxOps
  BY BoundsKept, Zenon DEF RhsStep
<1>2. /\ consistent /\ rollback_ok /\ ExactOn(Facts)
      /\ current \in Token /\ current.fact \in wm /\ current.fact \in Facts
      /\ current.fact \notin fresh
  BY <1>1, RhsState, Zenon
<1>3. f \in Facts \ wm /\ J \in [Facts -> Token \cup {NoToken}]
  BY <1>2, Zenon DEF TypeOK
<1>4. /\ wm' = wm \cup {f}
      /\ val' \in [Facts -> Vals \cup {NoVal}] /\ val' = [val EXCEPT ![f] = v]
      /\ gen' \in [Facts -> Nat]
      /\ memory' \subseteq Token
      /\ pending' \subseteq Token /\ delayed' \subseteq Token /\ settled' \subseteq Token
      /\ grouped' \subseteq pending'
      /\ focus' \in Foci
      /\ just' \in [Facts -> Token \cup {NoToken}]
      /\ \A g \in Facts : just'[g] \in {J[g], NoToken}
      /\ ExactOn(Facts)'
  BY <1>1, <1>2, <1>3, AssertFactStep, Zenon
<1>5. TypeOK'
  BY <1>1, <1>3, <1>4, Zenon DEF TypeOK, blocks, loop, flags
<1>6. Control'
  BY <1>1, <1>2, <1>3, <1>4, ZenonT(30) DEF Control, TypeOK, loop, flags
<1>7. Exact'
  BY <1>1, <1>4, Zenon DEF Exact, loop, flags
<1>8. \A g \in Facts : just'[g] = NoToken \/ just'[g] = just[g] \/ (g = f /\ just'[g] = current)
  BY <1>3, <1>4, ZenonT(30) DEF TypeOK
<1>9. Grounded'
  <2>1. \A g \in Facts : just'[g] # NoToken => just'[g].fact \notin fresh'
    BY <1>2, <1>8, Zenon DEF Grounded
  <2>2. ASSUME NEW S \in SUBSET Facts, S # {}
        PROVE  \E g \in S : just'[g] # NoToken => just'[g].fact \notin S
    <3>1. CASE S \ {f} = {}
      BY <1>2, <1>8, <2>2, <3>1, ZenonT(30) DEF Grounded
    <3>2. CASE S \ {f} # {}
      <4>1. PICK g \in S \ {f} : just[g] # NoToken => just[g].fact \notin S \ {f}
        BY <3>2, Zenon DEF Grounded
      <4>2. just[g] # NoToken => just[g].fact # f
        BY <4>1 DEF Grounded
      <4> QED BY <1>8, <4>1, <4>2, Zenon
    <3> QED BY <3>1, <3>2, ZenonT(30)
  <2> QED BY <2>1, <2>2, Zenon DEF Grounded
<1> QED BY <1>5, <1>6, <1>7, <1>9, Zenon

\* insert and insertLogical in an RHS; a logical fact is new, so it cannot support
\* its own support.
LEMMA RhsInsertIInv ==
    ASSUME IInv, calls' \in 0..MaxCalls, NEW f \in Facts, NEW v \in Vals,
           RhsInsert(f, v) \/ RhsInsertLogical(f, v)
    PROVE  IInv'
<1>1. CASE RhsInsert(f, v)
  <2>1. /\ f \in fresh /\ RhsStep /\ fresh' = fresh \ {f} /\ AssertFact(f, v, just)
        /\ inserted' = inserted \cup {f} /\ logical' \subseteq Facts
        /\ UNCHANGED <<blocks, pc, loop, flags, snapshot, rollback_ok, saved, retracted>>
    BY <1>1, Zenon DEF RhsInsert, NewFact, IInv, TypeOK
  <2> QED BY <2>1, InsertIInv, Zenon
<1>2. CASE RhsInsertLogical(f, v)
  <2>1. /\ f \in fresh /\ RhsStep /\ fresh' = fresh \ {f}
        /\ AssertFact(f, v, [just EXCEPT ![f] = current])
        /\ inserted' = inserted \cup {f} /\ logical' \subseteq Facts
        /\ UNCHANGED <<blocks, pc, loop, flags, snapshot, rollback_ok, saved, retracted>>
    BY <1>2, Zenon DEF RhsInsertLogical, NewFact, IInv, TypeOK
  <2> QED BY <2>1, InsertIInv, Zenon
<1> QED BY <1>1, <1>2, Zenon

\* update in an RHS: the first one takes the snapshot, the cascade is deferred.
LEMMA RhsUpdateIInv ==
    ASSUME IInv, calls' \in 0..MaxCalls, NEW v \in Vals, RhsUpdate(v)
    PROVE  IInv'
<1> USE DEF IInv
<1> DEFINE f == current.fact
<1>1. /\ pc = "rhs" /\ ops' \in 0..MaxOps /\ ModifyFact(f, v)
      /\ snapshot' = IF snapshot = NoVal THEN val[f] ELSE snapshot
      /\ retracted' = retracted \cup {g \in wm : just[g] \in LiveOn({f})}
      /\ UNCHANGED <<fresh, blocks, logical, pc, loop, flags, inserted, rollback_ok, saved>>
  BY BoundsKept, Zenon DEF RhsUpdate, RhsStep, TakeSnapshot
<1>2. /\ consistent /\ rollback_ok /\ ExactOn(Facts)
      /\ current \in Token /\ f \in wm /\ f \in Facts /\ f \notin fresh /\ val[f] \in Vals
  BY <1>1, RhsState, Zenon
<1> HIDE DEF f
<1>3. ExactOn(Facts \ {f})
  BY <1>2, Zenon DEF ExactOn
<1>4. /\ wm' = wm
      /\ val' \in [Facts -> Vals \cup {NoVal}] /\ val' = [val EXCEPT ![f] = v]
      /\ gen' \in [Facts -> Nat]
      /\ memory' \subseteq Token
      /\ pending' \subseteq Token /\ delayed' \subseteq Token /\ settled' \subseteq Token
      /\ grouped' \subseteq pending'
      /\ focus' \in Foci
      /\ just' \in [Facts -> Token \cup {NoToken}]
      /\ \A g \in Facts : just'[g] \in {just[g], NoToken}
      /\ ExactOn(Facts)'
  BY <1>1, <1>2, <1>3, ModifyFactStep, Zenon
<1>5. snapshot' \in Vals /\ retracted' \subseteq wm /\ wm \subseteq Facts \ fresh
  BY <1>1, <1>2, Zenon DEF TypeOK, Control
<1>6. TypeOK'
  BY <1>1, <1>4, <1>5, Zenon DEF TypeOK, blocks, loop, flags
<1>7. Control'
  BY <1>1, <1>2, <1>4, <1>5, ZenonT(30) DEF Control, TypeOK, loop, flags
<1>8. Grounded'
  BY <1>1, <1>4, ShrinkGrounded, Zenon
<1>9. Exact'
  BY <1>1, <1>4, Zenon DEF Exact, flags
<1> QED BY <1>6, <1>7, <1>8, <1>9, Zenon

\* A field has changed and the network has not been told: from here on the
\* terminal nodes may be wrong about that fact.
LEMMA RhsUpdateThrowsIInv ==
    ASSUME IInv, calls' \in 0..MaxCalls, NEW v \in Vals, RhsUpdateThrows(v)
    PROVE  IInv'
<1> USE DEF IInv
<1> DEFINE f == current.fact
<1>1. /\ pc = "rhs" /\ ops' \in 0..MaxOps
      /\ snapshot' = IF snapshot = NoVal THEN val[f] ELSE snapshot
      /\ val' = [val EXCEPT ![f] = v]
      /\ pc' = "rollback_updates" /\ rollback_ok' = TRUE
      /\ UNCHANGED <<wm, fresh, gen, memory, agenda, blocks, tms, loop, flags, inserted, saved,
                     retracted>>
  BY BoundsKept, Zenon DEF RhsUpdateThrows, RhsStep, TakeSnapshot
<1>2. /\ consistent /\ rollback_ok /\ ExactOn(Facts)
      /\ current \in Token /\ f \in wm /\ f \in Facts /\ f \notin fresh /\ val[f] \in Vals
  BY <1>1, RhsState, Zenon
<1>3. f' = f
  BY <1>1, Zenon DEF loop
<1>4. snapshot' \in Vals
  BY <1>1, <1>2, Zenon DEF TypeOK
<1>5. TypeOK'
  BY <1>1, <1>2, <1>4, Zenon DEF TypeOK, agenda, blocks, tms, loop, flags
<1>6. Control'
  BY <1>1, <1>2, <1>4, Zenon DEF Control, TypeOK, loop, flags
<1>7. Grounded'
  BY <1>1, ShrinkGrounded, Zenon DEF tms
<1>8. ExactOn(Facts \ {f})'
  BY <1>1, <1>2, <1>3, Zenon DEF ExactOn, Match, TypeOK
<1>9. Exact'
  <2>1. snapshot' # NoVal
    BY <1>4, SessionAssumption, Zenon
  <2> QED BY <1>1, <1>8, <2>1, Zenon DEF Exact
<1> QED BY <1>5, <1>6, <1>7, <1>9, Zenon

\* RHS actions that leave facts and tokens alone, and the end of the RHS.
LEMMA RhsRetractIInv ==
    ASSUME IInv, calls' \in 0..MaxCalls, RhsRetract
    PROVE  IInv'
<1> USE DEF IInv
<1>1. UNCHANGED <<store, memory, just>> /\ ops' \in 0..MaxOps
  BY BoundsKept, Zenon DEF RhsRetract, tms
<1>2. TypeOK'
  BY <1>1, Zenon DEF RhsRetract, RhsStep, TypeOK, store, agenda, blocks, loop, flags, tx, tms
<1>3. Control'
  BY <1>1, Zenon DEF RhsRetract, RhsStep, Control, TypeOK, store, agenda, blocks, loop, flags, tx
<1>4. Exact'
  BY <1>1, QuietStep, Zenon DEF RhsRetract, RhsStep, Exact, Control, agenda, blocks, loop, flags, tx
<1> QED BY <1>1, <1>2, <1>3, <1>4, QuietStep, Zenon

\* halt in an RHS only sets the flag.
LEMMA RhsHaltIInv ==
    ASSUME IInv, calls' \in 0..MaxCalls, RhsHalt
    PROVE  IInv'
<1> USE DEF IInv
<1>1. UNCHANGED <<store, memory, just>> /\ ops' \in 0..MaxOps
  BY BoundsKept, Zenon DEF RhsHalt, tms
<1>2. TypeOK'
  BY <1>1, Zenon DEF RhsHalt, RhsStep, TypeOK, store, agenda, blocks, loop, tx, tms
<1>3. Control'
  BY <1>1, Zenon DEF RhsHalt, RhsStep, Control, TypeOK, store, agenda, blocks, loop, tx
<1>4. Exact'
  BY <1>1, QuietStep, Zenon DEF RhsHalt, RhsStep, Exact, Control, agenda, blocks, loop, tx
<1> QED BY <1>1, <1>2, <1>3, <1>4, QuietStep, Zenon

\* set_focus in an RHS touches the agenda only.
LEMMA RhsSetFocusIInv ==
    ASSUME IInv, calls' \in 0..MaxCalls, NEW g \in Foci, RhsSetFocus(g)
    PROVE  IInv'
<1> USE DEF IInv
<1>1. UNCHANGED <<store, memory, just>> /\ ops' \in 0..MaxOps
  BY BoundsKept, Zenon DEF RhsSetFocus, tms
<1>2. TypeOK'
  BY <1>1, Zenon DEF RhsSetFocus, RhsStep, TypeOK, store, blocks, loop, flags, tx, tms
<1>3. Control'
  BY <1>1, Zenon DEF RhsSetFocus, RhsStep, Control, TypeOK, store, blocks, loop, flags, tx
<1>4. Exact'
  BY <1>1, QuietStep, Zenon DEF RhsSetFocus, RhsStep, Exact, Control, blocks, loop, flags, tx
<1> QED BY <1>1, <1>2, <1>3, <1>4, QuietStep, Zenon

\* An action that throws starts the rollback; nothing is undone yet.
LEMMA RhsThrowIInv ==
    ASSUME IInv, calls' \in 0..MaxCalls, RhsThrow
    PROVE  IInv'
<1> USE DEF IInv
<1>1. UNCHANGED <<store, memory, just>>
  BY SessionAssumption, Zenon DEF RhsThrow, TypeOK, tms
<1>2. TypeOK'
  BY <1>1, Zenon DEF RhsThrow, TypeOK, store, agenda, blocks, loop, flags, tms
<1>3. Control'
  BY <1>1, Zenon DEF RhsThrow, Control, TypeOK, store, agenda, blocks, loop, flags
<1>4. Exact'
  <2>1. ExactOn(Facts) /\ ExactOn(Facts \ {current.fact}) /\ current' = current
    BY RhsState, Zenon DEF RhsThrow, loop, ExactOn
  <2>2. ExactOn(Facts)' /\ ExactOn(Facts \ {current.fact})'
    BY <1>1, <2>1, QuietStep, Zenon
  <2> QED BY <2>1, <2>2, Zenon DEF Exact
<1> QED BY <1>1, <1>2, <1>3, <1>4, QuietStep, Zenon

\* The end of an RHS starts the commit; the deferred retractions are still to do.
LEMMA RhsCommitIInv ==
    ASSUME IInv, calls' \in 0..MaxCalls, RhsCommit
    PROVE  IInv'
<1> USE DEF IInv
<1>1. UNCHANGED <<store, memory, just>>
  BY SessionAssumption, Zenon DEF RhsCommit, TypeOK, tms
<1>2. TypeOK'
  BY <1>1, Zenon DEF RhsCommit, TypeOK, store, agenda, blocks, loop, tms
<1>3. Control'
  BY <1>1, Zenon DEF RhsCommit, Control, TypeOK, store, agenda, blocks, loop
<1>4. Exact'
  BY <1>1, QuietStep, Zenon DEF RhsCommit, Exact, Control, agenda, blocks, loop
<1> QED BY <1>1, <1>2, <1>3, <1>4, QuietStep, Zenon

\* A retraction inside fire_all_rules, at the commit or in the rollback of an
\* insertion.
LEMMA RetractNowIInv ==
    ASSUME IInv, calls' \in 0..MaxCalls, NEW f \in Facts, RetractFactNow(f),
           pc \in {"commit", "rollback_inserts"},
           inserted' \subseteq inserted, retracted' \subseteq retracted,
           UNCHANGED <<fresh, blocks, logical, pc, loop, ops, flags, snapshot, rollback_ok, saved>>
    PROVE  IInv'
<1> USE DEF IInv
<1>1. /\ {f} \in SUBSET Facts
      /\ Propagate(wm \ {f}, {f}, LiveOn({f}), {}, Timed, just) /\ UNCHANGED <<val, gen>>
  BY Zenon DEF RetractFactNow
<1>2. /\ wm' \subseteq wm
      /\ memory' \subseteq Token
      /\ pending' \subseteq Token /\ delayed' \subseteq Token /\ settled' \subseteq Token
      /\ grouped' \subseteq pending'
      /\ focus' \in Foci
      /\ just' \in [Facts -> Token \cup {NoToken}]
      /\ \A g \in Facts : just'[g] \in {just[g], NoToken}
      /\ ExactOn(Facts) => ExactOn(Facts)'
  BY <1>1, RetractStep, Zenon
<1>3. TypeOK'
  BY <1>1, <1>2, Zenon DEF TypeOK, blocks, loop, flags
<1>4. Control'
  BY <1>1, <1>2, Zenon DEF Control, TypeOK, loop, flags
<1>5. Grounded'
  BY <1>2, ShrinkGrounded, Zenon
<1>6. Exact'
  BY <1>2, Zenon DEF Exact, flags
<1> QED BY <1>3, <1>4, <1>5, <1>6, Zenon

\* Each deferred retraction of the commit, with its cascade.
LEMMA CommitRetractIInv ==
    ASSUME IInv, calls' \in 0..MaxCalls, NEW f \in Facts, CommitRetract(f)
    PROVE  IInv'
<1>1. /\ RetractFactNow(f) /\ pc = "commit"
      /\ inserted' \subseteq inserted /\ retracted' \subseteq retracted
      /\ UNCHANGED <<fresh, blocks, logical, pc, loop, ops, flags, snapshot, rollback_ok, saved>>
  BY Zenon DEF CommitRetract, tx
<1> QED BY <1>1, RetractNowIInv, Zenon

\* The end of the commit closes the transaction, on to the batch or out through a
\* throwing listener.
LEMMA CommitEndIInv ==
    ASSUME IInv, calls' \in 0..MaxCalls, CommitEnd
    PROVE  IInv'
<1> USE DEF IInv
<1>1. UNCHANGED <<store, memory, just>>
  BY Zenon DEF CommitEnd, tms
<1>2. /\ pc' \in {"batch", "idle"} /\ (pc' = "idle" => batch' = <<>>)
      /\ batch' \in Seq(Token) /\ settled' \subseteq Token
      /\ current' \in Token \cup {NoToken} /\ ops' \in 0..MaxOps
      /\ max' \in Limits \cup {0} /\ fired' \in Nat /\ (max' >= 0 => fired' <= max')
  <2>1. CASE pc' = "batch" /\ current' = NoToken /\ ops' = 0 /\ UNCHANGED <<settled, batch, max, fired>>
    BY <2>1, BoundsKept, Zenon DEF TypeOK
  <2>2. CASE Escape(batch)
    BY <2>2, EscapeType
  <2> QED BY <2>1, <2>2, Zenon DEF CommitEnd
<1>3. TypeOK'
  BY <1>1, <1>2, Zenon DEF CommitEnd, TypeOK, Control, store, blocks, tms, flags
<1>4. Control'
  BY <1>1, <1>2, Zenon DEF CommitEnd, Control, store, flags
<1>5. Exact'
  BY <1>1, <1>2, QuietStep, Zenon DEF CommitEnd, Exact, Control, flags
<1> QED BY <1>1, <1>3, <1>4, <1>5, QuietStep, Zenon

-----------------------------------------------------------------------------
\* Restoring the updated fact: after it the terminal nodes are right about every
\* fact again, or the rollback has failed.
LEMMA RollbackUpdateIInv ==
    ASSUME IInv, calls' \in 0..MaxCalls, RollbackUpdate
    PROVE  IInv'
<1> USE DEF IInv
<1> DEFINE f == current.fact
<1>1. /\ pc = "rollback_updates" /\ pc' = "rollback_inserts" /\ snapshot' = NoVal
      /\ UNCHANGED <<fresh, blocks, logical, loop, ops, flags, inserted, saved, retracted>>
      /\ consistent /\ rollback_ok /\ current \in Token /\ f \in wm
  BY Zenon DEF RollbackUpdate, Control
<1>2. CASE snapshot # NoVal /\ Valid(val[f])
  <2>1. ModifyFact(f, snapshot) /\ snapshot \in Vals /\ UNCHANGED rollback_ok
    BY <1>1, <1>2, Zenon DEF RollbackUpdate, TypeOK
  <2>2. ExactOn(Facts \ {f})
    BY <1>1, <1>2, Zenon DEF Exact
  <2> HIDE DEF f
  <2>3. /\ wm' \subseteq wm
        /\ val' \in [Facts -> Vals \cup {NoVal}] /\ val' = [val EXCEPT ![f] = snapshot]
        /\ gen' \in [Facts -> Nat]
        /\ memory' \subseteq Token
        /\ pending' \subseteq Token /\ delayed' \subseteq Token /\ settled' \subseteq Token
        /\ grouped' \subseteq pending'
        /\ focus' \in Foci
        /\ just' \in [Facts -> Token \cup {NoToken}]
        /\ \A g \in Facts : just'[g] \in {just[g], NoToken}
        /\ ExactOn(Facts)'
    BY <1>1, <2>1, <2>2, ModifyFactStep, Zenon
  <2>4. TypeOK'
    BY <1>1, <2>1, <2>3, Zenon DEF TypeOK, blocks, loop, flags
  <2>5. Control'
    BY <1>1, <2>1, <2>3, Zenon DEF Control, TypeOK, loop, flags
  <2>6. Grounded'
    BY <1>1, <2>3, ShrinkGrounded, Zenon
  <2>7. Exact'
    BY <1>1, <2>3, Zenon DEF Exact
  <2> QED BY <2>4, <2>5, <2>6, <2>7, Zenon
<1>3. CASE ~(snapshot # NoVal /\ Valid(val[f]))
  <2>1. /\ rollback_ok' = (snapshot = NoVal)
        /\ UNCHANGED <<wm, val, gen, memory, agenda, just>>
    BY <1>1, <1>3, Zenon DEF RollbackUpdate
  <2>2. UNCHANGED <<store, memory, just>>
    BY <1>1, <2>1, Zenon DEF store
  <2>3. TypeOK'
    BY <1>1, <2>1, Zenon DEF TypeOK, agenda, blocks, loop, flags
  <2>4. Control'
    BY <1>1, <2>1, Zenon DEF Control, loop, flags
  <2>5. Exact'
    BY <1>1, <2>1, <2>2, QuietStep, Zenon DEF Exact
  <2> QED BY <2>2, <2>3, <2>4, <2>5, QuietStep, Zenon
<1> QED BY <1>2, <1>3, Zenon

\* Retracting an inserted fact in the rollback, with its cascade.
LEMMA RollbackInsertIInv ==
    ASSUME IInv, calls' \in 0..MaxCalls, NEW f \in Facts, RollbackInsert(f)
    PROVE  IInv'
<1>1. /\ pc = "rollback_inserts"
      /\ inserted' \subseteq inserted /\ retracted' \subseteq retracted
      /\ UNCHANGED <<fresh, blocks, logical, pc, loop, ops, flags, snapshot, rollback_ok, saved>>
  BY Zenon DEF RollbackInsert
<1>2. CASE f \in wm
  BY <1>1, <1>2, RetractNowIInv, Zenon DEF RollbackInsert
<1>3. CASE f \notin wm
  <2> USE DEF IInv
  <2>1. UNCHANGED <<wm, val, gen, memory, agenda, just>>
    BY <1>3, Zenon DEF RollbackInsert
  <2>2. UNCHANGED <<store, memory, just>>
    BY <1>1, <2>1, Zenon DEF store
  <2>3. TypeOK'
    BY <1>1, <2>1, Zenon DEF TypeOK, agenda, blocks, loop, flags
  <2>4. Control'
    BY <1>1, <2>1, Zenon DEF Control, loop, flags
  <2>5. Exact'
    BY <1>1, <2>2, QuietStep, Zenon DEF Exact, flags
  <2> QED BY <2>2, <2>3, <2>4, <2>5, QuietStep, Zenon
<1> QED BY <1>2, <1>3, Zenon

\* Adding a retracted fact back in the rollback, which may fail.
LEMMA RollbackRetractIInv ==
    ASSUME IInv, calls' \in 0..MaxCalls, NEW f \in Facts, RollbackRetract(f)
    PROVE  IInv'
<1> USE DEF IInv
<1>1. /\ pc = "rollback_inserts" /\ f \in retracted /\ retracted' = retracted \ {f}
      /\ UNCHANGED <<fresh, blocks, logical, pc, loop, ops, flags, inserted, snapshot, saved>>
  BY Zenon DEF RollbackRetract
<1>2. CASE f \notin wm /\ Valid(val[f])
  <2>1. AssertFact(f, val[f], just) /\ UNCHANGED rollback_ok
    BY <1>2, Zenon DEF RollbackRetract
  <2>2. /\ f \in Facts \ wm /\ f \notin fresh /\ val[f] \in Vals
        /\ just \in [Facts -> Token \cup {NoToken}]
    BY <1>1, <1>2, Zenon DEF Control, TypeOK
  <2>3. /\ wm' \subseteq wm \cup {f}
        /\ val' \in [Facts -> Vals \cup {NoVal}] /\ val' = [val EXCEPT ![f] = val[f]]
        /\ gen' \in [Facts -> Nat]
        /\ memory' \subseteq Token
        /\ pending' \subseteq Token /\ delayed' \subseteq Token /\ settled' \subseteq Token
        /\ grouped' \subseteq pending'
        /\ focus' \in Foci
        /\ just' \in [Facts -> Token \cup {NoToken}]
        /\ \A g \in Facts : just'[g] \in {just[g], NoToken}
        /\ ExactOn(Facts) => ExactOn(Facts)'
    BY <2>1, <2>2, AssertFactStep, Zenon
  <2>4. TypeOK'
    BY <1>1, <2>1, <2>2, <2>3, Zenon DEF TypeOK, blocks, loop, flags
  <2>5. Control'
    BY <1>1, <2>1, <2>2, <2>3, Zenon DEF Control, TypeOK, loop, flags
  <2>6. Grounded'
    BY <1>1, <2>3, ShrinkGrounded, Zenon
  <2>7. Exact'
    BY <1>1, <2>1, <2>3, Zenon DEF Exact, flags
  <2> QED BY <2>4, <2>5, <2>6, <2>7, Zenon
<1>3. CASE ~(f \notin wm /\ Valid(val[f]))
  <2>1. /\ UNCHANGED <<wm, val, gen, memory, agenda, just>>
        /\ rollback_ok' \in BOOLEAN /\ (rollback_ok' => rollback_ok)
    BY <1>3, Zenon DEF RollbackRetract, TypeOK
  <2>2. UNCHANGED <<store, memory, just>>
    BY <1>1, <2>1, Zenon DEF store
  <2>3. TypeOK'
    BY <1>1, <2>1, Zenon DEF TypeOK, agenda, blocks, loop, flags
  <2>4. Control'
    BY <1>1, <2>1, Zenon DEF Control, loop, flags
  <2>5. Exact'
    BY <1>1, <2>1, <2>2, QuietStep, Zenon DEF Exact, flags
  <2> QED BY <2>2, <2>3, <2>4, <2>5, QuietStep, Zenon
<1> QED BY <1>2, <1>3, Zenon

\* The end of a rollback: a failed one leaves an empty, inconsistent session.
LEMMA RollbackEndIInv ==
    ASSUME IInv, calls' \in 0..MaxCalls, RollbackEnd
    PROVE  IInv'
<1> USE DEF IInv
<1>1. /\ pc = "rollback_inserts" /\ pc' = "idle" /\ inserted = {} /\ retracted = {}
      /\ snapshot = NoVal
      /\ consistent' = rollback_ok /\ halt' \in BOOLEAN /\ rollback_ok' = TRUE
      /\ wm' = IF rollback_ok THEN wm ELSE {}
      /\ UNCHANGED <<val, fresh, gen, memory, pending, delayed, grouped, focus, blocks, tms,
                     inserted, snapshot, retracted>>
  BY Zenon DEF RollbackEnd, Escape, Control, TypeOK
<1>2. /\ batch' \in Seq(Token) /\ batch' = <<>> /\ settled' \subseteq Token
      /\ current' \in Token \cup {NoToken}
      /\ max' = 0 /\ fired' = 0 /\ ops' \in 0..MaxOps
  <2>1. Escape(batch)
    BY Zenon DEF RollbackEnd
  <2> QED BY <2>1, EscapeType, Zenon
<1>3. TypeOK'
  BY <1>1, <1>2, Zenon DEF TypeOK, blocks, tms
<1>4. Control'
  BY <1>1, <1>2, Zenon DEF Control, TypeOK
<1>5. Grounded'
  BY <1>1, ShrinkGrounded, Zenon DEF tms
<1>6. Exact'
  <2>1. SUFFICES ASSUME rollback_ok PROVE ExactOn(Facts)'
    BY <1>1, Zenon DEF Exact
  <2>2. ExactOn(Facts) /\ UNCHANGED <<wm, val, gen, memory>>
    BY <1>1, <2>1, Zenon DEF Exact, Control
  <2> QED BY <2>2, Zenon DEF ExactOn, Match
<1> QED BY <1>3, <1>4, <1>5, <1>6, Zenon

\* Every step inside a call keeps the invariant.
LEMMA RunIInv ==
    ASSUME IInv, Run
    PROVE  IInv'
<1>1. calls' \in 0..MaxCalls
  BY Zenon DEF Run, IInv, TypeOK
<1>2. CASE LoopHead
  BY <1>1, <1>2, LoopHeadIInv, Zenon
<1>3. CASE FireEnd
  BY <1>1, <1>3, FireEndIInv, Zenon
<1>4. CASE BatchDone
  BY <1>1, <1>4, BatchDoneIInv, Zenon
<1>5. CASE Requeue
  BY <1>1, <1>5, RequeueIInv, Zenon
<1>6. CASE SkipStale
  BY <1>1, <1>6, SkipStaleIInv, Zenon
<1>7. CASE FireActivation
  BY <1>1, <1>7, FireActivationIInv, Zenon
<1>8. CASE BeforeListenerThrows
  BY <1>1, <1>8, BeforeListenerThrowsIInv, Zenon
<1>9. CASE \E f \in Facts, v \in Vals : RhsInsert(f, v) \/ RhsInsertLogical(f, v)
  BY <1>1, <1>9, RhsInsertIInv, Zenon
<1>10. CASE \E v \in Vals : RhsUpdate(v) \/ RhsUpdateThrows(v)
  BY <1>1, <1>10, RhsUpdateIInv, RhsUpdateThrowsIInv, Zenon
<1>11. CASE RhsRetract
  BY <1>1, <1>11, RhsRetractIInv, Zenon
<1>12. CASE RhsHalt
  BY <1>1, <1>12, RhsHaltIInv, Zenon
<1>13. CASE RhsThrow
  BY <1>1, <1>13, RhsThrowIInv, Zenon
<1>14. CASE RhsCommit
  BY <1>1, <1>14, RhsCommitIInv, Zenon
<1>15. CASE \E g \in Foci : RhsSetFocus(g)
  BY <1>1, <1>15, RhsSetFocusIInv, Zenon
<1>16. CASE \E f \in Facts : CommitRetract(f) \/ RollbackInsert(f) \/ RollbackRetract(f)
  BY <1>1, <1>16, CommitRetractIInv, RollbackInsertIInv, RollbackRetractIInv, Zenon
<1>17. CASE CommitEnd
  BY <1>1, <1>17, CommitEndIInv, Zenon
<1>18. CASE RollbackUpdate
  BY <1>1, <1>18, RollbackUpdateIInv, Zenon
<1>19. CASE RollbackEnd
  BY <1>1, <1>19, RollbackEndIInv, Zenon
<1> QED
  BY <1>2, <1>3, <1>4, <1>5, <1>6, <1>7, <1>8, <1>9, <1>10, <1>11, <1>12, <1>13, <1>14,
     <1>15, <1>16, <1>17, <1>18, <1>19, Zenon DEF Run, Running

\* Every call of the public interface keeps the invariant.
LEMMA CallIInv ==
    ASSUME IInv, Call, calls < MaxCalls, calls' = calls + 1
    PROVE  IInv'
<1>1. calls' \in 0..MaxCalls
  BY BoundsKept, Zenon DEF IInv
<1>2. CASE \E f \in Facts, v \in Vals : AddFact(f, v) \/ UpdateFact(f, v)
  BY <1>1, <1>2, AddFactIInv, UpdateFactIInv, Zenon
<1>3. CASE \E F \in SUBSET Facts, v \in Vals : AddFacts(F, v)
  BY <1>1, <1>3, AddFactsIInv, Zenon
<1>4. CASE \E f \in Facts : RetractFact(f)
  <2>1. PICK f \in Facts : RetractFact(f)
    BY <1>4, Zenon
  <2>2. /\ {f} \in SUBSET Facts /\ Idle
        /\ Propagate(wm \ {f}, {f}, LiveOn({f}), {}, Timed, just)
        /\ UNCHANGED <<val, gen, fresh, blocks, logical, pc, loop, ops, flags, tx, retracted>>
    BY <2>1, Zenon DEF RetractFact, RetractFactNow
  <2> QED BY <1>1, <2>2, RetractCallIInv, Zenon
<1>5. CASE \E F \in SUBSET Facts : RetractFacts(F)
  <2>1. PICK F \in SUBSET Facts : RetractFacts(F)
    BY <1>5, Zenon
  <2>2. /\ Idle /\ Propagate(wm \ F, {}, LiveOn(F), {}, Timed, just)
        /\ UNCHANGED <<val, gen, fresh, blocks, logical, pc, loop, ops, flags, tx, retracted>>
    BY <2>1, Zenon DEF RetractFacts
  <2> QED BY <1>1, <2>2, RetractCallIInv, Zenon
<1>6. CASE \E g \in Foci : SetFocus(g)
  BY <1>1, <1>6, SetFocusIInv, Zenon
<1>7. CASE \E m \in Limits : FireBegin(m)
  BY <1>1, <1>7, FireBeginIInv, Zenon
<1> QED BY <1>2, <1>3, <1>4, <1>5, <1>6, <1>7, Zenon DEF Call

\* A step that changes nothing keeps the invariant.
LEMMA StutterIInv ==
    ASSUME IInv, UNCHANGED vars
    PROVE  IInv'
<1>1. UNCHANGED <<store, memory, just>>
  BY Zenon DEF vars, tms
<1>2. TypeOK'
  BY DEF IInv, TypeOK, vars, store, agenda, blocks, tms, loop, flags, tx
<1>3. Control'
  BY Zenon DEF IInv, Control, vars, store, loop, flags, tx
<1>4. Exact'
  BY <1>1, QuietStep, Zenon DEF IInv, Exact, vars, loop, flags, tx
<1> QED BY <1>1, <1>2, <1>3, <1>4, QuietStep, Zenon DEF IInv

\* Every step of the session keeps the invariant.
LEMMA NextIInv == IInv /\ [Next]_vars => IInv'
<1> SUFFICES ASSUME IInv, [Next]_vars PROVE IInv'
  BY Zenon
<1>1. CASE Call /\ calls < MaxCalls /\ calls' = calls + 1
  BY <1>1, CallIInv, Zenon
<1>2. CASE Reset /\ calls' = 0
  <2>1. calls' \in 0..MaxCalls
    BY <1>2, SessionAssumption
  <2> QED BY <1>2, <2>1, ResetIInv, Zenon
<1>3. CASE Run
  BY <1>3, RunIInv, Zenon
<1>4. CASE UNCHANGED vars
  BY <1>4, StutterIInv, Zenon
<1> QED BY <1>1, <1>2, <1>3, <1>4, Zenon DEF Next

\* The invariant says what the runs check.
LEMMA IInvImplies ==
    ASSUME IInv
    PROVE  TypeOK /\ MatchesExact /\ DeferredStayInMemory /\ InconsistentIsEmpty
<1> USE DEF IInv
<1>1. MatchesExact
  <2>1. SUFFICES ASSUME consistent, rollback_ok, pc # "rollback_updates"
                 PROVE  memory = UNION {TokensFor(f, val[f], gen[f]) : f \in wm}
    BY Zenon DEF MatchesExact
  <2>2. ExactOn(Facts)
    BY <2>1, Zenon DEF Exact
  <2>3. wm \in SUBSET Facts /\ gen \in [Facts -> Nat] /\ memory \subseteq Token
    BY Zenon DEF TypeOK
  <2>4. ASSUME NEW t
        PROVE  t \in memory <=> t \in UNION {TokensFor(f, val[f], gen[f]) : f \in wm}
    <3>1. t \in UNION {TokensFor(f, val[f], gen[f]) : f \in wm}
            <=> /\ t \in Token /\ t.fact \in wm
                /\ val[t.fact] \in Pattern[t.rule] /\ t.gen = gen[t.fact]
      BY <2>3, TokensOf
    <3>2. t \in memory <=> /\ t \in Token /\ t.fact \in wm
                           /\ val[t.fact] \in Pattern[t.rule] /\ t.gen = gen[t.fact]
      BY <2>2, <2>3, Zenon DEF ExactOn, Match, Token
    <3> QED BY <3>1, <3>2, Zenon
  <2> QED BY <2>4, Zenon
<1>2. DeferredStayInMemory
  BY Zenon DEF Control, DeferredStayInMemory
<1>3. InconsistentIsEmpty
  BY Zenon DEF Control, InconsistentIsEmpty
<1> QED BY <1>1, <1>2, <1>3, Zenon

\* For any facts, values, rules, schema and bounds: the terminal nodes hold exactly
\* the matches of working memory through calls, commits, cascades and rollbacks;
\* an RHS keeps its facts until the commit; a failed rollback leaves an empty
\* session (stateful_session.cpp, tms.cpp, rete_node_terminal.inc).
THEOREM SessionIsExact ==
    Spec => [](TypeOK /\ MatchesExact /\ DeferredStayInMemory /\ InconsistentIsEmpty)
<1>1. Spec => []IInv
  BY InitIInv, NextIInv, PTL DEF Spec
<1>2. IInv => TypeOK /\ MatchesExact /\ DeferredStayInMemory /\ InconsistentIsEmpty
  BY IInvImplies, Zenon
<1> QED BY <1>1, <1>2, PTL

\* Retractions of an RHS wait for its commit (retract_fact).
THEOREM RetractionsAreDeferred == Spec => []DeferredStayInMemory
BY SessionIsExact, PTL

\* A session whose rollback failed has no facts (end_rhs_transaction).
THEOREM FailedRollbackEmpties == Spec => []InconsistentIsEmpty
BY SessionIsExact, PTL

-----------------------------------------------------------------------------
(* What a step does to the tokens and to the agenda *)

\* A change of facts that reaches the terminal nodes: the tokens that are born
\* are the next ones of their facts, a fact that comes, or stays while a token of
\* it dies, counts a new one, and what truth maintenance would retract inside a
\* transaction is deferred.
Changed(W, out, dead, born, timed, J) ==
    /\ Propagate(W, out, dead, born, timed, J)
    /\ W \subseteq Facts
    /\ LiveOn(out) \subseteq dead
    /\ pc # "batch" /\ timed \subseteq Timed
    /\ \A f \in W : f \notin wm \/ (\E t \in dead : t.fact = f) => gen'[f] > gen[f]
    /\ \A t \in born : t \in Token /\ t.gen = gen[t.fact] + 1 /\ t.gen = gen'[t.fact]
    /\ gen' \in [Facts -> Nat] /\ \A f \in Facts : gen'[f] >= gen[f]
    /\ pc = "rhs" => {g \in wm : just[g] \in dead} \subseteq retracted'
    /\ UNCHANGED <<batch, current, noloop>>

\* A step that changes no token: it leaves the agenda alone, or it is one of
\* these, which only move activations.
AgendaStep ==
    \/ LoopHead \/ Requeue \/ SkipStale \/ FireActivation
    \/ BeforeListenerThrows \/ CommitEnd \/ RollbackEnd

Quiet ==
    /\ UNCHANGED <<memory, gen, just>>
    /\ wm' \subseteq wm
    /\ UNCHANGED <<pending, delayed, settled, batch>> \/ AgendaStep

\* The tokens of a value of a fact are tokens on the fact.
LEMMA TokensForProps ==
    ASSUME NEW f \in Facts, NEW v, NEW n \in Nat
    PROVE  \A t \in TokensFor(f, v, n) : t \in Token /\ t.fact = f /\ t.gen = n
BY DEF TokensFor, Token

\* right_activate with ASSERT, outside of a transaction or with nothing dead.
LEMMA AssertChanged ==
    ASSUME TypeOK, NEW f \in Facts, NEW v \in Vals, NEW J, AssertFact(f, v, J),
           UNCHANGED <<batch, current, noloop>>, pc # "batch"
    PROVE  \E W, out, dead, born, timed : Changed(W, out, dead, born, timed, J)
<1>1. gen \in [Facts -> Nat] /\ gen' = [gen EXCEPT ![f] = @ + 1] /\ gen[f] + 1 \in Nat
  BY DEF AssertFact, TypeOK
<1>2. \A t \in TokensFor(f, v, gen[f] + 1) : t \in Token /\ t.fact = f /\ t.gen = gen[f] + 1
  BY <1>1, TokensForProps
<1>3. \A t \in TokensFor(f, v, gen[f] + 1) :
        t \in Token /\ t.gen = gen[t.fact] + 1 /\ t.gen = gen'[t.fact]
  BY <1>1, <1>2, Zenon
<1>4. gen' \in [Facts -> Nat] /\ \A g \in Facts : gen'[g] >= gen[g]
  BY <1>1
<1>5. wm \cup {f} \subseteq Facts /\ LiveOn({}) \subseteq {}
      /\ {g \in wm : just[g] \in {}} \subseteq retracted'
  BY Zenon DEF TypeOK, LiveOn
<1>6. Propagate(wm \cup {f}, {}, {}, TokensFor(f, v, gen[f] + 1), Timed, J)
  BY Zenon DEF AssertFact
<1>7. gen'[f] > gen[f] /\ gen[f] \in Nat
  BY <1>1
<1>8. \A g \in wm \cup {f} : g \notin wm \/ (\E t \in {} : t.fact = g) => gen'[g] > gen[g]
  BY <1>7, Zenon
<1>9. Changed(wm \cup {f}, {}, {}, TokensFor(f, v, gen[f] + 1), Timed, J)
  BY <1>3, <1>4, <1>5, <1>6, <1>8, Zenon DEF Changed
<1> QED BY <1>9, Zenon

\* right_activate with RETRACT, outside of a transaction.
LEMMA RetractChanged ==
    ASSUME TypeOK, NEW F \in SUBSET Facts, NEW out \in SUBSET F, pc # "rhs", pc # "batch",
           Propagate(wm \ F, out, LiveOn(F), {}, Timed, just),
           UNCHANGED <<gen, batch, current, noloop>>
    PROVE  \E W, o, dead, born, timed : Changed(W, o, dead, born, timed, just)
<1>1. gen' \in [Facts -> Nat] /\ \A g \in Facts : gen'[g] >= gen[g]
  BY DEF TypeOK
<1>2. wm \ F \subseteq Facts /\ LiveOn(out) \subseteq LiveOn(F)
  BY Zenon DEF TypeOK, LiveOn
<1>3. \A g \in wm \ F : g \in wm /\ ~\E t \in LiveOn(F) : t.fact = g
  BY Zenon DEF LiveOn
<1>4. Changed(wm \ F, out, LiveOn(F), {}, Timed, just)
  BY <1>1, <1>2, <1>3, Zenon DEF Changed
<1> QED BY <1>4, Zenon

\* right_activate with MODIFY, where a transaction defers the cascade.
LEMMA ModifyChanged ==
    ASSUME TypeOK, NEW f \in Facts, NEW v \in Vals, ModifyFact(f, v), pc # "batch",
           pc = "rhs" => {g \in wm : just[g] \in LiveOn({f})} \subseteq retracted',
           UNCHANGED <<batch, current, noloop>>
    PROVE  \E W, out, dead, born, timed : Changed(W, out, dead, born, timed, just)
<1>1. gen \in [Facts -> Nat] /\ gen' = [gen EXCEPT ![f] = @ + 1] /\ gen[f] + 1 \in Nat
  BY DEF ModifyFact, TypeOK
<1>2. \A t \in TokensFor(f, v, gen[f] + 1) : t \in Token /\ t.fact = f /\ t.gen = gen[f] + 1
  BY <1>1, TokensForProps
<1>3. \A t \in TokensFor(f, v, gen[f] + 1) :
        t \in Token /\ t.gen = gen[t.fact] + 1 /\ t.gen = gen'[t.fact]
  BY <1>1, <1>2, Zenon
<1>4. gen' \in [Facts -> Nat] /\ \A g \in Facts : gen'[g] >= gen[g]
  BY <1>1
<1>5. wm \subseteq Facts /\ LiveOn({}) \subseteq LiveOn({f})
  BY Zenon DEF TypeOK, LiveOn
<1>6. Propagate(wm, {}, LiveOn({f}), TokensFor(f, v, gen[f] + 1), Timed, just)
  BY Zenon DEF ModifyFact
<1>7. gen'[f] > gen[f] /\ gen[f] \in Nat
  BY <1>1
<1>8. \A g \in wm : g \notin wm \/ (\E t \in LiveOn({f}) : t.fact = g) => gen'[g] > gen[g]
  BY <1>7, Zenon DEF LiveOn
<1>9. Changed(wm, {}, LiveOn({f}), TokensFor(f, v, gen[f] + 1), Timed, just)
  BY <1>3, <1>4, <1>5, <1>6, <1>8, Zenon DEF Changed
<1> QED BY <1>9, ZenonT(30)

\* Only insertLogical makes a justification.
InsertsLogical == \E f \in Facts, v \in Vals : RhsInsertLogical(f, v)

SomeChange ==
    \E W, out, dead, born, timed, J :
        Changed(W, out, dead, born, timed, J) /\ (J = just \/ InsertsLogical)

\* A call of the owner: it changes facts, or the focus, or enters fire_all_rules.
LEMMA CallCases ==
    ASSUME IInv, Call
    PROVE  SomeChange \/ Quiet
<1> USE DEF SomeChange
<1>1. TypeOK /\ (Idle => pc # "rhs" /\ pc # "batch")
  BY Zenon DEF IInv, Idle
<1>2. ASSUME NEW f \in Facts, NEW v \in Vals, AddFact(f, v) PROVE SomeChange
  <2>1. AssertFact(f, v, just) /\ UNCHANGED <<batch, current, noloop>> /\ pc # "batch"
    BY <1>1, <1>2, Zenon DEF AddFact, loop, blocks
  <2> QED BY <1>1, <2>1, AssertChanged, Zenon
<1>3. ASSUME NEW f \in Facts, NEW v \in Vals, UpdateFact(f, v) PROVE SomeChange
  <2>1. /\ ModifyFact(f, v) /\ UNCHANGED <<batch, current, noloop>>
        /\ pc # "rhs" /\ pc # "batch"
    BY <1>1, <1>3, Zenon DEF UpdateFact, loop, blocks
  <2> QED BY <1>1, <2>1, ModifyChanged, Zenon
<1>4. ASSUME NEW F \in SUBSET Facts, NEW v \in Vals, AddFacts(F, v) PROVE SomeChange
  <2> DEFINE born == UNION {TokensFor(f, v, gen[f] + 1) : f \in F}
  <2>1. /\ gen \in [Facts -> Nat] /\ wm \cup F \subseteq Facts
        /\ gen' = [f \in Facts |-> IF f \in F THEN gen[f] + 1 ELSE gen[f]]
        /\ Propagate(wm \cup F, {}, {}, born, {}, just)
        /\ UNCHANGED <<batch, current, noloop>> /\ pc # "rhs" /\ pc # "batch"
    BY <1>1, <1>4, Zenon DEF AddFacts, TypeOK, loop, blocks
  <2>2. ASSUME NEW t \in born
        PROVE  t \in Token /\ t.gen = gen[t.fact] + 1 /\ t.gen = gen'[t.fact]
    <3>1. PICK f \in F : t \in TokensFor(f, v, gen[f] + 1)
      BY Zenon
    <3>2. t \in Token /\ t.fact = f /\ t.gen = gen[f] + 1
      BY <2>1, <3>1, TokensForProps
    <3> QED BY <2>1, <3>2, Zenon
  <2> HIDE DEF born
  <2>3. gen' \in [Facts -> Nat] /\ \A g \in Facts : gen'[g] >= gen[g]
    BY <2>1
  <2>4. LiveOn({}) \subseteq {}
    BY Zenon DEF LiveOn
  <2>5. \A g \in F : gen'[g] > gen[g]
    BY <2>1
  <2>6. \A g \in wm \cup F : g \notin wm \/ (\E t \in {} : t.fact = g) => gen'[g] > gen[g]
    BY <2>5, Zenon
  <2>7. Changed(wm \cup F, {}, {}, born, {}, just)
    BY <2>1, <2>2, <2>3, <2>4, <2>6, Zenon DEF Changed
  <2> QED BY <2>7, Zenon
<1>5. ASSUME NEW f \in Facts, RetractFact(f) PROVE SomeChange
  <2>1. /\ {f} \in SUBSET Facts /\ {f} \in SUBSET {f} /\ pc # "rhs" /\ pc # "batch"
        /\ Propagate(wm \ {f}, {f}, LiveOn({f}), {}, Timed, just)
        /\ UNCHANGED <<gen, batch, current, noloop>>
    BY <1>1, <1>5, Zenon DEF RetractFact, RetractFactNow, loop, blocks
  <2> QED BY <1>1, <2>1, RetractChanged, Zenon
<1>6. ASSUME NEW F \in SUBSET Facts, RetractFacts(F) PROVE SomeChange
  <2>1. /\ {} \in SUBSET F /\ pc # "rhs" /\ pc # "batch"
        /\ Propagate(wm \ F, {}, LiveOn(F), {}, Timed, just)
        /\ UNCHANGED <<gen, batch, current, noloop>>
    BY <1>1, <1>6, Zenon DEF RetractFacts, loop, blocks
  <2> QED BY <1>1, <2>1, RetractChanged, Zenon
<1>7. ASSUME NEW g \in Foci, SetFocus(g) PROVE Quiet
  BY <1>7, Zenon DEF SetFocus, store, tms, loop, Quiet
<1>8. ASSUME NEW m \in Limits, FireBegin(m) PROVE Quiet
  BY <1>8, Zenon DEF FireBegin, store, tms, agenda, Quiet
<1> HIDE DEF SomeChange
<1> QED BY <1>2, <1>3, <1>4, <1>5, <1>6, <1>7, <1>8, Zenon DEF Call

\* A step inside fire_all_rules: only an action of the RHS, a retraction of the
\* commit and the loops of the rollback change facts.
LEMMA RunCases ==
    ASSUME IInv, Running
    PROVE  SomeChange \/ Quiet
<1>1. TypeOK
  BY Zenon DEF IInv
<1>2. CASE AgendaStep
  BY <1>2, Zenon DEF AgendaStep, LoopHead, Requeue, SkipStale, FireActivation, BeforeListenerThrows,
              CommitEnd, RollbackEnd, store, tms, Quiet
<1>3. CASE FireEnd \/ BatchDone
  BY <1>3, Zenon DEF FireEnd, BatchDone, store, tms, agenda, loop, Quiet
<1>4. CASE RhsRetract \/ RhsHalt \/ RhsThrow \/ RhsCommit
  BY <1>4, Zenon DEF RhsRetract, RhsHalt, RhsThrow, RhsCommit, store, tms, agenda, loop, Quiet
<1>5. ASSUME NEW g \in Foci, RhsSetFocus(g) PROVE Quiet
  BY <1>5, Zenon DEF RhsSetFocus, store, tms, loop, Quiet
<1>6. ASSUME NEW v \in Vals, RhsUpdateThrows(v) PROVE Quiet
  BY <1>6, Zenon DEF RhsUpdateThrows, tms, agenda, loop, Quiet
<1> USE DEF SomeChange
<1>7. ASSUME NEW f \in Facts, NEW v \in Vals, RhsInsert(f, v) \/ RhsInsertLogical(f, v)
      PROVE  SomeChange
  <2>1. PICK J : /\ AssertFact(f, v, J) /\ (J = just \/ InsertsLogical)
                 /\ UNCHANGED <<batch, current, noloop>> /\ pc # "batch"
    BY <1>7, Zenon DEF RhsInsert, RhsInsertLogical, InsertsLogical, RhsStep, loop, blocks
  <2> QED BY <1>1, <2>1, AssertChanged, Zenon
<1>8. ASSUME NEW v \in Vals, RhsUpdate(v) PROVE SomeChange
  <2>1. /\ ModifyFact(current.fact, v) /\ current.fact \in Facts
        /\ {g \in wm : just[g] \in LiveOn({current.fact})} \subseteq retracted'
        /\ UNCHANGED <<batch, current, noloop>> /\ pc # "batch"
    BY <1>1, <1>8, Zenon DEF RhsUpdate, RhsStep, loop, blocks, TypeOK
  <2> QED BY <1>1, <2>1, ModifyChanged, Zenon
<1>9. ASSUME NEW f \in Facts, RetractFactNow(f), UNCHANGED <<batch, current, noloop>>,
             pc # "rhs", pc # "batch"
       PROVE  SomeChange
  <2>1. /\ {f} \in SUBSET Facts /\ {f} \in SUBSET {f}
        /\ Propagate(wm \ {f}, {f}, LiveOn({f}), {}, Timed, just)
        /\ UNCHANGED <<gen, batch, current, noloop>>
    BY <1>9, Zenon DEF RetractFactNow
  <2> QED BY <1>1, <1>9, <2>1, RetractChanged, Zenon
<1> HIDE DEF SomeChange
<1>10. ASSUME NEW f \in Facts, CommitRetract(f) PROVE SomeChange
  BY <1>9, <1>10, Zenon DEF CommitRetract, loop, blocks
<1>11. ASSUME NEW f \in Facts, RollbackInsert(f) PROVE SomeChange \/ Quiet
  <2>1. CASE f \in wm
    BY <1>9, <1>11, <2>1, Zenon DEF RollbackInsert, loop, blocks
  <2>2. CASE f \notin wm
    BY <1>11, <2>2, Zenon DEF RollbackInsert, agenda, loop, Quiet
  <2> QED BY <2>1, <2>2, Zenon
<1>12. ASSUME NEW f \in Facts, RollbackRetract(f) PROVE SomeChange \/ Quiet
  <2>1. CASE f \notin wm /\ Valid(val[f])
    <3>1. AssertFact(f, val[f], just) /\ UNCHANGED <<batch, current, noloop>> /\ pc # "batch"
      BY <1>12, <2>1, Zenon DEF RollbackRetract, loop, blocks
    <3>2. val[f] \in Vals
      BY <1>12, ZenonT(30) DEF RollbackRetract, IInv, Control
    <3> QED BY <1>1, <3>1, <3>2, AssertChanged, Zenon DEF SomeChange
  <2>2. CASE ~(f \notin wm /\ Valid(val[f]))
    BY <1>12, <2>2, Zenon DEF RollbackRetract, agenda, loop, Quiet
  <2> QED BY <2>1, <2>2, Zenon
<1>13. CASE RollbackUpdate
  <2>1. CASE snapshot # NoVal /\ current.fact \in wm /\ Valid(val[current.fact])
    <3>1. /\ ModifyFact(current.fact, snapshot) /\ UNCHANGED <<batch, current, noloop>>
          /\ current.fact \in Facts /\ snapshot \in Vals /\ pc # "rhs" /\ pc # "batch"
      BY <1>1, <1>13, <2>1, ZenonT(30) DEF RollbackUpdate, loop, blocks, TypeOK
    <3> QED BY <1>1, <3>1, ModifyChanged, Zenon DEF SomeChange
  <2>2. CASE ~(snapshot # NoVal /\ current.fact \in wm /\ Valid(val[current.fact]))
    BY <1>13, <2>2, Zenon DEF RollbackUpdate, agenda, loop, Quiet
  <2> QED BY <2>1, <2>2, Zenon
<1> QED
  BY <1>2, <1>3, <1>4, <1>5, <1>6, <1>7, <1>8, <1>10, <1>11, <1>12, <1>13, Zenon DEF Running, AgendaStep

\* Every step changes facts, or no token, or resets the session.
LEMMA StepCases ==
    ASSUME IInv, [Next]_vars
    PROVE  SomeChange \/ Quiet \/ Reset
<1>1. CASE UNCHANGED vars
  BY <1>1, Zenon DEF vars, store, tms, agenda, loop, Quiet
<1> QED BY <1>1, CallCases, RunCases, Zenon DEF Next, Run

-----------------------------------------------------------------------------
(* Truth maintenance *)

\* When a token dies, what it justifies is in the cascade, or deferred.
LEMMA ChangeRetracts ==
    ASSUME NEW W, NEW out, NEW dead, NEW born, NEW timed, NEW J,
           Changed(W, out, dead, born, timed, J),
           NEW t \in memory \ memory', NEW g \in wm \cap wm', just[g] = t
    PROVE  g \in retracted'
<1> DEFINE gone == IF pc = "rhs" THEN {} ELSE Doomed(W, dead)
<1>1. wm' = W \ gone /\ memory' = (memory \ (dead \cup LiveOn(gone))) \cup born
  BY Zenon DEF Changed, Propagate
<1>2. just[g] \in dead \cup LiveOn(gone) /\ g \in W \ gone
  BY <1>1, Zenon
<1>3. CASE pc = "rhs"
  <2>1. just[g] \in dead
    BY <1>2, <1>3, ZenonT(30) DEF LiveOn
  <2> QED BY <1>3, <2>1, ZenonT(30) DEF Changed
<1>4. CASE pc # "rhs"
  BY <1>2, <1>4, DoomedClosed, Zenon
<1> QED BY <1>3, <1>4, Zenon

\* For any facts, rules and justifications: when a token leaves the network, each
\* fact it justifies leaves working memory in the same step, through any number of
\* cascades, or is due for retraction at the commit of the running transaction
\* (tms.cpp: remove_justifications_by_token; stateful_session.cpp: retract_fact).
THEOREM LostSupportRetracts == Spec => SupportLostRetracts
<1>1. ASSUME IInv, [Next]_vars
      PROVE  pc' # "idle" \/ consistent' =>
                \A t \in memory \ memory' : \A g \in wm \cap wm' :
                    just[g] = t => g \in retracted'
  <2>1. CASE SomeChange
    BY <2>1, ChangeRetracts, Zenon DEF SomeChange
  <2>2. CASE Quiet
    BY <2>2, Zenon DEF Quiet
  <2>3. CASE Reset
    BY <2>3, Zenon DEF Reset
  <2> QED BY <1>1, <2>1, <2>2, <2>3, StepCases, Zenon
<1>2. Spec => []IInv
  BY InitIInv, NextIInv, PTL DEF Spec
<1> QED BY <1>1, <1>2, PTL DEF Spec, SupportLostRetracts

-----------------------------------------------------------------------------
(* Which insertions escape truth maintenance *)

\* Every justification is a current match.
Supported == \A g \in Facts : just[g] # NoToken => just[g] \in memory

\* insertLogical in an RHS whose own match has ended: it updated its fact, or fired
\* from a batch after another RHS had.
DeadInsert == InsertsLogical /\ current \notin memory

\* A change of facts takes the justifications of the tokens that die.
LEMMA ChangeSupported ==
    ASSUME NEW W, NEW out, NEW dead, NEW born, NEW timed,
           Changed(W, out, dead, born, timed, just), Supported
    PROVE  Supported'
<1> DEFINE gone == IF pc = "rhs" THEN {} ELSE Doomed(W, dead)
           off == dead \cup LiveOn(gone)
<1>1. /\ memory' = (memory \ off) \cup born
      /\ just' = [g \in Facts |-> IF just[g] \in off \/ g \in gone \cup out
                                  THEN NoToken ELSE just[g]]
  BY Zenon DEF Changed, Propagate
<1> HIDE DEF off, gone
<1>2. \A g \in Facts : just'[g] # NoToken => just'[g] = just[g] /\ just[g] \notin off
  BY <1>1, Zenon
<1> QED BY <1>1, <1>2, Zenon DEF Supported

\* execute_insert_logical records the token that fires, whether or not it is still
\* a match; nothing else dies in that step.
LEMMA LogicalSupported ==
    ASSUME IInv, Supported, NEW f \in Facts, NEW v \in Vals, RhsInsertLogical(f, v)
    PROVE  Supported' <=> current \in memory
<1> DEFINE J == [just EXCEPT ![f] = current]
           born == TokensFor(f, v, gen[f] + 1)
<1>1. /\ pc = "rhs" /\ f \in fresh
      /\ Propagate(wm \cup {f}, {}, {}, born, Timed, J)
  BY Zenon DEF RhsInsertLogical, RhsStep, NewFact, AssertFact
<1>2. /\ current \in Token /\ current.fact \in wm /\ current.fact # f
      /\ gen[f] + 1 \in Nat /\ just \in [Facts -> Token \cup {NoToken}]
  <2>1. current \in Token /\ current.fact \in wm /\ wm \cap fresh = {}
    BY <1>1, Zenon DEF IInv, Control, TypeOK
  <2>2. gen[f] + 1 \in Nat /\ just \in [Facts -> Token \cup {NoToken}]
    BY DEF IInv, TypeOK
  <2> QED BY <1>1, <2>1, <2>2, Zenon
<1>3. current \notin born
  <2>1. \A t \in born : t.fact = f
    BY <1>2, TokensForProps
  <2> QED BY <1>2, <2>1, Zenon
<1>4. current # NoToken
  BY <1>2, SessionAssumption, Zenon DEF Token
<1>5. J[f] = current /\ \A g \in Facts : g # f => J[g] = just[g]
  BY <1>2, Zenon
<1> HIDE DEF J, born
<1>6. LiveOn({}) = {}
  BY Zenon DEF LiveOn
<1>7. memory' = memory \cup born /\ just' = [g \in Facts |-> J[g]]
  BY <1>1, <1>6, ZenonT(30) DEF Propagate
<1>8. just'[f] = current /\ \A g \in Facts : g # f => just'[g] = just[g]
  BY <1>5, <1>7, Zenon
<1>9. current \in memory => Supported'
  BY <1>7, <1>8, Zenon DEF Supported
<1>10. current \notin memory => ~Supported'
  BY <1>3, <1>4, <1>7, <1>8, Zenon DEF Supported
<1> QED BY <1>9, <1>10, Zenon

\* One step of the session.
LEMMA NextSupported ==
    IInv /\ [Next]_vars => (Supported => (Supported' <=> ~DeadInsert))
<1> SUFFICES ASSUME IInv, [Next]_vars, Supported PROVE Supported' <=> ~DeadInsert
  BY Zenon
<1>1. CASE InsertsLogical
  <2>1. Supported' <=> current \in memory
    BY <1>1, LogicalSupported, Zenon DEF InsertsLogical
  <2> QED BY <1>1, <2>1, Zenon DEF DeadInsert
<1>2. CASE ~InsertsLogical
  <2>1. ASSUME SomeChange PROVE Supported'
    BY <1>2, <2>1, ChangeSupported, Zenon DEF SomeChange
  <2>2. ASSUME Quiet PROVE Supported'
    BY <2>2, Zenon DEF Quiet, Supported
  <2>3. ASSUME Reset PROVE Supported'
    BY <2>3, Zenon DEF Reset, Supported
  <2>4. Supported'
    BY <2>1, <2>2, <2>3, StepCases, Zenon
  <2> QED BY <1>2, <2>4, Zenon DEF DeadInsert
<1> QED BY <1>1, <1>2, Zenon

\* Which steps leave a logical fact without truth maintenance, exactly: from a state
\* where every justification is a match, a step leads to one where some is not if
\* and only if it is an insertLogical of an RHS whose own match has ended
\* (rhs_executor.cpp: execute_insert_logical; tms.cpp: add_justification).
THEOREM OnlyDeadInsertsEscape ==
    Spec => [][Supported => (Supported' <=> ~DeadInsert)]_vars
<1>1. Spec => []IInv
  BY InitIInv, NextIInv, PTL DEF Spec
<1> QED BY <1>1, NextSupported, PTL DEF Spec

\* So if no RHS inserts a logical fact after its match has ended, every logical fact
\* has its support in working memory, whatever else the rules and the owner do.
THEOREM LiveInsertsSupported ==
    Spec /\ [][~DeadInsert]_vars => [](Supported /\ LogicalFactsSupported)
<1>1. Spec => []IInv
  BY InitIInv, NextIInv, PTL DEF Spec
<1>2. Init => Supported
  BY Zenon DEF Init, Supported
<1>3. Supported /\ UNCHANGED vars => Supported'
  BY Zenon DEF Supported, vars, tms
<1>4. Spec /\ [][~DeadInsert]_vars => []Supported
  BY <1>2, <1>3, OnlyDeadInsertsEscape, PTL DEF Spec
<1>5. IInv /\ Supported => LogicalFactsSupported
  <2> SUFFICES ASSUME IInv, Supported, Idle, NEW g \in wm, just[g] # NoToken
               PROVE  just[g].fact \in wm
    BY Zenon DEF LogicalFactsSupported
  <2>1. g \in Facts /\ just[g] \in memory /\ memory \subseteq Token
    BY Zenon DEF Supported, IInv, TypeOK
  <2>2. just[g] \in Token /\ just[g].fact \in Facts
    BY <2>1, Zenon DEF Token
  <2>3. ExactOn(Facts)
    BY Zenon DEF Idle, IInv, Exact, Control
  <2> QED BY <2>1, <2>2, <2>3, Zenon DEF ExactOn, Match
<1> QED BY <1>1, <1>4, <1>5, PTL

-----------------------------------------------------------------------------
(* no-loop *)

\* While a no-loop rule fires on a fact, the pair is blocked.
Guarded ==
    /\ pc \in {"idle", "loop", "batch", "end"} => current = NoToken
    /\ current # NoToken /\ current.rule \in NoLoop =>
         <<current.rule, current.fact>> \in noloop

\* fire_activation blocks the rule on its fact before the RHS runs, and only the
\* end of fire_all_rules and reset, where nothing fires, lift the block.
LEMMA NextGuarded == Guarded /\ [Next]_vars => Guarded'
<1> SUFFICES ASSUME Guarded, [Next]_vars PROVE Guarded'
  BY Zenon
<1>1. CASE UNCHANGED vars
  BY <1>1, Zenon DEF vars, loop, blocks, Guarded
<1>2. CASE Call
  BY <1>2, Zenon DEF Call, AddFact, AddFacts, RetractFact, RetractFacts, UpdateFact, SetFocus,
              FireBegin, Idle, loop, blocks, Guarded
<1>3. CASE Reset
  BY <1>3, Zenon DEF Reset, loop, Guarded
<1>4. CASE LoopHead \/ FireEnd \/ BatchDone \/ Requeue \/ SkipStale
  BY <1>4, ZenonT(30) DEF LoopHead, FireEnd, BatchDone, Requeue, SkipStale, loop, blocks, Guarded
<1>5. CASE FireActivation
  BY <1>5, ZenonT(30) DEF FireActivation, Guarded
<1>6. CASE BeforeListenerThrows \/ CommitEnd \/ RollbackEnd
  BY <1>6, Zenon DEF BeforeListenerThrows, CommitEnd, RollbackEnd, Escape, blocks, Guarded
<1>7. CASE \E f \in Facts, v \in Vals : RhsInsert(f, v) \/ RhsInsertLogical(f, v)
  BY <1>7, Zenon DEF RhsInsert, RhsInsertLogical, RhsStep, loop, blocks, Guarded
<1>8. CASE \E v \in Vals : RhsUpdate(v) \/ RhsUpdateThrows(v)
  BY <1>8, ZenonT(30) DEF RhsUpdate, RhsUpdateThrows, RhsStep, loop, blocks, Guarded
<1>9. CASE RhsRetract \/ RhsHalt \/ RhsThrow \/ RhsCommit \/ \E g \in Foci : RhsSetFocus(g)
  BY <1>9, ZenonT(30) DEF RhsRetract, RhsHalt, RhsThrow, RhsCommit, RhsSetFocus,
                          RhsStep, loop, blocks, Guarded
<1>10. CASE \E f \in Facts : CommitRetract(f) \/ RollbackInsert(f) \/ RollbackRetract(f)
  BY <1>10, ZenonT(30) DEF CommitRetract, RollbackInsert, RollbackRetract, loop, blocks, Guarded
<1>11. CASE RollbackUpdate
  BY <1>11, Zenon DEF RollbackUpdate, loop, blocks, Guarded
<1> QED
  BY <1>1, <1>2, <1>3, <1>4, <1>5, <1>6, <1>7, <1>8, <1>9, <1>10, <1>11, Zenon DEF Next, Run, Running

\* What a change of facts puts on the agenda is not blocked.
LEMMA ChangeUnblocked ==
    ASSUME NEW W, NEW out, NEW dead, NEW born, NEW timed, NEW J,
           Changed(W, out, dead, born, timed, J)
    PROVE  \A a \in (pending' \cup delayed') \ (pending \cup delayed) : ~Blocked(a)
<1> DEFINE gone == IF pc = "rhs" THEN {} ELSE Doomed(W, dead)
           off == dead \cup LiveOn(gone)
           accepted == {t \in born : ~Blocked(t)}
           late == {t \in accepted : t.rule \in timed}
           Stays(a) == a \notin off /\ a.fact \notin gone \cup out
<1>1. /\ pending' = {a \in pending : Stays(a)} \cup (accepted \ late)
      /\ delayed' = delayed \cup late
  BY Zenon DEF Changed, Propagate
<1>2. \A a \in accepted : ~Blocked(a)
  BY Zenon
<1>3. late \subseteq accepted
  BY Zenon
<1> HIDE DEF gone, off, accepted, late
<1> QED BY <1>1, <1>2, <1>3, Zenon

\* What a quiet step puts on the agenda was in the batch.
LEMMA QuietAdds ==
    ASSUME Quiet
    PROVE  pending' \cup delayed' \subseteq pending \cup delayed \cup Elems(batch)
<1>1. CASE LoopHead
  BY <1>1, Zenon DEF LoopHead
<1>2. CASE Requeue \/ SkipStale \/ FireActivation
  BY <1>2, ZenonT(30) DEF Requeue, SkipStale, FireActivation
<1>3. CASE BeforeListenerThrows \/ CommitEnd \/ RollbackEnd
  BY <1>3, Zenon DEF BeforeListenerThrows, CommitEnd, RollbackEnd
<1> QED BY <1>1, <1>2, <1>3, Zenon DEF Quiet, AgendaStep

\* For any rules and any RHS: while a no-loop rule fires on a fact, no action of
\* the RHS, no retraction of its commit and no step of its rollback puts the rule
\* with that fact on the agenda again (add_activation, fire_activation).
THEOREM NoLoopHolds == Spec => NoSelfReactivation
<1>1. ASSUME IInv, Guarded, [Next]_vars, current # NoToken, current.rule \in NoLoop,
             NEW a \in (pending' \cup delayed') \ (pending \cup delayed)
      PROVE  ~(a.rule = current.rule /\ a.fact = current.fact) \/ a \in Elems(batch)
  <2>1. <<current.rule, current.fact>> \in noloop
    BY <1>1, Zenon DEF Guarded
  <2>2. CASE SomeChange
    <3>1. ~Blocked(a)
      BY <2>2, ChangeUnblocked, Zenon DEF SomeChange
    <3> QED BY <1>1, <2>1, <3>1, Zenon DEF Blocked
  <2>3. CASE Quiet
    BY <2>3, QuietAdds, Zenon
  <2>4. CASE Reset
    BY <1>1, <2>4, Zenon DEF Reset
  <2> QED BY <1>1, <2>2, <2>3, <2>4, StepCases, Zenon
<1>2. Spec => []IInv
  BY InitIInv, NextIInv, PTL DEF Spec
<1>3. Init => Guarded
  BY Zenon DEF Init, Guarded
<1>4. Spec => []Guarded
  BY <1>3, NextGuarded, PTL DEF Spec
<1>5. IInv /\ Guarded /\ [Next]_vars =>
        (current # NoToken /\ current.rule \in NoLoop =>
            \A a \in (pending' \cup delayed') \ (pending \cup delayed) :
                ~(a.rule = current.rule /\ a.fact = current.fact) \/ a \in Elems(batch))
  BY <1>1, Zenon
<1> QED BY <1>2, <1>4, <1>5, PTL DEF Spec, NoSelfReactivation

-----------------------------------------------------------------------------
(* Every match has its turn *)

Distinct(q) == \A i, j \in 1..Len(q) : q[i] = q[j] => i = j

\* EveryMatchAccounted as it is inductive: an activation is in one place only,
\* and no token anywhere is newer than the count of the tokens of its fact.
Accounted ==
    /\ EveryMatchAccounted
    /\ delayed \cap Elems(batch) = {}
    /\ Distinct(batch)
    /\ \A t \in memory \cup pending \cup delayed \cup settled \cup Elems(batch) :
         t.gen <= gen[t.fact]

\* The head of a batch is in the batch once.
LEMMA HeadTail ==
    ASSUME NEW q \in Seq(Token), q # <<>>, Distinct(q)
    PROVE  /\ Elems(q) = {Head(q)} \cup Elems(Tail(q))
           /\ Head(q) \notin Elems(Tail(q))
           /\ Distinct(Tail(q))
<1>1. /\ Len(q) \in Nat /\ Len(q) > 0 /\ Len(Tail(q)) = Len(q) - 1
      /\ Head(q) = q[1] /\ \A i \in 1..(Len(q) - 1) : Tail(q)[i] = q[i + 1]
  OBVIOUS
<1>2. \A i \in 1..(Len(q) - 1) : i + 1 \in 1..Len(q) /\ i + 1 # 1
  BY <1>1
<1>3. \A i \in 1..Len(q) : i = 1 \/ (i - 1 \in 1..(Len(q) - 1) /\ (i - 1) + 1 = i)
  BY <1>1
<1>4. 1 \in 1..Len(q)
  BY <1>1
<1>5. Head(q) \notin Elems(Tail(q))
  BY <1>1, <1>2, <1>4 DEF Elems, Distinct
<1>6. Elems(q) \subseteq {Head(q)} \cup Elems(Tail(q))
  BY <1>1, <1>3 DEF Elems
<1>7. {Head(q)} \cup Elems(Tail(q)) \subseteq Elems(q)
  BY <1>1, <1>2, <1>4, ZenonT(30) DEF Elems
<1>8. ASSUME NEW i \in 1..(Len(q) - 1), NEW j \in 1..(Len(q) - 1), q[i + 1] = q[j + 1]
      PROVE  i = j
  <2>1. i + 1 = j + 1
    BY <1>2, <1>8, Zenon DEF Distinct
  <2> QED BY <2>1
<1>9. Distinct(Tail(q))
  BY <1>1, <1>8, Zenon DEF Distinct
<1> QED BY <1>5, <1>6, <1>7, <1>9, Zenon

\* An empty batch.
LEMMA NoElems == Elems(<<>>) = {} /\ Distinct(<<>>)
BY DEF Elems, Distinct

\* A change of facts: the dead tokens leave the agenda, each that is born is put
\* on it, or waits, or is refused, and it was nowhere before.
LEMMA ChangeAccounted ==
    ASSUME TypeOK, Accounted,
           NEW W, NEW out, NEW dead, NEW born, NEW timed, NEW J,
           Changed(W, out, dead, born, timed, J)
    PROVE  Accounted'
<1> DEFINE gone == IF pc = "rhs" THEN {} ELSE Doomed(W, dead)
           off == dead \cup LiveOn(gone)
           accepted == {t \in born : ~Blocked(t)}
           late == {t \in accepted : t.rule \in timed}
           Stays(a) == a \notin off /\ a.fact \notin gone \cup out
<1>1. /\ memory' = (memory \ off) \cup born
      /\ pending' = {a \in pending : Stays(a)} \cup (accepted \ late)
      /\ delayed' = delayed \cup late
      /\ settled' = settled \cup (born \ accepted)
      /\ batch' = batch
  BY Zenon DEF Changed, Propagate
<1>2. accepted \subseteq born /\ late \subseteq accepted
  BY Zenon
<1>3. \A t \in memory \ off : t.fact \notin gone \cup out
  BY ZenonT(30) DEF Changed, LiveOn
<1> HIDE DEF gone, off, accepted, late
<1> DEFINE all == memory \cup pending \cup delayed \cup settled \cup Elems(batch)
<1>4. ASSUME NEW t \in born PROVE t \notin all
  <2>1. t.gen = gen[t.fact] + 1 /\ t.fact \in Facts
    BY ZenonT(30) DEF Changed, Token
  <2>2. gen[t.fact] \in Nat
    BY <2>1, Zenon DEF TypeOK
  <2>3. ~(t.gen <= gen[t.fact])
    BY <2>1, <2>2
  <2> QED BY <2>3, ZenonT(30) DEF Accounted
<1>5. \A t \in all : t \in Token
  BY DEF TypeOK, Elems
<1>6. ASSUME NEW t \in all \cup born PROVE t.gen <= gen'[t.fact]
  <2>1. CASE t \in born
    <3>1. t.gen = gen'[t.fact] /\ t.gen \in Nat
      BY <2>1, ZenonT(30) DEF Changed, Token
    <3> HIDE DEF all
    <3> QED BY <3>1
  <2>2. CASE t \in all
    <3>1. t.gen <= gen[t.fact] /\ t.gen \in Nat /\ t.fact \in Facts
      BY <1>5, <2>2, Zenon DEF Accounted, Token
    <3>2. gen'[t.fact] >= gen[t.fact] /\ gen[t.fact] \in Nat /\ gen'[t.fact] \in Nat
      BY <3>1, Zenon DEF Changed, TypeOK
    <3> HIDE DEF all
    <3>3. PICK a \in Nat, b \in Nat, c \in Nat : a = t.gen /\ b = gen[t.fact] /\ c = gen'[t.fact]
      BY <3>1, <3>2, Zenon
    <3>4. a <= b /\ c >= b
      BY <3>1, <3>2, <3>3, Zenon
    <3>5. a <= c
      BY <3>4, SMT
    <3> QED BY <3>3, <3>5, Zenon
  <2> QED BY <1>6, <2>1, <2>2, ZenonT(30)
<1>7. /\ memory' \cup pending' \cup delayed' \cup settled' \cup Elems(batch') \subseteq all \cup born
  BY <1>1, <1>2, Zenon
<1>8. EveryMatchAccounted'
  <2>1. memory' \subseteq pending' \cup delayed' \cup Elems(batch') \cup settled'
    BY <1>1, <1>2, <1>3, ZenonT(30) DEF Accounted, EveryMatchAccounted
  <2>2. (pending' \cup delayed' \cup Elems(batch')) \cap settled' = {}
    BY <1>1, <1>2, <1>4, ZenonT(30) DEF Accounted, EveryMatchAccounted
  <2>3. pending' \cap delayed' = {} /\ pending' \cap Elems(batch') = {}
    BY <1>1, <1>2, <1>4, ZenonT(30) DEF Accounted, EveryMatchAccounted
  <2> QED BY <2>1, <2>2, <2>3, ZenonT(30) DEF EveryMatchAccounted, Elems
<1>9. delayed' \cap Elems(batch') = {}
  BY <1>1, <1>2, <1>4, ZenonT(30) DEF Accounted
<1>10. Distinct(batch)'
  BY <1>1, ZenonT(30) DEF Accounted, Distinct
<1>11. \A t \in memory' \cup pending' \cup delayed' \cup settled' \cup Elems(batch') :
         t.gen <= gen'[t.fact]
  BY <1>6, <1>7, Zenon
<1> QED BY <1>8, <1>9, <1>10, <1>11, Zenon DEF Accounted, Elems

\* Moving activations between the agenda, the batch and those that had their turn
\* loses none, if each ends up in one place.
LEMMA MoveAccounted ==
    ASSUME Accounted, UNCHANGED <<memory, gen>>, Distinct(batch'), settled \subseteq settled',
           pending' \cup delayed' \cup Elems(batch') \cup settled'
               = pending \cup delayed \cup Elems(batch) \cup settled,
           (pending' \cup delayed' \cup Elems(batch')) \cap settled' = {},
           pending' \cap delayed' = {}, pending' \cap Elems(batch') = {},
           delayed' \cap Elems(batch') = {}
    PROVE  Accounted'
<1>1. EveryMatchAccounted'
  BY ZenonT(30) DEF Accounted, EveryMatchAccounted, Elems
<1>2. \A t \in memory' \cup pending' \cup delayed' \cup settled' \cup Elems(batch') :
         t.gen <= gen'[t.fact]
  BY Zenon DEF Accounted
<1> QED BY <1>1, <1>2, Zenon DEF Accounted, Distinct, Elems

\* What a pop takes from the pending activations, it takes once.
LEMMA BatchDistinct ==
    ASSUME NEW P, NEW n \in Nat, NEW b \in Batches(P, n)
    PROVE  Distinct(b) /\ Elems(b) \subseteq P
<1> DEFINE C == {a \in P : InFocus(a)}
<1>1. PICK k \in 0..n : b \in [1..k -> C]
  BY ZenonT(30) DEF Batches
<1>2. \A i, j \in 1..Len(b) : i < j => b[i] # b[j]
  BY Zenon DEF Batches
<1>3. Len(b) = k
  BY <1>1
<1>4. Elems(b) \subseteq P
  BY <1>1, <1>3, Zenon DEF Elems
<1>5. \A i, j \in 1..Len(b) : b[i] = b[j] => i = j
  BY <1>2, <1>3
<1> QED BY <1>4, <1>5, Zenon DEF Distinct

\* The head of the fire loop: delayed activations become pending, pending ones go
\* to the batch, which was empty.
LEMMA LoopHeadAccounted ==
    ASSUME IInv, Accounted, LoopHead
    PROVE  Accounted'
<1>1. PICK ready \in SUBSET delayed :
        /\ delayed' = delayed \ ready
        /\ \/ /\ pending' = pending \cup ready
              /\ UNCHANGED batch
           \/ /\ ~LimitReached
              /\ \E b \in Batches(pending \cup ready, Budget) :
                   batch' = b /\ pending' = (pending \cup ready) \ Elems(b)
  BY Zenon DEF LoopHead
<1>2. batch = <<>> /\ UNCHANGED <<memory, gen, settled>>
  BY Zenon DEF LoopHead, IInv, Control, store
<1>3. Elems(batch) = {} /\ Distinct(batch)
  BY <1>2, NoElems, Zenon
<1>4. CASE pending' = pending \cup ready /\ UNCHANGED batch
  <2>1. Elems(batch') = {} /\ Distinct(batch')
    BY <1>3, <1>4, Zenon
  <2> QED BY <1>1, <1>2, <1>3, <1>4, <2>1, MoveAccounted, ZenonT(30) DEF Accounted, EveryMatchAccounted
<1>5. CASE ~LimitReached /\ \E b \in Batches(pending \cup ready, Budget) :
             batch' = b /\ pending' = (pending \cup ready) \ Elems(b)
  <2>1. PICK b \in Batches(pending \cup ready, Budget) :
             batch' = b /\ pending' = (pending \cup ready) \ Elems(b)
    BY <1>5, Zenon
  <2>2. Budget \in Nat
    BY <1>5, BudgetType, Zenon DEF IInv
  <2>3. Distinct(batch') /\ Elems(batch') \subseteq pending \cup ready
    BY <2>1, <2>2, BatchDistinct, Zenon
  <2>4. pending' = (pending \cup ready) \ Elems(batch')
    BY <2>1, Zenon
  <2> QED BY <1>1, <1>2, <1>3, <2>3, <2>4, MoveAccounted, Zenon DEF Accounted, EveryMatchAccounted
<1> QED BY <1>1, <1>4, <1>5, Zenon

\* Leaving fire_all_rules with an exception, the batch counts as lost.
LEMMA EscapeAccounted ==
    ASSUME Accounted, Escape(batch), UNCHANGED <<memory, gen, pending, delayed>>
    PROVE  Accounted'
<1>1. Elems(batch') = {} /\ Distinct(batch') /\ settled' = settled \cup Elems(batch)
  BY NoElems, Zenon DEF Escape
<1> QED BY <1>1, MoveAccounted, Zenon DEF Accounted, EveryMatchAccounted

\* The other steps of the fire loop that move activations.
LEMMA QuietAccounted ==
    ASSUME IInv, Accounted, Quiet
    PROVE  Accounted'
<1>1. UNCHANGED <<memory, gen>>
  BY Zenon DEF Quiet
<1>2. batch \in Seq(Token)
  BY Zenon DEF IInv, TypeOK
<1>3. CASE UNCHANGED <<pending, delayed, settled, batch>>
  BY <1>1, <1>3, MoveAccounted, Zenon DEF Accounted, EveryMatchAccounted
<1>4. CASE LoopHead
  BY <1>4, LoopHeadAccounted, Zenon
<1>5. CASE Requeue
  <2>1. /\ pending' = pending \cup Elems(batch) /\ batch' = <<>> /\ UNCHANGED <<delayed, settled>>
    BY <1>5, Zenon DEF Requeue
  <2>2. Elems(batch') = {} /\ Distinct(batch')
    BY <2>1, NoElems, Zenon
  <2> QED BY <1>1, <2>1, <2>2, MoveAccounted, ZenonT(30) DEF Accounted, EveryMatchAccounted
<1>6. ASSUME batch # <<>>
      PROVE  /\ Elems(batch) = {Head(batch)} \cup Elems(Tail(batch))
             /\ Head(batch) \notin Elems(Tail(batch)) /\ Distinct(Tail(batch))
  BY <1>2, <1>6, HeadTail, Zenon DEF Accounted
<1>7. CASE SkipStale
  <2>1. /\ batch # <<>> /\ batch' = Tail(batch) /\ settled' = settled \cup {Head(batch)}
        /\ UNCHANGED <<pending, delayed>>
    BY <1>7, Zenon DEF SkipStale
  <2> QED BY <1>1, <1>6, <2>1, MoveAccounted, Zenon DEF Accounted, EveryMatchAccounted
<1>8. CASE FireActivation
  <2>1. PICK cancelled \in SUBSET pending :
          /\ pending' = pending \ cancelled
          /\ settled' = settled \cup cancelled \cup {Head(batch)}
    BY <1>8, Zenon DEF FireActivation
  <2>2. batch # <<>> /\ batch' = Tail(batch) /\ UNCHANGED delayed
    BY <1>8, ZenonT(30) DEF FireActivation
  <2> QED BY <1>1, <1>6, <2>1, <2>2, MoveAccounted, ZenonT(30) DEF Accounted, EveryMatchAccounted
<1>9. CASE BeforeListenerThrows \/ RollbackEnd
  BY <1>1, <1>9, EscapeAccounted, Zenon DEF BeforeListenerThrows, RollbackEnd
<1>10. CASE CommitEnd
  BY <1>1, <1>3, <1>10, EscapeAccounted, Zenon DEF CommitEnd
<1> QED BY <1>3, <1>4, <1>5, <1>7, <1>8, <1>9, <1>10, Zenon DEF Quiet, AgendaStep

\* Every step keeps the account.
LEMMA NextAccounted == IInv /\ Accounted /\ [Next]_vars => Accounted'
<1> SUFFICES ASSUME IInv, Accounted, [Next]_vars PROVE Accounted'
  BY Zenon
<1>1. CASE SomeChange
  BY <1>1, ChangeAccounted, Zenon DEF SomeChange, IInv
<1>2. CASE Quiet
  BY <1>2, QuietAccounted, Zenon
<1>3. CASE Reset
  <2>1. /\ memory' = {} /\ pending' = {} /\ delayed' = {} /\ settled' = {}
        /\ batch' = <<>>
    BY <1>3, Zenon DEF Reset, loop, IInv, TypeOK
  <2>2. Elems(batch') = {} /\ Distinct(batch')
    BY <2>1, NoElems, Zenon
  <2> QED BY <2>1, <2>2, ZenonT(30) DEF Accounted, EveryMatchAccounted, Distinct, Elems
<1> QED BY <1>1, <1>2, <1>3, StepCases, Zenon

\* For any facts, rules, groups, durations and limits: no match is forgotten and
\* none fires twice.  A current match waits on the agenda, for its duration or in
\* the batch, or it has had its turn, and never both (fire_all_rules_impl,
\* add_activation, pop_next_batch_activations, requeue_batch_activations).
THEOREM MatchesAccounted == Spec => []EveryMatchAccounted
<1>1. Init => Accounted
  BY NoElems, Zenon DEF Init, Accounted, EveryMatchAccounted
<1>2. Spec => []IInv
  BY InitIInv, NextIInv, PTL DEF Spec
<1>3. Spec => []Accounted
  BY <1>1, <1>2, NextAccounted, PTL DEF Spec
<1>4. Accounted => EveryMatchAccounted
  BY Zenon DEF Accounted
<1> QED BY <1>3, <1>4, PTL

\* The activations in focus that a pop may still take as its i-th.
Left(P, b, i) == {a \in P : InFocus(a)} \ {b[j] : j \in 1..(i - 1)}

\* A pop as the agenda does it, one activation after another: each time one in
\* focus that is left, of the highest salience among these, until there are n or
\* none is left.
PoppedOneByOne(P, n, b) ==
    /\ Len(b) <= n
    /\ \A i \in 1..Len(b) :
         /\ b[i] \in Left(P, b, i)
         /\ \A c \in Left(P, b, i) : Salience[c.rule] <= Salience[b[i].rule]
    /\ Len(b) = n \/ Left(P, b, Len(b) + 1) = {}

\* A batch popped as a whole is one popped so.
LEMMA BatchIsPopped ==
    ASSUME NEW P \in SUBSET Token, NEW n \in Nat, NEW b \in Seq(Token), b \in Batches(P, n)
    PROVE  PoppedOneByOne(P, n, b)
<1> DEFINE C == {a \in P : InFocus(a)}
           S(a) == Salience[a.rule]
<1>1. /\ Len(b) < n => C \subseteq Elems(b)
      /\ \A i, j \in 1..Len(b) : i < j => b[i] # b[j] /\ S(b[i]) >= S(b[j])
      /\ \A c \in C \ Elems(b) : \A i \in 1..Len(b) : S(b[i]) >= S(c)
  BY Zenon DEF Batches
<1>2. PICK k \in 0..n : b \in [1..k -> C]
  BY ZenonT(30) DEF Batches
<1>3. \A a \in C : S(a) \in Int
  BY SessionAssumption, Zenon DEF Token
<1>4. PICK l \in Nat : l = Len(b) /\ l <= n
  <2>1. Len(b) = k
    BY <1>2
  <2> QED BY <1>2, <2>1
<1>5. \A i \in 1..l : b[i] \in C
  BY <1>2, <1>4
<1>6. ASSUME NEW i \in 1..l
      PROVE  b[i] \in Left(P, b, i)
  <2>1. ASSUME NEW j \in 1..(i - 1) PROVE b[j] # b[i]
    <3>1. j \in 1..l /\ j < i
      BY <1>4
    <3> QED BY <1>1, <1>4, <1>6, <3>1, Zenon
  <2> QED BY <1>5, <2>1, Zenon DEF Left
<1>7. ASSUME NEW i \in 1..l, NEW c \in Left(P, b, i)
      PROVE  S(c) <= S(b[i])
  <2>1. c \in C /\ \A j \in 1..(i - 1) : c # b[j]
    BY Zenon DEF Left
  <2>2. S(b[i]) >= S(c)
    <3>1. CASE c \notin Elems(b)
      BY <1>1, <1>4, <2>1, <3>1, Zenon
    <3>2. CASE c \in Elems(b)
      <4>1. PICK j \in 1..l : c = b[j]
        BY <1>4, <3>2, Zenon DEF Elems
      <4>2. j \notin 1..(i - 1)
        BY <2>1, <4>1, Zenon
      <4>3. j = i \/ i < j
        BY <1>4, <4>2
      <4>4. CASE j = i
        <5>1. PICK x \in Int : x = S(c)
          BY <1>3, <2>1, Zenon
        <5>2. x >= x
          BY SMT
        <5> QED BY <4>1, <4>4, <5>1, <5>2, Zenon
      <4> QED BY <1>1, <1>4, <4>1, <4>3, <4>4, Zenon
    <3> QED BY <3>1, <3>2, Zenon
  <2>3. PICK x \in Int, y \in Int : x = S(c) /\ y = S(b[i])
    BY <1>3, <1>5, <2>1, Zenon
  <2>4. y >= x
    BY <2>2, <2>3, Zenon
  <2>5. x <= y
    BY <2>4, SMT
  <2> QED BY <2>3, <2>5, Zenon
<1>8. Len(b) = n \/ Left(P, b, Len(b) + 1) = {}
  <2>1. l = n \/ l < n
    BY <1>4
  <2>2. (l + 1) - 1 = l
    BY <1>4
  <2>3. C \subseteq Elems(b) => Left(P, b, l + 1) = {}
    BY <1>4, <2>2, Zenon DEF Left, Elems
  <2> QED BY <1>1, <1>4, <2>1, <2>3, Zenon
<1> QED BY <1>4, <1>6, <1>7, <1>8, Zenon DEF PoppedOneByOne

\* And what is popped so is such a batch.
LEMMA PoppedIsBatch ==
    ASSUME NEW P \in SUBSET Token, NEW n \in Nat, NEW b \in Seq(Token), PoppedOneByOne(P, n, b)
    PROVE  b \in Batches(P, n)
<1> DEFINE C == {a \in P : InFocus(a)}
           S(a) == Salience[a.rule]
<1>1. PICK l \in Nat : l = Len(b) /\ l <= n
  BY DEF PoppedOneByOne
<1>2. \A i \in 1..l : /\ b[i] \in C /\ \A j \in 1..(i - 1) : b[i] # b[j]
                      /\ \A c \in Left(P, b, i) : S(c) <= S(b[i])
  BY <1>1, Zenon DEF PoppedOneByOne, Left
<1>3. \A a \in C : S(a) \in Int
  BY SessionAssumption, Zenon DEF Token
<1>4. ASSUME NEW i \in 1..l, NEW c \in Left(P, b, i)
      PROVE  S(b[i]) >= S(c)
  <2>1. c \in C /\ b[i] \in C
    BY <1>2, <1>4, Zenon DEF Left
  <2>2. PICK x \in Int, y \in Int : x = S(c) /\ y = S(b[i])
    BY <1>3, <2>1, Zenon
  <2>3. x <= y
    BY <1>2, <1>4, <2>2, Zenon
  <2>4. y >= x
    BY <2>3, SMT
  <2> QED BY <2>2, <2>4, Zenon
<1>5. b \in UNION {[1..k -> C] : k \in 0..n}
  <2>1. l \in 0..n
    BY <1>1
  <2>2. b \in [1..l -> Token]
    BY <1>1
  <2>3. b \in [1..l -> C]
    BY <1>2, <2>2, Zenon
  <2> QED BY <2>1, <2>3, Zenon
<1>6. Len(b) < n => C \subseteq Elems(b)
  <2>1. l < n => Left(P, b, l + 1) = {}
    <3>1. l < n => l # n
      BY <1>1
    <3> QED BY <1>1, <3>1, Zenon DEF PoppedOneByOne
  <2>2. (l + 1) - 1 = l
    BY <1>1
  <2>3. Left(P, b, l + 1) = {} => C \subseteq Elems(b)
    BY <1>1, <2>2, Zenon DEF Left, Elems
  <2> QED BY <1>1, <2>1, <2>3, Zenon
<1>7. ASSUME NEW i \in 1..l, NEW j \in 1..l, i < j
      PROVE  b[i] # b[j] /\ S(b[i]) >= S(b[j])
  <2>1. i \in 1..(j - 1) /\ \A m \in 1..(i - 1) : m \in 1..(j - 1)
    BY <1>7
  <2>2. b[j] \in Left(P, b, i) /\ b[i] # b[j]
    BY <1>2, <1>7, <2>1, Zenon DEF Left
  <2> QED BY <1>4, <1>7, <2>2, Zenon
<1>8. ASSUME NEW c \in C \ Elems(b), NEW i \in 1..l
      PROVE  S(b[i]) >= S(c)
  <2>1. \A m \in 1..(i - 1) : m \in 1..l
    OBVIOUS
  <2>2. c \in Left(P, b, i)
    BY <1>1, <1>8, <2>1, Zenon DEF Left, Elems
  <2> QED BY <1>4, <1>8, <2>2, Zenon
<1> QED BY <1>1, <1>5, <1>6, <1>7, <1>8, Zenon DEF Batches

\* For any pending activations, rules, focus and count: the batches the session
\* takes in one step are exactly those an agenda gives one activation at a time, as
\* AgendaSpec's Take and End do (pop_next_batch_activations).
THEOREM BatchesAreGreedy ==
    \A P \in SUBSET Token, n \in Nat, b \in Seq(Token) :
        b \in Batches(P, n) <=> PoppedOneByOne(P, n, b)
BY BatchIsPopped, PoppedIsBatch, Zenon

-----------------------------------------------------------------------------
(* Which activations fire without a match *)

Waiting == pending \cup delayed \cup Elems(batch)

\* An activation that waits is a match, unless its fact has left working memory or
\* has had a new token since.
WaitingCurrent ==
    \A a \in Waiting : a.fact \in wm /\ a.gen = gen[a.fact] => a \in memory

\* A change of facts: a token that dies while its fact stays is outdated.
LEMMA ChangeCurrent ==
    ASSUME TypeOK, Accounted, WaitingCurrent,
           NEW W, NEW out, NEW dead, NEW born, NEW timed, NEW J,
           Changed(W, out, dead, born, timed, J)
    PROVE  WaitingCurrent'
<1> DEFINE gone == IF pc = "rhs" THEN {} ELSE Doomed(W, dead)
<1>1. /\ wm' = W \ gone
      /\ memory' = (memory \ (dead \cup LiveOn(gone))) \cup born
      /\ pending' \subseteq pending \cup born /\ delayed' \subseteq delayed \cup born
      /\ Elems(batch') = Elems(batch)
  BY Zenon DEF Changed, Propagate, Elems
<1> HIDE DEF gone
<1> SUFFICES ASSUME NEW a \in Waiting', a \notin born, a.fact \in wm', a.gen = gen'[a.fact]
             PROVE  a \in memory'
  BY <1>1, Zenon DEF WaitingCurrent
<1>2. a \in Waiting
  BY <1>1, Zenon DEF Waiting, Elems
<1>3. a \in Token
  BY <1>2 DEF Waiting, TypeOK, Elems
<1>4. a.fact \in Facts /\ a.gen <= gen[a.fact]
  BY <1>2, <1>3, Zenon DEF Waiting, Accounted, Token
<1>5. gen'[a.fact] >= gen[a.fact] /\ gen[a.fact] \in Nat /\ gen'[a.fact] \in Nat
  BY <1>4, Zenon DEF Changed, TypeOK
<1>6. PICK x \in Nat, y \in Nat : x = gen[a.fact] /\ y = gen'[a.fact]
  BY <1>5, Zenon
<1>7. x = y /\ ~(y > x)
  <2>1. y <= x /\ y >= x
    BY <1>4, <1>5, <1>6, Zenon
  <2> HIDE DEF gone
  <2> QED BY <2>1, SMT
<1>8. a.fact \in W /\ a.fact \in wm /\ ~\E t \in dead : t.fact = a.fact
  BY <1>1, <1>6, <1>7, Zenon DEF Changed
<1>9. a \in memory
  BY <1>2, <1>6, <1>7, <1>8, Zenon DEF WaitingCurrent
<1> QED BY <1>1, <1>8, <1>9, Zenon DEF LiveOn

\* The fire loop takes no activation from anywhere else.
LEMMA AgendaStepWaiting ==
    ASSUME IInv, Accounted, AgendaStep
    PROVE  Waiting' \subseteq Waiting
<1>1. batch \in Seq(Token)
  BY Zenon DEF IInv, TypeOK
<1>2. ASSUME batch # <<>>
      PROVE  Elems(Tail(batch)) \subseteq Elems(batch)
  <2>1. Elems(batch) = {Head(batch)} \cup Elems(Tail(batch))
    BY <1>1, <1>2, HeadTail, Zenon DEF Accounted
  <2> QED BY <2>1, Zenon
<1>3. CASE LoopHead
  <2>1. PICK ready \in SUBSET delayed :
          /\ delayed' = delayed \ ready
          /\ \/ /\ pending' = pending \cup ready
                /\ UNCHANGED batch
             \/ /\ ~LimitReached
                /\ \E b \in Batches(pending \cup ready, Budget) :
                     batch' = b /\ pending' = (pending \cup ready) \ Elems(b)
    BY <1>3, Zenon DEF LoopHead
  <2>2. CASE pending' = pending \cup ready /\ UNCHANGED batch
    BY <2>1, <2>2, Zenon DEF Waiting, Elems
  <2>3. CASE ~LimitReached /\ \E b \in Batches(pending \cup ready, Budget) :
               batch' = b /\ pending' = (pending \cup ready) \ Elems(b)
    <3>1. Budget \in Nat
      BY <2>3, BudgetType, Zenon DEF IInv
    <3>2. Elems(batch') \subseteq pending \cup ready /\ pending' \subseteq pending \cup ready
      BY <2>3, <3>1, BatchDistinct, Zenon
    <3> QED BY <2>1, <3>2, Zenon DEF Waiting, Elems
  <2> QED BY <2>1, <2>2, <2>3, Zenon
<1>4. CASE Requeue
  <2>1. pending' = pending \cup Elems(batch) /\ delayed' = delayed /\ batch' = <<>>
    BY <1>4, Zenon DEF Requeue
  <2>2. Elems(batch') = {}
    BY <2>1, NoElems, Zenon
  <2> QED BY <2>1, <2>2, Zenon DEF Waiting, Elems
<1>5. CASE SkipStale \/ FireActivation
  <2>1. /\ batch # <<>> /\ batch' = Tail(batch) /\ pending' \subseteq pending
        /\ delayed' = delayed
    BY <1>5, ZenonT(30) DEF SkipStale, FireActivation
  <2>2. Elems(batch') \subseteq Elems(batch)
    BY <1>2, <2>1, Zenon
  <2> QED BY <2>1, <2>2, Zenon DEF Waiting, Elems
<1>6. CASE BeforeListenerThrows \/ RollbackEnd \/ CommitEnd
  <2>1. pending' = pending /\ delayed' = delayed /\ (batch' = batch \/ batch' = <<>>)
    BY <1>6, ZenonT(30) DEF BeforeListenerThrows, RollbackEnd, CommitEnd, Escape
  <2>2. Elems(batch') \subseteq Elems(batch)
    BY <2>1, NoElems, Zenon
  <2> QED BY <2>1, <2>2, Zenon DEF Waiting, Elems
<1> QED BY <1>3, <1>4, <1>5, <1>6, Zenon DEF AgendaStep

\* Every step keeps it.
LEMMA NextCurrent == IInv /\ Accounted /\ WaitingCurrent /\ [Next]_vars => WaitingCurrent'
<1> SUFFICES ASSUME IInv, Accounted, WaitingCurrent, [Next]_vars PROVE WaitingCurrent'
  BY Zenon
<1>1. CASE SomeChange
  BY <1>1, ChangeCurrent, Zenon DEF SomeChange, IInv
<1>2. CASE Quiet
  <2>1. Waiting' \subseteq Waiting
    <3>1. CASE UNCHANGED <<pending, delayed, settled, batch>>
      BY <3>1, Zenon DEF Waiting, Elems
    <3> QED BY <1>2, <3>1, AgendaStepWaiting, Zenon DEF Quiet
  <2> QED BY <1>2, <2>1, Zenon DEF Quiet, WaitingCurrent
<1>3. CASE Reset
  <2>1. pending' = {} /\ delayed' = {} /\ batch' = <<>>
    BY <1>3, Zenon DEF Reset, loop, IInv, TypeOK
  <2>2. Elems(batch') = {}
    BY <2>1, NoElems, Zenon
  <2> QED BY <2>1, <2>2, Zenon DEF WaitingCurrent, Waiting, Elems
<1> QED BY <1>1, <1>2, <1>3, StepCases, Zenon

\* Inside a batch only these steps are taken.
LEMMA BatchStep ==
    ASSUME [Next]_vars, pc = "batch"
    PROVE  \/ BatchDone \/ Requeue \/ SkipStale \/ FireActivation \/ BeforeListenerThrows
           \/ UNCHANGED vars
<1>1. pc # "idle"
  BY Zenon
<1>2. ~Call /\ ~Reset
  BY <1>1, Zenon DEF Call, Reset, AddFact, UpdateFact, AddFacts, RetractFact, RetractFacts,
         SetFocus, FireBegin, Idle
<1> QED
  BY <1>2, ZenonT(30) DEF Next, Run, Running, LoopHead, FireEnd, RhsInsert, RhsInsertLogical,
     RhsUpdate, RhsUpdateThrows, RhsRetract, RhsHalt, RhsThrow, RhsCommit, RhsSetFocus, RhsStep,
     CommitRetract, RollbackInsert, RollbackRetract, CommitEnd, RollbackUpdate, RollbackEnd

\* Only fire_activation enters an RHS.
LEMMA FiringStep ==
    ASSUME [Next]_vars, pc = "batch", pc' = "rhs"
    PROVE  FireActivation
<1>1. ~UNCHANGED vars
  BY Zenon DEF vars
<1> QED BY <1>1, BatchStep, Zenon DEF BatchDone, Requeue, SkipStale, BeforeListenerThrows, Escape

\* What fires is the head of the batch.
LEMMA FiringHead ==
    ASSUME IInv, FireActivation
    PROVE  current' \in Elems(batch) /\ current'.fact \in wm /\ current' \in Token
<1>1. batch \in Seq(Token) /\ batch # <<>> /\ current' = Head(batch) /\ Head(batch).fact \in wm
  BY ZenonT(30) DEF FireActivation, IInv, TypeOK
<1>2. Head(batch) \in Elems(batch) /\ Head(batch) \in Token
  BY <1>1 DEF Elems
<1> QED BY <1>1, <1>2, Zenon

\* For any rules, durations, groups and batches: an activation that fires without a
\* match has had its fact changed since it was made.  An activation whose fact
\* nobody touched fires on a match (fire_all_rules_impl, the check of stale facts).
THEOREM StaleFiringNeedsUpdate ==
    Spec => [][pc = "batch" /\ pc' = "rhs" /\ current' \notin memory =>
                  current'.gen < gen[current'.fact]]_vars
<1>1. ASSUME IInv, Accounted, WaitingCurrent, [Next]_vars, pc = "batch", pc' = "rhs",
             current' \notin memory
      PROVE  current'.gen < gen[current'.fact]
  <2>1. current' \in Elems(batch) /\ current'.fact \in wm /\ current' \in Token
    BY <1>1, FiringStep, FiringHead, Zenon
  <2>2. current'.gen # gen[current'.fact]
    BY <1>1, <2>1, Zenon DEF WaitingCurrent, Waiting
  <2>3. current'.gen <= gen[current'.fact]
    BY <1>1, <2>1, Zenon DEF Accounted
  <2>4. current'.gen \in Nat /\ gen[current'.fact] \in Nat
    BY <1>1, <2>1, Zenon DEF Token, IInv, TypeOK
  <2>5. PICK x \in Nat, y \in Nat : x = current'.gen /\ y = gen[current'.fact]
    BY <2>4, Zenon
  <2>6. x # y /\ x <= y
    BY <2>2, <2>3, <2>5, Zenon
  <2>7. x < y
    BY <2>6, SMT
  <2> QED BY <2>5, <2>7, Zenon
<1>2. Init => Accounted /\ WaitingCurrent
  BY NoElems, Zenon DEF Init, Accounted, EveryMatchAccounted, WaitingCurrent, Waiting
<1>3. Spec => []IInv
  BY InitIInv, NextIInv, PTL DEF Spec
<1>4. Spec => [](Accounted /\ WaitingCurrent)
  BY <1>2, <1>3, NextAccounted, NextCurrent, PTL DEF Spec
<1>5. IInv /\ Accounted /\ WaitingCurrent /\ [Next]_vars =>
        (pc = "batch" /\ pc' = "rhs" /\ current' \notin memory => current'.gen < gen[current'.fact])
  BY <1>1, Zenon
<1> QED BY <1>3, <1>4, <1>5, PTL DEF Spec

\* One activation at a time: no rule has a duration, and a batch has at most one
\* activation, because of its size or of every call's max_rules.
OneAtATime == Timed = {} /\ (BatchSize = 1 \/ Limits \subseteq {0, 1})

\* Then everything that waits is a match, and nothing is left in a batch while an
\* RHS runs.
Stepwise ==
    /\ delayed = {}
    /\ Waiting \subseteq memory
    /\ Len(batch) <= 1
    /\ pc # "batch" => batch = <<>>

\* A batch is no longer than it was asked to be, and the loop asks for one.
LEMMA ShortBatch ==
    ASSUME OneAtATime, TypeOK, ~LimitReached, NEW P, NEW b \in Batches(P, Budget)
    PROVE  Len(b) <= 1
<1>1. Budget \in Nat
  BY BudgetType, Zenon
<1>2. Budget <= 1
  BY SessionAssumption DEF TypeOK, LimitReached, Budget, OneAtATime
<1> DEFINE C == {a \in P : InFocus(a)}
<1>3. PICK k \in 0..Budget : b \in [1..k -> C]
  BY ZenonT(30) DEF Batches
<1> HIDE DEF C
<1>4. Len(b) = k
  BY <1>1, <1>3
<1>5. PICK n \in Nat : n = Budget
  BY <1>1, Zenon
<1>6. k \in 0..n /\ n <= 1
  BY <1>2, <1>3, <1>5, Zenon
<1> QED BY <1>4, <1>6, SMT

\* A change of facts happens outside of the batch, which is empty then.
LEMMA ChangeStepwise ==
    ASSUME OneAtATime, Stepwise, SomeChange
    PROVE  Stepwise'
<1>1. PICK W, out, dead, born, timed, J : Changed(W, out, dead, born, timed, J)
  BY Zenon DEF SomeChange
<1>2. batch = <<>> /\ batch' = <<>> /\ timed = {}
  BY <1>1, Zenon DEF Changed, Stepwise, OneAtATime
<1>3. Elems(batch) = {} /\ Elems(batch') = {} /\ Len(batch') <= 1
  <2>1. Len(<<>>) <= 1
    OBVIOUS
  <2> QED BY <1>2, <2>1, NoElems, Zenon
<1>4. pending \subseteq memory
  BY Zenon DEF Stepwise, Waiting
<1> DEFINE gone == IF pc = "rhs" THEN {} ELSE Doomed(W, dead)
           off == dead \cup LiveOn(gone)
<1>5. /\ memory' = (memory \ off) \cup born
      /\ pending' \subseteq (pending \ off) \cup born
      /\ delayed' = delayed
  BY <1>1, <1>2, Zenon DEF Changed, Propagate
<1> HIDE DEF off
<1>6. pending' \subseteq memory' /\ delayed' = {}
  BY <1>4, <1>5, Zenon DEF Stepwise
<1>7. Waiting' = pending' \cup delayed' \cup Elems(batch')
  BY Zenon DEF Waiting, Elems
<1> QED BY <1>2, <1>3, <1>6, <1>7, Zenon DEF Stepwise

\* The steps that change no token.
LEMMA QuietStepwise ==
    ASSUME OneAtATime, IInv, Accounted, Stepwise, [Next]_vars, Quiet
    PROVE  Stepwise'
<1>1. Waiting' \subseteq memory'
  <2>1. CASE UNCHANGED <<pending, delayed, settled, batch>>
    BY <2>1, Zenon DEF Waiting, Elems, Quiet, Stepwise
  <2> QED BY <2>1, AgendaStepWaiting, Zenon DEF Quiet, Stepwise
<1>2. delayed' \subseteq delayed
  BY ZenonT(30) DEF Quiet, AgendaStep, LoopHead, Requeue, SkipStale, FireActivation,
     BeforeListenerThrows, CommitEnd, RollbackEnd
<1>3. delayed' = {}
  BY <1>2, Zenon DEF Stepwise
<1>4. Len(<<>>) <= 1
  OBVIOUS
<1>5. ASSUME batch' = <<>>
      PROVE  Stepwise'
  BY <1>1, <1>3, <1>4, <1>5, Zenon DEF Stepwise
<1>6. CASE pc = "batch"
  <2>1. CASE BatchDone \/ Requeue \/ BeforeListenerThrows
    <3>1. batch' = <<>>
      BY <2>1, Zenon DEF BatchDone, Requeue, BeforeListenerThrows, Escape, loop
    <3> QED BY <1>5, <3>1, Zenon
  <2>2. CASE SkipStale \/ FireActivation
    <3>1. batch # <<>> /\ batch' = Tail(batch)
      BY <2>2, Zenon DEF SkipStale, FireActivation
    <3>2. batch \in Seq(Token) /\ Len(batch) <= 1
      BY Zenon DEF IInv, TypeOK, Stepwise
    <3>3. batch' = <<>>
      BY <3>1, <3>2
    <3> QED BY <1>5, <3>3, Zenon
  <2>3. CASE UNCHANGED vars
    <3>1. UNCHANGED <<batch, pc>>
      BY <2>3, Zenon DEF vars, loop
    <3> QED BY <1>1, <1>3, <3>1, Zenon DEF Stepwise
  <2> QED BY <1>6, <2>1, <2>2, <2>3, BatchStep, Zenon
<1>7. CASE pc # "batch"
  <2>1. batch = <<>>
    BY <1>7, Zenon DEF Stepwise
  <2>2. CASE LoopHead
    <3>1. CASE batch' = batch
      BY <1>5, <2>1, <3>1, Zenon
    <3>2. CASE ~(batch' = batch)
      <4>1. PICK ready \in SUBSET delayed :
              /\ ~LimitReached
              /\ batch' \in Batches(pending \cup ready, Budget)
              /\ pc' = IF batch' = <<>> THEN "end" ELSE "batch"
        BY <2>2, <3>2, Zenon DEF LoopHead
      <4>2. Len(batch') <= 1
        BY <4>1, ShortBatch, Zenon DEF IInv
      <4> QED BY <1>1, <1>3, <4>1, <4>2, Zenon DEF Stepwise
    <3> QED BY <3>1, <3>2, Zenon
  <2>3. CASE CommitEnd \/ RollbackEnd
    <3>1. batch' = <<>>
      BY <2>1, <2>3, Zenon DEF CommitEnd, RollbackEnd, Escape
    <3> QED BY <1>5, <3>1, Zenon
  <2>4. CASE UNCHANGED <<pending, delayed, settled, batch>>
    BY <1>5, <2>1, <2>4, Zenon
  <2>5. ~(Requeue \/ SkipStale \/ FireActivation \/ BeforeListenerThrows)
    BY <1>7, Zenon DEF Requeue, SkipStale, FireActivation, BeforeListenerThrows
  <2> QED BY <2>2, <2>3, <2>4, <2>5, Zenon DEF Quiet, AgendaStep
<1> QED BY <1>6, <1>7, Zenon

\* Every step keeps it.
LEMMA NextStepwise ==
    ASSUME OneAtATime
    PROVE  IInv /\ Accounted /\ Stepwise /\ [Next]_vars => Stepwise'
<1> SUFFICES ASSUME IInv, Accounted, Stepwise, [Next]_vars PROVE Stepwise'
  BY Zenon
<1>1. CASE Reset
  <2>1. pending' = {} /\ delayed' = {} /\ batch' = <<>>
    BY <1>1, Zenon DEF Reset, loop, IInv, TypeOK
  <2>2. Elems(batch') = {} /\ Len(batch') <= 1
    <3>1. Len(<<>>) <= 1
      OBVIOUS
    <3> QED BY <2>1, <3>1, NoElems, Zenon
  <2>3. Waiting' = {}
    BY <2>1, <2>2, Zenon DEF Waiting, Elems
  <2> QED BY <2>1, <2>2, <2>3, Zenon DEF Stepwise
<1> QED BY <1>1, ChangeStepwise, QuietStepwise, StepCases, Zenon

\* For any rules and groups without durations: when activations are taken off the
\* agenda one at a time, by a batch size of 1 or by calls with max_rules of 0 or 1,
\* only a match fires (fire_all_rules_impl, pop_next_batch_activations).
THEOREM OneAtATimeFiresMatches == OneAtATime => (Spec => FiresOnlyMatches)
<1> SUFFICES ASSUME OneAtATime PROVE Spec => FiresOnlyMatches
  BY Zenon
<1>1. Init => Accounted
  BY NoElems, Zenon DEF Init, Accounted, EveryMatchAccounted
<1>2. Init => Stepwise
  <2>1. Len(<<>>) <= 1
    OBVIOUS
  <2> QED BY <2>1, NoElems, Zenon DEF Init, Stepwise, Waiting
<1>3. Spec => []IInv
  BY InitIInv, NextIInv, PTL DEF Spec
<1>4. Spec => []Accounted
  BY <1>1, <1>3, NextAccounted, PTL DEF Spec
<1>5. IInv /\ Accounted /\ Stepwise /\ [Next]_vars => Stepwise'
  BY NextStepwise, Zenon
<1>6. Spec => []Stepwise
  BY <1>2, <1>3, <1>4, <1>5, PTL DEF Spec
<1>7. IInv /\ Stepwise /\ [Next]_vars => (pc = "batch" /\ pc' = "rhs" => current' \in memory)
  BY FiringStep, FiringHead, Zenon DEF Stepwise, Waiting
<1> QED BY <1>3, <1>6, <1>7, PTL DEF Spec, FiresOnlyMatches

-----------------------------------------------------------------------------
(* What a rollback restores *)

\* Only facts made by insertLogical are ever justified.
Justified == \A g \in Facts : just[g] # NoToken => g \in logical

InTransaction == pc \in {"rhs", "rollback_updates", "rollback_inserts"}

\* What the transaction tracks.  Until the rollback of the insertions begins,
\* working memory has the facts it had and the inserted ones; from then on the
\* same is true but for logical facts.  Only the fact of the token may have
\* another field, and then the snapshot is the field it had.
Tracked ==
    /\ InTransaction =>
         /\ saved[1] \subseteq Facts \ fresh
         /\ saved[1] \cap inserted = {}
         /\ current.fact \in saved[1]
         /\ retracted \subseteq {current.fact} \cup logical
         /\ \A f \in saved[1] \ {current.fact} : val[f] = saved[2][f]
    /\ pc \in {"rhs", "rollback_updates"} =>
         /\ wm = saved[1] \cup inserted
         /\ snapshot = NoVal => val[current.fact] = saved[2][current.fact]
         /\ snapshot # NoVal => snapshot = saved[2][current.fact]
    /\ pc = "rollback_inserts" =>
         /\ wm \ logical = (saved[1] \cup inserted) \ logical
         /\ rollback_ok => val[current.fact] = saved[2][current.fact]

TxInv == Justified /\ Tracked

\* Truth maintenance retracts justified facts only, and none inside an RHS.
LEMMA PropagateFacts ==
    ASSUME TypeOK, Justified, NEW W \in SUBSET Facts, NEW out, NEW dead \in SUBSET memory,
           NEW born, NEW timed, NEW J, Propagate(W, out, dead, born, timed, J)
    PROVE  /\ wm' \subseteq W /\ W \ wm' \subseteq logical
           /\ pc = "rhs" => wm' = W
           /\ dead = {} => wm' = W
           /\ \A g \in Facts : just'[g] # NoToken => J[g] # NoToken
<1> DEFINE gone == IF pc = "rhs" THEN {} ELSE Doomed(W, dead)
<1>1. wm' = W \ gone
  BY Zenon DEF Propagate
<1>2. \A g \in Facts : just'[g] = NoToken \/ just'[g] = J[g]
  BY ZenonT(30) DEF Propagate
<1>3. \A g \in Doomed(W, dead) : g \in W /\ just[g] \in memory
  BY DoomedClosed, ZenonT(30) DEF LiveOn
<1>4. Doomed(W, dead) \subseteq logical
  BY <1>3, SessionAssumption, Zenon DEF TypeOK, Justified, Token
<1>5. dead = {} => gone = {}
  BY NothingDoomed, Zenon
<1> QED BY <1>1, <1>2, <1>4, <1>5, Zenon

\* A call of the owner: no transaction is open.
LEMMA CallTx ==
    ASSUME IInv, TxInv, Call
    PROVE  TxInv'
<1>1. TypeOK /\ Justified
  BY Zenon DEF IInv, TxInv
<1>2. Idle /\ pc' \in {"idle", "loop"} /\ UNCHANGED logical
  BY Zenon DEF Call, AddFact, UpdateFact, AddFacts, RetractFact, RetractFacts, SetFocus, FireBegin,
         Idle, tms
<1>3. wm \in SUBSET Facts /\ {} \in SUBSET memory /\ \A F : LiveOn(F) \in SUBSET memory
  BY <1>1, Zenon DEF TypeOK, LiveOn
<1> SUFFICES Justified'
  BY <1>2, Zenon DEF TxInv, Tracked, InTransaction
<1>4. ASSUME NEW W \in SUBSET Facts, NEW out, NEW dead \in SUBSET memory, NEW born, NEW timed,
             Propagate(W, out, dead, born, timed, just)
      PROVE  Justified'
  <2>1. \A g \in Facts : just'[g] # NoToken => just[g] # NoToken
    BY <1>1, <1>4, PropagateFacts, Zenon
  <2> QED BY <1>1, <1>2, <2>1, Zenon DEF Justified
<1>5. CASE \E f \in Facts, v \in Vals : AddFact(f, v) \/ UpdateFact(f, v)
  <2>1. PICK f \in Facts, v \in Vals : AddFact(f, v) \/ UpdateFact(f, v)
    BY <1>5, Zenon
  <2>2. wm \cup {f} \in SUBSET Facts
    BY <1>3, Zenon
  <2>3. CASE AddFact(f, v)
    BY <1>3, <1>4, <2>2, <2>3, Zenon DEF AddFact, AssertFact
  <2>4. CASE UpdateFact(f, v)
    BY <1>3, <1>4, <2>4, Zenon DEF UpdateFact, ModifyFact
  <2> QED BY <2>1, <2>3, <2>4, Zenon
<1>6. CASE \E F \in SUBSET Facts, v \in Vals : AddFacts(F, v)
  <2>1. PICK F \in SUBSET Facts, v \in Vals : AddFacts(F, v)
    BY <1>6, Zenon
  <2>2. wm \cup F \in SUBSET Facts
    BY <1>3, Zenon
  <2> QED BY <1>3, <1>4, <2>1, <2>2, Zenon DEF AddFacts
<1>7. CASE \E f \in Facts : RetractFact(f)
  <2>1. PICK f \in Facts : RetractFact(f)
    BY <1>7, Zenon
  <2>2. wm \ {f} \in SUBSET Facts
    BY <1>3, Zenon
  <2> QED BY <1>3, <1>4, <2>1, <2>2, Zenon DEF RetractFact, RetractFactNow
<1>8. CASE \E F \in SUBSET Facts : RetractFacts(F)
  <2>1. PICK F \in SUBSET Facts : RetractFacts(F)
    BY <1>8, Zenon
  <2>2. wm \ F \in SUBSET Facts
    BY <1>3, Zenon
  <2> QED BY <1>3, <1>4, <2>1, <2>2, Zenon DEF RetractFacts
<1>9. CASE (\E g \in Foci : SetFocus(g)) \/ (\E m \in Limits : FireBegin(m))
  <2>1. UNCHANGED just
    BY <1>9, Zenon DEF SetFocus, FireBegin, tms
  <2> QED BY <1>1, <1>2, <2>1, Zenon DEF Justified
<1> QED BY <1>5, <1>6, <1>7, <1>8, <1>9, Zenon DEF Call

\* The steps of fire_all_rules outside of a transaction, or that only end one.
LEMMA OutsideTx ==
    ASSUME IInv, TxInv,
           \/ LoopHead \/ FireEnd \/ BatchDone \/ Requeue \/ SkipStale \/ BeforeListenerThrows
           \/ RhsCommit \/ CommitEnd \/ RollbackEnd
    PROVE  TxInv'
<1>1. UNCHANGED <<just, logical>>
  BY ZenonT(30) DEF LoopHead, FireEnd, BatchDone, Requeue, SkipStale, BeforeListenerThrows, RhsCommit,
         CommitEnd, RollbackEnd, tms
<1>2. pc' \in {"idle", "loop", "end", "batch", "commit"}
  BY ZenonT(30) DEF LoopHead, FireEnd, BatchDone, Requeue, SkipStale, BeforeListenerThrows, RhsCommit,
         CommitEnd, RollbackEnd, Escape
<1>3. Tracked'
  BY <1>2, Zenon DEF Tracked, InTransaction
<1> QED BY <1>1, <1>3, Zenon DEF TxInv, Justified

\* begin_rhs_transaction.
LEMMA FireActivationTx ==
    ASSUME IInv, TxInv, FireActivation
    PROVE  TxInv'
<1>1. /\ UNCHANGED <<just, logical, wm, val, fresh>>
      /\ pc' = "rhs" /\ saved' = <<wm, val>> /\ inserted' = {} /\ retracted' = {}
      /\ snapshot' = NoVal /\ current'.fact \in wm
  BY ZenonT(30) DEF FireActivation, store, tms
<1>2. wm \subseteq Facts \ fresh
  BY Zenon DEF IInv, TypeOK
<1>3. Tracked'
  BY <1>1, <1>2, Zenon DEF Tracked, InTransaction
<1> QED BY <1>1, <1>3, Zenon DEF TxInv, Justified

\* What the transaction tracks while the RHS runs.
LEMMA RhsTracked ==
    ASSUME IInv, TxInv, pc = "rhs"
    PROVE  /\ TypeOK /\ Justified
           /\ saved[1] \subseteq Facts \ fresh
           /\ saved[1] \cap inserted = {}
           /\ current \in Token /\ current.fact \in saved[1] /\ current.fact \in Facts
           /\ val[current.fact] \in Vals /\ val[current.fact] # NoVal
           /\ retracted \subseteq {current.fact} \cup logical
           /\ \A f \in saved[1] \ {current.fact} : val[f] = saved[2][f]
           /\ wm = saved[1] \cup inserted /\ wm \in SUBSET Facts
           /\ snapshot = NoVal => val[current.fact] = saved[2][current.fact]
           /\ snapshot # NoVal => snapshot = saved[2][current.fact]
<1>1. val[current.fact] \in Vals /\ current.fact \in Facts /\ current \in Token
  BY RhsState, ZenonT(30)
<1>2. TypeOK /\ Justified /\ Tracked /\ wm \in SUBSET Facts
  BY Zenon DEF IInv, TxInv, TypeOK
<1> QED BY <1>1, <1>2, SessionAssumption, ZenonT(30) DEF Tracked, InTransaction

\* An insertion: the fact is a fresh one, so it was not there at the beginning.
LEMMA InsertTx ==
    ASSUME IInv, TxInv, NEW f \in Facts, NEW v \in Vals,
           RhsInsert(f, v) \/ RhsInsertLogical(f, v)
    PROVE  TxInv'
<1>1. /\ pc = "rhs" /\ pc' = "rhs" /\ f \in fresh /\ fresh' = fresh \ {f}
      /\ inserted' = inserted \cup {f}
      /\ UNCHANGED <<current, snapshot, saved, retracted>>
  BY Zenon DEF RhsInsert, RhsInsertLogical, RhsStep, NewFact, loop
<1>2. val' = [val EXCEPT ![f] = v]
  BY Zenon DEF RhsInsert, RhsInsertLogical, AssertFact
<1>3. wm \cup {f} \in SUBSET Facts /\ {} \in SUBSET memory /\ TypeOK /\ Justified
  BY <1>1, RhsTracked, Zenon
<1>4. /\ wm' = wm \cup {f} /\ Justified'
      /\ logical \subseteq logical'
  <2>1. CASE RhsInsert(f, v)
    <3>1. Propagate(wm \cup {f}, {}, {}, TokensFor(f, v, gen[f] + 1), Timed, just)
          /\ UNCHANGED logical
      BY <2>1, Zenon DEF RhsInsert, AssertFact
    <3>2. wm' = wm \cup {f} /\ \A g \in Facts : just'[g] # NoToken => just[g] # NoToken
      BY <1>1, <1>3, <3>1, PropagateFacts, Zenon
    <3> QED BY <1>1, <3>1, <3>2, RhsTracked, ZenonT(30) DEF Justified
  <2>2. CASE RhsInsertLogical(f, v)
    <3> DEFINE J == [just EXCEPT ![f] = current]
    <3>1. Propagate(wm \cup {f}, {}, {}, TokensFor(f, v, gen[f] + 1), Timed, J)
          /\ logical' = logical \cup {f}
      BY <2>2, Zenon DEF RhsInsertLogical, AssertFact
    <3>2. \A g \in Facts : g # f => J[g] = just[g]
      BY <1>1, RhsTracked, Zenon DEF TypeOK
    <3> HIDE DEF J
    <3>3. wm' = wm \cup {f} /\ \A g \in Facts : just'[g] # NoToken => J[g] # NoToken
      BY <1>1, <1>3, <3>1, PropagateFacts, Zenon
    <3> QED BY <1>1, <3>1, <3>2, <3>3, RhsTracked, ZenonT(30) DEF Justified
  <2> QED BY <2>1, <2>2, Zenon
<1>5. f \notin saved[1] /\ f # current.fact
  BY <1>1, RhsTracked, ZenonT(30)
<1>6. \A g \in saved[1] : val'[g] = val[g]
  BY <1>1, <1>2, <1>5, RhsTracked, ZenonT(30) DEF TypeOK
<1>7. Tracked'
  BY <1>1, <1>4, <1>5, <1>6, RhsTracked, ZenonT(30) DEF Tracked, InTransaction
<1> QED BY <1>4, <1>7, Zenon DEF TxInv

\* TakeSnapshot keeps the field the fact had when the RHS began.
LEMMA SnapshotKept ==
    ASSUME IInv, TxInv, pc = "rhs", TakeSnapshot
    PROVE  snapshot' = saved[2][current.fact] /\ snapshot' # NoVal
BY RhsTracked, Zenon DEF TakeSnapshot

\* An update, whole or cut short by an exception.
LEMMA UpdateTx ==
    ASSUME IInv, TxInv, NEW v \in Vals, RhsUpdate(v) \/ RhsUpdateThrows(v)
    PROVE  TxInv'
<1>1. /\ pc = "rhs" /\ pc' \in {"rhs", "rollback_updates"}
      /\ UNCHANGED <<fresh, inserted, current, saved, logical>>
      /\ TakeSnapshot
  BY ZenonT(30) DEF RhsUpdate, RhsUpdateThrows, RhsStep, loop, tms
<1>2. val' = [val EXCEPT ![current.fact] = v]
  BY ZenonT(30) DEF RhsUpdate, RhsUpdateThrows, ModifyFact
<1>3. \A g \in saved[1] \ {current.fact} : val'[g] = val[g]
  BY <1>1, <1>2, RhsTracked, Zenon DEF TypeOK
<1>4. /\ wm' = wm /\ Justified'
      /\ retracted' \subseteq {current.fact} \cup logical
  <2>1. CASE RhsUpdate(v)
    <3>1. /\ Propagate(wm, {}, LiveOn({current.fact}),
                       TokensFor(current.fact, v, gen[current.fact] + 1), Timed, just)
          /\ retracted' = retracted \cup {g \in wm : just[g] \in LiveOn({current.fact})}
      BY <2>1, ZenonT(30) DEF RhsUpdate, ModifyFact
    <3>2. LiveOn({current.fact}) \in SUBSET memory /\ wm \in SUBSET Facts /\ TypeOK /\ Justified
      BY <1>1, RhsTracked, Zenon DEF LiveOn
    <3>3. wm' = wm /\ \A g \in Facts : just'[g] # NoToken => just[g] # NoToken
      BY <1>1, <3>1, <3>2, PropagateFacts, Zenon
    <3>4. \A g \in wm : just[g] \in LiveOn({current.fact}) => g \in logical
      BY <1>1, <3>2, RhsTracked, SessionAssumption, ZenonT(30) DEF Justified, TypeOK, Token
    <3> QED BY <1>1, <3>1, <3>3, <3>4, RhsTracked, ZenonT(30) DEF Justified
  <2>2. CASE RhsUpdateThrows(v)
    BY <1>1, <2>2, RhsTracked, ZenonT(30) DEF RhsUpdateThrows, tms, Justified
  <2> QED BY <2>1, <2>2, Zenon
<1>5. Tracked'
  BY <1>1, <1>3, <1>4, RhsTracked, SnapshotKept, Zenon DEF Tracked, InTransaction
<1> QED BY <1>4, <1>5, Zenon DEF TxInv

\* The other steps of the RHS.
LEMMA OtherRhsTx ==
    ASSUME IInv, TxInv, RhsRetract \/ RhsHalt \/ RhsThrow \/ \E g \in Foci : RhsSetFocus(g)
    PROVE  TxInv'
<1>1. /\ pc = "rhs" /\ pc' \in {"rhs", "rollback_updates"}
      /\ UNCHANGED <<wm, val, fresh, inserted, current, saved, snapshot, just, logical>>
  BY Zenon DEF RhsRetract, RhsHalt, RhsThrow, RhsSetFocus, RhsStep, store, loop, tms, tx
<1>2. retracted' \subseteq retracted \cup {current.fact}
  BY Zenon DEF RhsRetract, RhsHalt, RhsThrow, RhsSetFocus
<1>3. Tracked'
  BY <1>1, <1>2, RhsTracked, ZenonT(30) DEF Tracked, InTransaction
<1> QED BY <1>1, <1>3, Zenon DEF TxInv, Justified

\* A retraction outside of an RHS drops the fact, and logical facts with it.
LEMMA RetractNowFacts ==
    ASSUME TypeOK, Justified, NEW f, RetractFactNow(f), UNCHANGED logical
    PROVE  /\ Justified' /\ UNCHANGED val
           /\ wm' \subseteq wm \ {f} /\ (wm \ {f}) \ wm' \subseteq logical
<1>1. /\ Propagate(wm \ {f}, {f}, LiveOn({f}), {}, Timed, just)
      /\ UNCHANGED val
  BY Zenon DEF RetractFactNow
<1>2. wm \ {f} \in SUBSET Facts /\ LiveOn({f}) \in SUBSET memory
  BY Zenon DEF TypeOK, LiveOn
<1>3. /\ wm' \subseteq wm \ {f} /\ (wm \ {f}) \ wm' \subseteq logical
      /\ \A g \in Facts : just'[g] # NoToken => just[g] # NoToken
  BY <1>1, <1>2, PropagateFacts, Zenon
<1> QED BY <1>1, <1>3, Zenon DEF Justified

\* A deferred retraction, after the transaction.
LEMMA CommitRetractTx ==
    ASSUME IInv, TxInv, NEW f \in Facts, CommitRetract(f)
    PROVE  TxInv'
<1>1. Justified'
  BY RetractNowFacts, Zenon DEF CommitRetract, IInv, TxInv
<1>2. pc' = "commit"
  BY Zenon DEF CommitRetract
<1> QED BY <1>1, <1>2, Zenon DEF TxInv, Tracked, InTransaction

\* Rollback of the update.
LEMMA RollbackUpdateTx ==
    ASSUME IInv, TxInv, RollbackUpdate
    PROVE  TxInv'
<1> DEFINE c == current.fact
<1>1. /\ pc = "rollback_updates" /\ pc' = "rollback_inserts"
      /\ UNCHANGED <<fresh, logical, current, inserted, saved, retracted>>
  BY Zenon DEF RollbackUpdate, loop
<1>2. TypeOK /\ Justified /\ Tracked /\ c \in wm /\ wm \in SUBSET Facts
  BY <1>1, Zenon DEF IInv, TxInv, TypeOK, Control
<1>3. CASE snapshot # NoVal /\ c \in wm /\ Valid(val[c])
  <2>1. ModifyFact(c, snapshot)
    BY <1>3, Zenon DEF RollbackUpdate
  <2>2. /\ Propagate(wm, {}, LiveOn({c}), TokensFor(c, snapshot, gen[c] + 1), Timed, just)
        /\ val' = [val EXCEPT ![c] = snapshot]
    BY <2>1, Zenon DEF ModifyFact
  <2>3. LiveOn({c}) \in SUBSET memory
    BY Zenon DEF LiveOn
  <2>4. /\ wm' \subseteq wm /\ wm \ wm' \subseteq logical
        /\ \A g \in Facts : just'[g] # NoToken => just[g] # NoToken
    BY <1>2, <2>2, <2>3, PropagateFacts, Zenon
  <2>5. val'[c] = snapshot /\ \A g \in Facts \ {c} : val'[g] = val[g]
    BY <1>2, <2>2, ZenonT(30) DEF TypeOK
  <2>6. Justified'
    BY <1>1, <1>2, <2>4, ZenonT(30) DEF Justified
  <2>7. Tracked'
    BY <1>1, <1>2, <1>3, <2>4, <2>5, ZenonT(30) DEF Tracked, InTransaction
  <2> QED BY <2>6, <2>7, Zenon DEF TxInv
<1>4. CASE ~(snapshot # NoVal /\ c \in wm /\ Valid(val[c]))
  <2>1. rollback_ok' = (snapshot = NoVal \/ c \notin wm) /\ UNCHANGED <<wm, val, just>>
    BY <1>4, Zenon DEF RollbackUpdate
  <2>2. Tracked'
    BY <1>1, <1>2, <2>1, Zenon DEF Tracked, InTransaction
  <2> QED BY <1>1, <1>2, <2>1, <2>2, Zenon DEF TxInv, Justified
<1> QED BY <1>3, <1>4, Zenon

\* Rollback of an insertion: the fact was not there at the beginning.
LEMMA RollbackInsertTx ==
    ASSUME IInv, TxInv, NEW f \in Facts, RollbackInsert(f)
    PROVE  TxInv'
<1>1. /\ pc = "rollback_inserts" /\ pc' = "rollback_inserts" /\ f \in inserted
      /\ inserted' = inserted \ {f}
      /\ UNCHANGED <<fresh, logical, current, saved, retracted, rollback_ok>>
  BY Zenon DEF RollbackInsert, loop
<1>2. TypeOK /\ Justified /\ Tracked
  BY Zenon DEF IInv, TxInv
<1>3. /\ Justified' /\ UNCHANGED val
      /\ wm' \subseteq wm \ {f} /\ (wm \ {f}) \ wm' \subseteq logical
  <2>1. CASE f \in wm
    BY <1>1, <1>2, <2>1, RetractNowFacts, Zenon DEF RollbackInsert
  <2>2. CASE f \notin wm
    BY <1>1, <1>2, <2>2, Zenon DEF RollbackInsert, Justified
  <2> QED BY <2>1, <2>2, Zenon
<1>4. f \notin saved[1]
  BY <1>1, <1>2, ZenonT(30) DEF Tracked, InTransaction
<1>5. wm' \ logical = (saved[1] \cup inserted') \ logical
  BY <1>1, <1>2, <1>3, <1>4, ZenonT(30) DEF Tracked
<1>6. Tracked'
  BY <1>1, <1>2, <1>3, <1>5, Zenon DEF Tracked, InTransaction
<1> QED BY <1>3, <1>6, Zenon DEF TxInv

\* Rollback of a retraction: what it adds again is a logical fact, with the field
\* it still has.
LEMMA RollbackRetractTx ==
    ASSUME IInv, TxInv, NEW f \in Facts, RollbackRetract(f)
    PROVE  TxInv'
<1>1. /\ pc = "rollback_inserts" /\ pc' = "rollback_inserts" /\ f \in retracted
      /\ inserted = {} /\ retracted' = retracted \ {f}
      /\ UNCHANGED <<inserted, fresh, logical, current, saved>>
  BY Zenon DEF RollbackRetract, loop
<1>2. TypeOK /\ Justified /\ Tracked
  BY Zenon DEF IInv, TxInv
<1>3. /\ Justified' /\ UNCHANGED val /\ (rollback_ok' => rollback_ok)
      /\ wm' = wm \/ (wm' = wm \cup {f} /\ f \notin wm)
  <2>1. CASE f \notin wm /\ Valid(val[f])
    <3>1. AssertFact(f, val[f], just) /\ UNCHANGED rollback_ok
      BY <2>1, Zenon DEF RollbackRetract
    <3>2. /\ Propagate(wm \cup {f}, {}, {}, TokensFor(f, val[f], gen[f] + 1), Timed, just)
          /\ val' = [val EXCEPT ![f] = val[f]]
      BY <3>1, Zenon DEF AssertFact
    <3>3. wm \cup {f} \in SUBSET Facts /\ {} \in SUBSET memory
      BY <1>2, Zenon DEF TypeOK
    <3>4. wm' = wm \cup {f} /\ \A g \in Facts : just'[g] # NoToken => just[g] # NoToken
      BY <1>2, <3>2, <3>3, PropagateFacts, Zenon
    <3>5. val' = val
      BY <1>2, <3>2, Zenon DEF TypeOK
    <3> QED BY <1>1, <1>2, <2>1, <3>1, <3>4, <3>5, ZenonT(30) DEF Justified
  <2>2. CASE f \in wm
    BY <1>1, <1>2, <2>2, ZenonT(30) DEF RollbackRetract, Justified
  <2>3. CASE f \notin wm /\ ~Valid(val[f])
    BY <1>1, <1>2, <2>3, ZenonT(30) DEF RollbackRetract, Justified
  <2> QED BY <2>1, <2>2, <2>3, Zenon
<1>4. f \notin wm => f \in logical
  BY <1>1, <1>2, ZenonT(30) DEF Tracked, InTransaction
<1>5. wm' \ logical = (saved[1] \cup inserted) \ logical
  BY <1>1, <1>2, <1>3, <1>4, ZenonT(30) DEF Tracked
<1>6. Tracked'
  BY <1>1, <1>2, <1>3, <1>5, Zenon DEF Tracked, InTransaction
<1> QED BY <1>3, <1>6, Zenon DEF TxInv

\* Every step keeps track of the transaction.
LEMMA NextTx == IInv /\ TxInv /\ [Next]_vars => TxInv'
<1> SUFFICES ASSUME IInv, TxInv, [Next]_vars PROVE TxInv'
  BY Zenon
<1>1. CASE Call
  BY <1>1, CallTx, Zenon
<1>2. CASE Reset
  BY <1>2, Zenon DEF Reset, TxInv, Justified, Tracked, InTransaction
<1>3. CASE Running
  BY <1>3, OutsideTx, FireActivationTx, InsertTx, UpdateTx, OtherRhsTx, CommitRetractTx,
     RollbackUpdateTx, RollbackInsertTx, RollbackRetractTx, Zenon DEF Running
<1>4. CASE UNCHANGED vars
  <2>1. UNCHANGED <<wm, val, fresh, just, logical, pc, current, inserted, retracted, snapshot,
                    rollback_ok, saved>>
    BY <1>4, Zenon DEF vars, store, tms, loop, tx
  <2> QED BY <2>1, Zenon DEF TxInv, Justified, Tracked, InTransaction
<1> QED BY <1>1, <1>2, <1>3, <1>4, Zenon DEF Next, Run

\* For any facts, rules and RHS of any length: a rollback that reports success
\* leaves the facts that are not logical as they were when the RHS began, with the
\* fields they had, whatever the RHS inserted, updated and retracted and in
\* whatever order the three loops of end_rhs_transaction undo it.
THEOREM RollbackRestoresFacts == Spec => RollbackRestores
<1>1. Init => TxInv
  BY ZenonT(30) DEF Init, TxInv, Justified, Tracked, InTransaction
<1>2. Spec => []IInv
  BY InitIInv, NextIInv, PTL DEF Spec
<1>3. Spec => []TxInv
  BY <1>1, <1>2, NextTx, PTL DEF Spec
<1>4. TxInv /\ [Next]_vars =>
        [RollbackEnd /\ rollback_ok =>
           /\ wm' \ logical = saved[1] \ logical
           /\ \A f \in wm' : f \in saved[1] => val[f] = saved[2][f]]_vars
  <2> SUFFICES ASSUME TxInv, RollbackEnd, rollback_ok
               PROVE  /\ wm' \ logical = saved[1] \ logical
                      /\ \A f \in wm' : f \in saved[1] => val[f] = saved[2][f]
    BY Zenon
  <2>1. pc = "rollback_inserts" /\ inserted = {} /\ wm' = wm
    BY Zenon DEF RollbackEnd
  <2> QED BY <2>1, Zenon DEF TxInv, Tracked, InTransaction
<1> QED BY <1>3, <1>4, PTL DEF Spec, RollbackRestores

\* The fact of the running token has had no new token since the activation was made.
Untouched == current.gen = gen[current.fact]

\* What a transaction has done as long as that is so: it has deferred no retraction
\* but that of the fact itself, and working memory has exactly the facts it had and
\* the inserted ones.  No fact is ever justified by a match on an inserted one.
Traced ==
    InTransaction =>
        /\ current \in Token /\ current.gen <= gen[current.fact]
        /\ \A g \in Facts : just[g] # NoToken => just[g].fact \notin inserted
        /\ Untouched => retracted \subseteq {current.fact} /\ wm = saved[1] \cup inserted

\* Tokens that justify nothing take no fact with them.
LEMMA NothingJustified ==
    ASSUME NEW W, NEW T, \A g \in W : just[g] \notin T
    PROVE  Doomed(W, T) = {}
<1>1. LiveOn({}) = {}
  BY Zenon DEF LiveOn
<1>2. {} \in SUBSET W /\ \A g \in W : just[g] \in T \cup LiveOn({}) => g \in {}
  BY <1>1, Zenon
<1> QED BY <1>2, Zenon DEF Doomed

\* The count of the tokens of a fact only goes up.
LEMMA CountGrows ==
    ASSUME IInv, [Next]_vars, ~Reset, NEW f \in Facts
    PROVE  gen[f] \in Nat /\ gen'[f] \in Nat /\ gen'[f] >= gen[f]
<1>1. gen[f] \in Nat
  BY Zenon DEF IInv, TypeOK
<1>2. CASE SomeChange
  BY <1>1, <1>2, Zenon DEF SomeChange, Changed
<1>3. CASE Quiet
  <2>1. gen' = gen
    BY <1>3, Zenon DEF Quiet
  <2>2. PICK x \in Nat : x = gen[f]
    BY <1>1, Zenon
  <2>3. x >= x
    BY SMT
  <2> QED BY <1>1, <2>1, <2>2, <2>3, Zenon
<1> QED BY <1>2, <1>3, StepCases, Zenon

\* So what is untouched after a step was so before.
LEMMA UntouchedBefore ==
    ASSUME IInv, [Next]_vars, ~Reset, current \in Token, current' = current,
           current.gen <= gen[current.fact]
    PROVE  /\ current'.gen <= gen'[current'.fact]
           /\ Untouched' => Untouched /\ gen'[current.fact] = gen[current.fact]
<1>1. current.gen \in Nat /\ current.fact \in Facts
  BY Zenon DEF Token
<1>2. PICK n \in Nat, x \in Nat, y \in Nat :
        n = current.gen /\ x = gen[current.fact] /\ y = gen'[current.fact]
  BY <1>1, CountGrows, Zenon
<1>3. n <= x /\ y >= x
  BY <1>1, <1>2, CountGrows, Zenon
<1>4. n <= y /\ (n = y => n = x /\ y = x)
  BY <1>3, SMT
<1> QED BY <1>2, <1>4, Zenon DEF Untouched

\* A fact that is modified is touched.
LEMMA ModifyTouches ==
    ASSUME IInv, NEW f \in Facts, NEW v, ModifyFact(f, v)
    PROVE  gen'[f] # gen[f]
<1>1. gen[f] \in Nat /\ gen'[f] = gen[f] + 1
  BY ZenonT(30) DEF ModifyFact, IInv, TypeOK
<1>2. PICK x \in Nat : x = gen[f]
  BY <1>1, Zenon
<1>3. x + 1 # x
  BY SMT
<1> QED BY <1>1, <1>2, <1>3, Zenon

\* A justification is an old one, or comes with a new logical fact.
LEMMA AssertJustifies ==
    ASSUME NEW f, NEW v, NEW J, AssertFact(f, v, J), NEW g \in Facts, just'[g] # NoToken
    PROVE  just'[g] = J[g]
BY ZenonT(30) DEF AssertFact, Propagate

LEMMA RetractJustifies ==
    ASSUME NEW f, RetractFactNow(f), NEW g \in Facts, just'[g] # NoToken
    PROVE  just'[g] = just[g]
BY ZenonT(30) DEF RetractFactNow, Propagate

LEMMA ModifyJustifies ==
    ASSUME NEW f, NEW v, ModifyFact(f, v), NEW g \in Facts, just'[g] # NoToken
    PROVE  just'[g] = just[g]
BY ZenonT(30) DEF ModifyFact, Propagate

\* begin_rhs_transaction.
LEMMA FireActivationTraced ==
    ASSUME IInv, Accounted, FireActivation
    PROVE  Traced'
<1>1. /\ UNCHANGED <<wm, gen>> /\ saved'[1] = wm
      /\ inserted' = {} /\ retracted' = {}
  BY ZenonT(30) DEF FireActivation, store
<1>2. current' \in Elems(batch) /\ current' \in Token
  BY FiringHead, Zenon
<1>3. current'.gen <= gen'[current'.fact]
  BY <1>1, <1>2, Zenon DEF Accounted
<1> QED BY <1>1, <1>2, <1>3, Zenon DEF Traced

\* The steps of the RHS.
LEMMA RhsTraced ==
    ASSUME IInv, TxInv, TxInv', Traced, [Next]_vars,
           \/ \E f \in Facts, v \in Vals : RhsInsert(f, v) \/ RhsInsertLogical(f, v)
           \/ \E v \in Vals : RhsUpdate(v) \/ RhsUpdateThrows(v)
           \/ RhsRetract \/ RhsHalt \/ RhsThrow
           \/ \E g \in Foci : RhsSetFocus(g)
    PROVE  Traced'
<1>1. /\ pc = "rhs" /\ pc' \in {"rhs", "rollback_updates"}
      /\ UNCHANGED <<current, saved>>
  BY ZenonT(60) DEF RhsInsert, RhsInsertLogical, RhsUpdate, RhsUpdateThrows, RhsRetract, RhsHalt,
     RhsThrow, RhsSetFocus, RhsStep, loop, tx
<1>2. /\ current \in Token /\ current.fact \in Facts /\ current.gen <= gen[current.fact]
      /\ \A g \in Facts : just[g] # NoToken => just[g].fact \notin inserted
      /\ Untouched => retracted \subseteq {current.fact}
  BY <1>1, Zenon DEF Traced, InTransaction, Token
<1>3. ~Reset
  BY <1>1, Zenon DEF Reset
<1>4. /\ current'.gen <= gen'[current'.fact]
      /\ Untouched' => Untouched /\ gen'[current.fact] = gen[current.fact]
  BY <1>1, <1>2, <1>3, UntouchedBefore, Zenon
<1>5. wm' = saved'[1] \cup inserted'
  BY <1>1, Zenon DEF TxInv, Tracked
<1>6. SUFFICES /\ \A g \in Facts : just'[g] # NoToken => just'[g].fact \notin inserted'
               /\ Untouched' => retracted' \subseteq {current.fact}
  BY <1>1, <1>2, <1>4, <1>5, Zenon DEF Traced
<1>7. CASE \E f \in Facts, v \in Vals : RhsInsert(f, v) \/ RhsInsertLogical(f, v)
  <2>1. PICK f \in Facts, v \in Vals : RhsInsert(f, v) \/ RhsInsertLogical(f, v)
    BY <1>7, Zenon
  <2>2. f \in fresh /\ inserted' = inserted \cup {f} /\ UNCHANGED retracted
    BY <2>1, Zenon DEF RhsInsert, RhsInsertLogical, NewFact
  <2>3. f # current.fact /\ current.fact \notin inserted
    BY <1>1, <2>2, RhsTracked, ZenonT(30)
  <2>4. \A g \in Facts : just'[g] # NoToken => just'[g] = just[g] \/ just'[g] = current
    <3>1. CASE RhsInsert(f, v)
      <4>1. AssertFact(f, v, just)
        BY <3>1, Zenon DEF RhsInsert
      <4> QED BY <4>1, AssertJustifies, Zenon
    <3>2. CASE RhsInsertLogical(f, v)
      <4> DEFINE J == [just EXCEPT ![f] = current]
      <4>1. AssertFact(f, v, J)
        BY <3>2, Zenon DEF RhsInsertLogical
      <4>2. \A g \in Facts : J[g] = just[g] \/ J[g] = current
        BY Zenon DEF IInv, TypeOK
      <4> HIDE DEF J
      <4> QED BY <4>1, <4>2, AssertJustifies, Zenon
    <3> QED BY <2>1, <3>1, <3>2, Zenon
  <2>5. \A g \in Facts : just[g] # NoToken => just[g].fact # f
    BY <2>2, Zenon DEF IInv, Grounded
  <2> QED BY <1>2, <1>4, <2>2, <2>3, <2>4, <2>5, ZenonT(30)
<1>8. CASE \E v \in Vals : RhsUpdate(v)
  <2>1. PICK v \in Vals : RhsUpdate(v)
    BY <1>8, Zenon
  <2>2. ModifyFact(current.fact, v) /\ UNCHANGED inserted
    BY <2>1, Zenon DEF RhsUpdate
  <2>3. ~Untouched'
    BY <1>2, <1>4, <2>2, ModifyTouches, Zenon
  <2>4. \A g \in Facts : just'[g] # NoToken => just'[g] = just[g]
    BY <2>2, ModifyJustifies, Zenon
  <2> QED BY <1>2, <2>2, <2>3, <2>4, Zenon
<1>9. CASE (\E v \in Vals : RhsUpdateThrows(v)) \/ RhsRetract \/ RhsHalt \/ RhsThrow
           \/ \E g \in Foci : RhsSetFocus(g)
  <2>1. UNCHANGED <<just, inserted>> /\ retracted' \subseteq retracted \cup {current.fact}
    BY <1>9, ZenonT(30) DEF RhsUpdateThrows, RhsRetract, RhsHalt, RhsThrow, RhsSetFocus, tms, tx
  <2> QED BY <1>2, <1>4, <2>1, Zenon
<1> QED BY <1>7, <1>8, <1>9, Zenon

\* The steps of the rollback.
LEMMA RollbackTraced ==
    ASSUME IInv, TxInv, Traced, [Next]_vars,
           \/ RollbackUpdate
           \/ \E f \in Facts : RollbackInsert(f) \/ RollbackRetract(f)
    PROVE  Traced'
<1>1. InTransaction /\ pc' = "rollback_inserts" /\ UNCHANGED <<current, saved>>
  BY Zenon DEF RollbackUpdate, RollbackInsert, RollbackRetract, InTransaction, loop
<1>2. /\ current \in Token /\ current.fact \in Facts /\ current.gen <= gen[current.fact]
      /\ \A g \in Facts : just[g] # NoToken => just[g].fact \notin inserted
      /\ Untouched => retracted \subseteq {current.fact} /\ wm = saved[1] \cup inserted
  BY <1>1, Zenon DEF Traced, Token
<1>3. saved[1] \cap inserted = {} /\ current.fact \in saved[1]
  BY <1>1, Zenon DEF TxInv, Tracked
<1>4. ~Reset
  BY <1>1, Zenon DEF Reset, InTransaction
<1>5. /\ current'.gen <= gen'[current'.fact]
      /\ Untouched' => Untouched /\ gen'[current.fact] = gen[current.fact]
  BY <1>1, <1>2, <1>4, UntouchedBefore, Zenon
<1>6. SUFFICES /\ inserted' \subseteq inserted /\ retracted' \subseteq retracted
               /\ \A g \in Facts : just'[g] # NoToken => just'[g] = just[g]
               /\ Untouched' => wm' = saved[1] \cup inserted'
  BY <1>1, <1>2, <1>5, Zenon DEF Traced
<1>7. CASE RollbackUpdate
  <2>1. UNCHANGED <<inserted, retracted>>
    BY <1>7, Zenon DEF RollbackUpdate
  <2>2. CASE ModifyFact(current.fact, snapshot)
    <3>1. ~Untouched'
      BY <1>2, <1>5, <2>2, ModifyTouches, Zenon
    <3>2. \A g \in Facts : just'[g] # NoToken => just'[g] = just[g]
      BY <2>2, ModifyJustifies, Zenon
    <3> QED BY <2>1, <3>1, <3>2, Zenon
  <2>3. CASE UNCHANGED <<wm, just>>
    BY <1>2, <1>5, <2>1, <2>3, Zenon
  <2> QED BY <1>7, <2>2, <2>3, Zenon DEF RollbackUpdate
<1>8. ASSUME NEW f \in Facts, RollbackInsert(f)
      PROVE  /\ inserted' \subseteq inserted /\ retracted' \subseteq retracted
             /\ \A g \in Facts : just'[g] # NoToken => just'[g] = just[g]
             /\ Untouched' => wm' = saved[1] \cup inserted'
  <2>1. f \in inserted /\ inserted' = inserted \ {f} /\ UNCHANGED retracted
    BY <1>8, Zenon DEF RollbackInsert
  <2>2. f \notin saved[1]
    BY <1>3, <2>1, Zenon
  <2>3. CASE f \in wm
    <3>1. RetractFactNow(f) /\ pc # "rhs"
      BY <1>8, <2>3, Zenon DEF RollbackInsert
    <3>2. \A g \in wm \ {f} : just[g] \notin LiveOn({f})
      <4> SUFFICES ASSUME NEW g \in wm, just[g] \in LiveOn({f}) PROVE FALSE
        BY Zenon
      <4>1. g \in Facts /\ just[g] \in Token /\ just[g].fact = f
        BY Zenon DEF IInv, TypeOK, LiveOn
      <4>2. just[g] # NoToken
        BY <4>1, SessionAssumption, Zenon DEF Token
      <4> QED BY <1>2, <2>1, <4>1, <4>2, Zenon
    <3>3. Doomed(wm \ {f}, LiveOn({f})) = {}
      BY <3>2, NothingJustified, Zenon
    <3>4. wm' = wm \ {f}
      BY <3>1, <3>3, Zenon DEF RetractFactNow, Propagate
    <3>5. \A g \in Facts : just'[g] # NoToken => just'[g] = just[g]
      BY <3>1, RetractJustifies, Zenon
    <3>6. Untouched' => wm' = saved[1] \cup inserted'
      BY <1>2, <1>5, <2>1, <2>2, <3>4, Zenon
    <3> QED BY <2>1, <3>5, <3>6, Zenon
  <2>4. CASE f \notin wm
    <3>1. UNCHANGED <<wm, just>>
      BY <1>8, <2>4, Zenon DEF RollbackInsert
    <3> QED BY <1>2, <1>5, <2>1, <2>4, <3>1, Zenon
  <2> QED BY <2>3, <2>4, Zenon
<1>9. ASSUME NEW f \in Facts, RollbackRetract(f)
      PROVE  /\ inserted' \subseteq inserted /\ retracted' \subseteq retracted
             /\ \A g \in Facts : just'[g] # NoToken => just'[g] = just[g]
             /\ Untouched' => wm' = saved[1] \cup inserted'
  <2>1. f \in retracted /\ UNCHANGED inserted /\ retracted' = retracted \ {f}
    BY <1>9, Zenon DEF RollbackRetract
  <2>2. Untouched' => f \in wm
    BY <1>2, <1>3, <1>5, <2>1, Zenon
  <2>3. f \in wm => UNCHANGED wm
    BY <1>9, Zenon DEF RollbackRetract
  <2>4. \A g \in Facts : just'[g] # NoToken => just'[g] = just[g]
    <3>1. CASE AssertFact(f, val[f], just)
      BY <3>1, AssertJustifies, Zenon
    <3>2. CASE UNCHANGED just
      BY <3>2, Zenon
    <3> QED BY <1>9, <3>1, <3>2, ZenonT(30) DEF RollbackRetract
  <2> QED BY <1>2, <1>5, <2>1, <2>2, <2>3, <2>4, Zenon
<1> QED BY <1>7, <1>8, <1>9, Zenon

\* Every step keeps it.
LEMMA NextTraced ==
    IInv /\ Accounted /\ TxInv /\ TxInv' /\ Traced /\ [Next]_vars => Traced'
<1> SUFFICES ASSUME IInv, Accounted, TxInv, TxInv', Traced, [Next]_vars PROVE Traced'
  BY Zenon
<1>1. CASE Call \/ Reset
  <2>1. pc' \in {"idle", "loop"}
    BY <1>1, ZenonT(30) DEF Call, Reset, AddFact, UpdateFact, AddFacts, RetractFact, RetractFacts,
       SetFocus, FireBegin, Idle
  <2> QED BY <2>1, Zenon DEF Traced, InTransaction
<1>2. CASE \/ LoopHead \/ FireEnd \/ BatchDone \/ Requeue \/ SkipStale \/ BeforeListenerThrows
           \/ RhsCommit \/ CommitEnd \/ RollbackEnd \/ \E f \in Facts : CommitRetract(f)
  <2>1. pc' \in {"idle", "loop", "end", "batch", "commit"}
    BY <1>2, ZenonT(30) DEF LoopHead, FireEnd, BatchDone, Requeue, SkipStale, BeforeListenerThrows,
       RhsCommit, CommitEnd, RollbackEnd, CommitRetract, Escape
  <2> QED BY <2>1, Zenon DEF Traced, InTransaction
<1>3. CASE UNCHANGED vars
  <2>1. UNCHANGED <<wm, gen, just, pc, current, inserted, retracted, saved>>
    BY <1>3, Zenon DEF vars, store, tms, loop, tx
  <2> QED BY <2>1, Zenon DEF Traced, InTransaction, Untouched
<1> QED BY <1>1, <1>2, <1>3, FireActivationTraced, RhsTraced, RollbackTraced, Zenon DEF Next, Run, Running

\* For any facts, rules and RHS of any length: a rollback that reports success, of
\* an RHS on a fact nothing has updated since its activation was made, leaves
\* working memory exactly as it was when the RHS began, logical facts included: no
\* inserted fact outlives it and none is lost to a cascade (end_rhs_transaction).
THEOREM RollbackWithoutUpdate ==
    Spec => [][RollbackEnd /\ rollback_ok /\ Untouched =>
                 wm' = saved[1] /\ \A f \in wm' : val[f] = saved[2][f]]_vars
<1>1. Init => TxInv
  BY ZenonT(30) DEF Init, TxInv, Justified, Tracked, InTransaction
<1>2. Init => Accounted /\ Traced
  BY NoElems, Zenon DEF Init, Accounted, EveryMatchAccounted, Traced, InTransaction
<1>3. Spec => []IInv
  BY InitIInv, NextIInv, PTL DEF Spec
<1>4. Spec => [](TxInv /\ Accounted)
  BY <1>1, <1>2, <1>3, NextTx, NextAccounted, PTL DEF Spec
<1>5. Spec => []Traced
  BY <1>2, <1>3, <1>4, NextTraced, PTL DEF Spec
<1>6. ASSUME TxInv, Traced, RollbackEnd, rollback_ok, Untouched
      PROVE  wm' = saved[1] /\ \A f \in wm' : val[f] = saved[2][f]
  <2>1. pc = "rollback_inserts" /\ inserted = {} /\ wm' = wm
    BY <1>6, Zenon DEF RollbackEnd
  <2>2. wm = saved[1] \cup inserted
    BY <1>6, <2>1, Zenon DEF Traced, InTransaction
  <2>3. wm' = saved[1]
    BY <2>1, <2>2, Zenon
  <2> QED BY <1>6, <2>1, <2>3, Zenon DEF TxInv, Tracked, InTransaction
<1>7. TxInv /\ Traced /\ [Next]_vars =>
        [RollbackEnd /\ rollback_ok /\ Untouched =>
           wm' = saved[1] /\ \A f \in wm' : val[f] = saved[2][f]]_vars
  BY <1>6, Zenon
<1> QED BY <1>4, <1>5, <1>7, PTL DEF Spec

\* The types of the session's state, TypeOK, for any constants: no call fires more
\* rules than its limit, and nothing is tracked outside of a transaction.
THEOREM SessionTypes == Spec => []TypeOK
BY SessionIsExact, PTL
=============================================================================
