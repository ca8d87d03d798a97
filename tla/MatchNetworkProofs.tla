------------------------- MODULE MatchNetworkProofs -------------------------
(***************************************************************************)
(* Proofs about MatchNetwork and AggregateNetwork: for any facts, keys,    *)
(* patterns, number of condition nodes and sequence of calls, the not,     *)
(* exists and cross-product nodes are exact, the hashed join is complete,  *)
(* and what it has too much involves a fact whose key changed; counts and  *)
(* sums of the accumulate node and the length window are exact too.  Last, *)
(* which batches make alpha R miss a fact, and that without these the      *)
(* nodes answer for working memory itself.                                 *)
(*                                                                         *)
(* The argument is the same for every node.  Change says what one call     *)
(* does to a node, whatever the call is; a lemma per node says that a      *)
(* Change keeps the node's invariant; a lemma per call says that the call  *)
(* is a Change.                                                            *)
(***************************************************************************)
EXTENDS AggregateNetwork, FiniteSetTheorems, SequenceTheorems, WellFoundedInduction, TLAPS

Events == {"ASSERT", "MODIFY", "RETRACT", "none"}

\* From the tokens T, the right facts R and the keys K to R2 and K2: the tokens
\* `dead` go, then `born` come, then the event p comes for the facts F.  A fact
\* whose key changes is on neither side but through these, and if it was on one
\* before it is in X.
Change(T, dead, born, R, R2, F, p, K, K2, X) ==
    /\ T \subseteq Token /\ dead \subseteq T /\ born \subseteq Token
    /\ R \subseteq Facts /\ F \subseteq Facts
    /\ K \in [Facts -> KeyOpt] /\ K2 \in [Facts -> KeyOpt]
    /\ p \in Events
    /\ p = "none" => R2 = R
    /\ p = "RETRACT" => F \subseteq R /\ R2 = R \ F
    /\ p = "MODIFY" => F \subseteq R /\ R2 = R
    /\ p = "ASSERT" => F \cap R = {} /\ R2 = R \cup F
    /\ \A t \in T \ dead : K2[t[1]] = K[t[1]]
    /\ \A f \in R : f \notin F \/ p = "none" => K2[f] = K[f]
    /\ \A t \in dead : t[1] \notin X => K2[t[1]] = K[t[1]]
    /\ \A f \in R : f \notin X => K2[f] = K[f]

-----------------------------------------------------------------------------
(* The cross-product join *)

CrossOK(c, T, R, K) ==
    /\ c = [left |-> c.left, right |-> c.right, kids |-> c.kids]
    /\ c.left = T /\ c.right = R
    /\ c.kids = {x \in T \X R : OtherKey(K, x[1][1], x[2])}

\* After the left side: exact but for the facts that the right side is about.
CrossMid(c, T, R, F, p, K) ==
    /\ c = [left |-> c.left, right |-> c.right, kids |-> c.kids]
    /\ c.left = T /\ c.right = R /\ c.kids \subseteq T \X R
    /\ \A t \in T, f \in R : f \notin F \/ p = "none" =>
         (<<t, f>> \in c.kids <=> OtherKey(K, t[1], f))

\* CrossProductJoinNode::left_activate.
LEMMA CrossLeftStep ==
  ASSUME NEW c, NEW T, NEW dead, NEW born, NEW R, NEW R2, NEW F, NEW p, NEW K, NEW K2, NEW X,
         Change(T, dead, born, R, R2, F, p, K, K2, X), CrossOK(c, T, R, K)
  PROVE  CrossMid(CrossLeft(c, dead, born, K2), (T \ dead) \cup born, R, F, p, K2)
<1> DEFINE T2 == (T \ dead) \cup born
           kids == {x \in c.kids : ~(x[1] \in dead \cap c.left /\ x[2] \in c.right)}
                     \cup {x \in born \X c.right : OtherKey(K2, x[1][1], x[2])}
<1>1. kids \subseteq T2 \X R
  BY Zenon DEF CrossOK
<1>2. ASSUME NEW t \in T2, NEW f \in R, f \notin F \/ p = "none"
      PROVE  <<t, f>> \in kids <=> OtherKey(K2, t[1], f)
  <2>1. CASE t \in born
    BY <2>1, <1>2, Zenon DEF CrossOK, OtherKey, Change
  <2>2. CASE t \in T \ dead
    BY <2>2, <1>2, Zenon DEF CrossOK, OtherKey, Change
  <2> QED BY <2>1, <2>2, Zenon
<1> HIDE DEF kids
<1>3. CrossLeft(c, dead, born, K2) = [left |-> T2, right |-> R, kids |-> kids]
  BY Zenon DEF CrossLeft, CrossOK, kids
<1> QED BY <1>1, <1>2, <1>3 DEF CrossMid

\* CrossProductJoinNode::right_activate and right_activate_batch.
LEMMA CrossRightStep ==
  ASSUME NEW c, NEW T, NEW R, NEW R2, NEW F, NEW p \in Events, NEW K,
         p = "none" => R2 = R,
         p = "RETRACT" => F \subseteq R /\ R2 = R \ F,
         p = "MODIFY" => F \subseteq R /\ R2 = R,
         p = "ASSERT" => F \cap R = {} /\ R2 = R \cup F,
         CrossMid(c, T, R, F, p, K)
  PROVE  CrossOK(CrossRight(c, F, p, K), T, R2, K)
<1>1. CASE p = "none"
  BY <1>1 DEF CrossRight, CrossOK, CrossMid
<1>2. CASE p = "RETRACT"
  BY <1>2 DEF CrossRight, CrossOut, CrossOK, CrossMid
<1>3. CASE p = "ASSERT"
  BY <1>3 DEF CrossRight, CrossIn, CrossOK, CrossMid
<1>4. CASE p = "MODIFY"
  BY <1>4 DEF CrossRight, CrossIn, CrossOut, CrossOK, CrossMid
<1> QED BY <1>1, <1>2, <1>3, <1>4, Zenon DEF Events

-----------------------------------------------------------------------------
(* The not and exists nodes *)

CondRecord(c) ==
    c = [left |-> c.left, right |-> c.right, matched |-> c.matched, out |-> c.out]

\* left_keys is up to date; a token has matches where the index would look for them.
CondLeftOK(n, c, T, K) ==
    /\ CondRecord(c)
    /\ c.left = {<<HashKey(n, K, t[1]), t>> : t \in T}
    /\ c.out = {t \in T : Passes(n, c.matched, t)}

CondOK(n, c, T, R, K) ==
    /\ CondLeftOK(n, c, T, K)
    /\ c.right = [f \in Facts |-> IF f \in R THEN HashKey(n, K, f) ELSE Out]
    /\ c.matched = {m \in T \X R : Joins(n, K, m[1][1], m[2])}

\* Two keys under which the index finds each other's entries.
Meets(k, l) == k = Nil \/ l = Nil \/ k = l

\* After the left side: exact but for the facts that the right side is about, whose
\* matches can be found under the key that they were stored with.
CondMid(n, c, T, R, F, p, K) ==
    /\ CondLeftOK(n, c, T, K)
    /\ c.right \in [Facts -> KeyOpt \cup {Out}]
    /\ \A f \in Facts : f \in R <=> c.right[f] # Out
    /\ \A f \in R : f \notin F \/ p = "none" => c.right[f] = HashKey(n, K, f)
    /\ c.matched \subseteq T \X R
    /\ \A t \in T, f \in R : f \notin F \/ p = "none" =>
         (<<t, f>> \in c.matched <=> Joins(n, K, t[1], f))
    /\ \A t \in T, f \in R : <<t, f>> \in c.matched => Meets(HashKey(n, K, t[1]), c.right[f])

\* What joins meets: the index of a node loses no match (get_hash_key).
LEMMA JoinsMeets ==
  ASSUME NEW n, NEW K, NEW a, NEW b, Joins(n, K, a, b)
  PROVE  Meets(HashKey(n, K, a), HashKey(n, K, b))
BY Zenon DEF Joins, Meets, HashKey, SameKey

\* A look-up in the left index finds the tokens whose key meets the key.
LEMMA LeftCandidatesMeet ==
  ASSUME NEW n, NEW c, NEW T, NEW K, NEW k, NEW t \in T, CondLeftOK(n, c, T, K)
  PROVE  t \in LeftCandidates(c, k) <=> Meets(HashKey(n, K, t[1]), k)
<1>1. ASSUME t \in LeftCandidates(c, k) PROVE Meets(HashKey(n, K, t[1]), k)
  <2>1. PICK e \in c.left : e[2] = t /\ (k = Nil \/ e[1] = k \/ e[1] = Nil)
    BY <1>1, Zenon DEF LeftCandidates
  <2>2. PICK u \in T : e = <<HashKey(n, K, u[1]), u>>
    BY Zenon DEF CondLeftOK
  <2> QED BY <2>1, <2>2, Zenon DEF Meets
<1>2. ASSUME Meets(HashKey(n, K, t[1]), k) PROVE t \in LeftCandidates(c, k)
  <2> DEFINE e == <<HashKey(n, K, t[1]), t>>
  <2>1. e \in c.left
    BY Zenon DEF CondLeftOK
  <2>2. k = Nil \/ e[1] = k \/ e[1] = Nil
    BY <1>2, Zenon DEF Meets
  <2>3. e[2] = t
    BY Zenon
  <2> HIDE DEF e
  <2> QED BY <2>1, <2>2, <2>3, Zenon DEF LeftCandidates
<1> QED BY <1>1, <1>2, Zenon

\* BetaConditionNode::left_activate.
LEMMA CondLeftStep ==
  ASSUME NEW n, NEW c, NEW T, NEW dead, NEW born, NEW R, NEW R2, NEW F, NEW p, NEW K, NEW K2,
         NEW X, Change(T, dead, born, R, R2, F, p, K, K2, X), born \cap T = {},
         CondOK(n, c, T, R, K)
  PROVE  CondMid(n, CondLeft(n, c, dead, born, K2), (T \ dead) \cup born, R, F, p, K2)
<1> DEFINE T2 == (T \ dead) \cup born
           new == {m \in born \X Facts : /\ m[2] \in RightCandidates(c, HashKey(n, K2, m[1][1]))
                                         /\ Joins(n, K2, m[1][1], m[2])}
           left == {e \in c.left : e[2] \notin dead} \cup {<<HashKey(n, K2, t[1]), t>> : t \in born}
           matched == {m \in c.matched : m[1] \notin dead} \cup new
           out == (c.out \ dead) \cup {t \in born : Passes(n, new, t)}
<1>1. CondLeft(n, c, dead, born, K2)
        = [left |-> left, right |-> c.right, matched |-> matched, out |-> out]
  BY Zenon DEF CondLeft
<1>2. /\ c.right \in [Facts -> KeyOpt \cup {Out}]
      /\ \A f \in Facts : f \in R <=> c.right[f] # Out
      /\ \A f \in R : c.right[f] = HashKey(n, K, f)
  <2>1. \A f \in R : f \in Facts /\ HashKey(n, K, f) \in KeyOpt
    BY Zenon DEF HashKey, Change, KeyOpt
  <2>2. Out \notin KeyOpt
    BY NetworkAssumption, Zenon DEF KeyOpt
  <2>3. c.right = [f \in Facts |-> IF f \in R THEN HashKey(n, K, f) ELSE Out]
    BY Zenon DEF CondOK
  <2> QED BY <2>1, <2>2, <2>3, Zenon
<1>3. left = {<<HashKey(n, K2, t[1]), t>> : t \in T2}
  <2>1. \A t \in T \ dead : HashKey(n, K2, t[1]) = HashKey(n, K, t[1])
    BY Zenon DEF HashKey, Change
  <2> QED BY <2>1 DEF CondOK, CondLeftOK
<1>4. \A t \in born, f \in Facts :
        <<t, f>> \in new <=> /\ f \in R /\ Meets(HashKey(n, K2, t[1]), c.right[f])
                           /\ Joins(n, K2, t[1], f)
  BY <1>2, Zenon DEF RightCandidates, Meets, Change
<1>5. \A t \in T \ dead, f \in R :
        <<t, f>> \in c.matched <=> Joins(n, K, t[1], f)
  BY Zenon DEF CondOK
<1>6. \A t \in T, f \in R : <<t, f>> \notin new
  BY Zenon DEF Change
<1>7. matched \subseteq T2 \X R
  BY <1>4, Zenon DEF CondOK
<1>8. ASSUME NEW t \in T2, NEW f \in R, f \notin F \/ p = "none"
      PROVE  <<t, f>> \in matched <=> Joins(n, K2, t[1], f)
  <2>0. K2[f] = K[f] /\ f \in Facts
    BY <1>8, Zenon DEF Change
  <2>1. CASE t \in born
    <3>1. <<t, f>> \in matched <=> <<t, f>> \in new
      BY <2>1, Zenon DEF CondOK
    <3>2. HashKey(n, K2, f) = c.right[f]
      BY <1>2, <2>0, Zenon DEF HashKey
    <3> QED BY <3>1, <3>2, <1>4, <2>0, <2>1, JoinsMeets
  <2>2. CASE t \in T \ dead
    <3>1. <<t, f>> \in matched <=> <<t, f>> \in c.matched
      BY <2>2, <1>6, Zenon
    <3>2. K2[t[1]] = K[t[1]]
      BY <2>2, Zenon DEF Change
    <3>3. Joins(n, K, t[1], f) <=> Joins(n, K2, t[1], f)
      BY <3>2, <2>0, Zenon DEF Joins, SameKey, OtherKey
    <3> QED BY <3>1, <3>3, <1>5, <2>2, Zenon
  <2> QED BY <2>1, <2>2, Zenon
<1>9. ASSUME NEW t \in T2, NEW f \in R, <<t, f>> \in matched
      PROVE  Meets(HashKey(n, K2, t[1]), c.right[f])
  <2>1. CASE t \in born
    <3>1. <<t, f>> \in new
      BY <2>1, <1>9, Zenon DEF CondOK
    <3> QED BY <3>1, <1>4, <2>1, Zenon DEF Change
  <2>2. CASE t \in T \ dead
    <3>1. Joins(n, K, t[1], f)
      BY <2>2, <1>9, <1>5, <1>6, Zenon
    <3>2. HashKey(n, K2, t[1]) = HashKey(n, K, t[1])
      BY <2>2, Zenon DEF HashKey, Change
    <3> QED BY <3>1, <3>2, <1>2, JoinsMeets
  <2> QED BY <2>1, <2>2, Zenon
<1>10. out = {t \in T2 : Passes(n, matched, t)}
  <2>1. \A t \in born : Passes(n, new, t) <=> Passes(n, matched, t)
    BY ZenonT(30) DEF Passes, CondOK
  <2>2. \A t \in T \ dead : Passes(n, c.matched, t) <=> Passes(n, matched, t)
    BY Zenon DEF Passes
  <2>3. c.out = {t \in T : Passes(n, c.matched, t)}
    BY Zenon DEF CondOK, CondLeftOK
  <2> QED BY <2>1, <2>2, <2>3, Zenon
<1> HIDE DEF left, matched, out
<1> DEFINE d == CondLeft(n, c, dead, born, K2)
<1>11. CondRecord(d) /\ d.left = left /\ d.right = c.right /\ d.matched = matched /\ d.out = out
  BY <1>1 DEF CondRecord
<1> HIDE DEF d
<1>12. CondLeftOK(n, d, T2, K2)
  BY <1>11, <1>3, <1>10, Zenon DEF CondLeftOK
<1>13. \A f \in R : f \notin F \/ p = "none" => d.right[f] = HashKey(n, K2, f)
  BY <1>2, <1>11, Zenon DEF Change, HashKey
<1>14. CondMid(n, d, T2, R, F, p, K2)
  BY <1>2, <1>7, <1>8, <1>9, <1>11, <1>12, <1>13, Zenon DEF CondMid
<1> QED BY <1>14, Zenon DEF d

\* BetaConditionNode::right_activate and right_activate_batch.
LEMMA CondRightStep ==
  ASSUME NEW n, NEW c, NEW T, NEW R, NEW R2, NEW F, NEW p \in Events, NEW K,
         R \subseteq Facts, F \subseteq Facts,
         p = "none" => R2 = R,
         p = "RETRACT" => F \subseteq R /\ R2 = R \ F,
         p = "MODIFY" => F \subseteq R /\ R2 = R,
         p = "ASSERT" => F \cap R = {} /\ R2 = R \cup F,
         CondMid(n, c, T, R, F, p, K)
  PROVE  CondOK(n, CondRight(n, c, F, p, K), T, R2, K)
<1> DEFINE stays == {m \in c.matched : ~(m[2] \in F /\ m[1] \in OldCandidates(n, c, m[2], K))}
           new == {m \in {e[2] : e \in c.left} \X F :
                       /\ m[1] \in LeftCandidates(c, HashKey(n, K, m[2]))
                       /\ Joins(n, K, m[1][1], m[2])}
           matched == IF p = "RETRACT" THEN stays ELSE stays \cup new
           right == [f \in Facts |-> IF f \notin F THEN c.right[f]
                                     ELSE IF p = "RETRACT" THEN Out ELSE HashKey(n, K, f)]
           Rises(t) == ~Passes(n, c.matched, t) /\ Passes(n, matched, t)
           Falls(t) == Passes(n, c.matched, t) /\ ~Passes(n, matched, t)
           out == {t \in c.out : ~Falls(t)} \cup {t \in {e[2] : e \in c.left} : Rises(t)}
<1>1. CASE p = "none"
  <2>1. CondRight(n, c, F, p, K) = c
    BY <1>1, Zenon DEF CondRight
  <2>2. c.right = [f \in Facts |-> IF f \in R2 THEN HashKey(n, K, f) ELSE Out]
    BY <1>1, Zenon DEF CondMid
  <2>3. c.matched = {m \in T \X R2 : Joins(n, K, m[1][1], m[2])}
    BY <1>1 DEF CondMid
  <2> QED BY <2>1, <2>2, <2>3, Zenon DEF CondOK, CondMid
<1>2. CASE p # "none"
  <2>1. CondRight(n, c, F, p, K)
          = [left |-> c.left, right |-> right, matched |-> matched, out |-> out]
    BY <1>2, Zenon DEF CondRight
  <2>2. {e[2] : e \in c.left} = T
    <3>1. c.left = {<<HashKey(n, K, t[1]), t>> : t \in T}
      BY Zenon DEF CondMid, CondLeftOK
    <3>2. ASSUME NEW t \in T PROVE \E e \in c.left : e[2] = t
      <4>1. <<HashKey(n, K, t[1]), t>> \in c.left
        BY <3>1, Zenon
      <4> QED BY <4>1, Zenon
    <3>3. \A e \in c.left : e[2] \in T
      BY <3>1
    <3> QED BY <3>2, <3>3
  <2>3. right = [f \in Facts |-> IF f \in R2 THEN HashKey(n, K, f) ELSE Out]
    BY <1>2, Zenon DEF CondMid, Events
  <2>4. ASSUME NEW t \in T, NEW f \in R PROVE <<t, f>> \in stays <=> <<t, f>> \in c.matched /\ f \notin F
    <3>1. <<t, f>> \in c.matched => t \in OldCandidates(n, c, f, K)
      BY LeftCandidatesMeet, Zenon DEF OldCandidates, CondMid
    <3> QED BY <3>1, Zenon
  <2>5. stays \subseteq T \X R
    BY Zenon DEF CondMid
  <2>6. \A t \in T, f \in F : <<t, f>> \in new <=> Joins(n, K, t[1], f)
    <3>1. \A t \in T, f \in F :
            Joins(n, K, t[1], f) => t \in LeftCandidates(c, HashKey(n, K, f))
      BY LeftCandidatesMeet, JoinsMeets, Zenon DEF CondMid
    <3> QED BY <3>1, <2>2, Zenon
  <2>7. new \subseteq T \X F
    BY <2>2, Zenon
  <2>8. matched = {m \in T \X R2 : Joins(n, K, m[1][1], m[2])}
    <3> HIDE DEF stays, new
    <3>1. matched \subseteq T \X R2
      <4>1. \A m \in stays : m = <<m[1], m[2]>> /\ m[1] \in T /\ m[2] \in R /\ m[2] \notin F
        BY <2>4, <2>5
      <4> QED BY <4>1, <2>7, <1>2 DEF Events
    <3>2. ASSUME NEW t \in T, NEW f \in R2
          PROVE  <<t, f>> \in matched <=> Joins(n, K, t[1], f)
      <4>1. CASE f \in F
        BY <4>1, <2>4, <2>5, <2>6, <1>2, Zenon DEF Events
      <4>2. CASE f \notin F
        <5>1. f \in R /\ <<t, f>> \notin new
          BY <4>2, <2>7, <1>2, Zenon DEF Events
        <5>2. <<t, f>> \in c.matched <=> Joins(n, K, t[1], f)
          BY <4>2, <5>1, Zenon DEF CondMid
        <5> QED BY <5>1, <5>2, <2>4, <4>2, Zenon
      <4> QED BY <4>1, <4>2, Zenon
    <3> HIDE DEF matched
    <3> QED BY <3>1, <3>2
  <2>9. out = {t \in T : Passes(n, matched, t)}
    <3>1. c.out = {t \in T : Passes(n, c.matched, t)}
      BY Zenon DEF CondMid, CondLeftOK
    <3> HIDE DEF matched
    <3> QED BY <3>1, <2>2, Zenon
  <2> HIDE DEF right, matched, out
  <2> DEFINE d == CondRight(n, c, F, p, K)
  <2>10. /\ CondRecord(d) /\ d.left = c.left /\ d.right = right
         /\ d.matched = matched /\ d.out = out
    BY <2>1 DEF CondRecord
  <2> HIDE DEF d
  <2>11. CondLeftOK(n, d, T, K)
    BY <2>9, <2>10, Zenon DEF CondMid, CondLeftOK
  <2>12. CondOK(n, d, T, R2, K)
    BY <2>3, <2>8, <2>10, <2>11, Zenon DEF CondOK
  <2> QED BY <2>12, Zenon DEF d
<1> QED BY <1>1, <1>2, Zenon

-----------------------------------------------------------------------------
(* The hashed join.  It does not know the key that an entry was stored with,  *)
(* so its invariant speaks of the facts outside X, which never changed theirs, *)
(* and of completeness, which a change of a key does not disturb.              *)

HashedType(h) ==
    /\ h = [left |-> h.left, right |-> h.right, kids |-> h.kids]
    /\ h.left \subseteq Keys \X Token /\ h.right \subseteq Keys \X Facts
    /\ h.kids \subseteq Token \X Facts

\* Every token is in the bucket of its key; the entries of facts outside X are right.
LeftBuckets(h, T, K, X) ==
    /\ \A t \in T : K[t[1]] # Nil => <<K[t[1]], t>> \in h.left
    /\ \A k \in Keys, t \in Token : <<k, t>> \in h.left /\ t[1] \notin X =>
         t \in T /\ k = K[t[1]]

RightBuckets(h, R, K, X) ==
    /\ \A f \in R : K[f] # Nil => <<K[f], f>> \in h.right
    /\ \A k \in Keys, f \in Facts : <<k, f>> \in h.right /\ f \notin X => f \in R /\ k = K[f]

\* The children are complete for the right facts S; those of facts outside X are
\* matches.
KidsComplete(h, T, S, K) ==
    \A t \in T, f \in S : SameKey(K, t[1], f) => <<t, f>> \in h.kids

KidsSound(h, T, R, K, X) ==
    \A t \in Token, f \in Facts : <<t, f>> \in h.kids /\ t[1] \notin X /\ f \notin X =>
        t \in T /\ f \in R /\ SameKey(K, t[1], f)

HashedOK(h, T, R, K, X) ==
    /\ HashedType(h)
    /\ LeftBuckets(h, T, K, X) /\ RightBuckets(h, R, K, X)
    /\ KidsComplete(h, T, R, K) /\ KidsSound(h, T, R, K, X)

\* After the left side: the keys K2 on the left and still K on the right.  S are
\* the right facts that the right side is not about.
HashedMid(h, T, R, S, K, K2, X) ==
    /\ HashedType(h)
    /\ LeftBuckets(h, T, K2, X) /\ RightBuckets(h, R, K, X)
    /\ KidsComplete(h, T, S, K2) /\ KidsSound(h, T, R, K2, X)

\* HashedJoinNode::left_activate.  The right buckets are still those of the old keys.
LEMMA HashedLeftStep ==
  ASSUME NEW h, NEW T, NEW dead, NEW born, NEW R, NEW R2, NEW F, NEW p, NEW K, NEW K2,
         NEW X0, NEW X, X0 \subseteq X,
         Change(T, dead, born, R, R2, F, p, K, K2, X), HashedOK(h, T, R, K, X0)
  PROVE  HashedMid(HashedLeft(h, dead, born, K2), (T \ dead) \cup born, R,
                   {f \in R : f \notin F \/ p = "none"}, K, K2, X)
<1> DEFINE T2 == (T \ dead) \cup born
           S == {f \in R : f \notin F \/ p = "none"}
           d == HashedLeft(h, dead, born, K2)
           gone == {<<K2[t[1]], t>> : t \in dead}
           came == {<<K2[t[1]], t>> : t \in {u \in born : K2[u[1]] # Nil}}
           new == {c \in born \X Facts : /\ <<K2[c[1][1]], c[2]>> \in h.right
                                         /\ SameKey(K2, c[1][1], c[2])}
           kept == {c \in h.kids : ~(c[1] \in dead /\ <<K2[c[1][1]], c[2]>> \in h.right)}
<1>1. /\ d = [left |-> d.left, right |-> d.right, kids |-> d.kids]
      /\ d.left = (h.left \ gone) \cup came
      /\ d.right = h.right
      /\ d.kids = kept \cup new
  BY Zenon DEF HashedLeft
<1>2. /\ \A t \in Token : t[1] \in Facts
      /\ \A f \in Facts : K[f] \in KeyOpt /\ K2[f] \in KeyOpt
      /\ T2 \subseteq Token /\ R \subseteq Facts
  BY Zenon DEF Token, Change
<1>3. Nil \notin Keys /\ \A k \in KeyOpt : k # Nil => k \in Keys
  BY NetworkAssumption, Zenon DEF KeyOpt
<1>4. HashedType(d)
  <2>1. came \subseteq Keys \X Token
    BY <1>2, <1>3 DEF Change
  <2>2. new \subseteq Token \X Facts /\ kept \subseteq h.kids
    BY Zenon DEF Change
  <2> HIDE DEF came, gone, new, kept
  <2> QED BY <1>1, <2>1, <2>2, Zenon DEF HashedType, HashedOK
<1>5. \A k, t : /\ <<k, t>> \in gone <=> t \in dead /\ k = K2[t[1]]
                /\ <<k, t>> \in came <=> t \in born /\ k = K2[t[1]] /\ k # Nil
  BY Zenon
<1> HIDE DEF gone, came, d
<1>6. LeftBuckets(d, T2, K2, X)
  <2>1. ASSUME NEW t \in T2, K2[t[1]] # Nil PROVE <<K2[t[1]], t>> \in d.left
    <3>1. CASE t \in born
      BY <3>1, <2>1, <1>1, <1>5, Zenon
    <3>2. CASE t \in T \ dead
      BY <3>2, <2>1, <1>1, <1>5, Zenon DEF HashedOK, LeftBuckets, Change
    <3> QED BY <3>1, <3>2, Zenon
  <2>2. ASSUME NEW k \in Keys, NEW t \in Token, <<k, t>> \in d.left, t[1] \notin X
        PROVE  t \in T2 /\ k = K2[t[1]]
    <3>1. CASE <<k, t>> \in came
      BY <3>1, <1>5, Zenon
    <3>2. CASE <<k, t>> \in h.left /\ <<k, t>> \notin gone
      <4>1. t \in T /\ k = K[t[1]]
        BY <3>2, <2>2, Zenon DEF HashedOK, LeftBuckets
      <4>2. K2[t[1]] = K[t[1]]
        BY <4>1, <2>2, Zenon DEF Change
      <4> QED BY <3>2, <4>1, <4>2, <1>5, Zenon
    <3> QED BY <3>1, <3>2, <2>2, <1>1, Zenon
  <2> QED BY <2>1, <2>2, Zenon DEF LeftBuckets
<1>7. RightBuckets(d, R, K, X)
  BY <1>1, Zenon DEF HashedOK, RightBuckets
<1>8. KidsComplete(d, T2, S, K2)
  <2> SUFFICES ASSUME NEW t \in T2, NEW f \in S, SameKey(K2, t[1], f)
               PROVE  <<t, f>> \in d.kids
    BY Zenon DEF KidsComplete
  <2>1. f \in R /\ K2[f] = K[f] /\ f \in Facts
    BY Zenon DEF Change
  <2>2. CASE t \in born
    <3>1. <<K[f], f>> \in h.right
      BY <2>1, Zenon DEF HashedOK, RightBuckets, SameKey
    <3>2. <<t, f>> \in new
      BY <2>1, <2>2, <3>1, Zenon DEF SameKey
    <3> QED BY <3>2, <1>1, Zenon
  <2>3. CASE t \in T \ dead
    <3>1. <<t, f>> \in h.kids
      BY <2>1, <2>3, Zenon DEF HashedOK, KidsComplete, SameKey, Change
    <3> QED BY <3>1, <2>3, <1>1, Zenon
  <2> QED BY <2>2, <2>3, Zenon
<1>9. KidsSound(d, T2, R, K2, X)
  <2> SUFFICES ASSUME NEW t \in Token, NEW f \in Facts, <<t, f>> \in d.kids,
                      t[1] \notin X, f \notin X
               PROVE  t \in T2 /\ f \in R /\ SameKey(K2, t[1], f)
    BY Zenon DEF KidsSound
  <2>1. CASE <<t, f>> \in new
    <3>1. t \in born /\ <<K2[t[1]], f>> \in h.right /\ SameKey(K2, t[1], f)
      BY <2>1, Zenon
    <3>2. K2[t[1]] \in Keys
      BY <3>1, <1>2, <1>3, Zenon DEF SameKey
    <3>3. f \in R
      BY <3>1, <3>2, Zenon DEF HashedOK, RightBuckets
    <3> QED BY <3>1, <3>3, Zenon
  <2>2. CASE <<t, f>> \in kept
    <3>1. /\ <<t, f>> \in h.kids
          /\ ~(t \in dead /\ <<K2[t[1]], f>> \in h.right)
      BY <2>2, Zenon
    <3>2. t \in T /\ f \in R /\ SameKey(K, t[1], f)
      BY <3>1, Zenon DEF HashedOK, KidsSound
    <3>3. K2[f] = K[f] /\ K2[t[1]] = K[t[1]]
      BY <3>2, Zenon DEF Change
    <3>4. <<K2[t[1]], f>> \in h.right
      BY <3>2, <3>3, Zenon DEF HashedOK, RightBuckets, SameKey
    <3> QED BY <3>1, <3>2, <3>3, <3>4, Zenon DEF SameKey
  <2> QED BY <2>1, <2>2, <1>1, Zenon
<1>10. HashedMid(d, T2, R, S, K, K2, X)
  BY <1>4, <1>6, <1>7, <1>8, <1>9, Zenon DEF HashedMid
<1> QED BY <1>10, Zenon DEF d

\* The facts G are taken out, then the facts I are put in.
Swapped(h, G, I, K) ==
    [left  |-> h.left,
     right |-> (h.right \ {<<K[f], f>> : f \in G})
                 \cup {<<K[f], f>> : f \in {g \in I : K[g] # Nil}},
     kids  |-> {c \in h.kids : ~(c[2] \in G /\ <<K[c[2]], c[1]>> \in h.left)}
                 \cup {c \in {e[2] : e \in h.left} \X I :
                          <<K[c[2]], c[1]>> \in h.left /\ SameKey(K, c[1][1], c[2])}]

SwapSets(R, R2, S, G, I, K, K2, X) ==
    /\ R \subseteq Facts /\ R2 \subseteq Facts /\ K2 \in [Facts -> KeyOpt]
    /\ S \subseteq R /\ G \subseteq Facts /\ I \subseteq R2 /\ G \cap S = {}
    /\ \A f \in R2 : f \in I \/ f \in S
    /\ \A f \in R : f \notin X => f \in R2 \/ f \in G
    /\ \A f \in S : K2[f] = K[f]
    /\ \A f \in R : f \notin X => K2[f] = K[f]

\* Taking out and putting in at the right side completes what the left side began.
LEMMA HashedSwap ==
  ASSUME NEW h, NEW T, NEW R, NEW R2, NEW S, NEW G, NEW I, NEW K, NEW K2, NEW X,
         T \subseteq Token, SwapSets(R, R2, S, G, I, K, K2, X), HashedMid(h, T, R, S, K, K2, X)
  PROVE  HashedOK(Swapped(h, G, I, K2), T, R2, K2, X)
<1> USE DEF SwapSets, HashedMid
<1> DEFINE d == Swapped(h, G, I, K2)
           out == {<<K2[f], f>> : f \in G}
           in == {<<K2[f], f>> : f \in {g \in I : K2[g] # Nil}}
           kept == {c \in h.kids : ~(c[2] \in G /\ <<K2[c[2]], c[1]>> \in h.left)}
           new == {c \in {e[2] : e \in h.left} \X I :
                     <<K2[c[2]], c[1]>> \in h.left /\ SameKey(K2, c[1][1], c[2])}
<1>1. /\ d = [left |-> d.left, right |-> d.right, kids |-> d.kids]
      /\ d.left = h.left
      /\ d.right = (h.right \ out) \cup in
      /\ d.kids = kept \cup new
  BY Zenon DEF Swapped
<1>2. Nil \notin Keys /\ \A f \in Facts : K2[f] # Nil => K2[f] \in Keys
  BY NetworkAssumption, Zenon DEF KeyOpt
<1>3. /\ \A k, f : <<k, f>> \in out <=> f \in G /\ k = K2[f]
      /\ \A k, f : <<k, f>> \in in <=> f \in I /\ k = K2[f] /\ k # Nil
  BY Zenon
<1>4. HashedType(d)
  <2>1. in \subseteq Keys \X Facts
    <3>1. \A f \in I : f \in Facts /\ (K2[f] # Nil => K2[f] \in Keys)
      BY <1>2, Zenon
    <3> QED BY <3>1
  <2>2. new \subseteq Token \X Facts
    BY Zenon DEF HashedType
  <2>3. kept \subseteq h.kids
    BY Zenon
  <2> HIDE DEF out, in, kept, new
  <2> QED BY <1>1, <2>1, <2>2, <2>3, Zenon DEF HashedType
<1> HIDE DEF out, in, d
<1>5. LeftBuckets(d, T, K2, X)
  BY <1>1, Zenon DEF LeftBuckets
<1>6. RightBuckets(d, R2, K2, X)
  <2>1. ASSUME NEW f \in R2, K2[f] # Nil PROVE <<K2[f], f>> \in d.right
    <3>1. CASE f \in I
      BY <3>1, <2>1, <1>1, <1>3, Zenon
    <3>2. CASE f \in S
      BY <3>2, <2>1, <1>1, <1>3, Zenon DEF RightBuckets
    <3> QED BY <3>1, <3>2, Zenon
  <2>2. ASSUME NEW k \in Keys, NEW f \in Facts, <<k, f>> \in d.right, f \notin X
        PROVE  f \in R2 /\ k = K2[f]
    <3>1. CASE <<k, f>> \in in
      BY <3>1, <1>3, Zenon
    <3>2. CASE <<k, f>> \in h.right /\ <<k, f>> \notin out
      <4>1. f \in R /\ k = K2[f]
        BY <3>2, <2>2, Zenon DEF RightBuckets
      <4> QED BY <4>1, <3>2, <2>2, <1>3, Zenon
    <3> QED BY <3>1, <3>2, <2>2, <1>1, Zenon
  <2> QED BY <2>1, <2>2, Zenon DEF RightBuckets
<1>7. KidsComplete(d, T, R2, K2)
  <2> SUFFICES ASSUME NEW t \in T, NEW f \in R2, SameKey(K2, t[1], f) PROVE <<t, f>> \in d.kids
    BY Zenon DEF KidsComplete
  <2>1. CASE f \in S
    <3>1. <<t, f>> \in h.kids /\ f \notin G
      BY <2>1, Zenon DEF KidsComplete
    <3> QED BY <3>1, <1>1, Zenon
  <2>2. CASE f \in I
    <3>1. <<K2[f], t>> \in h.left
      BY Zenon DEF LeftBuckets, SameKey
    <3>2. t \in {e[2] : e \in h.left}
      <4>1. <<K2[f], t>>[2] = t
        BY Zenon
      <4> QED BY <3>1, <4>1, Zenon
    <3>3. <<t, f>> \in new
      BY <3>1, <3>2, <2>2, Zenon
    <3> QED BY <3>3, <1>1, Zenon
  <2> QED BY <2>1, <2>2, Zenon
<1>8. KidsSound(d, T, R2, K2, X)
  <2> SUFFICES ASSUME NEW t \in Token, NEW f \in Facts, <<t, f>> \in d.kids,
                      t[1] \notin X, f \notin X
               PROVE  t \in T /\ f \in R2 /\ SameKey(K2, t[1], f)
    BY Zenon DEF KidsSound
  <2>1. CASE <<t, f>> \in new
    <3>1. f \in I /\ <<K2[f], t>> \in h.left /\ SameKey(K2, t[1], f)
      BY <2>1, Zenon
    <3>2. K2[f] \in Keys
      BY <3>1, <1>2, Zenon DEF SameKey
    <3> QED BY <3>1, <3>2, Zenon DEF LeftBuckets
  <2>2. CASE <<t, f>> \in kept
    <3>1. <<t, f>> \in h.kids /\ ~(f \in G /\ <<K2[f], t>> \in h.left)
      BY <2>2, Zenon
    <3>2. t \in T /\ f \in R /\ SameKey(K2, t[1], f)
      BY <3>1, Zenon DEF KidsSound
    <3>3. <<K2[f], t>> \in h.left
      BY <3>2, Zenon DEF LeftBuckets, SameKey
    <3> QED BY <3>1, <3>2, <3>3, Zenon
  <2> QED BY <2>1, <2>2, <1>1, Zenon
<1>9. HashedOK(d, T, R2, K2, X)
  BY <1>4, <1>5, <1>6, <1>7, <1>8, Zenon DEF HashedOK
<1> QED BY <1>9, Zenon DEF d

\* HashedJoinNode::right_activate and right_activate_batch.
LEMMA HashedStep ==
  ASSUME NEW h, NEW T, NEW dead, NEW born, NEW R, NEW R2, NEW F, NEW p, NEW K, NEW K2,
         NEW X0, NEW X, X0 \subseteq X,
         Change(T, dead, born, R, R2, F, p, K, K2, X), HashedOK(h, T, R, K, X0)
  PROVE  HashedOK(HashedRight(HashedLeft(h, dead, born, K2), F, p, K2),
                  (T \ dead) \cup born, R2, K2, X)
<1> DEFINE T2 == (T \ dead) \cup born
           S == {f \in R : f \notin F \/ p = "none"}
<1>1. PICK d : d = HashedLeft(h, dead, born, K2)
  BY Zenon
<1>2. HashedMid(d, T2, R, S, K, K2, X)
  BY <1>1, HashedLeftStep
<1>3. T2 \subseteq Token
  BY Zenon DEF Change
<1> DEFINE G == IF p = "RETRACT" THEN F
                ELSE IF p = "MODIFY" THEN {f \in F : <<K2[f], f>> \in d.right} ELSE {}
           I == IF p = "ASSERT" \/ p = "MODIFY" THEN F ELSE {}
<1>4. SwapSets(R, R2, S, G, I, K, K2, X)
  BY ZenonT(30) DEF Change, Events, SwapSets
<1>5. HashedRight(d, F, p, K2) = Swapped(d, G, I, K2)
  <2> USE DEF Swapped, HashedMid
  <2>1. CASE p = "ASSERT"
    BY <2>1, <1>2, Zenon DEF HashedRight, HashedIn, HashedType
  <2>2. CASE p = "RETRACT"
    BY <2>2, <1>2, Zenon DEF HashedRight, HashedOut, HashedType
  <2>3. CASE p = "MODIFY"
    BY <2>3, <1>2, Zenon DEF HashedRight, HashedIn, HashedOut, HashedType
  <2>4. CASE p = "none"
    BY <2>4, <1>2, Zenon DEF HashedRight, HashedType
  <2> QED BY <2>1, <2>2, <2>3, <2>4, ZenonT(30) DEF Change, Events
<1> HIDE DEF G, I, S, T2
<1>6. HashedOK(HashedRight(d, F, p, K2), T2, R2, K2, X)
  BY <1>2, <1>3, <1>4, <1>5, HashedSwap, Zenon
<1> QED BY <1>1, <1>6, Zenon DEF T2

-----------------------------------------------------------------------------
(* The network *)

\* A token belongs to a fact that alpha L passes and was made in an earlier call.
Base ==
    /\ wm \subseteq Facts /\ rekeyed \subseteq Facts
    /\ key \in [Facts -> KeyOpt] /\ val \in [Facts -> ValOpt] /\ calls \in Nat
    /\ lpass \subseteq wm /\ rpass \subseteq wm
    /\ tok \subseteq lpass \X (0 .. calls)

NodesOK ==
    /\ HashedOK(hashed, tok, rpass, key, rekeyed)
    /\ CrossOK(cross, tok, rpass, key)
    /\ \A n \in Conds : CondOK(n, cond[n], tok, rpass, key)

\* The inductive invariant.
IInv == Base /\ NodesOK

\* A propagation that is a Change keeps all nodes right.
LEMMA PropagateStep ==
  ASSUME NodesOK, NEW dead, NEW born, NEW F, NEW p,
         Change(tok, dead, born, rpass, rpass', F, p, key, key', rekeyed'),
         rekeyed \subseteq rekeyed', born \cap tok = {}, Propagate(dead, born, F, p)
  PROVE  NodesOK'
<1> DEFINE T2 == (tok \ dead) \cup born
<1>1. tok' = T2
  BY Zenon DEF Propagate
<1>2. HashedOK(hashed', T2, rpass', key', rekeyed')
  <2>1. hashed' = HashedRight(HashedLeft(hashed, dead, born, key'), F, p, key')
    BY Zenon DEF Propagate
  <2>2. HashedOK(hashed, tok, rpass, key, rekeyed)
    BY Zenon DEF NodesOK
  <2> QED BY <2>1, <2>2, HashedStep, Zenon
<1>3. /\ rpass \subseteq Facts /\ F \subseteq Facts /\ p \in Events
      /\ p = "none" => rpass' = rpass
      /\ p = "RETRACT" => F \subseteq rpass /\ rpass' = rpass \ F
      /\ p = "MODIFY" => F \subseteq rpass /\ rpass' = rpass
      /\ p = "ASSERT" => F \cap rpass = {} /\ rpass' = rpass \cup F
  BY Zenon DEF Change
<1>4. CrossOK(cross', T2, rpass', key')
  <2>1. cross' = CrossRight(CrossLeft(cross, dead, born, key'), F, p, key')
    BY Zenon DEF Propagate
  <2>2. CrossMid(CrossLeft(cross, dead, born, key'), T2, rpass, F, p, key')
    BY CrossLeftStep, Zenon DEF NodesOK
  <2> QED BY <2>1, <2>2, <1>3, CrossRightStep, Zenon
<1>5. ASSUME NEW n \in Conds PROVE CondOK(n, cond'[n], T2, rpass', key')
  <2>1. cond'[n] = CondRight(n, CondLeft(n, cond[n], dead, born, key'), F, p, key')
    BY Zenon DEF Propagate
  <2>2. CondMid(n, CondLeft(n, cond[n], dead, born, key'), T2, rpass, F, p, key')
    BY CondLeftStep, Zenon DEF NodesOK
  <2> QED BY <2>1, <2>2, <1>3, CondRightStep
<1> QED BY <1>1, <1>2, <1>4, <1>5, Zenon DEF NodesOK

\* The events that an alpha node passes on fit what it remembers
\* (AlphaNode::right_activate).
Fits(pass, f, e) ==
    /\ e \in Events
    /\ e = "RETRACT" \/ e = "MODIFY" <=> f \in pass

\* A call about one fact: the alpha nodes pass on events that fit.
LEMMA ActivateStep ==
  ASSUME IInv, NEW f \in Facts, NEW l, NEW r, Fits(lpass, f, l), Fits(rpass, f, r),
         Activate(f, l, r), calls' = calls + 1,
         key' \in [Facts -> KeyOpt], \A g \in Facts : g # f => key'[g] = key[g],
         rekeyed \cup {g \in lpass \cup rpass : key'[g] # key[g]} \subseteq rekeyed'
  PROVE  NodesOK' /\ tok' \subseteq lpass' \X (0 .. calls')
<1> DEFINE dead == IF l \in {"RETRACT", "MODIFY"} THEN TokensOf({f}) ELSE {}
           born == IF l \in {"ASSERT", "MODIFY"} THEN NewTokens({f}) ELSE {}
<1>1. /\ lpass' = Passing(lpass, f, l) /\ rpass' = Passing(rpass, f, r)
      /\ Propagate(dead, born, {f}, r)
  BY Zenon DEF Activate
<1>2. /\ calls + 1 \in Nat /\ calls + 1 \notin 0 .. calls /\ 0 .. calls \subseteq Nat
      /\ 0 .. calls \subseteq 0 .. calls' /\ calls + 1 \in 0 .. calls'
  BY DEF IInv, Base
<1>3. /\ lpass \subseteq Facts /\ rpass \subseteq Facts /\ key \in [Facts -> KeyOpt]
      /\ tok \subseteq lpass \X (0 .. calls)
  BY Zenon DEF IInv, Base
<1>4. born \subseteq Token /\ born \cap tok = {} /\ tok \subseteq Token
  BY <1>2, <1>3 DEF NewTokens, Token
<1>5. dead \subseteq tok /\ \A t \in tok : t[1] = f => t \in dead
  BY <1>3, Zenon DEF TokensOf, Fits
<1> HIDE DEF dead, born
<1>6. \A t \in tok : t[1] \in lpass /\ t[1] \in Facts
  BY <1>3, Zenon
<1>7. /\ r = "none" => rpass' = rpass
      /\ r = "RETRACT" => {f} \subseteq rpass /\ rpass' = rpass \ {f}
      /\ r = "MODIFY" => {f} \subseteq rpass /\ rpass' = rpass
      /\ r = "ASSERT" => {f} \cap rpass = {} /\ rpass' = rpass \cup {f}
  BY <1>1, Zenon DEF Passing, Fits
<1>8. \A g \in rpass : g \notin {f} \/ r = "none" => key'[g] = key[g]
  BY <1>3, Zenon DEF Fits
<1>9. Change(tok, dead, born, rpass, rpass', {f}, r, key, key', rekeyed')
  BY <1>3, <1>4, <1>5, <1>6, <1>7, <1>8, Zenon DEF Change, Fits
<1>10. NodesOK'
  BY <1>1, <1>4, <1>9, PropagateStep, Zenon DEF IInv
<1>11. tok' \subseteq lpass' \X (0 .. calls')
  <2>1. tok' = (tok \ dead) \cup born
    BY <1>1, Zenon DEF Propagate
  <2>2. ASSUME NEW t \in tok \ dead PROVE t \in lpass' \X (0 .. calls')
    <3>1. t[1] \in lpass'
      BY <1>1, <1>5, <1>6, Zenon DEF Passing
    <3> QED BY <3>1, <1>2, <1>3, Zenon
  <2>3. born \subseteq lpass' \X (0 .. calls')
    BY <1>1, <1>2 DEF born, NewTokens, Passing
  <2> QED BY <2>1, <2>2, <2>3, Zenon
<1> QED BY <1>10, <1>11, Zenon

-----------------------------------------------------------------------------
(* One lemma per call *)

\* What the alpha nodes remember after an event that fits is in working memory.
LEMMA PassingIn ==
  ASSUME NEW pass, NEW f, NEW e, NEW W, Fits(pass, f, e), pass \ {f} \subseteq W,
         e = "ASSERT" \/ e = "MODIFY" => f \in W
  PROVE  Passing(pass, f, e) \subseteq W
BY Zenon DEF Passing, Fits, Events

\* StatefulSession::add_fact.
LEMMA AddFactStep ==
  ASSUME IInv, calls' = calls + 1, NEW f \in Facts, NEW k \in KeyOpt, NEW v \in ValOpt,
         AddFact(f, k, v)
  PROVE  IInv'
<1> DEFINE l == AlphaEvent(lpass, v \in LeftVals, f, "ASSERT")
           r == AlphaEvent(rpass, v \in RightVals, f, "ASSERT")
<1>1. f \notin lpass /\ f \notin rpass
  BY Zenon DEF AddFact, IInv, Base
<1>2. Fits(lpass, f, l) /\ Fits(rpass, f, r)
  BY <1>1, Zenon DEF Fits, AlphaEvent, Events
<1>3. Activate(f, l, r)
  BY Zenon DEF AddFact, Enter
<1>4. /\ key' \in [Facts -> KeyOpt] /\ val' \in [Facts -> ValOpt]
      /\ \A g \in Facts : g # f => key'[g] = key[g]
      /\ calls' \in Nat /\ wm' = wm \cup {f} /\ wm' \subseteq Facts
      /\ lpass \subseteq wm /\ rpass \subseteq wm
      /\ rekeyed' = rekeyed /\ rekeyed \subseteq Facts
  BY DEF AddFact, IInv, Base
<1> HIDE DEF l, r
<1>5. NodesOK' /\ tok' \subseteq lpass' \X (0 .. calls')
  BY <1>1, <1>2, <1>3, <1>4, ActivateStep
<1>6. lpass' \subseteq wm' /\ rpass' \subseteq wm'
  BY <1>2, <1>3, <1>4, PassingIn DEF Activate
<1> QED BY <1>4, <1>5, <1>6, Zenon DEF IInv, Base

\* StatefulSession::retract_fact.
LEMMA RetractFactStep ==
  ASSUME IInv, calls' = calls + 1, NEW f \in Facts, RetractFact(f)
  PROVE  IInv'
<1> DEFINE l == AlphaEvent(lpass, val[f] \in LeftVals, f, "RETRACT")
           r == AlphaEvent(rpass, val[f] \in RightVals, f, "RETRACT")
<1>1. Fits(lpass, f, l) /\ Fits(rpass, f, r)
  BY Zenon DEF Fits, AlphaEvent, Events
<1>2. l \in {"RETRACT", "none"} /\ r \in {"RETRACT", "none"}
  BY Zenon DEF AlphaEvent
<1>3. Activate(f, l, r)
  BY Zenon DEF RetractFact, Enter
<1>4. /\ key' = key /\ key \in [Facts -> KeyOpt] /\ val' \in [Facts -> ValOpt]
      /\ calls' \in Nat /\ wm' = wm \ {f} /\ wm' \subseteq Facts
      /\ lpass \subseteq wm /\ rpass \subseteq wm
      /\ rekeyed' = rekeyed /\ rekeyed \subseteq Facts
  BY DEF RetractFact, IInv, Base
<1> HIDE DEF l, r
<1>5. NodesOK' /\ tok' \subseteq lpass' \X (0 .. calls')
  BY <1>1, <1>3, <1>4, ActivateStep, Zenon
<1>6. lpass' \subseteq wm' /\ rpass' \subseteq wm'
  <2>1. Passing(lpass, f, l) \subseteq wm \ {f}
    BY <1>1, <1>2, <1>4, PassingIn, Zenon
  <2>2. Passing(rpass, f, r) \subseteq wm \ {f}
    BY <1>1, <1>2, <1>4, PassingIn, Zenon
  <2> QED BY <2>1, <2>2, <1>3, <1>4, Zenon DEF Activate
<1> QED BY <1>4, <1>5, <1>6, Zenon DEF IInv, Base

\* StatefulSession::update_fact.
LEMMA UpdateFactStep ==
  ASSUME IInv, calls' = calls + 1, NEW f \in Facts, NEW k \in KeyOpt, NEW v \in ValOpt,
         UpdateFact(f, k, v)
  PROVE  IInv'
<1> DEFINE l == AlphaEvent(lpass, v \in LeftVals, f, "MODIFY")
           r == AlphaEvent(rpass, v \in RightVals, f, "MODIFY")
<1>1. Fits(lpass, f, l) /\ Fits(rpass, f, r)
  BY Zenon DEF Fits, AlphaEvent, Events
<1>2. Activate(f, l, r)
  BY Zenon DEF UpdateFact, Enter
<1>3. /\ key' \in [Facts -> KeyOpt] /\ val' \in [Facts -> ValOpt]
      /\ \A g \in Facts : g # f => key'[g] = key[g]
      /\ calls' \in Nat /\ wm' = wm /\ wm \subseteq Facts /\ f \in wm
      /\ lpass \subseteq wm /\ rpass \subseteq wm
      /\ rekeyed' = rekeyed \cup {g \in lpass \cup rpass : key'[g] # key[g]}
      /\ rekeyed' \subseteq Facts
  BY DEF UpdateFact, Rekeyed, IInv, Base
<1> HIDE DEF l, r
<1>4. NodesOK' /\ tok' \subseteq lpass' \X (0 .. calls')
  BY <1>1, <1>2, <1>3, ActivateStep, Zenon
<1>5. lpass' \subseteq wm' /\ rpass' \subseteq wm'
  <2>1. Passing(lpass, f, l) \subseteq wm
    BY <1>1, <1>3, PassingIn, Zenon
  <2>2. Passing(rpass, f, r) \subseteq wm
    BY <1>1, <1>3, PassingIn, Zenon
  <2> QED BY <2>1, <2>2, <1>2, <1>3, Zenon DEF Activate
<1> QED BY <1>3, <1>4, <1>5, Zenon DEF IInv, Base

\* StatefulSession::propagate_modify.
LEMMA PropagateModifyStep ==
  ASSUME IInv, calls' = calls + 1, NEW f \in Facts, NEW k \in KeyOpt, PropagateModify(f, k)
  PROVE  IInv'
<1> DEFINE l == IF f \in lpass THEN "MODIFY" ELSE "none"
           r == IF f \in rpass THEN "MODIFY" ELSE "none"
<1>1. Fits(lpass, f, l) /\ Fits(rpass, f, r)
  BY Zenon DEF Fits, Events
<1>2. Activate(f, l, r)
  BY Zenon DEF PropagateModify
<1>3. /\ key' \in [Facts -> KeyOpt] /\ val' \in [Facts -> ValOpt]
      /\ \A g \in Facts : g # f => key'[g] = key[g]
      /\ calls' \in Nat /\ wm' = wm /\ wm \subseteq Facts /\ f \in wm
      /\ lpass \subseteq wm /\ rpass \subseteq wm
      /\ rekeyed' = rekeyed \cup {g \in lpass \cup rpass : key'[g] # key[g]}
      /\ rekeyed' \subseteq Facts
  BY DEF PropagateModify, Rekeyed, IInv, Base
<1> HIDE DEF l, r
<1>4. NodesOK' /\ tok' \subseteq lpass' \X (0 .. calls')
  BY <1>1, <1>2, <1>3, ActivateStep, Zenon
<1>5. lpass' \subseteq wm' /\ rpass' \subseteq wm'
  <2>1. Passing(lpass, f, l) \subseteq wm
    BY <1>1, <1>3, PassingIn, Zenon
  <2>2. Passing(rpass, f, r) \subseteq wm
    BY <1>1, <1>3, PassingIn, Zenon
  <2> QED BY <2>1, <2>2, <1>2, <1>3, Zenon DEF Activate
<1> QED BY <1>3, <1>4, <1>5, Zenon DEF IInv, Base

\* StatefulSession::add_facts: the facts of a batch are new, whatever the alpha
\* nodes make of them.
LEMMA AddFactsStep ==
  ASSUME IInv, calls' = calls + 1, NEW F \in SUBSET Facts, NEW K \in [F -> KeyOpt],
         NEW W \in [F -> ValOpt], AddFacts(F, K, W)
  PROVE  IInv'
<1> DEFINE left == {f \in F : W[f] \in LeftVals}
           right == {f \in Survivors(F, W) : W[f] \in RightVals}
           born == NewTokens(left)
<1>1. /\ F \cap wm = {} /\ wm' = wm \cup F
      /\ key' = [f \in Facts |-> IF f \in F THEN K[f] ELSE key[f]]
      /\ val' = [f \in Facts |-> IF f \in F THEN W[f] ELSE val[f]]
      /\ lpass' = lpass \cup left /\ rpass' = rpass \cup right
      /\ Propagate({}, born, right, "ASSERT")
      /\ rekeyed' = rekeyed
  BY Zenon DEF AddFacts
<1>2. left \subseteq F /\ right \subseteq F
  BY Zenon DEF Survivors
<1> HIDE DEF left, right
<1>3. /\ wm \subseteq Facts /\ rekeyed \subseteq Facts /\ lpass \subseteq wm /\ rpass \subseteq wm
      /\ key \in [Facts -> KeyOpt] /\ val \in [Facts -> ValOpt] /\ calls \in Nat
      /\ tok \subseteq lpass \X (0 .. calls)
  BY Zenon DEF IInv, Base
<1>4. /\ calls' \in Nat /\ calls + 1 \in Nat /\ calls + 1 \notin 0 .. calls
      /\ 0 .. calls \subseteq Nat /\ 0 .. calls \subseteq 0 .. calls' /\ calls + 1 \in 0 .. calls'
  BY <1>3
<1>5. key' \in [Facts -> KeyOpt] /\ val' \in [Facts -> ValOpt]
  BY <1>1, <1>3, Zenon
<1>6. \A g \in wm : key'[g] = key[g]
  BY <1>1, <1>3, Zenon
<1>7. born \subseteq Token /\ born \cap tok = {} /\ tok \subseteq Token
  BY <1>2, <1>3, <1>4 DEF NewTokens, Token
<1>8. \A t \in tok : t[1] \in wm
  BY <1>3, Zenon
<1>9. right \cap rpass = {} /\ rpass \subseteq Facts /\ right \subseteq Facts
  BY <1>1, <1>2, <1>3, Zenon
<1> HIDE DEF born
<1>10. Change(tok, {}, born, rpass, rpass', right, "ASSERT", key, key', rekeyed')
  BY <1>1, <1>3, <1>5, <1>6, <1>7, <1>8, <1>9, Zenon DEF Change, Events
<1>11. NodesOK'
  BY <1>1, <1>7, <1>10, PropagateStep, Zenon DEF IInv
<1>12. tok' \subseteq lpass' \X (0 .. calls')
  <2>1. tok' = tok \cup born
    BY <1>1, ZenonT(30) DEF Propagate
  <2>2. born \subseteq lpass' \X (0 .. calls')
    BY <1>1, <1>4 DEF born, NewTokens
  <2> QED BY <2>1, <2>2, <1>1, <1>3, <1>4, Zenon
<1> QED BY <1>1, <1>2, <1>3, <1>4, <1>5, <1>11, <1>12, Zenon DEF IInv, Base

\* StatefulSession::retract_facts.
LEMMA RetractFactsStep ==
  ASSUME IInv, calls' = calls + 1, NEW F \in SUBSET wm, RetractFacts(F)
  PROVE  IInv'
<1> DEFINE dead == TokensOf(F)
           G == F \cap rpass
<1>1. /\ wm' = wm \ F /\ key' = key /\ val' = val /\ rekeyed' = rekeyed
      /\ lpass' = lpass \ F /\ rpass' = rpass \ F
      /\ Propagate(dead, {}, G, "RETRACT")
  BY Zenon DEF RetractFacts
<1>2. /\ wm \subseteq Facts /\ rekeyed \subseteq Facts /\ lpass \subseteq wm /\ rpass \subseteq wm
      /\ key \in [Facts -> KeyOpt] /\ val \in [Facts -> ValOpt] /\ calls \in Nat
      /\ tok \subseteq lpass \X (0 .. calls)
  BY Zenon DEF IInv, Base
<1>3. calls' \in Nat /\ 0 .. calls \subseteq Nat /\ 0 .. calls \subseteq 0 .. calls'
  BY <1>2
<1>4. dead \subseteq tok /\ tok \subseteq Token /\ \A t \in tok : t[1] \in F => t \in dead
  BY <1>2, <1>3, Zenon DEF TokensOf, Token
<1>5. G \subseteq rpass /\ rpass' = rpass \ G /\ rpass \subseteq Facts
  BY <1>1, <1>2, Zenon
<1> HIDE DEF dead, G
<1>6. Change(tok, dead, {}, rpass, rpass', G, "RETRACT", key, key', rekeyed')
  BY <1>1, <1>2, <1>4, <1>5, Zenon DEF Change, Events
<1>7. NodesOK'
  BY <1>1, <1>6, PropagateStep DEF IInv
<1>8. tok' \subseteq lpass' \X (0 .. calls')
  <2>1. tok' = tok \ dead
    BY <1>1, Zenon DEF Propagate
  <2>2. \A t \in tok \ dead : t \in lpass' \X (0 .. calls')
    BY <1>1, <1>2, <1>3, <1>4, Zenon
  <2> QED BY <2>1, <2>2, Zenon
<1> QED BY <1>1, <1>2, <1>3, <1>7, <1>8, Zenon DEF IInv, Base

\* The nodes of an empty network are right (StatefulSession::reset).
LEMMA EmptyNodes ==
  ASSUME NEW K, NEW X
  PROVE  /\ HashedOK([left |-> {}, right |-> {}, kids |-> {}], {}, {}, K, X)
         /\ CrossOK([left |-> {}, right |-> {}, kids |-> {}], {}, {}, K)
         /\ \A n : CondOK(n, [left |-> {}, right |-> [f \in Facts |-> Out],
                              matched |-> {}, out |-> {}], {}, {}, K)
<1>1. HashedOK([left |-> {}, right |-> {}, kids |-> {}], {}, {}, K, X)
  BY ZenonT(30) DEF HashedOK, HashedType, LeftBuckets, RightBuckets, KidsComplete, KidsSound
<1>2. CrossOK([left |-> {}, right |-> {}, kids |-> {}], {}, {}, K)
  BY Zenon DEF CrossOK
<1>3. ASSUME NEW n
      PROVE  CondOK(n, [left |-> {}, right |-> [f \in Facts |-> Out],
                        matched |-> {}, out |-> {}], {}, {}, K)
  BY Zenon DEF CondOK, CondLeftOK, CondRecord
<1> QED BY <1>1, <1>2, <1>3, ZenonT(30)

\* A new session: all memories are empty.
LEMMA InitIInv == Init => IInv
<1> SUFFICES ASSUME Init PROVE IInv
  BY Zenon
<1>1. Base
  BY Zenon DEF Init, Base, KeyOpt, ValOpt
<1>2. NodesOK
  BY EmptyNodes, Zenon DEF Init, NodesOK
<1> QED BY <1>1, <1>2, Zenon DEF IInv

\* reset() empties all memories.
LEMMA ResetStep == Reset => IInv'
<1> SUFFICES ASSUME Reset PROVE IInv'
  BY Zenon
<1>1. Base'
  BY Zenon DEF Reset, Base, KeyOpt, ValOpt
<1>2. NodesOK'
  BY EmptyNodes, Zenon DEF Reset, NodesOK
<1> QED BY <1>1, <1>2, Zenon DEF IInv

\* The invariant is inductive: one step for each call of the session.
LEMMA NextIInv == IInv /\ [Next]_vars => IInv'
<1> SUFFICES ASSUME IInv, [Next]_vars PROVE IInv'
  BY Zenon
<1>1. CASE UNCHANGED vars
  BY <1>1, Zenon DEF IInv, Base, NodesOK, vars, alpha
<1>2. CASE Reset
  BY <1>2, ResetStep, Zenon
<1>3. CASE calls' = calls + 1 /\ Call
  <2>1. ASSUME NEW f \in Facts, NEW x \in Inputs[f] PROVE x[1] \in KeyOpt /\ x[2] \in ValOpt
    BY <2>1, NetworkAssumption DEF KeyOpt, ValOpt
  <2>2. ASSUME NEW f \in Facts, NEW x \in Inputs[f], AddFact(f, x[1], x[2]) PROVE IInv'
    BY <1>3, <2>1, <2>2, AddFactStep, Zenon
  <2>3. ASSUME NEW F \in SUBSET (Facts \ wm), NEW X \in BatchInputs[F],
               AddFacts(F, [f \in F |-> X[f][1]], [f \in F |-> X[f][2]])
        PROVE  IInv'
    <3>1. X \in [F -> KeyOpt \X ValOpt] /\ F \in SUBSET Facts
      BY <2>3, Zenon DEF BatchInputs
    <3>2. [f \in F |-> X[f][1]] \in [F -> KeyOpt] /\ [f \in F |-> X[f][2]] \in [F -> ValOpt]
      BY <3>1, Zenon
    <3> QED BY <1>3, <2>3, <3>1, <3>2, AddFactsStep, Zenon
  <2>4. ASSUME NEW f \in Facts, RetractFact(f) PROVE IInv'
    BY <1>3, <2>4, RetractFactStep, Zenon
  <2>5. ASSUME NEW F \in SUBSET wm, RetractFacts(F) PROVE IInv'
    BY <1>3, <2>5, RetractFactsStep, Zenon
  <2>6. ASSUME NEW f \in Facts, NEW x \in Inputs[f], UpdateFact(f, x[1], x[2]) PROVE IInv'
    BY <1>3, <2>1, <2>6, UpdateFactStep, Zenon
  <2>7. ASSUME NEW f \in Facts, NEW x \in Inputs[f], PropagateModify(f, x[1]) PROVE IInv'
    BY <1>3, <2>1, <2>7, PropagateModifyStep, Zenon
  <2> QED BY <1>3, <2>2, <2>3, <2>4, <2>5, <2>6, <2>7, Zenon DEF Call
<1> QED BY <1>1, <1>2, <1>3, Zenon DEF Next

-----------------------------------------------------------------------------
(* Theorems *)

\* The inductive invariant holds in every reachable state.
THEOREM NetworkInvariant == Spec => []IInv
BY InitIInv, NextIInv, PTL DEF Spec

\* The memories of the nodes hold tokens and facts of the session only, and facts
\* in the network are in working memory.
THEOREM NetworkTypes == Spec => []TypeOK
<1>1. ASSUME IInv PROVE TypeOK
  <2>1. tok \subseteq Token /\ rpass \subseteq Facts
    BY <1>1 DEF IInv, Base, Token
  <2>2. HashedType(hashed) /\ CrossOK(cross, tok, rpass, key)
    BY <1>1, Zenon DEF IInv, NodesOK, HashedOK
  <2>3. ASSUME NEW n \in Conds
        PROVE  /\ cond[n].left \subseteq KeyOpt \X Token
               /\ cond[n].right \in [Facts -> KeyOpt \cup {Out}]
               /\ cond[n].matched \subseteq Token \X Facts
               /\ cond[n].out \subseteq Token
    <3>1. CondOK(n, cond[n], tok, rpass, key) /\ key \in [Facts -> KeyOpt]
      BY <1>1, <2>3, Zenon DEF IInv, Base, NodesOK
    <3>2. \A f \in Facts : HashKey(n, key, f) \in KeyOpt
      BY <3>1, Zenon DEF HashKey, KeyOpt
    <3>3. cond[n].right \in [Facts -> KeyOpt \cup {Out}]
      BY <3>1, <3>2, Zenon DEF CondOK
    <3>4. cond[n].matched \subseteq Token \X Facts /\ cond[n].out \subseteq Token
      BY <2>1, <3>1, Zenon DEF CondOK, CondLeftOK
    <3>5. cond[n].left \subseteq KeyOpt \X Token
      BY <2>1, <3>1, <3>2 DEF CondOK, CondLeftOK, Token
    <3> QED BY <3>3, <3>4, <3>5, Zenon
  <2>4. cross.left \subseteq Token /\ cross.right \subseteq Facts /\ cross.kids \subseteq Token \X Facts
    BY <2>1, <2>2, Zenon DEF CrossOK
  <2> QED BY <1>1, <2>1, <2>2, <2>3, <2>4, Zenon DEF IInv, Base, HashedType, TypeOK
<1> QED BY <1>1, NetworkInvariant, PTL

\* For any number of not and exists nodes, indexed or not, what they pass on is
\* what the facts say, after any sequence of calls.
THEOREM ConditionsStayExact == Spec => []ConditionsExact
<1>1. IInv => ConditionsExact
  <2> SUFFICES ASSUME IInv, NEW n \in Conds
               PROVE  cond[n].out = {t \in tok :
                         LET some == \E f \in rpass : Joins(n, key, t[1], f)
                         IN  IF n \in NotNodes THEN ~some ELSE some}
    BY Zenon DEF ConditionsExact
  <2>1. /\ cond[n].out = {t \in tok : Passes(n, cond[n].matched, t)}
        /\ cond[n].matched = {m \in tok \X rpass : Joins(n, key, m[1][1], m[2])}
    BY ZenonT(30) DEF IInv, NodesOK, CondOK, CondLeftOK
  <2>2. ASSUME NEW t \in tok
        PROVE  (\E m \in cond[n].matched : m[1] = t) <=> \E f \in rpass : Joins(n, key, t[1], f)
    <3>1. ASSUME NEW f \in rpass, Joins(n, key, t[1], f)
          PROVE  \E m \in cond[n].matched : m[1] = t
      <4>1. <<t, f>> \in cond[n].matched /\ <<t, f>>[1] = t
        BY <2>1, <3>1, Zenon
      <4> QED BY <4>1, Zenon
    <3>2. ASSUME NEW m \in cond[n].matched, m[1] = t
          PROVE  \E f \in rpass : Joins(n, key, t[1], f)
      BY <2>1, <3>2, Zenon
    <3> QED BY <3>1, <3>2, ZenonT(30)
  <2> QED BY <2>1, <2>2, Zenon DEF Passes
<1> QED BY <1>1, NetworkInvariant, PTL

\* A cross-product join is exact after any sequence of calls.
THEOREM CrossStaysExact == Spec => []CrossExact
<1>1. IInv => CrossExact
  BY Zenon DEF IInv, NodesOK, CrossOK, CrossExact
<1> QED BY <1>1, NetworkInvariant, PTL

\* A hashed join misses no match, whatever keys change.
THEOREM HashedStaysComplete == Spec => []HashedComplete
<1>1. IInv => HashedComplete
  BY Zenon DEF IInv, NodesOK, HashedOK, KidsComplete, HashedComplete
<1> QED BY <1>1, NetworkInvariant, PTL

\* A wrong child of a hashed join involves a fact whose key changed while it was in
\* the network.
THEOREM HashedStaleNeedsNewKey == Spec => []HashedStaleOnlyByKey
<1>1. IInv => HashedStaleOnlyByKey
  <2> SUFFICES ASSUME IInv, NEW c \in hashed.kids, c[1][1] \notin rekeyed, c[2] \notin rekeyed
               PROVE  c[1] \in tok /\ c[2] \in rpass /\ SameKey(key, c[1][1], c[2])
    BY Zenon DEF HashedStaleOnlyByKey
  <2>1. c = <<c[1], c[2]>> /\ c[1] \in Token /\ c[2] \in Facts
    BY DEF IInv, NodesOK, HashedOK, HashedType
  <2> QED BY <2>1, Zenon DEF IInv, NodesOK, HashedOK, KidsSound
<1> QED BY <1>1, NetworkInvariant, PTL

-----------------------------------------------------------------------------
(* From working memory to the alpha memories.  The theorems above take the    *)
(* nodes against alpha L and alpha R; these take the alpha nodes against the  *)
(* facts, and say which calls lose some.                                      *)

\* Alpha L has exactly the facts of working memory that it accepts, and the root
\* join one token for each; alpha R has no fact that it does not accept.
AlphaSound ==
    /\ lpass = {f \in wm : val[f] \in LeftVals}
    /\ \A f \in rpass : val[f] \in RightVals
    /\ \A f \in lpass : \E t \in tok : t[1] = f
    /\ \A t, u \in tok : t[1] = u[1] => t = u

\* The step is an add_facts with a fact that alpha L accepts beside one that only
\* alpha R accepts.
MixedBatch ==
    \E f, g \in wm' \ wm : val'[f] \in LeftVals /\ val'[g] \in RightVals \ LeftVals

\* What the proofs below show of each step.
AlphaStep ==
    /\ AlphaSound'
    /\ AlphaComplete => (AlphaComplete' <=> ~MixedBatch)

\* A call about one fact, whose events fit what the alpha nodes make of it
\* (AlphaNode::right_activate).
LEMMA ActivateSound ==
  ASSUME IInv, AlphaSound, NEW f \in Facts, NEW l, NEW r, Fits(lpass, f, l), Fits(rpass, f, r),
         Activate(f, l, r), wm' \subseteq Facts,
         \A g \in Facts : g # f => (g \in wm' <=> g \in wm) /\ val'[g] = val[g],
         f \in lpass' <=> f \in wm' /\ val'[f] \in LeftVals,
         f \in rpass' => val'[f] \in RightVals,
         AlphaComplete /\ f \in wm' /\ val'[f] \in RightVals => f \in rpass'
  PROVE  AlphaStep
<1> DEFINE dead == IF l \in {"RETRACT", "MODIFY"} THEN TokensOf({f}) ELSE {}
           born == IF l \in {"ASSERT", "MODIFY"} THEN NewTokens({f}) ELSE {}
<1>1. /\ lpass' = Passing(lpass, f, l) /\ rpass' = Passing(rpass, f, r)
      /\ tok' = (tok \ dead) \cup born
  BY Zenon DEF Activate, Propagate
<1>2. /\ lpass \subseteq wm /\ rpass \subseteq wm /\ wm \subseteq Facts
      /\ tok \subseteq lpass \X (0 .. calls)
  BY Zenon DEF IInv, Base
<1>3. \A t \in tok : t[1] \in lpass
  BY <1>2, Zenon
<1>4. \A g : g # f => (g \in lpass' <=> g \in lpass) /\ (g \in rpass' <=> g \in rpass)
  BY <1>1, Zenon DEF Passing
<1>5. f \in lpass' <=> l \in {"ASSERT", "MODIFY"}
  BY <1>1, Zenon DEF Passing, Fits, Events
<1>6. \A t \in tok : t \in dead <=> t[1] = f
  BY <1>3, Zenon DEF TokensOf, Fits
<1>7. \A t : t \in born <=> f \in lpass' /\ t = <<f, calls + 1>>
  BY <1>5, Zenon DEF NewTokens
<1>8. <<f, calls + 1>>[1] = f
  OBVIOUS
<1> HIDE DEF dead, born
<1>9. lpass' = {g \in wm' : val'[g] \in LeftVals}
  <2>1. ASSUME NEW g \in lpass' PROVE g \in wm' /\ val'[g] \in LeftVals
    BY <1>2, <1>4, Zenon DEF AlphaSound
  <2>2. ASSUME NEW g \in wm', val'[g] \in LeftVals PROVE g \in lpass'
    BY <2>2, <1>2, <1>4, Zenon DEF AlphaSound
  <2> QED BY <2>1, <2>2, Zenon
<1>10. \A g \in rpass' : val'[g] \in RightVals
  BY <1>2, <1>4, Zenon DEF AlphaSound
<1>11. \A t \in tok' : IF t[1] = f THEN t = <<f, calls + 1>> ELSE t \in tok
  BY <1>1, <1>6, <1>7, <1>8, Zenon
<1>12. \A t, u \in tok' : t[1] = u[1] => t = u
  BY <1>11, Zenon DEF AlphaSound
<1>13. ASSUME NEW g \in lpass' PROVE \E t \in tok' : t[1] = g
  <2>1. CASE g = f
    BY <2>1, <1>1, <1>7, <1>8, <1>13, Zenon
  <2>2. CASE g # f
    <3>1. PICK t \in tok : t[1] = g
      BY <2>2, <1>4, <1>13, Zenon DEF AlphaSound
    <3>2. t \in tok'
      BY <2>2, <3>1, <1>1, <1>6, Zenon
    <3> QED BY <3>1, <3>2, Zenon
  <2> QED BY <2>1, <2>2, Zenon
<1>14. AlphaSound'
  BY <1>9, <1>10, <1>12, <1>13, Zenon DEF AlphaSound
<1>15. AlphaComplete => AlphaComplete'
  BY <1>4, Zenon DEF AlphaComplete
<1>16. ~MixedBatch
  BY Zenon DEF MixedBatch
<1> QED BY <1>14, <1>15, <1>16, Zenon DEF AlphaStep

\* StatefulSession::add_facts: what alpha L refuses is lost to alpha R, unless
\* alpha L refuses the whole batch.
LEMMA AddFactsSound ==
  ASSUME IInv, AlphaSound, NEW F \in SUBSET Facts, NEW K \in [F -> KeyOpt],
         NEW W \in [F -> ValOpt], AddFacts(F, K, W)
  PROVE  AlphaStep
<1> DEFINE left == {f \in F : W[f] \in LeftVals}
           right == {f \in Survivors(F, W) : W[f] \in RightVals}
           born == NewTokens(left)
<1>1. /\ F \cap wm = {} /\ wm' = wm \cup F
      /\ val' = [f \in Facts |-> IF f \in F THEN W[f] ELSE val[f]]
      /\ lpass' = lpass \cup left /\ rpass' = rpass \cup right
      /\ tok' = tok \cup born
  <2>1. Propagate({}, born, right, "ASSERT")
    BY Zenon DEF AddFacts
  <2>2. tok' = tok \cup born
    BY <2>1, Zenon DEF Propagate
  <2> QED BY <2>2, Zenon DEF AddFacts
<1>2. /\ lpass \subseteq wm /\ rpass \subseteq wm /\ wm \subseteq Facts
      /\ tok \subseteq lpass \X (0 .. calls)
  BY Zenon DEF IInv, Base
<1>3. /\ \A f \in F : f \notin wm /\ val'[f] = W[f]
      /\ \A f \in wm : f \notin F /\ val'[f] = val[f]
      /\ \A f : f \in wm' \ wm <=> f \in F
  BY <1>1, <1>2, Zenon
<1>4. \A t \in tok : t[1] \in lpass
  BY <1>2, Zenon
<1>5. \A f \in left : <<f, calls + 1>> \in born /\ <<f, calls + 1>>[1] = f
  BY DEF NewTokens
<1>6. \A t \in born : t[1] \in left /\ t = <<t[1], calls + 1>>
  BY DEF NewTokens
<1>7. \A f : f \in left <=> f \in F /\ W[f] \in LeftVals
  BY Zenon
<1>8. \A f : f \in right <=> /\ f \in F /\ W[f] \in RightVals
                             /\ f \in left \/ left = {}
  BY Zenon DEF Survivors
<1> HIDE DEF left, right, born
<1>9. lpass' = {f \in wm' : val'[f] \in LeftVals}
  <2>1. ASSUME NEW f PROVE f \in lpass' <=> f \in wm' /\ val'[f] \in LeftVals
    BY <1>1, <1>2, <1>3, <1>7, Zenon DEF AlphaSound
  <2> QED BY <2>1, Zenon
<1>10. \A f \in rpass' : val'[f] \in RightVals
  BY <1>1, <1>2, <1>3, <1>8, Zenon DEF AlphaSound
<1>11. ASSUME NEW f \in lpass' PROVE \E t \in tok' : t[1] = f
  <2>1. CASE f \in lpass
    BY <2>1, <1>1, Zenon DEF AlphaSound
  <2>2. CASE f \in left
    BY <2>2, <1>1, <1>5, Zenon
  <2> QED BY <1>1, <1>11, <2>1, <2>2, Zenon
<1>12. \A t \in tok, u \in born : t[1] # u[1]
  BY <1>2, <1>3, <1>4, <1>6, <1>7, Zenon
<1>13. \A t, u \in born : t[1] = u[1] => t = u
  BY <1>6, Zenon
<1>14. \A t, u \in tok' : t[1] = u[1] => t = u
  BY <1>1, <1>12, <1>13, Zenon DEF AlphaSound
<1>15. AlphaSound'
  BY <1>9, <1>10, <1>11, <1>14, Zenon DEF AlphaSound
<1>16. ASSUME AlphaComplete, ~MixedBatch PROVE AlphaComplete'
  <2> SUFFICES ASSUME NEW f \in wm', val'[f] \in RightVals PROVE f \in rpass'
    BY Zenon DEF AlphaComplete
  <2>1. CASE f \in wm
    BY <2>1, <1>1, <1>3, <1>16, Zenon DEF AlphaComplete
  <2>2. CASE f \in F
    <3>1. f \in left \/ left = {}
      BY <2>2, <1>3, <1>7, <1>16, Zenon DEF MixedBatch
    <3> QED BY <2>2, <3>1, <1>1, <1>3, <1>8, Zenon
  <2> QED BY <1>1, <2>1, <2>2, Zenon
<1>17. ASSUME MixedBatch PROVE ~AlphaComplete'
  <2>1. PICK f \in wm' \ wm, g \in wm' \ wm :
           val'[f] \in LeftVals /\ val'[g] \in RightVals \ LeftVals
    BY <1>17, Zenon DEF MixedBatch
  <2>2. f \in left /\ g \in F /\ g \notin left
    BY <2>1, <1>3, <1>7, Zenon
  <2>3. g \notin rpass'
    BY <2>2, <1>1, <1>2, <1>3, <1>8, Zenon
  <2> QED BY <2>1, <2>3, Zenon DEF AlphaComplete
<1> QED BY <1>15, <1>16, <1>17, Zenon DEF AlphaStep

\* One step for each call of the session.
LEMMA NextSound == IInv /\ AlphaSound /\ [Next]_vars => AlphaStep
<1> SUFFICES ASSUME IInv, AlphaSound, [Next]_vars PROVE AlphaStep
  BY Zenon
<1>1. /\ wm \subseteq Facts /\ lpass \subseteq wm /\ rpass \subseteq wm
      /\ val \in [Facts -> ValOpt]
  BY Zenon DEF IInv, Base
<1>2. CASE UNCHANGED vars
  BY <1>2, Zenon DEF vars, alpha, AlphaSound, AlphaComplete, MixedBatch, AlphaStep
<1>3. CASE Reset
  BY <1>3, Zenon DEF Reset, AlphaSound, AlphaComplete, MixedBatch, AlphaStep
<1>4. ASSUME NEW f \in Facts, NEW k, NEW v, AddFact(f, k, v) PROVE AlphaStep
  <2> DEFINE l == AlphaEvent(lpass, v \in LeftVals, f, "ASSERT")
             r == AlphaEvent(rpass, v \in RightVals, f, "ASSERT")
  <2>1. /\ f \notin wm /\ wm' = wm \cup {f} /\ val' = [val EXCEPT ![f] = v]
        /\ Activate(f, l, r)
    BY <1>4, Zenon DEF AddFact, Enter
  <2>2. Fits(lpass, f, l) /\ Fits(rpass, f, r)
    BY <1>1, <2>1, Zenon DEF Fits, AlphaEvent, Events
  <2>3. (f \in lpass' <=> v \in LeftVals) /\ (f \in rpass' <=> v \in RightVals)
    BY <1>1, <2>1, Zenon DEF Activate, Passing, AlphaEvent
  <2>4. val'[f] = v /\ \A g \in Facts : g # f => (g \in wm' <=> g \in wm) /\ val'[g] = val[g]
    BY <1>1, <2>1, Zenon
  <2> HIDE DEF l, r
  <2> QED BY <1>1, <2>1, <2>2, <2>3, <2>4, ActivateSound, Zenon
<1>5. ASSUME NEW F \in SUBSET (Facts \ wm), NEW X \in BatchInputs[F],
             AddFacts(F, [f \in F |-> X[f][1]], [f \in F |-> X[f][2]])
      PROVE  AlphaStep
  <2>1. X \in [F -> KeyOpt \X ValOpt] /\ F \in SUBSET Facts
    BY <1>5, Zenon DEF BatchInputs
  <2>2. [f \in F |-> X[f][1]] \in [F -> KeyOpt] /\ [f \in F |-> X[f][2]] \in [F -> ValOpt]
    BY <2>1, Zenon
  <2> QED BY <1>5, <2>1, <2>2, AddFactsSound, Zenon
<1>6. ASSUME NEW f \in Facts, RetractFact(f) PROVE AlphaStep
  <2> DEFINE l == AlphaEvent(lpass, val[f] \in LeftVals, f, "RETRACT")
             r == AlphaEvent(rpass, val[f] \in RightVals, f, "RETRACT")
  <2>1. wm' = wm \ {f} /\ val' = val /\ Activate(f, l, r)
    BY <1>6, Zenon DEF RetractFact, Enter
  <2>2. Fits(lpass, f, l) /\ Fits(rpass, f, r)
    BY Zenon DEF Fits, AlphaEvent, Events
  <2>3. f \notin lpass' /\ f \notin rpass' /\ f \notin wm'
    BY <2>1, Zenon DEF Activate, Passing, AlphaEvent
  <2>4. \A g \in Facts : g # f => (g \in wm' <=> g \in wm) /\ val'[g] = val[g]
    BY <2>1, Zenon
  <2>5. wm' \subseteq Facts
    BY <1>1, <2>1, Zenon
  <2> HIDE DEF l, r
  <2> QED BY <2>1, <2>2, <2>3, <2>4, <2>5, ActivateSound, Zenon
<1>7. ASSUME NEW F \in SUBSET wm, RetractFacts(F) PROVE AlphaStep
  <2>1. /\ wm' = wm \ F /\ val' = val /\ lpass' = lpass \ F /\ rpass' = rpass \ F
        /\ tok' = tok \ TokensOf(F)
    BY <1>7, Zenon DEF RetractFacts, Propagate
  <2>2. \A t : t \in tok' <=> t \in tok /\ t[1] \notin F
    BY <2>1, Zenon DEF TokensOf
  <2>3. AlphaSound'
    BY <2>1, <2>2, Zenon DEF AlphaSound
  <2> QED BY <2>1, <2>3, Zenon DEF AlphaComplete, MixedBatch, AlphaStep
<1>8. ASSUME NEW f \in Facts, NEW k, NEW v, UpdateFact(f, k, v) PROVE AlphaStep
  <2> DEFINE l == AlphaEvent(lpass, v \in LeftVals, f, "MODIFY")
             r == AlphaEvent(rpass, v \in RightVals, f, "MODIFY")
  <2>1. f \in wm /\ wm' = wm /\ val' = [val EXCEPT ![f] = v] /\ Activate(f, l, r)
    BY <1>8, Zenon DEF UpdateFact, Enter
  <2>2. Fits(lpass, f, l) /\ Fits(rpass, f, r)
    BY Zenon DEF Fits, AlphaEvent, Events
  <2>3. (f \in lpass' <=> v \in LeftVals) /\ (f \in rpass' <=> v \in RightVals)
    BY <2>1, Zenon DEF Activate, Passing, AlphaEvent
  <2>4. val'[f] = v /\ \A g \in Facts : g # f => (g \in wm' <=> g \in wm) /\ val'[g] = val[g]
    BY <1>1, <2>1, Zenon
  <2> HIDE DEF l, r
  <2> QED BY <1>1, <2>1, <2>2, <2>3, <2>4, ActivateSound, Zenon
<1>9. ASSUME NEW f \in Facts, NEW k, PropagateModify(f, k) PROVE AlphaStep
  <2> DEFINE l == IF f \in lpass THEN "MODIFY" ELSE "none"
             r == IF f \in rpass THEN "MODIFY" ELSE "none"
  <2>1. f \in wm /\ wm' = wm /\ val' = val /\ Activate(f, l, r)
    BY <1>9, Zenon DEF PropagateModify
  <2>2. Fits(lpass, f, l) /\ Fits(rpass, f, r)
    BY Zenon DEF Fits, Events
  <2>3. (f \in lpass' <=> f \in lpass) /\ (f \in rpass' <=> f \in rpass)
    BY <2>1, Zenon DEF Activate, Passing
  <2>4. /\ f \in lpass' <=> f \in wm' /\ val'[f] \in LeftVals
        /\ f \in rpass' => val'[f] \in RightVals
        /\ AlphaComplete /\ f \in wm' /\ val'[f] \in RightVals => f \in rpass'
    BY <2>1, <2>3, Zenon DEF AlphaSound, AlphaComplete
  <2>5. \A g \in Facts : g # f => (g \in wm' <=> g \in wm) /\ val'[g] = val[g]
    BY <2>1, Zenon
  <2> HIDE DEF l, r
  <2> QED BY <1>1, <2>1, <2>2, <2>4, <2>5, ActivateSound, Zenon
<1> QED BY <1>2, <1>3, <1>4, <1>5, <1>6, <1>7, <1>8, <1>9, Zenon DEF Next, Call

\* A new session.
LEMMA InitSound == Init => AlphaSound /\ AlphaComplete
BY Zenon DEF Init, AlphaSound, AlphaComplete

\* Whatever the calls, alpha L and the root join have exactly the facts that the
\* left pattern accepts, one token each, and alpha R has no wrong fact
\* (AlphaNode::right_activate, right_activate_batch).
THEOREM AlphaStaysSound == Spec => []AlphaSound
<1>1. IInv /\ AlphaSound /\ [Next]_vars => AlphaSound'
  BY NextSound, Zenon DEF AlphaStep
<1> QED BY <1>1, InitSound, NetworkInvariant, PTL DEF Spec

\* Which calls lose facts, exactly: from a state where alpha R has all its facts, a
\* step leads to one where it has not if and only if it is an add_facts that mixes
\* facts alpha L accepts with facts that only alpha R accepts.
THEOREM OnlyMixedBatchesLose ==
    Spec => [][AlphaComplete => (AlphaComplete' <=> ~MixedBatch)]_vars
<1>1. IInv /\ AlphaSound /\ [Next]_vars => (AlphaComplete => (AlphaComplete' <=> ~MixedBatch))
  BY NextSound, Zenon DEF AlphaStep
<1> QED BY <1>1, AlphaStaysSound, NetworkInvariant, PTL DEF Spec

\* So a session that is never given such a batch misses no fact.
THEOREM UnmixedStaysComplete == Spec /\ [][~MixedBatch]_vars => []AlphaComplete
<1>1. AlphaComplete /\ UNCHANGED vars => AlphaComplete'
  BY Zenon DEF AlphaComplete, vars, alpha
<1> QED BY <1>1, InitSound, OnlyMixedBatchesLose, PTL DEF Spec

\* Nor does one whose first alpha node accepts all that the second does, whatever
\* the batches.
THEOREM WiderPatternFirst == RightVals \subseteq LeftVals => (Spec => []AlphaComplete)
<1> SUFFICES ASSUME RightVals \subseteq LeftVals PROVE Spec => []AlphaComplete
  BY Zenon
<1>1. ~MixedBatch
  BY Zenon DEF MixedBatch
<1> QED BY <1>1, UnmixedStaysComplete, PTL

\* What the nodes answer, as a question about working memory alone: not and exists
\* nodes have exactly the facts of the left pattern with no, or some, partner; the
\* cross-product join exactly the pairs, each once; the hashed join all pairs.
AnswersFacts ==
    LET Partner(g) == g \in wm /\ val[g] \in RightVals
        Left == {f \in wm : val[f] \in LeftVals}
    IN  /\ \A n \in Conds :
             {t[1] : t \in cond[n].out} =
                {f \in Left : LET some == \E g \in wm : Partner(g) /\ Joins(n, key, f, g)
                              IN  IF n \in NotNodes THEN ~some ELSE some}
        /\ {<<c[1][1], c[2]>> : c \in cross.kids} =
                {p \in Left \X wm : Partner(p[2]) /\ OtherKey(key, p[1], p[2])}
        /\ \A c, d \in cross.kids : c[1][1] = d[1][1] /\ c[2] = d[2] => c = d
        /\ \A f \in Left, g \in wm :
             Partner(g) /\ SameKey(key, f, g) =>
                \E c \in hashed.kids : c[1][1] = f /\ c[2] = g

\* End to end: as long as alpha R has all its facts, the nodes below answer for
\* working memory, for any facts, keys, patterns and nodes, after any calls.
THEOREM NodesAnswerFacts == Spec => [](AlphaComplete => AnswersFacts)
<1>1. ASSUME ConditionsExact, CrossExact, HashedComplete, AlphaSound, AlphaComplete, IInv
      PROVE  AnswersFacts
  <2> DEFINE Left == {f \in wm : val[f] \in LeftVals}
             Partner(g) == g \in wm /\ val[g] \in RightVals
  <2>1. rpass = {g \in wm : val[g] \in RightVals} /\ lpass = Left
    BY <1>1, Zenon DEF IInv, Base, AlphaSound, AlphaComplete
  <2>2. \A t \in tok : t[1] \in Left
    BY <1>1, <2>1, Zenon DEF IInv, Base
  <2>3. \A f \in Left : \E t \in tok : t[1] = f
    BY <1>1, <2>1, Zenon DEF AlphaSound
  <2>4. \A g : g \in rpass <=> Partner(g)
    BY <2>1, Zenon
  <2> HIDE DEF Left, Partner
  <2>5. ASSUME NEW n \in Conds
        PROVE  {t[1] : t \in cond[n].out} =
                 {f \in Left : LET some == \E g \in wm : Partner(g) /\ Joins(n, key, f, g)
                               IN  IF n \in NotNodes THEN ~some ELSE some}
    <3> DEFINE Holds(f) == LET some == \E g \in rpass : Joins(n, key, f, g)
                           IN  IF n \in NotNodes THEN ~some ELSE some
               Asked(f) == LET some == \E g \in wm : Partner(g) /\ Joins(n, key, f, g)
                           IN  IF n \in NotNodes THEN ~some ELSE some
    <3>1. \A f : Holds(f) <=> Asked(f)
      <4>1. \A g : g \in rpass <=> g \in wm /\ Partner(g)
        BY <2>4, Zenon DEF Partner
      <4> QED BY <4>1, Zenon
    <3>2. cond[n].out = {t \in tok : Holds(t[1])}
      BY <1>1, Zenon DEF ConditionsExact
    <3> HIDE DEF Holds, Asked
    <3>3. \A t \in cond[n].out : t \in tok /\ Asked(t[1])
      BY <3>1, <3>2, Zenon
    <3>4. \A t \in tok : Asked(t[1]) => t \in cond[n].out
      BY <3>1, <3>2, Zenon
    <3>5. {t[1] : t \in cond[n].out} = {f \in Left : Asked(f)}
      <4>1. ASSUME NEW f \in {t[1] : t \in cond[n].out} PROVE f \in Left /\ Asked(f)
        BY <2>2, <3>3, Zenon
      <4>2. ASSUME NEW f \in Left, Asked(f) PROVE f \in {t[1] : t \in cond[n].out}
        BY <2>3, <3>4, <4>2, Zenon
      <4> QED BY <4>1, <4>2, Zenon
    <3> QED BY <3>5, Zenon DEF Asked
  <2>6. \A c : c \in cross.kids <=>
          c \in tok \X rpass /\ OtherKey(key, c[1][1], c[2])
    BY <1>1, Zenon DEF CrossExact
  <2>7. {<<c[1][1], c[2]>> : c \in cross.kids} =
          {p \in Left \X wm : Partner(p[2]) /\ OtherKey(key, p[1], p[2])}
    <3>1. ASSUME NEW c \in cross.kids
          PROVE  /\ <<c[1][1], c[2]>> \in Left \X wm
                 /\ Partner(c[2]) /\ OtherKey(key, c[1][1], c[2])
      <4>0. c \in tok \X rpass /\ OtherKey(key, c[1][1], c[2])
        BY <2>6, Zenon
      <4>1. c[1] \in tok /\ c[2] \in rpass /\ OtherKey(key, c[1][1], c[2])
        BY <4>0
      <4>2. c[1][1] \in Left /\ c[2] \in wm /\ Partner(c[2])
        BY <4>1, <2>2, <2>4, Zenon DEF Partner
      <4> QED BY <4>1, <4>2, Zenon
    <3>2. ASSUME NEW f \in Left, NEW g \in wm, Partner(g), OtherKey(key, f, g)
          PROVE  \E c \in cross.kids : <<c[1][1], c[2]>> = <<f, g>>
      <4>1. PICK t \in tok : t[1] = f
        BY <2>3, Zenon
      <4>2. <<t, g>> \in tok \X rpass /\ <<t, g>>[1] = t /\ <<t, g>>[2] = g
        BY <2>4, <3>2, Zenon
      <4>3. <<t, g>> \in cross.kids
        BY <2>6, <3>2, <4>1, <4>2, Zenon
      <4> QED BY <4>1, <4>2, <4>3, Zenon
    <3>3. ASSUME NEW p \in Left \X wm, Partner(p[2]), OtherKey(key, p[1], p[2])
          PROVE  p \in {<<c[1][1], c[2]>> : c \in cross.kids}
      <4>1. p = <<p[1], p[2]>> /\ p[1] \in Left /\ p[2] \in wm
        OBVIOUS
      <4>2. PICK c \in cross.kids : <<c[1][1], c[2]>> = <<p[1], p[2]>>
        BY <3>2, <3>3, <4>1, Zenon
      <4> QED BY <4>1, <4>2, Zenon
    <3>4. ASSUME NEW p \in {<<c[1][1], c[2]>> : c \in cross.kids}
          PROVE  p \in Left \X wm /\ Partner(p[2]) /\ OtherKey(key, p[1], p[2])
      <4>1. PICK c \in cross.kids : p = <<c[1][1], c[2]>>
        BY Zenon
      <4>2. p[1] = c[1][1] /\ p[2] = c[2]
        BY <4>1, Zenon
      <4> QED BY <3>1, <4>1, <4>2, Zenon
    <3> QED BY <3>3, <3>4, Zenon
  <2>8. \A c, d \in cross.kids : c[1][1] = d[1][1] /\ c[2] = d[2] => c = d
    <3>1. ASSUME NEW c \in cross.kids, NEW d \in cross.kids, c[1][1] = d[1][1], c[2] = d[2]
          PROVE  c = d
      <4>1. c \in tok \X rpass /\ d \in tok \X rpass
        BY <2>6, Zenon
      <4>2. c = <<c[1], c[2]>> /\ d = <<d[1], d[2]>> /\ c[1] \in tok /\ d[1] \in tok
        BY <4>1
      <4>3. c[1] = d[1]
        BY <1>1, <3>1, <4>2, Zenon DEF AlphaSound
      <4> QED BY <3>1, <4>2, <4>3, Zenon
    <3> QED BY <3>1, Zenon
  <2>9. ASSUME NEW f \in Left, NEW g \in wm, Partner(g), SameKey(key, f, g)
        PROVE  \E c \in hashed.kids : c[1][1] = f /\ c[2] = g
    <3>1. PICK t \in tok : t[1] = f
      BY <2>3, Zenon
    <3>2. <<t, g>> \in hashed.kids /\ <<t, g>>[1] = t /\ <<t, g>>[2] = g
      BY <1>1, <2>4, <2>9, <3>1, Zenon DEF HashedComplete
    <3> QED BY <3>1, <3>2, Zenon
  <2> QED BY <2>5, <2>7, <2>8, <2>9, Zenon DEF AnswersFacts, Left, Partner
<1> QED
  BY <1>1, ConditionsStayExact, CrossStaysExact, HashedStaysComplete, AlphaStaysSound,
     NetworkInvariant, PTL

-----------------------------------------------------------------------------
(* Induction and recursion, in the first-order form that the provers take *)

\* A nonempty set of numbers has a least one.
LEMMA NatMin ==
    ASSUME NEW T \in SUBSET Nat, T # {}
    PROVE  \E n \in T : \A m \in T : n <= m
<1> DEFINE R == {ss \in Nat \X Nat : ss[1] < ss[2]}
<1>1. IsWellFoundedOn(R, Nat)
  BY NatLessThanWellFounded, Zenon DEF OpToRel
<1>2. \E n \in T : \A m \in T : ~(<<m, n>> \in R)
  <2> HIDE DEF R
  <2> QED BY <1>1, WFMin, Zenon
<1>3. PICK n \in T : \A m \in T : ~(<<m, n>> \in R)
  BY <1>2, Zenon
<1>4. ASSUME NEW m \in T PROVE n <= m
  <2>1. m \in Nat /\ n \in Nat /\ ~(<<m, n>> \in R)
    BY <1>3, Zenon
  <2>2. ~(m < n)
    BY <2>1, Zenon
  <2> QED BY <2>1, <2>2
<1> QED BY <1>4, Zenon

\* Induction up to n.
LEMMA UpTo ==
    ASSUME NEW n \in Nat, NEW T, 0 \in T, \A i \in 1..n : i - 1 \in T => i \in T
    PROVE  \A i \in 0..n : i \in T
<1> DEFINE Bad == {i \in 0..n : i \notin T}
<1> SUFFICES ASSUME Bad # {} PROVE FALSE
  BY Zenon
<1>1. Bad \in SUBSET Nat
  OBVIOUS
<1>2. PICK i \in Bad : \A j \in Bad : i <= j
  <2> HIDE DEF Bad
  <2> QED BY <1>1, NatMin, Zenon
<1>3. i \in 1..n
  BY <1>2
<1>4. i - 1 \in T
  BY <1>2, <1>3
<1> QED BY <1>2, <1>3, <1>4, Zenon

\* f is the sequence of values of a loop of n rounds that starts with a.
IsLoop(f, n, S, a, G) ==
    f \in [0..n -> S] /\ f[0] = a /\ \A i \in 1..n : f[i] = G[i][f[i - 1]]

\* The sequence that a loop computes exists.
LEMMA LoopExists ==
    ASSUME NEW n \in Nat, NEW S, NEW a \in S, NEW G \in [1..n -> [S -> S]]
    PROVE  \E f : IsLoop(f, n, S, a, G)
<1> DEFINE Loop(f, m) == f[0] = a /\ \A i \in 1..m : f[i] = G[i][f[i - 1]]
<1> DEFINE Has(m) == \E f \in [0..m -> S] : Loop(f, m)
<1> DEFINE T == {m \in 0..n : Has(m)}
<1>1. Has(0)
  <2> DEFINE f == [i \in 0..0 |-> a]
  <2>1. f \in [0..0 -> S]
    BY Zenon
  <2>2. f[0] = a
    OBVIOUS
  <2>3. Loop(f, 0)
    BY <2>2
  <2> HIDE DEF f, Loop
  <2> QED BY <2>1, <2>3, Zenon
<1>2. ASSUME NEW m \in 1..n, Has(m - 1) PROVE Has(m)
  <2>1. PICK f \in [0..(m - 1) -> S] : Loop(f, m - 1)
    BY <1>2, Zenon
  <2>2. PICK last \in S : last = G[m][f[m - 1]]
    <3>1. f[m - 1] \in S
      BY <2>1
    <3> QED BY <3>1, Zenon
  <2> DEFINE g == [i \in 0..m |-> IF i = m THEN last ELSE f[i]]
  <2>3. g \in [0..m -> S]
    BY <2>1
  <2>4. g[m] = last /\ \A i \in 0..(m - 1) : g[i] = f[i]
    OBVIOUS
  <2>5. g[0] = a
    BY <2>1, <2>4
  <2> HIDE DEF g
  <2>6. ASSUME NEW i \in 1..m PROVE g[i] = G[i][g[i - 1]]
    <3>1. g[i - 1] = f[i - 1]
      BY <2>4
    <3>2. CASE i = m
      BY <2>2, <2>4, <3>1, <3>2, Zenon
    <3>3. CASE i # m
      <4>1. i \in 1..(m - 1) /\ i \in 0..(m - 1)
        BY <3>3
      <4>2. f[i] = G[i][f[i - 1]]
        BY <2>1, <4>1, Zenon
      <4> QED BY <2>4, <3>1, <4>1, <4>2, Zenon
    <3> QED BY <3>2, <3>3, Zenon
  <2>7. Loop(g, m)
    BY <2>5, <2>6, Zenon
  <2> HIDE DEF Loop
  <2> QED BY <2>3, <2>7, Zenon
<1> HIDE DEF Has
<1>3. 0 \in T /\ \A m \in 1..n : m - 1 \in T => m \in T
  BY <1>1, <1>2
<1>4. n \in T
  <2> HIDE DEF T
  <2>1. \A i \in 0..n : i \in T
    BY <1>3, UpTo, Zenon
  <2> QED BY <2>1
<1>5. PICK f \in [0..n -> S] : Loop(f, n)
  BY <1>4, Zenon DEF Has
<1>6. IsLoop(f, n, S, a, G)
  BY <1>5, Zenon DEF IsLoop
<1> QED BY <1>6, Zenon

-----------------------------------------------------------------------------
(* Sums over finite sets *)

Pick(s) == CHOOSE x \in s : TRUE

\* g is the function that SumFunction computes for w, element after element.
IsSum(g, w, S) ==
    g = [s \in SUBSET S |-> IF s = {} THEN 0 ELSE w[Pick(s)] + g[s \ {Pick(s)}]]

\* Pick chooses an element, and what is left is smaller.
LEMMA PickIn ==
    ASSUME NEW s, IsFiniteSet(s), s # {}
    PROVE  /\ Pick(s) \in s /\ IsFiniteSet(s \ {Pick(s)})
           /\ Cardinality(s) \in Nat /\ Cardinality(s) > 0
           /\ Cardinality(s \ {Pick(s)}) = Cardinality(s) - 1
<1>1. Pick(s) \in s
  BY Zenon DEF Pick
<1>2. Cardinality(s) \in Nat /\ Cardinality(s) # 0
  BY FS_CardinalityType, FS_EmptySet, Zenon
<1>3. IsFiniteSet(s \ {Pick(s)}) /\ Cardinality(s \ {Pick(s)}) = Cardinality(s) - 1
  BY <1>1, FS_RemoveElement, Zenon
<1> QED BY <1>1, <1>2, <1>3

\* The function that SumFunction computes exists.
LEMMA SumExists ==
    ASSUME NEW S, IsFiniteSet(S), NEW w \in [S -> Int]
    PROVE  \E g \in [SUBSET S -> Int] : IsSum(g, w, S)
<1> DEFINE Small(n) == {s \in SUBSET S : Cardinality(s) <= n}
           Step(g, s) == g[s] = IF s = {} THEN 0 ELSE w[Pick(s)] + g[s \ {Pick(s)}]
           Has(n) == \E g \in [Small(n) -> Int] : \A s \in Small(n) : Step(g, s)
<1>1. \A s \in SUBSET S : IsFiniteSet(s) /\ Cardinality(s) \in Nat
  BY FS_Subset, FS_CardinalityType, Zenon
<1>2. Has(0)
  <2> DEFINE g == [s \in Small(0) |-> 0]
  <2>1. ASSUME NEW s \in Small(0) PROVE s = {}
    BY <1>1, FS_EmptySet
  <2>2. g \in [Small(0) -> Int] /\ \A s \in Small(0) : Step(g, s)
    BY <2>1
  <2> QED BY <2>2, Zenon
<1>3. ASSUME NEW n \in Nat, Has(n) PROVE Has(n + 1)
  <2>1. PICK g \in [Small(n) -> Int] : \A s \in Small(n) : Step(g, s)
    BY <1>3, ZenonT(30)
  <2> DEFINE h == [s \in Small(n + 1) |->
                     IF s \in Small(n) THEN g[s] ELSE w[Pick(s)] + g[s \ {Pick(s)}]]
  <2>2. ASSUME NEW s \in Small(n + 1), s # {}
        PROVE  s \ {Pick(s)} \in Small(n) /\ s \ {Pick(s)} \in Small(n + 1) /\ Pick(s) \in S
    <3>1. /\ Pick(s) \in s /\ Cardinality(s) \in Nat /\ Cardinality(s) <= n + 1
          /\ Cardinality(s \ {Pick(s)}) = Cardinality(s) - 1
      BY <1>1, <2>2, PickIn, Zenon
    <3> QED BY <3>1
  <2>3. \A s \in Small(n) : s \in Small(n + 1)
    BY <1>1
  <2>4. {} \in Small(n)
    BY FS_EmptySet
  <2> HIDE DEF Small
  <2>5. ASSUME NEW s \in Small(n + 1) PROVE h[s] \in Int /\ Step(h, s)
    <3>1. CASE s = {}
      BY <2>1, <2>4, <3>1, Zenon
    <3>2. CASE s # {}
      <4>1. /\ s \ {Pick(s)} \in Small(n) /\ s \ {Pick(s)} \in Small(n + 1)
            /\ g[s \ {Pick(s)}] \in Int /\ w[Pick(s)] \in Int
        BY <2>1, <2>2, <3>2, Zenon
      <4>2. h[s \ {Pick(s)}] = g[s \ {Pick(s)}]
        BY <4>1, Zenon
      <4>3. h[s] = w[Pick(s)] + g[s \ {Pick(s)}]
        BY <2>1, <3>2, Zenon
      <4> QED BY <3>2, <4>1, <4>2, <4>3
    <3> QED BY <3>1, <3>2, Zenon
  <2>6. h \in [Small(n + 1) -> Int]
    BY <2>5, Zenon
  <2>7. \A s \in Small(n + 1) : Step(h, s)
    BY <2>5, Zenon
  <2> HIDE DEF h, Step
  <2> QED BY <2>6, <2>7, Zenon
<1>4. Has(Cardinality(S))
  <2> DEFINE m == Cardinality(S)
             T == {i \in Nat : Has(i)}
  <2>1. m \in Nat
    BY <1>1, Zenon
  <2>2. 0 \in T
    BY <1>2, Zenon
  <2>3. ASSUME NEW i \in 1..m, i - 1 \in T PROVE i \in T
    <3> HIDE DEF Has
    <3>1. i - 1 \in Nat /\ Has(i - 1) /\ i - 1 + 1 = i /\ i \in Nat
      BY <2>1, <2>3
    <3> QED BY <1>3, <3>1, Zenon
  <2> HIDE DEF T, m
  <2>4. \A i \in 0..m : i \in T
    BY <2>1, <2>2, <2>3, UpTo, Zenon
  <2>5. m \in T
    BY <2>1, <2>4
  <2> QED BY <2>5, Zenon DEF T, m
<1>5. Small(Cardinality(S)) = SUBSET S
  BY FS_Subset, Zenon
<1>6. PICK g \in [SUBSET S -> Int] : \A s \in SUBSET S : Step(g, s)
  <2> HIDE DEF Small, Step
  <2> QED BY <1>4, <1>5, Zenon
<1>7. IsSum(g, w, S)
  BY <1>6, Zenon DEF IsSum
<1> QED BY <1>7, Zenon

\* Adding an element adds its value, whatever the order of summation.
LEMMA SumInsert ==
    ASSUME NEW S, IsFiniteSet(S), NEW w \in [S -> Int], NEW g \in [SUBSET S -> Int],
           IsSum(g, w, S)
    PROVE  /\ g[{}] = 0
           /\ \A A \in SUBSET S : \A x \in S \ A : g[A \cup {x}] = g[A] + w[x]
<1>1. \A s \in SUBSET S : g[s] = IF s = {} THEN 0 ELSE w[Pick(s)] + g[s \ {Pick(s)}]
  BY Zenon DEF IsSum
<1>2. \A s \in SUBSET S : IsFiniteSet(s) /\ Cardinality(s) \in Nat
  BY FS_Subset, FS_CardinalityType, Zenon
<1> DEFINE Adds(A) == \A x \in S \ A : g[A \cup {x}] = g[A] + w[x]
           T == {n \in Nat : \A A \in SUBSET S : Cardinality(A) <= n => Adds(A)}
           m == Cardinality(S)
<1>3. ASSUME NEW A \in SUBSET S, NEW x \in S \ A,
             \A B \in SUBSET S : Cardinality(B) < Cardinality(A) => Adds(B)
      PROVE  g[A \cup {x}] = g[A] + w[x]
  <2> DEFINE U == A \cup {x}
             y == Pick(U)
  <2>1. U \in SUBSET S /\ U # {} /\ IsFiniteSet(U) /\ y \in U
    BY <1>2, PickIn, Zenon
  <2>2. g[U] = w[y] + g[U \ {y}]
    BY <1>1, <2>1, Zenon
  <2>3. CASE y = x
    <3>1. U \ {y} = A
      BY <2>3, Zenon
    <3>2. g[A] \in Int /\ w[x] \in Int
      BY Zenon
    <3>3. g[U] = w[x] + g[A]
      BY <2>2, <2>3, <3>1, Zenon
    <3> QED BY <3>2, <3>3
  <2>4. CASE y # x
    <3> DEFINE B == A \ {y}
    <3> HIDE DEF y
    <3>1. y \in A /\ B \in SUBSET S /\ x \in S \ B /\ y \in S \ B
      BY <2>1, <2>4, Zenon
    <3>2. U \ {y} = B \cup {x} /\ B \cup {y} = A
      BY <2>4, <3>1, Zenon
    <3>3. Cardinality(B) < Cardinality(A)
      <4>1. Cardinality(B) = Cardinality(A) - 1 /\ Cardinality(A) \in Nat
        BY <1>2, <3>1, FS_RemoveElement, Zenon
      <4> QED BY <4>1
    <3>4. Adds(B)
      BY <1>3, <3>1, <3>3, Zenon
    <3>5. g[B \cup {x}] = g[B] + w[x] /\ g[B \cup {y}] = g[B] + w[y]
      BY <3>1, <3>4, Zenon
    <3>6. PICK a \in Int, b \in Int, c \in Int : a = g[B] /\ b = w[x] /\ c = w[y]
      BY <3>1, Zenon
    <3>7. g[U] = c + (a + b) /\ g[A] = a + c
      BY <2>2, <3>2, <3>5, <3>6, Zenon
    <3> QED BY <3>6, <3>7
  <2> QED BY <2>3, <2>4, Zenon
<1>4. m \in Nat
  BY <1>2, Zenon
<1>5. 0 \in T
  <2>1. ASSUME NEW A \in SUBSET S, Cardinality(A) <= 0 PROVE Adds(A)
    <3>1. \A B \in SUBSET S : ~(Cardinality(B) < Cardinality(A))
      BY <1>2, <2>1
    <3> QED BY <1>3, <3>1, Zenon
  <2> QED BY <2>1, Zenon
<1>6. ASSUME NEW i \in 1..m, i - 1 \in T PROVE i \in T
  <2>1. ASSUME NEW A \in SUBSET S, Cardinality(A) <= i PROVE Adds(A)
    <3>1. ASSUME NEW B \in SUBSET S, Cardinality(B) < Cardinality(A) PROVE Adds(B)
      <4>1. Cardinality(B) <= i - 1
        BY <1>2, <2>1, <3>1
      <4> HIDE DEF Adds
      <4> QED BY <1>6, <4>1, Zenon
    <3> QED BY <1>3, <3>1, Zenon
  <2> HIDE DEF Adds
  <2> QED BY <2>1
<1> HIDE DEF T, m
<1>7. m \in T
  <2>1. \A i \in 0..m : i \in T
    BY <1>4, <1>5, <1>6, UpTo, Zenon
  <2> QED BY <1>4, <2>1
<1>8. \A A \in SUBSET S : Adds(A)
  <2>1. \A A \in SUBSET S : Cardinality(A) <= m
    BY FS_Subset, Zenon DEF m
  <2> HIDE DEF Adds
  <2> QED BY <1>7, <2>1, Zenon DEF T
<1> QED BY <1>1, <1>8, Zenon

\* The sum depends on the values of the elements only.
LEMMA SumAgree ==
    ASSUME NEW S, IsFiniteSet(S), NEW w, NEW g, IsSum(g, w, S),
           NEW R, NEW v, NEW h, IsSum(h, v, R),
           S \subseteq R, \A x \in S : w[x] = v[x]
    PROVE  \A A \in SUBSET S : g[A] = h[A]
<1>1. /\ \A s \in SUBSET S : g[s] = IF s = {} THEN 0 ELSE w[Pick(s)] + g[s \ {Pick(s)}]
      /\ \A s \in SUBSET R : h[s] = IF s = {} THEN 0 ELSE v[Pick(s)] + h[s \ {Pick(s)}]
  BY ZenonT(30) DEF IsSum
<1>2. \A s \in SUBSET S : IsFiniteSet(s) /\ Cardinality(s) \in Nat /\ s \in SUBSET R
  BY FS_Subset, FS_CardinalityType, Zenon
<1> DEFINE T == {n \in Nat : \A A \in SUBSET S : Cardinality(A) <= n => g[A] = h[A]}
           m == Cardinality(S)
<1>3. m \in Nat
  BY <1>2, Zenon
<1>4. 0 \in T
  <2>1. ASSUME NEW A \in SUBSET S, Cardinality(A) <= 0 PROVE g[A] = h[A]
    <3>1. A = {}
      BY <1>2, <2>1, FS_EmptySet
    <3> QED BY <1>1, <1>2, <3>1, Zenon
  <2> QED BY <2>1, Zenon
<1>5. ASSUME NEW i \in 1..m, i - 1 \in T PROVE i \in T
  <2>1. ASSUME NEW A \in SUBSET S, Cardinality(A) <= i PROVE g[A] = h[A]
    <3>1. CASE A = {}
      BY <1>1, <1>2, <3>1, Zenon
    <3>2. CASE A # {}
      <4>1. Pick(A) \in A /\ Cardinality(A \ {Pick(A)}) = Cardinality(A) - 1
        BY <1>2, <3>2, PickIn, Zenon
      <4>2. A \ {Pick(A)} \in SUBSET S /\ Cardinality(A \ {Pick(A)}) <= i - 1
        BY <1>2, <2>1, <4>1
      <4>3. g[A \ {Pick(A)}] = h[A \ {Pick(A)}] /\ w[Pick(A)] = v[Pick(A)]
        BY <1>5, <4>1, <4>2, Zenon
      <4> QED BY <1>1, <1>2, <3>2, <4>3, ZenonT(30)
    <3> QED BY <3>1, <3>2, Zenon
  <2>2. i \in Nat
    BY <1>3
  <2> QED BY <2>1, <2>2, Zenon
<1> HIDE DEF T, m
<1>6. m \in T
  <2>1. \A i \in 0..m : i \in T
    BY <1>3, <1>4, <1>5, UpTo, Zenon
  <2> QED BY <1>3, <2>1
<1> QED BY <1>6, FS_Subset, Zenon DEF T, m

\* g sums the integers w over the subsets of the finite set S.
Sums(g, w, S) ==
    IsFiniteSet(S) /\ w \in [S -> Int] /\ g \in [SUBSET S -> Int] /\ IsSum(g, w, S)

\* The sum over a set and another that it has no element of.
LEMMA SumUnion ==
    ASSUME NEW S, NEW w, NEW g, Sums(g, w, S)
    PROVE  \A A \in SUBSET S : \A B \in SUBSET (S \ A) : g[A \cup B] = g[A] + g[B]
<1> SUFFICES ASSUME NEW A \in SUBSET S
             PROVE  \A B \in SUBSET (S \ A) : g[A \cup B] = g[A] + g[B]
  BY Zenon
<1> USE DEF Sums
<1>1. g[{}] = 0 /\ \A C \in SUBSET S : \A x \in S \ C : g[C \cup {x}] = g[C] + w[x]
  BY SumInsert
<1>2. \A s \in SUBSET S : IsFiniteSet(s) /\ Cardinality(s) \in Nat
  BY FS_Subset, FS_CardinalityType, Zenon
<1> DEFINE Q(B) == g[A \cup B] = g[A] + g[B]
           T == {n \in Nat : \A B \in SUBSET (S \ A) : Cardinality(B) <= n => Q(B)}
           m == Cardinality(S)
<1>3. m \in Nat
  BY <1>2, Zenon
<1>4. Q({})
  <2>1. A \cup {} = A /\ g[A] \in Int
    BY Zenon
  <2> QED BY <1>1, <2>1
<1>5. 0 \in T
  <2>1. ASSUME NEW B \in SUBSET (S \ A), Cardinality(B) <= 0 PROVE B = {}
    <3>1. B \in SUBSET S
      BY Zenon
    <3> QED BY <1>2, <2>1, <3>1, FS_EmptySet
  <2> HIDE DEF Q
  <2> QED BY <1>4, <2>1, Zenon
<1>6. ASSUME NEW i \in 1..m, i - 1 \in T PROVE i \in T
  <2>1. ASSUME NEW B \in SUBSET (S \ A), Cardinality(B) <= i, B # {} PROVE Q(B)
    <3>1. PICK x \in B : x = Pick(B) /\ Cardinality(B \ {x}) = Cardinality(B) - 1
      <4>1. B \in SUBSET S
        BY Zenon
      <4> QED BY <1>2, <2>1, <4>1, PickIn, Zenon
    <3> DEFINE C == B \ {x}
    <3>2. /\ C \in SUBSET (S \ A) /\ A \cup C \in SUBSET S /\ x \in S \ C /\ x \in S \ (A \cup C)
          /\ C \in SUBSET S /\ C \cup {x} = B /\ (A \cup C) \cup {x} = A \cup B /\ B \in SUBSET S
      BY <3>1, Zenon
    <3>3. Cardinality(C) <= i - 1
      BY <1>2, <2>1, <3>1, <3>2
    <3> HIDE DEF C
    <3>4. Q(C)
      <4> HIDE DEF Q
      <4> QED BY <1>6, <3>2, <3>3, Zenon
    <3>5. g[B] = g[C] + w[x] /\ g[A \cup B] = g[A \cup C] + w[x]
      BY <1>1, <3>2, Zenon
    <3>6. PICK a \in Int, b \in Int, c \in Int : a = g[A] /\ b = g[C] /\ c = w[x]
      BY <3>2, Zenon
    <3>7. g[A \cup B] = (a + b) + c /\ g[B] = b + c
      BY <3>4, <3>5, <3>6, Zenon
    <3> QED BY <3>6, <3>7
  <2>2. i \in Nat
    BY <1>3
  <2> HIDE DEF Q
  <2> QED BY <1>4, <2>1, <2>2, Zenon
<1> HIDE DEF T, m
<1>7. m \in T
  <2>1. \A i \in 0..m : i \in T
    BY <1>3, <1>5, <1>6, UpTo, Zenon
  <2> QED BY <1>3, <2>1
<1>8. \A B \in SUBSET (S \ A) : Cardinality(B) <= m
  BY FS_Subset, Zenon DEF m
<1> QED BY <1>7, <1>8, Zenon DEF T

\* What SumFunction returns.
LEMMA SumIs ==
    ASSUME NEW S, IsFiniteSet(S), NEW w \in [S -> Int]
    PROVE  \E g \in [SUBSET S -> Int] : IsSum(g, w, S) /\ SumFunction(w) = g[S]
<1>1. PICK g \in [SUBSET S -> Int] : IsSum(g, w, S)
  BY SumExists, Zenon
<1>2. SumFunction(w) = (CHOOSE h : IsSum(h, w, S))[S]
  <2>1. DOMAIN w = S
    BY Zenon
  <2> QED BY <2>1, Zenon DEF SumFunction, SumFunctionOnSet, FoldFunctionOnSet, MapThenFoldSet, IsSum, Pick
<1>3. PICK h : IsSum(h, w, S) /\ SumFunction(w) = h[S]
  BY <1>1, <1>2, Zenon
<1>4. \A A \in SUBSET S : h[A] = g[A]
  BY <1>1, <1>3, SumAgree
<1> QED BY <1>1, <1>3, <1>4, Zenon

\* u and v are the parts of the integers w over A and over the rest of S.
Split(w, S, A, u, v) ==
    /\ IsFiniteSet(S) /\ w \in [S -> Int] /\ A \in SUBSET S
    /\ u = [x \in A |-> w[x]] /\ v = [x \in S \ A |-> w[x]]

\* The sum of w is that of u and that of v.
SumsUp(w, u, v) ==
    /\ SumFunction(u) \in Int /\ SumFunction(v) \in Int
    /\ SumFunction(w) = SumFunction(u) + SumFunction(v)

\* The sum over a set is the sum over two parts of it.
LEMMA SumSplit ==
    ASSUME NEW w, NEW S, NEW A, NEW u, NEW v, Split(w, S, A, u, v)
    PROVE  SumsUp(w, u, v)
<1>1. PICK g \in [SUBSET S -> Int] : IsSum(g, w, S) /\ SumFunction(w) = g[S]
  BY SumIs, Zenon DEF Split
<1>2. ASSUME NEW B \in SUBSET S, NEW z, z = [x \in B |-> w[x]] PROVE SumFunction(z) = g[B]
  <2>1. z \in [B -> Int] /\ IsFiniteSet(B) /\ \A x \in B : z[x] = w[x]
    BY <1>2, FS_Subset, Zenon DEF Split
  <2>2. PICK h \in [SUBSET B -> Int] : IsSum(h, z, B) /\ SumFunction(z) = h[B]
    BY <2>1, SumIs, Zenon
  <2>3. \A C \in SUBSET B : h[C] = g[C]
    BY <1>1, <2>1, <2>2, SumAgree
  <2> QED BY <2>2, <2>3, Zenon
<1>3. A \in SUBSET S /\ A \cup (S \ A) = S /\ S \ A \in SUBSET S
  BY Zenon DEF Split
<1>4. g[A \cup (S \ A)] = g[A] + g[S \ A]
  <2>1. Sums(g, w, S)
    BY <1>1, Zenon DEF Sums, Split
  <2>2. \A B \in SUBSET (S \ A) : g[A \cup B] = g[A] + g[B]
    BY <1>3, <2>1, SumUnion
  <2> QED BY <2>2, Zenon
<1>5. SumFunction(u) = g[A] /\ SumFunction(v) = g[S \ A]
  BY <1>2, <1>3, Zenon DEF Split
<1> QED BY <1>1, <1>3, <1>4, <1>5, ZenonT(30) DEF SumsUp

-----------------------------------------------------------------------------
(* The accumulate node *)

\* What a fact adds is a pair of numbers.
LEMMA TermType ==
    ASSUME NEW K, NEW W \in [Facts -> ValOpt], NEW t, NEW f \in Facts
    PROVE  Term(K, W, t, f).count \in Int /\ Term(K, W, t, f).sum \in Int
<1>1. W[f] # Nil => W[f] \in Int
  BY LengthAssumption, Zenon DEF ValOpt
<1> QED BY <1>1 DEF Term

\* F are some of the facts R, which have the values W.
Part(W, R, F) == W \in [Facts -> ValOpt] /\ R \in SUBSET Facts /\ F \in SUBSET R

TotalsUp(K, W, t, R, F) ==
    /\ Total(K, W, t, R) = Plus(Total(K, W, t, R \ F), Total(K, W, t, F))
    /\ Total(K, W, t, R \ F) = Minus(Total(K, W, t, R), Total(K, W, t, F))

\* The total over a set of facts and another that it has none of
\* (apply_numeric_accumulate adds, and subtracts what it added).
LEMMA TotalSplit ==
    ASSUME NEW K, NEW W, NEW t, NEW R, NEW F, Part(W, R, F)
    PROVE  TotalsUp(K, W, t, R, F)
<1> DEFINE c(S) == [f \in S |-> Term(K, W, t, f).count]
           s(S) == [f \in S |-> Term(K, W, t, f).sum]
<1>1. IsFiniteSet(R) /\ F \in SUBSET R /\ R \ F \in SUBSET R /\ R \ (R \ F) = F
  BY LengthAssumption, FS_Subset, Zenon DEF Part
<1>2. \A f \in R : Term(K, W, t, f).count \in Int /\ Term(K, W, t, f).sum \in Int
  BY TermType, Zenon DEF Part
<1>3. c(R) \in [R -> Int] /\ s(R) \in [R -> Int]
  BY <1>2, Zenon
<1>4. ASSUME NEW S \in SUBSET R
      PROVE  [f \in S |-> c(R)[f]] = c(S) /\ [f \in S |-> s(R)[f]] = s(S)
  BY Zenon
<1>5. /\ c(F) = [f \in F |-> c(R)[f]] /\ c(R \ F) = [f \in R \ F |-> c(R)[f]]
      /\ s(F) = [f \in F |-> s(R)[f]] /\ s(R \ F) = [f \in R \ F |-> s(R)[f]]
  BY <1>1, <1>4, Zenon
<1>6. /\ Total(K, W, t, R) = [count |-> SumFunction(c(R)), sum |-> SumFunction(s(R))]
      /\ Total(K, W, t, F) = [count |-> SumFunction(c(F)), sum |-> SumFunction(s(F))]
      /\ Total(K, W, t, R \ F) = [count |-> SumFunction(c(R \ F)), sum |-> SumFunction(s(R \ F))]
  BY Zenon DEF Total
<1> HIDE DEF c, s
<1>7. /\ SumFunction(c(R \ F)) \in Int /\ SumFunction(c(F)) \in Int
      /\ SumFunction(c(R)) = SumFunction(c(R \ F)) + SumFunction(c(F))
  <2>1. Split(c(R), R, R \ F, c(R \ F), c(F))
    BY <1>1, <1>3, <1>5, Zenon DEF Split
  <2>2. SumsUp(c(R), c(R \ F), c(F))
    BY <2>1, SumSplit, Zenon
  <2> QED BY <2>2, Zenon DEF SumsUp
<1>8. /\ SumFunction(s(R \ F)) \in Int /\ SumFunction(s(F)) \in Int
      /\ SumFunction(s(R)) = SumFunction(s(R \ F)) + SumFunction(s(F))
  <2>1. Split(s(R), R, R \ F, s(R \ F), s(F))
    BY <1>1, <1>3, <1>5, Zenon DEF Split
  <2>2. SumsUp(s(R), s(R \ F), s(F))
    BY <2>1, SumSplit, Zenon
  <2> QED BY <2>2, Zenon DEF SumsUp
<1>9. PICK a \in Int, b \in Int, d \in Int, i \in Int :
        /\ a = SumFunction(c(R \ F)) /\ b = SumFunction(c(F))
        /\ d = SumFunction(s(R \ F)) /\ i = SumFunction(s(F))
  BY <1>7, <1>8, Zenon
<1>10. /\ Total(K, W, t, R) = [count |-> a + b, sum |-> d + i]
       /\ Total(K, W, t, F) = [count |-> b, sum |-> i]
       /\ Total(K, W, t, R \ F) = [count |-> a, sum |-> d]
  BY <1>6, <1>7, <1>8, <1>9, Zenon
<1>11. (a + b) - b = a /\ (d + i) - i = d
  OBVIOUS
<1> QED BY <1>10, <1>11 DEF Plus, Minus, TotalsUp

\* A total depends on the keys and values of its facts and the key of its token.
LEMMA TotalAgrees ==
    ASSUME NEW K, NEW W, NEW K2, NEW W2, NEW t, NEW R,
           \A f \in R : Term(K, W, t, f) = Term(K2, W2, t, f)
    PROVE  Total(K, W, t, R) = Total(K2, W2, t, R)
<1>1. /\ [f \in R |-> Term(K, W, t, f).count] = [f \in R |-> Term(K2, W2, t, f).count]
      /\ [f \in R |-> Term(K, W, t, f).sum] = [f \in R |-> Term(K2, W2, t, f).sum]
  BY Zenon
<1> QED BY <1>1, Zenon DEF Total

\* What a call does to the two patterns, as the accumulate and the window node see
\* it: the event p of the facts F; other facts of alpha R and the keys of tokens
\* that stay have not changed.
AggChange(F, p) ==
    /\ p \in Events /\ F \subseteq Facts
    /\ p = "none" => rpass' = rpass
    /\ p = "RETRACT" => F \subseteq rpass /\ rpass' = rpass \ F
    /\ p = "MODIFY" => F \subseteq rpass /\ rpass' = rpass
    /\ p = "ASSERT" => F \cap rpass = {} /\ rpass' = rpass \cup F
    /\ rpass \subseteq Facts /\ val' \in [Facts -> ValOpt]
    /\ \A t \in tok \cap tok' : key'[t[1]] = key[t[1]]
    /\ \A f \in rpass : f \notin F \/ p = "none" => key'[f] = key[f] /\ val'[f] = val[f]

\* AccumulateNode: a call keeps the items of all tokens right but the skewed ones.
LEMMA AccStep ==
    ASSUME AccumulateExact, NEW F, NEW p, AggChange(F, p), Aggregate(F, p)
    PROVE  AccumulateExact'
<1> DEFINE dead == tok \ tok'
           born == tok' \ tok
           a == AccLeft(acc, dead, born, key', val')
           Tot(t, R) == Total(key', val', t, R)
<1>1. acc' = AccRight(a, F, p, key', val') /\ skewed' = Skewed(F, p)
  BY Zenon DEF Aggregate
<1>2. /\ a.right = rpass /\ DOMAIN a.items = tok'
      /\ \A t \in tok' : a.items[t] = IF t \in born THEN Tot(t, rpass) ELSE acc.items[t]
  BY Zenon DEF AccumulateExact, AccLeft
<1>3. /\ F \subseteq Facts /\ rpass \subseteq Facts /\ p \in Events
      /\ \A f \in rpass : f \notin F \/ p = "none" => key'[f] = key[f] /\ val'[f] = val[f]
  BY ZenonT(30) DEF AggChange
<1>4. ASSUME NEW t \in tok \cap tok', NEW f \in rpass, f \notin F \/ p = "none"
      PROVE  Term(key, val, t, f) = Term(key', val', t, f)
  <2>1. key'[t[1]] = key[t[1]] /\ key'[f] = key[f] /\ val'[f] = val[f]
    BY <1>4, Zenon DEF AggChange
  <2> QED BY <2>1, Zenon DEF Term, SameKey
<1>5. ASSUME NEW t \in tok' \ skewed', p # "MODIFY" PROVE a.items[t] = Tot(t, rpass)
  <2>1. CASE t \in born
    BY <1>2, <2>1, Zenon
  <2>2. CASE t \notin born
    <3>1. t \in tok \cap tok' /\ t \notin skewed
      BY <1>1, <1>5, <2>2, Zenon DEF Skewed
    <3>2. acc.items[t] = Total(key, val, t, rpass) /\ t \in DOMAIN acc.items
      BY <3>1, Zenon DEF AccumulateExact
    <3>3. \A f \in rpass : Term(key, val, t, f) = Term(key', val', t, f)
      <4>1. CASE p = "RETRACT"
        <5>1. \A f \in F : Term(key, val, t, f) = Term(key', val', t, f)
          BY <1>1, <1>5, <3>1, <3>2, <4>1, Zenon DEF Skewed
        <5> QED BY <1>4, <3>1, <5>1, Zenon
      <4>2. CASE p = "ASSERT" \/ p = "none"
        BY <1>4, <3>1, <4>2, Zenon DEF AggChange
      <4> QED BY <1>3, <1>5, <4>1, <4>2, Zenon DEF Events
    <3>4. Total(key, val, t, rpass) = Tot(t, rpass)
      BY <3>3, TotalAgrees
    <3> QED BY <1>2, <2>2, <3>1, <3>2, <3>4, ZenonT(60)
  <2> QED BY <2>1, <2>2, Zenon
<1> HIDE DEF a, Tot
<1> SUFFICES /\ DOMAIN acc'.items = tok' /\ acc'.right = rpass'
             /\ \A t \in tok' \ skewed' : acc'.items[t] = Tot(t, rpass')
  BY Zenon DEF AccumulateExact, Tot
<1>6. CASE p = "none"
  BY <1>1, <1>2, <1>5, <1>6, Zenon DEF AccRight, AggChange
<1>7. CASE p = "ASSERT"
  <2>1. /\ acc'.right = rpass \cup F /\ DOMAIN acc'.items = tok' /\ rpass' = rpass \cup F
        /\ \A t \in tok' : acc'.items[t] = Plus(a.items[t], Tot(t, F))
    BY <1>1, <1>2, <1>7, Zenon DEF AccRight, AggChange, Tot
  <2>2. /\ rpass \cup F \in SUBSET Facts /\ F \in SUBSET (rpass \cup F) /\ (rpass \cup F) \ F = rpass
        /\ val' \in [Facts -> ValOpt]
    BY <1>3, <1>7, Zenon DEF AggChange
  <2>3. ASSUME NEW t PROVE Tot(t, rpass \cup F) = Plus(Tot(t, rpass), Tot(t, F))
    <3>1. Tot(t, rpass \cup F) = Plus(Tot(t, (rpass \cup F) \ F), Tot(t, F))
      <4>1. Part(val', rpass \cup F, F)
        BY <2>2, Zenon DEF Part
      <4>2. TotalsUp(key', val', t, rpass \cup F, F)
        BY <4>1, TotalSplit, Zenon
      <4> QED BY <4>2, Zenon DEF TotalsUp, Tot
    <3> QED BY <2>2, <3>1, Zenon
  <2> QED BY <1>5, <1>7, <2>1, <2>3, Zenon
<1>8. CASE p = "RETRACT"
  <2>1. F \cap rpass = F /\ rpass' = rpass \ F /\ F \in SUBSET rpass /\ val' \in [Facts -> ValOpt]
    BY <1>8, Zenon DEF AggChange
  <2>2. /\ acc'.right = rpass \ F /\ DOMAIN acc'.items = tok'
        /\ \A t \in tok' : acc'.items[t] = Minus(a.items[t], Tot(t, F))
    BY <1>1, <1>2, <1>8, <2>1, Zenon DEF AccRight, Tot
  <2>3. ASSUME NEW t PROVE Tot(t, rpass \ F) = Minus(Tot(t, rpass), Tot(t, F))
    <3>1. Part(val', rpass, F)
      BY <1>3, <2>1, Zenon DEF Part
    <3>2. TotalsUp(key', val', t, rpass, F)
      BY <3>1, TotalSplit, Zenon
    <3> QED BY <3>2, Zenon DEF TotalsUp, Tot
  <2> QED BY <1>5, <1>8, <2>1, <2>2, <2>3, ZenonT(30)
<1>9. CASE p = "MODIFY"
  <2>1. rpass \cup F = rpass /\ rpass' = rpass
    BY <1>9, ZenonT(30) DEF AggChange
  <2> QED BY <1>1, <1>2, <1>9, <2>1, Zenon DEF AccRight, Tot
<1> QED BY <1>3, <1>6, <1>7, <1>8, <1>9, Zenon DEF Events

-----------------------------------------------------------------------------
(* The window node *)

\* Erasing facts from the window leaves the others.
LEMMA WithoutProps ==
    ASSUME NEW w \in Seq(Facts), NEW F
    PROVE  /\ Without(w, F) \in Seq(Facts) /\ Len(Without(w, F)) <= Len(w)
           /\ Range(Without(w, F)) = Range(w) \ F
<1>1. PICK n \in Nat : n = Len(w)
  OBVIOUS
<1>2. \A i \in 1..n : w[i] \in Facts
  BY <1>1
<1> DEFINE G == [i \in 1..n |-> [r \in Seq(Facts) |-> IF w[i] \in F THEN r ELSE Append(r, w[i])]]
<1>3. /\ G \in [1..n -> [Seq(Facts) -> Seq(Facts)]]
      /\ \A i \in 1..n, r \in Seq(Facts) : G[i][r] = IF w[i] \in F THEN r ELSE Append(r, w[i])
  BY <1>2
<1> HIDE DEF G
<1> DEFINE Kept(f) == f = [i \in 0 .. Len(w) |->
                             IF i = 0 THEN <<>>
                             ELSE IF w[i] \in F THEN f[i - 1] ELSE Append(f[i - 1], w[i])]
<1>4. \E f : Kept(f)
  <2>1. PICK f : IsLoop(f, n, Seq(Facts), <<>>, G)
    <3>1. <<>> \in Seq(Facts)
      OBVIOUS
    <3> HIDE DEF Kept
    <3> QED BY <1>1, <1>3, <3>1, LoopExists, Zenon
  <2>2. /\ f \in [0..n -> Seq(Facts)]
        /\ f[0] = <<>> /\ \A i \in 1..n : f[i] = G[i][f[i - 1]]
    BY <2>1, Zenon DEF IsLoop
  <2>3. ASSUME NEW i \in 0..n
        PROVE  f[i] = IF i = 0 THEN <<>>
                      ELSE IF w[i] \in F THEN f[i - 1] ELSE Append(f[i - 1], w[i])
    <3>1. CASE i = 0
      BY <2>2, <3>1, Zenon
    <3>2. CASE i # 0
      <4>1. i \in 1..n /\ i - 1 \in 0..n
        BY <3>2
      <4>2. f[i - 1] \in Seq(Facts)
        BY <2>2, <4>1, Zenon
      <4> QED BY <1>3, <2>2, <3>2, <4>1, <4>2, Zenon
    <3> QED BY <3>1, <3>2, Zenon
  <2> QED BY <1>1, <2>2, <2>3, Zenon
<1>5. PICK f : Kept(f) /\ Without(w, F) = f[Len(w)]
  BY <1>4, Zenon DEF Without
<1>6. f[0] = <<>> /\ \A i \in 1..n : f[i] = IF w[i] \in F THEN f[i - 1] ELSE Append(f[i - 1], w[i])
  <2>1. \A i \in 0..n : f[i] = IF i = 0 THEN <<>>
                               ELSE IF w[i] \in F THEN f[i - 1] ELSE Append(f[i - 1], w[i])
    BY <1>1, <1>5, Zenon
  <2>2. 0 \in 0..n /\ \A i \in 1..n : i \in 0..n /\ i # 0
    OBVIOUS
  <2> QED BY <2>1, <2>2, Zenon
<1> HIDE DEF Kept
<1> DEFINE Good(i) == /\ f[i] \in Seq(Facts) /\ Len(f[i]) <= i
                      /\ Range(f[i]) = {w[j] : j \in 1..i} \ F
           T == {i \in 0..n : Good(i)}
<1>7. 0 \in T
  <2>1. f[0] \in Seq(Facts) /\ Len(f[0]) = 0
    BY <1>6
  <2>2. Range(f[0]) = {} /\ {w[j] : j \in 1..0} = {}
    BY <2>1 DEF Range
  <2> QED BY <2>1, <2>2
<1>8. ASSUME NEW i \in 1..n, i - 1 \in T PROVE i \in T
  <2>1. PICK r \in Seq(Facts) : r = f[i - 1] /\ Len(r) <= i - 1 /\ Range(r) = {w[j] : j \in 1..(i - 1)} \ F
    BY <1>8, Zenon
  <2>2. {w[j] : j \in 1..i} = {w[j] : j \in 1..(i - 1)} \cup {w[i]}
    <3>1. \A j : j \in 1..i <=> j \in 1..(i - 1) \/ j = i
      BY <1>8
    <3> QED BY <3>1, Zenon
  <2>3. CASE w[i] \in F
    <3>1. f[i] = r
      BY <1>6, <2>1, <2>3, Zenon
    <3>2. Range(r) = {w[j] : j \in 1..i} \ F
      BY <2>1, <2>2, <2>3, Zenon
    <3>3. i \in 0..n /\ Len(r) <= i
      BY <2>1
    <3> QED BY <3>1, <3>2, <3>3, Zenon
  <2>4. CASE w[i] \notin F
    <3>1. f[i] = Append(r, w[i])
      BY <1>6, <2>1, <2>4, Zenon
    <3>2. PICK q \in Seq(Facts) : q = Append(r, w[i]) /\ Len(q) = Len(r) + 1
      <4>1. w[i] \in Facts
        BY <1>2, Zenon
      <4>2. Append(r, w[i]) \in Seq(Facts) /\ Len(Append(r, w[i])) = Len(r) + 1
        BY <4>1
      <4> QED BY <4>2, Zenon
    <3>3. Range(q) = Range(r) \cup {w[i]}
      BY <1>2, <3>2, SMTT(30) DEF Range
    <3>4. Range(q) = {w[j] : j \in 1..i} \ F
      BY <2>1, <2>2, <2>4, <3>3, Zenon
    <3>5. i \in 0..n /\ Len(q) <= i
      BY <2>1, <3>2
    <3> QED BY <3>1, <3>2, <3>4, <3>5, Zenon
  <2> QED BY <2>3, <2>4, Zenon
<1> HIDE DEF T
<1>9. \A i \in 0..n : i \in T
  BY <1>7, <1>8, UpTo, Zenon
<1>10. Good(n)
  <2>1. n \in T
    BY <1>9
  <2> QED BY <2>1, Zenon DEF T
<1>11. Range(w) = {w[j] : j \in 1..n}
  BY <1>1 DEF Range
<1> QED BY <1>1, <1>5, <1>10, <1>11, Zenon

\* The oldest facts go until there are Length.
LEMMA ExpiredProps ==
    ASSUME NEW w \in Seq(Facts)
    PROVE  /\ Expired(w) \in Seq(Facts) /\ Len(Expired(w)) <= Length
           /\ Range(Expired(w)) \subseteq Range(w)
<1>1. Length \in Nat \ {0}
  BY LengthAssumption, Zenon
<1>2. CASE Len(w) > Length
  <2> DEFINE k == Len(w) - Length + 1
             r == SubSeq(w, k, Len(w))
  <2>1. k \in 1..Len(w) /\ Expired(w) = r
    BY <1>1, <1>2 DEF Expired
  <2>2. r \in Seq(Facts) /\ Len(r) = Length /\ \A i \in 1..Length : r[i] = w[k + i - 1]
    BY <1>1, <1>2, <2>1
  <2>3. \A i \in 1..Length : k + i - 1 \in 1..Len(w)
    BY <1>1, <1>2
  <2> QED BY <1>1, <2>1, <2>2, <2>3 DEF Range
<1>3. CASE ~(Len(w) > Length)
  BY <1>1, <1>3 DEF Expired
<1> QED BY <1>2, <1>3, Zenon

\* WindowNode: the window is a list of facts, and WindowExact.
WindowInv == window \in Seq(Facts) /\ WindowExact

\* A call keeps the window and the join below it in step.
LEMMA WindowStep ==
    ASSUME WindowInv, NEW F, NEW p, AggChange(F, p), Aggregate(F, p)
    PROVE  WindowInv'
<1>1. /\ window \in Seq(Facts) /\ Len(window) <= Length
      /\ Range(window) \subseteq windowed /\ Range(window) \subseteq rpass
      /\ windowed \ Range(window) \subseteq readmitted
  BY Zenon DEF WindowInv, WindowExact
<1>2. /\ Window(F, p) /\ windowed' = Windowed(F, p)
      /\ readmitted' = readmitted \cup (IF p = "MODIFY" THEN F \ Range(window) ELSE {})
  BY Zenon DEF Aggregate
<1>3. F \subseteq Facts /\ p \in Events
  BY Zenon DEF AggChange
<1> SUFFICES /\ window' \in Seq(Facts) /\ Len(window') <= Length
             /\ Range(window') \subseteq windowed' /\ Range(window') \subseteq rpass'
             /\ windowed' \ Range(window') \subseteq readmitted'
  BY Zenon DEF WindowInv, WindowExact
<1>4. CASE p = "none"
  <2>1. window' = window /\ windowed' = windowed /\ readmitted' = readmitted /\ rpass' = rpass
    BY <1>2, <1>4, Zenon DEF Window, Windowed, AggChange
  <2> QED BY <1>1, <2>1, Zenon
<1>5. CASE p = "MODIFY"
  <2>1. /\ window' = window /\ windowed' = windowed \cup F /\ rpass' = rpass
        /\ readmitted' = readmitted \cup (F \ Range(window))
    BY <1>2, <1>5, Zenon DEF Window, Windowed, AggChange
  <2> QED BY <1>1, <2>1, Zenon
<1>6. CASE p = "RETRACT"
  <2>1. /\ window' = Without(window, F) /\ windowed' = windowed \ (F \cap Range(window))
        /\ readmitted' = readmitted /\ rpass' = rpass \ F
    BY <1>2, <1>6, Zenon DEF Window, Windowed, AggChange
  <2>2. /\ window' \in Seq(Facts) /\ Len(window') <= Len(window)
        /\ Range(window') = Range(window) \ F
    BY <1>1, <2>1, WithoutProps, Zenon
  <2>3. Len(window') <= Length
    BY <1>1, <2>2, LengthAssumption
  <2> QED BY <1>1, <2>1, <2>2, <2>3, Zenon
<1>7. CASE p = "ASSERT"
  <2>1. PICK s \in Bijection(1 .. Cardinality(F), F) : window' = Expired(window \o s)
    BY <1>2, <1>7, Zenon DEF Window
  <2>2. /\ windowed' = (windowed \ (Range(window) \cup F)) \cup Range(window')
        /\ readmitted' = readmitted /\ rpass' = rpass \cup F
    BY <1>2, <1>7, Zenon DEF Windowed, AggChange
  <2>3. s \in Seq(Facts) /\ Range(s) \subseteq F
    <3>1. Cardinality(F) \in Nat
      BY <1>3, LengthAssumption, FS_Subset, FS_CardinalityType, Zenon
    <3>2. s \in [1 .. Cardinality(F) -> F]
      BY <2>1, Zenon DEF Bijection, Injection
    <3>3. s \in [1 .. Cardinality(F) -> Facts]
      BY <1>3, <3>2, Zenon
    <3> QED BY <3>1, <3>2, <3>3 DEF Range
  <2>4. PICK q \in Seq(Facts) : q = window \o s /\ Range(q) \subseteq Range(window) \cup Range(s)
    <3> DEFINE q == window \o s
    <3>1. /\ q \in Seq(Facts) /\ Len(q) = Len(window) + Len(s)
          /\ \A i \in 1..Len(q) : q[i] = IF i <= Len(window) THEN window[i] ELSE s[i - Len(window)]
      BY <1>1, <2>3
    <3> HIDE DEF q
    <3>2. ASSUME NEW i \in 1..Len(q) PROVE q[i] \in Range(window) \cup Range(s)
      <4>1. CASE i <= Len(window)
        <5>1. i \in DOMAIN window /\ q[i] = window[i]
          BY <1>1, <3>1, <4>1
        <5> QED BY <5>1, Zenon DEF Range
      <4>2. CASE ~(i <= Len(window))
        <5>1. i - Len(window) \in DOMAIN s /\ q[i] = s[i - Len(window)]
          BY <1>1, <2>3, <3>1, <4>2
        <5> QED BY <5>1, Zenon DEF Range
      <4> QED BY <4>1, <4>2, Zenon
    <3>3. Range(q) \subseteq Range(window) \cup Range(s)
      <4>1. DOMAIN q = 1..Len(q)
        BY <3>1
      <4> QED BY <3>2, <4>1, Zenon DEF Range
    <3> QED BY <3>1, <3>3, Zenon DEF q
  <2>5. window' \in Seq(Facts) /\ Len(window') <= Length /\ Range(window') \subseteq Range(q)
    BY <2>1, <2>4, ExpiredProps, ZenonT(30)
  <2> QED BY <1>1, <2>2, <2>3, <2>4, <2>5, Zenon
<1> QED BY <1>3, <1>4, <1>5, <1>6, <1>7, Zenon DEF Events

-----------------------------------------------------------------------------
(* The calls, as the accumulate and the window node see them *)

\* A call about one fact.
LEMMA ActivateChange ==
    ASSUME IInv, NEW f \in Facts, NEW l, NEW r, Fits(lpass, f, l), Fits(rpass, f, r),
           Activate(f, l, r), calls' = calls + 1, val' \in [Facts -> ValOpt],
           \A g \in Facts : g # f => key'[g] = key[g] /\ val'[g] = val[g]
    PROVE  AggChange({f}, r)
<1> DEFINE dead == IF l \in {"RETRACT", "MODIFY"} THEN TokensOf({f}) ELSE {}
           born == IF l \in {"ASSERT", "MODIFY"} THEN NewTokens({f}) ELSE {}
<1>1. rpass' = Passing(rpass, f, r) /\ tok' = (tok \ dead) \cup born
  BY Zenon DEF Activate, Propagate
<1>2. /\ calls + 1 \notin 0 .. calls /\ lpass \subseteq Facts /\ rpass \subseteq Facts
      /\ tok \subseteq lpass \X (0 .. calls)
  BY DEF IInv, Base
<1>3. born \cap tok = {}
  <2>1. \A t \in tok : t[2] \in 0 .. calls
    BY <1>2, Zenon
  <2>2. \A t \in born : t[2] = calls + 1
    BY DEF NewTokens
  <2> HIDE DEF born
  <2> QED BY <1>2, <2>1, <2>2, Zenon
<1>4. \A t \in tok : t[1] = f => t \in dead
  BY <1>2, Zenon DEF TokensOf, Fits
<1> HIDE DEF dead, born
<1>5. ASSUME NEW t \in tok \cap tok' PROVE key'[t[1]] = key[t[1]]
  <2>1. t[1] # f /\ t[1] \in Facts
    BY <1>1, <1>2, <1>3, <1>4, Zenon
  <2> QED BY <2>1, Zenon
<1>6. /\ r = "none" => rpass' = rpass
      /\ r = "RETRACT" => {f} \subseteq rpass /\ rpass' = rpass \ {f}
      /\ r = "MODIFY" => {f} \subseteq rpass /\ rpass' = rpass
      /\ r = "ASSERT" => {f} \cap rpass = {} /\ rpass' = rpass \cup {f}
  BY <1>1, Zenon DEF Passing, Fits
<1>7. \A g \in rpass : g \notin {f} \/ r = "none" => key'[g] = key[g] /\ val'[g] = val[g]
  BY <1>2, Zenon DEF Fits
<1>8. r \in Events /\ {f} \subseteq Facts
  BY Zenon DEF Fits
<1> QED BY <1>2, <1>5, <1>6, <1>7, <1>8, Zenon DEF AggChange

\* add_fact: the event that alpha R passes on.
LEMMA AddFactChange ==
    ASSUME IInv, calls' = calls + 1, NEW f \in Facts, NEW k, NEW v \in ValOpt, AddFact(f, k, v)
    PROVE  AggChange({f}, Event(f, "ASSERT"))
<1> DEFINE l == AlphaEvent(lpass, v \in LeftVals, f, "ASSERT")
           r == AlphaEvent(rpass, v \in RightVals, f, "ASSERT")
<1>1. f \notin lpass /\ f \notin rpass
  BY Zenon DEF AddFact, IInv, Base
<1>2. Fits(lpass, f, l) /\ Fits(rpass, f, r)
  BY <1>1, Zenon DEF Fits, AlphaEvent, Events
<1>3. Activate(f, l, r)
  BY Zenon DEF AddFact, Enter
<1>4. /\ val' \in [Facts -> ValOpt] /\ val'[f] = v
      /\ \A g \in Facts : g # f => key'[g] = key[g] /\ val'[g] = val[g]
  BY Zenon DEF AddFact, IInv, Base
<1>5. Event(f, "ASSERT") = r
  BY <1>4, Zenon DEF Event
<1> HIDE DEF l, r
<1> QED BY <1>2, <1>3, <1>4, <1>5, ActivateChange, Zenon

\* retract_fact.
LEMMA RetractFactChange ==
    ASSUME IInv, calls' = calls + 1, NEW f \in Facts, RetractFact(f)
    PROVE  AggChange({f}, Event(f, "RETRACT"))
<1> DEFINE l == AlphaEvent(lpass, val[f] \in LeftVals, f, "RETRACT")
           r == AlphaEvent(rpass, val[f] \in RightVals, f, "RETRACT")
<1>1. Fits(lpass, f, l) /\ Fits(rpass, f, r)
  BY Zenon DEF Fits, AlphaEvent, Events
<1>2. Activate(f, l, r)
  BY Zenon DEF RetractFact, Enter
<1>3. key' = key /\ val' = val /\ val \in [Facts -> ValOpt]
  BY Zenon DEF RetractFact, IInv, Base
<1>4. Event(f, "RETRACT") = r
  BY <1>3, Zenon DEF Event
<1> HIDE DEF l, r
<1> QED BY <1>1, <1>2, <1>3, <1>4, ActivateChange, Zenon

\* update_fact.
LEMMA UpdateFactChange ==
    ASSUME IInv, calls' = calls + 1, NEW f \in Facts, NEW k, NEW v \in ValOpt, UpdateFact(f, k, v)
    PROVE  AggChange({f}, Event(f, "MODIFY"))
<1> DEFINE l == AlphaEvent(lpass, v \in LeftVals, f, "MODIFY")
           r == AlphaEvent(rpass, v \in RightVals, f, "MODIFY")
<1>1. Fits(lpass, f, l) /\ Fits(rpass, f, r)
  BY Zenon DEF Fits, AlphaEvent, Events
<1>2. Activate(f, l, r)
  BY Zenon DEF UpdateFact, Enter
<1>3. /\ val' \in [Facts -> ValOpt] /\ val'[f] = v
      /\ \A g \in Facts : g # f => key'[g] = key[g] /\ val'[g] = val[g]
  BY Zenon DEF UpdateFact, IInv, Base
<1>4. Event(f, "MODIFY") = r
  BY <1>3, Zenon DEF Event
<1> HIDE DEF l, r
<1> QED BY <1>1, <1>2, <1>3, <1>4, ActivateChange, ZenonT(30)

\* propagate_modify.
LEMMA PropagateModifyChange ==
    ASSUME IInv, calls' = calls + 1, NEW f \in Facts, NEW k, PropagateModify(f, k)
    PROVE  AggChange({f}, IF f \in rpass THEN "MODIFY" ELSE "none")
<1> DEFINE l == IF f \in lpass THEN "MODIFY" ELSE "none"
           r == IF f \in rpass THEN "MODIFY" ELSE "none"
<1>1. Fits(lpass, f, l) /\ Fits(rpass, f, r)
  BY Zenon DEF Fits, Events
<1>2. Activate(f, l, r)
  BY Zenon DEF PropagateModify
<1>3. /\ val' \in [Facts -> ValOpt]
      /\ \A g \in Facts : g # f => key'[g] = key[g] /\ val'[g] = val[g]
  BY Zenon DEF PropagateModify, IInv, Base
<1> SUFFICES AggChange({f}, r)
  BY Zenon
<1> HIDE DEF l, r
<1> QED BY <1>1, <1>2, <1>3, ActivateChange, Zenon

\* add_facts: the batch that alpha R passes on.
LEMMA AddFactsChange ==
    ASSUME IInv, calls' = calls + 1, NEW F \in SUBSET Facts, NEW K,
           NEW W \in [F -> ValOpt], AddFacts(F, K, W)
    PROVE  AggChange(rpass' \ rpass, "ASSERT")
<1> DEFINE left == {f \in F : W[f] \in LeftVals}
           right == {f \in Survivors(F, W) : W[f] \in RightVals}
<1>1. /\ F \cap wm = {}
      /\ key' = [f \in Facts |-> IF f \in F THEN K[f] ELSE key[f]]
      /\ val' = [f \in Facts |-> IF f \in F THEN W[f] ELSE val[f]]
      /\ rpass' = rpass \cup right /\ tok' = tok \cup NewTokens(left)
  BY Zenon DEF AddFacts, Propagate
<1>2. right \subseteq F
  BY Zenon DEF Survivors
<1> HIDE DEF left, right
<1>3. /\ wm \subseteq Facts /\ lpass \subseteq wm /\ rpass \subseteq wm
      /\ val \in [Facts -> ValOpt] /\ tok \subseteq lpass \X (0 .. calls)
  BY Zenon DEF IInv, Base
<1>4. \A f \in wm : key'[f] = key[f] /\ val'[f] = val[f]
  BY <1>1, <1>3, Zenon
<1>5. \A t \in tok : t[1] \in wm
  BY <1>3, Zenon
<1>6. val' \in [Facts -> ValOpt]
  BY <1>1, <1>3, Zenon
<1>7. /\ rpass' \ rpass \subseteq Facts /\ rpass \subseteq Facts
      /\ rpass' = rpass \cup (rpass' \ rpass)
  BY <1>1, <1>2, <1>3, Zenon
<1> QED BY <1>3, <1>4, <1>5, <1>6, <1>7, Zenon DEF AggChange, Events

\* retract_facts.
LEMMA RetractFactsChange ==
    ASSUME IInv, NEW F \in SUBSET wm, RetractFacts(F)
    PROVE  AggChange(rpass \ rpass', "RETRACT")
<1>1. key' = key /\ val' = val /\ rpass' = rpass \ F
  BY Zenon DEF RetractFacts
<1>2. rpass \subseteq Facts /\ val \in [Facts -> ValOpt]
  BY Zenon DEF IInv, Base
<1> QED BY <1>1, <1>2, Zenon DEF AggChange, Events

\* Every call is a call of the network, and the two nodes see a change of it.
LEMMA AggCallStep ==
    ASSUME IInv, calls' = calls + 1, AggCall
    PROVE  Call /\ \E F, p : AggChange(F, p) /\ Aggregate(F, p)
<1> DEFINE Goal == Call /\ \E F, p : AggChange(F, p) /\ Aggregate(F, p)
<1>1. ASSUME NEW f \in Facts, NEW x \in Inputs[f] PROVE x[1] \in KeyOpt /\ x[2] \in ValOpt
  BY <1>1, NetworkAssumption DEF KeyOpt, ValOpt
<1>2. ASSUME NEW f \in Facts, NEW x \in Inputs[f],
             AddFact(f, x[1], x[2]), Aggregate({f}, Event(f, "ASSERT"))
      PROVE  Goal
  BY <1>1, <1>2, AddFactChange, ZenonT(30) DEF Call
<1>3. ASSUME NEW F \in SUBSET (Facts \ wm), NEW X \in BatchInputs[F],
             AddFacts(F, [f \in F |-> X[f][1]], [f \in F |-> X[f][2]]),
             Aggregate(rpass' \ rpass, "ASSERT")
      PROVE  Goal
  <2>1. X \in [F -> KeyOpt \X ValOpt] /\ F \in SUBSET Facts
    BY <1>3, ZenonT(30) DEF BatchInputs
  <2>2. [f \in F |-> X[f][2]] \in [F -> ValOpt]
    BY <2>1, ZenonT(30)
  <2>3. AggChange(rpass' \ rpass, "ASSERT")
    BY <1>3, <2>1, <2>2, AddFactsChange, ZenonT(30)
  <2> QED BY <1>3, <2>3, ZenonT(30) DEF Call
<1>4. ASSUME NEW f \in Facts, RetractFact(f), Aggregate({f}, Event(f, "RETRACT")) PROVE Goal
  BY <1>4, RetractFactChange, ZenonT(30) DEF Call
<1>5. ASSUME NEW F \in SUBSET wm, RetractFacts(F), Aggregate(rpass \ rpass', "RETRACT") PROVE Goal
  BY <1>5, RetractFactsChange, ZenonT(30) DEF Call
<1>6. ASSUME NEW f \in Facts, NEW x \in Inputs[f],
             UpdateFact(f, x[1], x[2]), Aggregate({f}, Event(f, "MODIFY"))
      PROVE  Goal
  BY <1>1, <1>6, UpdateFactChange, ZenonT(30) DEF Call
<1>7. ASSUME NEW f \in Facts, NEW x \in Inputs[f], PropagateModify(f, x[1]),
             Aggregate({f}, IF f \in rpass THEN "MODIFY" ELSE "none")
      PROVE  Goal
  BY <1>7, PropagateModifyChange, ZenonT(30) DEF Call
<1> HIDE DEF Goal
<1>8. Goal
  BY <1>2, <1>3, <1>4, <1>5, <1>6, <1>7, Zenon DEF AggCall
<1> QED BY <1>8, Zenon DEF Goal

\* The inductive invariant of the two nodes.
AggInv == AccumulateExact /\ WindowInv

\* Both nodes start with nothing, as after reset().
LEMMA AggEmpty ==
    /\ AggInit => AggInv
    /\ AggReset => AggInv'
<1>1. <<>> \in Seq(Facts) /\ Len(<<>>) <= Length /\ Range(<<>>) = {} /\ DOMAIN <<>> = {}
  BY LengthAssumption DEF Range
<1>2. AggInit => AggInv
  BY <1>1 DEF AggInit, Init, AggInv, AccumulateExact, WindowInv, WindowExact
<1>3. AggReset => AggInv'
  BY <1>1 DEF AggReset, Reset, AggInv, AccumulateExact, WindowInv, WindowExact
<1> QED BY <1>2, <1>3, Zenon

\* Every step keeps the invariant and is a step of the network.
LEMMA AggNextStep ==
    ASSUME IInv, [AggNext]_<<vars, aggregates>>
    PROVE  [Next]_vars /\ (AggInv => AggInv')
<1>1. CASE UNCHANGED <<vars, aggregates>>
  BY <1>1, ZenonT(30) DEF vars, alpha, aggregates, AggInv, AccumulateExact, WindowInv, WindowExact
<1>2. CASE AggReset
  BY <1>2, AggEmpty, Zenon DEF AggReset, Next
<1>3. CASE calls < MaxCalls /\ calls' = calls + 1 /\ AggCall
  <2>1. Call /\ \E F, p : AggChange(F, p) /\ Aggregate(F, p)
    BY <1>3, AggCallStep, Zenon
  <2>2. PICK F, p : AggChange(F, p) /\ Aggregate(F, p)
    BY <2>1, Zenon
  <2>3. AggInv => AggInv'
    BY <2>2, AccStep, WindowStep, Zenon DEF AggInv
  <2> QED BY <1>3, <2>1, <2>3, Zenon DEF Next
<1> QED BY <1>1, <1>2, <1>3, Zenon DEF AggNext

\* The accumulate and the window node observe the network and never change it: with
\* them it still implements the network alone, so that all that is proved of Spec
\* holds (AccumulateNode and WindowNode are siblings of the other nodes).
THEOREM AggregatesImplementNetwork == AggSpec => Spec /\ []IInv
<1>1. AggInit => Init
  BY Zenon DEF AggInit
<1>2. IInv /\ [AggNext]_<<vars, aggregates>> => [Next]_vars /\ IInv'
  BY AggNextStep, NextIInv, Zenon
<1> QED BY <1>1, <1>2, InitIInv, PTL DEF AggSpec, Spec

\* The invariant of the two nodes holds in every reachable state.
THEOREM AggregateInvariant == AggSpec => []AggInv
<1>1. AggInit => AggInv
  BY AggEmpty, Zenon
<1>2. IInv /\ AggInv /\ [AggNext]_<<vars, aggregates>> => AggInv'
  BY AggNextStep, Zenon
<1> QED BY <1>1, <1>2, AggregatesImplementNetwork, PTL DEF AggSpec

\* Adding for ASSERT, subtracting for RETRACT and rebuilding for MODIFY keeps count
\* and sum of every token exact, for any finite set of facts, but for the tokens
\* from which a fact was subtracted that had changed (AccumulateNode).
THEOREM AccumulateStaysExact == AggSpec => []AccumulateExact
<1>1. AggInv => AccumulateExact
  BY Zenon DEF AggInv
<1> QED BY <1>1, AggregateInvariant, PTL

\* A window of any length never has more facts than that, all of alpha R, and what
\* the join below has besides was modified after it left (WindowNode).
THEOREM WindowStaysExact == AggSpec => []WindowExact
<1>1. AggInv => WindowExact
  BY Zenon DEF AggInv, WindowInv
<1> QED BY <1>1, AggregateInvariant, PTL
=============================================================================
