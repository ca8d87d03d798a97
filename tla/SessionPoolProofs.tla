------------------------- MODULE SessionPoolProofs -------------------------
(***************************************************************************)
(* For any number of threads, sessions and pool slots: the pool never      *)
(* gives one session to two threads, never loses or resurrects one, hands  *)
(* no state on and loses no wake-up.                                       *)
(***************************************************************************)
EXTENDS SessionPool, FiniteSetTheorems, TLAPS

\* The inductive invariant: ownership is preserved only together with the
\* freshness of the replacements that releases in flight will install.
Ownership ==
    /\ TypeOK
    /\ ExclusiveOwnership
    /\ EverySessionAccounted
    /\ ReplacementsFresh

-----------------------------------------------------------------------------
\* Popping the front of available_ takes that session, and only it, out of the
\* elements when no session is queued twice.
LEMMA PopElems ==
    ASSUME NEW S, NEW q \in Seq(S), q # <<>>,
           \A i, j \in 1..Len(q) : q[i] = q[j] => i = j
    PROVE  /\ Tail(q) \in Seq(S)
           /\ Head(q) \in S
           /\ Head(q) \in SeqElems(q)
           /\ SeqElems(Tail(q)) = SeqElems(q) \ {Head(q)}
           /\ \A i, j \in 1..Len(Tail(q)) : Tail(q)[i] = Tail(q)[j] => i = j
<1>1. Len(q) \in Nat /\ Len(q) >= 1 /\ Head(q) = q[1] /\ Len(Tail(q)) = Len(q) - 1
  OBVIOUS
<1>2. \A i \in 1..Len(Tail(q)) : Tail(q)[i] = q[i + 1]
  OBVIOUS
<1>3. SeqElems(Tail(q)) \subseteq SeqElems(q) \ {Head(q)}
  BY <1>1, <1>2 DEF SeqElems
<1>4. ASSUME NEW i \in 1..Len(q), q[i] # Head(q)
      PROVE  q[i] \in SeqElems(Tail(q))
  <2>1. i - 1 \in 1..Len(Tail(q)) /\ Tail(q)[i - 1] = q[i]
    BY <1>1, <1>2, <1>4
  <2> QED BY <2>1 DEF SeqElems
<1>5. SeqElems(q) \ {Head(q)} \subseteq SeqElems(Tail(q))
  BY <1>4 DEF SeqElems
<1>6. \A i, j \in 1..Len(Tail(q)) : Tail(q)[i] = Tail(q)[j] => i = j
  BY <1>1, <1>2
<1>7. Head(q) \in SeqElems(q)
  BY <1>1 DEF SeqElems
<1> QED BY <1>1, <1>3, <1>5, <1>6, <1>7

\* Queueing a session that is not queued yet.
LEMMA PushElems ==
    ASSUME NEW S, NEW q \in Seq(S), NEW x \in S,
           \A i, j \in 1..Len(q) : q[i] = q[j] => i = j,
           x \notin SeqElems(q)
    PROVE  /\ Append(q, x) \in Seq(S)
           /\ SeqElems(Append(q, x)) = SeqElems(q) \cup {x}
           /\ \A i, j \in 1..Len(Append(q, x)) :
                Append(q, x)[i] = Append(q, x)[j] => i = j
<1>1. Len(q) \in Nat /\ Len(Append(q, x)) = Len(q) + 1
  OBVIOUS
<1>2. /\ \A i \in 1..Len(q) : Append(q, x)[i] = q[i]
      /\ Append(q, x)[Len(q) + 1] = x
  OBVIOUS
<1>3. SeqElems(Append(q, x)) \subseteq SeqElems(q) \cup {x}
  BY <1>1, <1>2 DEF SeqElems
<1>4. SeqElems(q) \subseteq SeqElems(Append(q, x))
  BY <1>1, <1>2 DEF SeqElems
<1>5. x \in SeqElems(Append(q, x))
  BY <1>1, <1>2 DEF SeqElems
<1>6. \A i \in 1..Len(q) : q[i] # x
  BY DEF SeqElems
<1>7. \A i, j \in 1..Len(Append(q, x)) : Append(q, x)[i] = Append(q, x)[j] => i = j
  BY <1>1, <1>2, <1>6
<1> QED BY <1>3, <1>4, <1>5, <1>7

-----------------------------------------------------------------------------
\* The constructor establishes the invariant: every session is queued, none is
\* held.
LEMMA InitOwnership == Init => Ownership
<1> SUFFICES ASSUME Init PROVE Ownership
  OBVIOUS
<1>1. PICK n \in 1..PoolSize :
        /\ pool_ \in [1..n -> Sessions]
        /\ \A i, j \in 1..n : pool_[i] = pool_[j] => i = j
  BY DEF Init
<1>2. pool_ \in Seq(Sessions) /\ Len(pool_) = n
  BY <1>1, PoolAssumption
<1>3. Holders = {}
  BY DEF Init, Holders
<1>4. TypeOK
  BY <1>2, <1>3 DEF Init, TypeOK, PCs
<1>5. ExclusiveOwnership
  BY <1>1, <1>2, <1>3 DEF Init, ExclusiveOwnership
<1>6. EverySessionAccounted
  BY <1>3 DEF Init, EverySessionAccounted
<1>7. ReplacementsFresh
  BY <1>1, <1>2, PoolAssumption DEF Init, ReplacementsFresh, SeqElems
<1> QED BY <1>4, <1>5, <1>6, <1>7 DEF Ownership

\* acquire, when it takes the front of the queue: one session moves from
\* available_ to the thread.
LEMMA TakeFrontOwnership ==
    ASSUME Ownership, NEW t \in Threads, pc[t] \in {"idle", "woken"},
           available_ # <<>>, TakeFront(t),
           UNCHANGED <<pool_, replacement, dirty, resetFailed>>
    PROVE  Ownership'
<1>1. /\ Tail(available_) \in Seq(Sessions)
      /\ Head(available_) \in Sessions
      /\ Head(available_) \in SeqElems(available_)
      /\ SeqElems(Tail(available_)) = SeqElems(available_) \ {Head(available_)}
      /\ \A i, j \in 1..Len(Tail(available_)) :
           Tail(available_)[i] = Tail(available_)[j] => i = j
  BY PopElems DEF Ownership, TypeOK, ExclusiveOwnership
<1>2. t \notin Holders /\ Holders' = Holders \cup {t}
  BY DEF Ownership, TypeOK, TakeFront, Holders
<1>3. TypeOK'
  BY <1>1, <1>2, PoolAssumption DEF Ownership, TypeOK, TakeFront, PCs
<1>4. held' = [held EXCEPT ![t] = Head(available_)]
      /\ SeqElems(available_)' = SeqElems(available_) \ {Head(available_)}
      /\ SeqElems(pool_)' = SeqElems(pool_)
  <2>1. SeqElems(available_)' = SeqElems(Tail(available_))
    BY DEF TakeFront, SeqElems
  <2>2. SeqElems(pool_)' = SeqElems(pool_)
    BY DEF SeqElems
  <2> QED BY <1>1, <2>1, <2>2 DEF TakeFront
<1>5. ExclusiveOwnership'
  BY <1>1, <1>2, <1>4 DEF Ownership, TypeOK, ExclusiveOwnership, TakeFront
<1>6. EverySessionAccounted'
  BY <1>1, <1>2, <1>4 DEF Ownership, TypeOK, EverySessionAccounted
<1>7. ReplacementsFresh'
  BY <1>4 DEF Ownership, ReplacementsFresh
<1> QED BY <1>3, <1>5, <1>6, <1>7 DEF Ownership

\* Steps that move neither sessions nor replacements: they only change where a
\* thread that holds nothing stands.
LEMMA WaitingOwnership ==
    ASSUME Ownership, UNCHANGED <<pool_, available_, held, replacement>>,
           pc' \in [Threads -> PCs], Holders' = Holders,
           \A t \in Threads : pc[t] = "release_locked" => pc'[t] = "release_locked",
           dirty' \subseteq Sessions, resetFailed' \subseteq Sessions
    PROVE  Ownership'
<1>1. SeqElems(available_)' = SeqElems(available_) /\ SeqElems(pool_)' = SeqElems(pool_)
  BY DEF SeqElems
<1>2. TypeOK'
  BY DEF Ownership, TypeOK
<1>3. ExclusiveOwnership' /\ EverySessionAccounted' /\ ReplacementsFresh'
  BY <1>1 DEF Ownership, ExclusiveOwnership, EverySessionAccounted, ReplacementsFresh
<1> QED BY <1>2, <1>3 DEF Ownership

\* The move constructor: the session changes hands, and the source is nulled.
LEMMA MoveGuardOwnership ==
    ASSUME Ownership, NEW t \in Threads, NEW u \in Threads, MoveGuard(t, u)
    PROVE  Ownership'
<1>1. t # u /\ t \in Holders /\ u \notin Holders /\ Holders' = (Holders \ {t}) \cup {u}
  BY DEF Ownership, TypeOK, MoveGuard, Holders
<1>2. held'[u] = held[t] /\ \A v \in Threads \ {t, u} : held'[v] = held[v]
  BY <1>1 DEF Ownership, TypeOK, MoveGuard
<1>3. SeqElems(available_)' = SeqElems(available_) /\ SeqElems(pool_)' = SeqElems(pool_)
  BY DEF MoveGuard, SeqElems
<1>4. TypeOK'
  BY <1>1, PoolAssumption DEF Ownership, TypeOK, MoveGuard, PCs
<1>5. ExclusiveOwnership'
  <2>1. \A v \in Holders' : \E w \in Holders :
          held'[v] = held[w] /\ w = IF v = u THEN t ELSE v
    BY <1>1, <1>2 DEF Holders
  <2>2. \A v, w \in Holders' : held'[v] = held'[w] => v = w
    BY <1>1, <2>1 DEF Ownership, ExclusiveOwnership
  <2>3. \A v \in Holders' : held'[v] \notin SeqElems(available_)
    BY <2>1 DEF Ownership, ExclusiveOwnership
  <2> QED BY <1>3, <2>2, <2>3 DEF Ownership, ExclusiveOwnership, MoveGuard
<1>6. EverySessionAccounted'
  BY <1>1, <1>2, <1>3 DEF Ownership, EverySessionAccounted, Holders
<1>7. ReplacementsFresh'
  BY <1>3 DEF Ownership, ReplacementsFresh, MoveGuard
<1> QED BY <1>4, <1>5, <1>6, <1>7 DEF Ownership

\* create_session before the lock: the replacement is a new address.
LEMMA CreateReplacementOwnership ==
    ASSUME Ownership, NEW t \in Threads, CreateReplacement(t)
    PROVE  Ownership'
<1>1. Holders' = Holders /\ t \in Holders
  BY DEF Ownership, TypeOK, CreateReplacement, Holders
<1>2. PICK r \in (Sessions \ Allocated) \cup {NullSession} :
        replacement' = [replacement EXCEPT ![t] = r]
  BY DEF CreateReplacement
<1>3. SeqElems(available_)' = SeqElems(available_) /\ SeqElems(pool_)' = SeqElems(pool_)
  BY DEF CreateReplacement, SeqElems
<1>4. TypeOK'
  BY <1>1, <1>2 DEF Ownership, TypeOK, CreateReplacement, PCs
<1>5. ExclusiveOwnership' /\ EverySessionAccounted'
  BY <1>1, <1>3 DEF Ownership, ExclusiveOwnership, EverySessionAccounted, CreateReplacement
<1>6. NullSession \notin SeqElems(pool_)
  BY PoolAssumption DEF Ownership, TypeOK, SeqElems
<1>7. r \notin SeqElems(pool_) /\ \A u \in Threads : r # NullSession => replacement[u] # r
  BY <1>6 DEF Allocated
<1>8. ReplacementsFresh'
  BY <1>2, <1>3, <1>7 DEF Ownership, TypeOK, ReplacementsFresh, CreateReplacement
<1> QED BY <1>4, <1>5, <1>8 DEF Ownership

\* release under the lock, on the path that overwrites the slot.
LEMMA ReplaceSessionOwnership ==
    ASSUME Ownership, NEW t \in Threads, ReplaceSession(t)
    PROVE  Ownership'
<1> DEFINE old == held[t]
           new == replacement[t]
<1>1. PICK i \in 1..Len(pool_) : pool_[i] = old /\ pool_' = [pool_ EXCEPT ![i] = new]
  BY DEF ReplaceSession
<1>2. /\ t \in Holders /\ Holders' = Holders \ {t}
      /\ old \in Sessions /\ new \in Sessions
      /\ held' = [held EXCEPT ![t] = NullSession]
      /\ replacement' = [replacement EXCEPT ![t] = NullSession]
  BY PoolAssumption DEF Ownership, TypeOK, ReplaceSession, Holders
<1>3. pool_ \in Seq(Sessions) /\ Len(pool_) \in Nat
  BY DEF Ownership, TypeOK
<1>4. pool_' \in Seq(Sessions) /\ Len(pool_') = Len(pool_)
      /\ \A j \in 1..Len(pool_) : pool_'[j] = IF j = i THEN new ELSE pool_[j]
  BY <1>1, <1>2, <1>3
<1>5. \A j, k \in 1..Len(pool_) : pool_[j] = pool_[k] => j = k
  BY DEF Ownership, ReplacementsFresh
<1>6. new \notin SeqElems(pool_)
  BY DEF Ownership, ReplacementsFresh
<1>7. SeqElems(pool_)' = (SeqElems(pool_) \ {old}) \cup {new}
  <2>1. SeqElems(pool_)' = {pool_'[j] : j \in 1..Len(pool_)}
    BY <1>4 DEF SeqElems
  <2>2. {pool_'[j] : j \in 1..Len(pool_)} = ({pool_[j] : j \in 1..Len(pool_)} \ {old}) \cup {new}
    BY <1>1, <1>4, <1>5
  <2> QED BY <2>1, <2>2 DEF SeqElems
<1>8. new \notin SeqElems(available_)
  BY <1>6 DEF Ownership, EverySessionAccounted
<1>9. /\ available_' \in Seq(Sessions)
      /\ SeqElems(available_)' = SeqElems(available_) \cup {new}
      /\ \A j, k \in 1..Len(available_') : available_'[j] = available_'[k] => j = k
  <2>1. available_' = Append(available_, new)
    BY DEF ReplaceSession
  <2>2. /\ Append(available_, new) \in Seq(Sessions)
        /\ SeqElems(Append(available_, new)) = SeqElems(available_) \cup {new}
        /\ \A j, k \in 1..Len(Append(available_, new)) :
             Append(available_, new)[j] = Append(available_, new)[k] => j = k
    BY <1>2, <1>8, PushElems DEF Ownership, TypeOK, ExclusiveOwnership
  <2>3. SeqElems(available_)' = SeqElems(Append(available_, new))
    BY <2>1 DEF SeqElems
  <2> QED BY <2>1, <2>2, <2>3
<1>10. TypeOK'
  <2>1. pc' \in [Threads -> PCs] /\ dirty' \subseteq Sessions /\ resetFailed' \subseteq Sessions
    BY DEF Ownership, TypeOK, ReplaceSession, PCs
  <2>2. \A u \in Threads : held'[u] # NullSession <=> u \in Holders'
    BY <1>2 DEF Ownership, TypeOK
  <2>3. \A u \in Threads : replacement'[u] # NullSession => pc'[u] = "release_locked"
    BY <1>2 DEF Ownership, TypeOK, ReplaceSession
  <2> QED BY <1>2, <1>4, <1>9, <2>1, <2>2, <2>3 DEF Ownership, TypeOK
<1>11. \A u \in Holders \ {t} : held'[u] = held[u] /\ held[u] # old /\ held[u] # new
  BY <1>2, <1>6 DEF Ownership, TypeOK, ExclusiveOwnership, EverySessionAccounted, Holders
<1>12. old \notin SeqElems(available_)
  BY <1>2 DEF Ownership, ExclusiveOwnership
<1>13. ExclusiveOwnership'
  BY <1>2, <1>9, <1>11 DEF Ownership, ExclusiveOwnership
<1>14. EverySessionAccounted'
  BY <1>2, <1>7, <1>9, <1>11, <1>12 DEF Ownership, EverySessionAccounted
<1>15. ReplacementsFresh'
  <2>1. \A j, k \in 1..Len(pool_') : pool_'[j] = pool_'[k] => j = k
    BY <1>4, <1>5, <1>6 DEF SeqElems
  <2>2. NullSession \notin SeqElems(pool_)'
    BY <1>4, PoolAssumption DEF SeqElems
  <2>3. \A u \in Threads : replacement'[u] \notin SeqElems(pool_)'
    BY <1>2, <1>7, <2>2 DEF Ownership, TypeOK, ReplacementsFresh
  <2> QED BY <1>2, <2>1, <2>3 DEF Ownership, TypeOK, ReplacementsFresh
<1> QED BY <1>10, <1>13, <1>14, <1>15 DEF Ownership

\* release under the lock, on the best-effort path: the same session goes back.
LEMMA ResetSessionOwnership ==
    ASSUME Ownership, NEW t \in Threads, ResetSession(t)
    PROVE  Ownership'
<1>1. /\ t \in Holders /\ Holders' = Holders \ {t}
      /\ held[t] \in Sessions
      /\ held' = [held EXCEPT ![t] = NullSession]
      /\ replacement' = [replacement EXCEPT ![t] = NullSession]
      /\ dirty' \subseteq Sessions /\ resetFailed' \subseteq Sessions
      /\ pc' \in [Threads -> PCs]
  BY PoolAssumption DEF Ownership, TypeOK, ResetSession, Holders, PCs
<1>2. held[t] \notin SeqElems(available_)
  BY <1>1 DEF Ownership, ExclusiveOwnership
<1>3. /\ available_' \in Seq(Sessions)
      /\ SeqElems(available_)' = SeqElems(available_) \cup {held[t]}
      /\ \A j, k \in 1..Len(available_') : available_'[j] = available_'[k] => j = k
  <2> DEFINE q == Append(available_, held[t])
  <2>1. available_' = q
    BY DEF ResetSession
  <2>2. /\ q \in Seq(Sessions)
        /\ SeqElems(q) = SeqElems(available_) \cup {held[t]}
        /\ \A j, k \in 1..Len(q) : q[j] = q[k] => j = k
    BY <1>1, <1>2, PushElems DEF Ownership, TypeOK, ExclusiveOwnership
  <2>3. SeqElems(available_)' = SeqElems(q)
    BY <2>1 DEF SeqElems
  <2> QED BY <2>1, <2>2, <2>3
<1>4. SeqElems(pool_)' = SeqElems(pool_) /\ pool_' = pool_
  BY DEF ResetSession, SeqElems
<1>5. TypeOK'
  <2>1. \A u \in Threads : held'[u] # NullSession <=> u \in Holders'
    BY <1>1 DEF Ownership, TypeOK
  <2>2. \A u \in Threads : replacement'[u] # NullSession => pc'[u] = "release_locked"
    BY <1>1 DEF Ownership, TypeOK, ResetSession
  <2> QED BY <1>1, <1>3, <1>4, <2>1, <2>2 DEF Ownership, TypeOK
<1>6. \A u \in Holders \ {t} : held'[u] = held[u] /\ held[u] # held[t]
  BY <1>1 DEF Ownership, TypeOK, ExclusiveOwnership, Holders
<1>7. ExclusiveOwnership'
  BY <1>1, <1>3, <1>6 DEF Ownership, ExclusiveOwnership
<1>8. EverySessionAccounted'
  BY <1>1, <1>3, <1>4, <1>6 DEF Ownership, EverySessionAccounted
<1>9. ReplacementsFresh'
  <2>1. NullSession \notin SeqElems(pool_)
    BY PoolAssumption DEF Ownership, TypeOK, SeqElems
  <2> QED BY <1>1, <1>4, <2>1 DEF Ownership, TypeOK, ReplacementsFresh
<1> QED BY <1>5, <1>7, <1>8, <1>9 DEF Ownership

-----------------------------------------------------------------------------
\* Every step of every thread keeps the invariant.
LEMMA NextOwnership == Ownership /\ [Next]_vars => Ownership'
<1> SUFFICES ASSUME Ownership, [Next]_vars PROVE Ownership'
  OBVIOUS
<1>1. CASE UNCHANGED vars
  <2>1. Holders' = Holders /\ \A t \in Threads : pc'[t] = pc[t]
    BY <1>1 DEF vars, Holders
  <2> QED BY <1>1, <2>1, WaitingOwnership DEF vars, Ownership, TypeOK
<1>2. ASSUME NEW t \in Threads, AcquireBlocking(t)
      PROVE  Ownership'
  <2>1. CASE available_ # <<>>
    BY <1>2, <2>1, TakeFrontOwnership DEF AcquireBlocking
  <2>2. CASE available_ = <<>>
    BY <1>2, <2>2, WaitingOwnership DEF AcquireBlocking, Ownership, TypeOK, Holders, PCs
  <2> QED BY <2>1, <2>2
<1>3. ASSUME NEW t \in Threads, AcquireNonBlocking(t)
      PROVE  Ownership'
  <2>1. CASE available_ # <<>>
    BY <1>3, <2>1, TakeFrontOwnership DEF AcquireNonBlocking
  <2>2. CASE available_ = <<>>
    BY <1>3, <2>2, WaitingOwnership DEF AcquireNonBlocking, Ownership, TypeOK, Holders, PCs
  <2> QED BY <2>1, <2>2
<1>4. ASSUME NEW t \in Threads, DropNullGuard(t) \/ SpuriousWakeup(t)
      PROVE  Ownership'
  BY <1>4, WaitingOwnership
     DEF DropNullGuard, SpuriousWakeup, Ownership, TypeOK, Holders, PCs
<1>5. ASSUME NEW t \in Threads, UseSession(t)
      PROVE  Ownership'
  <2>1. held[t] \in Sessions
    BY <1>5 DEF UseSession, Ownership, TypeOK, Holders
  <2> QED BY <1>5, <2>1, WaitingOwnership DEF UseSession, Ownership, TypeOK, Holders
<1>6. ASSUME NEW t \in Threads, NEW u \in Threads, MoveGuard(t, u)
      PROVE  Ownership'
  BY <1>6, MoveGuardOwnership
<1>7. ASSUME NEW t \in Threads,
             CreateReplacement(t) \/ ReplaceSession(t) \/ ResetSession(t)
      PROVE  Ownership'
  BY <1>7, CreateReplacementOwnership, ReplaceSessionOwnership, ResetSessionOwnership
<1>8. ASSUME NEW t \in Threads, NotifyOne(t)
      PROVE  Ownership'
  <2>1. Holders' = Holders /\ pc' \in [Threads -> PCs]
    BY <1>8 DEF NotifyOne, Ownership, TypeOK, Holders, PCs
  <2>2. \A u \in Threads : pc[u] = "release_locked" => pc'[u] = "release_locked"
    BY <1>8 DEF NotifyOne, Ownership, TypeOK
  <2> QED BY <1>8, <2>1, <2>2, WaitingOwnership DEF NotifyOne, Ownership, TypeOK
<1> QED
  BY <1>1, <1>2, <1>3, <1>4, <1>5, <1>6, <1>7, <1>8 DEF Next

\* For every pool: types hold, no session has two owners, and the sessions kept
\* alive are exactly the queued and the held ones (session_pool.hpp, acquire,
\* release and the move constructor of SessionGuard).
THEOREM PoolOwnership ==
    Spec => [](TypeOK /\ ExclusiveOwnership /\ EverySessionAccounted /\ ReplacementsFresh)
<1>1. Spec => []Ownership
  BY InitOwnership, NextOwnership, PTL DEF Spec
<1>2. Ownership => TypeOK /\ ExclusiveOwnership /\ EverySessionAccounted /\ ReplacementsFresh
  BY DEF Ownership
<1> QED BY <1>1, <1>2, PTL

\* The queue, the guards and the states of the threads keep their types through
\* every interleaving of acquire, release and moves of guards.
THEOREM PoolTypes == Spec => []TypeOK
BY PoolOwnership, PTL

\* In particular no pointer given out or queued by acquire and release dangles.
THEOREM PoolAccountsForSessions == Spec => []EverySessionAccounted
BY PoolOwnership, PTL

-----------------------------------------------------------------------------
\* No step queues a session with state, unless its reset threw.  That a session in
\* use is not queued comes from ownership.
LEMMA NextNoLeak == Ownership /\ NoStateLeakage /\ [Next]_vars => NoStateLeakage'
<1> SUFFICES ASSUME Ownership, NoStateLeakage, [Next]_vars PROVE NoStateLeakage'
  OBVIOUS
<1>1. ASSUME available_' = available_, dirty' = dirty, resetFailed' = resetFailed
      PROVE  NoStateLeakage'
  BY <1>1 DEF NoStateLeakage, SeqElems
<1>2. ASSUME NEW t \in Threads, available_ # <<>>, TakeFront(t), UNCHANGED <<dirty, resetFailed>>
      PROVE  NoStateLeakage'
  <2>1. SeqElems(Tail(available_)) \subseteq SeqElems(available_)
    BY <1>2, PopElems DEF Ownership, TypeOK, ExclusiveOwnership
  <2>2. SeqElems(available_)' = SeqElems(Tail(available_))
    BY <1>2 DEF TakeFront, SeqElems
  <2> QED BY <1>2, <2>1, <2>2 DEF NoStateLeakage
<1>3. ASSUME NEW t \in Threads, UseSession(t) PROVE NoStateLeakage'
  <2>1. held[t] \notin SeqElems(available_)
    BY <1>3 DEF UseSession, Ownership, ExclusiveOwnership, Holders
  <2>2. SeqElems(available_)' = SeqElems(available_)
    BY <1>3 DEF UseSession, SeqElems
  <2> QED BY <1>3, <2>1, <2>2 DEF UseSession, NoStateLeakage
<1>4. ASSUME NEW t \in Threads, NEW s \in Sessions, available_' = Append(available_, s)
      PROVE  SeqElems(available_)' \subseteq SeqElems(available_) \cup {s}
  <2>1. available_ \in Seq(Sessions)
    BY DEF Ownership, TypeOK
  <2>2. Len(available_') = Len(available_) + 1 /\ Len(available_) \in Nat
    BY <1>4, <2>1
  <2>3. \A i \in 1..Len(available_') : available_'[i] = s \/ \E j \in 1..Len(available_) :
                                       available_'[i] = available_[j]
    BY <1>4, <2>1, <2>2
  <2> QED BY <2>3 DEF SeqElems
<1>5. ASSUME NEW t \in Threads, pc[t] = "release_locked"
      PROVE  held[t] \in Sessions /\ held[t] \notin SeqElems(available_)
  BY <1>5 DEF Ownership, TypeOK, ExclusiveOwnership, Holders
<1>6. ASSUME NEW t \in Threads, ReplaceSession(t) PROVE NoStateLeakage'
  <2>1. replacement[t] \in Sessions
    BY <1>6 DEF ReplaceSession, Ownership, TypeOK
  <2>2. SeqElems(available_)' \subseteq SeqElems(available_) \cup {replacement[t]}
    BY <1>4, <1>6, <2>1 DEF ReplaceSession
  <2> QED BY <1>5, <1>6, <2>2 DEF ReplaceSession, NoStateLeakage
<1>7. ASSUME NEW t \in Threads, ResetSession(t) PROVE NoStateLeakage'
  <2>1. held[t] \in Sessions /\ held[t] \notin SeqElems(available_)
    BY <1>5, <1>7 DEF ResetSession
  <2>2. SeqElems(available_)' \subseteq SeqElems(available_) \cup {held[t]}
    BY <1>4, <1>7, <2>1 DEF ResetSession
  <2> QED BY <1>7, <2>1, <2>2 DEF ResetSession, NoStateLeakage
<1>8. ASSUME NEW t \in Threads, AcquireBlocking(t) \/ AcquireNonBlocking(t) PROVE NoStateLeakage'
  BY <1>1, <1>2, <1>8 DEF AcquireBlocking, AcquireNonBlocking
<1>9. ASSUME NEW t \in Threads,
             \/ DropNullGuard(t) \/ SpuriousWakeup(t) \/ CreateReplacement(t) \/ NotifyOne(t)
             \/ \E u \in Threads : MoveGuard(t, u)
      PROVE  NoStateLeakage'
  BY <1>1, <1>9 DEF DropNullGuard, SpuriousWakeup, CreateReplacement, NotifyOne, MoveGuard
<1>10. CASE UNCHANGED vars
  BY <1>1, <1>10 DEF vars
<1> QED BY <1>3, <1>6, <1>7, <1>8, <1>9, <1>10 DEF Next

\* "guarantee zero cross-request state leakage" (session_pool.hpp:99), but for a
\* session whose reset threw, for any number of threads.
THEOREM PoolLeaksNoState == Spec => []NoStateLeakage
<1>1. Init => NoStateLeakage
  BY DEF Init, NoStateLeakage
<1>2. Spec => []Ownership
  BY InitOwnership, NextOwnership, PTL DEF Spec
<1> QED BY <1>1, <1>2, NextNoLeak, PTL DEF Spec

-----------------------------------------------------------------------------
\* The threads that a notification is under way from, or that one has reached and
\* that have not looked at the queue yet.
Alert == {t \in Threads : pc[t] \in {"notify", "woken"}}

\* How many they are: finitely many, one less when one leaves, one more when one
\* joins.
LEMMA AlertCount ==
    /\ IsFiniteSet(Alert)
    /\ Cardinality(Alert) \in Nat
    /\ \A t : Cardinality(Alert \ {t}) >= Cardinality(Alert) - 1
    /\ \A t : t \notin Alert => Cardinality(Alert \cup {t}) = Cardinality(Alert) + 1
    /\ \A t, u : t \in Alert /\ u \notin Alert =>
                 Cardinality((Alert \ {t}) \cup {u}) = Cardinality(Alert)
<1>1. IsFiniteSet(Alert)
  BY FS_Subset, PoolAssumption DEF Alert
<1>2. Cardinality(Alert) \in Nat
  BY <1>1, FS_CardinalityType
<1>3. ASSUME NEW t PROVE Cardinality(Alert \ {t}) >= Cardinality(Alert) - 1
  BY <1>1, <1>2, FS_RemoveElement
<1>4. ASSUME NEW t, t \notin Alert PROVE Cardinality(Alert \cup {t}) = Cardinality(Alert) + 1
  BY <1>1, <1>4, FS_AddElement
<1>5. ASSUME NEW t, NEW u, t \in Alert, u \notin Alert
      PROVE  Cardinality((Alert \ {t}) \cup {u}) = Cardinality(Alert)
  <2>1. IsFiniteSet(Alert \ {t}) /\ Cardinality(Alert \ {t}) = Cardinality(Alert) - 1
    BY <1>1, <1>5, FS_RemoveElement
  <2>2. Cardinality((Alert \ {t}) \cup {u}) = Cardinality(Alert \ {t}) + 1
    BY <1>5, <2>1, FS_AddElement
  <2> QED BY <1>2, <2>1, <2>2
<1> QED BY <1>1, <1>2, <1>3, <1>4, <1>5

\* No step loses a wake-up.  A thread blocks on an empty queue only; a thread that
\* takes a session takes at most one alert thread with it; a release queues one
\* session and turns one thread alert; notify_one passes the alert on.
LEMMA NextNoLostWakeup == TypeOK /\ NoLostWakeup /\ [Next]_vars => NoLostWakeup'
<1> SUFFICES ASSUME TypeOK, NoLostWakeup, [Next]_vars PROVE NoLostWakeup'
  OBVIOUS
<1> DEFINE Blocked == \E t \in Threads : pc[t] = "blocked"
<1>1. /\ NoLostWakeup <=> (Blocked => Len(available_) <= Cardinality(Alert))
      /\ NoLostWakeup' <=> (Blocked' => Len(available_)' <= Cardinality(Alert'))
  BY DEF NoLostWakeup, Alert
<1>2. Len(available_) \in Nat /\ pc \in [Threads -> PCs]
  BY DEF TypeOK
<1>3. ASSUME available_' = available_, Alert' = Alert, Blocked' => Blocked
      PROVE  NoLostWakeup'
  BY <1>1, <1>3
<1>4. ASSUME NEW t \in Threads, available_ # <<>>, TakeFront(t), pc[t] # "blocked"
      PROVE  NoLostWakeup'
  <2>1. Len(available_)' = Len(available_) - 1
    BY <1>4 DEF TakeFront, TypeOK
  <2>2. Alert' = Alert \ {t}
    BY <1>2, <1>4 DEF TakeFront, Alert
  <2>3. Blocked' => Blocked
    BY <1>2, <1>4 DEF TakeFront
  <2>4. Cardinality(Alert') >= Cardinality(Alert) - 1
    BY <2>2, AlertCount
  <2>5. Cardinality(Alert') \in Nat /\ Cardinality(Alert) \in Nat
    BY FS_Subset, FS_CardinalityType, PoolAssumption DEF Alert
  <2> HIDE DEF Blocked
  <2> QED BY <1>1, <1>2, <2>1, <2>3, <2>4, <2>5
<1>5. ASSUME available_' = <<>> PROVE NoLostWakeup'
  <2>1. Len(available_)' = 0
    BY <1>5
  <2>2. Cardinality(Alert') \in Nat
    BY FS_Subset, FS_CardinalityType, PoolAssumption DEF Alert
  <2> QED BY <1>1, <2>1, <2>2
<1>6. ASSUME NEW t \in Threads, NEW s, pc[t] = "release_locked",
             available_' = Append(available_, s), pc' = [pc EXCEPT ![t] = "notify"]
      PROVE  NoLostWakeup'
  <2>1. Len(available_)' = Len(available_) + 1
    BY <1>6 DEF TypeOK
  <2>2. t \notin Alert /\ Alert' = Alert \cup {t}
    BY <1>2, <1>6 DEF Alert
  <2>3. Blocked' => Blocked
    BY <1>2, <1>6
  <2> QED BY <1>1, <1>2, <2>1, <2>2, <2>3, AlertCount
<1>7. ASSUME NEW t \in Threads, AcquireBlocking(t) PROVE NoLostWakeup'
  BY <1>4, <1>5, <1>7 DEF AcquireBlocking
<1>8. ASSUME NEW t \in Threads, AcquireNonBlocking(t) PROVE NoLostWakeup'
  BY <1>4, <1>5, <1>8 DEF AcquireNonBlocking
<1>9. ASSUME NEW t \in Threads, SpuriousWakeup(t) PROVE NoLostWakeup'
  <2>1. t \notin Alert /\ Alert' = Alert \cup {t} /\ Blocked /\ available_' = available_
    BY <1>2, <1>9 DEF SpuriousWakeup, Alert
  <2> QED BY <1>1, <1>2, <2>1, AlertCount
<1>10. ASSUME NEW t \in Threads, ReplaceSession(t) \/ ResetSession(t) PROVE NoLostWakeup'
  BY <1>6, <1>10 DEF ReplaceSession, ResetSession
<1>11. ASSUME NEW t \in Threads, NotifyOne(t) PROVE NoLostWakeup'
  <2>1. available_' = available_
    BY <1>11 DEF NotifyOne
  <2>2. CASE ~Blocked /\ pc' = [pc EXCEPT ![t] = "idle"]
    <3>1. ~Blocked'
      BY <1>2, <2>2
    <3> QED BY <1>1, <3>1
  <2>3. ASSUME NEW u \in Threads, pc[u] = "blocked",
               pc' = [pc EXCEPT ![t] = "idle", ![u] = "woken"]
        PROVE  NoLostWakeup'
    <3>1. t \in Alert /\ u \notin Alert /\ Alert' = (Alert \ {t}) \cup {u} /\ Blocked
      BY <1>2, <1>11, <2>3 DEF NotifyOne, Alert
    <3> QED BY <1>1, <2>1, <3>1, AlertCount
  <2> QED BY <1>11, <2>2, <2>3 DEF NotifyOne
<1>12. ASSUME NEW t \in Threads,
              \/ DropNullGuard(t) \/ UseSession(t) \/ CreateReplacement(t)
              \/ \E u \in Threads : MoveGuard(t, u)
       PROVE  NoLostWakeup'
  BY <1>2, <1>3, <1>12 DEF DropNullGuard, UseSession, CreateReplacement, MoveGuard, Alert
<1>13. CASE UNCHANGED vars
  BY <1>3, <1>13 DEF vars, Alert
<1> QED BY <1>7, <1>8, <1>9, <1>10, <1>11, <1>12, <1>13 DEF Next

\* notify_one outside the lock of release loses no wake-up, for any number of
\* threads and sessions.
THEOREM PoolLosesNoWakeup == Spec => []NoLostWakeup
<1>1. Init => NoLostWakeup
  BY DEF Init, NoLostWakeup
<1>2. Spec => []TypeOK
  BY PoolOwnership, PTL
<1> QED BY <1>1, <1>2, NextNoLostWakeup, PTL DEF Spec
=============================================================================
