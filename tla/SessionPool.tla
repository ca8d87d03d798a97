---------------------------- MODULE SessionPool ----------------------------
(***************************************************************************)
(* The pool of reusable sessions of rulesforge/include/engine/             *)
(* session_pool.hpp, used by concurrent threads through SessionGuard (or   *)
(* through acquire/release with the same discipline: a caller releases     *)
(* what it acquired, once).                                                *)
(*                                                                         *)
(* What runs under mutex_ is one step.  What the code does outside the     *)
(* lock is a step of its own: creating the replacement session before the  *)
(* lock, and cv_.notify_one() after it.                                    *)
(***************************************************************************)
EXTENDS Naturals, Sequences, FiniteSets

CONSTANTS
    Threads,     \* the threads that use the pool
    Sessions,    \* the addresses a StatefulSession can be allocated at
    PoolSize,    \* the pool_size argument of the constructor
    NullSession  \* nullptr

ASSUME PoolAssumption == /\ PoolSize \in Nat \ {0}
                         /\ NullSession \notin Sessions
                         /\ IsFiniteSet(Threads)

VARIABLES
    pool_,        \* vector of owned sessions: what is in it is allocated
    available_,   \* FIFO queue of the sessions nobody holds
    pc,           \* where each thread is
    held,         \* the session of each thread's guard (session_), or null
    replacement,  \* the local of release(): the fresh session, or null
    dirty,        \* sessions that carry facts or state of some request
    resetFailed   \* sessions whose last reset threw (the exception is swallowed)

vars == <<pool_, available_, pc, held, replacement, dirty, resetFailed>>

SeqElems(s) == {s[i] : i \in 1..Len(s)}

\* Addresses in use: sessions the pool owns and replacements not yet installed.
Allocated == SeqElems(pool_) \cup {replacement[t] : t \in Threads}

PCs == {"idle", "blocked", "woken", "null_guard", "using",
        "release_locked", "notify"}

-----------------------------------------------------------------------------
\* The constructor: creations that fail are skipped; no session at all is an
\* exception, so a pool that exists owns between 1 and PoolSize sessions.
Init ==
    /\ \E n \in 1..PoolSize :
         /\ pool_ \in [1..n -> Sessions]
         /\ \A i, j \in 1..n : pool_[i] = pool_[j] => i = j
    /\ available_ = pool_
    /\ pc = [t \in Threads |-> "idle"]
    /\ held = [t \in Threads |-> NullSession]
    /\ replacement = [t \in Threads |-> NullSession]
    /\ dirty = {}
    /\ resetFailed = {}

\* Take the front of available_.
TakeFront(t) ==
    /\ held' = [held EXCEPT ![t] = Head(available_)]
    /\ available_' = Tail(available_)
    /\ pc' = [pc EXCEPT ![t] = "using"]

\* acquire(true): lock, evaluate the predicate of cv_.wait, and take the front
\* session or give up the lock and sleep, in one step of the mutex.
\* A woken thread evaluates the same predicate again.
AcquireBlocking(t) ==
    /\ pc[t] \in {"idle", "woken"}
    /\ IF available_ # <<>>
       THEN TakeFront(t)
       ELSE /\ pc' = [pc EXCEPT ![t] = "blocked"]
            /\ UNCHANGED <<available_, held>>
    /\ UNCHANGED <<pool_, replacement, dirty, resetFailed>>

\* acquire(false): an empty pool yields nullptr at once.
AcquireNonBlocking(t) ==
    /\ pc[t] = "idle"
    /\ IF available_ = <<>>
       THEN /\ pc' = [pc EXCEPT ![t] = "null_guard"]
            /\ UNCHANGED <<available_, held>>
       ELSE TakeFront(t)
    /\ UNCHANGED <<pool_, replacement, dirty, resetFailed>>

\* Mutant: the destructor of an empty guard calls release, which goes on.
DropNullGuardReleases(t) ==
    /\ pc[t] = "null_guard"
    /\ pc' = [pc EXCEPT ![t] = "release_locked"]
    /\ UNCHANGED <<pool_, available_, held, replacement, dirty, resetFailed>>

\* ~SessionGuard of a guard that holds nullptr releases nothing.
DropNullGuard(t) ==
    /\ pc[t] = "null_guard"
    /\ pc' = [pc EXCEPT ![t] = "idle"]
    /\ UNCHANGED <<pool_, available_, held, replacement, dirty, resetFailed>>

\* cv_.wait may return without a notification.
SpuriousWakeup(t) ==
    /\ pc[t] = "blocked"
    /\ pc' = [pc EXCEPT ![t] = "woken"]
    /\ UNCHANGED <<pool_, available_, held, replacement, dirty, resetFailed>>

\* The request adds facts and fires rules: the session now carries its state.
UseSession(t) ==
    /\ pc[t] = "using"
    /\ dirty' = dirty \cup {held[t]}
    /\ UNCHANGED <<pool_, available_, pc, held, replacement, resetFailed>>

\* Mutant: the move constructor forgets to null the source.
MoveGuardKeepsSource(t, u) ==
    /\ pc[t] = "using"
    /\ pc[u] = "idle"
    /\ held' = [held EXCEPT ![u] = held[t]]
    /\ pc' = [pc EXCEPT ![u] = "using"]
    /\ UNCHANGED <<pool_, available_, replacement, dirty, resetFailed>>

\* SessionGuard(SessionGuard&&): the guard of t moves to u, whose own guard is
\* empty; the source is nulled so that its destructor releases nothing.
MoveGuard(t, u) ==
    /\ pc[t] = "using"
    /\ pc[u] = "idle"
    /\ held' = [held EXCEPT ![u] = held[t], ![t] = NullSession]
    /\ pc' = [pc EXCEPT ![t] = "null_guard", ![u] = "using"]
    /\ UNCHANGED <<pool_, available_, replacement, dirty, resetFailed>>

\* release(session), before the lock: create_session yields a fresh session, or
\* nothing when it returns null or throws.
CreateReplacement(t) ==
    /\ pc[t] = "using"
    /\ \E r \in (Sessions \ Allocated) \cup {NullSession} :
         replacement' = [replacement EXCEPT ![t] = r]
    /\ pc' = [pc EXCEPT ![t] = "release_locked"]
    /\ UNCHANGED <<pool_, available_, held, dirty, resetFailed>>

\* Mutant: returned_session is not updated when the slot is overwritten, so the
\* session that just died is queued.
ReplaceSessionQueuesOld(t) ==
    /\ pc[t] = "release_locked"
    /\ replacement[t] # NullSession
    /\ \E i \in 1..Len(pool_) :
         /\ pool_[i] = held[t]
         /\ pool_' = [pool_ EXCEPT ![i] = replacement[t]]
    /\ available_' = Append(available_, held[t])
    /\ dirty' = dirty \ {held[t], replacement[t]}
    /\ resetFailed' = resetFailed \ {held[t], replacement[t]}
    /\ held' = [held EXCEPT ![t] = NullSession]
    /\ replacement' = [replacement EXCEPT ![t] = NullSession]
    /\ pc' = [pc EXCEPT ![t] = "notify"]

\* release(session), under the lock, when the replacement exists and session is
\* found in pool_: the slot is overwritten (the old session dies) and the
\* fresh session is queued.
ReplaceSession(t) ==
    /\ pc[t] = "release_locked"
    /\ replacement[t] # NullSession
    /\ \E i \in 1..Len(pool_) :
         /\ pool_[i] = held[t]
         /\ \A j \in 1..(i - 1) : pool_[j] # held[t]
         /\ pool_' = [pool_ EXCEPT ![i] = replacement[t]]
    /\ available_' = Append(available_, replacement[t])
    /\ dirty' = dirty \ {held[t], replacement[t]}
    /\ resetFailed' = resetFailed \ {held[t], replacement[t]}
    /\ held' = [held EXCEPT ![t] = NullSession]
    /\ replacement' = [replacement EXCEPT ![t] = NullSession]
    /\ pc' = [pc EXCEPT ![t] = "notify"]

\* Mutant: the fallback queues the session without resetting it.
RequeueWithoutReset(t) ==
    /\ pc[t] = "release_locked"
    /\ \/ replacement[t] = NullSession
       \/ held[t] \notin SeqElems(pool_)
    /\ available_' = Append(available_, held[t])
    /\ held' = [held EXCEPT ![t] = NullSession]
    /\ replacement' = [replacement EXCEPT ![t] = NullSession]
    /\ pc' = [pc EXCEPT ![t] = "notify"]
    /\ UNCHANGED <<pool_, dirty, resetFailed>>

\* release(session), under the lock, otherwise: the same session is reset and
\* queued again.  An exception of reset() is swallowed: the session goes back
\* as it is.
ResetSession(t) ==
    /\ pc[t] = "release_locked"
    /\ \/ replacement[t] = NullSession
       \/ held[t] \notin SeqElems(pool_)
    /\ \/ /\ dirty' = dirty \ {held[t]}
          /\ resetFailed' = resetFailed \ {held[t]}
       \/ /\ resetFailed' = resetFailed \cup {held[t]}
          /\ UNCHANGED dirty
    /\ available_' = Append(available_, held[t])
    /\ held' = [held EXCEPT ![t] = NullSession]
    /\ replacement' = [replacement EXCEPT ![t] = NullSession]
    /\ pc' = [pc EXCEPT ![t] = "notify"]
    /\ UNCHANGED pool_

\* Mutant: notify only when the queue holds a single session, as if it had been
\* empty before this release.
NotifyFirstOnly(t) ==
    /\ pc[t] = "notify"
    /\ \/ /\ \/ Len(available_) > 1
             \/ \A u \in Threads : pc[u] # "blocked"
          /\ pc' = [pc EXCEPT ![t] = "idle"]
       \/ /\ Len(available_) <= 1
          /\ \E u \in Threads :
               /\ pc[u] = "blocked"
               /\ pc' = [pc EXCEPT ![t] = "idle", ![u] = "woken"]
    /\ UNCHANGED <<pool_, available_, held, replacement, dirty, resetFailed>>

\* cv_.notify_one(), after the lock is given up: one blocked thread, if any,
\* is woken.
NotifyOne(t) ==
    /\ pc[t] = "notify"
    /\ \/ /\ \A u \in Threads : pc[u] # "blocked"
          /\ pc' = [pc EXCEPT ![t] = "idle"]
       \/ \E u \in Threads :
            /\ pc[u] = "blocked"
            /\ pc' = [pc EXCEPT ![t] = "idle", ![u] = "woken"]
    /\ UNCHANGED <<pool_, available_, held, replacement, dirty, resetFailed>>

Next ==
    \E t \in Threads :
        \/ AcquireBlocking(t)
        \/ AcquireNonBlocking(t)
        \/ DropNullGuard(t)
        \/ SpuriousWakeup(t)
        \/ UseSession(t)
        \/ \E u \in Threads : MoveGuard(t, u)
        \/ CreateReplacement(t)
        \/ ReplaceSession(t)
        \/ ResetSession(t)
        \/ NotifyOne(t)

Spec == Init /\ [][Next]_vars

\* A thread inside acquire or release goes on when it can, and a guard is
\* destroyed in the end.  Nothing forces a caller to acquire, a guard to move or
\* the condition variable to wake a thread without reason.
FairSpec ==
    /\ Spec
    /\ \A t \in Threads :
         /\ WF_vars(pc[t] = "woken" /\ AcquireBlocking(t))
         /\ WF_vars(CreateReplacement(t))
         /\ WF_vars(ReplaceSession(t))
         /\ WF_vars(ResetSession(t))
         /\ WF_vars(NotifyOne(t))

-----------------------------------------------------------------------------
Holders == {t \in Threads : pc[t] \in {"using", "release_locked"}}

\* Types: pool_ never changes its size, so it stays a sequence of sessions; a
\* thread holds a session exactly when it is using or releasing one.
TypeOK ==
    /\ pool_ \in Seq(Sessions)
    /\ available_ \in Seq(Sessions)
    /\ pc \in [Threads -> PCs]
    /\ held \in [Threads -> Sessions \cup {NullSession}]
    /\ replacement \in [Threads -> Sessions \cup {NullSession}]
    /\ dirty \subseteq Sessions
    /\ resetFailed \subseteq Sessions
    /\ \A t \in Threads : held[t] # NullSession <=> t \in Holders
    /\ \A t \in Threads : replacement[t] # NullSession => pc[t] = "release_locked"

\* "Thread-safe acquire/release" (session_pool.hpp:21): a session is in one place
\* only. Two threads never hold the same session, a held session is not queued,
\* and no session is queued twice, whatever acquire, release and guard moves
\* interleave.
ExclusiveOwnership ==
    /\ \A t, u \in Holders : held[t] = held[u] => t = u
    /\ \A t \in Holders : held[t] \notin SeqElems(available_)
    /\ \A i, j \in 1..Len(available_) : available_[i] = available_[j] => i = j

\* Nothing leaks and nothing dangles: the sessions that pool_ keeps alive are
\* exactly the queued and the held ones, so no pointer given out or queued is to
\* a session that a release has destroyed.
EverySessionAccounted ==
    SeqElems(pool_) = SeqElems(available_) \cup {held[t] : t \in Holders}

\* Each slot of pool_ owns a session of its own, and the replacements of releases
\* in flight are new to the pool and to each other: installing one, in whatever
\* order the releases get the lock, never makes two slots own one session.
ReplacementsFresh ==
    /\ \A i, j \in 1..Len(pool_) : pool_[i] = pool_[j] => i = j
    /\ \A t \in Threads : replacement[t] \notin SeqElems(pool_)
    /\ \A t, u \in Threads :
         replacement[t] = replacement[u] /\ replacement[t] # NullSession => t = u

\* "guarantee zero cross-request state leakage" (session_pool.hpp:99): a queued
\* session carries no state of an earlier request, except one whose reset threw
\* on the best-effort path of release.
NoStateLeakage ==
    SeqElems(available_) \cap dirty \subseteq resetFailed

\* The notify_one outside the lock loses no wake-up: while a thread is blocked,
\* each queued session has a notification under way or a woken thread that has
\* not yet looked at the queue.
NoLostWakeup ==
    (\E t \in Threads : pc[t] = "blocked")
        => Len(available_) <= Cardinality({t \in Threads : pc[t] \in {"notify", "woken"}})

\* A blocked thread and a free session do not stay facing each other for ever.
\* (That one given thread is served is not promised: a newcomer may take the
\* session before the woken thread does.)
BlockedMeansEmpty ==
    []<>((\E t \in Threads : pc[t] = "blocked") => available_ = <<>>)
=============================================================================
