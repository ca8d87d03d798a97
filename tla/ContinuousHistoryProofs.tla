---------------------- MODULE ContinuousHistoryProofs ----------------------
(***************************************************************************)
(* The inductive invariant of ContinuousSession, for every set of events,  *)
(* every limit and every window.  It names the state after each committed  *)
(* operation: h[0] is fresh, h[k] is what the k-th operation of the log    *)
(* makes of h[k - 1].                                                      *)
(***************************************************************************)
EXTENDS ContinuousStepProofs

-----------------------------------------------------------------------------
(* The invariant *)

\* No activation is left over by an operation.
Exact == MaxInput <= MaxRules

FreshState ==
    [w |-> NoTime, a |-> <<>>, d |-> <<>>, f |-> {}, win |-> <<>>, m |-> {}]

\* h[k] is the state after the first k committed operations.
History(h) ==
    /\ h[0] = FreshState
    /\ \A k \in 0..Len(log) : StateOK(h[k])
    /\ \A k \in 1..Len(log) : Legal(h[k - 1], log[k]) /\ Step(h[k - 1], log[k], h[k])
    /\ \A k \in 0..Len(log) : \A j \in 1..k : \A e \in Range(log[j].events) : Known(h[k], e)
    /\ \A k \in 0..Len(log) : \A e : e \in h[k].m <=> \E j \in 1..k : e \in Range(log[j].events)

\* The session is in state x, and between two operations.
At(x) == Now(x) /\ (Exact => todo = {} /\ made = x.m)

\* The operation o on x has been applied, to y, but has not fired.
Mid(x, o, y) == Now(y) /\ (Exact => todo = Range(o.events) /\ made = x.m)

Replayed == Len(log) - Len(queue)

\* Where a call is that is not replaying.
CallPlace(h) ==
    /\ pc = "idle" /\ consistent => At(h[Len(log)])
    /\ pc \in {"apply", "fire"} /\ ~replaying => Len(log) < MaxReplay /\ Legal(h[Len(log)], op)
    /\ pc = "apply" /\ ~replaying => At(h[Len(log)])
    /\ pc = "fire" /\ ~replaying =>
        \E y : StateOK(y) /\ Step(h[Len(log)], op, y) /\ Mid(h[Len(log)], op, y)
    /\ pc = "publish" =>
        /\ log # <<>> /\ log[Len(log)] = op /\ At(h[Len(log)])
        /\ accepted >= Len(op.events)
        /\ Exact => fired = Range(op.events)

\* Where a replay is.
ReplayPlace(h) ==
    /\ replaying => Len(queue) <= Len(log) /\ \A i \in 1..Len(queue) : queue[i] = log[Replayed + i]
    /\ pc = "replay" => replaying /\ At(h[Replayed])
    /\ pc \in {"apply", "fire"} /\ replaying => Replayed >= 1 /\ op = log[Replayed]
    /\ pc = "apply" /\ replaying => At(h[Replayed - 1])
    /\ pc = "fire" /\ replaying => Mid(h[Replayed - 1], op, h[Replayed])

\* The number of operations whose results have been published.
Done == IF pc = "publish" THEN Len(log) - 1 ELSE Len(log)

\* The history variables hold what the committed operations made.
CommitPlace(h) ==
    /\ \E T, M : /\ committed = <<<<h[Done].w, h[Done].a, h[Done].d>>, <<h[Done].f, T, M, h[Done].win>>>>
                 /\ Exact => T = {} /\ M = h[Done].m
    /\ Exact => Len(published) = Done /\ \A i \in 1..Done : published[i] = Range(log[i].events)

Types ==
    /\ log \in Seq(Operation) /\ Len(log) <= MaxReplay
    /\ queue \in Seq(Operation) /\ op \in Operation
    /\ consistent \in BOOLEAN /\ replaying \in BOOLEAN
    /\ pc \in {"idle", "apply", "fire", "publish", "recover", "replay"}
    /\ pc \in {"idle", "publish", "recover"} => ~replaying
    /\ ~replaying => queue = <<>>
    /\ accepted \in Nat /\ published \in Seq(SUBSET Event)

InnerTypes ==
    /\ todo \subseteq facts /\ made \subseteq Event
    /\ fired \subseteq Event /\ IsFiniteSet(fired)
    /\ \E x : StateOK(x) /\ Now(x)

HistoryInv ==
    /\ Types /\ InnerTypes
    /\ \E h : History(h) /\ CallPlace(h) /\ ReplayPlace(h) /\ CommitPlace(h)

-----------------------------------------------------------------------------
(* The parts that a step leaves alone *)

\* The log decides the history.
LEMMA SameHistory ==
    ASSUME NEW h, History(h), UNCHANGED log
    PROVE  History(h)'
BY ZenonT(30) DEF History

\* The state of the session, if a step leaves it alone.
LEMMA SameNow ==
    ASSUME NEW x, UNCHANGED <<input, facts, window>>
    PROVE  Now(x)' <=> Now(x)
BY Zenon DEF Now, input

\* What was committed, if a step commits nothing.
LEMMA SameCommit ==
    ASSUME NEW h, CommitPlace(h), UNCHANGED <<log, committed, published>>, Done' = Done
    PROVE  CommitPlace(h)'
BY Zenon DEF CommitPlace

\* The inner session, if a step leaves it alone.
LEMMA SameInner ==
    ASSUME InnerTypes, UNCHANGED <<input, inner>>, fired' = fired \/ fired' = {}
    PROVE  InnerTypes'
<1>1. UNCHANGED <<todo, facts, made>> /\ UNCHANGED <<input, facts, window>>
  BY Zenon DEF inner
<1>2. PICK x : StateOK(x) /\ Now(x)
  BY Zenon DEF InnerTypes
<1>3. Now(x)'
  BY <1>1, <1>2, SameNow, Zenon
<1>4. fired' \subseteq Event /\ IsFiniteSet(fired')
  BY FS_EmptySet, Zenon DEF InnerTypes
<1> QED BY <1>1, <1>2, <1>3, <1>4, Zenon DEF InnerTypes

\* A fresh session is as it should be.
LEMMA FreshOK == StateOK(FreshState)
<1> DEFINE x == FreshState
<1>1. x.w = NoTime /\ x.a = <<>> /\ x.d = <<>> /\ x.f = {} /\ x.win = <<>>
  BY Zenon DEF FreshState
<1> HIDE DEF x
<1>2. MaxActive \in Nat /\ MaxDedup \in Nat
  BY ContinuousAssumption, Zenon DEF ValidConfig
<1>3. InputOK(x)
  BY <1>1, <1>2, RangeProps DEF InputOK
<1>4. DedupOK(x)
  <2>1. DOMAIN x.d = {}
    BY <1>1
  <2> QED BY <1>2, <2>1, FS_EmptySet DEF DedupOK
<1>5. WindowOK(x)
  BY <1>1, RangeProps DEF WindowOK, Sorted
<1> QED BY <1>3, <1>4, <1>5, Zenon DEF StateOK, x

\* A new continuous session has the empty history.
LEMMA InitHistory == Init => HistoryInv
<1> SUFFICES ASSUME Init PROVE HistoryInv
  BY Zenon
<1> DEFINE h == [k \in Nat |-> FreshState]
<1>1. h[0] = FreshState
  BY Zenon
<1> HIDE DEF h
<1>2. log = <<>> /\ Len(log) = 0 /\ pc = "idle" /\ ~replaying /\ Done = 0
  BY Zenon DEF Init, Done
<1>3. Types
  <2>1. MaxReplay \in Nat /\ DrainOp \in Operation
    BY ContinuousAssumption DEF ValidConfig, DrainOp, Operation
  <2>2. log \in Seq(Operation) /\ Len(log) <= MaxReplay /\ queue \in Seq(Operation) /\ op \in Operation
    BY <1>2, <2>1 DEF Init
  <2>3. consistent \in BOOLEAN /\ replaying \in BOOLEAN /\ queue = <<>>
    BY ZenonT(30) DEF Init
  <2>4. accepted \in Nat /\ published \in Seq(SUBSET Event)
    BY DEF Init
  <2> QED BY <1>2, <2>2, <2>3, <2>4, Zenon DEF Types
<1>4. Now(FreshState)
  BY Zenon DEF Init, Now, FreshState
<1>5. InnerTypes
  BY <1>4, FreshOK, FS_EmptySet, Zenon DEF Init, InnerTypes
<1>6. History(h)
  <2>1. FreshState.m = {}
    BY Zenon DEF FreshState
  <2>2. \A k \in 0..Len(log) : k = 0
    BY <1>2
  <2> QED BY <1>1, <1>2, <2>1, <2>2, FreshOK DEF History
<1>7. CallPlace(h)
  <2>1. At(FreshState)
    BY <1>4, Zenon DEF At, Init, FreshState
  <2> QED BY <1>1, <1>2, <2>1, Zenon DEF CallPlace
<1>8. ReplayPlace(h)
  BY <1>2, Zenon DEF ReplayPlace
<1>9. CommitPlace(h)
  <2>1. committed = <<<<NoTime, <<>>, <<>>>>, <<{}, {}, {}, <<>>>>>>
    BY Zenon DEF Init, input, inner
  <2>2. /\ h[Done].w = NoTime /\ h[Done].a = <<>> /\ h[Done].d = <<>>
        /\ h[Done].f = {} /\ h[Done].win = <<>> /\ h[Done].m = {}
    BY <1>1, <1>2 DEF FreshState
  <2>3. Len(published) = 0
    BY Zenon DEF Init
  <2>4. committed = <<<<h[Done].w, h[Done].a, h[Done].d>>, <<h[Done].f, {}, {}, h[Done].win>>>>
    BY <2>1, <2>2, Zenon
  <2>5. Exact => {} = h[Done].m
    BY <2>2, Zenon
  <2>6. Exact => Len(published) = Done /\ \A i \in 1..Done : published[i] = Range(log[i].events)
    BY <1>2, <2>3
  <2> HIDE DEF h
  <2> QED BY <2>4, <2>5, <2>6, Zenon DEF CommitPlace
<1> QED BY <1>3, <1>5, <1>6, <1>7, <1>8, <1>9, Zenon DEF HistoryInv

\* Steps that change nothing that the invariant speaks of.
LEMMA SameHistoryInv ==
    ASSUME HistoryInv,
           UNCHANGED <<watermark, active, dedup, facts, todo, made, window, log, accepted, published,
                       consistent, replaying, pc, op, fired, queue, committed>>
    PROVE  HistoryInv'
<1>1. PICK h : History(h) /\ CallPlace(h) /\ ReplayPlace(h) /\ CommitPlace(h)
  BY Zenon DEF HistoryInv
<1>2. Types'
  BY Zenon DEF HistoryInv, Types
<1>3. UNCHANGED <<input, inner>>
  BY Zenon DEF input, inner
<1>4. InnerTypes'
  BY <1>3, SameInner, Zenon DEF HistoryInv
<1>5. History(h)'
  BY <1>1, SameHistory, Zenon
<1>6. CallPlace(h)'
  BY <1>1, ZenonT(30) DEF CallPlace, At, Mid, Now
<1>7. ReplayPlace(h)'
  BY <1>1, Zenon DEF ReplayPlace, At, Mid, Now, Replayed
<1>8. CommitPlace(h)'
  <2>1. Done' = Done
    BY Zenon DEF Done
  <2> QED BY <1>1, <2>1, SameCommit, Zenon
<1> QED BY <1>2, <1>4, <1>5, <1>6, <1>7, <1>8, Zenon DEF HistoryInv

\* A call that passes its checks.
LEMMA BeginHistory ==
    ASSUME HistoryInv, Callable, NEW o \in Operation, Begin(o),
           \A x : StateOK(x) /\ Now(x) => Legal(x, o)
    PROVE  HistoryInv'
<1>1. PICK h : History(h) /\ CallPlace(h) /\ ReplayPlace(h) /\ CommitPlace(h)
  BY Zenon DEF HistoryInv
<1>2. /\ pc = "idle" /\ consistent /\ Len(log) < MaxReplay /\ pc' = "apply" /\ op' = o
      /\ UNCHANGED <<input, inner>> /\ UNCHANGED <<log, accepted, published, committed>>
      /\ UNCHANGED <<consistent, replaying, fired, queue>>
  BY Zenon DEF Callable, Begin, ledger, outbox
<1>3. Types /\ InnerTypes /\ ~replaying
  BY <1>2, Zenon DEF HistoryInv, Types
<1>4. Types'
  BY <1>2, <1>3, Zenon DEF Types
<1>5. InnerTypes'
  BY <1>2, <1>3, SameInner, Zenon
<1>6. History(h)'
  BY <1>1, <1>2, SameHistory, Zenon
<1>7. CallPlace(h)'
  <2>1. At(h[Len(log)]) /\ StateOK(h[Len(log)])
    <3>1. Len(log) \in 0..Len(log)
      BY <1>3 DEF Types
    <3>2. At(h[Len(log)])
      BY <1>1, <1>2, Zenon DEF CallPlace
    <3>3. StateOK(h[Len(log)])
      BY <1>1, <3>1, Zenon DEF History
    <3> QED BY <3>2, <3>3, Zenon
  <2>2. At(h[Len(log)])'
    BY <1>2, <2>1, Zenon DEF At, Now, input, inner
  <2>3. Legal(h[Len(log)], o)
    BY <2>1, Zenon DEF At
  <2> QED BY <1>2, <1>3, <2>2, <2>3, Zenon DEF CallPlace
<1>8. ReplayPlace(h)'
  BY <1>2, <1>3, Zenon DEF ReplayPlace
<1>9. CommitPlace(h)'
  <2>1. Done' = Done
    BY <1>2, Zenon DEF Done
  <2> QED BY <1>1, <1>2, <2>1, SameCommit, Zenon
<1> QED BY <1>4, <1>5, <1>6, <1>7, <1>8, <1>9, Zenon DEF HistoryInv

\* push_batch: validate_events makes the batch a legal operation.
LEMMA PushBatchHistory ==
    ASSUME HistoryInv, NEW es \in Inputs, PushBatch(es)
    PROVE  HistoryInv'
<1>1. es \in Seq(Event)
  <2>1. PICK n \in 1..(MaxInput + 1) : es \in [1..n -> Event]
    BY Zenon DEF Inputs
  <2>2. n \in Nat
    BY <2>1, ContinuousAssumption DEF ValidConfig
  <2> QED BY <2>1, <2>2
<1>2. EventsOp(es) \in Operation /\ EventsOp(es).kind = "events" /\ EventsOp(es).events = es
  BY <1>1 DEF EventsOp, Operation
<1>3. ASSUME NEW x, Now(x) PROVE Legal(x, EventsOp(es))
  <2>1. AcceptsIn(x, es)
    BY <1>3, Zenon DEF PushBatch, Accepts, AcceptsIn, Now
  <2> QED BY <1>2, <2>1, Zenon DEF Legal
<1> QED BY <1>2, <1>3, BeginHistory, Zenon DEF PushBatch

\* advance_watermark: the watermark does not go back.
LEMMA AdvanceWatermarkHistory ==
    ASSUME HistoryInv, NEW w \in Marks, AdvanceWatermark(w)
    PROVE  HistoryInv'
<1> DEFINE o == WatermarkOp(w)
<1>1. o \in Operation /\ o.kind = "watermark" /\ o.events = <<>> /\ o.mark = w
  BY Constants DEF WatermarkOp, Operation
<1>2. Callable /\ Begin(o) /\ (watermark # NoTime => w >= watermark)
  BY Zenon DEF AdvanceWatermark
<1> HIDE DEF o
<1>3. ASSUME NEW x, Now(x) PROVE Legal(x, o)
  BY <1>1, <1>2, <1>3, Zenon DEF Now, Legal
<1> QED BY <1>1, <1>2, <1>3, BeginHistory, ZenonT(30)

\* drain.
LEMMA DrainHistory ==
    ASSUME HistoryInv, Drain
    PROVE  HistoryInv'
<1>1. DrainOp \in Operation /\ DrainOp.kind = "drain" /\ DrainOp.events = <<>>
  BY DEF DrainOp, Operation
<1>2. \A x : Legal(x, DrainOp)
  BY <1>1, Zenon DEF Legal
<1> QED BY <1>1, <1>2, BeginHistory, Zenon DEF Drain

\* apply_events, apply_watermark and a drain as the steps of the history.
LEMMA ApplyCases ==
    ASSUME Apply, NEW x, Now(x)
    PROVE  \/ /\ op.kind = "events"
              /\ watermark' = x.w
              /\ active' = x.a \o op.events
              /\ dedup' = Noted(x.d, op.events)
              /\ facts' = x.f \cup Range(op.events)
              /\ window' = Windowed(x.win, op.events, x.w)
              /\ todo' = todo \cup Range(op.events)
           \/ /\ op.kind = "watermark"
              /\ watermark' = op.mark
              /\ active' = Retained(x.a, Subtract(op.mark, EventRetention))
              /\ dedup' = Restrict(x.d, {i \in DOMAIN x.d : x.d[i] > Subtract(op.mark, DedupRetention)})
              /\ facts' = {e \in x.f : e.time > Subtract(op.mark, EventRetention)}
              /\ window' = Retained(Unexpired(x.win, op.mark), Subtract(op.mark, EventRetention))
              /\ todo' = {e \in todo : e.time > Subtract(op.mark, EventRetention)}
           \/ /\ op.kind = "drain"
              /\ watermark' = x.w /\ active' = x.a /\ dedup' = x.d
              /\ facts' = x.f /\ window' = x.win /\ todo' = todo
<1>1. CASE ApplyEvents
  <2>1. dedup' = Noted(x.d, op.events)
    BY <1>1, Zenon DEF ApplyEvents, Now, Noted
  <2>2. window' = Windowed(x.win, op.events, x.w)
    BY <1>1, Zenon DEF ApplyEvents, Now
  <2> QED BY <1>1, <2>1, <2>2, ZenonT(30) DEF ApplyEvents, Now
<1>2. CASE ApplyWatermark
  <2>1. dedup' = Restrict(x.d, {i \in DOMAIN x.d : x.d[i] > Subtract(op.mark, DedupRetention)})
    BY <1>2, ZenonT(30) DEF ApplyWatermark, Now, Remembered
  <2> QED BY <1>2, <2>1, Zenon DEF ApplyWatermark, Now
<1>3. CASE op.kind = "drain" /\ UNCHANGED <<input, facts, todo, window>>
  BY <1>3, Zenon DEF Now, input
<1> QED BY <1>1, <1>2, <1>3, ZenonT(60) DEF Apply

\* Applying an operation leads to the state that Step names, which exists.
LEMMA ApplyStep ==
    ASSUME Apply, NEW x, Now(x)
    PROVE  /\ \A y : Step(x, op, y) => Now(y)'
           /\ \E y : Step(x, op, y)
<1>1. ASSUME NEW y, Step(x, op, y) PROVE Now(y)'
  <2>1. CASE op.kind = "events"
    BY <1>1, <2>1, ApplyCases, ZenonT(60) DEF Step, StepEvents, Now
  <2>2. CASE op.kind = "watermark"
    BY <1>1, <2>2, ApplyCases, ZenonT(60) DEF Step, StepWatermark, Now
  <2>3. CASE op.kind = "drain"
    BY <1>1, <2>3, ApplyCases, ZenonT(60) DEF Step, Now
  <2> QED BY <2>1, <2>2, <2>3, ApplyCases, ZenonT(30)
<1>2. \E y : Step(x, op, y)
  <2>1. PICK y : /\ y.w = watermark' /\ y.a = active' /\ y.d = dedup' /\ y.f = facts'
                 /\ y.win = window' /\ y.m = x.m \cup Range(op.events)
    <3> DEFINE r == [w |-> watermark', a |-> active', d |-> dedup', f |-> facts', win |-> window',
                     m |-> x.m \cup Range(op.events)]
    <3>1. /\ r.w = watermark' /\ r.a = active' /\ r.d = dedup' /\ r.f = facts'
          /\ r.win = window' /\ r.m = x.m \cup Range(op.events)
      BY Zenon
    <3> HIDE DEF r
    <3> QED BY <3>1, ZenonT(30)
  <2>2. CASE op.kind = "events"
    BY <2>1, <2>2, ApplyCases, ZenonT(60) DEF Step, StepEvents
  <2>3. CASE op.kind = "watermark"
    BY <2>1, <2>3, ApplyCases, ZenonT(60) DEF Step, StepWatermark
  <2>4. CASE op.kind = "drain"
    BY <2>1, <2>4, ApplyCases, ZenonT(60) DEF Step
  <2> QED BY <2>2, <2>3, <2>4, ApplyCases, ZenonT(30)
<1> QED BY <1>1, <1>2, Zenon

\* The activations: all are of events in working memory, and if none was left
\* there are those of the operation.
LEMMA ApplyTodo ==
    ASSUME Apply, NEW x, Now(x), Legal(x, op), todo \subseteq facts
    PROVE  todo' \subseteq facts' /\ (todo = {} => todo' = Range(op.events))
<1>1. CASE op.kind = "events"
  BY <1>1, ApplyCases, Zenon DEF Now
<1>2. CASE op.kind = "watermark"
  <2>1. Range(op.events) = {}
    BY <1>2, RangeProps, Zenon DEF Legal
  <2> QED BY <1>2, <2>1, ApplyCases, ZenonT(60) DEF Now
<1>3. CASE op.kind = "drain"
  <2>1. Range(op.events) = {}
    BY <1>3, RangeProps, Zenon DEF Legal
  <2> QED BY <1>3, <2>1, ApplyCases, ZenonT(60) DEF Now
<1> QED BY <1>1, <1>2, <1>3, ApplyCases, Zenon

\* execute_operation up to the rules, in a call and in a replay.
LEMMA ApplyHistory ==
    ASSUME HistoryInv, Apply
    PROVE  HistoryInv'
<1>1. PICK h : History(h) /\ CallPlace(h) /\ ReplayPlace(h) /\ CommitPlace(h)
  BY Zenon DEF HistoryInv
<1>2. /\ pc = "apply" /\ pc' = "fire"
      /\ UNCHANGED <<made, log, accepted, published, consistent, replaying, op, fired, queue, committed>>
  BY Zenon DEF Apply, ledger, outbox
<1>3. Types /\ InnerTypes
  BY Zenon DEF HistoryInv
<1>4. Types'
  BY <1>2, <1>3, Zenon DEF Types
<1>5. History(h)'
  BY <1>1, <1>2, SameHistory, Zenon
<1>6. CommitPlace(h)'
  <2>1. Done' = Done
    BY <1>2, Zenon DEF Done
  <2> QED BY <1>1, <1>2, <2>1, SameCommit, Zenon
<1>7. Len(log) \in Nat /\ Len(queue) \in Nat
  BY <1>3 DEF Types
<1>8. CASE ~replaying
  <2>1. PICK x : x = h[Len(log)]
    BY Zenon
  <2>2. Legal(x, op) /\ At(x) /\ StateOK(x) /\ Len(log) < MaxReplay
    BY <1>1, <1>2, <1>7, <1>8, <2>1 DEF CallPlace, History
  <2>3. Now(x)
    BY <2>2, Zenon DEF At
  <2>4. PICK y : Step(x, op, y) /\ Now(y)'
    BY <2>3, ApplyStep, Zenon
  <2>5. StateOK(y)
    BY <2>2, <2>4, StepOK, Zenon
  <2>6. todo' \subseteq facts' /\ (todo = {} => todo' = Range(op.events))
    BY <1>3, <2>2, <2>3, ApplyTodo, Zenon DEF InnerTypes
  <2>7. Mid(x, op, y)'
    BY <1>2, <2>2, <2>4, <2>6, Zenon DEF At, Mid
  <2>8. InnerTypes'
    BY <1>2, <1>3, <2>4, <2>5, <2>6, Zenon DEF InnerTypes
  <2>9. CallPlace(h)'
    BY <1>2, <1>8, <2>1, <2>2, <2>4, <2>5, <2>7, ZenonT(30) DEF CallPlace
  <2>10. ReplayPlace(h)'
    BY <1>2, <1>8, Zenon DEF ReplayPlace
  <2> QED BY <1>4, <1>5, <1>6, <2>8, <2>9, <2>10, Zenon DEF HistoryInv
<1>9. CASE replaying
  <2>1. PICK n : n = Replayed
    BY Zenon
  <2>2. /\ n \in 1..Len(log) /\ n - 1 \in 0..Len(log) /\ n \in 0..Len(log)
        /\ op = log[n] /\ At(h[n - 1])
    BY <1>1, <1>2, <1>7, <1>9, <2>1 DEF ReplayPlace, Replayed
  <2>3. /\ Now(h[n - 1]) /\ Legal(h[n - 1], op) /\ Step(h[n - 1], op, h[n]) /\ StateOK(h[n])
    BY <1>1, <2>2, Zenon DEF History, At
  <2>4. Now(h[n])'
    BY <2>3, ApplyStep, Zenon
  <2>5. todo' \subseteq facts' /\ (todo = {} => todo' = Range(op.events))
    BY <1>3, <2>3, ApplyTodo, Zenon DEF InnerTypes
  <2>6. Mid(h[n - 1], op, h[n])'
    BY <1>2, <2>2, <2>4, <2>5, Zenon DEF At, Mid
  <2>7. InnerTypes'
    BY <1>2, <1>3, <2>3, <2>4, <2>5, Zenon DEF InnerTypes
  <2>8. CallPlace(h)'
    BY <1>2, <1>9, Zenon DEF CallPlace
  <2>9. ReplayPlace(h)'
    <3>1. n = Replayed'
      BY <1>2, <2>1, Zenon DEF Replayed
    <3>2. (Len(queue) <= Len(log) /\ \A i \in 1..Len(queue) : queue[i] = log[n + i])'
      BY <1>1, <1>2, <1>9, <2>1, Zenon DEF ReplayPlace
    <3> QED BY <1>2, <1>9, <2>2, <2>6, <3>1, <3>2 DEF ReplayPlace
  <2> QED BY <1>4, <1>5, <1>6, <2>7, <2>8, <2>9, Zenon DEF HistoryInv
<1> QED BY <1>3, <1>8, <1>9, Zenon DEF Types

\* A legal operation brings at most max_input_batch_size events.
LEMMA LegalLength ==
    ASSUME NEW x, NEW o, Legal(x, o)
    PROVE  o.events \in Seq(Event) /\ Len(o.events) <= MaxInput
<1>1. o.events \in Seq(Event) /\ MaxInput \in Nat
  BY ContinuousAssumption, Zenon DEF Legal, Operation, ValidConfig
<1>2. CASE AcceptsIn(x, o.events)
  BY <1>1, <1>2 DEF AcceptsIn
<1>3. CASE o.events = <<>>
  BY <1>1, <1>3
<1> QED BY <1>1, <1>2, <1>3, Zenon DEF Legal

\* With a budget for a whole batch, fire_step leaves nothing over.
LEMMA FiresAll ==
    ASSUME Exact, NEW x, NEW o, Legal(x, o), NEW F, F \in SUBSET Range(o.events),
           F = Range(o.events) \/ Cardinality(F) = MaxRules
    PROVE  F = Range(o.events)
<1>1. CASE Cardinality(F) = MaxRules
  <2>1. o.events \in Seq(Event) /\ Len(o.events) <= MaxInput
    BY LegalLength, Zenon
  <2>2. IsFiniteSet(Range(o.events)) /\ Cardinality(Range(o.events)) <= Len(o.events)
    BY <2>1, ToSetFinite, ZenonT(30)
  <2>3. /\ Cardinality(F) <= Cardinality(Range(o.events))
        /\ Cardinality(Range(o.events)) = Cardinality(F) => Range(o.events) = F
    BY <2>2, FS_Subset, Zenon
  <2>4. /\ Len(o.events) \in Nat /\ Cardinality(Range(o.events)) \in Nat
        /\ MaxInput \in Nat /\ MaxRules \in Nat /\ MaxInput <= MaxRules
    BY <2>1, <2>2, FS_CardinalityType, ContinuousAssumption DEF ValidConfig, Exact
  <2>5. Cardinality(Range(o.events)) = Cardinality(F)
    BY <1>1, <2>1, <2>2, <2>3, <2>4
  <2> QED BY <2>3, <2>5, Zenon
<1> QED BY <1>1, Zenon

\* One more operation in the log.
LEMMA HistoryGrows ==
    ASSUME NEW h, NEW y, NEW g, History(h), log \in Seq(Operation), op \in Operation,
           log' = Append(log, op),
           g = [k \in Nat |-> IF k = Len(log) + 1 THEN y ELSE h[k]],
           StateOK(y), Legal(h[Len(log)], op), Step(h[Len(log)], op, y)
    PROVE  History(g)'
<1>1. PICK n \in Nat : n = Len(log)
  OBVIOUS
<1>2. /\ Len(log') = n + 1 /\ log'[n + 1] = op
      /\ \A k \in 1..n : log'[k] = log[k]
  BY <1>1
<1>3. g[n + 1] = y /\ \A k \in 0..n : g[k] = h[k]
  BY <1>1
<1>4. g[0] = FreshState
  BY <1>1, <1>3 DEF History
<1>5. \A k \in 0..(n + 1) : StateOK(g[k])
  <2> TAKE k \in 0..(n + 1)
  <2>1. k \in 0..n \/ k = n + 1
    BY <1>1
  <2> QED BY <1>1, <1>3, <2>1, Zenon DEF History
<1>6. ASSUME NEW k \in 1..(n + 1)
      PROVE  Legal(g[k - 1], log'[k]) /\ Step(g[k - 1], log'[k], g[k])
  <2>1. CASE k = n + 1
    <3>1. g[k - 1] = h[n]
      BY <1>1, <1>3, <2>1
    <3> QED BY <1>1, <1>2, <1>3, <2>1, <3>1, Zenon
  <2>2. CASE k # n + 1
    <3>1. k \in 1..n /\ k - 1 \in 0..n /\ k \in 0..n
      BY <1>1, <2>2
    <3>2. Legal(h[k - 1], log[k]) /\ Step(h[k - 1], log[k], h[k])
      BY <1>1, <3>1, Zenon DEF History
    <3>3. g[k - 1] = h[k - 1] /\ g[k] = h[k] /\ log'[k] = log[k]
      BY <1>2, <1>3, <3>1, Zenon
    <3> QED BY <3>2, <3>3, Zenon
  <2> QED BY <2>1, <2>2, ZenonT(30)
<1>7. ASSUME NEW k \in 0..(n + 1), NEW j \in 1..k, NEW e \in Range(log'[j].events)
      PROVE  Known(g[k], e)
  <2>1. CASE k = n + 1
    <3>1. e \in Event
      <4>1. log'[j] \in Operation
        BY <1>1, <1>2, <1>7, <2>1
      <4>2. log'[j].events \in Seq(Event)
        BY <4>1, ZenonT(30) DEF Operation
      <4> QED BY <1>7, <4>2, RangeProps, ZenonT(30)
    <3>2. CASE j = n + 1
      <4>1. e \in Range(op.events)
        BY <1>2, <1>7, <3>2, Zenon
      <4>2. StateOK(h[n])
        BY <1>1 DEF History
      <4> QED BY <1>1, <1>3, <2>1, <3>1, <4>1, <4>2, StepKnown
    <3>3. CASE j # n + 1
      <4>1. j \in 1..n /\ n \in 0..n
        BY <1>1, <2>1, <3>3
      <4>2. e \in Range(log[j].events)
        BY <1>2, <1>7, <4>1, Zenon
      <4>3. Known(h[n], e) /\ StateOK(h[n])
        BY <1>1, <4>1, <4>2, ZenonT(30) DEF History
      <4> QED BY <1>1, <1>3, <2>1, <3>1, <4>3, StepKnown, ZenonT(30)
    <3> QED BY <3>2, <3>3, Zenon
  <2>2. CASE k # n + 1
    <3>1. k \in 0..n /\ j \in 1..n
      BY <1>1, <2>2
    <3>2. e \in Range(log[j].events)
      BY <1>2, <1>7, <3>1, Zenon
    <3>3. Known(h[k], e)
      BY <1>1, <3>1, <3>2, Zenon DEF History
    <3> QED BY <1>3, <3>1, <3>3, Zenon
  <2> QED BY <2>1, <2>2, Zenon
<1>8. ASSUME NEW k \in 0..(n + 1), NEW e
      PROVE  e \in g[k].m <=> \E j \in 1..k : e \in Range(log'[j].events)
  <2>1. ASSUME NEW i \in 0..n
        PROVE  e \in h[i].m <=> \E j \in 1..i : e \in Range(log'[j].events)
    <3>1. e \in h[i].m <=> \E j \in 1..i : e \in Range(log[j].events)
      BY <1>1, Zenon DEF History
    <3>2. \A j \in 1..i : log'[j] = log[j]
      BY <1>1, <1>2
    <3> QED BY <3>1, <3>2, Zenon
  <2>2. CASE k = n + 1
    <3>1. y.m = h[n].m \cup Range(op.events)
      BY <1>1, Zenon DEF Step
    <3>2. e \in h[n].m <=> \E j \in 1..n : e \in Range(log'[j].events)
      BY <1>1, <2>1
    <3>3. (\E j \in 1..(n + 1) : e \in Range(log'[j].events))
            <=> ((\E j \in 1..n : e \in Range(log'[j].events)) \/ e \in Range(op.events))
      <4>1. \A j : j \in 1..(n + 1) <=> j \in 1..n \/ j = n + 1
        BY <1>1
      <4> QED BY <1>2, <4>1, Zenon
    <3> QED BY <1>3, <2>2, <3>1, <3>2, <3>3, ZenonT(30)
  <2>3. CASE k # n + 1
    <3>1. k \in 0..n
      BY <1>1, <2>3
    <3> QED BY <1>3, <2>1, <3>1, ZenonT(30)
  <2> QED BY <2>2, <2>3, ZenonT(60)
<1> QED BY <1>2, <1>4, <1>5, <1>6, <1>7, <1>8, ZenonT(30) DEF History

\* Without its last operation the log has the same history.
LEMMA HistoryShrinks ==
    ASSUME NEW h, History(h), log \in Seq(Operation), log # <<>>, log' = SubSeq(log, 1, Len(log) - 1)
    PROVE  /\ History(h)' /\ log' \in Seq(Operation) /\ Len(log') = Len(log) - 1
           /\ \A k \in 1..Len(log') : log'[k] = log[k]
<1>1. PICK n \in Nat : n = Len(log) /\ n >= 1
  OBVIOUS
<1>2. /\ log' \in Seq(Operation) /\ Len(log') = n - 1
      /\ \A k \in 1..(n - 1) : log'[k] = log[k]
  BY <1>1
<1>3. \A k \in 0..(n - 1) : k \in 0..n
  BY <1>1
<1>4. \A k \in 1..(n - 1) : k \in 1..n
  BY <1>1
<1>5. \A k \in 0..(n - 1) : \A j \in 1..k : log'[j] = log[j]
  BY <1>1, <1>2
<1>6. h[0] = FreshState /\ \A k \in 0..(n - 1) : StateOK(h[k])
  BY <1>1, <1>3, Zenon DEF History
<1>7. \A k \in 1..(n - 1) : Legal(h[k - 1], log'[k]) /\ Step(h[k - 1], log'[k], h[k])
  BY <1>1, <1>2, <1>4, Zenon DEF History
<1>8. \A k \in 0..(n - 1) : \A j \in 1..k : \A e \in Range(log'[j].events) : Known(h[k], e)
  BY <1>1, <1>3, <1>5, Zenon DEF History
<1>9. ASSUME NEW k \in 0..(n - 1), NEW e
      PROVE  e \in h[k].m <=> \E j \in 1..k : e \in Range(log'[j].events)
  <2>1. e \in h[k].m <=> \E j \in 1..k : e \in Range(log[j].events)
    BY <1>1, <1>3, Zenon DEF History
  <2> QED BY <1>5, <2>1, Zenon
<1>10. History(h)'
  BY <1>2, <1>6, <1>7, <1>8, <1>9, ZenonT(30) DEF History
<1> QED BY <1>1, <1>2, <1>10, Zenon

\* fire_step: a call adds its operation to the log, a replay does not.
LEMMA FireHistory ==
    ASSUME HistoryInv, Fire
    PROVE  HistoryInv'
<1>1. PICK h : History(h) /\ CallPlace(h) /\ ReplayPlace(h) /\ CommitPlace(h)
  BY Zenon DEF HistoryInv
<1>2. PICK F \in SUBSET todo : /\ F = todo \/ Cardinality(F) = MaxRules
                               /\ fired' = F /\ todo' = todo \ F /\ made' = made \cup F
  BY Zenon DEF Fire
<1>3. /\ pc = "fire"
      /\ UNCHANGED <<input, facts, window>>
      /\ UNCHANGED <<published, consistent, replaying, op, queue, committed>>
  BY Zenon DEF Fire, outbox
<1>4. Types /\ InnerTypes
  BY Zenon DEF HistoryInv
<1>5. Len(log) \in Nat /\ Len(queue) \in Nat /\ log \in Seq(Operation) /\ op \in Operation
  BY <1>4 DEF Types
<1>6. InnerTypes'
  <2>1. PICK x : StateOK(x) /\ Now(x)
    BY <1>4, Zenon DEF InnerTypes
  <2>2. Now(x)'
    BY <1>3, <2>1, SameNow, Zenon
  <2>3. active \in Seq(Event) /\ facts = Range(active)
    BY <2>1, Zenon DEF StateOK, InputOK, Now
  <2>4. IsFiniteSet(facts) /\ facts \subseteq Event
    BY <2>3, ToSetFinite, RangeProps, Zenon
  <2>5. F \in SUBSET facts
    BY <1>2, <1>4, Zenon DEF InnerTypes
  <2>6. IsFiniteSet(F)
    BY <2>4, <2>5, FS_Subset, Zenon
  <2> QED BY <1>2, <1>3, <1>4, <2>1, <2>2, <2>4, <2>5, <2>6, Zenon DEF InnerTypes
<1>7. CASE ~replaying
  <2>1. log' = Append(log, op) /\ accepted' = accepted + Len(op.events) /\ pc' = "publish"
    BY <1>7, Zenon DEF Fire
  <2>2. PICK n \in Nat : n = Len(log)
    BY <1>5, Zenon
  <2>3. PICK y : StateOK(y) /\ Step(h[n], op, y) /\ Mid(h[n], op, y)
    BY <1>1, <1>3, <1>7, <2>2, Zenon DEF CallPlace
  <2>4. Legal(h[n], op) /\ n < MaxReplay
    BY <1>1, <1>3, <1>7, <2>2, Zenon DEF CallPlace
  <2>5. PICK g : g = [k \in Nat |-> IF k = Len(log) + 1 THEN y ELSE h[k]]
    BY ZenonT(30)
  <2>6. g[n + 1] = y /\ \A k \in 0..n : g[k] = h[k]
    BY <2>2, <2>5
  <2>7. History(g)'
    BY <1>1, <1>5, <2>1, <2>2, <2>3, <2>4, <2>5, HistoryGrows, Zenon
  <2>8. /\ log' \in Seq(Operation) /\ Len(log') = n + 1 /\ log'[n + 1] = op
        /\ \A k \in 1..n : log'[k] = log[k]
    BY <1>5, <2>1, <2>2
  <2>9. Len(op.events) \in Nat
    BY <1>5 DEF Operation
  <2>10. Types'
    <3>1. accepted' \in Nat
      BY <1>4, <2>1, <2>9 DEF Types
    <3>2. n + 1 <= MaxReplay
      BY <2>2, <2>4, ContinuousAssumption DEF ValidConfig
    <3>3. ~replaying' /\ queue' = <<>>
      <4>1. queue = <<>>
        BY <1>4, <1>7, <1>3, Zenon DEF Types
      <4> QED BY <1>3, <1>7, <4>1, Zenon
    <3> QED BY <1>3, <1>4, <2>1, <2>8, <3>1, <3>2, <3>3, Zenon DEF Types
  <2>11. Exact => F = Range(op.events) /\ todo = F /\ made = h[n].m
    <3> SUFFICES ASSUME Exact PROVE F = Range(op.events) /\ todo = F /\ made = h[n].m
      BY Zenon
    <3>1. todo = Range(op.events) /\ made = h[n].m
      BY <2>3, Zenon DEF Mid
    <3> QED BY <1>2, <2>4, <3>1, FiresAll, ZenonT(30)
  <2>12. At(y)'
    <3>1. Now(y)'
      BY <1>3, <2>3, SameNow, Zenon DEF Mid
    <3>2. y.m = h[n].m \cup Range(op.events)
      BY <2>3, Zenon DEF Step
    <3> QED BY <1>2, <2>11, <3>1, <3>2, Zenon DEF At
  <2>13. CallPlace(g)'
    <3>1. accepted' >= Len(op.events)
      BY <1>4, <2>1, <2>9 DEF Types
    <3>2. log' # <<>> /\ log'[Len(log')] = op' /\ At(g[Len(log)])'
      BY <1>3, <2>6, <2>8, <2>12, <2>2
    <3> QED BY <1>2, <1>3, <2>1, <2>11, <3>1, <3>2, ZenonT(30) DEF CallPlace
  <2>14. ReplayPlace(g)'
    BY <1>3, <1>7, <2>1, ZenonT(60) DEF ReplayPlace
  <2>15. CommitPlace(g)'
    <3>1. Done = n /\ Done' = n
      BY <1>3, <2>1, <2>2, <2>8 DEF Done
    <3>2. g[n] = h[n]
      BY <2>2, <2>6
    <3> QED BY <1>1, <1>3, <2>8, <3>1, <3>2, ZenonT(30) DEF CommitPlace
  <2> QED BY <1>6, <2>7, <2>10, <2>13, <2>14, <2>15, Zenon DEF HistoryInv
<1>8. CASE replaying
  <2>1. UNCHANGED <<log, accepted>> /\ pc' = "replay"
    BY <1>8, Zenon DEF Fire, ledger
  <2>2. PICK n : n = Replayed
    BY Zenon
  <2>3. /\ n \in 1..Len(log) /\ op = log[n] /\ Mid(h[n - 1], op, h[n])
    BY <1>1, <1>3, <1>5, <1>8, <2>2 DEF ReplayPlace, Replayed
  <2>4. Legal(h[n - 1], op) /\ Step(h[n - 1], op, h[n])
    BY <1>1, <2>3, Zenon DEF History
  <2>5. At(h[n])'
    <3>1. Now(h[n])'
      BY <1>3, <2>3, SameNow, Zenon DEF Mid
    <3>2. ASSUME Exact PROVE todo' = {} /\ made' = h[n].m
      <4>1. todo = Range(op.events) /\ made = h[n - 1].m
        BY <2>3, <3>2, Zenon DEF Mid
      <4>2. F = Range(op.events)
        BY <1>2, <2>4, <3>2, <4>1, FiresAll, Zenon
      <4>3. h[n].m = h[n - 1].m \cup Range(op.events)
        BY <2>4, Zenon DEF Step
      <4> QED BY <1>2, <4>1, <4>2, <4>3, Zenon
    <3> QED BY <3>1, <3>2, Zenon DEF At
  <2>6. Types'
    BY <1>3, <1>4, <2>1, Zenon DEF Types
  <2>7. History(h)'
    BY <1>1, <2>1, SameHistory, Zenon
  <2>8. CallPlace(h)'
    BY <1>3, <1>8, <2>1, Zenon DEF CallPlace
  <2>9. ReplayPlace(h)'
    <3>1. n = Replayed'
      BY <1>3, <2>1, <2>2, Zenon DEF Replayed
    <3>2. (Len(queue) <= Len(log) /\ \A i \in 1..Len(queue) : queue[i] = log[n + i])'
      BY <1>1, <1>3, <1>8, <2>1, <2>2, ZenonT(30) DEF ReplayPlace
    <3> QED BY <1>3, <1>8, <2>1, <2>5, <3>1, <3>2, Zenon DEF ReplayPlace
  <2>10. CommitPlace(h)'
    <3>1. Done' = Done
      BY <1>3, <2>1, Zenon DEF Done
    <3> QED BY <1>1, <1>3, <2>1, <3>1, SameCommit, Zenon
  <2> QED BY <1>6, <2>6, <2>7, <2>8, <2>9, <2>10, Zenon DEF HistoryInv
<1> QED BY <1>4, <1>7, <1>8, Zenon DEF Types

\* publish_result.
LEMMA PublishHistory ==
    ASSUME HistoryInv, Publish
    PROVE  HistoryInv'
<1>1. PICK h : History(h) /\ CallPlace(h) /\ ReplayPlace(h) /\ CommitPlace(h)
  BY Zenon DEF HistoryInv
<1>2. /\ pc = "publish" /\ pc' = "idle" /\ op' = DrainOp /\ fired' = {}
      /\ published' = Append(published, fired) /\ committed' = <<input, inner>>
      /\ UNCHANGED <<input, inner>> /\ UNCHANGED <<log, accepted, consistent, replaying, queue>>
  BY Zenon DEF Publish, ledger
<1>3. Types /\ InnerTypes /\ ~replaying
  BY <1>2, Zenon DEF HistoryInv, Types
<1>4. DrainOp \in Operation
  BY DEF DrainOp, Operation
<1>5. published' \in Seq(SUBSET Event)
  BY <1>2, <1>3 DEF Types, InnerTypes
<1>6. Types'
  BY <1>2, <1>3, <1>4, <1>5, Zenon DEF Types
<1>7. InnerTypes'
  BY <1>2, <1>3, SameInner, Zenon
<1>8. History(h)'
  BY <1>1, <1>2, SameHistory, Zenon
<1>9. PICK n \in Nat : n = Len(log) /\ n >= 1
  BY <1>1, <1>2, <1>3 DEF CallPlace, Types
<1>10. At(h[n]) /\ log[n] = op /\ (Exact => fired = Range(op.events))
  BY <1>1, <1>2, <1>9, Zenon DEF CallPlace
<1>11. CallPlace(h)'
  <2>1. At(h[n])'
    BY <1>2, <1>10, Zenon DEF At, Now, input, inner
  <2> QED BY <1>2, <1>9, <2>1, Zenon DEF CallPlace
<1>12. ReplayPlace(h)'
  BY <1>2, <1>3, Zenon DEF ReplayPlace
<1>13. CommitPlace(h)'
  <2>1. Done = n - 1 /\ Done' = n
    BY <1>2, <1>9, Zenon DEF Done
  <2>2. committed' = <<<<h[n].w, h[n].a, h[n].d>>, <<h[n].f, todo, made, h[n].win>>>>
    BY <1>2, <1>10, Zenon DEF At, Now, input, inner
  <2>3. Exact => todo = {} /\ made = h[n].m
    BY <1>10, Zenon DEF At
  <2>4. ASSUME Exact
        PROVE  Len(published') = n /\ \A i \in 1..n : published'[i] = Range(log[i].events)
    <3>1. Len(published) = n - 1 /\ \A i \in 1..(n - 1) : published[i] = Range(log[i].events)
      BY <1>1, <2>1, <2>4, Zenon DEF CommitPlace
    <3>2. published \in Seq(SUBSET Event) /\ fired \in SUBSET Event
      BY <1>3, Zenon DEF Types, InnerTypes
    <3>3. /\ Len(published') = n /\ published'[n] = fired
          /\ \A i \in 1..(n - 1) : published'[i] = published[i]
      BY <1>2, <1>9, <3>1, <3>2
    <3>4. \A i \in 1..n : i \in 1..(n - 1) \/ i = n
      BY <1>9
    <3> QED BY <1>10, <2>4, <3>1, <3>3, <3>4, Zenon
  <2> QED BY <1>2, <2>1, <2>2, <2>3, <2>4, Zenon DEF CommitPlace
<1> QED BY <1>6, <1>7, <1>8, <1>11, <1>12, <1>13, Zenon DEF HistoryInv

\* publish_result throws: the operation leaves the log.
LEMMA PublishFailsHistory ==
    ASSUME HistoryInv, PublishFails
    PROVE  HistoryInv'
<1>1. PICK h : History(h) /\ CallPlace(h) /\ ReplayPlace(h) /\ CommitPlace(h)
  BY Zenon DEF HistoryInv
<1>2. /\ pc = "publish" /\ pc' = "recover" /\ log' = SubSeq(log, 1, Len(log) - 1)
      /\ accepted' = accepted - Len(op.events)
      /\ UNCHANGED <<input, inner>>
      /\ UNCHANGED <<published, consistent, replaying, op, fired, queue, committed>>
  BY Zenon DEF PublishFails, outbox
<1>3. Types /\ InnerTypes /\ ~replaying
  BY <1>2, Zenon DEF HistoryInv, Types
<1>4. log \in Seq(Operation) /\ log # <<>> /\ accepted >= Len(op.events)
  BY <1>1, <1>2, <1>3, Zenon DEF CallPlace, Types
<1>5. /\ History(h)' /\ log' \in Seq(Operation) /\ Len(log') = Len(log) - 1
      /\ \A k \in 1..Len(log') : log'[k] = log[k]
  BY <1>1, <1>2, <1>4, HistoryShrinks, Zenon
<1>6. Types'
  <2>1. accepted' \in Nat
    BY <1>2, <1>3, <1>4 DEF Types, Operation
  <2>2. Len(log') <= MaxReplay
    BY <1>3, <1>4, <1>5, ContinuousAssumption, SMTT(30) DEF Types, ValidConfig
  <2> QED BY <1>2, <1>3, <1>5, <2>1, <2>2, Zenon DEF Types
<1>7. InnerTypes'
  BY <1>2, <1>3, SameInner, Zenon
<1>8. CallPlace(h)'
  BY <1>2, Zenon DEF CallPlace
<1>9. ReplayPlace(h)'
  BY <1>2, <1>3, Zenon DEF ReplayPlace
<1>10. CommitPlace(h)'
  <2>1. Done = Len(log) - 1 /\ Done' = Done
    BY <1>2, <1>5, Zenon DEF Done
  <2>2. \A i \in 1..Done : log'[i] = log[i]
    BY <1>5, <2>1, Zenon
  <2> QED BY <1>1, <1>2, <2>1, <2>2, Zenon DEF CommitPlace
<1> QED BY <1>5, <1>6, <1>7, <1>8, <1>9, <1>10, Zenon DEF HistoryInv

\* An operation throws: the call will recover, a replay gives up.
LEMMA StepFailsHistory ==
    ASSUME HistoryInv, StepFails
    PROVE  HistoryInv'
<1>1. PICK h : History(h) /\ CallPlace(h) /\ ReplayPlace(h) /\ CommitPlace(h)
  BY Zenon DEF HistoryInv
<1>2. /\ pc \in {"apply", "fire"} /\ UNCHANGED <<input, inner>>
      /\ UNCHANGED <<log, accepted, published, committed>>
  BY Zenon DEF StepFails, ledger, outbox
<1>3. Types /\ InnerTypes
  BY Zenon DEF HistoryInv
<1>4. \/ /\ ~consistent' /\ ~replaying' /\ pc' = "idle" /\ op' = DrainOp /\ fired' = {} /\ queue' = <<>>
         /\ consistent' \in BOOLEAN /\ replaying' \in BOOLEAN
      \/ ~replaying /\ pc' = "recover" /\ UNCHANGED <<consistent, replaying, op, fired, queue>>
  BY ZenonT(30) DEF StepFails
<1>5. DrainOp \in Operation /\ <<>> \in Seq(Operation)
  BY DEF DrainOp, Operation
<1>6. Types'
  <2>1. CASE /\ ~replaying' /\ pc' = "idle" /\ op' = DrainOp /\ queue' = <<>>
             /\ consistent' \in BOOLEAN /\ replaying' \in BOOLEAN
    BY <1>2, <1>3, <1>5, <2>1, Zenon DEF Types
  <2>2. CASE ~replaying /\ pc' = "recover" /\ UNCHANGED <<consistent, replaying, op, queue>>
    BY <1>2, <1>3, <2>2, Zenon DEF Types
  <2> QED BY <1>4, <2>1, <2>2, Zenon
<1>7. InnerTypes'
  BY <1>2, <1>3, <1>4, SameInner, Zenon
<1>8. History(h)'
  BY <1>1, <1>2, SameHistory, Zenon
<1>9. CallPlace(h)'
  BY <1>4, Zenon DEF CallPlace
<1>10. ReplayPlace(h)'
  BY <1>4 DEF ReplayPlace
<1>11. CommitPlace(h)'
  <2>1. Done' = Done
    BY <1>2, <1>4, Zenon DEF Done
  <2> QED BY <1>1, <1>2, <2>1, SameCommit, Zenon
<1> QED BY <1>6, <1>7, <1>8, <1>9, <1>10, <1>11, Zenon DEF HistoryInv

\* recover_by_replay begins with a fresh session, or has none.
LEMMA RecoverHistory ==
    ASSUME HistoryInv, Recover
    PROVE  HistoryInv'
<1>1. PICK h : History(h) /\ CallPlace(h) /\ ReplayPlace(h) /\ CommitPlace(h)
  BY Zenon DEF HistoryInv
<1>2. pc = "recover" /\ UNCHANGED <<log, accepted, published, committed>>
  BY Zenon DEF Recover, ledger, outbox
<1>3. Types /\ InnerTypes /\ ~replaying
  BY <1>2, Zenon DEF HistoryInv, Types
<1>4. History(h)'
  BY <1>1, <1>2, SameHistory, Zenon
<1>5. CommitPlace(h)' \/ pc' = "publish"
  <2>1. Done' = Done \/ pc' = "publish"
    BY <1>2, Zenon DEF Done
  <2> QED BY <1>1, <1>2, <2>1, SameCommit, Zenon
<1>6. CASE /\ Fresh /\ replaying' = TRUE /\ queue' = log /\ pc' = "replay"
           /\ UNCHANGED <<consistent, op, fired>>
  <2>1. Types'
    BY <1>2, <1>3, <1>6, Zenon DEF Types
  <2>2. Now(FreshState)' /\ todo' = {} /\ made' = {} /\ facts' = {}
    BY <1>6, Zenon DEF Fresh, Now, FreshState
  <2>3. InnerTypes'
    BY <1>3, <1>6, <2>2, FreshOK, Zenon DEF InnerTypes
  <2>4. Replayed' = 0
    BY <1>2, <1>3, <1>6 DEF Replayed, Types
  <2>5. At(h[0])'
    <3>1. h[0] = FreshState /\ FreshState.m = {}
      BY <1>1, Zenon DEF History, FreshState
    <3> QED BY <2>2, <3>1, Zenon DEF At
  <2>6. CallPlace(h)'
    BY <1>6, Zenon DEF CallPlace
  <2>7. ReplayPlace(h)'
    <3>1. Len(queue') <= Len(log') /\ \A i \in 1..Len(queue') : queue'[i] = log'[0 + i]
      BY <1>2, <1>3, <1>6 DEF Types
    <3> QED BY <1>6, <2>4, <2>5, <3>1, Zenon DEF ReplayPlace
  <2> QED BY <1>4, <1>5, <1>6, <2>1, <2>3, <2>6, <2>7, Zenon DEF HistoryInv
<1>7. CASE /\ consistent' = FALSE /\ pc' = "idle" /\ op' = DrainOp /\ fired' = {}
           /\ UNCHANGED <<input, inner, replaying, queue>>
  <2>1. DrainOp \in Operation
    BY DEF DrainOp, Operation
  <2>2. Types'
    BY <1>2, <1>3, <1>7, <2>1, ZenonT(30) DEF Types
  <2>3. InnerTypes'
    BY <1>3, <1>7, SameInner, Zenon
  <2>4. CallPlace(h)'
    BY <1>7, Zenon DEF CallPlace
  <2>5. ReplayPlace(h)'
    BY <1>3, <1>7, Zenon DEF ReplayPlace
  <2> QED BY <1>4, <1>5, <1>7, <2>2, <2>3, <2>4, <2>5, Zenon DEF HistoryInv
<1> QED BY <1>6, <1>7, Zenon DEF Recover

\* recover_by_replay takes the next committed operation.
LEMMA ReplayNextHistory ==
    ASSUME HistoryInv, ReplayNext
    PROVE  HistoryInv'
<1>1. PICK h : History(h) /\ CallPlace(h) /\ ReplayPlace(h) /\ CommitPlace(h)
  BY Zenon DEF HistoryInv
<1>2. /\ pc = "replay" /\ queue # <<>> /\ op' = Head(queue) /\ queue' = Tail(queue) /\ pc' = "apply"
      /\ UNCHANGED <<input, inner>>
      /\ UNCHANGED <<log, accepted, published, consistent, replaying, fired, committed>>
  BY Zenon DEF ReplayNext, ledger, outbox
<1>3. Types /\ InnerTypes
  BY Zenon DEF HistoryInv
<1>4. /\ replaying /\ Len(queue) <= Len(log) /\ At(h[Replayed])
      /\ \A i \in 1..Len(queue) : queue[i] = log[Replayed + i]
  BY <1>1, <1>2, Zenon DEF ReplayPlace
<1>5. PICK n \in Nat, q \in Nat : n = Replayed /\ q = Len(queue) /\ q >= 1 /\ n + q = Len(log)
  <2>1. Len(queue) \in Nat /\ Len(log) \in Nat /\ Len(queue) >= 1
    BY <1>2, <1>3 DEF Types
  <2>2. Replayed \in Nat /\ Replayed + Len(queue) = Len(log)
    BY <1>4, <2>1 DEF Replayed
  <2> QED BY <2>1, <2>2, Zenon
<1>6. /\ op' \in Operation /\ queue' \in Seq(Operation) /\ Len(queue') = q - 1
      /\ op' = queue[1] /\ \A i \in 1..(q - 1) : queue'[i] = queue[i + 1]
  BY <1>2, <1>3, <1>5 DEF Types
<1>7. Types'
  BY <1>2, <1>3, <1>4, <1>6, Zenon DEF Types
<1>8. InnerTypes'
  BY <1>2, <1>3, SameInner, Zenon
<1>9. History(h)'
  BY <1>1, <1>2, SameHistory, Zenon
<1>10. CallPlace(h)'
  BY <1>2, <1>4, Zenon DEF CallPlace
<1>11. ReplayPlace(h)'
  <2>1. Replayed' = n + 1 /\ Len(queue') <= Len(log')
    BY <1>2, <1>5, <1>6 DEF Replayed
  <2>2. \A i \in 1..Len(queue') : queue'[i] = log'[(n + 1) + i]
    <3> TAKE i \in 1..Len(queue')
    <3>1. i + 1 \in 1..q /\ i \in 1..(q - 1) /\ n + (i + 1) = (n + 1) + i
      BY <1>5, <1>6
    <3>2. queue[i + 1] = log[n + (i + 1)]
      BY <1>4, <1>5, <3>1, Zenon
    <3> QED BY <1>2, <1>6, <3>1, <3>2, Zenon
  <2>3. op' = log'[n + 1]
    BY <1>2, <1>4, <1>5, <1>6
  <2>4. At(h[(n + 1) - 1])'
    <3>1. (n + 1) - 1 = n
      BY <1>5
    <3> QED BY <1>2, <1>4, <1>5, <3>1, Zenon DEF At, Now, input, inner
  <2>5. /\ Replayed' >= 1 /\ Len(queue') <= Len(log')
        /\ \A i \in 1..Len(queue') : queue'[i] = log'[Replayed' + i]
        /\ op' = log'[Replayed'] /\ At(h[Replayed - 1])'
    <3>1. n + 1 >= 1
      BY <1>5
    <3> QED BY <2>1, <2>2, <2>3, <2>4, <3>1, Zenon
  <2> QED BY <1>2, <2>5, Zenon DEF ReplayPlace
<1>12. CommitPlace(h)'
  <2>1. Done' = Done
    BY <1>2, Zenon DEF Done
  <2> QED BY <1>1, <1>2, <2>1, SameCommit, Zenon
<1> QED BY <1>7, <1>8, <1>9, <1>10, <1>11, <1>12, Zenon DEF HistoryInv

\* recover_by_replay has reached the state of the last commit.
LEMMA ReplayEndHistory ==
    ASSUME HistoryInv, ReplayEnd
    PROVE  HistoryInv'
<1>1. PICK h : History(h) /\ CallPlace(h) /\ ReplayPlace(h) /\ CommitPlace(h)
  BY Zenon DEF HistoryInv
<1>2. /\ pc = "replay" /\ queue = <<>> /\ replaying' = FALSE /\ consistent' = TRUE
      /\ pc' = "idle" /\ op' = DrainOp /\ fired' = {}
      /\ UNCHANGED <<input, inner>> /\ UNCHANGED <<log, accepted, published, queue, committed>>
  BY Zenon DEF ReplayEnd, ledger, outbox
<1>3. Types /\ InnerTypes
  BY Zenon DEF HistoryInv
<1>4. DrainOp \in Operation
  BY DEF DrainOp, Operation
<1>5. Types'
  BY <1>2, <1>3, <1>4, Zenon DEF Types
<1>6. InnerTypes'
  BY <1>2, <1>3, SameInner, Zenon
<1>7. History(h)'
  BY <1>1, <1>2, SameHistory, Zenon
<1>8. CallPlace(h)'
  <2>1. Replayed = Len(log)
    BY <1>2, <1>3 DEF Replayed, Types
  <2>2. At(h[Len(log)])
    BY <1>1, <1>2, <2>1, Zenon DEF ReplayPlace
  <2>3. At(h[Len(log)])'
    BY <1>2, <2>2, Zenon DEF At, Now, input, inner
  <2> QED BY <1>2, <2>3, Zenon DEF CallPlace
<1>9. ReplayPlace(h)'
  BY <1>2, Zenon DEF ReplayPlace
<1>10. CommitPlace(h)'
  <2>1. Done' = Done
    BY <1>2, Zenon DEF Done
  <2> QED BY <1>1, <1>2, <2>1, SameCommit, Zenon
<1> QED BY <1>5, <1>6, <1>7, <1>8, <1>9, <1>10, Zenon DEF HistoryInv

\* Every step keeps the invariant.
LEMMA NextHistory == HistoryInv /\ [Next]_vars => HistoryInv'
<1> SUFFICES ASSUME HistoryInv, [Next]_vars PROVE HistoryInv'
  BY Zenon
<1>1. ASSUME NEW es \in Inputs, PushBatch(es) PROVE HistoryInv'
  BY <1>1, PushBatchHistory, Zenon
<1>2. ASSUME NEW w \in Marks, AdvanceWatermark(w) PROVE HistoryInv'
  BY <1>2, AdvanceWatermarkHistory, Zenon
<1>3. CASE Drain
  BY <1>3, DrainHistory, Zenon
<1>4. CASE Rejected \/ UNCHANGED vars
  BY <1>4, SameHistoryInv, Zenon DEF Rejected, vars, input, inner, ledger, outbox, control
<1>5. CASE Acknowledge
  BY <1>5, SameHistoryInv, ZenonT(30) DEF Acknowledge, input, inner, ledger, control
<1>6. CASE Apply
  BY <1>6, ApplyHistory, Zenon
<1>7. CASE Fire
  BY <1>7, FireHistory, Zenon
<1>8. CASE Publish
  BY <1>8, PublishHistory, Zenon
<1>9. CASE PublishFails
  BY <1>9, PublishFailsHistory, Zenon
<1>10. CASE StepFails
  BY <1>10, StepFailsHistory, Zenon
<1>11. CASE Recover
  BY <1>11, RecoverHistory, Zenon
<1>12. CASE ReplayNext
  BY <1>12, ReplayNextHistory, Zenon
<1>13. CASE ReplayEnd
  BY <1>13, ReplayEndHistory, Zenon
<1> QED
  BY <1>1, <1>2, <1>3, <1>4, <1>5, <1>6, <1>7, <1>8, <1>9, <1>10, <1>11, <1>12, <1>13, Zenon
  DEF Next, Running

\* The invariant holds in every behaviour.
LEMMA HistoryHolds == Spec => []HistoryInv
BY InitHistory, NextHistory, PTL DEF Spec
============================================================================
