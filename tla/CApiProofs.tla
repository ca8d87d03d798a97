----------------------------- MODULE CApiProofs -----------------------------
(***************************************************************************)
(* Proofs about the C interface, for any number of sessions, streams and   *)
(* knowledge bases and for documents of any size: no pointer dangles, and  *)
(* a call brings in all of its records once or nothing.                    *)
(***************************************************************************)
EXTENDS CApi, FiniteSetTheorems, TLAPS

\* What is left to do in a call always ends with the commit, once.
Plans ==
    {<<"build", "allocate", "commit">>, <<"allocate", "build", "commit">>,
     <<"allocate", "commit">>, <<"build", "commit">>, <<"commit">>}

\* A call in progress has not committed.  If it finishes a stream, the stream is
\* one of this session, can be used no more, has brought nothing in, and the
\* records of the call are all it was fed.
CallOK(s) ==
    call[s] # None =>
        /\ call[s].todo \in Plans
        /\ call[s].committed = FALSE
        /\ LET d == call[s].stream
           IN  d # None => /\ owner[d] = s
                           /\ phase[d] = "finished"
                           /\ commits[d] = 0
                           /\ call[s].records = fed[d]

CallsOK == \A s \in Sessions : CallOK(s)

-----------------------------------------------------------------------------
\* The commit is the last step of a plan and the others are followed by one.
LEMMA PlanSteps ==
    ASSUME NEW p \in Plans
    PROVE  /\ p \in Seq({"build", "allocate", "commit"}) \ {<<>>}
           /\ Head(p) = "commit" => Tail(p) = <<>>
           /\ Head(p) # "commit" => Tail(p) # <<>> /\ Tail(p) \in Plans
<1>1. CASE p = <<"build", "allocate", "commit">>
  BY <1>1 DEF Plans
<1>2. CASE p = <<"allocate", "build", "commit">>
  BY <1>2 DEF Plans
<1>3. CASE p = <<"allocate", "commit">>
  BY <1>3 DEF Plans
<1>4. CASE p = <<"build", "commit">>
  BY <1>4 DEF Plans
<1>5. CASE p = <<"commit">>
  BY <1>5 DEF Plans
<1> QED
  BY <1>1, <1>2, <1>3, <1>4, <1>5, Zenon DEF Plans

\* A call starts with one of the plans.
LEMMA PlanInPlans ==
    ASSUME NEW s, NEW d, NEW many
    PROVE  Plan(s, d, many) \in Plans
BY Zenon DEF Plan, Plans

\* A bounded batch is a sequence of records.
LEMMA BatchIsSeq == Batch \subseteq Seq(Records)
BY CApiAssumption DEF Batch

-----------------------------------------------------------------------------
\* The counters and the pointers of sessions and streams stay right.
LEMMA NextPointersLive ==
    ASSUME TypeOK, PointersLive, [Next]_vars
    PROVE  PointersLive'
<1> DEFINE Of(s) == {d \in Streams : owner[d] = s}
<1>fin. \A s : IsFiniteSet(Of(s))
  BY CApiAssumption, FS_Subset, Zenon
<1>1. ASSUME UNCHANGED <<holds, active, owner, codec>>
      PROVE  PointersLive'
  BY <1>1, Zenon DEF PointersLive
<1>2. ASSUME NEW s \in Sessions, NEW cont \in BOOLEAN, SessionCreate(s, cont)
      PROVE  PointersLive'
  <2>1. \A d \in Streams : owner[d] # s
    BY <1>2, CApiAssumption, Zenon DEF SessionCreate, PointersLive
  <2>2. Of(s) = {}
    BY <2>1, Zenon
  <2>3. Cardinality(Of(s)) = 0
    BY <2>2, FS_EmptySet, Zenon
  <2>4. \A t \in Sessions : active'[t] = Cardinality(Of(t))
    BY <1>2, <2>3 DEF SessionCreate, PointersLive, TypeOK, HandleTypes
  <2>5. \A d \in Streams : owner[d] # None =>
            holds'[owner[d]] # None /\ codec[d] = holds'[owner[d]]
    BY <1>2, <2>1, Zenon DEF SessionCreate, PointersLive, TypeOK, HandleTypes
  <2> QED
    BY <1>2, <2>4, <2>5, Zenon DEF SessionCreate, PointersLive
<1>3. ASSUME NEW s \in Sessions, SessionDestroy(s)
      PROVE  PointersLive'
  <2>1. Cardinality(Of(s)) = 0
    BY <1>3, Zenon DEF SessionDestroy, MayDestroy, PointersLive
  <2>2. Of(s) = {}
    BY <2>1, <1>fin, FS_EmptySet, Zenon
  <2>3. \A d \in Streams : owner[d] # s
    BY <2>2, Zenon
  <2> QED
    BY <1>3, <2>3, ZenonT(30) DEF SessionDestroy, PointersLive, TypeOK, HandleTypes
<1>4. ASSUME NEW s \in Sessions, NEW d \in Streams, NEW many \in BOOLEAN, StreamCreate(s, d, many)
      PROVE  PointersLive'
  <2>1. d \notin Of(s) /\ Of(s)' = Of(s) \cup {d}
    BY <1>4, CApiAssumption DEF StreamCreate, TypeOK, HandleTypes
  <2>2. Cardinality(Of(s) \cup {d}) = Cardinality(Of(s)) + 1
    <3> HIDE DEF Of
    <3> QED
      BY <2>1, <1>fin, FS_AddElement, Zenon
  <2>3. Cardinality(Of(s)') = active[s] + 1
    BY <2>1, <2>2, Zenon DEF PointersLive
  <2>4. \A t \in Sessions : t # s => Of(t)' = Of(t)
    BY <1>4, CApiAssumption, Zenon DEF StreamCreate, TypeOK, HandleTypes
  <2>5. \A t \in Sessions : active'[t] = Cardinality(Of(t)')
    <3> TAKE t \in Sessions
    <3>1. CASE t = s
      BY <1>4, <2>3, <3>1, Zenon DEF StreamCreate, TypeOK, HandleTypes
    <3>2. CASE t # s
      BY <1>4, <2>4, <3>2, Zenon DEF StreamCreate, PointersLive, TypeOK, HandleTypes
    <3> QED
      BY <3>1, <3>2, Zenon
  <2>6. \A e \in Streams : owner'[e] # None =>
            holds'[owner'[e]] # None /\ codec'[e] = holds'[owner'[e]]
    BY <1>4, Zenon DEF StreamCreate, Idle, PointersLive, TypeOK, HandleTypes
  <2> QED
    BY <2>5, <2>6, Zenon DEF PointersLive
<1>5. ASSUME NEW d \in Streams, StreamDestroy(d)
      PROVE  PointersLive'
  <2>0. PICK s \in Sessions : s = owner[d]
    BY <1>5, Zenon DEF StreamDestroy, TypeOK, HandleTypes
  <2>1. d \in Of(s) /\ Of(s)' = Of(s) \ {d}
    BY <1>5, <2>0, CApiAssumption, Zenon DEF StreamDestroy, TypeOK, HandleTypes
  <2>2. Cardinality(Of(s) \ {d}) = Cardinality(Of(s)) - 1
    <3> HIDE DEF Of
    <3> QED
      BY <2>1, <1>fin, FS_RemoveElement, Zenon
  <2>3. Cardinality(Of(s)) # 0
    BY <2>1, <1>fin, FS_EmptySet, Zenon
  <2>4. Cardinality(Of(s)') = active[s] - 1 /\ active[s] # 0
    BY <2>0, <2>1, <2>2, <2>3, Zenon DEF PointersLive
  <2>5. \A t \in Sessions : t # s => Of(t)' = Of(t)
    BY <1>5, <2>0, CApiAssumption, Zenon DEF StreamDestroy, TypeOK, HandleTypes
  <2>6. active' = [active EXCEPT ![s] = active[s] - 1]
    BY <1>5, <2>0, <2>4, Zenon DEF StreamDestroy
  <2>7. \A t \in Sessions : active'[t] = Cardinality(Of(t)')
    <3> TAKE t \in Sessions
    <3>1. CASE t = s
      BY <2>0, <2>4, <2>6, <3>1, Zenon DEF TypeOK, HandleTypes
    <3>2. CASE t # s
      BY <2>5, <2>6, <3>2, Zenon DEF PointersLive, TypeOK, HandleTypes
    <3> QED
      BY <3>1, <3>2, Zenon
  <2>8. \A e \in Streams : owner'[e] # None =>
            holds'[owner'[e]] # None /\ codec'[e] = holds'[owner'[e]]
    BY <1>5, Zenon DEF StreamDestroy, PointersLive, TypeOK, HandleTypes
  <2> QED
    BY <2>7, <2>8, Zenon DEF PointersLive
<1> QED
  BY <1>1, <1>2, <1>3, <1>4, <1>5, Zenon
  DEF Next, vars, handles, KbLoad, KbDestroy, SessionReset, RulesFail, Offer, Build, BuildFails,
      Allocate, AllocateFails, Commit, CommitFails, PushFails, Fail, Feed, FeedFails, Finish, FinishFails

-----------------------------------------------------------------------------
\* The inductive invariant of the ingesting calls.
CallInv == TypeOK /\ CallsOK /\ StreamCommitsOnce /\ StatusTellsCommit

\* Handles and streams that do not change keep their types.
LEMMA SameHandles == HandleTypes /\ UNCHANGED handles => HandleTypes'
BY Zenon DEF HandleTypes, handles

LEMMA SameStreams == StreamTypes /\ UNCHANGED streams => StreamTypes'
BY Zenon DEF StreamTypes, streams

\* A call in progress, spelled out.
LEMMA CallFacts ==
    ASSUME CallInv, NEW s \in Sessions, call[s] # None
    PROVE  /\ call[s].stream \in Streams \cup {None}
           /\ call[s].records \in Seq(Records)
           /\ call[s].todo \in Plans
           /\ call[s].committed = FALSE
           /\ call[s].stream # None =>
                /\ owner[call[s].stream] = s
                /\ phase[call[s].stream] = "finished"
                /\ commits[call[s].stream] = 0
                /\ call[s].records = fed[call[s].stream]
<1>1. call[s] \in CallType /\ CallOK(s)
  BY Zenon DEF CallInv, TypeOK, CallsOK
<1> QED
  BY <1>1, Zenon DEF CallType, CallOK

\* A call that returns leaves the invariant intact if its status is right and the
\* streams are as they were, the one it commits counted.
LEMMA ReturnStep ==
    ASSUME CallInv, NEW s \in Sessions, NEW ok \in BOOLEAN, Return(s, ok, ok),
           TypeOK', StreamCommitsOnce', UNCHANGED <<owner, phase, fed>>,
           \A t \in Sessions : t # s /\ call[t] # None /\ call[t].stream # None =>
                commits'[call[t].stream] = commits[call[t].stream]
    PROVE  CallInv'
<1>1. call' = [call EXCEPT ![s] = None]
  BY Zenon DEF Return
<1>2. \A t \in Sessions : CallOK(t)'
  <2> TAKE t \in Sessions
  <2>1. CASE t = s
    BY <1>1, <2>1, Zenon DEF CallInv, TypeOK, CallOK
  <2>2. CASE t # s
    BY <1>1, <2>2, Zenon DEF CallInv, TypeOK, CallsOK, CallOK
  <2> QED
    BY <2>1, <2>2, Zenon
<1>3. StatusTellsCommit'
  <2> SUFFICES ASSUME NEW t \in Sessions, last'[t] # None
               PROVE  last'[t].ok <=> last'[t].committed
    BY Zenon DEF StatusTellsCommit
  <2>1. CASE t = s
    BY <2>1, Zenon DEF Return, CallInv, TypeOK
  <2>2. CASE t # s
    BY <2>2, Zenon DEF Return, CallInv, TypeOK, StatusTellsCommit
  <2> QED
    BY <2>1, <2>2, Zenon
<1> QED
  BY <1>2, <1>3, Zenon DEF CallInv, CallsOK

\* A call that goes on with what is left of its plan leaves it intact too.
LEMMA ProceedStep ==
    ASSUME CallInv, NEW s \in Sessions, call[s] # None, Head(call[s].todo) # "commit",
           Proceed(s, call[s].committed), UNCHANGED <<handles, streams, consistent, batches, commits>>
    PROVE  CallInv'
<1>1. /\ call[s].todo \in Plans /\ call[s].committed = FALSE
      /\ Tail(call[s].todo) # <<>> /\ Tail(call[s].todo) \in Plans
  BY CallFacts, PlanSteps, Zenon
<1> DEFINE c == [stream |-> call[s].stream, records |-> call[s].records,
                 todo |-> Tail(call[s].todo), committed |-> FALSE]
<1>2. call' = [call EXCEPT ![s] = c] /\ last' = last
  BY <1>1, Zenon DEF Proceed
<1>3. c.todo \in Seq({"build", "allocate", "commit"}) \ {<<>>}
  BY <1>1, PlanSteps, Zenon
<1>4. c \in CallType
  BY <1>3, CallFacts, Zenon DEF CallType
<1>5. TypeOK'
  <2> HIDE DEF c
  <2> QED
    BY <1>2, <1>4, SameHandles, SameStreams, Zenon DEF CallInv, TypeOK
<1>6. \A t \in Sessions : CallOK(t)'
  <2> TAKE t \in Sessions
  <2>1. CASE t = s
    <3>1. call'[t] = c
      BY <1>2, <2>1, Zenon DEF CallInv, TypeOK
    <3>2. UNCHANGED <<owner, phase, commits, fed>>
      BY Zenon DEF handles, streams
    <3>3. call[s].stream # None =>
            /\ owner[call[s].stream] = s
            /\ phase[call[s].stream] = "finished"
            /\ commits[call[s].stream] = 0
            /\ call[s].records = fed[call[s].stream]
      BY CallFacts, Zenon
    <3> QED
      BY <1>1, <2>1, <3>1, <3>2, <3>3 DEF CallOK
  <2>2. CASE t # s
    <3>1. call'[t] = call[t]
      BY <1>2, <2>2, Zenon DEF CallInv, TypeOK
    <3> QED
      BY <3>1, Zenon DEF CallInv, CallsOK, CallOK, handles, streams
  <2> QED
    BY <2>1, <2>2, Zenon
<1> QED
  BY <1>2, <1>5, <1>6, Zenon DEF CallInv, CallsOK, StreamCommitsOnce, StatusTellsCommit, streams

\* A call that begins, on a stream that has just been finished or on none.
LEMMA BeginStep ==
    ASSUME CallInv, NEW s \in Sessions, call[s] = None,
           NEW d \in Streams \cup {None}, NEW many, NEW rs \in Seq(Records), Begin(s, d, many, rs),
           d # None => owner[d] = s /\ phase'[d] = "finished" /\ commits[d] = 0 /\ rs = fed[d],
           \A e \in Streams : phase'[e] # phase[e] => e = d,
           UNCHANGED <<owner, fed, commits, last>>, StreamCommitsOnce',
           (call' \in [Sessions -> CallType \cup {None}]) => TypeOK'
    PROVE  CallInv'
<1> DEFINE c == [stream |-> d, records |-> rs, todo |-> Plan(s, d, many), committed |-> FALSE]
<1>1. call' = [call EXCEPT ![s] = c]
  BY Zenon DEF Begin
<1>2. c.todo \in Plans /\ c.todo \in Seq({"build", "allocate", "commit"}) \ {<<>>}
  BY PlanInPlans, PlanSteps, Zenon
<1>3. c \in CallType
  BY <1>2, Zenon DEF CallType
<1>4. TypeOK'
  <2> HIDE DEF c
  <2> QED
    BY <1>1, <1>3, Zenon DEF CallInv, TypeOK
<1>5. \A t \in Sessions : CallOK(t)'
  <2> TAKE t \in Sessions
  <2>1. CASE t = s
    <3>1. call'[t] = c
      BY <1>1, <2>1, Zenon DEF CallInv, TypeOK
    <3> QED
      BY <1>2, <2>1, <3>1 DEF CallOK
  <2>2. CASE t # s
    <3>1. call'[t] = call[t]
      BY <1>1, <2>2, Zenon DEF CallInv, TypeOK
    <3>2. SUFFICES ASSUME call[t] # None, call[t].stream # None
                   PROVE  phase'[call[t].stream] = "finished"
      BY <3>1, Zenon DEF CallInv, CallsOK, CallOK
    <3>3. call[t].stream \in Streams /\ owner[call[t].stream] = t /\ phase[call[t].stream] = "finished"
      BY <3>2, CallFacts, Zenon
    <3> QED
      BY <2>2, <3>3, CApiAssumption, Zenon
  <2> QED
    BY <2>1, <2>2, Zenon
<1> QED
  BY <1>4, <1>5, Zenon DEF CallInv, CallsOK, StatusTellsCommit

\* Steps that touch no stream and no call.
LEMMA QuietStep ==
    ASSUME CallInv, TypeOK', UNCHANGED <<owner, phase, fed, commits, call>>,
           \A s \in Sessions : last'[s] = last[s] \/ last'[s] = None
    PROVE  CallInv'
<1>1. \A s \in Sessions : CallOK(s)'
  BY Zenon DEF CallInv, CallsOK, CallOK
<1>2. StatusTellsCommit'
  BY Zenon DEF CallInv, StatusTellsCommit
<1> QED
  BY <1>1, <1>2, Zenon DEF CallInv, CallsOK, StreamCommitsOnce

\* No call in progress is on a stream whose session is idle.
LEMMA StreamIdle ==
    ASSUME CallInv, NEW d \in Streams, owner[d] # None, Idle(owner[d]),
           NEW t \in Sessions, call[t] # None
    PROVE  call[t].stream # d
BY CallFacts, CApiAssumption, Zenon DEF Idle

\* A stream that can be used has brought nothing in.
LEMMA OpenUncommitted ==
    ASSUME CallInv, NEW d \in Streams, phase[d] = "open"
    PROVE  commits[d] = 0
<1>1. commits[d] \in Nat
  BY Zenon DEF CallInv, TypeOK
<1>2. commits[d] <= 0
  BY Zenon DEF CallInv, StreamCommitsOnce
<1> QED
  BY <1>1, <1>2

\* A stream that is finished now, whether or not the document is complete.
LEMMA FinishedUncommitted ==
    ASSUME CallInv, NEW d \in Streams, phase[d] = "open", commits' = commits,
           \A e \in Streams : phase'[e] # phase[e] => e = d
    PROVE  StreamCommitsOnce'
<1> SUFFICES ASSUME NEW e \in Streams
             PROVE  commits[e] <= (IF phase'[e] = "finished" THEN 1 ELSE 0)
  BY Zenon DEF StreamCommitsOnce
<1>1. CASE e = d
  <2>1. commits[e] = 0
    BY <1>1, OpenUncommitted, Zenon
  <2> QED
    BY <2>1
<1>2. CASE e # d
  BY <1>2, Zenon DEF CallInv, StreamCommitsOnce
<1> QED
  BY <1>1, <1>2, Zenon

\* The invariant of the calls is inductive.
LEMMA NextCallInv ==
    ASSUME CallInv, [Next]_vars
    PROVE  CallInv'
<1> USE CApiAssumption
<1>1. CASE UNCHANGED vars
  <2>1. TypeOK'
    BY <1>1, SameHandles, SameStreams, Zenon DEF CallInv, TypeOK, vars
  <2> QED
    BY <1>1, <2>1, QuietStep, Zenon DEF vars, handles, streams
<1>2. ASSUME KbLoad \/ KbDestroy
      PROVE  CallInv'
  <2>0. HandleTypes'
    BY <1>2, Zenon DEF KbLoad, KbDestroy, CallInv, TypeOK, HandleTypes
  <2>1. TypeOK'
    BY <1>2, <2>0, SameStreams, Zenon DEF KbLoad, KbDestroy, CallInv, TypeOK
  <2> QED
    BY <1>2, <2>1, QuietStep, Zenon DEF KbLoad, KbDestroy, streams
<1>3. ASSUME NEW s \in Sessions, NEW cont \in BOOLEAN, SessionCreate(s, cont)
      PROVE  CallInv'
  <2>0. HandleTypes'
    BY <1>3, Zenon DEF SessionCreate, CallInv, TypeOK, HandleTypes
  <2>1. TypeOK'
    BY <1>3, <2>0, SameStreams, Zenon DEF SessionCreate, CallInv, TypeOK
  <2> QED
    BY <1>3, <2>1, QuietStep, Zenon DEF SessionCreate, streams
<1>4. ASSUME NEW s \in Sessions, SessionDestroy(s)
      PROVE  CallInv'
  <2>0. HandleTypes'
    BY <1>4, Zenon DEF SessionDestroy, CallInv, TypeOK, HandleTypes
  <2>1. TypeOK'
    <3>1. /\ batches' \in [Sessions -> Seq(Seq(Records))] 
          /\ last' \in [Sessions -> [ok : BOOLEAN, committed : BOOLEAN] \cup {None}]
      BY <1>4 DEF SessionDestroy, CallInv, TypeOK
    <3> QED
      BY <1>4, <2>0, <3>1, SameStreams, Zenon DEF SessionDestroy, CallInv, TypeOK
  <2>2. \A t \in Sessions : last'[t] = last[t] \/ last'[t] = None
    BY <1>4, Zenon DEF SessionDestroy, CallInv, TypeOK
  <2> QED
    BY <1>4, <2>1, <2>2, QuietStep, Zenon DEF SessionDestroy, streams
<1>5. ASSUME NEW s \in Sessions, SessionReset(s) \/ RulesFail(s)
      PROVE  CallInv'
  <2>1. batches' \in [Sessions -> Seq(Seq(Records))]
    <3>0. batches[s] \in Seq(Seq(Records)) /\ <<>> \in Seq(Seq(Records))
      BY DEF CallInv, TypeOK
    <3>1. PICK b \in Seq(Seq(Records)) : batches' = [batches EXCEPT ![s] = b]
      BY <1>5, <3>0, Zenon DEF SessionReset, RulesFail
    <3> QED
      BY <3>1, Zenon DEF CallInv, TypeOK
  <2>2. TypeOK'
    BY <1>5, <2>1, SameHandles, SameStreams, Zenon DEF SessionReset, RulesFail, CallInv, TypeOK
  <2> QED
    BY <1>5, <2>2, QuietStep, Zenon DEF SessionReset, RulesFail, handles, streams
<1>6. ASSUME NEW s \in Sessions, NEW d \in Streams, NEW many \in BOOLEAN, StreamCreate(s, d, many)
      PROVE  CallInv'
  <2>0. HandleTypes'
    BY <1>6 DEF StreamCreate, CallInv, TypeOK, HandleTypes, Idle
  <2>1. TypeOK'
    BY <1>6, <2>0, SameStreams, Zenon DEF StreamCreate, CallInv, TypeOK
  <2>2. \A t \in Sessions : CallOK(t)'
    <3> SUFFICES ASSUME NEW t \in Sessions, call[t] # None, call[t].stream # None
                 PROVE  owner'[call[t].stream] = t
      BY <1>6, Zenon DEF StreamCreate, streams, CallInv, CallsOK, CallOK
    <3>1. call[t].stream \in Streams /\ owner[call[t].stream] = t
      BY CallFacts, Zenon
    <3> QED
      BY <1>6, <3>1, Zenon DEF StreamCreate, CallInv, TypeOK, HandleTypes
  <2> QED
    BY <1>6, <2>1, <2>2, Zenon
    DEF StreamCreate, streams, CallInv, CallsOK, StreamCommitsOnce, StatusTellsCommit
<1>7. ASSUME NEW s \in Sessions, NEW many \in BOOLEAN, NEW rs \in Batch, Offer(s, many, rs)
      PROVE  CallInv'
  <2>1. rs \in Seq(Records)
    BY BatchIsSeq, Zenon
  <2>2. /\ call[s] = None /\ Begin(s, None, many, rs)
        /\ UNCHANGED <<owner, phase, fed, commits, last>>
    BY <1>7, Zenon DEF Offer, Idle, handles, streams
  <2>3. StreamCommitsOnce'
    BY <2>2, Zenon DEF CallInv, StreamCommitsOnce
  <2>4. (call' \in [Sessions -> CallType \cup {None}]) => TypeOK'
    BY <1>7, SameHandles, SameStreams, Zenon DEF Offer, CallInv, TypeOK
  <2> QED
    BY <2>1, <2>2, <2>3, <2>4, BeginStep, Zenon
<1>8. ASSUME NEW d \in Streams, NEW r \in Records, Feed(d, r)
      PROVE  CallInv'
  <2>1. owner[d] # None /\ Idle(owner[d]) /\ phase[d] = "open" /\ fed[d] \in Seq(Records)
    BY <1>8, Zenon DEF Feed, Ready, Usable, CallInv, TypeOK, StreamTypes
  <2>2. /\ fed' = [fed EXCEPT ![d] = Append(fed[d], r)]
        /\ UNCHANGED <<phase, commits, call, last, owner>>
    BY <1>8, Zenon DEF Feed, handles
  <2> DEFINE g == Append(fed[d], r)
  <2>3. /\ g \in Seq(Records) /\ DOMAIN g = 1 .. Len(fed[d]) + 1
        /\ \A i \in DOMAIN fed[d] : i \in DOMAIN g /\ g[i] = fed[d][i]
    BY <2>1
  <2>4. fed'[d] = g /\ \A e \in Streams : e # d => fed'[e] = fed[e]
    BY <2>2, Zenon DEF CallInv, TypeOK, StreamTypes
  <2>5. PICK q \in Seq(Records) :
          /\ pending' = [pending EXCEPT ![d] = q]
          /\ \A i \in DOMAIN q : i \in DOMAIN g /\ q[i] = g[i]
    <3>1. CASE pending' = pending
      BY <2>3, <3>1 DEF CallInv, TypeOK, StreamTypes
    <3>2. CASE pending' # pending
      <4>1. PICK n \in Len(pending[d]) + 1 .. Len(g) :
              pending' = [pending EXCEPT ![d] = SubSeq(g, 1, n)]
        BY <1>8, <2>4, <3>2, Zenon DEF Feed
      <4>2. pending[d] \in Seq(Records)
        BY Zenon DEF CallInv, TypeOK, StreamTypes
      <4>3. n \in Nat /\ n <= Len(g)
        BY <4>1, <4>2, <2>3
      <4>4. /\ SubSeq(g, 1, n) \in Seq(Records)
            /\ \A i \in DOMAIN SubSeq(g, 1, n) : i \in DOMAIN g /\ SubSeq(g, 1, n)[i] = g[i]
        <5> HIDE DEF g
        <5> QED
          BY <4>3, <2>3
      <4> QED
        BY <4>1, <4>4, Zenon
    <3> QED
      BY <3>1, <3>2, Zenon
  <2>6. pending'[d] = q /\ \A e \in Streams : e # d => pending'[e] = pending[e]
    BY <2>5, Zenon DEF CallInv, TypeOK, StreamTypes
  <2>7. fed' \in [Streams -> Seq(Records)] /\ pending' \in [Streams -> Seq(Records)]
    <3> HIDE DEF g
    <3> QED
      BY <2>2, <2>3, <2>5, Zenon DEF CallInv, TypeOK, StreamTypes, g
  <2>8. \A e \in Streams :
          /\ \A i \in DOMAIN pending'[e] : i \in DOMAIN fed'[e] /\ pending'[e][i] = fed'[e][i]
          /\ phase'[e] = "failed" => pending'[e] = <<>>
    <3> TAKE e \in Streams
    <3> HIDE DEF g
    <3>1. CASE e = d
      BY <2>1, <2>2, <2>4, <2>5, <2>6, <3>1
    <3>2. CASE e # d
      BY <2>2, <2>4, <2>6, <3>2 DEF CallInv, TypeOK, StreamTypes
    <3> QED
      BY <3>1, <3>2, Zenon
  <2>9. TypeOK'
    <3>1. StreamTypes'
      BY <2>2, <2>7, <2>8, Zenon DEF CallInv, TypeOK, StreamTypes
    <3> QED
      BY <1>8, <3>1, SameHandles, Zenon DEF Feed, CallInv, TypeOK
  <2>10. \A t \in Sessions : CallOK(t)'
    <3> SUFFICES ASSUME NEW t \in Sessions, call[t] # None, call[t].stream # None
                 PROVE  fed'[call[t].stream] = fed[call[t].stream]
      BY <2>2, Zenon DEF CallInv, CallsOK, CallOK
    <3> HIDE DEF g
    <3> QED
      BY <2>1, <2>4, CallFacts, StreamIdle, Zenon
  <2> QED
    BY <2>2, <2>9, <2>10, Zenon DEF CallInv, CallsOK, StreamCommitsOnce, StatusTellsCommit
<1>9. ASSUME NEW d \in Streams, FeedFails(d)
      PROVE  CallInv'
  <2>1. /\ phase' = [phase EXCEPT ![d] = "failed"] /\ pending' = [pending EXCEPT ![d] = <<>>]
        /\ UNCHANGED <<fed, owner, commits, call, last>>
        /\ owner[d] # None /\ Idle(owner[d]) /\ phase[d] = "open"
    BY <1>9, Zenon DEF FeedFails, Ready, Usable, handles
  <2>2. TypeOK'
    <3>1. StreamTypes'
      BY <2>1 DEF CallInv, TypeOK, StreamTypes
    <3> QED
      BY <1>9, <3>1, SameHandles, Zenon DEF FeedFails, CallInv, TypeOK
  <2>3. \A t \in Sessions : CallOK(t)'
    <3> SUFFICES ASSUME NEW t \in Sessions, call[t] # None, call[t].stream # None
                 PROVE  phase'[call[t].stream] = phase[call[t].stream]
      BY <2>1, Zenon DEF CallInv, CallsOK, CallOK
    <3>1. call[t].stream # d /\ call[t].stream \in Streams
      BY <2>1, CallFacts, StreamIdle, Zenon
    <3> QED
      BY <2>1, <3>1, Zenon DEF CallInv, TypeOK, StreamTypes
  <2>4. StreamCommitsOnce'
    BY <2>1, Zenon DEF CallInv, TypeOK, StreamTypes, StreamCommitsOnce
  <2> QED
    BY <2>1, <2>2, <2>3, <2>4, Zenon DEF CallInv, CallsOK, StatusTellsCommit
<1>10. ASSUME NEW d \in Streams, Finish(d)
       PROVE  CallInv'
  <2> DEFINE rs == IF Collecting(d) THEN pending'[d] ELSE fed[d]
  <2>1. /\ phase' = [phase EXCEPT ![d] = "finished"]
        /\ UNCHANGED <<fed, owner, commits, last>>
        /\ owner[d] \in Sessions /\ owner[d] # None /\ Idle(owner[d]) /\ phase[d] = "open"
        /\ Begin(owner[d], d, d \in multiple, rs)
        /\ fed[d] \in Seq(Records)
    BY <1>10, Zenon DEF Finish, Ready, Usable, handles, CallInv, TypeOK, HandleTypes, StreamTypes
  <2>2. pending' = pending \/ pending' = [pending EXCEPT ![d] = fed[d]]
    BY <1>10, Zenon DEF Finish
  <2>3. rs = fed[d]
    BY <1>10, Zenon DEF Finish, CallInv, TypeOK, StreamTypes
  <2>4. call[owner[d]] = None
    BY <2>1, Zenon DEF Idle
  <2>5. phase'[d] = "finished" /\ \A e \in Streams : phase'[e] # phase[e] => e = d
    BY <2>1, Zenon DEF CallInv, TypeOK, StreamTypes
  <2>6. commits[d] = 0 /\ StreamCommitsOnce'
    <3>1. commits[d] = 0
      BY <2>1, OpenUncommitted, Zenon
    <3>2. StreamCommitsOnce'
      BY <2>1, <2>5, FinishedUncommitted, Zenon
    <3> QED
      BY <3>1, <3>2, Zenon
  <2>7. /\ pending' \in [Streams -> Seq(Records)]
        /\ phase' \in [Streams -> {"open", "failed", "finished"}]
    BY <2>1, <2>2, Zenon DEF CallInv, TypeOK, StreamTypes
  <2>8. \A e \in Streams :
          /\ \A i \in DOMAIN pending'[e] : i \in DOMAIN fed'[e] /\ pending'[e][i] = fed'[e][i]
          /\ phase'[e] = "failed" => pending'[e] = <<>>
    BY <2>1, <2>2 DEF CallInv, TypeOK, StreamTypes
  <2>9. (call' \in [Sessions -> CallType \cup {None}]) => TypeOK'
    <3>1. UNCHANGED <<handles, fed, consistent, batches, commits, last>>
      BY <1>10, Zenon DEF Finish
    <3>2. StreamTypes'
      BY <2>1, <2>7, <2>8, Zenon DEF CallInv, TypeOK, StreamTypes
    <3> QED
      BY <3>1, <3>2, SameHandles, Zenon DEF CallInv, TypeOK
  <2> HIDE DEF rs
  <2> QED
    BY <2>1, <2>3, <2>4, <2>5, <2>6, <2>9, BeginStep, Zenon
<1>11. ASSUME NEW d \in Streams, FinishFails(d)
       PROVE  CallInv'
  <2>1. /\ phase' = [phase EXCEPT ![d] = "finished"]
        /\ UNCHANGED <<fed, owner, commits, pending>>
        /\ owner[d] \in Sessions /\ owner[d] # None /\ Idle(owner[d]) /\ phase[d] = "open"
        /\ Return(owner[d], FALSE, FALSE)
    BY <1>11, Zenon DEF FinishFails, Ready, Usable, handles, CallInv, TypeOK, HandleTypes, StreamTypes
  <2>2. phase'[d] = "finished" /\ \A e \in Streams : phase'[e] # phase[e] => e = d
    BY <2>1, Zenon DEF CallInv, TypeOK, StreamTypes
  <2>3. call' = call
    BY <2>1, Zenon DEF Return, Idle, CallInv, TypeOK
  <2>4. last' \in [Sessions -> [ok : BOOLEAN, committed : BOOLEAN] \cup {None}]
    BY <2>1, Zenon DEF Return, CallInv, TypeOK
  <2>5. TypeOK'
    <3>1. StreamTypes'
      BY <2>1, ZenonT(30) DEF CallInv, TypeOK, StreamTypes
    <3> QED
      BY <1>11, <2>3, <2>4, <3>1, SameHandles, Zenon DEF FinishFails, CallInv, TypeOK
  <2>6. \A t \in Sessions : CallOK(t)'
    <3> SUFFICES ASSUME NEW t \in Sessions, call[t] # None, call[t].stream # None
                 PROVE  phase'[call[t].stream] = phase[call[t].stream]
      BY <2>1, <2>3, Zenon DEF CallInv, CallsOK, CallOK
    <3> QED
      BY <2>1, <2>2, CallFacts, StreamIdle, Zenon
  <2>7. StreamCommitsOnce'
    BY <2>1, <2>2, FinishedUncommitted, Zenon
  <2>8. StatusTellsCommit'
    <3> SUFFICES ASSUME NEW t \in Sessions, last'[t] # None
                 PROVE  last'[t].ok <=> last'[t].committed
      BY Zenon DEF StatusTellsCommit
    <3>1. CASE t = owner[d]
      BY <2>1, <3>1, Zenon DEF Return, CallInv, TypeOK
    <3>2. CASE t # owner[d]
      BY <2>1, <3>2, Zenon DEF Return, CallInv, TypeOK, StatusTellsCommit
    <3> QED
      BY <3>1, <3>2, Zenon
  <2> QED
    BY <2>5, <2>6, <2>7, <2>8, Zenon DEF CallInv, CallsOK
<1>12. ASSUME NEW d \in Streams, StreamDestroy(d)
       PROVE  CallInv'
  <2>1. /\ owner[d] \in Sessions /\ owner[d] # None /\ Idle(owner[d])
        /\ active[owner[d]] \in Nat
        /\ UNCHANGED <<call, last>>
    BY <1>12, Zenon DEF StreamDestroy, CallInv, TypeOK, HandleTypes, StreamTypes
  <2>2. active' \in [Sessions -> Nat]
    <3>1. (IF active[owner[d]] # 0 THEN active[owner[d]] - 1 ELSE active[owner[d]]) \in Nat
      BY <2>1
    <3> QED
      BY <1>12, <2>1, <3>1, Zenon DEF StreamDestroy, CallInv, TypeOK, HandleTypes, StreamTypes
  <2>3. /\ \A e \in Streams : e # d => /\ owner'[e] = owner[e] /\ phase'[e] = phase[e]
                                       /\ fed'[e] = fed[e] /\ pending'[e] = pending[e]
                                       /\ commits'[e] = commits[e]
        /\ phase'[d] = "open" /\ pending'[d] = <<>> /\ fed'[d] = <<>> /\ commits'[d] = 0
    BY <1>12, ZenonT(30) DEF StreamDestroy, CallInv, TypeOK, HandleTypes, StreamTypes
  <2>4. \A e \in Streams :
          /\ \A i \in DOMAIN pending'[e] : i \in DOMAIN fed'[e] /\ pending'[e][i] = fed'[e][i]
          /\ phase'[e] = "failed" => pending'[e] = <<>>
    <3> TAKE e \in Streams
    <3>1. CASE e = d
      BY <2>3, <3>1, Zenon
    <3>2. CASE e # d
      BY <2>3, <3>2 DEF CallInv, TypeOK, StreamTypes
    <3> QED
      BY <3>1, <3>2, Zenon
  <2>5. TypeOK'
    <3>1. HandleTypes'
      BY <1>12, <2>2, Zenon DEF StreamDestroy, CallInv, TypeOK, HandleTypes
    <3>2. StreamTypes'
      BY <1>12, <2>4 DEF StreamDestroy, CallInv, TypeOK, StreamTypes
    <3>3. commits' \in [Streams -> Nat]
      BY <1>12, Zenon DEF StreamDestroy, CallInv, TypeOK, HandleTypes, StreamTypes
    <3> QED
      BY <1>12, <3>1, <3>2, <3>3, Zenon DEF StreamDestroy, CallInv, TypeOK
  <2>6. \A t \in Sessions : CallOK(t)'
    <3> SUFFICES ASSUME NEW t \in Sessions, call[t] # None, call[t].stream # None
                 PROVE  LET e == call[t].stream
                        IN  /\ owner'[e] = owner[e] /\ phase'[e] = phase[e]
                            /\ fed'[e] = fed[e] /\ commits'[e] = commits[e]
      BY <2>1, ZenonT(30) DEF CallInv, CallsOK, CallOK
    <3>1. call[t].stream \in Streams /\ call[t].stream # d
      BY <2>1, CallFacts, StreamIdle, Zenon
    <3> QED
      BY <2>3, <3>1, Zenon
  <2>7. StreamCommitsOnce'
    <3> SUFFICES ASSUME NEW e \in Streams
                 PROVE  commits'[e] <= (IF phase'[e] = "finished" THEN 1 ELSE 0)
      BY Zenon DEF StreamCommitsOnce
    <3>1. CASE e = d
      BY <2>3, <3>1
    <3>2. CASE e # d
      BY <2>3, <3>2, Zenon DEF CallInv, StreamCommitsOnce
    <3> QED
      BY <3>1, <3>2, Zenon
  <2> QED
    BY <2>1, <2>5, <2>6, <2>7, Zenon DEF CallInv, CallsOK, StatusTellsCommit
<1>13. ASSUME NEW s \in Sessions, Build(s) \/ Allocate(s)
       PROVE  CallInv'
  BY <1>13, ProceedStep, Zenon DEF Build, Allocate, Step
<1>14. ASSUME NEW s \in Sessions, BuildFails(s) \/ AllocateFails(s) \/ CommitFails(s) \/ PushFails(s)
       PROVE  CallInv'
  <2>1. call[s] # None /\ Fail(s) /\ consistent' \subseteq Sessions
    BY <1>14, Zenon DEF BuildFails, AllocateFails, CommitFails, PushFails, Step, CallInv, TypeOK
  <2>2. Return(s, FALSE, FALSE) /\ UNCHANGED <<handles, streams, batches, commits>>
    BY <2>1, CallFacts, Zenon DEF Fail
  <2>3. TypeOK'
    <3>1. /\ call' \in [Sessions -> CallType \cup {None}]
          /\ last' \in [Sessions -> [ok : BOOLEAN, committed : BOOLEAN] \cup {None}]
      BY <2>2, Zenon DEF Return, CallInv, TypeOK
    <3> QED
      BY <2>1, <2>2, <3>1, SameHandles, SameStreams, Zenon DEF CallInv, TypeOK
  <2>4. StreamCommitsOnce'
    BY <2>2, Zenon DEF CallInv, StreamCommitsOnce, streams
  <2> QED
    BY <2>2, <2>3, <2>4, ReturnStep, Zenon DEF handles, streams
<1>15. ASSUME NEW s \in Sessions, Commit(s)
       PROVE  CallInv'
  <2>1. /\ call[s] # None /\ Head(call[s].todo) = "commit"
        /\ UNCHANGED <<handles, streams, consistent>>
        /\ commits' = [d \in Streams |-> IF d = call[s].stream THEN commits[d] + 1 ELSE commits[d]]
        /\ Proceed(s, TRUE)
    BY <1>15, Zenon DEF Commit, Step
  <2>2. Return(s, TRUE, TRUE)
    BY <2>1, CallFacts, PlanSteps, Zenon DEF Proceed
  <2>3. PICK b \in Seq(Seq(Records)) : batches' = [batches EXCEPT ![s] = b]
    <3>1. batches[s] \in Seq(Seq(Records)) /\ call[s].records \in Seq(Records)
      BY <2>1, CallFacts, Zenon DEF CallInv, TypeOK
    <3>2. Append(batches[s], call[s].records) \in Seq(Seq(Records))
      BY <3>1
    <3> QED
      BY <1>15, <3>1, <3>2, Zenon DEF Commit
  <2>4. commits' \in [Streams -> Nat]
    <3>1. \A d \in Streams : commits[d] \in Nat
      BY Zenon DEF CallInv, TypeOK
    <3>2. \A d \in Streams : commits[d] + 1 \in Nat
      BY <3>1
    <3> QED
      BY <2>1, <3>1, <3>2, Zenon
  <2>5. TypeOK'
    <3>1. /\ call' \in [Sessions -> CallType \cup {None}]
          /\ last' \in [Sessions -> [ok : BOOLEAN, committed : BOOLEAN] \cup {None}]
      BY <2>2, Zenon DEF Return, CallInv, TypeOK
    <3>2. batches' \in [Sessions -> Seq(Seq(Records))]
      BY <2>3, Zenon DEF CallInv, TypeOK
    <3> QED
      BY <2>1, <2>4, <3>1, <3>2, SameHandles, SameStreams, Zenon DEF CallInv, TypeOK
  <2>6. StreamCommitsOnce'
    <3> SUFFICES ASSUME NEW d \in Streams
                 PROVE  commits'[d] <= (IF phase[d] = "finished" THEN 1 ELSE 0)
      BY <2>1, Zenon DEF StreamCommitsOnce, streams
    <3>1. CASE d = call[s].stream
      <4>1. phase[d] = "finished" /\ commits[d] = 0
        BY <2>1, <3>1, CallFacts, Zenon
      <4>2. commits'[d] = 1
        BY <2>1, <3>1, <4>1
      <4> QED
        BY <4>1, <4>2
    <3>2. CASE d # call[s].stream
      BY <2>1, <3>2, Zenon DEF CallInv, StreamCommitsOnce
    <3> QED
      BY <3>1, <3>2, Zenon
  <2>7. \A t \in Sessions : t # s /\ call[t] # None /\ call[t].stream # None =>
            commits'[call[t].stream] = commits[call[t].stream]
    <3> SUFFICES ASSUME NEW t \in Sessions, t # s, call[t] # None, call[t].stream # None
                 PROVE  commits'[call[t].stream] = commits[call[t].stream]
      BY Zenon
    <3>1. call[t].stream \in Streams /\ owner[call[t].stream] = t
      BY CallFacts, Zenon
    <3>2. call[t].stream # call[s].stream
      BY <2>1, <3>1, CallFacts, Zenon
    <3> QED
      BY <2>1, <3>1, <3>2, Zenon
  <2> QED
    BY <2>1, <2>2, <2>5, <2>6, <2>7, ReturnStep, Zenon DEF handles, streams
<1> QED
  BY <1>1, <1>2, <1>3, <1>4, <1>5, <1>6, <1>7, <1>8, <1>9, <1>10, <1>11, <1>12, <1>13, <1>14, <1>15, Zenon
  DEF Next

-----------------------------------------------------------------------------
\* The initial state satisfies both invariants.
LEMMA InitCallInv == Init => CallInv /\ PointersLive
<1> SUFFICES ASSUME Init PROVE CallInv /\ PointersLive
  BY Zenon
<1> USE CApiAssumption
<1>1. TypeOK
  BY DEF Init, TypeOK, HandleTypes, StreamTypes
<1>2. CallsOK /\ StreamCommitsOnce /\ StatusTellsCommit
  BY DEF Init, CallsOK, CallOK, StreamCommitsOnce, StatusTellsCommit
<1>3. \A s \in Sessions : {d \in Streams : owner[d] = s} = {}
  BY Zenon DEF Init
<1>4. \A s \in Sessions : active[s] = Cardinality({d \in Streams : owner[d] = s})
  BY <1>3, FS_EmptySet, Zenon DEF Init
<1>5. PointersLive
  BY <1>4, Zenon DEF Init, PointersLive
<1> QED
  BY <1>1, <1>2, <1>5, Zenon DEF CallInv

\* Both invariants hold throughout.
THEOREM CApiInvariant == Spec => [](CallInv /\ PointersLive)
<1>1. CallInv /\ PointersLive /\ [Next]_vars => (CallInv /\ PointersLive)'
  BY NextCallInv, NextPointersLive, Zenon DEF CallInv
<1> QED
  BY <1>1, InitCallInv, PTL DEF Spec

\* The types of the variables, and: the events a stream has collected are a prefix
\* of the records it was fed (collect_continuous_stream_record).
THEOREM CApiTypes == Spec => []TypeOK
BY CApiInvariant, PTL DEF CallInv

\* The wrapper and the codec a stream points to are alive until the stream is
\* destroyed, and active_data_bind_streams is exact (publish_data_bind_stream,
\* ruleforge_data_bind_stream_destroy, ruleforge_session_destroy).
THEOREM StreamsNeverDangle == Spec => []PointersLive
BY CApiInvariant, PTL

\* An error status means that nothing went in, a success that everything did.
THEOREM StatusIsTruth == Spec => []StatusTellsCommit
BY CApiInvariant, PTL DEF CallInv

\* A stream commits in its finish and at most once (failed and finished flags).
THEOREM FinishCommitsOnce == Spec => []StreamCommitsOnce
BY CApiInvariant, PTL DEF CallInv

\* What a session takes in is all the records of one call or stream, or nothing
\* (insert_data_bind_fact_list, push_continuous_bound_list, the finishes).
THEOREM CallsAreAtomic == Spec => IngestAtomic
<1> DEFINE Atomic ==
      \A s \in Sessions : batches'[s] # batches[s] =>
        \/ batches'[s] = <<>>
        \/ /\ call[s] # None
           /\ batches'[s] = Append(batches[s],
                IF call[s].stream = None THEN call[s].records ELSE fed[call[s].stream])
<1>1. ASSUME CallInv, [Next]_vars
      PROVE  Atomic
  <2>0. batches \in [Sessions -> Seq(Seq(Records))]
    BY <1>1, Zenon DEF CallInv, TypeOK
  <2>1. ASSUME UNCHANGED batches
        PROVE  Atomic
    BY <2>1, Zenon
  <2>2. ASSUME NEW s \in Sessions, SessionDestroy(s) \/ SessionReset(s) \/ RulesFail(s)
        PROVE  Atomic
    BY <2>0, <2>2, Zenon DEF SessionDestroy, SessionReset, RulesFail
  <2>3. ASSUME NEW s \in Sessions, Commit(s)
        PROVE  Atomic
    <3>1. /\ call[s] # None
          /\ call[s].stream # None => call[s].records = fed[call[s].stream]
      BY <1>1, <2>3, CallFacts, Zenon DEF Commit, Step
    <3>2. \/ batches' = batches
          \/ batches' = [batches EXCEPT ![s] = Append(batches[s], call[s].records)]
      BY <2>0, <2>3, Zenon DEF Commit
    <3> QED
      BY <2>0, <3>1, <3>2, Zenon
  <2> HIDE DEF Atomic
  <2> QED
    BY <1>1, <2>1, <2>2, <2>3, Zenon
    DEF Next, vars, streams, KbLoad, KbDestroy, SessionCreate, StreamCreate, Offer, Build, BuildFails,
        Allocate, AllocateFails, CommitFails, PushFails, Fail, Feed, FeedFails, Finish, FinishFails,
        StreamDestroy
<1> QED
  BY <1>1, CApiInvariant, PTL DEF Spec, IngestAtomic
=============================================================================
