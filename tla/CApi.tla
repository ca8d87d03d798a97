-------------------------------- MODULE CApi --------------------------------
(***************************************************************************)
(* The C interface (capi/src/rules_forge.cpp): the handles a C program     *)
(* holds on a knowledge base, on sessions and on DataBind streams, and the *)
(* calls that bring facts or events into a session.                        *)
(*                                                                         *)
(* What keeps what alive.  A knowledge base handle points to a shared      *)
(* knowledge base object, which a load replaces.  A session shares the     *)
(* object its handle had when it was created.  A stream holds two plain    *)
(* pointers: to the wrapper of its session, and to a codec that the        *)
(* knowledge base owns.  The only guard is a counter of streams in the     *)
(* wrapper.  An object nothing shares is free, and its address is used     *)
(* again: KBs, Sessions and Streams are addresses.  The variables of a     *)
(* free address are kept at the values a creation gives them.              *)
(*                                                                         *)
(* How facts come in.  A call offers a sequence of records; it builds      *)
(* facts from them, allocates what it hands back, and commits to the       *)
(* session, in an order that differs from call to call (Plan).  Each of    *)
(* the steps may fail and ends the call with an error.                     *)
(*                                                                         *)
(* A session with its streams belongs to one thread, and one call on it is *)
(* in progress at a time; other sessions and the knowledge base handle are *)
(* used meanwhile.  The parser behind a stream, DataBind, is external: it  *)
(* may refuse any chunk, and decides when it reports a complete record.    *)
(* Calls that are refused for a NULL argument, an unknown fact type or an  *)
(* unusable handle change nothing and are left out.                        *)
(***************************************************************************)
EXTENDS FiniteSets, Naturals, Sequences

CONSTANTS
    KBs,         \* addresses of knowledge base objects
    Sessions,    \* addresses of session wrappers
    Streams,     \* addresses of stream handles
    Records,     \* what a source document may contain,
    NotObjects,  \* ... records that are no object, or lack the event fields
    Invalid,     \* ... objects that the session's validation refuses
    None,
    MaxRecords,  \* bound: records of one call or stream
    MaxBatches   \* bound: batches a session takes in

ASSUME CApiAssumption ==
    /\ None \notin KBs \cup Sessions \cup Streams
    /\ NotObjects \subseteq Records /\ Invalid \subseteq Records
    /\ IsFiniteSet(Streams)
    /\ MaxRecords \in Nat /\ MaxBatches \in Nat

VARIABLES
    kb,          \* the object the knowledge base handle shares, None: no handle
    holds,       \* the object a session shares, None: no session at this address
    continuous,  \* the continuous sessions, the others are stateful
    active,      \* active_data_bind_streams
    consistent,  \* sessions that take calls
    batches,     \* what a session took in since it was created or reset
    owner,       \* session_wrapper of a stream, None: no stream at this address
    codec,       \* the knowledge base object that owns the stream's codec
    multiple,    \* the streams that select a list of records
    phase,       \* "open", "failed" or "finished"
    fed,         \* records given to the parser
    pending,     \* pending_events: records collected by the callback
    commits,     \* history: how often a stream brought its records in
    call,        \* the ingesting call on a session, None: none in progress
    last         \* history: how the last one ended

handles == <<kb, holds, continuous, active, owner, codec, multiple>>
streams == <<phase, fed, pending>>
vars == <<handles, streams, consistent, batches, commits, call, last>>

Alive == ({kb} \cup {holds[s] : s \in Sessions}) \ {None}
Batch == UNION {[1..n -> Records] : n \in 0..MaxRecords}
Idle(s) == holds[s] # None /\ call[s] = None
Objects(rs) == \A i \in DOMAIN rs : rs[i] \notin NotObjects
Valid(rs) == \A i \in DOMAIN rs : rs[i] \notin Invalid
Collecting(d) == d \in multiple /\ owner[d] \in continuous

Init ==
    /\ kb = None
    /\ holds = [s \in Sessions |-> None]
    /\ continuous = {}
    /\ active = [s \in Sessions |-> 0]
    /\ consistent = {}
    /\ batches = [s \in Sessions |-> <<>>]
    /\ owner = [d \in Streams |-> None]
    /\ codec = [d \in Streams |-> None]
    /\ multiple = {}
    /\ phase = [d \in Streams |-> "open"]
    /\ fed = [d \in Streams |-> <<>>]
    /\ pending = [d \in Streams |-> <<>>]
    /\ commits = [d \in Streams |-> 0]
    /\ call = [s \in Sessions |-> None]
    /\ last = [s \in Sessions |-> None]

-----------------------------------------------------------------------------
\* ruleforge_kb_create, and the loads, which compile into a new object.  A load
\* that fails changes nothing.
KbLoad ==
    /\ \E k \in KBs \ Alive : kb' = k
    /\ UNCHANGED <<holds, continuous, active, owner, codec, multiple>>
    /\ UNCHANGED <<streams, consistent, batches, commits, call, last>>

KbDestroy ==
    /\ kb # None
    /\ kb' = None
    /\ UNCHANGED <<holds, continuous, active, owner, codec, multiple>>
    /\ UNCHANGED <<streams, consistent, batches, commits, call, last>>

\* ruleforge_session_create and ruleforge_continuous_session_create.
SessionCreate(s, cont) ==
    /\ kb # None /\ holds[s] = None
    /\ holds' = [holds EXCEPT ![s] = kb]
    /\ continuous' = IF cont THEN continuous \cup {s} ELSE continuous
    /\ active' = [active EXCEPT ![s] = 0]
    /\ consistent' = consistent \cup {s}
    /\ UNCHANGED <<kb, owner, codec, multiple, streams, batches, commits, call, last>>

\* Mutant of MayDestroy: the guard is missing.
MayAlwaysDestroy(s) == TRUE

\* The guard of ruleforge_session_destroy and of the continuous one.
MayDestroy(s) == active[s] = 0

SessionDestroy(s) ==
    /\ Idle(s) /\ MayDestroy(s)
    /\ holds' = [holds EXCEPT ![s] = None]
    /\ continuous' = continuous \ {s}
    /\ consistent' = consistent \ {s}
    /\ batches' = [batches EXCEPT ![s] = <<>>]
    /\ last' = [last EXCEPT ![s] = None]
    /\ UNCHANGED <<kb, active, owner, codec, multiple, streams, commits, call>>

\* ruleforge_session_reset, which leaves the streams of the session alone.
SessionReset(s) ==
    /\ Idle(s) /\ s \notin continuous
    /\ consistent' = consistent \cup {s}
    /\ batches' = [batches EXCEPT ![s] = <<>>]
    /\ UNCHANGED <<handles, streams, commits, call, last>>

\* ruleforge_session_fire_all_rules whose rollback fails, which empties the
\* session (StatefulSession), and a watermark or drain whose replay fails, which
\* leaves its record (ContinuousSession).  Other outcomes change nothing here.
RulesFail(s) ==
    /\ Idle(s) /\ s \in consistent
    /\ consistent' = consistent \ {s}
    /\ batches' = [batches EXCEPT ![s] = IF s \in continuous THEN @ ELSE <<>>]
    /\ UNCHANGED <<handles, streams, commits, call, last>>

-----------------------------------------------------------------------------
\* prepare_ and publish_data_bind_stream, and their continuous counterparts.
StreamCreate(s, d, many) ==
    /\ Idle(s) /\ owner[d] = None
    /\ owner' = [owner EXCEPT ![d] = s]
    /\ codec' = [codec EXCEPT ![d] = holds[s]]
    /\ multiple' = IF many THEN multiple \cup {d} ELSE multiple
    /\ active' = [active EXCEPT ![s] = @ + 1]
    /\ UNCHANGED <<kb, holds, continuous, streams, consistent, batches, commits, call, last>>

\* Mutant of Usable: the finished flag is not looked at.
UsableUnlessFailed(d) == phase[d] # "failed"

\* reject_unusable_data_bind_stream and its continuous counterpart.
Usable(d) == phase[d] = "open"

\* The owner of the session may use its stream.
Ready(d) == owner[d] # None /\ Idle(owner[d]) /\ Usable(d)

\* data_bind_stream_feed succeeds: the parser has one more record, and has given
\* any number of those not yet collected to the callback, all well-formed.
Feed(d, r) ==
    /\ Ready(d)
    /\ Len(fed[d]) < (IF d \in multiple THEN MaxRecords ELSE 1)
    /\ fed' = [fed EXCEPT ![d] = Append(@, r)]
    /\ \/ pending' = pending
       \/ /\ Collecting(d)
          /\ \E n \in Len(pending[d]) + 1 .. Len(fed'[d]) :
                pending' = [pending EXCEPT ![d] = SubSeq(fed'[d], 1, n)]
          /\ Objects(pending'[d])
    /\ UNCHANGED <<handles, phase, consistent, batches, commits, call, last>>

\* Mutant of FeedFails: the events collected so far are kept.
FeedFailsKeepsEvents(d) ==
    /\ Ready(d)
    /\ phase' = [phase EXCEPT ![d] = "failed"]
    /\ UNCHANGED <<handles, fed, pending, consistent, batches, commits, call, last>>

\* The chunk is malformed, or the callback refused one of its records.
FeedFails(d) ==
    /\ Ready(d)
    /\ phase' = [phase EXCEPT ![d] = "failed"]
    /\ pending' = [pending EXCEPT ![d] = <<>>]
    /\ UNCHANGED <<handles, fed, consistent, batches, commits, call, last>>

\* Mutant of Plan: the result is allocated when there is something to put in it.
PlanAllocateLast(s, d, many) ==
    IF many THEN <<"build", "commit", "allocate">> ELSE <<"build", "commit">>

\* The steps of a call that brings records in, in the order of the code.
\*  - one fact: insert_data_bind_fact; a stream allocates its array before it
\*  - list of facts: insert_data_bind_fact_list
\*  - events: push_continuous_bound_value and _list
\*  - stream of events: built by the callback, ruleforge_continuous_..._finish
Plan(s, d, many) ==
    IF s \in continuous
    THEN IF many /\ d # None THEN <<"allocate", "commit">> ELSE <<"build", "allocate", "commit">>
    ELSE IF many THEN <<"build", "allocate", "commit">>
    ELSE IF d # None THEN <<"allocate", "build", "commit">> ELSE <<"build", "commit">>

Begin(s, d, many, rs) ==
    call' = [call EXCEPT ![s] =
        [stream |-> d, records |-> rs, todo |-> Plan(s, d, many), committed |-> FALSE]]

\* The call returns.
Return(s, ok, committed) ==
    /\ last' = [last EXCEPT ![s] = [ok |-> ok, committed |-> committed]]
    /\ call' = [call EXCEPT ![s] = None]

\* The parser accepts the end of the document; what it has not reported yet goes
\* to the callback.
Finish(d) ==
    /\ Ready(d) /\ Len(batches[owner[d]]) < MaxBatches
    /\ phase' = [phase EXCEPT ![d] = "finished"]
    /\ d \notin multiple => fed[d] # <<>>
    /\ IF Collecting(d)
       THEN Objects(fed[d]) /\ pending' = [pending EXCEPT ![d] = fed[d]]
       ELSE UNCHANGED pending
    /\ Begin(owner[d], d, d \in multiple, IF Collecting(d) THEN pending'[d] ELSE fed[d])
    /\ UNCHANGED <<handles, fed, consistent, batches, commits, last>>

\* The document is incomplete: the stream is both failed and finished.  Nothing
\* reads what the callback has collected any more.
FinishFails(d) ==
    /\ Ready(d)
    /\ phase' = [phase EXCEPT ![d] = "finished"]
    /\ Return(owner[d], FALSE, FALSE)
    /\ UNCHANGED <<handles, fed, pending, consistent, batches, commits>>

StreamDestroy(d) ==
    /\ owner[d] # None /\ Idle(owner[d])
    /\ active' = [active EXCEPT ![owner[d]] = IF @ # 0 THEN @ - 1 ELSE @]
    /\ owner' = [owner EXCEPT ![d] = None]
    /\ codec' = [codec EXCEPT ![d] = None]
    /\ multiple' = multiple \ {d}
    /\ phase' = [phase EXCEPT ![d] = "open"]
    /\ fed' = [fed EXCEPT ![d] = <<>>]
    /\ pending' = [pending EXCEPT ![d] = <<>>]
    /\ commits' = [commits EXCEPT ![d] = 0]
    /\ UNCHANGED <<kb, holds, continuous, consistent, batches, call, last>>

\* ruleforge_session_add_fact_json, _add_facts_json_path, ruleforge_continuous_push_json
\* and their kin, after the source has been parsed.
Offer(s, many, rs) ==
    /\ Idle(s) /\ Len(batches[s]) < MaxBatches
    /\ ~many => Len(rs) = 1
    /\ Begin(s, None, many, rs)
    /\ UNCHANGED <<handles, streams, consistent, batches, commits, last>>

-----------------------------------------------------------------------------
\* A call goes on with its next step, or returns after the last one.
Step(s, name) == call[s] # None /\ Head(call[s].todo) = name

Proceed(s, committed) ==
    IF Tail(call[s].todo) = <<>>
    THEN Return(s, TRUE, committed)
    ELSE /\ call' = [call EXCEPT ![s] = [stream |-> @.stream, records |-> @.records,
                                         todo |-> Tail(@.todo), committed |-> committed]]
         /\ UNCHANGED last

Fail(s) ==
    /\ Return(s, FALSE, call[s].committed)
    /\ UNCHANGED <<handles, streams, batches, commits>>

\* Phase 1 of insert_data_bind_fact_list and the loop of
\* push_continuous_bound_list: facts are made in the session's arena, working
\* memory is not touched.
Build(s) ==
    /\ Step(s, "build") /\ Objects(call[s].records)
    /\ Proceed(s, call[s].committed)
    /\ UNCHANGED <<handles, streams, consistent, batches, commits>>

\* Mutant of BuildFails: a loop that inserts what it builds.
BuildFailsHalfway(s) ==
    /\ Step(s, "build") /\ ~Objects(call[s].records)
    /\ Return(s, FALSE, FALSE)
    /\ \E n \in 0 .. Len(call[s].records) :
        LET built == SubSeq(call[s].records, 1, n)
        IN  /\ Objects(built)
            /\ batches' = [batches EXCEPT ![s] = IF n = 0 THEN @ ELSE Append(@, built)]
    /\ UNCHANGED <<handles, streams, consistent, commits>>

BuildFails(s) ==
    /\ Step(s, "build") /\ ~Objects(call[s].records)
    /\ Fail(s) /\ UNCHANGED consistent

\* The array of fact handles, or prepare_continuous_result.
Allocate(s) ==
    /\ Step(s, "allocate")
    /\ Proceed(s, call[s].committed)
    /\ UNCHANGED <<handles, streams, consistent, batches, commits>>

\* Nothing is allocated for an empty list of facts.
AllocateFails(s) ==
    /\ Step(s, "allocate") /\ (s \in continuous \/ call[s].records # <<>>)
    /\ Fail(s) /\ UNCHANGED consistent

\* What the session accepts.  add_facts looks at nothing when there is nothing to
\* add; otherwise every fact is validated before the first is inserted.
\* push_batch refuses an empty batch, and may refuse any other (PushFails).
Accepts(s, rs) ==
    IF s \in continuous THEN s \in consistent /\ rs # <<>> /\ Valid(rs)
    ELSE rs = <<>> \/ (s \in consistent /\ Valid(rs))

Commit(s) ==
    LET c == call[s]
    IN  /\ Step(s, "commit") /\ Accepts(s, c.records)
        /\ batches' = [batches EXCEPT ![s] = IF c.records = <<>> THEN @ ELSE Append(@, c.records)]
        /\ commits' = [d \in Streams |-> IF d = c.stream THEN commits[d] + 1 ELSE commits[d]]
        /\ Proceed(s, TRUE)
        /\ UNCHANGED <<handles, streams, consistent>>

CommitFails(s) ==
    /\ Step(s, "commit") /\ ~Accepts(s, call[s].records)
    /\ Fail(s) /\ UNCHANGED consistent

\* A limit of the continuous session, or an exception of a rule: the step is
\* undone by a replay, which may fail in its turn.
PushFails(s) ==
    /\ Step(s, "commit") /\ s \in continuous /\ Accepts(s, call[s].records)
    /\ Fail(s)
    /\ consistent' \in {consistent, consistent \ {s}}

-----------------------------------------------------------------------------
Next ==
    \/ KbLoad \/ KbDestroy
    \/ \E s \in Sessions :
        \/ \E cont \in BOOLEAN : SessionCreate(s, cont)
        \/ SessionDestroy(s) \/ SessionReset(s) \/ RulesFail(s)
        \/ \E d \in Streams, many \in BOOLEAN : StreamCreate(s, d, many)
        \/ \E many \in BOOLEAN, rs \in Batch : Offer(s, many, rs)
        \/ Build(s) \/ BuildFails(s) \/ Allocate(s) \/ AllocateFails(s)
        \/ Commit(s) \/ CommitFails(s) \/ PushFails(s)
    \/ \E d \in Streams :
        \/ \E r \in Records : Feed(d, r)
        \/ FeedFails(d) \/ Finish(d) \/ FinishFails(d) \/ StreamDestroy(d)

Spec == Init /\ [][Next]_vars

-----------------------------------------------------------------------------
HandleTypes ==
    /\ kb \in KBs \cup {None}
    /\ holds \in [Sessions -> KBs \cup {None}]
    /\ continuous \subseteq Sessions
    /\ active \in [Sessions -> Nat]
    /\ owner \in [Streams -> Sessions \cup {None}]
    /\ codec \in [Streams -> KBs \cup {None}]
    /\ multiple \subseteq Streams

StreamTypes ==
    /\ phase \in [Streams -> {"open", "failed", "finished"}]
    /\ fed \in [Streams -> Seq(Records)]
    /\ pending \in [Streams -> Seq(Records)]
    /\ \A d \in Streams :
        /\ \A i \in DOMAIN pending[d] : i \in DOMAIN fed[d] /\ pending[d][i] = fed[d][i]
        /\ phase[d] = "failed" => pending[d] = <<>>

CallType ==
    [stream : Streams \cup {None}, records : Seq(Records),
     todo : Seq({"build", "allocate", "commit"}) \ {<<>>}, committed : BOOLEAN]

\* Types.  The events a stream has collected are the first of the records it was
\* given, and a failed feed drops them.
TypeOK ==
    /\ HandleTypes
    /\ StreamTypes
    /\ consistent \subseteq Sessions
    /\ batches \in [Sessions -> Seq(Seq(Records))]
    /\ commits \in [Streams -> Nat]
    /\ call \in [Sessions -> CallType \cup {None}]
    /\ last \in [Sessions -> [ok : BOOLEAN, committed : BOOLEAN] \cup {None}]

\* "Destroying a session with an active stream is rejected" (rules_forge.h:488), and
\* what that is for: the counter of a session is the number of its streams,
\* through failed feeds, failed finishes and resets; the wrapper a stream points to
\* is its session still, and the knowledge base that owns its codec is the one
\* this session keeps alive, whatever was loaded or destroyed since.
PointersLive ==
    /\ \A s \in Sessions : active[s] = Cardinality({d \in Streams : owner[d] = s})
    /\ \A d \in Streams : owner[d] # None =>
        holds[owner[d]] # None /\ codec[d] = holds[owner[d]]

\* "finish atomically commits all selected events" (rules_forge.h:335), "we do not
\* leave the session with partially inserted facts if a later item is invalid"
\* (rules_forge.cpp:471): a session takes in either nothing or everything that was
\* offered to the call or fed to the stream, and loses it only by being emptied.
IngestAtomic ==
    [][\A s \in Sessions : batches'[s] # batches[s] =>
        \/ batches'[s] = <<>>
        \/ /\ call[s] # None
           /\ batches'[s] = Append(batches[s],
                IF call[s].stream = None THEN call[s].records ELSE fed[call[s].stream])]_vars

\* The status a call returns tells whether its records went in: all that can fail
\* comes before the commit, so that a caller who retries after an error does not
\* bring the same facts in twice.
StatusTellsCommit ==
    \A s \in Sessions : last[s] # None => (last[s].ok <=> last[s].committed)

\* "A finished stream cannot be fed or finished again", "No fact is inserted merely
\* because a chunk was accepted" (DATA_INGESTION.md:193): a stream brings its
\* records in at most once, in its finish, and a failed one never.
StreamCommitsOnce ==
    \A d \in Streams : commits[d] <= (IF phase[d] = "finished" THEN 1 ELSE 0)
=============================================================================
