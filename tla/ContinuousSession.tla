------------------------- MODULE ContinuousSession -------------------------
(***************************************************************************)
(* A continuous session (engine/continuous_session.cpp): events and        *)
(* watermarks are operations on an inner session; an operation that fails  *)
(* is undone by replaying the committed ones on a new inner session.       *)
(*                                                                         *)
(* The inner session is reduced to what the coordination sees of it: the   *)
(* event facts, one activation for each event, the output facts that       *)
(* firing makes, and one time window (rete_node.cpp) over the events.      *)
(* Activations of equal salience fire in any order: the agenda orders them *)
(* by a hash of addresses (agenda.hpp:37).  The calls of the session are   *)
(* sequential; the steps below split them where an exception can leave.    *)
(***************************************************************************)
EXTENDS Integers, Sequences, FiniteSets, FiniteSetsExt, Functions

CONSTANTS
    Ids,             \* event_id
    Times,           \* event_time_ms
    Marks,           \* the watermarks the caller tries
    MinTime,         \* numeric_limits<int64_t>::min()
    MaxTime,         \* numeric_limits<int64_t>::max()
    NoTime,          \* watermark_ms_ without a value
    Lateness,        \* allowed_lateness_ms
    EventRetention,
    DedupRetention,
    Lead,            \* max_event_time_lead_ms
    MaxActive,       \* max_active_events
    MaxDedup,        \* max_dedup_entries
    MaxBatches,      \* max_pending_result_batches
    MaxResults,      \* max_pending_results
    MaxInput,        \* max_input_batch_size
    MaxReplay,       \* max_replay_steps
    MaxRules,        \* max_rules_per_step
    WindowSize       \* info.size of the time window

\* validate_config.
ValidConfig ==
    /\ {MaxActive, MaxDedup, MaxBatches, MaxResults, MaxInput, MaxReplay, MaxRules,
        EventRetention, DedupRetention} \subseteq Nat \ {0}
    /\ {Lateness, Lead} \subseteq Nat

ASSUME ContinuousAssumption ==
    /\ ValidConfig
    /\ Times \subseteq Int /\ Marks \subseteq Int
    /\ MinTime \in Int /\ MaxTime \in Int
    /\ \A t \in Times \cup Marks : MinTime <= t /\ t <= MaxTime
    /\ NoTime \notin Int
    /\ WindowSize \in Nat

VARIABLES
    watermark,   \* watermark_ms_
    active,      \* active_events_
    dedup,       \* dedup_event_times_
    log,         \* committed_operations_
    batches,     \* pending_batches_
    next_batch,  \* next_batch_id_
    accepted,    \* metrics_.accepted_events
    results,     \* metrics_.pending_results
    consistent,  \* consistent_
    replaying,   \* replaying_
    facts,       \* session_: the event facts in working memory
    todo,        \* session_: the events whose activation has not fired
    made,        \* session_: the events whose output fact has been made
    window,      \* session_: WindowMem, the events in the time window
    pc,          \* where the running operation is; "idle" outside of one
    op,          \* the operation
    fired,       \* the events that fired in it
    queue,       \* the committed operations still to replay
    committed,   \* history: the state after the last commit
    published    \* history: the outputs of each batch

input == <<watermark, active, dedup>>
inner == <<facts, todo, made, window>>
ledger == <<log, accepted>>
outbox == <<batches, next_batch, results, published>>
control == <<consistent, replaying, pc, op, fired, queue>>
vars == <<input, inner, ledger, outbox, control, committed>>

Event == [id : Ids, time : Times]
Operation == [kind : {"events", "watermark", "drain"}, events : Seq(Event), mark : Int]
EventsOp(es) == [kind |-> "events", events |-> es, mark |-> 0]
WatermarkOp(w) == [kind |-> "watermark", events |-> <<>>, mark |-> w]
DrainOp == [kind |-> "drain", events |-> <<>>, mark |-> 0]

\* checked_subtract: saturates.
Subtract(t, d) == IF t < MinTime + d THEN MinTime ELSE t - d

-----------------------------------------------------------------------------
\* Mutant of Fresh: dedup_event_times_.clear() is forgotten.
FreshButDedup ==
    /\ watermark' = NoTime /\ active' = <<>>
    /\ facts' = {} /\ todo' = {} /\ made' = {} /\ window' = <<>>
    /\ UNCHANGED dedup

\* recover_by_replay: a new session, and the state that goes with it.
Fresh ==
    /\ watermark' = NoTime /\ active' = <<>> /\ dedup' = <<>>
    /\ facts' = {} /\ todo' = {} /\ made' = {} /\ window' = <<>>

Init ==
    /\ watermark = NoTime /\ active = <<>> /\ dedup = <<>>
    /\ facts = {} /\ todo = {} /\ made = {} /\ window = <<>>
    /\ log = <<>> /\ accepted = 0
    /\ batches = <<>> /\ next_batch = 1 /\ results = 0 /\ published = <<>>
    /\ consistent = TRUE /\ replaying = FALSE
    /\ pc = "idle" /\ op = DrainOp /\ fired = {} /\ queue = <<>>
    /\ committed = <<input, inner>>

-----------------------------------------------------------------------------
(* The calls: checks before anything changes, then execute_operation. *)

Begin(o) ==
    /\ op' = o
    /\ pc' = "apply"
    /\ UNCHANGED <<input, inner, ledger, outbox, consistent, replaying, fired, queue, committed>>

Callable == pc = "idle" /\ consistent /\ Len(log) < MaxReplay

\* Mutant of Accepts: the limit on active events is asked without the new ones.
AcceptsOneTooMany(es) ==
    /\ Len(es) \in 1..MaxInput
    /\ Len(active) < MaxActive
    /\ Cardinality(DOMAIN dedup) + Len(es) <= MaxDedup
    /\ \A i \in 1..Len(es) :
        /\ es[i].id \notin DOMAIN dedup
        /\ \A j \in 1..(i - 1) : es[j].id # es[i].id
        /\ watermark # NoTime =>
            /\ es[i].time >= Subtract(watermark, Lateness)
            /\ watermark > MaxTime - Lead \/ es[i].time <= watermark + Lead

\* validate_events: the limits, then duplicates, lateness and lead per event.
Accepts(es) ==
    /\ Len(es) \in 1..MaxInput
    /\ Len(active) + Len(es) <= MaxActive
    /\ Cardinality(DOMAIN dedup) + Len(es) <= MaxDedup
    /\ \A i \in 1..Len(es) :
        /\ es[i].id \notin DOMAIN dedup
        /\ \A j \in 1..(i - 1) : es[j].id # es[i].id
        /\ watermark # NoTime =>
            /\ es[i].time >= Subtract(watermark, Lateness)
            /\ watermark > MaxTime - Lead \/ es[i].time <= watermark + Lead

PushBatch(es) == Callable /\ Accepts(es) /\ Begin(EventsOp(es))

AdvanceWatermark(w) ==
    /\ Callable
    /\ watermark # NoTime => w >= watermark
    /\ Begin(WatermarkOp(w))

Drain == Callable /\ Begin(DrainOp)

\* A call that throws before anything changes: an empty batch does at any time.
Rejected == pc = "idle" /\ UNCHANGED vars

Acknowledge ==
    /\ pc = "idle"
    /\ batches # <<>>
    /\ results' = results - Head(batches).count
    /\ batches' = Tail(batches)
    /\ UNCHANGED <<input, inner, ledger, next_batch, published, control, committed>>

-----------------------------------------------------------------------------
(* execute_operation *)

\* evaluate_expiration: the window loses the facts in front of the first that is
\* young enough, and none as long as there is no watermark.
Unexpired(win, w) ==
    LET first == Min({i \in 1..(Len(win) + 1) : i <= Len(win) => w - win[i].time <= WindowSize})
    IN  IF w = NoTime THEN win ELSE SubSeq(win, first, Len(win))

\* Mutant of Enqueue: the event goes to the end, as in a length window.
EnqueueLast(win, e) == Append(win, e)

\* upper_bound and insert: behind the events of the same time.
Enqueue(win, e) ==
    LET position == Min({i \in 1..(Len(win) + 1) : i <= Len(win) => e.time < win[i].time})
    IN  SubSeq(win, 1, position - 1) \o <<e>> \o SubSeq(win, position, Len(win))

\* insert_event_into, event after event: WindowNode::right_activate with ASSERT.
Windowed(win, events, w) ==
    LET insert(e) == [in \in Seq(Event) |-> Unexpired(Enqueue(in, e), w)]
        out[i \in 0..Len(events)] == IF i = 0 THEN win ELSE insert(events[i])[out[i - 1]]
    IN  out[Len(events)]

\* apply_events: every event becomes a fact with its activation.
ApplyEvents ==
    LET es == op.events
        new == Range(es)
    IN  /\ op.kind = "events"
        /\ active' = active \o es
        /\ dedup' = [i \in DOMAIN dedup \cup {e.id : e \in new} |->
                        IF \E e \in new : e.id = i
                        THEN (CHOOSE e \in new : e.id = i).time ELSE dedup[i]]
        /\ facts' = facts \cup new
        /\ todo' = todo \cup new
        /\ window' = Windowed(window, es, watermark)
        /\ UNCHANGED watermark

\* Mutant of Remembered: off by one at the boundary.
RememberedOneLess(w) ==
    Restrict(dedup, {i \in DOMAIN dedup : dedup[i] > Subtract(w, DedupRetention) + 1})

\* expire_dedup_entries.
Remembered(w) == Restrict(dedup, {i \in DOMAIN dedup : dedup[i] > Subtract(w, DedupRetention)})

\* The loop over active_events_, which moves the events to keep to the front.
Retained(events, boundary) ==
    LET out[i \in 0..Len(events)] ==
            IF i = 0 THEN <<>>
            ELSE IF events[i].time <= boundary THEN out[i - 1]
            ELSE Append(out[i - 1], events[i])
    IN  out[Len(events)]

\* Mutant of ApplyWatermark: expired events leave active_events_ but are not
\* retracted from the session.
ForgetWithoutRetract ==
    LET w == op.mark
    IN  /\ op.kind = "watermark"
        /\ watermark' = w
        /\ active' = Retained(active, Subtract(w, EventRetention))
        /\ dedup' = Remembered(w)
        /\ window' = Unexpired(window, w)
        /\ UNCHANGED <<facts, todo>>

\* apply_watermark: advance_event_time lets the window expire; events at the
\* boundary or before are retracted, with their activations, from the window
\* too; then the old event IDs are forgotten.
ApplyWatermark ==
    LET w == op.mark
        boundary == Subtract(w, EventRetention)
    IN  /\ op.kind = "watermark"
        /\ watermark' = w
        /\ active' = Retained(active, boundary)
        /\ facts' = {e \in facts : e.time > boundary}
        /\ todo' = {e \in todo : e.time > boundary}
        /\ window' = Retained(Unexpired(window, w), boundary)
        /\ dedup' = Remembered(w)

Apply ==
    /\ pc = "apply"
    /\ \/ ApplyEvents
       \/ ApplyWatermark
       \/ op.kind = "drain" /\ UNCHANGED <<input, facts, todo, window>>
    /\ pc' = "fire"
    /\ UNCHANGED <<made, ledger, outbox, consistent, replaying, op, fired, queue, committed>>

\* fire_step, up to the budget, in any order; then the operation is recorded.
\* A replayed operation is neither recorded nor published.
Fire ==
    /\ pc = "fire"
    /\ \E F \in SUBSET todo :
        /\ Cardinality(F) <= MaxRules
        /\ F = todo \/ Cardinality(F) = MaxRules
        /\ fired' = F
        /\ todo' = todo \ F
        /\ made' = made \cup F
    /\ IF replaying
       THEN pc' = "replay" /\ UNCHANGED ledger
       ELSE /\ log' = Append(log, op)
            /\ accepted' = accepted + Len(op.events)
            /\ pc' = "publish"
    /\ UNCHANGED <<input, facts, window, outbox, consistent, replaying, op, queue, committed>>

\* Mutant of Publish: collect_outputs ignores first_new_fact_id.
PublishAll ==
    LET n == Cardinality(made)
    IN  /\ pc = "publish"
        /\ Len(batches) < MaxBatches
        /\ results + n <= MaxResults
        /\ batches' = Append(batches, [id |-> next_batch, count |-> n])
        /\ next_batch' = next_batch + 1
        /\ results' = results + n
        /\ published' = Append(published, made)
        /\ committed' = <<input, inner>>
        /\ pc' = "idle" /\ op' = DrainOp /\ fired' = {}
        /\ UNCHANGED <<input, inner, ledger, consistent, replaying, queue>>

\* publish_result: the outputs made since the operation began.
Publish ==
    LET n == Cardinality(fired)
    IN  /\ pc = "publish"
        /\ Len(batches) < MaxBatches
        /\ results + n <= MaxResults
        /\ batches' = Append(batches, [id |-> next_batch, count |-> n])
        /\ next_batch' = next_batch + 1
        /\ results' = results + n
        /\ published' = Append(published, fired)
        /\ committed' = <<input, inner>>
        /\ pc' = "idle" /\ op' = DrainOp /\ fired' = {}
        /\ UNCHANGED <<input, inner, ledger, consistent, replaying, queue>>

\* Mutant of PublishFails: the metric is not taken back.
KeepCount ==
    /\ pc = "publish"
    /\ log' = SubSeq(log, 1, Len(log) - 1)
    /\ pc' = "recover"
    /\ UNCHANGED <<input, inner, accepted, outbox, consistent, replaying, op, fired, queue, committed>>

\* An exception of publish_result, of the limits or any other: the operation is
\* taken off the record.
PublishFails ==
    /\ pc = "publish"
    /\ log' = SubSeq(log, 1, Len(log) - 1)
    /\ accepted' = accepted - Len(op.events)
    /\ pc' = "recover"
    /\ UNCHANGED <<input, inner, outbox, consistent, replaying, op, fired, queue, committed>>

\* An exception of an insertion, a retraction or a rule.
StepFails ==
    /\ pc \in {"apply", "fire"}
    /\ IF replaying
       THEN /\ consistent' = FALSE /\ replaying' = FALSE
            /\ pc' = "idle" /\ op' = DrainOp /\ fired' = {} /\ queue' = <<>>
       ELSE pc' = "recover" /\ UNCHANGED <<consistent, replaying, op, fired, queue>>
    /\ UNCHANGED <<input, inner, ledger, outbox, committed>>

-----------------------------------------------------------------------------
(* recover_by_replay *)

Recover ==
    /\ pc = "recover"
    /\ \/ /\ Fresh
          /\ replaying' = TRUE
          /\ queue' = log
          /\ pc' = "replay"
          /\ UNCHANGED <<consistent, op, fired>>
       \/ \* create_session throws
          /\ consistent' = FALSE
          /\ pc' = "idle" /\ op' = DrainOp /\ fired' = {}
          /\ UNCHANGED <<input, inner, replaying, queue>>
    /\ UNCHANGED <<ledger, outbox, committed>>

\* Mutant of ReplayNext: the loop does not advance.
ReplaySame ==
    /\ pc = "replay" /\ queue # <<>>
    /\ op' = Head(queue)
    /\ pc' = "apply"
    /\ UNCHANGED <<input, inner, ledger, outbox, consistent, replaying, fired, queue, committed>>

ReplayNext ==
    /\ pc = "replay" /\ queue # <<>>
    /\ op' = Head(queue)
    /\ queue' = Tail(queue)
    /\ pc' = "apply"
    /\ UNCHANGED <<input, inner, ledger, outbox, consistent, replaying, fired, committed>>

\* Mutant of ReplayEnd: replaying_ is not reset.
ReplayEndStillReplaying ==
    /\ pc = "replay" /\ queue = <<>>
    /\ consistent' = TRUE
    /\ pc' = "idle" /\ op' = DrainOp /\ fired' = {}
    /\ UNCHANGED <<input, inner, ledger, outbox, replaying, queue, committed>>

ReplayEnd ==
    /\ pc = "replay" /\ queue = <<>>
    /\ replaying' = FALSE
    /\ consistent' = TRUE
    /\ pc' = "idle" /\ op' = DrainOp /\ fired' = {}
    /\ UNCHANGED <<input, inner, ledger, outbox, queue, committed>>

-----------------------------------------------------------------------------
Inputs == UNION {[1..n -> Event] : n \in 1..(MaxInput + 1)}

Running ==
    \/ Apply \/ Fire \/ Publish \/ PublishFails \/ StepFails
    \/ Recover \/ ReplayNext \/ ReplayEnd

Next ==
    \/ \E es \in Inputs : PushBatch(es)
    \/ \E w \in Marks : AdvanceWatermark(w)
    \/ Drain
    \/ Rejected
    \/ Acknowledge
    \/ Running

Spec == Init /\ [][Next]_vars

\* A call is sequential code: once made, it goes on.
FairSpec == Spec /\ WF_vars(Running)

-----------------------------------------------------------------------------
Settled == pc = "idle" /\ consistent

\* Types.  Replay happens only inside a call.
TypeOK ==
    /\ watermark \in Int \cup {NoTime}
    /\ active \in Seq(Event)
    /\ DOMAIN dedup \subseteq Ids /\ \A i \in DOMAIN dedup : dedup[i] \in Times
    /\ log \in Seq(Operation)
    /\ batches \in Seq([id : Nat, count : Nat])
    /\ next_batch \in Nat /\ accepted \in Nat /\ results \in Nat
    /\ consistent \in BOOLEAN /\ replaying \in BOOLEAN
    /\ facts \subseteq Event /\ todo \subseteq facts /\ made \subseteq Event
    /\ pc \in {"idle", "apply", "fire", "publish", "recover", "replay"}
    /\ window \in Seq(Event)
    /\ op \in Operation
    /\ fired \subseteq Event
    /\ queue \in Seq(Operation)
    /\ pc \in {"idle", "publish", "recover"} => ~replaying /\ queue = <<>>

\* "the runtime rebuilds the last committed state by deterministic replay"
\* (docs/CONTINUOUS_RULE_ENGINE_DESIGN.md:147): between two calls the watermark,
\* the events, the event IDs and the inner session are as the last successful
\* operation left them, whatever failed since.
ReplayRestores == Settled => <<input, inner>> = committed

\* Each output that the session holds was published in one batch, and each
\* published output is still what the session holds: a failed operation neither
\* loses an output nor publishes one again.
PublishedOnce ==
    Settled =>
        /\ UNION Range(published) = made
        /\ \A i, j \in 1..Len(published) : i # j => published[i] \cap published[j] = {}

\* "Duplicate event ID": an event is committed at most once, although event IDs
\* are forgotten, if they are kept for longer than an event may be late (and no
\* event is at the least time, where checked_subtract saturates).
CommittedOnce ==
    DedupRetention > Lateness /\ MinTime \notin Times =>
        \A i, j \in 1..Len(log) :
            \A k \in 1..Len(log[i].events), l \in 1..Len(log[j].events) :
                log[i].events[k] = log[j].events[l] => i = j /\ k = l

\* "Every growing structure is bounded" (CONTINUOUS_RULE_ENGINE_DESIGN.md:49),
\* also in the middle of an operation and of a replay.
Bounded ==
    /\ Len(active) <= MaxActive
    /\ Cardinality(DOMAIN dedup) <= MaxDedup
    /\ Len(log) <= MaxReplay
    /\ Len(batches) <= MaxBatches
    /\ results <= MaxResults

Total(counts) ==
    LET sum[i \in 0..Len(counts)] == IF i = 0 THEN 0 ELSE sum[i - 1] + counts[i]
    IN  sum[Len(counts)]

\* The metrics agree with what they count, and the batches that wait for their
\* acknowledgement are the last ones published, in order and without a gap,
\* although failed operations come between.
LedgersAgree ==
    /\ accepted = Total([i \in 1..Len(log) |-> Len(log[i].events)])
    /\ results = Total([i \in 1..Len(batches) |-> batches[i].count])
    /\ next_batch = Len(published) + 1
    /\ \A i \in 1..Len(batches) : batches[i].id = next_batch - 1 - Len(batches) + i

\* The event facts of the session are the active events, and if events may be
\* less late than they are retained, none is past its retention.
ActiveIsCurrent ==
    Settled =>
        /\ facts = Range(active)
        /\ watermark # NoTime /\ Lateness < EventRetention =>
            \A e \in facts : watermark - e.time < EventRetention

\* "Advancing it can expire active events and trigger window changes even when no
\* new event arrives" (CONTINUOUS_RULE_ENGINE_DESIGN.md:90): between two
\* calls the time window has exactly the active events that are not older than
\* its size, in the order of their times, however late or out of order they came.
WindowCurrent ==
    Settled =>
        /\ \A i, j \in 1..Len(window) : i < j => window[i].time <= window[j].time
        /\ Range(window) = {e \in facts : watermark # NoTime => watermark - e.time <= WindowSize}

\* Every call comes back, also one that fails and replays the whole log.
CallReturns == pc # "idle" ~> pc = "idle"
=============================================================================
