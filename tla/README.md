# RulesForge in TLA+

A formal model of the run-time core of RulesForge: what a rule session does
between a change of facts and the end of the rules that follow from it, the
match network and the agenda under it, the continuous session above it, the pool
that lends sessions to threads and the C interface around them. Modules are
checked with TLC on small instances; the central invariants are proved with
TLAPS for every instance.

## The system

| Part | Source | What it does |
|---|---|---|
| Knowledge base, network construction | `src/engine/knowledge_base.cpp`, `src/rete/beta_builder.cpp` | compiles rules into an immutable network |
| Network nodes | `src/rete/rete_node.cpp`, `*.inc` | turn fact changes into tokens (matches) |
| Agenda | `include/engine/agenda.hpp` | activations waiting to fire |
| Stateful session | `src/engine/stateful_session.cpp` | facts, firing loop, RHS transactions |
| RHS executor | `src/engine/rhs_executor.cpp` | runs the actions of a rule |
| Truth maintenance | `src/engine/tms.cpp` | retracts logical facts that lose their support |
| Continuous session | `src/engine/continuous_session.cpp` | events, watermarks, atomic steps by replay |
| Session pool | `include/engine/session_pool.hpp` | shares sessions between threads |
| Values, schema, expressions | `src/core`, `schema_validator.hpp`, `external_eval.cpp` | pure functions on values |
| Parser, decision tables | `../parser` | text to rules |
| C API | `../capi` | handles and value marshalling |

(Paths are under `src/rulesforge/`.) A change of a fact goes through the network
to the terminal nodes, whose tokens become activations on the agenda.
`fire_all_rules` pops activations in batches of 64 and runs each RHS in a
transaction; what the RHS does goes through the network again. A session is
used by one thread at a time. The only locking is in the pool. The C interface
turns documents into facts or events, at once or through streams that are fed
chunk by chunk, and keeps sessions and knowledge bases alive by reference counts
and one counter of streams.

## Modules

| Module | Models | State | Actions |
|---|---|---|---|
| `SessionPool` | `session_pool.hpp` | `pool_`, `available_`, a program counter and guard per thread | one per critical section; the replacement is created before the lock and `notify_one` comes after it, so both are steps of their own |
| `AgendaSpec` | what the agenda promises | pending set, focus stack, running pop | put, discard, take the best of the focused group, requeue |
| `Agenda` | `agenda.hpp` | hash map, bag of queue entries, group index, delayed bag, focus stack | one per method; the loops of the pops and of `flush_ready_delayed` are one action per round |
| `StatefulSession` | `stateful_session.cpp`, `rhs_executor.cpp`, `tms.cpp`, alpha and terminal nodes | working memory, fields, terminal memories, agenda, justifications, the transaction, where `fire_all_rules` stands | calls of the owner; loop head, requeue, skip and fire; one per RHS action; the commit and each of the three rollback loops step by step |
| `MatchNetwork` | `rete_node.cpp`: entry point, alpha, hashed-join, cross-product, not and exists nodes | the memories of each node, as the code indexes them | one per call of the session, with its whole propagation |
| `AggregateNetwork` | accumulate and length-window nodes, on `MatchNetwork` | items and right memory, window, what the join below it holds | the same calls |
| `ContinuousSession` | `continuous_session.cpp`, the time window of `rete_node.cpp` | watermark, active events, IDs, operation log, result batches, the inner session with its window | the calls, split where an exception can leave; replay one operation at a time |
| `CApi` | `capi/src/rules_forge.cpp` | handles and what they point to, streams, the ingesting call in progress | create, load, destroy, reset; feed and finish; an ingesting call step by step, each with its failure |

`StatefulSession` takes its agenda as a set with the pops of `AgendaSpec`, which
`Agenda` implements, and one-pattern rules, whose terminal memories it checks
against working memory; `MatchNetwork` has what comes between for two patterns.
`ContinuousSession` reduces its inner session to one activation and one place in
a time window per event, and one output per firing. `CApi` reduces a session to
the batches it took in and whether it is consistent, with the failures that
`StatefulSession` and `ContinuousSession` have. `MC*` modules give constants
their values; each `.cfg` belongs to one run.

Abstractions. A match in `StatefulSession` is one fact accepted by one pattern,
a token is identified by rule, fact and the number of tokens the fact has had
(`gen`), so an old token and its successor are different, as their addresses
are. A fact has one field with a few values, some of which break the schema
(`Bad`). Every RHS of at most `MaxOps` actions is covered, whatever its text.
Two rules with the same pattern share a token in the code and not in the model;
where it matters, to truth maintenance, the model is of rules with patterns of
their own. History variables (`saved`, `logical`, `settled`; `committed`,
`published`; `rekeyed`, `skewed`, `readmitted`; `commits`, `last`) are read by
properties only. In `MatchNetwork` the nodes are sets of entries with the key
they are stored under, since the order in a bucket decides nothing. In
`ContinuousSession` the order of activations of equal salience is free, because
the agenda orders them by a hash of addresses.

## Runs

| Run | Instance | Shows |
|---|---|---|
| `session_pool` | 3 threads, 4 addresses, 1 or 2 slots | exclusive ownership, accounting, no leakage but after a failed reset, no lost wake-up; a blocked thread and a free session do not face each other for ever |
| `agenda_refines_spec` | 3 activations, 2 groups, queue entries up to 2 copies, compaction after 1 dead entry | refinement of `AgendaSpec`, no activation without a queue entry |
| `session_transactions` | 2 rules, 2 facts, 3 values, 3 calls, limit 2, RHS of 2 actions, strict schema | the network is exact, rollback restores, an inconsistent session is empty, no self-reactivation of a no-loop rule, `fire_all_rules` returns |
| `session_agenda` | agenda groups, activation group, lock-on-active, auto-focus, duration, limits none and 1, chains of logical facts | every match waits, is in the batch or had its turn, never two of these; lost support retracts, through every level |
| `session_rollback_logical` | | **violated**: a logical fact of a failed RHS can stay |
| `session_logical_after_update` | | **violated**: a logical fact inserted after an update of the matched fact loses its truth maintenance |
| `session_stale_batch` | | **violated**: a batched activation fires after its match has ended |
| `continuous_session` | 2 IDs, 3 times, 3 watermarks, 4 operations, all limits at 2 | a failed operation leaves no trace, outputs published once, events committed once, limits kept, the time window exact and sorted, every call returns |
| `continuous_replay_budget` | one rule per step | **violated**: replay of a step cut off by its budget can give another state |
| `match_network` | 3 facts, 2 keys and a missing one, 3 values, 5 calls, a not and an exists node, window length 1 | not, exists and cross-product nodes exact; hashed join complete, and stale only by a changed key; count and sum right; the window passes on what it holds |
| `network_batch` | as `match_network` | **violated**: a batch loses facts on its way through the first alpha node |
| `capi_streams` | 2 knowledge base objects, 1 session address, 2 streams, good, malformed and invalid records, 2 per call | no dangling stream, ingestion atomic, status tells the truth, a stream commits once |

The violated runs each check what a comment, a test or a document of the
repository says; the entry under `findings` in `PROJECT.json` quotes it.

Behaviour that the model has and no run singles out: an exception that leaves
`fire_all_rules` skips the end of the cycle (`stateful_session.cpp`, 537-544), so
no-loop, lock-on-active and focus outlive it (`Escape` in `StatefulSession`).

### Bounds and why they are enough

- Two slots and three threads let two releases overlap while a third thread
  waits; one spare address per release in flight plus one lets an address be
  reused. With fewer addresses than that creation fails, which is modelled too.
- The batch size is 2 instead of 64 and the compaction limit 1 instead of 64:
  a batch with a first and a rest, and one dead entry more than the limit, are
  the cases the code distinguishes.
- Two actions suffice for an RHS to update and then insert, retract or throw,
  and three tokens per fact for an update, its rollback and one more change.
  `RhsUpdate` leaves room for the token of a rollback, so the bound never cuts a
  rollback short.
- Three facts are a chain of two logical facts, the shortest with a cascade.
- Times 1, 2, 4 and watermarks 2, 3, 5 put events on, before and after each of
  the lateness, retention and ID boundaries. `MinTime` is out of the reach of
  the arithmetic in these runs except through saturation. A window of size 1
  lets events expire before they are retired, and a late one enter in front.
- In the network two facts make a pair and the third one a second match of the
  same token or a second token of the same fact; five calls are an insertion of
  each, a change and the change that would show its damage. Fact `f2` may be on
  both sides and without a key. `Propagate` leaves out the calls that would store
  a fact twice in one bucket of the hashed join: only a fact with an earlier
  change of key that left an entry behind could, and what a multiset of such
  entries does afterwards is not claimed.
- Two objects and one address for a session are enough for an address to be
  used again while a stream may still point to it; two streams let the counter
  be wrong in both directions. `MaxBatches` 1 bounds what one session takes in.

`calls` counts the calls since the last `reset`; `MaxCalls` bounds it. Deadlock
is checked in every run: the sequential parts always offer another call.

### Fairness

`SessionPool`: weak fairness of each step inside `acquire` and `release`; a
thread that holds the mutex or may take it goes on. No fairness for acquiring,
moving a guard or spurious wake-ups. `StatefulSession` and `ContinuousSession`:
weak fairness of the steps inside a call, because a call is sequential code that
runs until it returns. `FireReturns` needs a limit: without one a rule may
re-activate itself for ever.

## Proofs

| Theorem | Says | From |
|---|---|---|
| `SessionPoolProofs`: `PoolTypes`, `PoolOwnership`, `PoolAccountsForSessions`, `PoolLeaksNoState`, `PoolLosesNoWakeup` | always `TypeOK`, `ExclusiveOwnership`, `EverySessionAccounted`, `ReplacementsFresh`, `NoStateLeakage`, `NoLostWakeup` | `PoolAssumption`: the size is positive, null is not a session, the threads are finitely many |
| `AgendaProofs`: `AgendaTypes`, `AgendaKeepsActivations`, `BatchesStayDetached` | always `TypeOK`, `BatchDetached`, `NoLostActivation`, colliding hashes included | `AgendaAssumption`: types of the attributes |
| `AgendaProofs`: `AgendaImplementsSpec` | `Agenda` implements `AgendaSpec` | besides, `DistinctHashes` |
| `StatefulSessionProofs`: `SessionTypes`, `SessionIsExact`, `RetractionsAreDeferred`, `FailedRollbackEmpties`, `MatchesAccounted` | always `TypeOK`, `MatchesExact`, `DeferredStayInMemory`, `InconsistentIsEmpty`, `EveryMatchAccounted` | `SessionAssumption`: types of the rule attributes, the null values are not values |
| `StatefulSessionProofs`: `RollbackRestoresFacts`, `NoLoopHolds`, `LostSupportRetracts` | steps satisfy `RollbackRestores`, `NoSelfReactivation`, `SupportLostRetracts` | the same |
| `StatefulSessionProofs`: `BatchesAreGreedy` | `Batches`, which `LoopHead` takes in one step, is what the pops of `AgendaSpec` give one by one | the same |
| `StatefulSessionProofs`: `OnlyDeadInsertsEscape`, `LiveInsertsSupported` | from a state with `Supported`, a step leads to one without it just if it is a `DeadInsert`; without those, always `LogicalFactsSupported` | the same; for the second, no step is a `DeadInsert` |
| `StatefulSessionProofs`: `StaleFiringNeedsUpdate`, `OneAtATimeFiresMatches` | what fires without a match has an outdated token; steps satisfy `FiresOnlyMatches` | the same; for the second also `OneAtATime` |
| `StatefulSessionProofs`: `RollbackWithoutUpdate` | a successful rollback with `Untouched` restores all of working memory, logical facts too | the same |
| `MatchNetworkProofs`: `NetworkTypes`, `ConditionsStayExact`, `CrossStaysExact`, `HashedStaysComplete`, `HashedStaleNeedsNewKey` | always `TypeOK`, `ConditionsExact`, `CrossExact`, `HashedComplete`, `HashedStaleOnlyByKey` | `NetworkAssumption`: the null values are not values, the patterns accept values |
| `MatchNetworkProofs`: `AlphaStaysSound`, `OnlyMixedBatchesLose`, `UnmixedStaysComplete`, `WiderPatternFirst` | alpha L is exact and alpha R has no wrong fact; from a state with `AlphaComplete`, a step leads to one without it just if it is a `MixedBatch`; always `AlphaComplete` | the same; for the last two, no step is a `MixedBatch`, or `RightVals \subseteq LeftVals` |
| `MatchNetworkProofs`: `NodesAnswerFacts` | while `AlphaComplete` holds, the not, exists and join nodes answer for working memory (`AnswersFacts`) | the same |
| `MatchNetworkProofs`: `AggregatesImplementNetwork`, `AccumulateStaysExact`, `WindowStaysExact` | `AggSpec` implements `Spec`; always `AccumulateExact`, `WindowExact` | besides, `LengthAssumption`: a positive length, integer values, finitely many facts |
| `ContinuousSessionProofs`: `TypeCorrect`, `StaysBounded`, `LedgersStayInStep`, `ActiveStaysCurrent`, `WindowStaysCurrent`, `EventsCommittedOnce`, `ReplayRestoresInput` | always `TypeOK`, `Bounded`, `LedgersAgree`, `ActiveIsCurrent`, `WindowCurrent`, `CommittedOnce`, `InputRestored` | `ContinuousAssumption`: a valid configuration, integer times |
| `ContinuousSessionProofs`: `ReplayRestoresAll`, `OutputsPublishedOnce` | always `ReplayRestores`, `PublishedOnce` | besides, `MaxInput <= MaxRules`; for the second also what `CommittedOnce` requires |
| `CApiProofs`: `CApiTypes`, `StreamsNeverDangle`, `StatusIsTruth`, `FinishCommitsOnce`, `CallsAreAtomic` | always `TypeOK`, `PointersLive`, `StatusTellsCommit`, `StreamCommitsOnce`; steps satisfy `IngestAtomic` | `CApiAssumption`: null is no address, streams are finitely many |

Some conditions are stated with the theorems and not assumed of the constants.
`DistinctHashes`: the map of the agenda has one place per hash, so an activation
whose hash collides overwrites another, and the specification loses nothing; the
run `agenda_refines_spec` has distinct hashes as well. `MaxInput <= MaxRules`: a
step whose budget cuts it off may be replayed in another order, which
`continuous_replay_budget` shows; what does not depend on the budget is
`ReplayRestoresInput`.

The others say when a property holds that a violated run shows not to hold
always:

- `network_batch`. `MixedBatch`: an `add_facts` with a fact that the first alpha
  node accepts beside one that only the second accepts. It is the only step that
  makes alpha R miss a fact, and every such step does. A second pattern that is
  narrower than the first (`WiderPatternFirst`) rules it out.
- `session_logical_after_update`. `DeadInsert`: an `insertLogical` by an RHS whose
  own match has ended, because it updated its fact or fired from a batch after
  another RHS had. Its token never leaves the network again, so nothing retracts
  the fact. It is the only step that makes a justification of something that is
  no match, and every such step does.
- `session_stale_batch`. `OneAtATime`: no rule has a duration, and the batch size
  is 1 or every call has `max_rules` 0 or 1. Both parts are needed, since an
  activation may become stale while it is delayed as well as in a batch. Without
  any condition, what fires without a match has a token older than its fact's
  latest: a fact must have been updated, or retracted and added again.
- `session_rollback_logical`. `Untouched`: at the end of the rollback the running
  token is still its fact's latest, so neither the RHS nor the rollback has
  propagated an update of the fact. (The condition also excludes activations that
  were stale when they fired.)
- `continuous_replay_budget`. `MaxInput <= MaxRules`, as above.

Arguments. *Pool:* the conjunction is inductive; exclusiveness of a release
needs that the released session is still in its slot (accounting), and
accounting needs that a replacement is new (freshness), so none is inductive
alone. `NoLostWakeup` counts: while a thread is blocked, the threads
that still have to notify and those that were woken are at least as many as the
queued sessions; each step changes both numbers by at most one, and alike.
*Agenda:* the queue alone does not cover the map while a pop has entries
set aside, so the invariant counts queue and deferred entries together; a
requeue needs that batch items have distinct hashes not in the map
(`BatchDetached`). The refinement mapping takes the map for the pending set. That
a pop takes the best of the focused group needs `Ordered`: entries carry the
salience of their activation, and what a pop has set aside is out of focus, so an
activation that should go first has its entry above the one that is popped.
*Session:* `MatchesExact` says nothing while a rollback restores an update, so
nothing would follow when that step ends; the invariant `Exact` says that the
terminal nodes are then wrong about the fact of the running token at most.
`Control` records what each place of `fire_all_rules` knows of the transaction
(the snapshot is taken from a fact in working memory, a commit has no inserted
facts left, an inconsistent session has no facts). `Grounded` says that no set
of facts supports itself: without it an update could end a token, cascade, and
retract the very fact that is being updated, which would then get its new token
without being in working memory. A logical insertion keeps it because the fact
is new. Each action has a lemma; `PropagateExact` and `DoomedClosed` carry the
argument about one change and its cascade. `EveryMatchAccounted` becomes
inductive as `Accounted`: an activation is in one place only, and no token
anywhere is newer than the count of its fact, so a new token is nowhere yet. All
actions are one of two kinds to it, a change of tokens (`Changed`) or a move
between the places (`AgendaStep`). `NoSelfReactivation` rests on `Guarded`: from
the start of the firing to the end of the commit or rollback the pair of rule and
fact is blocked. `RollbackRestores` compares two states far apart; `Tracked` says
of each place in between how working memory and the field differ from what they
were when the RHS began, and `Justified` that only facts made by `insertLogical`
can go in a cascade, which is why the property leaves those out.
`RollbackWithoutUpdate` puts them back: `Traced` adds that no fact is justified by
a match on an inserted one, so retracting the inserted facts starts no cascade.
`StaleFiringNeedsUpdate` rests on `WaitingCurrent` (what waits with its fact's
latest token is a match if the fact is there), `OneAtATimeFiresMatches` on
`Stepwise`: everything that waits is a match, and while an RHS runs nothing is
left in a batch. For `LiveInsertsSupported`, `Supported` is inductive but for a
`DeadInsert`. `BatchesAreGreedy` is about the operator alone: a sequence sorted by
salience with nothing better left behind is one that takes a best element at each
place.
*Network:* exactness of the output of a node says nothing of its indexes. For
the cross-product, not and exists nodes the invariant adds that the left memory
has exactly the live tokens, the right memory the facts of alpha R, both under
their present keys, and that the recorded matches are those that hold now. The
hashed join cannot have that, because a change of key leaves entries behind; for
it the invariant says that every live token and fact is in the bucket of its
present key, since the code looks nowhere else, and that the entries of facts
whose key did not change are right. All six calls have the same
effect on a node, described once: some tokens go, some come, then one event for a
set of facts. The lemmas are about that effect; each call supplies its sets.
These theorems take the nodes against the alpha memories. `AlphaSound` takes
the alpha memories against working memory; the two together give
`NodesAnswerFacts`, in which no memory of the network is mentioned any more but
the outputs.
For the accumulate node a sum over a finite set is shown not to depend on the
order of summation and to split over parts of the set; with that the items are
exact by one step: an ASSERT adds the sum over new facts, a RETRACT takes off
the sum over facts that went, if they count as much as when they came, and a
MODIFY starts anew. The window needs only that it is a list of facts.
*Continuous session:* `HistoryInv` says that there is a sequence of states, one
for each operation of the log, the first one fresh and each other one what its
operation makes of the one before, and places the session in it: between two
calls at the last, in a replay after as many operations as are replayed, between
`apply` and `fire` between two of them. A failure changes the place and never the
sequence; a commit extends it. `ContinuousStepProofs` has what one operation does
to a state in order (`StateOK`: list and facts agree, window sorted and exact, IDs
within the limit), `ContinuousHistoryProofs` that each action keeps the
invariant, `ContinuousSessionProofs` the theorems. `CommittedOnce` follows because
an event of the log is still known by its ID or too late. The ledgers are an
invariant of their own (`OutboxInv`), about sums over log and outbox.
*C interface:* `CallInv` joins the four invariants with `CallsOK`, which says of a
call in progress that it has not committed, that the steps it still has to do end
in the commit, and, if it finishes a stream, that the stream is one of its
session, is finished, has brought nothing in and was fed just the records of the
call. From it each return has the right status, each commit is the stream's first
and brings in what was fed.

Recursive functions (loops of the code, sums) are handled by induction over the
set of numbers for which a claim holds (`NatMin`, `UpTo`, `LoopExists`), because
the induction rules of the library cannot be instantiated by the provers.

Only model-checked: liveness (`BlockedMeansEmpty`, `FireReturns`, `CallReturns`)
and what needs `ENABLED`, which the prover does not handle. Every safety and
action property of a passing run has a theorem. For what a violated run checks
there are the theorems above, with their conditions.

## Not modelled, and why

- Parsing and generated code. `src/parser` and the copies of third-party sources
  in the tree (the expression library `exprtk.hpp`, the parser generator
  `lemon.c` with its template) are two thirds of all lines; they turn text into
  trees or values and keep no state between calls.
- Network construction (`beta_builder.cpp`, `knowledge_base.cpp`): runs once,
  mostly resolves names; the layout it produces is the starting point of
  `MatchNetwork`.
- Expressions, value comparison and conversion, schema rules: pure functions of
  values. Models have the verdict (a pattern accepts a value, a fact is valid, a
  record is an object) as sets. Comparison across value types, where the hash
  index and the constraint check differ, is listed as a hazard.
- Control flow of an RHS (IF, SWITCH, FOR, WHILE): `StatefulSession` lets every
  sequence of at most `MaxOps` actions happen, of which control flow selects some.
- Chains of joins, tokens shared between rules, and batches at a pattern without
  an alpha node, where the batch methods ignore the kind of event.
- Min, max, average, collect and custom accumulators; the result fact, which is
  inserted into working memory in its turn; time windows on the wall clock.
- Eval, unnest and query nodes, and queries in the C interface, whose results
  point into the session.
- Marshalling of values, metadata, globals and tracing in the C interface.
- Deferred evaluation (`right_activate_deferred`, `flush`): nothing turns it on.
- Nested acquisition from the pool: a thread in the model holds one session.
