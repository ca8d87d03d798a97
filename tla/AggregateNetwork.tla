-------------------------- MODULE AggregateNetwork --------------------------
(***************************************************************************)
(* Two more nodes on the patterns of MatchNetwork, driven by the same      *)
(* calls: an accumulate node (rete_node_accumulate.inc) that counts and    *)
(* sums, for each left token, the facts of the right pattern that have its *)
(* key; and a length window (WindowNode) over the right pattern, with a    *)
(* root join below it.                                                     *)
(***************************************************************************)
EXTENDS MatchNetwork, Sequences, FiniteSets, Functions

CONSTANT Length   \* info.size of the window

ASSUME LengthAssumption == Length \in Nat \ {0} /\ Vals \subseteq Int /\ IsFiniteSet(Facts)

VARIABLES
    acc,       \* AccumulateMem: the right memory, and the item of each left token
    skewed,    \* history: tokens whose item lost a fact that changed as it left
    window,    \* WindowMem: the facts in the window, oldest first
    windowed,  \* the facts that the join below the window has tokens of
    readmitted \* history: facts modified while they were out of the window

aggregates == <<acc, skewed, window, windowed, readmitted>>

-----------------------------------------------------------------------------
(* AccumulateNode *)

\* apply_numeric_accumulate: what the fact f adds to count and sum of the token t.
Term(K, W, t, f) ==
    [count |-> IF SameKey(K, t[1], f) THEN 1 ELSE 0,
     sum   |-> IF SameKey(K, t[1], f) /\ W[f] # Nil THEN W[f] ELSE 0]

Total(K, W, t, F) ==
    [count |-> SumFunction([f \in F |-> Term(K, W, t, f).count]),
     sum   |-> SumFunction([f \in F |-> Term(K, W, t, f).sum])]

Plus(a, b) == [count |-> a.count + b.count, sum |-> a.sum + b.sum]
Minus(a, b) == [count |-> a.count - b.count, sum |-> a.sum - b.sum]

\* left_activate
AccLeft(a, dead, born, K, W) ==
    [right |-> a.right,
     items |-> [t \in (DOMAIN a.items \ dead) \cup born |->
                   IF t \in born THEN Total(K, W, t, a.right) ELSE a.items[t]]]

\* Mutant of AccRight: a MODIFY adds the fact like an ASSERT.
AccRightIncremental(a, F, p, K, W) ==
    LET Items(Op(_, _), G) == [t \in DOMAIN a.items |-> Op(a.items[t], Total(K, W, t, G))]
    IN  CASE p \in {"ASSERT", "MODIFY"} -> [right |-> a.right \cup F, items |-> Items(Plus, F)]
          [] p = "RETRACT" -> [right |-> a.right \ F, items |-> Items(Minus, F \cap a.right)]
          [] p = "none" -> a

\* right_activate and right_activate_batch: "MODIFY requires full rebuild".
AccRight(a, F, p, K, W) ==
    LET Items(Op(_, _), G) == [t \in DOMAIN a.items |-> Op(a.items[t], Total(K, W, t, G))]
        Rebuilt(old, total) == total
    IN  CASE p = "ASSERT" -> [right |-> a.right \cup F, items |-> Items(Plus, F)]
          [] p = "MODIFY" -> [right |-> a.right \cup F, items |-> Items(Rebuilt, a.right \cup F)]
          [] p = "RETRACT" -> [right |-> a.right \ F, items |-> Items(Minus, F \cap a.right)]
          [] p = "none" -> a

\* The tokens that will subtract for a fact of F something else than they added.
Skewed(F, p) ==
    IF p = "MODIFY" THEN {}
    ELSE (skewed \cap tok') \cup
         {t \in DOMAIN acc.items \cap tok' : p = "RETRACT" /\
             \E f \in F : Term(key, val, t, f) # Term(key', val', t, f)}

-----------------------------------------------------------------------------
(* WindowNode *)

\* Mutant of Windowed: the fact that leaves the window is not retracted below.
WindowedKept(F, p) ==
    CASE p = "ASSERT" -> windowed \cup Range(window')
      [] p = "MODIFY" -> windowed \cup F
      [] p = "RETRACT" -> windowed \ (F \cap Range(window))
      [] p = "none" -> windowed

\* What the window passes on to the join below it.
Windowed(F, p) ==
    CASE p = "ASSERT" -> (windowed \ (Range(window) \cup F)) \cup Range(window')
      [] p = "MODIFY" -> windowed \cup F
      [] p = "RETRACT" -> windowed \ (F \cap Range(window))
      [] p = "none" -> windowed

\* evaluate_expiration: the oldest facts go, one by one.
Expired(w) == IF Len(w) > Length THEN SubSeq(w, Len(w) - Length + 1, Len(w)) ELSE w

\* The window without the facts F: each is found and erased.
Without(w, F) ==
    LET kept[i \in 0 .. Len(w)] ==
          IF i = 0 THEN <<>>
          ELSE IF w[i] \in F THEN kept[i - 1] ELSE Append(kept[i - 1], w[i])
    IN  kept[Len(w)]

\* right_activate; of a batch, for each fact in the order the caller gave them.
Window(F, p) ==
    \/ /\ p = "ASSERT"
       /\ \E s \in Bijection(1 .. Cardinality(F), F) : window' = Expired(window \o s)
    \/ p = "RETRACT" /\ window' = Without(window, F)
    \/ p \in {"MODIFY", "none"} /\ UNCHANGED window

-----------------------------------------------------------------------------
\* What alpha R passes on reaches both nodes; the accumulate node first gets the
\* tokens that went and came.
Aggregate(F, p) ==
    /\ \E a \in {AccLeft(acc, tok \ tok', tok' \ tok, key', val')} :
         acc' = AccRight(a, F, p, key', val')
    /\ skewed' = Skewed(F, p)
    /\ Window(F, p)
    /\ windowed' = Windowed(F, p)
    /\ readmitted' = readmitted \cup (IF p = "MODIFY" THEN F \ Range(window) ELSE {})

AggInit ==
    /\ Init
    /\ acc = [right |-> {}, items |-> <<>>]
    /\ skewed = {} /\ window = <<>> /\ windowed = {} /\ readmitted = {}

\* What alpha R passes on for an event p of one fact.
Event(f, p) == AlphaEvent(rpass, val'[f] \in RightVals, f, p)

AggCall ==
    \/ \E f \in Facts : \E x \in Inputs[f] :
         AddFact(f, x[1], x[2]) /\ Aggregate({f}, Event(f, "ASSERT"))
    \/ \E F \in SUBSET (Facts \ wm) : \E X \in BatchInputs[F] :
         /\ AddFacts(F, [f \in F |-> X[f][1]], [f \in F |-> X[f][2]])
         /\ Aggregate(rpass' \ rpass, "ASSERT")
    \/ \E f \in Facts : RetractFact(f) /\ Aggregate({f}, Event(f, "RETRACT"))
    \/ \E F \in SUBSET wm : RetractFacts(F) /\ Aggregate(rpass \ rpass', "RETRACT")
    \/ \E f \in Facts : \E x \in Inputs[f] :
         UpdateFact(f, x[1], x[2]) /\ Aggregate({f}, Event(f, "MODIFY"))
    \/ \E f \in Facts : \E x \in Inputs[f] :
         /\ PropagateModify(f, x[1])
         /\ Aggregate({f}, IF f \in rpass THEN "MODIFY" ELSE "none")

AggReset ==
    /\ Reset
    /\ acc' = [right |-> {}, items |-> <<>>]
    /\ skewed' = {} /\ window' = <<>> /\ windowed' = {} /\ readmitted' = {}

AggNext ==
    \/ calls < MaxCalls /\ calls' = calls + 1 /\ AggCall
    \/ AggReset

AggSpec == AggInit /\ [][AggNext]_<<vars, aggregates>>

-----------------------------------------------------------------------------
(* Properties *)

\* The item of every left token is the count and the sum over the facts of alpha
\* R, except for tokens from which a fact was subtracted with other fields than
\* it was added with, until the next MODIFY rebuilds them.
AccumulateExact ==
    /\ DOMAIN acc.items = tok /\ acc.right = rpass
    /\ \A t \in tok \ skewed : acc.items[t] = Total(key, val, t, rpass)

\* The join below the window has the facts in the window, which are the latest of
\* alpha R, and besides them only facts that were modified after they left it
\* (docs/dsl.md: "keeps the latest `N` matching facts").
WindowExact ==
    /\ Len(window) <= Length /\ Range(window) \subseteq windowed \cap rpass
    /\ windowed \ Range(window) \subseteq readmitted

=============================================================================
