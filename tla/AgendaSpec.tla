----------------------------- MODULE AgendaSpec -----------------------------
(***************************************************************************)
(* What the agenda promises to the fire loop, without the queue behind it: *)
(* a set of pending activations from which a pop takes, one after another, *)
(* a pending activation of the focused agenda group with the highest       *)
(* salience, and stops short only when that group has none left.           *)
(***************************************************************************)
EXTENDS Integers, Sequences

CONSTANTS
    Activations,
    SalienceOf,   \* salience of each activation's rule
    FocusOf,      \* agenda group of each activation's rule
    Foci,
    Main

VARIABLES
    pending,      \* the activations on the agenda
    focus_stack_,
    popping,      \* a pop is running
    want,         \* how many items it may take
    batch         \* what it has taken so far

vars == <<pending, focus_stack_, popping, want, batch>>

Focus == IF focus_stack_ = <<>> THEN Main ELSE focus_stack_[Len(focus_stack_)]
Eligible == {a \in pending : FocusOf[a] = Focus}

Init ==
    /\ pending = {}
    /\ focus_stack_ = <<>>
    /\ popping = FALSE
    /\ want = 0
    /\ batch = <<>>

Put(a) ==
    /\ ~popping
    /\ pending' = pending \cup {a}
    /\ UNCHANGED <<focus_stack_, popping, want, batch>>

Discard(A) ==
    /\ ~popping
    /\ pending' = pending \ A
    /\ UNCHANGED <<focus_stack_, popping, want, batch>>

PushFocus(g) ==
    /\ ~popping
    /\ focus_stack_' = Append(focus_stack_, g)
    /\ UNCHANGED <<pending, popping, want, batch>>

DropFocus ==
    /\ ~popping
    /\ focus_stack_ # <<>>
    /\ focus_stack_' = SubSeq(focus_stack_, 1, Len(focus_stack_) - 1)
    /\ UNCHANGED <<pending, popping, want, batch>>

Begin ==
    /\ ~popping
    /\ popping' = TRUE
    /\ want' \in Nat
    /\ batch' = <<>>
    /\ UNCHANGED <<pending, focus_stack_>>

Take(a) ==
    /\ popping
    /\ Len(batch) < want
    /\ a \in Eligible
    /\ \A b \in Eligible : SalienceOf[b] <= SalienceOf[a]
    /\ pending' = pending \ {a}
    /\ batch' = Append(batch, [salience |-> SalienceOf[a], activation |-> a])
    /\ UNCHANGED <<focus_stack_, popping, want>>

End ==
    /\ popping
    /\ Len(batch) >= want \/ Eligible = {}
    /\ popping' = FALSE
    /\ UNCHANGED <<pending, focus_stack_, want, batch>>

Requeue(i) ==
    /\ ~popping
    /\ pending' = pending \cup {batch[j].activation : j \in i..Len(batch)}
    /\ batch' = <<>>
    /\ UNCHANGED <<focus_stack_, popping, want>>

Next ==
    \/ \E a \in Activations : Put(a) \/ Take(a)
    \/ \E A \in SUBSET Activations : Discard(A)
    \/ \E g \in Foci : PushFocus(g)
    \/ DropFocus
    \/ Begin
    \/ End
    \/ \E i \in 1..Len(batch) : Requeue(i)

Spec == Init /\ [][Next]_vars
=============================================================================
