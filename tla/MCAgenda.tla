----------------------------- MODULE MCAgenda ------------------------------
(* Three activations of three rules on two facts: a1 and a3 share the        *)
(* activation group g, a2 belongs to the agenda group "other" and is delayed *)
(* when it is added with its duration, a3 locks on active.                   *)
EXTENDS Agenda, TLC

CONSTANTS a1, a2, a3, r1, r2, r3, f1, f2, g, other

MCActivations == {a1, a2, a3}
MCRules == {r1, r2, r3}
MCFacts == {f1, f2}
MCRuleOf == (a1 :> r1) @@ (a2 :> r2) @@ (a3 :> r3)
MCFactsOf == (a1 :> {f1}) @@ (a2 :> {f2}) @@ (a3 :> {f1, f2})
MCSalience == (r1 :> 0) @@ (r2 :> 10) @@ (r3 :> 10)
MCAgendaGroup == (r1 :> Main) @@ (r2 :> other) @@ (r3 :> Main)
MCActivationGroup == (r1 :> g) @@ (r2 :> NoGroup) @@ (r3 :> g)
MCLockOnActive == {r3}
MCTimed == {r2}

\* Distinct hashes, ordered against the saliences.
MCHashOf == (a1 :> 3) @@ (a2 :> 1) @@ (a3 :> 2)
=============================================================================
