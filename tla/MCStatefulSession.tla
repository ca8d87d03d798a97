------------------------- MODULE MCStatefulSession -------------------------
(* Two rules on the same facts, r2 listed first: r1 accepts v1, r2 accepts v1  *)
(* and v2; bad breaks the schema and matches nothing.                          *)
EXTENDS StatefulSession, TLC

CONSTANTS f1, f2, f3, v1, v2, bad, r1, r2, g, other

MCPattern == [r \in Rules |-> IF r = r1 THEN {v1} ELSE {v1, v2}]
MCSalience == [r \in Rules |-> IF r = r1 THEN 0 ELSE 10]
FlatSalience == [r \in Rules |-> 0]
AllMain == [r \in Rules |-> Main]
OneOther == [r \in Rules |-> IF r = r1 THEN Main ELSE other]
NoGroups == [r \in Rules |-> NoGroup]
OneGroup == [r \in Rules |-> g]

\* Limits: none, and a single rule.
NoneOrOne == {-1, 1}

\* Facts are only compared.
FactSymmetry == Permutations(Facts)
=============================================================================
