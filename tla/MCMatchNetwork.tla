--------------------------- MODULE MCMatchNetwork ---------------------------
(* Values 1 and 2 satisfy the left pattern, 2 and 3 the right one.  f1 is on  *)
(* the left or fails the pattern, f3 on the right; f2 may be on both sides    *)
(* and may have no key.                                                       *)
EXTENDS AggregateNetwork, TLC

CONSTANTS f1, f2, f3, k1, k2, not, exists

MCInputs == [f \in Facts |->
    CASE f = f1 -> {k1, k2} \X {1, Nil}
      [] f = f2 -> {k1, k2, Nil} \X {2, 3}
      [] OTHER -> {k1, k2} \X {3}]

\* Keys are only compared, and MCInputs has k1 wherever it has k2.
KeySymmetry == Permutations(Keys)
=============================================================================
