------------------------------ MODULE MCDispatch -------------------------------
(* A scheduled and a direct history of the same request.                       *)
EXTENDS Dispatch, TLC

CONSTANTS s1, d1, k1, p, q

MCKeyOf == [i \in {s1, d1} |-> k1]

Symmetry == Permutations({p, q})
====
