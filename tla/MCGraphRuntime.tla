---------------------------- MODULE MCGraphRuntime ----------------------------
(* Instances of GraphRuntime for TLC. *)
EXTENDS GraphRuntime, TLC

CONSTANTS m, f, g, r, q

\* A market, the flows of two instruments, and the result of each.
MCParents == (m :> <<>>) @@ (f :> <<m>>) @@ (g :> <<m>>)
             @@ (r :> <<f, f>>) @@ (q :> <<g, f>>)
MCKeyBytes == [k \in Keys |-> 1]
MCValueBytes == [k \in Keys |-> IF k \in Results THEN 1 ELSE 2]
MCPlans == {<< <<f>>, <<r, q>>, <<g>> >>}

Symmetry == Permutations(Callers)
==============================================================================
