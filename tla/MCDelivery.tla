------------------------------ MODULE MCDelivery ------------------------------
(* Instances of Storage and Delivery for TLC. *)
EXTENDS Delivery, TLC

CONSTANTS c1, n1, p1

\* A Rust job and a Python job, whose results share a part.
MCPartsOf == (n1 :> {c1}) @@ (p1 :> {c1})

Symmetry == Permutations(Deliverers)
==============================================================================
