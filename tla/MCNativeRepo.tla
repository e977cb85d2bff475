---------------------------- MODULE MCNativeRepo ----------------------------
(* Instances of NativeRepo for TLC. *)
EXTENDS NativeRepo, TLC

\* Tenures, tokens and inputs are interchangeable.
Symmetry == Permutations(RustOwners) \cup Permutations(Tokens)
            \cup Permutations(Inputs) \cup Permutations(Jobs)
==============================================================================
