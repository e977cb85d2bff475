--------------------------- MODULE MCNativeWorker ---------------------------
(* Instances of NativeWorker for TLC. *)
EXTENDS NativeWorker, TLC

\* Tenures and attempt tokens are interchangeable.
Symmetry == Permutations(RustOwners) \cup Permutations(Tokens)
==============================================================================
