---------------------------- MODULE MCDeployment ----------------------------
(* Instances of Deployment for TLC. *)
EXTENDS Deployment, TLC

\* Stamps and submitting processes are interchangeable.
Symmetry == Permutations(Stamps) \cup Permutations(Callers)
            \cup Permutations(LegacyJobs) \cup Permutations(RustOwners)
            \cup Permutations(LegacyOwners)
==============================================================================
