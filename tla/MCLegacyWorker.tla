--------------------------- MODULE MCLegacyWorker ---------------------------
(* Instances of LegacyWorker for TLC. *)
EXTENDS LegacyWorker, TLC

CONSTANTS x1

MCSids == {x1}
MCBodies == {[op |-> "build"]}
            \cup [op: {"update"}, sid: MCSids, version: {1}]

Symmetry == Permutations(LegacyOwners) \cup Permutations(Tokens)
            \cup Permutations(Jobs)

-----------------------------------------------------------------------------
(* Endless submissions.  Identifiers are numbers here, given out in order,  *)
(* and that of an ended job is given out again once no row names it and no  *)
(* process holds an attempt of it.  The other jobs keep their order.        *)

\* An interactive job, whose session can be evaluated, and a background one.
FewBodies == {[op |-> "build"], [op |-> "library"]}
FewBackground == {[op |-> "library"]}

Recyclable(j) ==
    /\ jobs[j].status \in {"done", "error"}
    /\ \A c \in claims : c.job # j
    /\ \A s \in Sids : j \notin sessions[s].manifest
    /\ \A n \in DOMAIN libraries : j \notin libraries[n]

Recycle(j) ==
    /\ Recyclable(j)
    /\ jobs' = [i \in Jobs |->
           IF i = j THEN NoJob
           ELSE IF jobs[i].created > jobs[j].created
                THEN [jobs[i] EXCEPT !.created = @ - 1] ELSE jobs[i]]
    /\ UNCHANGED <<workspaceVars, sessions, libraries, callerVars, journals,
                   workVars>>

\* The steps that are explored.  Identifiers are given out in order.
InOrder ==
    /\ \A j \in Admitted' \ Admitted, i \in Jobs \ Admitted : j <= i
    /\ \A t \in UsedTokens' \ UsedTokens, u \in Tokens \ UsedTokens :
           t \in Tokens => t <= u

\* And a process is replaced when it is down.
OneAtATime ==
    \A o, p \in LegacyOwners :
        phase'[o] # "down" /\ phase'[p] # "down" => o = p

EndlessNext == LegacyWorkerNext \/ \E j \in Jobs : Recycle(j)

EndlessSpec == LegacyWorkerInit /\ [][EndlessNext]_workerVars /\ LegacyFairness
==============================================================================
