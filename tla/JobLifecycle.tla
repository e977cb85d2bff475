---------------------------- MODULE JobLifecycle ----------------------------
(***************************************************************************)
(* What the native service promises the client that submitted a job,       *)
(* without leases, queues, routes or workers: a job is admitted once with  *)
(* a fixed request, is started a bounded number of times, and ends once:   *)
(* with the result of its last start, with an error, or cancelled.         *)
(*                                                                         *)
(* One transaction of the service may end several jobs (a claim fails      *)
(* every queued job that may not run), so a step moves any number of jobs. *)
(***************************************************************************)
EXTENDS Integers

CONSTANTS Jobs, Requests, NoRequest, MaxAttempts

VARIABLES
    request,    \* what was admitted, or NoRequest
    outcome,    \* "none" before admission, "pending", or the end
    starts,     \* how often the job was started
    answer,     \* the start whose result was delivered, 0 if none
    expired     \* the admitted deadline has passed

vars == <<request, outcome, starts, answer, expired>>

Ends == {"done", "error", "cancelled"}

Init ==
    /\ request = [j \in Jobs |-> NoRequest]
    /\ outcome = [j \in Jobs |-> "none"]
    /\ starts = [j \in Jobs |-> 0]
    /\ answer = [j \in Jobs |-> 0]
    /\ expired = [j \in Jobs |-> FALSE]

Same(j) ==
    /\ request'[j] = request[j]
    /\ outcome'[j] = outcome[j]
    /\ starts'[j] = starts[j]
    /\ answer'[j] = answer[j]

Admit(j) ==
    /\ outcome[j] = "none"
    /\ request'[j] \in Requests
    /\ outcome'[j] = "pending"
    /\ starts'[j] = 0
    /\ answer'[j] = 0
    /\ ~ expired'[j]

Start(j) ==
    /\ outcome[j] = "pending"
    /\ ~ expired[j]
    /\ starts[j] < MaxAttempts
    /\ starts'[j] = starts[j] + 1
    /\ UNCHANGED <<request[j], outcome[j], answer[j]>>

Deliver(j) ==
    /\ outcome[j] = "pending"
    /\ starts[j] > 0
    /\ ~ expired[j]
    /\ outcome'[j] = "done"
    /\ answer'[j] = starts[j]
    /\ UNCHANGED <<request[j], starts[j]>>

GiveUp(j) ==
    /\ outcome[j] = "pending"
    /\ outcome'[j] \in {"error", "cancelled"}
    /\ UNCHANGED <<request[j], starts[j], answer[j]>>

\* Time only ever expires a deadline.
Clock(j) == expired[j] => expired'[j]

Next == \A j \in Jobs :
    (Same(j) \/ Admit(j) \/ Start(j) \/ Deliver(j) \/ GiveUp(j)) /\ Clock(j)

Spec == Init /\ [][Next]_vars
==============================================================================
