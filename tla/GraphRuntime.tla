----------------------------- MODULE GraphRuntime -----------------------------
(***************************************************************************)
(* Native pricing graphs and the calls made on them: the registry of graph *)
(* owners (graph/incremental.rs), the one-shot tokens that cancel a call   *)
(* (runtime/control.rs), and the Python side that makes a controlled call, *)
(* watches its lease meanwhile and cleans up after it                      *)
(* (core/graph_control_native.py, core/quant_native.py, graph_native.py).  *)
(*                                                                         *)
(* A call creates an owner or works on one; it may be cancelled or run out *)
(* of time between any two steps, and the Python object of a handle may be *)
(* closed while calls on it are under way.                                 *)
(***************************************************************************)
EXTENDS GraphCache

CONSTANTS
    Callers,        \* Python threads that make controlled calls
    NoCaller,
    Kinds,          \* the kinds of owner that controlled calls may create
    Cleaned,        \* those `cleanup_created` knows of
    Plans,          \* what a request prices: batches of keys, in order
    MaxHandles,     \* 128 owners
    MaxTokens,      \* 256 tokens
    LastToken       \* bound: controlled calls in all

ASSUME RuntimeAssumption ==
    /\ NoCaller \notin Callers
    /\ Cleaned \subseteq Kinds
    /\ Plans \subseteq Seq(Batches)
    /\ MaxHandles \in Nat /\ MaxTokens \in Nat /\ LastToken \in Nat

VARIABLES
    registered,     \* the handles in the registry
    owners,         \* the owners that the registry or a call refers to
    nextHandle,
    tokens,         \* the phase of every registered token
    cancelled,      \* the tokens whose flag is set
    nextToken,
    calls,          \* what every caller is doing
    objects,        \* the open Python objects: a handle and its owner's stamp
    signals         \* tokens that a monitor thread is about to signal

registry == <<registered, owners, nextHandle>>
control == <<tokens, cancelled, nextToken>>
vars == <<registry, control, calls, objects, signals>>

Idle == [at |-> "idle"]

RuntimeInit ==
    /\ registered = {} /\ owners = Nothing /\ nextHandle = 1
    /\ tokens = Nothing /\ cancelled = {} /\ nextToken = 1
    /\ calls = [c \in Callers |-> Idle]
    /\ objects = {} /\ signals = {}

At(c, places) == calls[c].at \in places
Native == {"claimed", "admitted", "pricing", "waiting", "inside", "returning"}

\* An owner lives while the registry or a call refers to it (`Arc`).
Owners(all, handles, cs) ==
    [h \in {x \in DOMAIN all :
                \/ x \in handles
                \/ \E c \in Callers : cs[c].at \in {"waiting", "inside"} /\ cs[c].handle = x}
     |-> all[h]]

Settle(all, handles, cs) ==
    /\ registered' = handles
    /\ calls' = cs
    /\ owners' = Owners(all, handles, cs)

Move(c, call) == [calls EXCEPT ![c] = call]

\* `checkpoint`: cancelled, or past the deadline.
Check(c) == calls[c].token \notin cancelled /\ calls[c].trouble # "expired"

-----------------------------------------------------------------------------
(* Tokens.                                                                 *)

\* Mutant: the numbers of released tokens are given again.
LeastToken == CHOOSE t \in 1 .. LastToken + 1 :
                  t \notin DOMAIN tokens /\ \A u \in 1 .. t - 1 : u \in DOMAIN tokens
\* "IDs never recycle."
FreshToken == nextToken

\* `create_token`, for a new object or for a call on an open one.
Begin(c, op, kind, plan, handle, stamp) ==
    /\ At(c, {"idle"})
    /\ Cardinality(DOMAIN tokens) < MaxTokens
    /\ nextToken <= LastToken
    /\ tokens' = With(tokens, FreshToken, "fresh")
    /\ nextToken' = nextToken + 1
    /\ calls' = Move(c, [at |-> "begun", op |-> op, kind |-> kind, plan |-> plan,
                         handle |-> handle, stamp |-> stamp, token |-> FreshToken,
                         trouble |-> "none", created |-> 0, ok |-> TRUE])
    /\ UNCHANGED <<registry, cancelled, objects, signals>>

BeginCreate(c, kind, plan) == Begin(c, "create", kind, plan, 0, FreshToken)

BeginWork(c, op, plan, object) ==
    /\ object \in objects
    /\ Begin(c, op, object.kind, plan, object.handle, object.stamp)

\* `release`, of a token that is not running.
Released(t) ==
    /\ tokens' = Without(tokens, t)
    /\ cancelled' = cancelled \ {t}
    /\ UNCHANGED nextToken

\* The monitor finds the lease lost, or time is up, before the native call.
Abandon(c) ==
    /\ At(c, {"begun"}) /\ calls[c].trouble # "none"
    /\ Released(calls[c].token)
    /\ calls' = Move(c, Idle)
    /\ UNCHANGED <<registry, objects, signals>>

\* `call` claims the token.
Claim(c) ==
    /\ At(c, {"begun"})
    /\ tokens[calls[c].token] = "fresh"
    /\ tokens' = [tokens EXCEPT ![calls[c].token] = "running"]
    /\ calls' = Move(c, [calls[c] EXCEPT !.at = "claimed"])
    /\ UNCHANGED <<registry, cancelled, nextToken, objects, signals>>

\* The monitor thread sees that the lease is lost while the native call runs
\* ("signalling" may come at any time after that, even when the call is over).
Notice(c) ==
    /\ At(c, Native) /\ calls[c].trouble = "lost"
    /\ calls' = Move(c, [calls[c] EXCEPT !.trouble = "noticed"])
    /\ signals' = signals \cup {calls[c].token}
    /\ UNCHANGED <<registry, control, objects>>

\* `signal`: unknown and finished tokens are refused.
Signal(t) ==
    /\ t \in signals
    /\ signals' = signals \ {t}
    /\ cancelled' = IF t \in DOMAIN tokens /\ tokens[t] # "finished"
                    THEN cancelled \cup {t} ELSE cancelled
    /\ UNCHANGED <<registry, tokens, nextToken, calls, objects>>

LoseLease(c) ==
    /\ calls[c].at # "idle" /\ calls[c].trouble = "none"
    /\ calls' = Move(c, [calls[c] EXCEPT !.trouble = "lost"])
    /\ UNCHANGED <<registry, control, objects, signals>>

Expire(c) ==
    /\ calls[c].at # "idle" /\ calls[c].trouble = "none"
    /\ calls' = Move(c, [calls[c] EXCEPT !.trouble = "expired"])
    /\ UNCHANGED <<registry, control, objects, signals>>

-----------------------------------------------------------------------------
(* The native call.                                                        *)

Unlocked(c) ==
    [h \in DOMAIN owners |->
        IF owners[h].lock = c THEN [owners[h] EXCEPT !.lock = NoCaller] ELSE owners[h]]

\* An error or a refused checkpoint: the owner, if any, is let go.
Fail(c) ==
    /\ Settle(Unlocked(c), registered,
              Move(c, [calls[c] EXCEPT !.at = "returning", !.ok = FALSE]))
    /\ UNCHANGED <<nextHandle, control, objects, signals>>

Pass(c, at) ==
    /\ calls' = Move(c, [calls[c] EXCEPT !.at = at])
    /\ UNCHANGED <<registry, control, objects, signals>>

HasRoom == Cardinality(registered) < MaxHandles
\* `register` counts once more, under the lock.
HasRoomStill == HasRoom

\* Creation: a cheap look at the registry before the pricing.
Precheck(c) ==
    /\ At(c, {"claimed"}) /\ calls[c].op = "create"
    /\ IF Check(c) /\ HasRoom THEN Pass(c, "pricing") ELSE Fail(c)

Priced(cache, plan) == FoldLeft(LAMBDA d, keys : Batch(d, keys), cache, plan)

\* Mutant: the handle of a dropped owner is given again.
LeastHandle == CHOOSE h \in 1 .. nextHandle :
                   h \notin registered /\ \A i \in 1 .. h - 1 : i \in registered
FreshHandle == nextHandle

\* The new owner, priced once outside of every lock, is registered.
Register(c) ==
    /\ At(c, {"pricing"})
    /\ IF Check(c) /\ HasRoomStill
       THEN /\ Settle(With(owners, FreshHandle,
                           [kind |-> calls[c].kind, stamp |-> calls[c].stamp,
                            cache |-> Priced(EmptyCache, calls[c].plan),
                            lock |-> NoCaller]),
                      registered \cup {FreshHandle},
                      Move(c, [calls[c] EXCEPT !.at = "returning", !.plan = <<>>,
                                               !.created = FreshHandle]))
            /\ nextHandle' = nextHandle + 1
            /\ UNCHANGED <<control, objects, signals>>
       ELSE Fail(c)

\* The pricing fails.
FailPricing(c) == At(c, {"pricing"}) /\ Fail(c)

\* `admit_runtime`: the handle is known and its owner is of the right kind.
Admit(c) ==
    LET h == calls[c].handle IN
    /\ At(c, {"claimed"}) /\ calls[c].op # "create"
    /\ IF Check(c) /\ h \in registered /\ owners[h].kind = calls[c].kind
       THEN Pass(c, "admitted") ELSE Fail(c)

\* `run` looks the handle up again, and keeps the owner from now on.
Lookup(c) ==
    LET h == calls[c].handle IN
    /\ At(c, {"admitted"})
    /\ IF h \in registered /\ owners[h].kind = calls[c].kind
       THEN Pass(c, "waiting") ELSE Fail(c)

\* `controlled_lock` tries the lock every millisecond, between checkpoints.
Enter(c) ==
    LET h == calls[c].handle IN
    /\ At(c, {"waiting"})
    /\ \/ ~ Check(c) /\ Fail(c)
       \/ /\ Check(c) /\ owners[h].lock = NoCaller
          /\ Settle([owners EXCEPT ![h].lock = c], registered,
                    Move(c, [calls[c] EXCEPT !.at = "inside"]))
          /\ UNCHANGED <<nextHandle, control, objects, signals>>

\* The next batch of the request is priced, or its build fails and none of it
\* is kept.
PriceBatch(c) ==
    LET h == calls[c].handle
        keys == Head(calls[c].plan)
    IN
    /\ At(c, {"inside"}) /\ calls[c].op = "price" /\ calls[c].plan # <<>>
    /\ \/ ~ Check(c) /\ Fail(c)
       \/ /\ Check(c)
          /\ Settle([owners EXCEPT ![h].cache = Batch(@, keys)], registered,
                    Move(c, [calls[c] EXCEPT !.plan = Tail(@)]))
          /\ UNCHANGED <<nextHandle, control, objects, signals>>
       \/ /\ Settle([Unlocked(c) EXCEPT ![h].cache = FailedBatch(@, keys)], registered,
                    Move(c, [calls[c] EXCEPT !.at = "returning", !.ok = FALSE]))
          /\ UNCHANGED <<nextHandle, control, objects, signals>>

\* `price` is done, `clear` clears, `info` reads; the lock is let go.
Leave(c) ==
    LET h == calls[c].handle IN
    /\ At(c, {"inside"}) /\ (calls[c].op = "price" => calls[c].plan = <<>>)
    /\ Settle([Unlocked(c) EXCEPT ![h].cache = IF calls[c].op = "clear" THEN Clear(@) ELSE @],
              registered,
              Move(c, [calls[c] EXCEPT !.at = "returning", !.plan = <<>>]))
    /\ UNCHANGED <<nextHandle, control, objects, signals>>

\* Mutant: an error after the registration leaves the handle there.
KeepsHandle(c, ok) == registered
\* `retire_unpublished`
HandlesAfter(c, ok) == IF ok THEN registered ELSE registered \ {calls[c].created}

\* The last checks, around the handoff of the reply; the token is finished.
Finish(c) ==
    LET ok == calls[c].ok /\ Check(c) IN
    /\ At(c, {"returning"})
    /\ Settle(owners, HandlesAfter(c, ok),
              Move(c, [calls[c] EXCEPT !.at = "returned", !.ok = ok]))
    /\ tokens' = [tokens EXCEPT ![calls[c].token] = "finished"]
    /\ UNCHANGED <<nextHandle, cancelled, nextToken, objects, signals>>

-----------------------------------------------------------------------------
(* The Python side of the call.                                            *)

\* `cleanup_created`: the owner of a creation that will not be published.
CleanedUp(c) ==
    IF calls[c].op = "create" /\ calls[c].kind \in Cleaned /\ calls[c].ok
    THEN registered \ {calls[c].created} ELSE registered

\* `check` after the native call: the lease is read once more, and the token
\* is released either way.
Receive(c) ==
    /\ At(c, {"returned"})
    /\ Released(calls[c].token)
    /\ IF calls[c].trouble = "none"
       THEN Settle(owners, registered, Move(c, [calls[c] EXCEPT !.at = "decoding"]))
       ELSE Settle(owners, CleanedUp(c), Move(c, Idle))
    /\ UNCHANGED <<nextHandle, objects, signals>>

\* `term_call` decodes the reply and checks again; the object of a new owner
\* is there from now on.
Decode(c) ==
    /\ At(c, {"decoding"})
    /\ IF calls[c].ok /\ calls[c].trouble # "none"
       THEN Settle(owners, CleanedUp(c), Move(c, Idle))
       ELSE Settle(owners, registered, Move(c, Idle))
    /\ objects' = IF calls[c].ok /\ calls[c].trouble = "none" /\ calls[c].op = "create"
                  THEN objects \cup {[handle |-> calls[c].created, kind |-> calls[c].kind,
                                      stamp |-> calls[c].stamp]}
                  ELSE objects
    /\ UNCHANGED <<nextHandle, control, signals>>

\* `close`, or the finalizer: an unconditional drop, whoever uses the handle.
Close(object) ==
    /\ object \in objects
    /\ objects' = objects \ {object}
    /\ Settle(owners, registered \ {object.handle}, calls)
    /\ UNCHANGED <<nextHandle, control, signals>>

RuntimeNext ==
    \/ \E c \in Callers :
        \/ \E kind \in Kinds, plan \in Plans : BeginCreate(c, kind, plan)
        \/ \E object \in objects :
               \/ \E plan \in Plans : BeginWork(c, "price", plan, object)
               \/ BeginWork(c, "clear", <<>>, object)
        \/ Abandon(c) \/ Claim(c) \/ Notice(c) \/ LoseLease(c) \/ Expire(c)
        \/ Precheck(c) \/ Register(c) \/ FailPricing(c)
        \/ Admit(c) \/ Lookup(c) \/ Enter(c) \/ PriceBatch(c) \/ Leave(c)
        \/ Finish(c) \/ Receive(c) \/ Decode(c)
    \/ \E t \in signals : Signal(t)
    \/ \E object \in objects : Close(object)

RuntimeSpec == RuntimeInit /\ [][RuntimeNext]_vars

-----------------------------------------------------------------------------
(* Safety.                                                                 *)

\* When nobody works on it, a registered handle has its Python object: an
\* error, a late cancellation or a lease lost on the way back leaves no owner
\* behind ("Any error or late cancellation/deadline retires its registered
\* unpublished handle") - except a kind that `cleanup_created` does not list -
\* and no token outlives its call.
NothingLeaks ==
    /\ \A h \in registered :
        \/ \E object \in objects : object.handle = h
        \/ \E c \in Callers : calls[c].at # "idle" /\ calls[c].created = h
        \/ owners[h].kind \notin Cleaned
    /\ \A t \in DOMAIN tokens :
        \E c \in Callers : calls[c].at \notin {"idle", "decoding"} /\ calls[c].token = t

\* A call is cancelled only for its own lease: a monitor that wakes up late
\* never hits another call's token.
SignalsMeantForIt ==
    \A c \in Callers :
        calls[c].at \notin {"idle", "decoding"} /\ calls[c].token \in cancelled
            => calls[c].trouble = "noticed"

\* A call works on the owner its object was made with, though the object may
\* be closed and others created between its steps.
WorksOnItsOwner ==
    \A c \in Callers :
        At(c, {"inside"}) =>
            /\ owners[calls[c].handle].lock = c
            /\ owners[calls[c].handle].stamp = calls[c].stamp

\* The caches keep their books through failed, cancelled and repeated calls,
\* evictions and the wrap of the recency numbers.
CachesSound == \A h \in DOMAIN owners : SoundCache(owners[h].cache)

\* A result leaves a cache only for another result, or with everything else
\* ("compact results survive transient flow churn").
ResultsOutlast ==
    [][\A h \in DOMAIN owners \cap DOMAIN owners' :
        LET before == DOMAIN owners[h].cache.entries
            after == DOMAIN owners'[h].cache.entries
        IN (before \ after) \cap Results # {} =>
               \/ (after \ before) \cap Results # {}
               \/ after = {}
               \/ owners'[h].cache.tick < owners[h].cache.tick]_vars
==============================================================================
