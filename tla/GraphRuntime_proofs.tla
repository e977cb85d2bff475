-------------------------- MODULE GraphRuntime_proofs --------------------------
(***************************************************************************)
(* Proofs about GraphRuntime: for any number of threads, kinds of owner,   *)
(* plans and bounds, no owner and no token outlives its use, no signal     *)
(* hits another call, a call works on the owner it was made for, alone,    *)
(* and the caches of all owners keep their books.                          *)
(*                                                                         *)
(* The inductive invariant RuntimeInv has a part for the registry, one for *)
(* the Python objects, one for every call (CallOK), and NothingLeaks.  A   *)
(* step disturbs the part of the caller that takes it; for all the others  *)
(* it is enough to know what the step leaves of the registry and of the    *)
(* tokens (OwnersStep, TokensStep).  CachesGood says that every owner's    *)
(* cache is good; the steps that work on one are those of GraphCache.      *)
(***************************************************************************)
EXTENDS GraphRuntime, GraphCache_proofs

Places == {"begun", "claimed", "admitted", "pricing", "waiting", "inside",
           "returning", "returned", "decoding"}

Call == [at : Places, op : {"create", "price", "clear"}, kind : Kinds,
         plan : Seq(Batches), handle : Nat, stamp : Nat, token : Nat,
         trouble : {"none", "lost", "noticed", "expired"}, created : Nat,
         ok : BOOLEAN]

\* The handles are numbers given before, and what is registered is there.
RegistryInv ==
    /\ nextHandle \in Nat \ {0}
    /\ DOMAIN owners \subseteq 1 .. nextHandle - 1
    /\ registered \subseteq DOMAIN owners
    /\ \A h \in DOMAIN owners :
           {"kind", "stamp", "lock", "cache"} \subseteq DOMAIN owners[h]

\* So are the tokens; only registered ones are cancelled.
ControlInv ==
    /\ nextToken \in Nat \ {0}
    /\ DOMAIN tokens \subseteq 1 .. nextToken - 1
    /\ cancelled \subseteq DOMAIN tokens
    /\ signals \subseteq 1 .. nextToken - 1

\* An object's handle is that of its owner, as long as there is one.
ObjectOK(o) ==
    /\ o \in [handle : Nat \ {0}, kind : Kinds, stamp : Nat]
    /\ o.handle < nextHandle
    /\ o.handle \in DOMAIN owners => owners[o.handle].stamp = o.stamp

Active(c) == calls[c].at # "idle"
Tokened(c) == calls[c].at \notin {"idle", "decoding"}

\* A call that is under way.
TokenOK(c) ==
    /\ calls[c].token \in 1 .. nextToken - 1
    /\ Tokened(c) => calls[c].token \in DOMAIN tokens
    /\ calls[c].token \in signals \cup cancelled => calls[c].trouble = "noticed"

HandleOK(c) ==
    /\ calls[c].handle < nextHandle
    /\ calls[c].op # "create" =>
        /\ calls[c].handle # 0 /\ calls[c].created = 0
        /\ calls[c].handle \in DOMAIN owners
               => owners[calls[c].handle].stamp = calls[c].stamp
    /\ calls[c].at \in {"admitted", "waiting", "inside"} => calls[c].op # "create"
    /\ calls[c].at \in {"waiting", "inside"} => calls[c].handle \in DOMAIN owners
    /\ calls[c].at = "inside" => owners[calls[c].handle].lock = c

CreatedOK(c) ==
    /\ calls[c].created < nextHandle
    /\ calls[c].at = "pricing" => calls[c].op = "create"
    /\ calls[c].created # 0 => calls[c].at \in {"returning", "returned", "decoding"}
    /\ calls[c].created \in DOMAIN owners =>
        /\ owners[calls[c].created].kind = calls[c].kind
        /\ owners[calls[c].created].stamp = calls[c].stamp
    /\ calls[c].at \in {"returning", "returned", "decoding"} /\ calls[c].op = "create"
       /\ calls[c].ok => calls[c].created # 0
    /\ calls[c].at \in {"returned", "decoding"} /\ ~ calls[c].ok
           => calls[c].created \notin registered

CallOK(c) ==
    \/ calls[c] = Idle
    \/ calls[c] \in Call /\ TokenOK(c) /\ HandleOK(c) /\ CreatedOK(c)

TokensDiffer ==
    \A c, d \in Callers :
        c # d /\ Active(c) /\ Active(d) => calls[c].token # calls[d].token

RuntimeInv ==
    /\ DOMAIN calls = Callers
    /\ RegistryInv /\ ControlInv
    /\ \A o \in objects : ObjectOK(o)
    /\ \A c \in Callers : CallOK(c)
    /\ TokensDiffer
    /\ NothingLeaks

-----------------------------------------------------------------------------
(* What a step of c leaves of the rest.                                    *)

OwnersUsed ==
    \A h \in registered :
        \/ \E object \in objects : object.handle = h
        \/ \E c \in Callers : Active(c) /\ calls[c].created = h
        \/ owners[h].kind \notin Cleaned
TokensUsed ==
    \A t \in DOMAIN tokens : \E c \in Callers : Tokened(c) /\ calls[c].token = t

LEMMA LeaksNothing == NothingLeaks <=> OwnersUsed /\ TokensUsed
  BY DEF NothingLeaks, OwnersUsed, TokensUsed, Active, Tokened

OthersWait(c) ==
    /\ DOMAIN calls' = Callers
    /\ \A d \in Callers \ {c} : calls'[d] = calls[d]

\* New owners have new handles; the others keep their kind, their stamp and,
\* unless c had it, their lock; and the owners that other calls use go on.
OwnersStep(c) ==
    /\ nextHandle' >= nextHandle
    /\ \A h \in DOMAIN owners' : h < nextHandle =>
        /\ h \in DOMAIN owners
        /\ owners'[h].kind = owners[h].kind /\ owners'[h].stamp = owners[h].stamp
        /\ \A d \in Callers \ {c} : owners[h].lock = d => owners'[h].lock = d
    /\ \A h \in registered' : h < nextHandle => h \in registered
    /\ \A d \in Callers \ {c} :
        calls[d].at \in {"waiting", "inside"} => calls[d].handle \in DOMAIN owners'

\* The tokens of the others stay, and are not signalled.
TokensStep(c) ==
    /\ nextToken' >= nextToken
    /\ \A d \in Callers \ {c} :
        /\ Tokened(d) => calls[d].token \in DOMAIN tokens'
        /\ Active(d) /\ calls[d].token \in signals' \cup cancelled'
               => calls[d].token \in signals \cup cancelled

LEMMA IdleOrCall ==
    ASSUME NEW c \in Callers, CallOK(c)
    PROVE  /\ Active(c) <=> calls[c] # Idle
           /\ Active(c) => /\ calls[c] \in Call /\ TokenOK(c)
                           /\ HandleOK(c) /\ CreatedOK(c)
           /\ Tokened(c) => Active(c)
  BY DEF CallOK, Active, Tokened, Idle, Call, Places

\* What the others do next is as good as it was.
LEMMA OthersKept ==
    ASSUME NEW c, NEW d \in Callers \ {c}, CallOK(d), RegistryInv, RegistryInv',
           ControlInv, ControlInv', OthersWait(c), OwnersStep(c), TokensStep(c)
    PROVE  CallOK(d)'
<1>1. calls'[d] = calls[d] /\ d \in Callers
  BY DEF OthersWait
<1>2. CASE calls[d] = Idle
  BY <1>1, <1>2 DEF CallOK
<1>3. CASE calls[d] # Idle
  <2>1. /\ calls[d] \in Call /\ TokenOK(d) /\ HandleOK(d) /\ CreatedOK(d) /\ Active(d)
    BY <1>3, IdleOrCall
  <2>2. /\ nextHandle \in Nat /\ nextHandle' \in Nat /\ nextHandle' >= nextHandle
        /\ nextToken \in Nat /\ nextToken' \in Nat /\ nextToken' >= nextToken
        /\ calls[d].handle \in Nat /\ calls[d].created \in Nat /\ calls[d].token \in Nat
    BY <2>1 DEF RegistryInv, ControlInv, OwnersStep, TokensStep, Call
  <2>3. TokenOK(d)'
    BY <1>1, <2>1, <2>2 DEF TokenOK, TokensStep, Tokened
  <2>4. HandleOK(d)'
    <3>1. calls[d].handle \in DOMAIN owners' =>
            /\ calls[d].handle \in DOMAIN owners
            /\ owners'[calls[d].handle].stamp = owners[calls[d].handle].stamp
            /\ owners[calls[d].handle].lock = d => owners'[calls[d].handle].lock = d
      BY <2>1 DEF HandleOK, OwnersStep
    <3>2. calls[d].handle < nextHandle'
      BY <2>1, <2>2 DEF HandleOK
    <3>3. calls[d].at \in {"waiting", "inside"} => calls[d].handle \in DOMAIN owners'
      BY DEF OwnersStep
    <3> QED
      BY <1>1, <2>1, <3>1, <3>2, <3>3 DEF HandleOK
  <2>5. CreatedOK(d)'
    <3>1. calls[d].created \in DOMAIN owners' =>
            /\ calls[d].created \in DOMAIN owners
            /\ owners'[calls[d].created].kind = owners[calls[d].created].kind
            /\ owners'[calls[d].created].stamp = owners[calls[d].created].stamp
      BY <2>1 DEF CreatedOK, OwnersStep
    <3>2. calls[d].created \in registered' => calls[d].created \in registered
      BY <2>1 DEF CreatedOK, OwnersStep
    <3>3. calls[d].created < nextHandle'
      BY <2>1, <2>2 DEF CreatedOK
    <3> QED
      BY <1>1, <2>1, <3>1, <3>2, <3>3 DEF CreatedOK
  <2> QED
    BY <1>1, <2>1, <2>3, <2>4, <2>5 DEF CallOK
<1> QED
  BY <1>2, <1>3

LEMMA ObjectsKept ==
    ASSUME NEW c, NEW o, ObjectOK(o), RegistryInv, RegistryInv', OwnersStep(c)
    PROVE  ObjectOK(o)'
<1>1. /\ nextHandle \in Nat /\ nextHandle' \in Nat /\ nextHandle' >= nextHandle
      /\ o.handle \in Nat /\ o.handle < nextHandle
  BY DEF ObjectOK, RegistryInv, OwnersStep
<1>2. o.handle < nextHandle'
  BY <1>1
<1>3. o.handle \in DOMAIN owners' =>
        o.handle \in DOMAIN owners /\ owners'[o.handle].stamp = owners[o.handle].stamp
  BY <1>1 DEF OwnersStep
<1> QED
  BY <1>2, <1>3 DEF ObjectOK

\* Nothing leaks in a step of c when what c alone answered for does not.
LEMMA OwnersStayUsed ==
    ASSUME NEW c \in Callers, OwnersUsed, RegistryInv, OthersWait(c), OwnersStep(c),
           RegistryInv', objects \subseteq objects',
           \A h \in registered' :
               h >= nextHandle \/ (Active(c) /\ calls[c].created = h) =>
                   \/ \E object \in objects' : object.handle = h
                   \/ Active(c)' /\ calls'[c].created = h
                   \/ owners'[h].kind \notin Cleaned
    PROVE  OwnersUsed'
<1> SUFFICES ASSUME NEW h \in registered',
                    h < nextHandle, ~ (Active(c) /\ calls[c].created = h)
             PROVE  \/ \E object \in objects' : object.handle = h
                    \/ \E d \in Callers : Active(d)' /\ calls'[d].created = h
                    \/ owners'[h].kind \notin Cleaned
  <2>1. \A h \in registered' : h < nextHandle \/ h >= nextHandle
    BY DEF RegistryInv
  <2> QED
    BY <2>1 DEF OwnersUsed, Active
<1>1. h \in registered /\ h \in DOMAIN owners' /\ owners'[h].kind = owners[h].kind
  BY DEF OwnersStep, RegistryInv
<1>2. CASE \E object \in objects : object.handle = h
  BY <1>2
<1>3. CASE \E d \in Callers : Active(d) /\ calls[d].created = h
  <2>1. PICK d \in Callers : Active(d) /\ calls[d].created = h
    BY <1>3
  <2>2. calls'[d] = calls[d]
    BY <2>1 DEF OthersWait
  <2> QED
    BY <2>1, <2>2 DEF Active
<1>4. CASE owners[h].kind \notin Cleaned
  BY <1>1, <1>4
<1> QED
  BY <1>1, <1>2, <1>3, <1>4 DEF OwnersUsed

LEMMA TokensStayUsed ==
    ASSUME NEW c \in Callers, TokensUsed, OthersWait(c),
           \A t \in DOMAIN tokens' :
               t \notin DOMAIN tokens \/ (Tokened(c) /\ calls[c].token = t)
                   => Tokened(c)' /\ calls'[c].token = t
    PROVE  TokensUsed'
<1> SUFFICES ASSUME NEW t \in DOMAIN tokens', t \in DOMAIN tokens,
                    ~ (Tokened(c) /\ calls[c].token = t)
             PROVE  \E d \in Callers : Tokened(d)' /\ calls'[d].token = t
  BY DEF TokensUsed, Tokened
<1>1. PICK d \in Callers : Tokened(d) /\ calls[d].token = t
  BY DEF TokensUsed
<1>2. calls'[d] = calls[d]
  BY <1>1 DEF OthersWait
<1> QED
  BY <1>1, <1>2 DEF Tokened

LEMMA TokensStillDiffer ==
    ASSUME NEW c \in Callers, TokensDiffer, OthersWait(c), ControlInv,
           \A d \in Callers : CallOK(d),
           Active(c)' => \/ Active(c) /\ calls'[c].token = calls[c].token
                        \/ calls'[c].token = nextToken
    PROVE  TokensDiffer'
<1>1. \A d \in Callers \ {c} : Active(d)' =>
          Active(d) /\ calls'[d].token = calls[d].token
  BY DEF OthersWait, Active
<1>2. \A d \in Callers : Active(d) => calls[d].token # nextToken
  BY IdleOrCall DEF TokenOK, ControlInv
<1>3. ASSUME NEW d \in Callers \ {c}, Active(d)', Active(c)'
      PROVE  calls'[c].token # calls'[d].token
  <2>1. d \in Callers /\ d # c /\ Active(d) /\ calls'[d].token = calls[d].token
    BY <1>1, <1>3
  <2>2. CASE Active(c) /\ calls'[c].token = calls[c].token
    BY <2>1, <2>2 DEF TokensDiffer
  <2>3. CASE calls'[c].token = nextToken
    BY <1>2, <2>1, <2>3
  <2> QED
    BY <1>3, <2>2, <2>3
<1>4. ASSUME NEW d \in Callers \ {c}, NEW e \in Callers \ {c}, d # e, Active(d)', Active(e)'
      PROVE  calls'[d].token # calls'[e].token
  BY <1>1, <1>4 DEF TokensDiffer
<1> QED
  BY <1>3, <1>4 DEF TokensDiffer, Active

-----------------------------------------------------------------------------
(* The step of one caller.                                                 *)

LEMMA CallerStep ==
    ASSUME NEW c \in Callers, RuntimeInv, OthersWait(c), OwnersStep(c), TokensStep(c),
           RegistryInv', ControlInv', CallOK(c)',
           objects \subseteq objects',
           \A o \in objects' \ objects : ObjectOK(o)',
           \A h \in registered' :
               h >= nextHandle \/ (Active(c) /\ calls[c].created = h) =>
                   \/ \E object \in objects' : object.handle = h
                   \/ Active(c)' /\ calls'[c].created = h
                   \/ owners'[h].kind \notin Cleaned,
           \A t \in DOMAIN tokens' :
               t \notin DOMAIN tokens \/ (Tokened(c) /\ calls[c].token = t)
                   => Tokened(c)' /\ calls'[c].token = t,
           Active(c)' => \/ Active(c) /\ calls'[c].token = calls[c].token
                        \/ calls'[c].token = nextToken
    PROVE  RuntimeInv'
<1> USE DEF RuntimeInv
<1>1. \A d \in Callers : CallOK(d)'
  <2>1. ASSUME NEW d \in Callers \ {c} PROVE CallOK(d)'
    BY OthersKept
  <2> QED
    BY <2>1
<1>2. \A o \in objects' : ObjectOK(o)'
  <2>1. ASSUME NEW o \in objects PROVE ObjectOK(o)'
    BY ObjectsKept
  <2> QED
    BY <2>1
<1>3. TokensDiffer'
  BY TokensStillDiffer
<1>4. OwnersUsed /\ TokensUsed
  BY LeaksNothing
<1>5. OwnersUsed'
  BY <1>4, OwnersStayUsed
<1>6. TokensUsed'
  BY <1>4, TokensStayUsed
<1>7. NothingLeaks'
  BY <1>5, <1>6 DEF NothingLeaks, OwnersUsed, TokensUsed, Active, Tokened
<1>8. DOMAIN calls' = Callers
  BY DEF OthersWait
<1> QED
  BY <1>1, <1>2, <1>3, <1>7, <1>8

LEMMA Moved ==
    ASSUME NEW c \in Callers, NEW call, DOMAIN calls = Callers, calls' = Move(c, call)
    PROVE  OthersWait(c) /\ calls'[c] = call
  BY DEF OthersWait, Move

\* A step that leaves the registry, or the tokens, alone.
LEMMA RegistryAlone ==
    ASSUME NEW c, RuntimeInv, UNCHANGED registry
    PROVE  OwnersStep(c) /\ RegistryInv'
<1>1. UNCHANGED registered /\ UNCHANGED owners /\ UNCHANGED nextHandle
  BY DEF registry
<1>2. RegistryInv'
  BY <1>1 DEF RuntimeInv, RegistryInv
<1>3. \A d \in Callers : calls[d].at \in {"waiting", "inside"} =>
          calls[d].handle \in DOMAIN owners
  BY IdleOrCall DEF RuntimeInv, HandleOK, Active
<1>4. nextHandle' >= nextHandle
  BY <1>1 DEF RuntimeInv, RegistryInv
<1> QED
  BY <1>1, <1>2, <1>3, <1>4 DEF OwnersStep

LEMMA ControlAlone ==
    ASSUME NEW c, RuntimeInv, UNCHANGED <<control, signals>>
    PROVE  TokensStep(c) /\ ControlInv'
<1>1. UNCHANGED tokens /\ UNCHANGED cancelled /\ UNCHANGED nextToken /\ UNCHANGED signals
  BY DEF control
<1>2. \A d \in Callers : Tokened(d) => calls[d].token \in DOMAIN tokens
  BY IdleOrCall DEF RuntimeInv, TokenOK
<1>3. ControlInv' /\ nextToken' >= nextToken
  BY <1>1 DEF RuntimeInv, ControlInv
<1> QED
  BY <1>1, <1>2, <1>3 DEF TokensStep

\* What a step makes of the owners before those that nobody refers to leave.
Alike(all, c) ==
    /\ DOMAIN all = DOMAIN owners
    /\ \A h \in DOMAIN owners :
        /\ {"kind", "stamp", "lock", "cache"} \subseteq DOMAIN all[h]
        /\ all[h].kind = owners[h].kind /\ all[h].stamp = owners[h].stamp
        /\ \A d \in Callers \ {c} : owners[h].lock = d => all[h].lock = d

LEMMA SettledOwners ==
    ASSUME NEW all, NEW handles, NEW cs, Settle(all, handles, cs)
    PROVE  /\ registered' = handles /\ calls' = cs
           /\ DOMAIN owners' =
                  {h \in DOMAIN all :
                      \/ h \in handles
                      \/ \E d \in Callers : /\ calls'[d].at \in {"waiting", "inside"}
                                            /\ calls'[d].handle = h}
           /\ \A h \in DOMAIN owners' : owners'[h] = all[h]
  BY DEF Settle, Owners

LEMMA Settled ==
    ASSUME NEW c, RuntimeInv, NEW all, NEW handles, NEW cs, Settle(all, handles, cs),
           OthersWait(c), handles \subseteq registered, UNCHANGED nextHandle, Alike(all, c)
    PROVE  OwnersStep(c) /\ RegistryInv'
<1>0. /\ registered' = handles /\ calls' = cs
      /\ DOMAIN owners' =
             {h \in DOMAIN all :
                 \/ h \in handles
                 \/ \E d \in Callers : /\ calls'[d].at \in {"waiting", "inside"}
                                       /\ calls'[d].handle = h}
      /\ \A h \in DOMAIN owners' : owners'[h] = all[h]
  BY SettledOwners
<1>1. /\ DOMAIN owners' \subseteq DOMAIN owners
      /\ handles \subseteq DOMAIN owners'
  BY <1>0 DEF Alike, RuntimeInv, RegistryInv
<1>2. RegistryInv'
  BY <1>0, <1>1 DEF Alike, RuntimeInv, RegistryInv
<1>3. \A d \in Callers \ {c} : calls[d].at \in {"waiting", "inside"} =>
          calls[d].handle \in DOMAIN owners'
  <2>1. \A d \in Callers \ {c} : calls[d].at \in {"waiting", "inside"} =>
            calls[d].handle \in DOMAIN all
    BY IdleOrCall DEF RuntimeInv, HandleOK, Active, Alike
  <2> QED
    BY <1>0, <2>1 DEF OthersWait
<1>4. nextHandle' >= nextHandle
  BY DEF RuntimeInv, RegistryInv
<1> QED
  BY <1>0, <1>1, <1>2, <1>3, <1>4 DEF OwnersStep, Alike

LEMMA OwnersAlike ==
    ASSUME NEW c, RuntimeInv
    PROVE  Alike(owners, c) /\ Alike(Unlocked(c), c)
  BY DEF Alike, Unlocked, RuntimeInv, RegistryInv

-----------------------------------------------------------------------------
(* The steps.                                                              *)

\* A step that changes only how far the call of c is, or its trouble.
LEMMA PassStep ==
    ASSUME NEW c \in Callers, RuntimeInv, NEW call, CallOK(c)', Active(c),
           calls' = Move(c, call), UNCHANGED <<registry, control, objects, signals>>,
           call.at # "idle", Tokened(c) => call.at # "decoding",
           call.token = calls[c].token,
           call.created = calls[c].created
    PROVE  RuntimeInv'
<1>1. OthersWait(c) /\ calls'[c] = call
  BY Moved DEF RuntimeInv
<1>2. OwnersStep(c) /\ RegistryInv' /\ TokensStep(c) /\ ControlInv'
  BY RegistryAlone, ControlAlone
<1>3. \A h \in registered' : ~ h >= nextHandle
  BY DEF RuntimeInv, RegistryInv, registry
<1> QED
  BY <1>1, <1>2, <1>3, CallerStep DEF Active, Tokened, control

\* The call that an active caller goes on with.
LEMMA Continues ==
    ASSUME NEW c \in Callers, RuntimeInv, Active(c)
    PROVE  /\ calls[c] \in Call /\ TokenOK(c) /\ HandleOK(c) /\ CreatedOK(c)
           /\ calls[c] # Idle
  BY IdleOrCall DEF RuntimeInv

LEMMA BeginKeeps ==
    ASSUME NEW c \in Callers, RuntimeInv,
           NEW op \in {"create", "price", "clear"}, NEW kind \in Kinds,
           NEW plan \in Seq(Batches), NEW handle \in Nat, NEW stamp \in Nat,
           handle < nextHandle,
           op # "create" => /\ handle # 0
                            /\ handle \in DOMAIN owners => owners[handle].stamp = stamp,
           Begin(c, op, kind, plan, handle, stamp)
    PROVE  RuntimeInv'
<1> DEFINE call == [at |-> "begun", op |-> op, kind |-> kind, plan |-> plan,
                    handle |-> handle, stamp |-> stamp, token |-> nextToken,
                    trouble |-> "none", created |-> 0, ok |-> TRUE]
<1>1. /\ calls' = Move(c, call) /\ tokens' = With(tokens, nextToken, "fresh")
      /\ nextToken' = nextToken + 1 /\ UNCHANGED <<registry, cancelled, objects, signals>>
      /\ calls[c].at = "idle"
  BY DEF Begin, FreshToken, At
<1>2. OthersWait(c) /\ calls'[c] = call
  BY <1>1, Moved DEF RuntimeInv
<1>3. OwnersStep(c) /\ RegistryInv'
  BY <1>1, RegistryAlone
<1>4. nextToken \in Nat \ {0} /\ DOMAIN tokens' = DOMAIN tokens \cup {nextToken}
  BY <1>1 DEF With, RuntimeInv, ControlInv
<1>5. ControlInv'
  <2>1. nextToken' \in Nat \ {0} /\ 1 .. nextToken' - 1 = (1 .. nextToken - 1) \cup {nextToken}
    BY <1>1, <1>4
  <2> QED
    BY <1>1, <1>4, <2>1 DEF RuntimeInv, ControlInv
<1>6. TokensStep(c)
  <2>1. \A d \in Callers : Tokened(d) => calls[d].token \in DOMAIN tokens
    BY IdleOrCall DEF RuntimeInv, TokenOK
  <2> QED
    BY <1>1, <1>4, <2>1 DEF TokensStep
<1>7. CallOK(c)'
  <2>1. call \in Call
    BY <1>4 DEF Call, Places
  <2>2. TokenOK(c)'
    BY <1>1, <1>2, <1>4 DEF TokenOK, Tokened, RuntimeInv, ControlInv
  <2>3. UNCHANGED registered /\ UNCHANGED owners /\ UNCHANGED nextHandle
    BY <1>1 DEF registry
  <2>4. 0 < nextHandle /\ 0 \notin DOMAIN owners
    BY DEF RuntimeInv, RegistryInv
  <2>5. HandleOK(c)' /\ CreatedOK(c)'
    BY <1>2, <2>3, <2>4 DEF HandleOK, CreatedOK
  <2> QED
    BY <1>2, <2>1, <2>2, <2>5 DEF CallOK
<1>8. ~ Active(c) /\ ~ Tokened(c) /\ Tokened(c)' /\ calls'[c].token = nextToken
  BY <1>1, <1>2 DEF Active, Tokened
<1>9. \A h \in registered' : ~ h >= nextHandle
  BY <1>1 DEF RuntimeInv, RegistryInv, registry
<1> HIDE DEF call
<1> QED
  BY <1>1, <1>2, <1>3, <1>4, <1>5, <1>6, <1>7, <1>8, <1>9, CallerStep

LEMMA BeginCreateKeeps ==
    ASSUME RuntimeAssumption, NEW c \in Callers, RuntimeInv, NEW kind \in Kinds,
           NEW plan \in Plans, BeginCreate(c, kind, plan)
    PROVE  RuntimeInv'
<1>1. plan \in Seq(Batches) /\ FreshToken \in Nat /\ 0 < nextHandle
  BY DEF RuntimeAssumption, RuntimeInv, RegistryInv, ControlInv, FreshToken
<1> QED
  BY <1>1, BeginKeeps DEF BeginCreate

LEMMA BeginWorkKeeps ==
    ASSUME NEW c \in Callers, RuntimeInv, NEW op \in {"price", "clear"},
           NEW plan \in Seq(Batches), NEW object \in objects,
           BeginWork(c, op, plan, object)
    PROVE  RuntimeInv'
<1>1. ObjectOK(object)
  BY DEF RuntimeInv
<1>2. /\ object.kind \in Kinds /\ object.handle \in Nat /\ object.handle # 0
      /\ object.stamp \in Nat /\ object.handle < nextHandle
      /\ object.handle \in DOMAIN owners => owners[object.handle].stamp = object.stamp
  BY <1>1 DEF ObjectOK
<1> QED
  BY <1>2, BeginKeeps DEF BeginWork

LEMMA ReleasedToken ==
    ASSUME NEW c \in Callers, RuntimeInv, Active(c), Released(calls[c].token),
           UNCHANGED signals
    PROVE  /\ TokensStep(c) /\ ControlInv'
           /\ DOMAIN tokens' = DOMAIN tokens \ {calls[c].token}
<1> DEFINE t == calls[c].token
<1>1. /\ DOMAIN tokens' = DOMAIN tokens \ {t} /\ cancelled' = cancelled \ {t}
      /\ nextToken' = nextToken
  BY DEF Released, Without
<1>2. ControlInv'
  BY <1>1 DEF RuntimeInv, ControlInv
<1>3. \A d \in Callers \ {c} : Tokened(d) => calls[d].token \in DOMAIN tokens'
  <2>1. \A d \in Callers : Tokened(d) => Active(d) /\ calls[d].token \in DOMAIN tokens
    BY IdleOrCall DEF RuntimeInv, TokenOK
  <2> QED
    BY <1>1, <2>1 DEF RuntimeInv, TokensDiffer
<1>4. nextToken' >= nextToken
  BY <1>1 DEF RuntimeInv, ControlInv
<1> QED
  BY <1>1, <1>2, <1>3, <1>4 DEF TokensStep

LEMMA AbandonKeeps ==
    ASSUME NEW c \in Callers, RuntimeInv, Abandon(c)
    PROVE  RuntimeInv'
<1>1. /\ calls' = Move(c, Idle) /\ UNCHANGED <<registry, objects, signals>>
      /\ calls[c].at = "begun" /\ Released(calls[c].token)
  BY DEF Abandon, At
<1>2. OthersWait(c) /\ calls'[c] = Idle
  BY <1>1, Moved DEF RuntimeInv
<1>3. OwnersStep(c) /\ RegistryInv'
  BY <1>1, RegistryAlone
<1>4. Active(c) /\ Tokened(c)
  BY <1>1 DEF Active, Tokened
<1>5. TokensStep(c) /\ ControlInv' /\ DOMAIN tokens' = DOMAIN tokens \ {calls[c].token}
  BY <1>1, <1>4, ReleasedToken
<1>6. calls[c].created = 0
  BY <1>1, <1>4, Continues DEF CreatedOK
<1>7. \A h \in registered' : h # 0 /\ ~ h >= nextHandle
  BY <1>1 DEF RuntimeInv, RegistryInv, registry
<1>8. CallOK(c)' /\ ~ Active(c)'
  BY <1>2 DEF CallOK, Active, Idle
<1> QED
  BY <1>1, <1>2, <1>3, <1>5, <1>6, <1>7, <1>8, CallerStep

LEMMA ClaimKeeps ==
    ASSUME NEW c \in Callers, RuntimeInv, Claim(c)
    PROVE  RuntimeInv'
<1> DEFINE call == [calls[c] EXCEPT !.at = "claimed"]
<1>1. /\ calls' = Move(c, call) /\ calls[c].at = "begun"
      /\ tokens' = [tokens EXCEPT ![calls[c].token] = "running"]
      /\ UNCHANGED <<registry, cancelled, nextToken, objects, signals>>
  BY DEF Claim, At
<1>2. OthersWait(c) /\ calls'[c] = call
  BY <1>1, Moved DEF RuntimeInv
<1>3. OwnersStep(c) /\ RegistryInv'
  BY <1>1, RegistryAlone
<1>4. DOMAIN tokens' = DOMAIN tokens
  BY <1>1
<1>5. ControlInv'
  BY <1>1, <1>4 DEF RuntimeInv, ControlInv
<1>6. TokensStep(c)
  <2>1. \A d \in Callers : Tokened(d) => calls[d].token \in DOMAIN tokens
    BY IdleOrCall DEF RuntimeInv, TokenOK
  <2> QED
    BY <1>1, <1>4, <2>1 DEF TokensStep, RuntimeInv, ControlInv
<1>7. Active(c) /\ Tokened(c) /\ calls[c] \in Call /\ TokenOK(c) /\ HandleOK(c) /\ CreatedOK(c)
  BY <1>1, Continues DEF Active, Tokened
<1>8. /\ call \in Call /\ call.at = "claimed" /\ call.token = calls[c].token
      /\ call.handle = calls[c].handle /\ call.created = calls[c].created
      /\ call.op = calls[c].op /\ call.stamp = calls[c].stamp
      /\ call.kind = calls[c].kind /\ call.trouble = calls[c].trouble
  BY <1>7 DEF Call, Places
<1> HIDE DEF call
<1>9. CallOK(c)'
  <2>1. UNCHANGED registered /\ UNCHANGED owners /\ UNCHANGED nextHandle
    BY <1>1 DEF registry
  <2>2. TokenOK(c)'
    BY <1>1, <1>2, <1>4, <1>7, <1>8 DEF TokenOK
  <2>3. HandleOK(c)' /\ CreatedOK(c)'
    BY <1>1, <1>2, <1>7, <1>8, <2>1 DEF HandleOK, CreatedOK
  <2> QED
    BY <1>2, <1>8, <2>2, <2>3 DEF CallOK
<1>10. \A h \in registered' : ~ h >= nextHandle
  BY <1>1 DEF RuntimeInv, RegistryInv, registry
<1>11. Tokened(c)' /\ Active(c)' /\ calls'[c].token = calls[c].token
       /\ calls'[c].created = calls[c].created
  BY <1>2, <1>8 DEF Tokened, Active
<1> QED
  BY <1>1, <1>2, <1>3, <1>4, <1>5, <1>6, <1>7, <1>9, <1>10, <1>11, CallerStep

\* A lease is lost, or time is up.
LEMMA TroubleKeeps ==
    ASSUME NEW c \in Callers, RuntimeInv, LoseLease(c) \/ Expire(c)
    PROVE  RuntimeInv'
<1>1. PICK trouble \in {"lost", "expired"} :
          calls' = Move(c, [calls[c] EXCEPT !.trouble = trouble])
  BY DEF LoseLease, Expire
<1> DEFINE call == [calls[c] EXCEPT !.trouble = trouble]
<1>2. /\ Active(c) /\ calls[c].trouble = "none"
      /\ UNCHANGED <<registry, control, objects, signals>>
  BY DEF LoseLease, Expire, Active
<1>3. OthersWait(c) /\ calls'[c] = call
  BY <1>1, Moved DEF RuntimeInv
<1>4. calls[c] \in Call /\ TokenOK(c) /\ HandleOK(c) /\ CreatedOK(c)
  BY <1>2, Continues
<1>5. /\ call \in Call /\ call.at = calls[c].at /\ call.token = calls[c].token
      /\ call.handle = calls[c].handle /\ call.created = calls[c].created
      /\ call.op = calls[c].op /\ call.stamp = calls[c].stamp
      /\ call.kind = calls[c].kind /\ call.ok = calls[c].ok
  BY <1>4 DEF Call
<1> HIDE DEF call
<1>6. CallOK(c)'
  <2>1. /\ UNCHANGED registered /\ UNCHANGED owners /\ UNCHANGED nextHandle
        /\ UNCHANGED tokens /\ UNCHANGED cancelled /\ UNCHANGED nextToken /\ UNCHANGED signals
    BY <1>2 DEF registry, control
  <2>2. TokenOK(c)'
    BY <1>2, <1>3, <1>4, <1>5, <2>1 DEF TokenOK, Tokened
  <2>3. HandleOK(c)' /\ CreatedOK(c)'
    BY <1>3, <1>4, <1>5, <2>1 DEF HandleOK, CreatedOK
  <2> QED
    BY <1>3, <1>5, <2>2, <2>3 DEF CallOK
<1> QED
  BY <1>1, <1>2, <1>5, <1>6, PassStep DEF Active, Tokened, call

LEMMA NoticeKeeps ==
    ASSUME NEW c \in Callers, RuntimeInv, Notice(c)
    PROVE  RuntimeInv'
<1> DEFINE call == [calls[c] EXCEPT !.trouble = "noticed"]
<1>1. /\ calls' = Move(c, call) /\ calls[c].at \in Native
      /\ signals' = signals \cup {calls[c].token}
      /\ UNCHANGED <<registry, control, objects>>
  BY DEF Notice, At
<1>2. OthersWait(c) /\ calls'[c] = call
  BY <1>1, Moved DEF RuntimeInv
<1>3. OwnersStep(c) /\ RegistryInv'
  BY <1>1, RegistryAlone
<1>4. Active(c) /\ Tokened(c) /\ calls[c] \in Call /\ TokenOK(c) /\ HandleOK(c) /\ CreatedOK(c)
  BY <1>1, Continues DEF Active, Tokened, Native
<1>5. UNCHANGED tokens /\ UNCHANGED cancelled /\ UNCHANGED nextToken
  BY <1>1 DEF control
<1>6. ControlInv'
  BY <1>1, <1>4, <1>5 DEF RuntimeInv, ControlInv, TokenOK
<1>7. TokensStep(c)
  <2>1. \A d \in Callers : Tokened(d) => calls[d].token \in DOMAIN tokens
    BY IdleOrCall DEF RuntimeInv, TokenOK
  <2>2. \A d \in Callers \ {c} : Active(d) => calls[d].token # calls[c].token
    BY <1>4 DEF RuntimeInv, TokensDiffer
  <2> QED
    BY <1>1, <1>5, <2>1, <2>2 DEF TokensStep, RuntimeInv, ControlInv
<1>8. /\ call \in Call /\ call.at = calls[c].at /\ call.token = calls[c].token
      /\ call.handle = calls[c].handle /\ call.created = calls[c].created
      /\ call.op = calls[c].op /\ call.stamp = calls[c].stamp
      /\ call.kind = calls[c].kind /\ call.ok = calls[c].ok /\ call.trouble = "noticed"
  BY <1>4 DEF Call
<1> HIDE DEF call
<1>9. CallOK(c)'
  <2>1. UNCHANGED registered /\ UNCHANGED owners /\ UNCHANGED nextHandle
    BY <1>1 DEF registry
  <2>2. TokenOK(c)'
    BY <1>2, <1>4, <1>5, <1>8 DEF TokenOK, Tokened
  <2>3. HandleOK(c)' /\ CreatedOK(c)'
    BY <1>2, <1>4, <1>8, <2>1 DEF HandleOK, CreatedOK
  <2> QED
    BY <1>2, <1>8, <2>2, <2>3 DEF CallOK
<1>10. \A h \in registered' : ~ h >= nextHandle
  BY <1>1 DEF RuntimeInv, RegistryInv, registry
<1>11. Tokened(c)' /\ Active(c)' /\ calls'[c].token = calls[c].token
       /\ calls'[c].created = calls[c].created
  BY <1>2, <1>4, <1>8 DEF Tokened, Active
<1> QED
  BY <1>1, <1>2, <1>3, <1>4, <1>5, <1>6, <1>7, <1>9, <1>10, <1>11, CallerStep

\* The next place of a call that has no owner yet, or not touched it.
LEMMA PassKeeps ==
    ASSUME NEW c \in Callers, RuntimeInv, NEW at, Pass(c, at),
           calls[c].at \in {"claimed", "admitted"},
           \/ at = "pricing" /\ calls[c].op = "create"
           \/ at = "admitted" /\ calls[c].op # "create"
           \/ at = "waiting" /\ calls[c].op # "create" /\ calls[c].handle \in registered
    PROVE  RuntimeInv'
<1> DEFINE call == [calls[c] EXCEPT !.at = at]
<1>1. calls' = Move(c, call) /\ UNCHANGED <<registry, control, objects, signals>>
  BY DEF Pass
<1>2. OthersWait(c) /\ calls'[c] = call
  BY <1>1, Moved DEF RuntimeInv
<1>3. /\ Active(c) /\ Tokened(c)
      /\ calls[c] \in Call /\ TokenOK(c) /\ HandleOK(c) /\ CreatedOK(c)
  BY Continues DEF Active, Tokened
<1>4. /\ call \in Call /\ call.at = at /\ call.token = calls[c].token
      /\ call.handle = calls[c].handle /\ call.created = calls[c].created
      /\ call.op = calls[c].op /\ call.stamp = calls[c].stamp
      /\ call.kind = calls[c].kind /\ call.trouble = calls[c].trouble
  BY <1>3 DEF Call, Places
<1> HIDE DEF call
<1>5. CallOK(c)'
  <2>1. /\ UNCHANGED registered /\ UNCHANGED owners /\ UNCHANGED nextHandle
        /\ UNCHANGED tokens /\ UNCHANGED cancelled /\ UNCHANGED nextToken /\ UNCHANGED signals
    BY <1>1 DEF registry, control
  <2>2. TokenOK(c)'
    BY <1>2, <1>3, <1>4, <2>1 DEF TokenOK
  <2>3. registered \subseteq DOMAIN owners /\ calls[c].created = 0
    BY <1>3 DEF RuntimeInv, RegistryInv, CreatedOK
  <2>4. HandleOK(c)'
    BY <1>2, <1>3, <1>4, <2>1, <2>3 DEF HandleOK
  <2>5. CreatedOK(c)'
    BY <1>2, <1>3, <1>4, <2>1, <2>3 DEF CreatedOK
  <2> QED
    BY <1>2, <1>4, <2>2, <2>4, <2>5 DEF CallOK
<1> QED
  BY <1>1, <1>3, <1>4, <1>5, PassStep

\* A call on its way back without a new owner.
LEMMA ReturningOK ==
    ASSUME NEW c \in Callers, RuntimeInv, Active(c), Tokened(c), OwnersStep(c), RegistryInv',
           UNCHANGED <<nextHandle, control, signals>>,
           calls'[c] \in Call, calls'[c].at = "returning",
           calls'[c].token = calls[c].token, calls'[c].handle = calls[c].handle,
           calls'[c].op = calls[c].op, calls'[c].stamp = calls[c].stamp,
           calls'[c].trouble = calls[c].trouble, calls'[c].created = 0,
           calls'[c].op = "create" => ~ calls'[c].ok
    PROVE  CallOK(c)'
<1>1. TokenOK(c) /\ HandleOK(c) /\ calls[c] \in Call
  BY Continues
<1>2. /\ UNCHANGED nextHandle /\ UNCHANGED tokens /\ UNCHANGED cancelled
      /\ UNCHANGED nextToken /\ UNCHANGED signals
  BY DEF control
<1>3. TokenOK(c)'
  BY <1>1, <1>2 DEF TokenOK
<1>4. calls[c].handle \in DOMAIN owners' =>
          /\ calls[c].handle \in DOMAIN owners
          /\ owners'[calls[c].handle].stamp = owners[calls[c].handle].stamp
  BY <1>1 DEF HandleOK, OwnersStep
<1>5. HandleOK(c)'
  BY <1>1, <1>2, <1>4 DEF HandleOK
<1>6. 0 < nextHandle' /\ 0 \notin DOMAIN owners'
  BY DEF RegistryInv
<1>7. CreatedOK(c)'
  BY <1>6 DEF CreatedOK
<1> QED
  BY <1>3, <1>5, <1>7 DEF CallOK

\* A call lets its owner go, or had none.
LEMMA ReturnKeeps ==
    ASSUME NEW c \in Callers, RuntimeInv, Active(c), Tokened(c),
           NEW all, Alike(all, c), NEW call \in Call,
           Settle(all, registered, Move(c, call)),
           UNCHANGED <<nextHandle, control, objects, signals>>,
           call.at = "returning", call.token = calls[c].token,
           call.handle = calls[c].handle, call.op = calls[c].op,
           call.stamp = calls[c].stamp, call.trouble = calls[c].trouble,
           calls[c].created = 0, call.created = 0, call.op = "create" => ~ call.ok
    PROVE  RuntimeInv'
<1>1. registered' = registered /\ calls' = Move(c, call)
  BY SettledOwners
<1>2. OthersWait(c) /\ calls'[c] = call
  BY <1>1, Moved DEF RuntimeInv
<1>3. OwnersStep(c) /\ RegistryInv'
  BY <1>2, Settled
<1>4. TokensStep(c) /\ ControlInv'
  BY ControlAlone
<1>5. CallOK(c)'
  BY <1>2, <1>3, ReturningOK
<1>6. \A h \in registered' : ~ h >= nextHandle /\ h # 0
  BY <1>1 DEF RuntimeInv, RegistryInv
<1>7. Tokened(c)' /\ Active(c)' /\ calls'[c].token = calls[c].token
  BY <1>2 DEF Tokened, Active
<1>8. objects' = objects /\ tokens' = tokens
  BY DEF control
<1> QED
  BY <1>2, <1>3, <1>4, <1>5, <1>6, <1>7, <1>8, CallerStep

\* A call that cannot go on.
LEMMA FailKeeps ==
    ASSUME NEW c \in Callers, RuntimeInv, Fail(c),
           calls[c].at \in {"claimed", "admitted", "pricing", "waiting", "inside"}
    PROVE  RuntimeInv'
<1> DEFINE call == [calls[c] EXCEPT !.at = "returning", !.ok = FALSE]
<1>1. /\ Settle(Unlocked(c), registered, Move(c, call))
      /\ UNCHANGED <<nextHandle, control, objects, signals>>
  BY DEF Fail
<1>2. Active(c) /\ Tokened(c) /\ calls[c] \in Call /\ CreatedOK(c)
  BY Continues DEF Active, Tokened
<1>3. /\ call \in Call /\ call.at = "returning" /\ call.token = calls[c].token
      /\ call.handle = calls[c].handle /\ calls[c].created = 0 /\ call.created = 0
      /\ call.op = calls[c].op /\ call.stamp = calls[c].stamp
      /\ call.trouble = calls[c].trouble /\ ~ call.ok
  BY <1>2 DEF Call, Places, CreatedOK
<1> HIDE DEF call
<1> QED
  BY <1>1, <1>2, <1>3, OwnersAlike, ReturnKeeps

\* A call that has the lock of its owner, or takes it now.
LEMMA InsideKeeps ==
    ASSUME NEW c \in Callers, RuntimeInv, calls[c].at \in {"waiting", "inside"},
           NEW all, Alike(all, c), all[calls[c].handle].lock = c, NEW call \in Call,
           Settle(all, registered, Move(c, call)),
           UNCHANGED <<nextHandle, control, objects, signals>>,
           call.at = "inside", call.token = calls[c].token,
           call.handle = calls[c].handle, call.op = calls[c].op,
           call.stamp = calls[c].stamp, call.trouble = calls[c].trouble,
           call.created = calls[c].created
    PROVE  RuntimeInv'
<1>1. registered' = registered /\ calls' = Move(c, call)
  BY SettledOwners
<1>2. OthersWait(c) /\ calls'[c] = call
  BY <1>1, Moved DEF RuntimeInv
<1>3. OwnersStep(c) /\ RegistryInv'
  BY <1>2, Settled
<1>4. TokensStep(c) /\ ControlInv'
  BY ControlAlone
<1>5. Active(c) /\ Tokened(c) /\ TokenOK(c) /\ HandleOK(c) /\ CreatedOK(c)
  BY Continues DEF Active, Tokened
<1>6. calls[c].handle \in DOMAIN owners' /\ owners'[calls[c].handle] = all[calls[c].handle]
  <2>1. calls[c].handle \in DOMAIN all
    BY <1>5 DEF HandleOK, Alike
  <2>2. /\ DOMAIN owners' =
               {h \in DOMAIN all :
                   \/ h \in registered
                   \/ \E d \in Callers : /\ calls'[d].at \in {"waiting", "inside"}
                                         /\ calls'[d].handle = h}
        /\ \A h \in DOMAIN owners' : owners'[h] = all[h]
    BY SettledOwners
  <2> QED
    BY <1>2, <2>1, <2>2
<1>7. CallOK(c)'
  <2>1. /\ UNCHANGED nextHandle /\ UNCHANGED tokens /\ UNCHANGED cancelled
        /\ UNCHANGED nextToken /\ UNCHANGED signals
    BY DEF control
  <2>2. TokenOK(c)'
    BY <1>2, <1>5, <2>1 DEF TokenOK, Tokened
  <2>3. calls[c].op # "create" /\ calls[c].created = 0
    BY <1>5 DEF HandleOK
  <2>4. HandleOK(c)'
    BY <1>2, <1>5, <1>6, <2>1, <2>3 DEF HandleOK, Alike
  <2>5. 0 < nextHandle' /\ 0 \notin DOMAIN owners'
    BY <1>3 DEF RegistryInv
  <2>6. CreatedOK(c)'
    BY <1>2, <2>3, <2>5 DEF CreatedOK
  <2> QED
    BY <1>2, <2>2, <2>4, <2>6 DEF CallOK
<1>8. \A h \in registered' : ~ h >= nextHandle
  BY <1>1 DEF RuntimeInv, RegistryInv
<1>9. /\ Tokened(c)' /\ Active(c)' /\ calls'[c].token = calls[c].token
      /\ calls'[c].created = calls[c].created
  BY <1>2 DEF Tokened, Active
<1>10. objects' = objects /\ tokens' = tokens
  BY DEF control
<1> QED
  BY <1>2, <1>3, <1>4, <1>5, <1>7, <1>8, <1>9, <1>10, CallerStep

LEMMA PrecheckKeeps ==
    ASSUME NEW c \in Callers, RuntimeInv, Precheck(c)
    PROVE  RuntimeInv'
  BY PassKeeps, FailKeeps DEF Precheck, At

LEMMA AdmitKeeps ==
    ASSUME NEW c \in Callers, RuntimeInv, Admit(c)
    PROVE  RuntimeInv'
  BY PassKeeps, FailKeeps DEF Admit, At

LEMMA LookupKeeps ==
    ASSUME NEW c \in Callers, RuntimeInv, Lookup(c)
    PROVE  RuntimeInv'
<1>1. calls[c].at = "admitted" /\ Active(c)
  BY DEF Lookup, At, Active
<1>2. calls[c].op # "create"
  BY <1>1, Continues DEF HandleOK
<1> QED
  BY <1>1, <1>2, PassKeeps, FailKeeps DEF Lookup

LEMMA EnterKeeps ==
    ASSUME RuntimeAssumption, NEW c \in Callers, RuntimeInv, Enter(c)
    PROVE  RuntimeInv'
<1> DEFINE h == calls[c].handle
           call == [calls[c] EXCEPT !.at = "inside"]
           all == [owners EXCEPT ![h].lock = c]
<1>1. calls[c].at = "waiting"
  BY DEF Enter, At
<1>2. CASE Fail(c)
  BY <1>1, <1>2, FailKeeps
<1>3. CASE ~ Fail(c)
  <2>1. /\ owners[h].lock = NoCaller /\ Settle(all, registered, Move(c, call))
        /\ UNCHANGED <<nextHandle, control, objects, signals>>
    BY <1>3 DEF Enter
  <2>2. calls[c] \in Call /\ h \in DOMAIN owners
    BY <1>1, Continues DEF Active, HandleOK
  <2>3. Alike(all, c) /\ all[h].lock = c
    BY <2>1, <2>2 DEF Alike, RuntimeInv, RegistryInv, RuntimeAssumption
  <2>4. /\ call \in Call /\ call.at = "inside" /\ call.token = calls[c].token
        /\ call.handle = calls[c].handle /\ call.op = calls[c].op
        /\ call.stamp = calls[c].stamp /\ call.trouble = calls[c].trouble
        /\ call.created = calls[c].created
    BY <2>2 DEF Call, Places
  <2> HIDE DEF all, call
  <2> QED
    BY <1>1, <2>1, <2>3, <2>4, InsideKeeps
<1> QED
  BY <1>2, <1>3

\* What happens to the cache does not matter here.
LEMMA CacheAlike ==
    ASSUME NEW c, RuntimeInv, NEW h \in DOMAIN owners, NEW cache
    PROVE  /\ Alike([owners EXCEPT ![h].cache = cache], c)
           /\ [owners EXCEPT ![h].cache = cache][h].lock = owners[h].lock
<1>1. Alike(owners, c)
  BY OwnersAlike
<1> QED
  BY <1>1 DEF Alike

LEMMA FreedAlike ==
    ASSUME NEW c, RuntimeInv, NEW h \in DOMAIN owners, NEW cache
    PROVE  Alike([Unlocked(c) EXCEPT ![h].cache = cache], c)
<1> DEFINE all == Unlocked(c)
<1>1. Alike(all, c)
  BY OwnersAlike
<1> HIDE DEF all
<1>2. Alike([all EXCEPT ![h].cache = cache], c)
  BY <1>1 DEF Alike
<1> QED
  BY <1>2 DEF all

LEMMA PriceBatchKeeps ==
    ASSUME NEW c \in Callers, RuntimeInv, PriceBatch(c)
    PROVE  RuntimeInv'
<1> DEFINE h == calls[c].handle
           keys == Head(calls[c].plan)
           next == [calls[c] EXCEPT !.plan = Tail(@)]
           failed == [calls[c] EXCEPT !.at = "returning", !.ok = FALSE]
           built == Batch(owners[h].cache, keys)
           locked == [owners EXCEPT ![h].cache = built]
           freed == [Unlocked(c) EXCEPT ![h].cache = FailedBatch(@, keys)]
<1>1. calls[c].at = "inside" /\ calls[c].plan # <<>>
  BY DEF PriceBatch, At
<1>2. /\ Active(c) /\ Tokened(c) /\ calls[c] \in Call /\ calls[c].created = 0
      /\ h \in DOMAIN owners /\ owners[h].lock = c /\ calls[c].op # "create"
  BY <1>1, Continues DEF Active, Tokened, HandleOK
<1>3. CASE Fail(c)
  BY <1>1, <1>3, FailKeeps
<1>4. CASE /\ Settle(locked, registered, Move(c, next))
           /\ UNCHANGED <<nextHandle, control, objects, signals>>
  <2>1. Alike(locked, c) /\ locked[h].lock = c
    BY <1>2, CacheAlike
  <2>2. calls[c].plan \in Seq(Batches) /\ Tail(calls[c].plan) \in Seq(Batches)
    BY <1>1, <1>2 DEF Call
  <2>3. /\ next \in Call /\ next.at = "inside" /\ next.token = calls[c].token
        /\ next.handle = calls[c].handle /\ next.op = calls[c].op
        /\ next.stamp = calls[c].stamp /\ next.trouble = calls[c].trouble
        /\ next.created = calls[c].created
    BY <1>1, <1>2, <2>2 DEF Call
  <2> HIDE DEF locked, next
  <2> QED
    BY <1>1, <1>4, <2>1, <2>3, InsideKeeps
<1>5. CASE /\ Settle(freed, registered, Move(c, failed))
           /\ UNCHANGED <<nextHandle, control, objects, signals>>
  <2>1. Alike(freed, c)
    <3> DEFINE cache == FailedBatch(Unlocked(c)[h].cache, keys)
    <3>1. freed = [Unlocked(c) EXCEPT ![h].cache = cache]
      OBVIOUS
    <3> HIDE DEF cache, freed
    <3> QED
      BY <1>2, <3>1, FreedAlike
  <2>2. /\ failed \in Call /\ failed.at = "returning" /\ failed.token = calls[c].token
        /\ failed.handle = calls[c].handle /\ failed.op = calls[c].op
        /\ failed.stamp = calls[c].stamp /\ failed.trouble = calls[c].trouble
        /\ failed.created = 0 /\ ~ failed.ok
    BY <1>2 DEF Call, Places
  <2> HIDE DEF freed, failed
  <2> QED
    BY <1>2, <1>5, <2>1, <2>2, ReturnKeeps
<1> QED
  BY <1>3, <1>4, <1>5 DEF PriceBatch

LEMMA LeaveKeeps ==
    ASSUME NEW c \in Callers, RuntimeInv, Leave(c)
    PROVE  RuntimeInv'
<1> DEFINE h == calls[c].handle
           call == [calls[c] EXCEPT !.at = "returning", !.plan = <<>>]
           freed == [Unlocked(c) EXCEPT
                         ![h].cache = IF calls[c].op = "clear" THEN Clear(@) ELSE @]
<1>1. calls[c].at = "inside"
  BY DEF Leave, At
<1>2. /\ Active(c) /\ Tokened(c) /\ calls[c] \in Call /\ calls[c].created = 0
      /\ h \in DOMAIN owners /\ calls[c].op # "create"
  BY <1>1, Continues DEF Active, Tokened, HandleOK
<1>3. /\ Settle(freed, registered, Move(c, call))
      /\ UNCHANGED <<nextHandle, control, objects, signals>>
  BY DEF Leave
<1>4. Alike(freed, c)
  <2> DEFINE cache == IF calls[c].op = "clear" THEN Clear(Unlocked(c)[h].cache)
                      ELSE Unlocked(c)[h].cache
  <2>1. freed = [Unlocked(c) EXCEPT ![h].cache = cache]
    OBVIOUS
  <2> HIDE DEF cache, freed
  <2> QED
    BY <1>2, <2>1, FreedAlike
<1>5. /\ call \in Call /\ call.at = "returning" /\ call.token = calls[c].token
      /\ call.handle = calls[c].handle /\ call.op = calls[c].op
      /\ call.stamp = calls[c].stamp /\ call.trouble = calls[c].trouble
      /\ call.created = 0
  <2>1. <<>> \in Seq(Batches)
    OBVIOUS
  <2> QED
    BY <1>2, <2>1 DEF Call, Places
<1> HIDE DEF freed, call
<1> QED
  BY <1>2, <1>3, <1>4, <1>5, ReturnKeeps

\* The new owner has a handle that was never given before.
LEMMA RegisterKeeps ==
    ASSUME NEW c \in Callers, RuntimeInv, Register(c)
    PROVE  RuntimeInv'
<1> DEFINE h == nextHandle
           owner == [kind |-> calls[c].kind, stamp |-> calls[c].stamp,
                     cache |-> Priced(EmptyCache, calls[c].plan), lock |-> NoCaller]
           all == With(owners, h, owner)
           call == [calls[c] EXCEPT !.at = "returning", !.plan = <<>>, !.created = h]
<1>1. calls[c].at = "pricing"
  BY DEF Register, At
<1>2. CASE Fail(c)
  BY <1>1, <1>2, FailKeeps
<1>3. CASE ~ Fail(c)
  <2>1. /\ Settle(all, registered \cup {h}, Move(c, call))
        /\ nextHandle' = h + 1 /\ UNCHANGED <<control, objects, signals>>
    BY <1>3 DEF Register, FreshHandle
  <2>2. /\ Active(c) /\ Tokened(c) /\ calls[c] \in Call /\ calls[c].op = "create"
        /\ TokenOK(c) /\ HandleOK(c)
    BY <1>1, Continues DEF Active, Tokened, CreatedOK
  <2>3. h \in Nat \ {0} /\ h \notin DOMAIN owners /\ DOMAIN owners \subseteq 1 .. h - 1
    BY DEF RuntimeInv, RegistryInv
  <2>4. /\ DOMAIN all = DOMAIN owners \cup {h} /\ all[h] = owner
        /\ \A x \in DOMAIN owners : all[x] = owners[x]
    BY <2>3 DEF With
  <2>5. /\ call \in Call /\ call.at = "returning" /\ call.token = calls[c].token
        /\ call.handle = calls[c].handle /\ call.op = calls[c].op /\ call.kind = calls[c].kind
        /\ call.stamp = calls[c].stamp /\ call.trouble = calls[c].trouble
        /\ call.created = h
    <3>1. <<>> \in Seq(Batches)
      OBVIOUS
    <3> QED
      BY <2>2, <2>3, <3>1 DEF Call, Places
  <2>6. /\ owner.kind = calls[c].kind /\ owner.stamp = calls[c].stamp
        /\ {"kind", "stamp", "lock", "cache"} \subseteq DOMAIN owner
    OBVIOUS
  <2> HIDE DEF owner, all, call
  <2>7. /\ registered' = registered \cup {h} /\ calls' = Move(c, call)
        /\ DOMAIN owners' =
               {x \in DOMAIN all :
                   \/ x \in registered \cup {h}
                   \/ \E d \in Callers : /\ calls'[d].at \in {"waiting", "inside"}
                                         /\ calls'[d].handle = x}
        /\ \A x \in DOMAIN owners' : owners'[x] = all[x]
    BY <2>1, SettledOwners
  <2>8. OthersWait(c) /\ calls'[c] = call
    BY <2>7, Moved DEF RuntimeInv
  <2>9. /\ DOMAIN owners' \subseteq DOMAIN owners \cup {h} /\ h \in DOMAIN owners'
        /\ registered' \subseteq DOMAIN owners'
    BY <2>4, <2>7 DEF RuntimeInv, RegistryInv
  <2>10. RegistryInv'
    <3>1. nextHandle' \in Nat \ {0} /\ 1 .. nextHandle' - 1 = (1 .. h - 1) \cup {h}
      BY <2>1, <2>3
    <3>2. \A x \in DOMAIN owners' : {"kind", "stamp", "lock", "cache"} \subseteq DOMAIN owners'[x]
      BY <2>4, <2>6, <2>7, <2>9 DEF RuntimeInv, RegistryInv
    <3> QED
      BY <2>3, <2>9, <3>1, <3>2 DEF RegistryInv
  <2>11. OwnersStep(c)
    <3>1. \A d \in Callers \ {c} : calls[d].at \in {"waiting", "inside"} =>
              calls[d].handle \in DOMAIN owners'
      <4>1. \A d \in Callers \ {c} : calls[d].at \in {"waiting", "inside"} =>
                calls[d].handle \in DOMAIN all
        BY <2>4, IdleOrCall DEF RuntimeInv, HandleOK, Active
      <4> QED
        BY <2>7, <2>8, <4>1 DEF OthersWait
    <3>2. nextHandle' >= nextHandle /\ \A x \in DOMAIN owners' \cup registered' : x < h => x # h
      BY <2>1, <2>3, <2>9
    <3> QED
      BY <2>4, <2>7, <2>9, <3>1, <3>2 DEF OwnersStep
  <2>12. TokensStep(c) /\ ControlInv'
    BY <2>1, ControlAlone
  <2>13. CallOK(c)'
    <3>1. /\ UNCHANGED tokens /\ UNCHANGED cancelled /\ UNCHANGED nextToken /\ UNCHANGED signals
      BY <2>1 DEF control
    <3>2. TokenOK(c)'
      BY <2>2, <2>5, <2>8, <3>1 DEF TokenOK
    <3>3. calls[c].handle \in Nat /\ calls[c].handle < nextHandle' /\ h < nextHandle'
      BY <2>1, <2>2, <2>3 DEF HandleOK, Call
    <3>4. HandleOK(c)'
      BY <2>2, <2>5, <2>8, <3>3 DEF HandleOK
    <3>5. owners'[h].kind = calls[c].kind /\ owners'[h].stamp = calls[c].stamp
      BY <2>4, <2>6, <2>7, <2>9
    <3>6. CreatedOK(c)'
      BY <2>3, <2>5, <2>8, <3>3, <3>5 DEF CreatedOK
    <3> QED
      BY <2>5, <2>8, <3>2, <3>4, <3>6 DEF CallOK
  <2>14. calls[c].created = 0 /\ \A x \in registered' : x # 0 /\ (x >= nextHandle => x = h)
    <3>1. calls[c].created = 0
      BY <1>1, <2>2, Continues DEF CreatedOK
    <3>2. \A x \in registered' : x \in 1 .. h - 1 \/ x = h
      BY <2>3, <2>7 DEF RuntimeInv, RegistryInv
    <3> QED
      BY <2>3, <3>1, <3>2
  <2>15. /\ Tokened(c)' /\ Active(c)' /\ calls'[c].token = calls[c].token
         /\ calls'[c].created = h
    BY <2>5, <2>8 DEF Tokened, Active
  <2>16. objects' = objects /\ tokens' = tokens
    BY <2>1 DEF control
  <2> QED
    BY <2>2, <2>8, <2>10, <2>11, <2>12, <2>13, <2>14, <2>15, <2>16, CallerStep
<1> QED
  BY <1>2, <1>3

\* The last checks of the native call.
LEMMA FinishKeeps ==
    ASSUME NEW c \in Callers, RuntimeInv, Finish(c)
    PROVE  RuntimeInv'
<1> DEFINE ok == calls[c].ok /\ Check(c)
           call == [calls[c] EXCEPT !.at = "returned", !.ok = ok]
           handles == HandlesAfter(c, ok)
<1>1. /\ calls[c].at = "returning" /\ Settle(owners, handles, Move(c, call))
      /\ tokens' = [tokens EXCEPT ![calls[c].token] = "finished"]
      /\ UNCHANGED <<nextHandle, cancelled, nextToken, objects, signals>>
  BY DEF Finish, At
<1>2. /\ Active(c) /\ Tokened(c) /\ calls[c] \in Call
      /\ TokenOK(c) /\ HandleOK(c) /\ CreatedOK(c)
  BY <1>1, Continues DEF Active, Tokened
<1>3. /\ ok \in BOOLEAN /\ (ok => calls[c].ok)
      /\ handles \subseteq registered /\ (~ ok => calls[c].created \notin handles)
  BY <1>2 DEF Call, Check, HandlesAfter
<1> HIDE DEF ok, handles
<1>4. /\ call \in Call /\ call.at = "returned" /\ call.token = calls[c].token
      /\ call.handle = calls[c].handle /\ call.op = calls[c].op /\ call.kind = calls[c].kind
      /\ call.stamp = calls[c].stamp /\ call.trouble = calls[c].trouble
      /\ call.created = calls[c].created /\ call.ok = ok
  BY <1>2, <1>3 DEF Call, Places
<1> HIDE DEF call
<1>5. registered' = handles /\ calls' = Move(c, call)
  BY <1>1, SettledOwners
<1>6. OthersWait(c) /\ calls'[c] = call
  BY <1>5, Moved DEF RuntimeInv
<1>7. OwnersStep(c) /\ RegistryInv'
  BY <1>1, <1>3, <1>6, OwnersAlike, Settled
<1>8. DOMAIN tokens' = DOMAIN tokens
  BY <1>1
<1>9. ControlInv'
  BY <1>1, <1>8 DEF RuntimeInv, ControlInv
<1>10. TokensStep(c)
  <2>1. \A d \in Callers : Tokened(d) => calls[d].token \in DOMAIN tokens
    BY IdleOrCall DEF RuntimeInv, TokenOK
  <2> QED
    BY <1>1, <1>8, <2>1 DEF TokensStep, RuntimeInv, ControlInv
<1>11. CallOK(c)'
  <2>1. TokenOK(c)'
    BY <1>1, <1>2, <1>4, <1>6, <1>8 DEF TokenOK
  <2>2. HandleOK(c)'
    <3>1. calls[c].handle \in DOMAIN owners' =>
              /\ calls[c].handle \in DOMAIN owners
              /\ owners'[calls[c].handle].stamp = owners[calls[c].handle].stamp
      BY <1>2, <1>7 DEF HandleOK, OwnersStep
    <3> QED
      BY <1>1, <1>2, <1>4, <1>6, <3>1 DEF HandleOK
  <2>3. CreatedOK(c)'
    <3>1. calls[c].created \in DOMAIN owners' =>
              /\ calls[c].created \in DOMAIN owners
              /\ owners'[calls[c].created].kind = owners[calls[c].created].kind
              /\ owners'[calls[c].created].stamp = owners[calls[c].created].stamp
      BY <1>2, <1>7 DEF CreatedOK, OwnersStep
    <3> QED
      BY <1>1, <1>2, <1>3, <1>4, <1>5, <1>6, <3>1 DEF CreatedOK
  <2> QED
    BY <1>4, <1>6, <2>1, <2>2, <2>3 DEF CallOK
<1>12. \A h \in registered' : ~ h >= nextHandle
  BY <1>3, <1>5 DEF RuntimeInv, RegistryInv
<1>13. /\ Tokened(c)' /\ Active(c)' /\ calls'[c].token = calls[c].token
       /\ calls'[c].created = calls[c].created
  BY <1>4, <1>6 DEF Tokened, Active
<1> QED
  BY <1>1, <1>2, <1>6, <1>7, <1>8, <1>9, <1>10, <1>11, <1>12, <1>13, CallerStep

\* The owner that c created is gone, or its kind is not cleaned up.
LEMMA CleanedAway ==
    ASSUME NEW c \in Callers, RuntimeInv, Active(c),
           calls[c].at \in {"returned", "decoding"}
    PROVE  /\ CleanedUp(c) \subseteq registered
           /\ \A h \in CleanedUp(c) : calls[c].created = h => owners[h].kind \notin Cleaned
<1>1. calls[c] \in Call /\ CreatedOK(c) /\ HandleOK(c)
  BY Continues
<1>2. \A h \in registered : h \in DOMAIN owners /\ h # 0
  BY DEF RuntimeInv, RegistryInv
<1> QED
  BY <1>1, <1>2 DEF CleanedUp, CreatedOK, HandleOK

\* The caller is done, and no object is made of what it created.
LEMMA CleanedKeeps ==
    ASSUME NEW c \in Callers, RuntimeInv, Active(c),
           calls[c].at \in {"returned", "decoding"},
           Settle(owners, CleanedUp(c), Move(c, Idle)),
           UNCHANGED <<nextHandle, objects>>, TokensStep(c), ControlInv',
           DOMAIN tokens' = DOMAIN tokens \ {calls[c].token} \/ (tokens' = tokens /\ ~ Tokened(c))
    PROVE  RuntimeInv'
<1>1. registered' = CleanedUp(c) /\ calls' = Move(c, Idle)
  BY SettledOwners
<1>2. OthersWait(c) /\ calls'[c] = Idle
  BY <1>1, Moved DEF RuntimeInv
<1>3. /\ CleanedUp(c) \subseteq registered
      /\ \A h \in CleanedUp(c) : calls[c].created = h => owners[h].kind \notin Cleaned
  BY CleanedAway
<1>4. OwnersStep(c) /\ RegistryInv'
  BY <1>2, <1>3, OwnersAlike, Settled
<1>5. CallOK(c)' /\ ~ Active(c)'
  BY <1>2 DEF CallOK, Active, Idle
<1>6. \A h \in registered' : /\ ~ h >= nextHandle
                             /\ owners'[h].kind = owners[h].kind
  <2>1. \A h \in registered' : h \in registered /\ h \in DOMAIN owners' /\ h < nextHandle
    BY <1>1, <1>3, <1>4 DEF RuntimeInv, RegistryInv
  <2>2. \A h \in registered' : ~ h >= nextHandle
    BY <2>1 DEF RuntimeInv, RegistryInv
  <2> QED
    BY <1>4, <2>1, <2>2 DEF OwnersStep
<1> QED
  BY <1>1, <1>2, <1>3, <1>4, <1>5, <1>6, CallerStep

LEMMA ReceiveKeeps ==
    ASSUME NEW c \in Callers, RuntimeInv, Receive(c)
    PROVE  RuntimeInv'
<1>1. /\ calls[c].at = "returned" /\ Released(calls[c].token)
      /\ UNCHANGED <<nextHandle, objects, signals>>
  BY DEF Receive, At
<1>2. /\ Active(c) /\ Tokened(c) /\ calls[c] \in Call
      /\ TokenOK(c) /\ HandleOK(c) /\ CreatedOK(c)
  BY <1>1, Continues DEF Active, Tokened
<1>3. TokensStep(c) /\ ControlInv' /\ DOMAIN tokens' = DOMAIN tokens \ {calls[c].token}
  BY <1>1, <1>2, ReleasedToken
<1>4. CASE calls[c].trouble = "none"
  <2> DEFINE call == [calls[c] EXCEPT !.at = "decoding"]
  <2>1. Settle(owners, registered, Move(c, call))
    BY <1>4 DEF Receive
  <2>2. /\ call \in Call /\ call.at = "decoding" /\ call.token = calls[c].token
        /\ call.handle = calls[c].handle /\ call.op = calls[c].op /\ call.kind = calls[c].kind
        /\ call.stamp = calls[c].stamp /\ call.trouble = calls[c].trouble
        /\ call.created = calls[c].created /\ call.ok = calls[c].ok
    BY <1>2 DEF Call, Places
  <2> HIDE DEF call
  <2>3. registered' = registered /\ calls' = Move(c, call)
    BY <2>1, SettledOwners
  <2>4. OthersWait(c) /\ calls'[c] = call
    BY <2>3, Moved DEF RuntimeInv
  <2>5. OwnersStep(c) /\ RegistryInv'
    BY <1>1, <2>1, <2>4, OwnersAlike, Settled
  <2>6. TokenOK(c)'
    BY <1>1, <1>2, <2>2, <2>4 DEF TokenOK, Tokened, Released
  <2>7. HandleOK(c)'
    <3>1. calls[c].handle \in DOMAIN owners' =>
              /\ calls[c].handle \in DOMAIN owners
              /\ owners'[calls[c].handle].stamp = owners[calls[c].handle].stamp
      BY <1>2, <2>5 DEF HandleOK, OwnersStep
    <3> QED
      BY <1>1, <1>2, <2>2, <2>4, <3>1 DEF HandleOK
  <2>8. CreatedOK(c)'
    <3>1. calls[c].created \in DOMAIN owners' =>
              /\ calls[c].created \in DOMAIN owners
              /\ owners'[calls[c].created].kind = owners[calls[c].created].kind
              /\ owners'[calls[c].created].stamp = owners[calls[c].created].stamp
      BY <1>2, <2>5 DEF CreatedOK, OwnersStep
    <3> QED
      BY <1>1, <1>2, <2>2, <2>3, <2>4, <3>1 DEF CreatedOK
  <2>9. CallOK(c)'
    BY <2>2, <2>4, <2>6, <2>7, <2>8 DEF CallOK
  <2>10. \A h \in registered' : ~ h >= nextHandle
    BY <2>3 DEF RuntimeInv, RegistryInv
  <2>11. /\ Active(c)' /\ calls'[c].token = calls[c].token
         /\ calls'[c].created = calls[c].created
    BY <2>2, <2>4 DEF Active
  <2> QED
    BY <1>1, <1>2, <1>3, <2>4, <2>5, <2>9, <2>10, <2>11, CallerStep
<1>5. CASE calls[c].trouble # "none"
  <2>1. Settle(owners, CleanedUp(c), Move(c, Idle))
    BY <1>5 DEF Receive
  <2> QED
    BY <1>1, <1>2, <1>3, <2>1, CleanedKeeps
<1> QED
  BY <1>4, <1>5

LEMMA DecodeKeeps ==
    ASSUME NEW c \in Callers, RuntimeInv, Decode(c)
    PROVE  RuntimeInv'
<1>1. calls[c].at = "decoding" /\ UNCHANGED <<nextHandle, control, signals>>
  BY DEF Decode, At
<1>2. /\ Active(c) /\ ~ Tokened(c) /\ calls[c] \in Call
      /\ TokenOK(c) /\ HandleOK(c) /\ CreatedOK(c)
  BY <1>1, Continues DEF Active, Tokened
<1>3. TokensStep(c) /\ ControlInv' /\ tokens' = tokens
  BY <1>1, ControlAlone DEF control
<1>4. CASE calls[c].ok /\ calls[c].trouble # "none"
  <2>1. Settle(owners, CleanedUp(c), Move(c, Idle)) /\ objects' = objects
    BY <1>4 DEF Decode
  <2> QED
    BY <1>1, <1>2, <1>3, <2>1, CleanedKeeps
<1>5. CASE ~ (calls[c].ok /\ calls[c].trouble # "none")
  <2>0. PICK new : new = [handle |-> calls[c].created, kind |-> calls[c].kind,
                           stamp |-> calls[c].stamp]
    OBVIOUS
  <2> DEFINE made == calls[c].ok /\ calls[c].op = "create"
  <2>1. /\ Settle(owners, registered, Move(c, Idle))
        /\ objects' = IF made THEN objects \cup {new} ELSE objects
    BY <1>5, <2>0 DEF Decode
  <2>2. registered' = registered /\ calls' = Move(c, Idle)
    BY <2>1, SettledOwners
  <2>3. OthersWait(c) /\ calls'[c] = Idle
    BY <2>2, Moved DEF RuntimeInv
  <2>4. OwnersStep(c) /\ RegistryInv'
    BY <1>1, <2>1, <2>3, OwnersAlike, Settled
  <2>5. CallOK(c)' /\ ~ Active(c)'
    BY <2>3 DEF CallOK, Active, Idle
  <2>6. made => calls[c].created # 0 /\ calls[c].created < nextHandle /\ calls[c].created \in Nat
    BY <1>1, <1>2 DEF CreatedOK, Call
  <2>7. made => ObjectOK(new)'
    <3>1. calls[c].created \in DOMAIN owners' =>
              /\ calls[c].created \in DOMAIN owners
              /\ owners'[calls[c].created].stamp = owners[calls[c].created].stamp
      BY <1>2, <2>4 DEF CreatedOK, OwnersStep
    <3>2. /\ new.handle = calls[c].created /\ new.stamp = calls[c].stamp
          /\ calls[c].kind \in Kinds /\ calls[c].stamp \in Nat
      BY <1>2, <2>0 DEF Call
    <3>3. made => new \in [handle : Nat \ {0}, kind : Kinds, stamp : Nat]
      BY <2>0, <2>6, <3>2
    <3> QED
      BY <1>1, <1>2, <2>6, <3>1, <3>2, <3>3 DEF ObjectOK, CreatedOK
  <2>8. \A h \in registered' : /\ ~ h >= nextHandle
                               /\ calls[c].created = h => made
    <3>1. \A h \in registered : h # 0 /\ ~ h >= nextHandle
      BY DEF RuntimeInv, RegistryInv
    <3>2. calls[c].created \in registered => made
      BY <1>1, <1>2, <3>1 DEF CreatedOK, HandleOK, Call
    <3> QED
      BY <2>2, <3>1, <3>2
  <2>9. made => new.handle = calls[c].created /\ new \in objects'
    BY <2>0, <2>1
  <2>10. objects \subseteq objects' /\ \A o \in objects' \ objects : made /\ o = new
    BY <2>1
  <2> HIDE DEF made
  <2>11. \A h \in registered' :
             h >= nextHandle \/ (Active(c) /\ calls[c].created = h) =>
                 \E object \in objects' : object.handle = h
    BY <2>8, <2>9
  <2>12. \A o \in objects' \ objects : ObjectOK(o)'
    BY <2>7, <2>10
  <2> QED
    BY <1>2, <1>3, <2>3, <2>4, <2>5, <2>10, <2>11, <2>12, CallerStep
<1> QED
  BY <1>4, <1>5

\* The object leaves with its handle; a call that has the owner goes on.
LEMMA CloseKeeps ==
    ASSUME RuntimeAssumption, RuntimeInv, NEW object \in objects, Close(object)
    PROVE  RuntimeInv'
<1>1. /\ objects' = objects \ {object}
      /\ Settle(owners, registered \ {object.handle}, calls)
      /\ UNCHANGED <<nextHandle, control, signals>>
  BY DEF Close
<1>2. registered' = registered \ {object.handle} /\ calls' = calls
  BY <1>1, SettledOwners
<1>3. OthersWait(NoCaller) /\ \A d \in Callers : d \in Callers \ {NoCaller}
  BY <1>2 DEF OthersWait, RuntimeInv, RuntimeAssumption
<1>4. OwnersStep(NoCaller) /\ RegistryInv'
  BY <1>1, <1>3, OwnersAlike, Settled
<1>5. TokensStep(NoCaller) /\ ControlInv' /\ tokens' = tokens
  BY <1>1, ControlAlone DEF control
<1>6. \A d \in Callers : CallOK(d)'
  BY <1>3, <1>4, <1>5, OthersKept DEF RuntimeInv
<1>7. \A o \in objects' : ObjectOK(o)'
  BY <1>1, <1>4, ObjectsKept DEF RuntimeInv
<1>8. TokensDiffer' /\ DOMAIN calls' = Callers
  BY <1>2 DEF RuntimeInv, TokensDiffer, Active
<1>9. OwnersUsed'
  <2> SUFFICES ASSUME NEW h \in registered'
               PROVE  \/ \E o \in objects' : o.handle = h
                      \/ \E d \in Callers : Active(d)' /\ calls'[d].created = h
                      \/ owners'[h].kind \notin Cleaned
    BY DEF OwnersUsed, Active
  <2>1. h \in registered /\ h # object.handle /\ h \in DOMAIN owners'
    BY <1>2, <1>4 DEF RegistryInv
  <2>2. h < nextHandle
    BY <2>1 DEF RuntimeInv, RegistryInv
  <2>3. owners'[h].kind = owners[h].kind
    BY <1>4, <2>1, <2>2 DEF OwnersStep
  <2>4. OwnersUsed
    BY LeaksNothing DEF RuntimeInv
  <2> QED
    BY <1>1, <1>2, <2>1, <2>3, <2>4 DEF OwnersUsed, Active
<1>10. TokensUsed'
  <2>1. TokensUsed
    BY LeaksNothing DEF RuntimeInv
  <2> QED
    BY <1>2, <1>5, <2>1 DEF TokensUsed, Tokened
<1>11. NothingLeaks'
  BY <1>9, <1>10 DEF NothingLeaks, OwnersUsed, TokensUsed, Active, Tokened
<1> QED
  BY <1>4, <1>5, <1>6, <1>7, <1>8, <1>11 DEF RuntimeInv

\* Whoever has the token has noticed it himself.
LEMMA SignalKeeps ==
    ASSUME RuntimeAssumption, RuntimeInv, NEW t \in signals, Signal(t)
    PROVE  RuntimeInv'
<1>1. /\ signals' \subseteq signals /\ cancelled' \subseteq cancelled \cup {t}
      /\ t \in cancelled' => t \in cancelled \cup DOMAIN tokens
      /\ UNCHANGED <<registry, tokens, nextToken, calls, objects>>
  BY DEF Signal
<1>2. OthersWait(NoCaller) /\ \A d \in Callers : d \in Callers \ {NoCaller}
  BY <1>1 DEF OthersWait, RuntimeInv, RuntimeAssumption
<1>3. OwnersStep(NoCaller) /\ RegistryInv'
  BY <1>1, RegistryAlone
<1>4. ControlInv'
  BY <1>1 DEF RuntimeInv, ControlInv
<1>5. TokensStep(NoCaller)
  <2>1. \A d \in Callers : Tokened(d) => calls[d].token \in DOMAIN tokens
    BY IdleOrCall DEF RuntimeInv, TokenOK
  <2>2. signals' \cup cancelled' \subseteq signals \cup cancelled
    BY <1>1
  <2>3. nextToken' >= nextToken
    BY <1>1 DEF RuntimeInv, ControlInv
  <2> QED
    BY <1>1, <2>1, <2>2, <2>3 DEF TokensStep
<1>6. \A d \in Callers : CallOK(d)'
  BY <1>2, <1>3, <1>4, <1>5, OthersKept DEF RuntimeInv
<1>7. \A o \in objects' : ObjectOK(o)'
  BY <1>1, <1>3, ObjectsKept DEF RuntimeInv
<1>8. TokensDiffer' /\ NothingLeaks' /\ DOMAIN calls' = Callers
  BY <1>1 DEF RuntimeInv, TokensDiffer, Active, NothingLeaks, registry
<1> QED
  BY <1>3, <1>4, <1>6, <1>7, <1>8 DEF RuntimeInv

-----------------------------------------------------------------------------
(* The theorems.                                                           *)

LEMMA RuntimeStarts ==
    ASSUME RuntimeInit
    PROVE  RuntimeInv
<1>1. /\ registered = {} /\ owners = Nothing /\ nextHandle = 1 /\ tokens = Nothing
      /\ cancelled = {} /\ nextToken = 1 /\ calls = [c \in Callers |-> Idle]
      /\ objects = {} /\ signals = {}
  BY DEF RuntimeInit
<1>2. DOMAIN owners = {} /\ DOMAIN tokens = {}
  BY <1>1 DEF Nothing
<1>3. RegistryInv /\ ControlInv
  BY <1>1, <1>2 DEF RegistryInv, ControlInv
<1>4. \A c \in Callers : CallOK(c) /\ ~ Active(c)
  BY <1>1 DEF CallOK, Active, Idle
<1>5. NothingLeaks /\ TokensDiffer
  BY <1>1, <1>2, <1>4 DEF NothingLeaks, TokensDiffer
<1> QED
  BY <1>1, <1>3, <1>4, <1>5 DEF RuntimeInv

LEMMA RuntimeStep ==
    ASSUME RuntimeAssumption, RuntimeInv, [RuntimeNext]_vars
    PROVE  RuntimeInv'
<1>1. CASE UNCHANGED vars
  BY <1>1 DEF RuntimeInv, RegistryInv, ControlInv, ObjectOK, CallOK, TokenOK, HandleOK,
              CreatedOK, TokensDiffer, NothingLeaks, Active, Tokened, vars, registry, control
<1>2. ASSUME NEW c \in Callers, NEW kind \in Kinds, NEW plan \in Plans,
             BeginCreate(c, kind, plan)
      PROVE  RuntimeInv'
  BY <1>2, BeginCreateKeeps
<1>3. ASSUME NEW c \in Callers, NEW object \in objects, NEW plan \in Plans,
             BeginWork(c, "price", plan, object)
      PROVE  RuntimeInv'
  <2>1. plan \in Seq(Batches)
    BY DEF RuntimeAssumption
  <2> QED
    BY <1>3, <2>1, BeginWorkKeeps
<1>4. ASSUME NEW c \in Callers, NEW object \in objects, BeginWork(c, "clear", <<>>, object)
      PROVE  RuntimeInv'
  <2>1. <<>> \in Seq(Batches)
    OBVIOUS
  <2> QED
    BY <1>4, <2>1, BeginWorkKeeps
<1>5. ASSUME NEW c \in Callers,
             \/ Abandon(c) \/ Claim(c) \/ Notice(c) \/ LoseLease(c) \/ Expire(c)
      PROVE  RuntimeInv'
  BY <1>5, AbandonKeeps, ClaimKeeps, NoticeKeeps, TroubleKeeps
<1>6. ASSUME NEW c \in Callers,
             \/ Precheck(c) \/ Register(c) \/ FailPricing(c)
             \/ Admit(c) \/ Lookup(c) \/ Enter(c) \/ PriceBatch(c) \/ Leave(c)
      PROVE  RuntimeInv'
  <2>1. CASE FailPricing(c)
    BY <2>1, FailKeeps DEF FailPricing, At
  <2> QED
    BY <1>6, <2>1, PrecheckKeeps, RegisterKeeps, AdmitKeeps, LookupKeeps, EnterKeeps,
       PriceBatchKeeps, LeaveKeeps
<1>7. ASSUME NEW c \in Callers, Finish(c) \/ Receive(c) \/ Decode(c)
      PROVE  RuntimeInv'
  BY <1>7, FinishKeeps, ReceiveKeeps, DecodeKeeps
<1>8. ASSUME NEW t \in signals, Signal(t) PROVE RuntimeInv'
  BY <1>8, SignalKeeps
<1>9. ASSUME NEW object \in objects, Close(object) PROVE RuntimeInv'
  BY <1>9, CloseKeeps
<1> QED
  BY <1>1, <1>2, <1>3, <1>4, <1>5, <1>6, <1>7, <1>8, <1>9 DEF RuntimeNext

LEMMA RuntimeInvariant == RuntimeSpec => []RuntimeInv
<1>1. RuntimeInit => RuntimeInv
  BY RuntimeStarts
<1>2. RuntimeInv /\ [RuntimeNext]_vars => RuntimeInv'
  BY RuntimeAssumption, RuntimeStep
<1> QED
  BY <1>1, <1>2, PTL DEF RuntimeSpec

\* An error, a late cancellation, a time-out or a lease lost on the way back
\* leaves no owner in the registry that nobody has, of a kind that the clean-up
\* knows, and no token without its call.
THEOREM RuntimeLeaksNothing == RuntimeSpec => []NothingLeaks
<1>1. RuntimeInv => NothingLeaks
  BY DEF RuntimeInv
<1> QED
  BY <1>1, RuntimeInvariant, PTL

\* A signal that comes late, even after the call it was meant for, cancels no
\* other call, because the numbers of tokens are not given again.
THEOREM SignalsHitTheirCall == RuntimeSpec => []SignalsMeantForIt
<1>1. RuntimeInv => SignalsMeantForIt
  <2> SUFFICES ASSUME RuntimeInv, NEW c \in Callers,
                      calls[c].at \notin {"idle", "decoding"}, calls[c].token \in cancelled
               PROVE  calls[c].trouble = "noticed"
    BY DEF SignalsMeantForIt
  <2>1. TokenOK(c)
    BY Continues DEF Active
  <2> QED
    BY <2>1 DEF TokenOK
<1> QED
  BY <1>1, RuntimeInvariant, PTL

\* A call that is pricing holds the lock of the very owner its object was made
\* with, whatever was closed and created since, because the numbers of handles
\* are not given again and a call keeps its owner.
THEOREM CallsWorkOnTheirOwner == RuntimeSpec => []WorksOnItsOwner
<1>1. RuntimeInv => WorksOnItsOwner
  <2> SUFFICES ASSUME RuntimeInv, NEW c \in Callers, calls[c].at = "inside"
               PROVE  /\ owners[calls[c].handle].lock = c
                      /\ owners[calls[c].handle].stamp = calls[c].stamp
    BY DEF WorksOnItsOwner, At
  <2>1. HandleOK(c)
    BY Continues DEF Active
  <2> QED
    BY <2>1 DEF HandleOK
<1> QED
  BY <1>1, RuntimeInvariant, PTL

-----------------------------------------------------------------------------
(* The caches.                                                             *)

Pricings(c, keys) ==
    CHOOSE g : g = [s \in SUBSET DOMAIN keys |->
        IF s = {} THEN c ELSE Batch(g[s \ {Max(s)}], keys[Max(s)])]

LEMMA PricedIs ==
    ASSUME NEW c, NEW keys PROVE Priced(c, keys) = Pricings(c, keys)[DOMAIN keys]
  BY Zenon DEF Priced, Pricings, FoldLeft, MapThenFoldSet

LEMMA PricedIsGood ==
    ASSUME CacheAssumption, ParentsFirst, NEW c \in GoodCaches, NEW keys \in Seq(Batches)
    PROVE  Priced(c, keys) \in GoodCaches
<1> DEFINE D == DOMAIN keys
           n == Len(keys)
           V == GoodCaches
           base == c
           pick == MaxOf(n)
           step == [z \in D \X V |-> Batch(z[2], keys[z[1]])]
           H == Pricings(c, keys)
<1>1. n \in Nat /\ D = 1 .. n /\ \A i \in D : keys[i] \in Batches
  OBVIOUS
<1>2. IsFiniteSet(D) /\ Picks(pick, D) /\ \A s \in SUBSET D : pick[s] = Max(s)
  BY <1>1, MaxOfPicks DEF MaxOf
<1>3. \A i \in D, v \in V : step[<<i, v>>] = Batch(v, keys[i])
  OBVIOUS
<1>4. StaysIn(V, D, base, step)
  <2>1. \A v \in V, k \in Batches : Batch(v, k) \in V
    BY BatchIsGood
  <2> HIDE DEF step, D
  <2> QED
    BY <1>1, <1>3, <2>1 DEF StaysIn
<1>5. PICK g : FoldIn(V, D, pick, base, step, g)
  <2> HIDE DEF pick, step, D, V, base
  <2> QED
    BY <1>2, <1>4, FoldExists
<1> DEFINE Q(f) == f = [s \in SUBSET D |->
                        IF s = {} THEN base ELSE Batch(f[s \ {Max(s)}], keys[Max(s)])]
<1>6. Q(g)
  <2>1. g = [s \in SUBSET D |-> g[s]] /\ g[{}] = base
    BY <1>5 DEF FoldIn
  <2>2. ASSUME NEW s \in SUBSET D, s # {} PROVE g[s] = Batch(g[s \ {Max(s)}], keys[Max(s)])
    <3> HIDE DEF pick, step, D, V, base
    <3>1. pick[s] = Max(s) /\ Max(s) \in D /\ g[s \ {Max(s)}] \in V
      BY <1>2, <1>5, <2>2 DEF FoldIn, Picks
    <3> QED
      BY <1>3, <1>5, <2>2, <3>1 DEF FoldIn
  <2> HIDE DEF base
  <2> QED
    BY <2>1, <2>2, Zenon
<1>7. Q(H)
  BY <1>6 DEF Pricings
<1>8. Follows(V, D, pick, base, step, H)
  <2>1. H[{}] = base
    BY <1>7
  <2>2. ASSUME NEW s \in SUBSET D, s # {}, H[s \ {pick[s]}] \in V
        PROVE  H[s] = step[<<pick[s], H[s \ {pick[s]}]>>]
    <3>1. H[s] = Batch(H[s \ {Max(s)}], keys[Max(s)])
      BY <1>7, <2>2
    <3> HIDE DEF pick, step, D, V, H
    <3>2. pick[s] = Max(s) /\ Max(s) \in D
      BY <1>2, <2>2 DEF Picks
    <3> QED
      BY <1>3, <2>2, <3>1, <3>2
  <2> HIDE DEF H, pick, step, D, V, base
  <2> QED
    BY <2>1, <2>2 DEF Follows
<1>9. H[D] \in V
  <2>1. D \in SUBSET D
    OBVIOUS
  <2> HIDE DEF H, pick, step, D, V, base
  <2> QED
    BY <1>2, <1>4, <1>8, <2>1, FoldStays
<1> QED
  BY <1>9, PricedIs

GoodOwners(all) == \A h \in DOMAIN all : all[h].cache \in GoodCaches
CachesGood == GoodOwners(owners)

\* A step leads to good caches, and what it takes from one is taken for a
\* reason.
GoodFrom(all) ==
    /\ GoodOwners(all)
    /\ \A h \in DOMAIN owners \cap DOMAIN all : Outlived(all[h].cache, owners[h].cache)
CachesGoOn == GoodFrom(owners')

LEMMA SameOutlives == ASSUME NEW c PROVE Outlived(c, c)
BY DEF Outlived

LEMMA SettledGood ==
    ASSUME NEW all, NEW handles, NEW cs, Settle(all, handles, cs), GoodFrom(all)
    PROVE  CachesGoOn
<1> DEFINE next == owners'
<1>1. DOMAIN next \subseteq DOMAIN all /\ \A h \in DOMAIN next : next[h] = all[h]
  BY SettledOwners
<1> HIDE DEF next
<1>2. GoodFrom(next)
  BY <1>1 DEF GoodOwners, GoodFrom
<1> QED
  BY <1>2 DEF CachesGoOn, next

LEMMA KeptGood == CachesGood => GoodFrom(owners)
  BY SameOutlives DEF GoodFrom, CachesGood

\* A lock or a cache that changes leaves every other cache.
LEMMA UnlockedGood ==
    ASSUME NEW c, RuntimeInv, CachesGood
    PROVE  GoodFrom(Unlocked(c))
<1>1. \A x \in DOMAIN owners : Unlocked(c)[x].cache = owners[x].cache
  BY DEF RuntimeInv, RegistryInv, Unlocked
<1>2. DOMAIN Unlocked(c) = DOMAIN owners
  BY DEF Unlocked
<1> DEFINE all == Unlocked(c)
<1> HIDE DEF all
<1> QED
  BY <1>1, <1>2, SameOutlives DEF GoodFrom, GoodOwners, CachesGood, all

LEMMA LockedGood ==
    ASSUME NEW c, NEW h, RuntimeInv, CachesGood
    PROVE  GoodFrom([owners EXCEPT ![h].lock = c])
<1> DEFINE all == [owners EXCEPT ![h].lock = c]
<1>1. ASSUME NEW x \in DOMAIN owners PROVE all[x].cache = owners[x].cache
  <2>1. {"kind", "stamp", "lock", "cache"} \subseteq DOMAIN owners[x]
    BY DEF RuntimeInv, RegistryInv
  <2> QED
    BY <2>1
<1>2. DOMAIN all = DOMAIN owners
  OBVIOUS
<1> HIDE DEF all
<1> QED
  BY <1>1, <1>2, SameOutlives DEF GoodFrom, GoodOwners, CachesGood

LEMMA CacheGood ==
    ASSUME NEW all, GoodFrom(all), NEW h \in DOMAIN all, NEW cache \in GoodCaches,
           h \in DOMAIN owners => Outlived(cache, owners[h].cache),
           \A x \in DOMAIN all : "cache" \in DOMAIN all[x]
    PROVE  GoodFrom([all EXCEPT ![h].cache = cache])
<1> DEFINE now == [all EXCEPT ![h].cache = cache]
<1>1. DOMAIN now = DOMAIN all
      /\ \A x \in DOMAIN all : now[x].cache = IF x = h THEN cache ELSE all[x].cache
  OBVIOUS
<1> HIDE DEF now
<1>2. GoodFrom(now)
  BY <1>1 DEF GoodFrom, GoodOwners
<1> QED
  BY <1>2 DEF now

LEMMA OwnersHaveCaches ==
    ASSUME NEW c, RuntimeInv
    PROVE  /\ \A x \in DOMAIN owners : "cache" \in DOMAIN owners[x]
           /\ DOMAIN Unlocked(c) = DOMAIN owners
           /\ \A x \in DOMAIN owners : "cache" \in DOMAIN Unlocked(c)[x]
                                       /\ Unlocked(c)[x].cache = owners[x].cache
  BY DEF RuntimeInv, RegistryInv, Unlocked

LEMMA FailGood ==
    ASSUME NEW c, RuntimeInv, CachesGood, Fail(c) PROVE CachesGoOn
  BY UnlockedGood, SettledGood DEF Fail

LEMMA PassGood ==
    ASSUME NEW c, NEW at, CachesGood, Pass(c, at) PROVE CachesGoOn
  BY KeptGood DEF Pass, registry, CachesGoOn

LEMMA RegisterGood ==
    ASSUME CacheAssumption, ParentsFirst, NEW c \in Callers, RuntimeInv, CachesGood, Register(c)
    PROVE  CachesGoOn
<1> DEFINE h == nextHandle
           cache == Priced(EmptyCache, calls[c].plan)
           owner == [kind |-> calls[c].kind, stamp |-> calls[c].stamp,
                     cache |-> cache, lock |-> NoCaller]
           all == With(owners, h, owner)
           call == [calls[c] EXCEPT !.at = "returning", !.plan = <<>>, !.created = h]
<1>1. calls[c].at = "pricing"
  BY DEF Register, At
<1>2. CASE Fail(c)
  BY <1>2, FailGood
<1>3. CASE ~ Fail(c)
  <2>1. Settle(all, registered \cup {h}, Move(c, call))
    BY <1>3 DEF Register, FreshHandle
  <2>2. calls[c].plan \in Seq(Batches)
    BY <1>1, Continues DEF Active, Call
  <2>3. owner.cache \in GoodCaches
    <3>1. cache \in GoodCaches
      BY <2>2, EmptyIsGood, PricedIsGood
    <3> HIDE DEF cache
    <3> QED
      BY <3>1
  <2> HIDE DEF owner, call
  <2>4. GoodFrom(all)
    <3>1. DOMAIN all = DOMAIN owners \cup {h}
          /\ \A x \in DOMAIN all : all[x] = IF x = h THEN owner ELSE owners[x]
      BY DEF With
    <3>2. h \notin DOMAIN owners
      BY DEF RuntimeInv, RegistryInv
    <3> HIDE DEF all, h
    <3> QED
      BY <2>3, <3>1, <3>2, SameOutlives DEF GoodFrom, GoodOwners, CachesGood
  <2> HIDE DEF all
  <2> QED
    BY <2>1, <2>4, SettledGood
<1> QED
  BY <1>2, <1>3

LEMMA EnterGood ==
    ASSUME NEW c \in Callers, RuntimeInv, CachesGood, Enter(c) PROVE CachesGoOn
<1> DEFINE all == [owners EXCEPT ![calls[c].handle].lock = c]
           call == [calls[c] EXCEPT !.at = "inside"]
<1>1. Fail(c) \/ Settle(all, registered, Move(c, call))
  BY DEF Enter
<1>2. GoodFrom(all)
  BY LockedGood
<1> HIDE DEF all, call
<1> QED
  BY <1>1, <1>2, FailGood, SettledGood

LEMMA PriceBatchGood ==
    ASSUME CacheAssumption, ParentsFirst, NEW c \in Callers, RuntimeInv, CachesGood, PriceBatch(c)
    PROVE  CachesGoOn
<1> DEFINE h == calls[c].handle
           keys == Head(calls[c].plan)
           next == Move(c, [calls[c] EXCEPT !.plan = Tail(@)])
           failed == Move(c, [calls[c] EXCEPT !.at = "returning", !.ok = FALSE])
           built == Batch(owners[h].cache, keys)
           broken == FailedBatch(owners[h].cache, keys)
           locked == [owners EXCEPT ![h].cache = built]
           freed == [Unlocked(c) EXCEPT ![h].cache = broken]
<1>1. calls[c].at = "inside" /\ calls[c].plan # <<>>
  BY DEF PriceBatch, At
<1>2. calls[c] \in Call /\ h \in DOMAIN owners
  BY <1>1, Continues DEF Active, HandleOK
<1>3. keys \in Batches /\ owners[h].cache \in GoodCaches
  BY <1>1, <1>2 DEF Call, CachesGood, GoodOwners
<1>4. built \in GoodCaches /\ broken \in GoodCaches
      /\ Outlived(built, owners[h].cache) /\ Outlived(broken, owners[h].cache)
  <2> HIDE DEF keys
  <2> QED
    BY <1>3, BatchIsGood
<1>5. Unlocked(c)[h].cache = owners[h].cache /\ h \in DOMAIN Unlocked(c)
  BY <1>2, OwnersHaveCaches
<1>6. Fail(c) \/ Settle(locked, registered, next) \/ Settle(freed, registered, failed)
  <2>1. \/ Fail(c) \/ Settle(locked, registered, next)
        \/ Settle([Unlocked(c) EXCEPT ![h].cache = FailedBatch(@, keys)], registered, failed)
    BY DEF PriceBatch
  <2>2. [Unlocked(c) EXCEPT ![h].cache = FailedBatch(@, keys)]
        = [Unlocked(c) EXCEPT ![h].cache = FailedBatch(Unlocked(c)[h].cache, keys)]
    BY Zenon
  <2> HIDE DEF next, failed, locked, keys, h
  <2> QED
    BY <1>5, <2>1, <2>2
<1>7. GoodFrom(locked)
  <2> HIDE DEF built, h
  <2> QED
    BY <1>2, <1>4, KeptGood, CacheGood, OwnersHaveCaches
<1>8. GoodFrom(freed)
  <2> DEFINE all == Unlocked(c)
  <2>1. GoodFrom(all) /\ h \in DOMAIN all /\ \A x \in DOMAIN all : "cache" \in DOMAIN all[x]
    BY <1>5, UnlockedGood, OwnersHaveCaches
  <2> HIDE DEF broken, h, all
  <2>2. GoodFrom([all EXCEPT ![h].cache = broken])
    BY <1>4, <2>1, CacheGood
  <2> QED
    BY <2>2 DEF all
<1> HIDE DEF locked, freed, next, failed
<1> QED
  BY <1>6, <1>7, <1>8, FailGood, SettledGood

LEMMA LeaveGood ==
    ASSUME CacheAssumption, NEW c \in Callers, RuntimeInv, CachesGood, Leave(c)
    PROVE  CachesGoOn
<1> DEFINE h == calls[c].handle
           all == Unlocked(c)
           cache == IF calls[c].op = "clear" THEN Clear(all[h].cache) ELSE all[h].cache
           freed == [all EXCEPT ![h].cache = cache]
           call == Move(c, [calls[c] EXCEPT !.at = "returning", !.plan = <<>>])
<1>1. calls[c].at = "inside"
  BY DEF Leave, At
<1>2. h \in DOMAIN owners
  BY <1>1, Continues DEF Active, HandleOK
<1>3. /\ GoodFrom(all) /\ h \in DOMAIN all /\ all[h].cache \in GoodCaches
      /\ \A x \in DOMAIN all : "cache" \in DOMAIN all[x]
      /\ all[h].cache = owners[h].cache
  BY <1>2, UnlockedGood, OwnersHaveCaches DEF GoodFrom, GoodOwners
<1>4. cache \in GoodCaches /\ Outlived(cache, owners[h].cache)
  <2> HIDE DEF all, h
  <2> QED
    BY <1>3, ClearIsGood, ClearOutlives, SameOutlives
<1>5. Settle(freed, registered, call)
  <2>1. Settle([Unlocked(c) EXCEPT
                    ![h].cache = IF calls[c].op = "clear" THEN Clear(@) ELSE @],
               registered, call)
    BY DEF Leave
  <2>2. freed = [Unlocked(c) EXCEPT ![h].cache = IF calls[c].op = "clear" THEN Clear(@) ELSE @]
    BY Zenon
  <2> HIDE DEF freed, call
  <2> QED
    BY <2>1, <2>2
<1>6. GoodFrom(freed)
  <2> HIDE DEF cache, all, h
  <2> QED
    BY <1>3, <1>4, CacheGood
<1> HIDE DEF freed, call
<1> QED
  BY <1>5, <1>6, SettledGood

\* The other steps leave every cache, or let owners go.
LEMMA OthersGood ==
    ASSUME NEW c \in Callers, RuntimeInv, CachesGood
    PROVE  /\ (\E kind \in Kinds, plan \in Plans : BeginCreate(c, kind, plan)) => CachesGoOn
           /\ (\E object \in objects :
                   \/ \E plan \in Plans : BeginWork(c, "price", plan, object)
                   \/ BeginWork(c, "clear", <<>>, object)) => CachesGoOn
           /\ Abandon(c) \/ Claim(c) \/ Notice(c) \/ LoseLease(c) \/ Expire(c) => CachesGoOn
           /\ Precheck(c) \/ FailPricing(c) \/ Admit(c) \/ Lookup(c) => CachesGoOn
           /\ Finish(c) \/ Receive(c) \/ Decode(c) => CachesGoOn
<1>1. UNCHANGED owners => CachesGoOn
  BY KeptGood DEF CachesGoOn
<1>2. ASSUME NEW handles, NEW cs, Settle(owners, handles, cs) PROVE CachesGoOn
  BY <1>2, KeptGood, SettledGood
<1>3. (\E kind \in Kinds, plan \in Plans : BeginCreate(c, kind, plan)) => CachesGoOn
  BY <1>1 DEF BeginCreate, Begin, registry
<1>4. (\E object \in objects :
           \/ \E plan \in Plans : BeginWork(c, "price", plan, object)
           \/ BeginWork(c, "clear", <<>>, object)) => CachesGoOn
  BY <1>1 DEF BeginWork, Begin, registry
<1>5. Abandon(c) \/ Claim(c) \/ Notice(c) \/ LoseLease(c) \/ Expire(c) => CachesGoOn
  BY <1>1 DEF Abandon, Claim, Notice, LoseLease, Expire, registry
<1>6. Precheck(c) \/ FailPricing(c) \/ Admit(c) \/ Lookup(c) => CachesGoOn
  BY PassGood, FailGood DEF Precheck, FailPricing, Admit, Lookup
<1>7. Finish(c) => CachesGoOn
  BY <1>2 DEF Finish
<1>8. Receive(c) => CachesGoOn
  BY <1>2 DEF Receive
<1>9. Decode(c) => CachesGoOn
  BY <1>2 DEF Decode
<1> QED
  BY <1>3, <1>4, <1>5, <1>6, <1>7, <1>8, <1>9

LEMMA CachesStep ==
    ASSUME CacheAssumption, ParentsFirst, RuntimeInv, CachesGood, [RuntimeNext]_vars
    PROVE  CachesGoOn
<1>1. ASSUME NEW c \in Callers, Register(c) PROVE CachesGoOn
  BY <1>1, RegisterGood
<1>2. ASSUME NEW c \in Callers, Enter(c) PROVE CachesGoOn
  BY <1>2, EnterGood
<1>3. ASSUME NEW c \in Callers, PriceBatch(c) PROVE CachesGoOn
  BY <1>3, PriceBatchGood
<1>4. ASSUME NEW c \in Callers, Leave(c) PROVE CachesGoOn
  BY <1>4, LeaveGood
<1>5. ASSUME NEW t \in signals, Signal(t) PROVE CachesGoOn
  BY <1>5, KeptGood DEF Signal, registry, CachesGoOn
<1>6. ASSUME NEW object \in objects, Close(object) PROVE CachesGoOn
  BY <1>6, KeptGood, SettledGood DEF Close
<1>7. UNCHANGED vars => CachesGoOn
  BY KeptGood DEF vars, registry, CachesGoOn
<1> QED
  BY <1>1, <1>2, <1>3, <1>4, <1>5, <1>6, <1>7, OthersGood DEF RuntimeNext

LEMMA CachesStayGood == RuntimeSpec => []CachesGood
<1>1. RuntimeInit => CachesGood
  BY DEF RuntimeInit, CachesGood, GoodOwners, Nothing
<1>2. RuntimeInv /\ CachesGood /\ [RuntimeNext]_vars => CachesGood'
  BY CachesStep, CacheAssumption, ParentsFirst DEF CachesGoOn, GoodFrom, GoodOwners, CachesGood
<1> QED
  BY <1>1, <1>2, RuntimeInvariant, PTL DEF RuntimeSpec

\* The caches keep their books (CachesSound): through every get, put, eviction,
\* failed batch and clearing of graph/cache.rs, and whatever the calls on the
\* owners do, every value is in its order under its own tick, the bytes are
\* those of what is kept, within the budget, and every key is counted exactly
\* as often as values and kept keys refer to it.
THEOREM CachesKeepTheirBooks == RuntimeSpec => []CachesSound
<1>1. CachesGood => CachesSound
  BY CacheAssumption, GoodIsSound DEF CachesGood, GoodOwners, CachesSound
<1> QED
  BY <1>1, CachesStayGood, PTL

\* Results give way to results (ResultsOutlast): whatever a step does to an
\* owner, a result leaves its cache only for another result, or with everything
\* else, by `clear` or when the last tick is reached in mid-batch.
THEOREM ResultsGiveWayToResults == RuntimeSpec => ResultsOutlast
<1> DEFINE Lasts ==
        \A h \in DOMAIN owners \cap DOMAIN owners' :
            LET before == DOMAIN owners[h].cache.entries
                after == DOMAIN owners'[h].cache.entries
            IN (before \ after) \cap Results # {} =>
                   \/ (after \ before) \cap Results # {}
                   \/ after = {}
                   \/ owners'[h].cache.tick < owners[h].cache.tick
<1>1. CachesGoOn => Lasts
  BY Zenon DEF CachesGoOn, GoodFrom, Outlived
<1>2. RuntimeInv /\ CachesGood /\ [RuntimeNext]_vars => Lasts
  <2> HIDE DEF Lasts
  <2> QED
    BY <1>1, CachesStep, CacheAssumption, ParentsFirst
<1>3. RuntimeInv /\ CachesGood /\ [RuntimeNext]_vars => [Lasts]_vars
  BY <1>2
<1> QED
  <2>1. RuntimeSpec => [][Lasts]_vars
    <3> HIDE DEF Lasts
    <3> QED
      BY <1>3, RuntimeInvariant, CachesStayGood, PTL DEF RuntimeSpec
  <2> QED
    BY <2>1 DEF ResultsOutlast
===============================================================================
