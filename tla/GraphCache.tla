------------------------------ MODULE GraphCache ------------------------------
(***************************************************************************)
(* The cache of a native pricing graph                                     *)
(* (portfolio-risk-native/src/graph/cache.rs): computed values under keys  *)
(* that name their inputs and their parents, a budget of bytes that counts *)
(* every parent once, and eviction of the least recently used value, with  *)
(* values of instruments ("result") evicted last.                          *)
(*                                                                         *)
(* A cache is used under its owner's lock only, so its operations are      *)
(* functions from a cache to a cache.                                      *)
(***************************************************************************)
EXTENDS Integers, Sequences, FiniteSets, SequencesExt

CONSTANTS
    Keys,           \* the dependency nodes
    Parents,        \* the parents of each key, in order, perhaps repeated
    Results,        \* the keys of stage "result"
    KeyBytes,       \* the size of each key
    ValueBytes,     \* the size of the value under each key
    MaxBytes,       \* the budget
    MaxEntries,     \* and how many values at most
    LastTick        \* the last recency number: 2^64 - 1

ASSUME CacheAssumption ==
    /\ IsFiniteSet(Keys)
    /\ Parents \in [Keys -> Seq(Keys)]
    /\ Results \subseteq Keys
    /\ KeyBytes \in [Keys -> Nat]
    /\ ValueBytes \in [Keys -> Nat]
    /\ MaxBytes \in Nat /\ MaxEntries \in Nat
    /\ LastTick \in Nat \ {0}

\* A key is built from its parents, and never changed.
ASSUME ParentsFirst ==
    \E age \in [Keys -> 0 .. Cardinality(Keys)] :
        \A k \in Keys : \A p \in Range(Parents[k]) : age[p] < age[k]

Nothing == [x \in {} |-> x]
Without(f, x) == [y \in DOMAIN f \ {x} |-> f[y]]
With(f, x, v) == [y \in DOMAIN f \cup {x} |-> IF y = x THEN v ELSE f[y]]
Oldest(order) == CHOOSE t \in DOMAIN order : \A u \in DOMAIN order : t <= u

EmptyCache ==
    [entries |-> Nothing,       \* the tick of every value kept
     order |-> Nothing,         \* the transient values by tick
     protected |-> Nothing,     \* the results by tick
     identities |-> [k \in Keys |-> 0],  \* how often each key is referred to
     tick |-> 0, bytes |-> 0]

-----------------------------------------------------------------------------
(* Keys are kept once, however many values and keys refer to them.         *)

SumOver(S, f) == SumFunctionOnSet(f, S)

Kept(refs) == {k \in Keys : refs[k] > 0}

\* What a key would add to the budget: itself and its parents, unless kept.
Additional(c, k) ==
    LET cost[p \in Keys] ==
            IF p \in Kept(c.identities) THEN 0
            ELSE FoldLeft(LAMBDA n, q : n + cost[q], KeyBytes[p], Parents[p])
    IN cost[k]

\* A key that is kept gains a reference; a new one is kept with its parents.
Gained[k \in Keys] == [refs \in [Keys -> Int] |->
    IF k \in Kept(refs) THEN [refs EXCEPT ![k] = @ + 1]
    ELSE [FoldLeft(LAMBDA kept, p : Gained[p][kept], refs, Parents[k]) EXCEPT ![k] = 1]]

\* A key that loses its last reference leaves, and lets its parents go.
Lost[k \in Keys] == [refs \in [Keys -> Int] |->
    LET fewer == [refs EXCEPT ![k] = @ - 1]
    IN IF k \in Kept(fewer) THEN fewer
       ELSE FoldLeft(LAMBDA kept, p : Lost[p][kept], fewer, Parents[k])]

Retain(c, k) ==
    LET refs == Gained[k][c.identities]
    IN [c EXCEPT !.identities = refs,
                 !.bytes = @ + SumOver(Kept(refs) \ Kept(c.identities), KeyBytes)]

\* Mutant: a key that is let go keeps its parents.
ReleaseAlone(c, k) ==
    [c EXCEPT !.identities[k] = @ - 1,
              !.bytes = IF c.identities[k] > 1 THEN @ ELSE @ - KeyBytes[k]]

Release(c, k) ==
    LET refs == Lost[k][c.identities]
    IN [c EXCEPT !.identities = refs,
                 !.bytes = @ - SumOver(Kept(c.identities) \ Kept(refs), KeyBytes)]

-----------------------------------------------------------------------------
Clear(c) == [EmptyCache EXCEPT !.tick = c.tick]

\* "No wrapping generation may alias a recency entry."
Touch(c) ==
    LET d == IF c.tick = LastTick THEN [Clear(c) EXCEPT !.tick = 0] ELSE c
    IN [d EXCEPT !.tick = @ + 1]

\* c without k in the order it belongs to, and c with it there.
Unlisted(c, k) ==
    IF k \in Results THEN [c EXCEPT !.protected = Without(@, c.entries[k])]
    ELSE [c EXCEPT !.order = Without(@, c.entries[k])]
Listed(c, k) ==
    LET d == [c EXCEPT !.entries = With(@, k, c.tick)] IN
    IF k \in Results THEN [d EXCEPT !.protected = With(@, c.tick, k)]
    ELSE [d EXCEPT !.order = With(@, c.tick, k)]

\* `get`; the clearing of the last tick comes first.
Hit(c, k) == k \in DOMAIN Touch(c).entries
Get(c, k) == LET d == Touch(c) IN IF Hit(c, k) THEN Listed(Unlisted(d, k), k) ELSE d

\* A value leaves with its place in the order and its reference to the key.
Removed(c, k) ==
    LET d == Unlisted(c, k)
    IN Release([d EXCEPT !.entries = Without(@, k), !.bytes = @ - ValueBytes[k]], k)

Fits(c, k) ==
    /\ c.bytes + ValueBytes[k] + Additional(c, k) <= MaxBytes
    /\ Cardinality(DOMAIN c.entries) < MaxEntries

\* Mutant: a transient value may evict results.
AnyEvicts(c, k) == DOMAIN c.protected # {}
\* Only a result evicts results, when nothing else is left.
EvictsResults(c, k) == k \in Results /\ DOMAIN c.protected # {}

\* The value to leave next, if any.
Leaves(c, k) ==
    IF DOMAIN c.order # {} THEN {c.order[Oldest(c.order)]}
    ELSE IF EvictsResults(c, k) THEN {c.protected[Oldest(c.protected)]}
    ELSE {}

\* Values leave until k fits; there is a turn for every value.
MakeRoom(c, k) ==
    LET Evict(d) ==
            IF Fits(d, k) \/ Leaves(d, k) = {} THEN d
            ELSE Removed(d, CHOOSE old \in Leaves(d, k) : TRUE)
    IN FoldSet(LAMBDA turn, d : Evict(d), c, DOMAIN c.entries)

\* `put`: refused when it cannot fit, or does not after the evictions, which
\* may have let go of parents it counted on; the caller keeps its value.
Put(c, k) ==
    IF MaxEntries = 0 \/ ValueBytes[k] + Additional(c, k) > MaxBytes THEN c
    ELSE LET d == MakeRoom(IF k \in DOMAIN c.entries THEN Removed(c, k) ELSE c, k)
         IN IF ~ Fits(d, k) THEN d
            ELSE LET e == Listed(Retain(Touch(d), k), k)
                 IN [e EXCEPT !.bytes = @ + ValueBytes[k]]

\* `batch` up to the build: every key is looked up, the ones not found are
\* built together, and none is put if the build fails.
LookedUp(c, keys) ==
    FoldLeft(LAMBDA s, k : [cache |-> Get(s.cache, k),
                            missing |-> IF Hit(s.cache, k) THEN s.missing
                                        ELSE Append(s.missing, k)],
             [cache |-> c, missing |-> <<>>], keys)
Batch(c, keys) ==
    LET found == LookedUp(c, keys)
    IN FoldLeft(LAMBDA e, k : Put(e, k), found.cache, found.missing)
FailedBatch(c, keys) == LookedUp(c, keys).cache

\* The batches of a request: of one stage, and of 256 instruments at most, so
\* that one batch never goes through all ticks.
Batches ==
    {keys \in Seq(Keys) : /\ Range(keys) \subseteq Results \/ Range(keys) \cap Results = {}
                          /\ 2 * Len(keys) < LastTick}

-----------------------------------------------------------------------------
(* What a cache is.                                                        *)

\* Every value is in the one order it belongs to, under its own tick, and the
\* orders hold nothing else.
OrdersAgree(c) ==
    /\ \A k \in DOMAIN c.entries :
           LET order == IF k \in Results THEN c.protected ELSE c.order
           IN c.entries[k] \in DOMAIN order /\ order[c.entries[k]] = k
    /\ Cardinality(DOMAIN c.entries)
           = Cardinality(DOMAIN c.order) + Cardinality(DOMAIN c.protected)

\* The bytes are those of the values and of every key kept, once, and within
\* the budget.
BytesAccounted(c) ==
    /\ c.bytes = SumOver(DOMAIN c.entries, ValueBytes)
                 + SumOver(Kept(c.identities), KeyBytes)
    /\ c.bytes <= MaxBytes
    /\ Cardinality(DOMAIN c.entries) <= MaxEntries

\* A key is kept as long as a value or another kept key refers to it, and is
\* counted exactly as often: what is evicted leaves nothing behind.
Mentions(k, p) == Cardinality({i \in DOMAIN Parents[p] : Parents[p][i] = k})
IdentitiesCounted(c) ==
    LET kept == Kept(c.identities)
        mentions(k) == SumOver(kept, [p \in kept |-> Mentions(k, p)])
    IN \A k \in Keys :
           c.identities[k] = (IF k \in DOMAIN c.entries THEN 1 ELSE 0) + mentions(k)

SoundCache(c) == OrdersAgree(c) /\ BytesAccounted(c) /\ IdentitiesCounted(c)
==============================================================================
