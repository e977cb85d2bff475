--------------------------- MODULE GraphCache_proofs ---------------------------
(***************************************************************************)
(* Proofs about GraphCache: for any keys, parents, sizes, budget and last  *)
(* tick, what the operations of the cache keep.                            *)
(*                                                                         *)
(* GoodCaches, near the end, is what a cache is: every value is in the one *)
(* order it belongs to, under a tick no later than the cache's; every key  *)
(* is referred to exactly as often as values and kept keys mention it; and *)
(* the bytes are those of what is kept, within the budget.  Get, Put,      *)
(* Batch and Clear lead from good caches to good caches (GetIsGood,        *)
(* PutKeepsGood, BatchIsGood, ClearIsGood), and good caches are sound      *)
(* (GoodIsSound).                                                          *)
(*                                                                         *)
(* On the way to it, what the folds and recursive functions of the module  *)
(* compute: FoldExists, FoldStays and Passes for folds, GainedIs and       *)
(* LostIs, by recursion from the parents to the keys, and GainedCounts,    *)
(* LostCounts and GainedSpends for what Retain and Release do to the       *)
(* counts and to the bytes.                                                *)
(***************************************************************************)
EXTENDS GraphCache, FiniteSetTheorems, WellFoundedInduction, TLAPS

-----------------------------------------------------------------------------
(* Induction, by the least of the numbers for which a fact fails.          *)

LEMMA LeastNumber ==
    ASSUME NEW T, T \subseteq Nat, T # {}
    PROVE  \E n \in T : \A m \in T : n <= m
<1>1. IsWellFoundedOn(OpToRel(<, Nat), Nat)
  BY NatLessThanWellFounded
<1>2. PICK n \in T : \A m \in T : ~ (<<m, n>> \in OpToRel(<, Nat))
  BY <1>1, WFMin
<1>3. \A m \in T : ~ (m < n)
  BY <1>2 DEF OpToRel
<1>4. \A m \in T : m \in Nat /\ n \in Nat
  OBVIOUS
<1> QED
  BY <1>3, <1>4

\* G holds every set whose proper subsets it holds.
Hereditary(G, S) ==
    \A s \in SUBSET S : (\A t \in SUBSET s : t # s => t \in G) => s \in G

LEMMA SubsetsInduction ==
    ASSUME NEW S, IsFiniteSet(S), NEW G, Hereditary(G, S)
    PROVE  SUBSET S \subseteq G
<1> SUFFICES ASSUME NEW bad \in SUBSET S, bad \notin G
             PROVE  FALSE
  OBVIOUS
<1> DEFINE T == {n \in Nat : \E s \in SUBSET S : s \notin G /\ Cardinality(s) = n}
<1>1. \A s \in SUBSET S : IsFiniteSet(s) /\ Cardinality(s) \in Nat
  BY FS_Subset, FS_CardinalityType
<1>2. T # {} /\ T \subseteq Nat
  BY <1>1
<1>3. PICK n \in T : \A m \in T : n <= m
  BY <1>2, LeastNumber
<1>4. PICK s \in SUBSET S : s \notin G /\ Cardinality(s) = n
  OBVIOUS
<1>5. PICK t \in SUBSET s : t # s /\ t \notin G
  BY <1>4 DEF Hereditary
<1>6. t \in SUBSET S /\ Cardinality(t) <= n /\ Cardinality(t) # n
  BY <1>1, <1>4, <1>5, FS_Subset
<1>7. Cardinality(t) \in T /\ n \in Nat /\ Cardinality(t) \in Nat
  BY <1>1, <1>5, <1>6
<1>8. n <= Cardinality(t)
  BY <1>3, <1>7
<1> QED
  BY <1>6, <1>7, <1>8

\* pick[s] is one of s.
Picks(pick, S) == \A s \in SUBSET S : s # {} => pick[s] \in s

\* G holds the empty set, and what is one picked element more than a set in G.
Inductive(G, S, pick) ==
    /\ {} \in G
    /\ \A s \in SUBSET S : s # {} /\ s \ {pick[s]} \in G => s \in G

LEMMA SubsetInduction ==
    ASSUME NEW S, IsFiniteSet(S), NEW pick, Picks(pick, S), NEW G, Inductive(G, S, pick)
    PROVE  SUBSET S \subseteq G
<1>1. Hereditary(G, S)
  <2> SUFFICES ASSUME NEW s \in SUBSET S, \A t \in SUBSET s : t # s => t \in G
               PROVE  s \in G
    BY DEF Hereditary
  <2>1. CASE s = {}
    BY <2>1 DEF Inductive
  <2>2. CASE s # {}
    <3>1. pick[s] \in s /\ s \ {pick[s]} \in SUBSET s /\ s \ {pick[s]} # s
      BY <2>2 DEF Picks
    <3>2. s \ {pick[s]} \in G
      BY <3>1
    <3> QED
      BY <2>2, <3>2 DEF Inductive
  <2> QED
    BY <2>1, <2>2
<1> QED
  BY <1>1, SubsetsInduction

\* Folding over a set stays in V.
StaysIn(V, S, base, step) ==
    base \in V /\ \A x \in S, v \in V : step[<<x, v>>] \in V

\* g[s] is what the fold over s comes to.
FoldIn(V, S, pick, base, step, g) ==
    /\ g \in [SUBSET S -> V]
    /\ g[{}] = base
    /\ \A s \in SUBSET S : s # {} => g[s] = step[<<pick[s], g[s \ {pick[s]}]>>]

\* A fold over the subsets of a finite set is there.
LEMMA FoldExists ==
    ASSUME NEW S, IsFiniteSet(S), NEW pick, Picks(pick, S),
           NEW V, NEW base, NEW step, StaysIn(V, S, base, step)
    PROVE  \E g : FoldIn(V, S, pick, base, step, g)
<1> USE DEF Picks, StaysIn
<1> DEFINE Upto(n) == {s \in SUBSET S : Cardinality(s) <= n}
           Solves(g, n) == \A s \in Upto(n) :
               g[s] = IF s = {} THEN base ELSE step[<<pick[s], g[s \ {pick[s]}]>>]
           T == {n \in Nat : ~ \E g \in [Upto(n) -> V] : Solves(g, n)}
<1>1. \A s \in SUBSET S : IsFiniteSet(s) /\ Cardinality(s) \in Nat
  BY FS_Subset, FS_CardinalityType
<1>2. \A s \in SUBSET S : s # {} =>
          s \ {pick[s]} \in SUBSET S /\ Cardinality(s \ {pick[s]}) = Cardinality(s) - 1
  BY <1>1, FS_RemoveElement
<1>3. T = {}
  <2> SUFFICES ASSUME T # {} PROVE FALSE
    OBVIOUS
  <2>1. PICK n \in T : \A m \in T : n <= m
    BY LeastNumber
  <2>2. n \in Nat /\ ~ \E g \in [Upto(n) -> V] : Solves(g, n)
    OBVIOUS
  <2>3. CASE n = 0
    <3> DEFINE g == [s \in Upto(n) |-> base]
    <3>1. \A s \in Upto(n) : s = {}
      BY <1>1, <2>3, FS_EmptySet
    <3>2. g \in [Upto(n) -> V]
      OBVIOUS
    <3>3. Solves(g, n)
      BY <3>1
    <3> QED
      BY <2>2, <3>2, <3>3
  <2>4. CASE n # 0
    <3>0. n - 1 \in T => n <= n - 1
      BY <2>1
    <3>1. n - 1 \in Nat /\ n - 1 \notin T
      <4> HIDE DEF T
      <4> QED
        BY <3>0, <2>2, <2>4
    <3>2. PICK h \in [Upto(n - 1) -> V] : Solves(h, n - 1)
      BY <3>1
    <3> DEFINE g == [s \in Upto(n) |-> IF s = {} THEN base
                                       ELSE step[<<pick[s], h[s \ {pick[s]}]>>]]
    <3>3. \A s \in Upto(n) : s # {} => s \ {pick[s]} \in Upto(n - 1)
      BY <1>1, <1>2, <2>2
    <3>4. \A s \in Upto(n) : g[s] \in V
      <4> SUFFICES ASSUME NEW s \in Upto(n), s # {} PROVE g[s] \in V
        OBVIOUS
      <4>1. pick[s] \in S /\ h[s \ {pick[s]}] \in V
        BY <3>3
      <4> QED
        BY <4>1
    <3>5. \A s \in Upto(n - 1) : s \in Upto(n) /\ g[s] = h[s]
      <4> SUFFICES ASSUME NEW s \in Upto(n - 1) PROVE s \in Upto(n) /\ g[s] = h[s]
        OBVIOUS
      <4>1. s \in Upto(n)
        BY <1>1, <2>2
      <4>2. h[s] = IF s = {} THEN base ELSE step[<<pick[s], h[s \ {pick[s]}]>>]
        BY <3>2
      <4> QED
        BY <4>1, <4>2
    <3>6. Solves(g, n)
      BY <3>3, <3>5
    <3>7. g \in [Upto(n) -> V]
      BY <3>4
    <3> QED
      BY <2>2, <3>6, <3>7
  <2> QED
    BY <2>3, <2>4
<1>4. Cardinality(S) \in Nat /\ Cardinality(S) \notin T
  BY <1>1, <1>3
<1>5. Upto(Cardinality(S)) = SUBSET S
  BY <1>1, FS_Subset
<1>6. PICK g \in [SUBSET S -> V] : Solves(g, Cardinality(S))
  BY <1>4, <1>5
<1>7. g \in [SUBSET S -> V]
  BY <1>5
<1>8. \A s \in SUBSET S : g[s] = IF s = {} THEN base ELSE step[<<pick[s], g[s \ {pick[s]}]>>]
  BY <1>5, <1>6
<1> QED
  BY <1>7, <1>8 DEF FoldIn

LEMMA MaxIsLast ==
    ASSUME NEW n \in Nat, NEW s \in SUBSET (1 .. n), s # {}
    PROVE  Max(s) \in s /\ \A x \in s : x <= Max(s)
<1> DEFINE T == {m \in Nat : \A x \in s : x <= m}
<1>1. n \in T
  OBVIOUS
<1>2. PICK m \in T : \A o \in T : m <= o
  BY <1>1, LeastNumber
<1>3. m \in Nat /\ \A x \in s : x <= m
  OBVIOUS
<1>4. m \in s
  <2> SUFFICES ASSUME m \notin s PROVE FALSE
    OBVIOUS
  <2>1. \A x \in s : x \in Nat /\ x >= 1 /\ x <= m /\ x # m
    BY <1>3
  <2>2. m - 1 \in Nat /\ \A x \in s : x <= m - 1
    <3>1. PICK x \in s : x \in Nat /\ x >= 1 /\ x <= m /\ x # m
      BY <2>1
    <3>2. m - 1 \in Nat
      BY <1>3, <3>1
    <3>3. ASSUME NEW y \in s PROVE y <= m - 1
      BY <1>3, <2>1
    <3> QED
      BY <3>2, <3>3
  <2>3. m - 1 \in T
    BY <2>2
  <2>4. m <= m - 1
    BY <1>2, <2>3
  <2> QED
    BY <1>3, <2>4
<1>5. \E x \in s : \A y \in s : x >= y
  BY <1>3, <1>4
<1>6. Max(s) = CHOOSE x \in s : \A y \in s : x >= y
  BY DEF Max
<1>7. Max(s) \in s /\ \A y \in s : Max(s) >= y
  BY <1>5, <1>6
<1>8. \A x \in s : x \in Nat
  OBVIOUS
<1> QED
  BY <1>7, <1>8

-----------------------------------------------------------------------------
(* Sums.                                                                   *)

One(s) == CHOOSE x \in s : TRUE
Partial(S, f) ==
    CHOOSE g : g = [s \in SUBSET S |-> IF s = {} THEN 0 ELSE f[One(s)] + g[s \ {One(s)}]]

Summable(S, f) == IsFiniteSet(S) /\ \A x \in S : f[x] \in Int

LEMMA SumIsPartial ==
    ASSUME NEW S, NEW f
    PROVE  SumOver(S, f) = Partial(S, f)[S]
  BY DEF SumOver, SumFunctionOnSet, FoldFunctionOnSet, MapThenFoldSet, Partial, One

LEMMA OneIsIn ==
    ASSUME NEW s, s # {} PROVE One(s) \in s
  BY DEF One

SumsUp(h, S, f) ==
    /\ h[{}] = 0
    /\ \A s \in SUBSET S : s # {} => h[s] = f[One(s)] + h[s \ {One(s)}]
    /\ \A s \in SUBSET S : h[s] \in Int

LEMMA PartialSums ==
    ASSUME NEW S, NEW f, Summable(S, f)
    PROVE  SumsUp(Partial(S, f), S, f)
<1> DEFINE pick == [s \in SUBSET S |-> One(s)]
           step == [z \in S \X Int |-> f[z[1]] + z[2]]
           Q(g) == g = [s \in SUBSET S |-> IF s = {} THEN 0
                                          ELSE f[One(s)] + g[s \ {One(s)}]]
<1>1. Picks(pick, S) /\ IsFiniteSet(S)
  BY OneIsIn DEF Picks, Summable
<1>2. \A x \in S, v \in Int : step[<<x, v>>] = f[x] + v
  OBVIOUS
<1>3. StaysIn(Int, S, 0, step)
  BY <1>2 DEF StaysIn, Summable
<1>4. PICK g : FoldIn(Int, S, pick, 0, step, g)
  <2> HIDE DEF pick, step
  <2> QED
    BY <1>1, <1>3, FoldExists
<1>5. Q(g)
  <2>1. g = [s \in SUBSET S |-> g[s]] /\ g[{}] = 0
    BY <1>4 DEF FoldIn
  <2>2. ASSUME NEW s \in SUBSET S, s # {}
        PROVE  g[s] = f[One(s)] + g[s \ {One(s)}]
    <3>1. pick[s] = One(s) /\ One(s) \in S /\ g[s \ {One(s)}] \in Int
      BY <1>4, <2>2, OneIsIn DEF FoldIn
    <3> QED
      BY <1>2, <1>4, <2>2, <3>1 DEF FoldIn
  <2> QED
    BY <2>1, <2>2, Zenon
<1>6. Q(Partial(S, f))
  BY <1>5 DEF Partial
<1> DEFINE h == Partial(S, f)
<1>7. /\ h[{}] = 0
      /\ \A s \in SUBSET S : s # {} => h[s] = f[One(s)] + h[s \ {One(s)}]
  BY <1>6
<1> DEFINE G == {t \in SUBSET S : h[t] \in Int}
<1>8. Inductive(G, S, pick)
  <2>1. {} \in G
    BY <1>7
  <2>2. ASSUME NEW s \in SUBSET S, s # {}, s \ {pick[s]} \in G PROVE s \in G
    <3>1. pick[s] = One(s) /\ One(s) \in S
      BY <2>2, OneIsIn
    <3>2. f[One(s)] \in Int /\ h[s \ {One(s)}] \in Int
      BY <2>2, <3>1 DEF Summable
    <3> QED
      BY <1>7, <2>2, <3>2
  <2> QED
    BY <2>1, <2>2 DEF Inductive
<1>9. SUBSET S \subseteq G
  <2> HIDE DEF G, pick
  <2> QED
    BY <1>1, <1>8, SubsetInduction
<1> QED
  BY <1>7, <1>9 DEF SumsUp

LEMMA PartialEmpty ==
    ASSUME NEW S, NEW f, Summable(S, f)
    PROVE  Partial(S, f)[{}] = 0
  BY PartialSums DEF SumsUp

LEMMA PartialStep ==
    ASSUME NEW S, NEW f, Summable(S, f), NEW s \in SUBSET S, s # {}
    PROVE  Partial(S, f)[s] = f[One(s)] + Partial(S, f)[s \ {One(s)}]
<1> DEFINE h == Partial(S, f)
<1>1. SumsUp(h, S, f)
  BY PartialSums
<1> HIDE DEF h
<1>2. h[s] = f[One(s)] + h[s \ {One(s)}]
  BY <1>1 DEF SumsUp
<1> QED
  BY <1>2 DEF h

LEMMA PartialIsInt ==
    ASSUME NEW S, NEW f, Summable(S, f), NEW s \in SUBSET S
    PROVE  Partial(S, f)[s] \in Int
  BY PartialSums DEF SumsUp

LEMMA SumEmpty ==
    ASSUME NEW f PROVE SumOver({}, f) = 0
<1>1. Summable({}, f)
  BY FS_EmptySet DEF Summable
<1> QED
  BY <1>1, PartialEmpty, SumIsPartial

LEMMA SummableSubset ==
    ASSUME NEW S, NEW f, Summable(S, f), NEW T \in SUBSET S
    PROVE  Summable(T, f)
  BY FS_Subset DEF Summable

LEMMA SumIsInt ==
    ASSUME NEW S, NEW f, Summable(S, f)
    PROVE  SumOver(S, f) \in Int
  BY PartialIsInt, SumIsPartial

\* The sum is that of the partial sums of any larger set, and of any function
\* with the same values.
LEMMA PartialAgrees ==
    ASSUME NEW S, NEW f, Summable(S, f), NEW T \in SUBSET S, NEW e,
           \A x \in T : e[x] = f[x]
    PROVE  SumOver(T, e) = Partial(S, f)[T]
<1> DEFINE pick == [s \in SUBSET T |-> One(s)]
           G == {s \in SUBSET T : Partial(T, e)[s] = Partial(S, f)[s]}
<1>1. Summable(T, e) /\ IsFiniteSet(T)
  BY FS_Subset DEF Summable
<1>2. Picks(pick, T)
  BY OneIsIn DEF Picks
<1>3. Inductive(G, T, pick)
  <2>1. {} \in G
    <3>1. Partial(T, e)[{}] = 0 /\ Partial(S, f)[{}] = 0
      BY <1>1, PartialEmpty
    <3> QED
      BY <3>1
  <2>2. ASSUME NEW s \in SUBSET T, s # {}, s \ {pick[s]} \in G PROVE s \in G
    <3>1. pick[s] = One(s) /\ One(s) \in T /\ s \in SUBSET S
      BY <2>2, OneIsIn
    <3>2. Partial(T, e)[s] = e[One(s)] + Partial(T, e)[s \ {One(s)}]
      BY <1>1, <2>2, PartialStep
    <3>3. Partial(S, f)[s] = f[One(s)] + Partial(S, f)[s \ {One(s)}]
      BY <2>2, <3>1, PartialStep
    <3> QED
      BY <2>2, <3>1, <3>2, <3>3
  <2> QED
    BY <2>1, <2>2 DEF Inductive
<1>4. SUBSET T \subseteq G
  <2> HIDE DEF G, pick
  <2> QED
    BY <1>1, <1>2, <1>3, SubsetInduction
<1>5. T \in G
  BY <1>4
<1> QED
  BY <1>5, SumIsPartial

LEMMA SumSame ==
    ASSUME NEW S, NEW f, Summable(S, f), NEW e, \A x \in S : e[x] = f[x]
    PROVE  SumOver(S, e) = SumOver(S, f)
  BY PartialAgrees, SumIsPartial

\* Any element may be the last to be added.
LEMMA SumWithout ==
    ASSUME NEW S, NEW f, Summable(S, f), NEW x \in S
    PROVE  SumOver(S, f) = f[x] + SumOver(S \ {x}, f)
<1> DEFINE h == Partial(S, f)
           G == {s \in SUBSET S : \A y \in s : h[s] = f[y] + h[s \ {y}]}
<1>1. /\ \A s \in SUBSET S : h[s] \in Int
      /\ \A s \in SUBSET S : s # {} => h[s] = f[One(s)] + h[s \ {One(s)}]
  BY PartialIsInt, PartialStep
<1>2. Hereditary(G, S)
  <2> SUFFICES ASSUME NEW s \in SUBSET S, \A t \in SUBSET s : t # s => t \in G,
                      NEW y \in s
               PROVE  h[s] = f[y] + h[s \ {y}]
    BY DEF Hereditary
  <2> DEFINE z == One(s)
             t == s \ {y, z}
  <2> HIDE DEF h
  <2>1. z \in s /\ h[s] = f[z] + h[s \ {z}]
    BY <1>1, OneIsIn
  <2>2. CASE y = z
    BY <2>1, <2>2
  <2>3. CASE y # z
    <3>1. h[s \ {z}] = f[y] + h[t]
      <4>1. s \ {z} \in G /\ y \in s \ {z} /\ (s \ {z}) \ {y} = t
        BY <2>1, <2>3
      <4> QED
        BY <4>1
    <3>2. h[s \ {y}] = f[z] + h[t]
      <4>1. s \ {y} \in G /\ z \in s \ {y} /\ (s \ {y}) \ {z} = t
        BY <2>1, <2>3
      <4> QED
        BY <4>1
    <3>3. f[y] \in Int /\ f[z] \in Int /\ h[t] \in Int
      BY <1>1, <2>1 DEF Summable
    <3> QED
      BY <2>1, <3>1, <3>2, <3>3
  <2> QED
    BY <2>2, <2>3
<1>3. SUBSET S \subseteq G
  <2>1. IsFiniteSet(S)
    BY DEF Summable
  <2> HIDE DEF G
  <2> QED
    BY <1>2, <2>1, SubsetsInduction
<1>4. h[S] = f[x] + h[S \ {x}]
  BY <1>3
<1>5. SumOver(S \ {x}, f) = h[S \ {x}] /\ SumOver(S, f) = h[S]
  BY PartialAgrees, SumIsPartial
<1> QED
  BY <1>4, <1>5

LEMMA SumOfPart ==
    ASSUME NEW S, NEW f, Summable(S, f), NEW T \in SUBSET S
    PROVE  SumOver(S, f) = SumOver(T, f) + SumOver(S \ T, f)
<1> DEFINE pick == [s \in SUBSET S |-> One(s)]
           G == {s \in SUBSET S : SumOver(S, f) = SumOver(s, f) + SumOver(S \ s, f)}
<1>1. Picks(pick, S) /\ IsFiniteSet(S)
  BY OneIsIn DEF Picks, Summable
<1>2. \A s \in SUBSET S : Summable(s, f) /\ SumOver(s, f) \in Int
  BY SummableSubset, SumIsInt
<1>3. Inductive(G, S, pick)
  <2>1. {} \in G
    <3>1. S \ {} = S
      OBVIOUS
    <3> QED
      BY <1>2, <3>1, SumEmpty
  <2>2. ASSUME NEW s \in SUBSET S, s # {}, s \ {pick[s]} \in G PROVE s \in G
    <3> DEFINE z == One(s)
               u == s \ {z}
    <3>1. pick[s] = z /\ z \in s /\ u \in SUBSET S /\ u \in G /\ f[z] \in Int
      BY <2>2, OneIsIn DEF Summable
    <3>2. SumOver(s, f) = f[z] + SumOver(u, f)
      BY <1>2, <3>1, SumWithout
    <3>3. SumOver(S \ u, f) = f[z] + SumOver(S \ s, f)
      <4>1. S \ u \in SUBSET S /\ z \in S \ u /\ (S \ u) \ {z} = S \ s
        BY <2>2, <3>1
      <4> QED
        BY <1>2, <4>1, SumWithout
    <3>4. SumOver(S, f) = SumOver(u, f) + SumOver(S \ u, f)
      BY <3>1
    <3>5. SumOver(s, f) \in Int /\ SumOver(u, f) \in Int /\ SumOver(S \ s, f) \in Int
      BY <1>2, <3>1
    <3>6. SumOver(S, f) = SumOver(s, f) + SumOver(S \ s, f)
      <4> HIDE DEF z, u
      <4> QED
        BY <3>1, <3>2, <3>3, <3>4, <3>5
    <3> QED
      BY <3>6
  <2> QED
    BY <2>1, <2>2 DEF Inductive
<1>4. SUBSET S \subseteq G
  <2> HIDE DEF G, pick
  <2> QED
    BY <1>1, <1>3, SubsetInduction
<1> QED
  BY <1>4

LEMMA SumIsNat ==
    ASSUME NEW S, NEW f, IsFiniteSet(S), \A x \in S : f[x] \in Nat
    PROVE  SumOver(S, f) \in Nat /\ Summable(S, f)
<1> DEFINE pick == [s \in SUBSET S |-> One(s)]
           G == {s \in SUBSET S : SumOver(s, f) \in Nat}
<1>1. Picks(pick, S) /\ Summable(S, f)
  BY OneIsIn DEF Picks, Summable
<1>2. Inductive(G, S, pick)
  <2>1. {} \in G
    BY SumEmpty
  <2>2. ASSUME NEW s \in SUBSET S, s # {}, s \ {pick[s]} \in G PROVE s \in G
    <3>1. pick[s] = One(s) /\ One(s) \in s
      BY <2>2, OneIsIn
    <3>2. SumOver(s, f) = f[One(s)] + SumOver(s \ {One(s)}, f)
      BY <1>1, <3>1, SummableSubset, SumWithout
    <3> QED
      BY <2>2, <3>1, <3>2
  <2> QED
    BY <2>1, <2>2 DEF Inductive
<1>3. SUBSET S \subseteq G
  <2> HIDE DEF G, pick
  <2> QED
    BY <1>1, <1>2, SubsetInduction
<1> QED
  BY <1>1, <1>3

LEMMA SumGrows ==
    ASSUME NEW S, NEW f, IsFiniteSet(S), \A x \in S : f[x] \in Nat, NEW T \in SUBSET S
    PROVE  SumOver(T, f) <= SumOver(S, f)
<1>1. SumOver(S, f) = SumOver(T, f) + SumOver(S \ T, f)
  BY SumIsNat, SumOfPart
<1>2. SumOver(T, f) \in Nat /\ SumOver(S \ T, f) \in Nat
  <2>1. IsFiniteSet(T) /\ IsFiniteSet(S \ T) /\ S \ T \in SUBSET S
    BY FS_Subset
  <2> QED
    BY <2>1, SumIsNat
<1> QED
  BY <1>1, <1>2

-----------------------------------------------------------------------------
(* Recursion from parents to keys.                                         *)

ParentsOf(k) == Range(Parents[k])

\* G holds every key whose parents it holds.
Ancestral(G) == \A k \in Keys : ParentsOf(k) \subseteq G => k \in G

LEMMA ParentsAreKeys ==
    ASSUME CacheAssumption, NEW k \in Keys
    PROVE  /\ Parents[k] \in Seq(Keys)
           /\ ParentsOf(k) \subseteq Keys
           /\ \A i \in DOMAIN Parents[k] : Parents[k][i] \in ParentsOf(k)
           /\ IsFiniteSet(DOMAIN Parents[k])
<1>1. Parents[k] \in Seq(Keys) /\ DOMAIN Parents[k] = 1 .. Len(Parents[k])
      /\ Len(Parents[k]) \in Nat
  BY DEF CacheAssumption
<1>2. IsFiniteSet(1 .. Len(Parents[k]))
  BY <1>1, FS_Interval
<1> QED
  BY <1>1, <1>2 DEF ParentsOf, Range

LEMMA AncestorsInduction ==
    ASSUME CacheAssumption, ParentsFirst, NEW G, Ancestral(G)
    PROVE  Keys \subseteq G
<1> SUFFICES ASSUME NEW bad \in Keys, bad \notin G
             PROVE  FALSE
  OBVIOUS
<1>1. PICK age \in [Keys -> 0 .. Cardinality(Keys)] :
          \A k \in Keys : \A p \in Range(Parents[k]) : age[p] < age[k]
  BY DEF ParentsFirst
<1> DEFINE T == {n \in Nat : \E k \in Keys : k \notin G /\ age[k] = n}
<1>2. \A k \in Keys : age[k] \in Nat
  BY <1>1, FS_CardinalityType DEF CacheAssumption
<1>3. T # {} /\ T \subseteq Nat
  BY <1>2
<1>4. PICK n \in T : \A m \in T : n <= m
  BY <1>3, LeastNumber
<1>5. PICK k \in Keys : k \notin G /\ age[k] = n
  OBVIOUS
<1>6. PICK p \in ParentsOf(k) : p \notin G
  BY <1>5 DEF Ancestral
<1>7. p \in Keys /\ age[p] < n /\ age[p] \in Nat /\ n \in Nat
  BY <1>1, <1>2, <1>5, <1>6, ParentsAreKeys DEF ParentsOf
<1>8. age[p] \in T
  BY <1>6, <1>7
<1>9. n <= age[p]
  BY <1>4, <1>8
<1> HIDE DEF T
<1> QED
  BY <1>7, <1>9

\* What F makes of a key depends on what it makes of the parents.
Local(F, W) ==
    /\ \A k \in Keys, G \in [Keys -> W] : F[<<k, G>>] \in W
    /\ \A k \in Keys, G \in [Keys -> W], H \in [Keys -> W] :
           (\A p \in ParentsOf(k) : G[p] = H[p]) => F[<<k, G>>] = F[<<k, H>>]

Recurs(G, F, W) == G \in [Keys -> W] /\ \A k \in Keys : G[k] = F[<<k, G>>]

LEMMA RecursionExists ==
    ASSUME CacheAssumption, ParentsFirst, NEW W, W # {}, NEW F, Local(F, W)
    PROVE  \E G : Recurs(G, F, W)
<1>1. PICK age \in [Keys -> 0 .. Cardinality(Keys)] :
          \A k \in Keys : \A p \in Range(Parents[k]) : age[p] < age[k]
  BY DEF ParentsFirst
<1> DEFINE Upto(G, n) == \A k \in Keys : age[k] < n => G[k] = F[<<k, G>>]
           T == {n \in Nat : ~ \E G \in [Keys -> W] : Upto(G, n)}
<1>2. Cardinality(Keys) \in Nat /\ \A k \in Keys : age[k] \in Nat
  BY <1>1, FS_CardinalityType DEF CacheAssumption
<1>3. T = {}
  <2> SUFFICES ASSUME T # {} PROVE FALSE
    OBVIOUS
  <2>1. PICK n \in T : \A m \in T : n <= m
    BY LeastNumber
  <2>2. n \in Nat /\ ~ \E G \in [Keys -> W] : Upto(G, n)
    OBVIOUS
  <2>3. CASE n = 0
    <3>1. PICK w \in W : TRUE
      OBVIOUS
    <3>2. [k \in Keys |-> w] \in [Keys -> W] /\ Upto([k \in Keys |-> w], n)
      BY <1>2, <2>3
    <3> QED
      BY <2>2, <3>2
  <2>4. CASE n # 0
    <3>1. n - 1 \in T => n <= n - 1
      BY <2>1
    <3>2. n - 1 \in Nat /\ n - 1 \notin T
      <4> HIDE DEF T
      <4> QED
        BY <2>2, <2>4, <3>1
    <3>3. PICK G \in [Keys -> W] : Upto(G, n - 1)
      BY <3>2
    <3> DEFINE H == [k \in Keys |-> F[<<k, G>>]]
    <3>4. H \in [Keys -> W]
      BY DEF Local
    <3>5. ASSUME NEW k \in Keys, age[k] < n PROVE H[k] = F[<<k, H>>]
      <4>1. ASSUME NEW p \in ParentsOf(k) PROVE G[p] = H[p]
        <5>1. p \in Keys /\ age[p] < age[k]
          BY <1>1, ParentsAreKeys DEF ParentsOf
        <5>2. age[p] < n - 1
          BY <1>2, <2>2, <3>5, <5>1
        <5> QED
          BY <3>3, <5>1, <5>2
      <4>2. F[<<k, G>>] = F[<<k, H>>]
        <5> HIDE DEF H
        <5> QED
          BY <3>4, <4>1 DEF Local
      <4> QED
        BY <4>2
    <3> QED
      BY <2>2, <3>4, <3>5
  <2> QED
    BY <2>3, <2>4
<1>4. Cardinality(Keys) + 1 \in Nat /\ Cardinality(Keys) + 1 \notin T
  BY <1>2, <1>3
<1>5. PICK G \in [Keys -> W] : Upto(G, Cardinality(Keys) + 1)
  BY <1>4
<1>6. \A k \in Keys : age[k] < Cardinality(Keys) + 1
  BY <1>1, <1>2
<1> QED
  BY <1>5, <1>6 DEF Recurs

\* H is what a fold computes as long as it stays in V.
Follows(V, S, pick, base, step, H) ==
    /\ H[{}] = base
    /\ \A s \in SUBSET S : s # {} /\ H[s \ {pick[s]}] \in V
                               => H[s] = step[<<pick[s], H[s \ {pick[s]}]>>]

LEMMA FoldStays ==
    ASSUME NEW S, IsFiniteSet(S), NEW pick, Picks(pick, S),
           NEW V, NEW base, NEW step, StaysIn(V, S, base, step),
           NEW H, Follows(V, S, pick, base, step, H)
    PROVE  \A s \in SUBSET S : H[s] \in V
<1> DEFINE G == {s \in SUBSET S : H[s] \in V}
<1>1. Inductive(G, S, pick)
  <2>1. {} \in G
    BY DEF Follows, StaysIn
  <2>2. ASSUME NEW s \in SUBSET S, s # {}, s \ {pick[s]} \in G PROVE s \in G
    <3>1. pick[s] \in S /\ H[s \ {pick[s]}] \in V
      BY <2>2 DEF Picks
    <3>2. H[s] = step[<<pick[s], H[s \ {pick[s]}]>>]
      BY <2>2, <3>1 DEF Follows
    <3> QED
      BY <3>1, <3>2 DEF StaysIn
  <2> QED
    BY <2>1, <2>2 DEF Inductive
<1>2. SUBSET S \subseteq G
  <2> HIDE DEF G
  <2> QED
    BY <1>1, SubsetInduction
<1> QED
  BY <1>2

\* Over the numbers up to n, a fold that takes the last number last goes step
\* by step.
MaxOf(n) == [s \in SUBSET (1 .. n) |-> Max(s)]
Chain(h, n, V, base, step) ==
    /\ h \in [0 .. n -> V]
    /\ h[0] = base
    /\ \A i \in 1 .. n : h[i] = step[<<i, h[i - 1]>>]

LEMMA MaxOfPicks ==
    ASSUME NEW n \in Nat PROVE Picks(MaxOf(n), 1 .. n) /\ IsFiniteSet(1 .. n)
<1>1. ASSUME NEW s \in SUBSET (1 .. n), s # {} PROVE MaxOf(n)[s] \in s
  BY <1>1, MaxIsLast DEF MaxOf
<1> QED
  BY <1>1, FS_Interval DEF Picks

LEMMA ChainExists ==
    ASSUME NEW n \in Nat, NEW V, NEW base, NEW step, StaysIn(V, 1 .. n, base, step),
           NEW H, Follows(V, 1 .. n, MaxOf(n), base, step, H)
    PROVE  \E h : Chain(h, n, V, base, step) /\ h[n] = H[1 .. n]
<1> DEFINE h == [i \in 0 .. n |-> H[1 .. i]]
<1>1. \A s \in SUBSET (1 .. n) : H[s] \in V
  BY MaxOfPicks, FoldStays
<1>2. h \in [0 .. n -> V] /\ h[n] = H[1 .. n]
  BY <1>1
<1>3. h[0] = base
  <2>1. 1 .. 0 = {}
    OBVIOUS
  <2> QED
    BY <2>1 DEF Follows
<1>4. ASSUME NEW i \in 1 .. n PROVE h[i] = step[<<i, h[i - 1]>>]
  <2>1. 1 .. i \in SUBSET (1 .. n) /\ i \in 1 .. i
    OBVIOUS
  <2>2. Max(1 .. i) = i
    <3>1. Max(1 .. i) \in 1 .. i /\ i <= Max(1 .. i)
      BY <2>1, MaxIsLast
    <3> QED
      BY <3>1
  <2>3. MaxOf(n)[1 .. i] = i /\ (1 .. i) \ {i} = 1 .. (i - 1)
    BY <2>1, <2>2 DEF MaxOf
  <2>4. H[1 .. (i - 1)] \in V
    BY <1>1
  <2>5. H[1 .. i] = step[<<i, H[1 .. (i - 1)]>>]
    BY <2>1, <2>3, <2>4 DEF Follows
  <2> QED
    BY <2>5
<1> QED
  BY <1>2, <1>3, <1>4 DEF Chain

\* Induction along a chain.
LEMMA UptoInduction ==
    ASSUME NEW n \in Nat, NEW G, 0 \in G, \A i \in 1 .. n : i - 1 \in G => i \in G
    PROVE  0 .. n \subseteq G
<1> SUFFICES ASSUME NEW bad \in 0 .. n, bad \notin G
             PROVE  FALSE
  OBVIOUS
<1> DEFINE T == {m \in 0 .. n : m \notin G}
<1>1. PICK m \in T : \A o \in T : m <= o
  <2>1. T \subseteq Nat /\ T # {}
    OBVIOUS
  <2> HIDE DEF T
  <2> QED
    BY <2>1, LeastNumber
<1>2. m \in 1 .. n /\ m - 1 \in 0 .. n
  BY <1>1
<1>3. m - 1 \notin T
  <2>1. m - 1 \in T => m <= m - 1
    BY <1>1
  <2> HIDE DEF T
  <2> QED
    BY <1>2, <2>1
<1> QED
  BY <1>2, <1>3

-----------------------------------------------------------------------------
(* References through the parents of a key.                                *)

Counts == [Keys -> Int]
FoldThrough(G, refs, k) == FoldLeft(LAMBDA kept, p : G[p][kept], refs, Parents[k])
Through(G, refs, k) ==
    CHOOSE g : g = [s \in SUBSET DOMAIN Parents[k] |->
        IF s = {} THEN refs ELSE G[Parents[k][Max(s)]][g[s \ {Max(s)}]]]

LEMMA FoldThroughIs ==
    ASSUME NEW G, NEW refs, NEW k
    PROVE FoldThrough(G, refs, k) = Through(G, refs, k)[DOMAIN Parents[k]]
  BY Zenon DEF FoldThrough, Through, FoldLeft, MapThenFoldSet

\* h is refs after every parent of k, one after the other.
Passes(h, G, refs, k) ==
    /\ h \in [0 .. Len(Parents[k]) -> Counts]
    /\ h[0] = refs
    /\ \A i \in 1 .. Len(Parents[k]) : h[i] = G[Parents[k][i]][h[i - 1]]

Maps(G, k) == \A p \in ParentsOf(k) : G[p] \in [Counts -> Counts]

LEMMA PassesExists ==
    ASSUME CacheAssumption, NEW k \in Keys, NEW refs \in Counts, NEW G, Maps(G, k)
    PROVE  \E h : Passes(h, G, refs, k) /\ FoldThrough(G, refs, k) = h[Len(Parents[k])]
<1> DEFINE n == Len(Parents[k])
           D == DOMAIN Parents[k]
           pick == MaxOf(n)
           step == [z \in D \X Counts |-> G[Parents[k][z[1]]][z[2]]]
           Q(g) == g = [s \in SUBSET D |->
                            IF s = {} THEN refs ELSE G[Parents[k][Max(s)]][g[s \ {Max(s)}]]]
           H == Through(G, refs, k)
<1>1. n \in Nat /\ D = 1 .. n /\ \A i \in D : Parents[k][i] \in ParentsOf(k)
  BY ParentsAreKeys
<1>2. Picks(pick, D) /\ IsFiniteSet(D)
  BY <1>1, MaxOfPicks
<1>3. \A i \in D, v \in Counts : step[<<i, v>>] = G[Parents[k][i]][v]
  OBVIOUS
<1>4. StaysIn(Counts, D, refs, step)
  BY <1>1, <1>3 DEF StaysIn, Maps
<1>5. PICK g : FoldIn(Counts, D, pick, refs, step, g)
  <2> HIDE DEF pick, step, D
  <2> QED
    BY <1>2, <1>4, FoldExists
<1>6. \A s \in SUBSET D : pick[s] = Max(s)
  BY DEF MaxOf
<1>7. Q(g)
  <2>1. g = [s \in SUBSET D |-> g[s]] /\ g[{}] = refs
    BY <1>5 DEF FoldIn
  <2>2. ASSUME NEW s \in SUBSET D, s # {}
        PROVE  g[s] = G[Parents[k][Max(s)]][g[s \ {Max(s)}]]
    <3>1. pick[s] = Max(s) /\ Max(s) \in D /\ g[s \ {Max(s)}] \in Counts
      BY <1>2, <1>5, <1>6, <2>2 DEF FoldIn, Picks
    <3> QED
      BY <1>3, <1>5, <2>2, <3>1, ZenonT(60) DEF FoldIn
  <2> QED
    BY <2>1, <2>2, Zenon
<1>8. Q(H)
  BY <1>1, <1>7 DEF Through
<1>9. Follows(Counts, D, pick, refs, step, H)
  <2>1. H[{}] = refs
    BY <1>8
  <2>2. ASSUME NEW s \in SUBSET D, s # {}, H[s \ {pick[s]}] \in Counts
        PROVE  H[s] = step[<<pick[s], H[s \ {pick[s]}]>>]
    <3>1. pick[s] = Max(s) /\ Max(s) \in D
      BY <1>2, <1>6, <2>2 DEF Picks
    <3>2. H[s] = G[Parents[k][Max(s)]][H[s \ {Max(s)}]]
      BY <1>8, <2>2
    <3> QED
      BY <1>3, <2>2, <3>1, <3>2
  <2> HIDE DEF H, pick, step, D
  <2> QED
    BY <2>1, <2>2 DEF Follows
<1>10. PICK h : Chain(h, n, Counts, refs, step) /\ h[n] = H[D]
  <2> HIDE DEF H, step, n
  <2> QED
    BY <1>1, <1>4, <1>9, ChainExists
<1>11. Passes(h, G, refs, k)
  <2>1. h \in [0 .. n -> Counts] /\ h[0] = refs
    BY <1>10 DEF Chain
  <2>2. ASSUME NEW i \in 1 .. n PROVE h[i] = G[Parents[k][i]][h[i - 1]]
    <3>1. i \in D /\ i - 1 \in 0 .. n
      BY <1>1
    <3>2. h[i] = step[<<i, h[i - 1]>>]
      <4> HIDE DEF step, n
      <4> QED
        BY <1>10 DEF Chain
    <3>3. h[i - 1] \in Counts
      BY <2>1, <3>1
    <3> QED
      BY <1>3, <3>1, <3>2, <3>3
  <2> QED
    BY <2>1, <2>2 DEF Passes
<1> QED
  BY <1>1, <1>10, <1>11, FoldThroughIs

LEMMA FoldThroughType ==
    ASSUME CacheAssumption, NEW k \in Keys, NEW refs \in Counts, NEW G, Maps(G, k)
    PROVE  FoldThrough(G, refs, k) \in Counts
<1>1. PICK h : Passes(h, G, refs, k) /\ FoldThrough(G, refs, k) = h[Len(Parents[k])]
  BY PassesExists
<1>2. Len(Parents[k]) \in 0 .. Len(Parents[k])
  <2>1. Len(Parents[k]) \in Nat
    BY ParentsAreKeys
  <2> QED
    BY <2>1
<1>3. \A i \in 0 .. Len(Parents[k]) : h[i] \in Counts
  BY <1>1 DEF Passes
<1> QED
  BY <1>1, <1>2, <1>3

AgreeOn(G, H, k) == \A p \in ParentsOf(k) : G[p] = H[p]

LEMMA FoldThroughLocal ==
    ASSUME CacheAssumption, NEW k \in Keys, NEW refs \in Counts,
           NEW G, Maps(G, k), NEW H, AgreeOn(G, H, k)
    PROVE  FoldThrough(G, refs, k) = FoldThrough(H, refs, k)
<1> DEFINE n == Len(Parents[k])
<1>1. Maps(H, k)
  BY DEF Maps, AgreeOn
<1>2. PICK g : Passes(g, G, refs, k) /\ FoldThrough(G, refs, k) = g[n]
  BY PassesExists
<1>3. PICK h : Passes(h, H, refs, k) /\ FoldThrough(H, refs, k) = h[n]
  BY <1>1, PassesExists
<1>4. n \in Nat /\ \A i \in 1 .. n : Parents[k][i] \in ParentsOf(k)
  BY ParentsAreKeys
<1> DEFINE E == {i \in 0 .. n : g[i] = h[i]}
<1>5. 0 \in E
  BY <1>2, <1>3, <1>4 DEF Passes
<1>6. ASSUME NEW i \in 1 .. n, i - 1 \in E PROVE i \in E
  <2>1. g[i] = G[Parents[k][i]][g[i - 1]] /\ h[i] = H[Parents[k][i]][h[i - 1]]
    BY <1>2, <1>3 DEF Passes
  <2>2. G[Parents[k][i]] = H[Parents[k][i]]
    BY <1>4 DEF AgreeOn
  <2> QED
    BY <1>4, <1>6, <2>1, <2>2
<1>7. 0 .. n \subseteq E
  <2> HIDE DEF E, n
  <2> QED
    BY <1>4, <1>5, <1>6, UptoInduction
<1> QED
  BY <1>2, <1>3, <1>4, <1>7, SMTT(30)

GainIn(G, k) ==
    [refs \in [Keys -> Int] |->
        IF k \in Kept(refs) THEN [refs EXCEPT ![k] = @ + 1]
        ELSE [FoldThrough(G, refs, k) EXCEPT ![k] = 1]]
LossIn(G, k) ==
    [refs \in [Keys -> Int] |->
        LET fewer == [refs EXCEPT ![k] = @ - 1]
        IN IF k \in Kept(fewer) THEN fewer ELSE FoldThrough(G, fewer, k)]

LEMMA GainedIs == Gained = CHOOSE G : G = [k \in Keys |-> GainIn(G, k)]
  BY Zenon DEF Gained, GainIn, FoldThrough
LEMMA LostIs == Lost = CHOOSE G : G = [k \in Keys |-> LossIn(G, k)]
  BY Zenon DEF Lost, LossIn, FoldThrough

LEMMA GainInLocal ==
    ASSUME CacheAssumption, NEW k \in Keys, NEW G, Maps(G, k)
    PROVE  /\ GainIn(G, k) \in [Counts -> Counts]
           /\ \A H : AgreeOn(G, H, k) => GainIn(G, k) = GainIn(H, k)
<1>1. ASSUME NEW refs \in Counts
      PROVE  /\ FoldThrough(G, refs, k) \in Counts
             /\ \A H : AgreeOn(G, H, k) => FoldThrough(G, refs, k) = FoldThrough(H, refs, k)
  BY FoldThroughType, FoldThroughLocal
<1>2. ASSUME NEW refs \in Counts PROVE GainIn(G, k)[refs] \in Counts
  <2>1. [refs EXCEPT ![k] = @ + 1] \in Counts
    BY DEF Counts
  <2>2. [FoldThrough(G, refs, k) EXCEPT ![k] = 1] \in Counts
    BY <1>1 DEF Counts
  <2> QED
    BY <2>1, <2>2 DEF GainIn, Counts
<1>3. GainIn(G, k) \in [Counts -> Counts]
  <2>1. GainIn(G, k) = [refs \in Counts |-> GainIn(G, k)[refs]]
    BY DEF GainIn, Counts
  <2> QED
    BY <1>2, <2>1
<1>4. ASSUME NEW H, AgreeOn(G, H, k) PROVE GainIn(G, k) = GainIn(H, k)
  <2>1. ASSUME NEW refs \in Counts PROVE FoldThrough(G, refs, k) = FoldThrough(H, refs, k)
    BY <1>1, <1>4
  <2> QED
    BY <2>1 DEF GainIn, Counts
<1> QED
  BY <1>3, <1>4

LEMMA LossInLocal ==
    ASSUME CacheAssumption, NEW k \in Keys, NEW G, Maps(G, k)
    PROVE  /\ LossIn(G, k) \in [Counts -> Counts]
           /\ \A H : AgreeOn(G, H, k) => LossIn(G, k) = LossIn(H, k)
<1>1. ASSUME NEW refs \in Counts
      PROVE  /\ [refs EXCEPT ![k] = @ - 1] \in Counts
             /\ FoldThrough(G, [refs EXCEPT ![k] = @ - 1], k) \in Counts
             /\ \A H : AgreeOn(G, H, k) => FoldThrough(G, [refs EXCEPT ![k] = @ - 1], k)
                                           = FoldThrough(H, [refs EXCEPT ![k] = @ - 1], k)
  <2>1. [refs EXCEPT ![k] = @ - 1] \in Counts
    BY DEF Counts
  <2> QED
    BY <2>1, FoldThroughType, FoldThroughLocal
<1>2. ASSUME NEW refs \in Counts PROVE LossIn(G, k)[refs] \in Counts
  BY <1>1 DEF LossIn, Counts
<1>3. LossIn(G, k) \in [Counts -> Counts]
  <2>1. LossIn(G, k) = [refs \in Counts |-> LossIn(G, k)[refs]]
    BY DEF LossIn, Counts
  <2> QED
    BY <1>2, <2>1
<1>4. ASSUME NEW H, AgreeOn(G, H, k) PROVE LossIn(G, k) = LossIn(H, k)
  <2>1. ASSUME NEW refs \in Counts
        PROVE FoldThrough(G, [refs EXCEPT ![k] = @ - 1], k)
              = FoldThrough(H, [refs EXCEPT ![k] = @ - 1], k)
    BY <1>1, <1>4
  <2> QED
    BY <2>1 DEF LossIn, Counts
<1> QED
  BY <1>3, <1>4

LEMMA MapsOf ==
    ASSUME CacheAssumption, NEW G \in [Keys -> [Counts -> Counts]], NEW k \in Keys
    PROVE  Maps(G, k)
  BY ParentsAreKeys DEF Maps

\* Gained and Lost are the functions their equations describe.
LEMMA GainedSolves ==
    ASSUME CacheAssumption, ParentsFirst
    PROVE  /\ Gained \in [Keys -> [Counts -> Counts]]
           /\ \A k \in Keys : Gained[k] = GainIn(Gained, k)
<1> DEFINE W == [Counts -> Counts]
           F == [z \in Keys \X [Keys -> W] |-> GainIn(z[2], z[1])]
<1>1. \A k \in Keys, G \in [Keys -> W] : F[<<k, G>>] = GainIn(G, k)
  OBVIOUS
<1>2. Local(F, W)
  <2>1. ASSUME NEW k \in Keys, NEW G \in [Keys -> W] PROVE F[<<k, G>>] \in W
    BY <1>1, MapsOf, GainInLocal
  <2>2. ASSUME NEW k \in Keys, NEW G \in [Keys -> W], NEW H \in [Keys -> W],
               \A p \in ParentsOf(k) : G[p] = H[p]
        PROVE  F[<<k, G>>] = F[<<k, H>>]
    <3>1. AgreeOn(G, H, k)
      BY <2>2 DEF AgreeOn
    <3> QED
      BY <1>1, <3>1, MapsOf, GainInLocal, ZenonT(60)
  <2> HIDE DEF F, W
  <2> QED
    BY <2>1, <2>2 DEF Local
<1>3. W # {}
  <2>1. [refs \in Counts |-> refs] \in W
    OBVIOUS
  <2> QED
    BY <2>1
<1>4. PICK G : Recurs(G, F, W)
  <2> HIDE DEF F, W
  <2> QED
    BY <1>2, <1>3, RecursionExists
<1>5. G = [k \in Keys |-> GainIn(G, k)]
  <2>1. G = [k \in Keys |-> G[k]]
    BY <1>4 DEF Recurs
  <2>2. \A k \in Keys : G[k] = GainIn(G, k)
    BY <1>1, <1>4 DEF Recurs
  <2> QED
    BY <2>1, <2>2
<1>6. Gained = [k \in Keys |-> GainIn(Gained, k)]
  BY <1>5, GainedIs
<1>7. \A k \in Keys : Gained[k] = GainIn(Gained, k)
  BY <1>6
<1> DEFINE A == {k \in Keys : Gained[k] \in W}
<1>8. Ancestral(A)
  <2> SUFFICES ASSUME NEW k \in Keys, ParentsOf(k) \subseteq A PROVE Gained[k] \in W
    BY DEF Ancestral
  <2>1. Maps(Gained, k)
    BY DEF Maps
  <2> QED
    BY <1>7, <2>1, GainInLocal
<1>9. Keys \subseteq A
  <2> HIDE DEF A
  <2> QED
    BY <1>8, AncestorsInduction
<1>10. Gained \in [Keys -> W]
  <2> HIDE DEF W
  <2>1. \A k \in Keys : Gained[k] \in W
    BY <1>9
  <2> QED
    BY <1>6, <2>1
<1> QED
  BY <1>7, <1>10

LEMMA LostSolves ==
    ASSUME CacheAssumption, ParentsFirst
    PROVE  /\ Lost \in [Keys -> [Counts -> Counts]]
           /\ \A k \in Keys : Lost[k] = LossIn(Lost, k)
<1> DEFINE W == [Counts -> Counts]
           F == [z \in Keys \X [Keys -> W] |-> LossIn(z[2], z[1])]
<1>1. \A k \in Keys, G \in [Keys -> W] : F[<<k, G>>] = LossIn(G, k)
  OBVIOUS
<1>2. Local(F, W)
  <2>1. ASSUME NEW k \in Keys, NEW G \in [Keys -> W] PROVE F[<<k, G>>] \in W
    BY <1>1, MapsOf, LossInLocal
  <2>2. ASSUME NEW k \in Keys, NEW G \in [Keys -> W], NEW H \in [Keys -> W],
               \A p \in ParentsOf(k) : G[p] = H[p]
        PROVE  F[<<k, G>>] = F[<<k, H>>]
    <3>1. AgreeOn(G, H, k)
      BY <2>2 DEF AgreeOn
    <3> QED
      BY <1>1, <3>1, MapsOf, LossInLocal, ZenonT(60)
  <2> HIDE DEF F, W
  <2> QED
    BY <2>1, <2>2 DEF Local
<1>3. W # {}
  <2>1. [refs \in Counts |-> refs] \in W
    OBVIOUS
  <2> QED
    BY <2>1
<1>4. PICK G : Recurs(G, F, W)
  <2> HIDE DEF F, W
  <2> QED
    BY <1>2, <1>3, RecursionExists
<1>5. G = [k \in Keys |-> LossIn(G, k)]
  <2>1. G = [k \in Keys |-> G[k]]
    BY <1>4 DEF Recurs
  <2>2. \A k \in Keys : G[k] = LossIn(G, k)
    BY <1>1, <1>4 DEF Recurs
  <2> QED
    BY <2>1, <2>2
<1>6. Lost = [k \in Keys |-> LossIn(Lost, k)]
  BY <1>5, LostIs
<1>7. \A k \in Keys : Lost[k] = LossIn(Lost, k)
  BY <1>6
<1> DEFINE A == {k \in Keys : Lost[k] \in W}
<1>8. Ancestral(A)
  <2> SUFFICES ASSUME NEW k \in Keys, ParentsOf(k) \subseteq A PROVE Lost[k] \in W
    BY DEF Ancestral
  <2>1. Maps(Lost, k)
    BY DEF Maps
  <2> QED
    BY <1>7, <2>1, LossInLocal
<1>9. Keys \subseteq A
  <2> HIDE DEF A
  <2> QED
    BY <1>8, AncestorsInduction
<1>10. Lost \in [Keys -> W]
  <2> HIDE DEF W
  <2>1. \A k \in Keys : Lost[k] \in W
    BY <1>9
  <2> QED
    BY <1>6, <2>1
<1> QED
  BY <1>7, <1>10

LEMMA GainedStep ==
    ASSUME CacheAssumption, ParentsFirst, NEW k \in Keys, NEW refs \in Counts
    PROVE  /\ Gained[k][refs] \in Counts
           /\ k \in Kept(refs) => Gained[k][refs] = [refs EXCEPT ![k] = @ + 1]
           /\ k \notin Kept(refs) =>
                  \E h : /\ Passes(h, Gained, refs, k)
                         /\ Gained[k][refs] = [h[Len(Parents[k])] EXCEPT ![k] = 1]
<1>1. Gained[k] = GainIn(Gained, k) /\ Gained[k][refs] \in Counts
  BY GainedSolves, ZenonT(60)
<1>2. \E h : Passes(h, Gained, refs, k) /\ FoldThrough(Gained, refs, k) = h[Len(Parents[k])]
  BY GainedSolves, MapsOf, PassesExists
<1>3. Gained[k][refs] = IF k \in Kept(refs) THEN [refs EXCEPT ![k] = @ + 1]
                        ELSE [FoldThrough(Gained, refs, k) EXCEPT ![k] = 1]
  BY <1>1 DEF GainIn, Counts
<1> QED
  BY <1>1, <1>2, <1>3

LEMMA LostStep ==
    ASSUME CacheAssumption, ParentsFirst, NEW k \in Keys, NEW refs \in Counts,
           NEW fewer, fewer = [refs EXCEPT ![k] = @ - 1]
    PROVE  /\ Lost[k][refs] \in Counts
           /\ fewer \in Counts
           /\ k \in Kept(fewer) => Lost[k][refs] = fewer
           /\ k \notin Kept(fewer) =>
                  \E h : Passes(h, Lost, fewer, k) /\ Lost[k][refs] = h[Len(Parents[k])]
<1>1. Lost[k] = LossIn(Lost, k) /\ Lost[k][refs] \in Counts
  BY LostSolves, ZenonT(60)
<1>2. fewer \in Counts
  BY DEF Counts
<1>3. \E h : Passes(h, Lost, fewer, k) /\ FoldThrough(Lost, fewer, k) = h[Len(Parents[k])]
  BY <1>2, LostSolves, MapsOf, PassesExists
<1>4. Lost[k][refs] = IF k \in Kept(fewer) THEN fewer ELSE FoldThrough(Lost, fewer, k)
  BY <1>1 DEF LossIn, Counts
<1> QED
  BY <1>1, <1>2, <1>3, <1>4

LEMMA PassTypes ==
    ASSUME CacheAssumption, NEW k \in Keys, NEW G, NEW refs, NEW h, Passes(h, G, refs, k)
    PROVE  /\ Len(Parents[k]) \in Nat
           /\ h[0] = refs
           /\ \A i \in 0 .. Len(Parents[k]) : h[i] \in Counts
           /\ \A i \in 1 .. Len(Parents[k]) :
                  /\ Parents[k][i] \in ParentsOf(k) /\ Parents[k][i] \in Keys
                  /\ i - 1 \in 0 .. Len(Parents[k])
                  /\ h[i] = G[Parents[k][i]][h[i - 1]]
<1>1. Len(Parents[k]) \in Nat /\ DOMAIN Parents[k] = 1 .. Len(Parents[k])
  BY ParentsAreKeys
<1>2. \A i \in 1 .. Len(Parents[k]) : Parents[k][i] \in ParentsOf(k) /\ Parents[k][i] \in Keys
  BY <1>1, ParentsAreKeys
<1> QED
  BY <1>1, <1>2, SMTT(30) DEF Passes

-----------------------------------------------------------------------------
(* A key gains no reference through one of its own parents.                *)

Aged(age) ==
    /\ age \in [Keys -> 0 .. Cardinality(Keys)]
    /\ \A k \in Keys : \A p \in Range(Parents[k]) : age[p] < age[k]
LeavesOlder(age, k) ==
    \A refs \in Counts : \A x \in Keys :
        age[k] <= age[x] /\ x # k => Gained[k][refs][x] = refs[x]
ParentsLeaveOlder(age, k) == \A p \in ParentsOf(k) : LeavesOlder(age, p)

LEMMA AgedIsInt ==
    ASSUME CacheAssumption, NEW age, Aged(age)
    PROVE  \A k \in Keys : age[k] \in Int
  BY FS_CardinalityType DEF Aged, CacheAssumption

LEMMA PassesLeaveOlder ==
    ASSUME CacheAssumption, NEW age, Aged(age), NEW k \in Keys, NEW refs \in Counts,
           ParentsLeaveOlder(age, k),
           NEW h, Passes(h, Gained, refs, k),
           NEW x \in Keys, age[k] <= age[x]
    PROVE  h[Len(Parents[k])][x] = refs[x]
<1> DEFINE n == Len(Parents[k])
           E == {i \in 0 .. n : h[i][x] = refs[x]}
<1>1. 0 \in E
  BY PassTypes
<1>2. ASSUME NEW i \in 1 .. n, i - 1 \in E PROVE i \in E
  <2> DEFINE p == Parents[k][i]
  <2>1. p \in ParentsOf(k) /\ p \in Keys /\ h[i] = Gained[p][h[i - 1]] /\ h[i - 1] \in Counts
    BY PassTypes
  <2>2. age[p] < age[k] /\ age[p] \in Int /\ age[k] \in Int /\ age[x] \in Int
    BY <2>1, AgedIsInt DEF Aged, ParentsOf
  <2>3. age[p] <= age[x] /\ x # p
    <3> HIDE DEF p
    <3> QED
      BY <2>2
  <2>4. h[i][x] = h[i - 1][x]
    <3> HIDE DEF p
    <3> QED
      BY <2>1, <2>3 DEF ParentsLeaveOlder, LeavesOlder
  <2> QED
    BY <1>2, <2>4
<1>3. n \in Nat
  BY PassTypes
<1>4. 0 .. n \subseteq E
  <2> HIDE DEF E, n
  <2> QED
    BY <1>1, <1>2, <1>3, UptoInduction
<1> QED
  BY <1>3, <1>4

LEMMA GainedLeavesOlder ==
    ASSUME CacheAssumption, ParentsFirst, NEW age, Aged(age)
    PROVE  \A k \in Keys : LeavesOlder(age, k)
<1> DEFINE A == {k \in Keys : LeavesOlder(age, k)}
<1>1. Ancestral(A)
  <2> SUFFICES ASSUME NEW k \in Keys, ParentsOf(k) \subseteq A PROVE LeavesOlder(age, k)
    BY DEF Ancestral
  <2> SUFFICES ASSUME NEW refs \in Counts, NEW x \in Keys, age[k] <= age[x], x # k
               PROVE  Gained[k][refs][x] = refs[x]
    BY DEF LeavesOlder
  <2>1. CASE k \in Kept(refs)
    <3>1. Gained[k][refs] = [refs EXCEPT ![k] = @ + 1]
      BY <2>1, GainedStep
    <3> QED
      BY <3>1 DEF Counts
  <2>2. CASE k \notin Kept(refs)
    <3>1. PICK h : /\ Passes(h, Gained, refs, k)
                   /\ Gained[k][refs] = [h[Len(Parents[k])] EXCEPT ![k] = 1]
      BY <2>2, GainedStep
    <3>2. h[Len(Parents[k])][x] = refs[x]
      <4>1. ParentsLeaveOlder(age, k)
        BY DEF ParentsLeaveOlder
      <4> QED
        BY <3>1, <4>1, PassesLeaveOlder
    <3>3. h[Len(Parents[k])] \in Counts
      BY <3>1, PassTypes
    <3> QED
      BY <3>1, <3>2, <3>3 DEF Counts
  <2> QED
    BY <2>1, <2>2
<1>2. Keys \subseteq A
  <2> HIDE DEF A
  <2> QED
    BY <1>1, AncestorsInduction
<1> QED
  BY <1>2

LEMMA ParentsLeave ==
    ASSUME CacheAssumption, ParentsFirst, NEW k \in Keys, NEW refs \in Counts,
           NEW h, Passes(h, Gained, refs, k)
    PROVE  h[Len(Parents[k])][k] = refs[k]
<1>1. PICK age : Aged(age)
  BY DEF ParentsFirst, Aged
<1>2. age[k] <= age[k]
  BY <1>1, AgedIsInt
<1>3. ParentsLeaveOlder(age, k)
  BY <1>1, GainedLeavesOlder, ParentsAreKeys DEF ParentsLeaveOlder
<1> QED
  BY <1>1, <1>2, <1>3, PassesLeaveOlder

Mentioned(q) == [p \in Keys |-> Mentions(q, p)]
MentionsIn(K, q) == SumOver(K, Mentioned(q))
\* Every key is referred to e[q] times from outside, and by the kept keys.
Counted(refs, e) ==
    /\ refs \in Counts
    /\ e \in [Keys -> Nat]
    /\ \A q \in Keys : refs[q] = e[q] + MentionsIn(Kept(refs), q)

LEMMA MentionsIsNat ==
    ASSUME CacheAssumption, NEW q \in Keys, NEW p \in Keys
    PROVE  /\ Mentions(q, p) \in Nat
           /\ q \in ParentsOf(p) => Mentions(q, p) > 0
<1> DEFINE M == {i \in DOMAIN Parents[p] : Parents[p][i] = q}
<1>1. IsFiniteSet(M) /\ Cardinality(M) \in Nat
  BY ParentsAreKeys, FS_Subset, FS_CardinalityType
<1>2. q \in ParentsOf(p) => M # {}
  BY DEF ParentsOf, Range
<1>3. M # {} => Cardinality(M) # 0
  BY <1>1, FS_EmptySet
<1> QED
  BY <1>1, <1>2, <1>3 DEF Mentions

LEMMA MentionsInIsNat ==
    ASSUME CacheAssumption, NEW q \in Keys, NEW K \in SUBSET Keys
    PROVE  /\ MentionsIn(K, q) \in Nat
           /\ IsFiniteSet(K) /\ Summable(K, Mentioned(q))
           /\ \A p \in K : Mentioned(q)[p] = Mentions(q, p) /\ Mentions(q, p) \in Nat
<1>1. IsFiniteSet(K)
  BY FS_Subset DEF CacheAssumption
<1>2. \A p \in K : Mentioned(q)[p] = Mentions(q, p) /\ Mentions(q, p) \in Nat
  BY MentionsIsNat DEF Mentioned
<1>3. \A p \in K : Mentioned(q)[p] \in Nat
  BY <1>2
<1> QED
  BY <1>1, <1>2, <1>3, SumIsNat DEF MentionsIn

LEMMA MentionsWithout ==
    ASSUME CacheAssumption, NEW q \in Keys, NEW K \in SUBSET Keys, NEW k \in K
    PROVE  MentionsIn(K, q) = Mentions(q, k) + MentionsIn(K \ {k}, q)
  BY MentionsInIsNat, SumWithout DEF MentionsIn

LEMMA KeptAreKeys == ASSUME NEW refs PROVE Kept(refs) \in SUBSET Keys
  BY DEF Kept

LEMMA CountedClosed ==
    ASSUME CacheAssumption, NEW refs, NEW e, Counted(refs, e),
           NEW k \in Kept(refs), NEW p \in ParentsOf(k)
    PROVE  p \in Kept(refs)
<1>1. k \in Keys /\ p \in Keys
  BY ParentsAreKeys DEF Kept
<1>2. MentionsIn(Kept(refs), p) = Mentions(p, k) + MentionsIn(Kept(refs) \ {k}, p)
  BY <1>1, KeptAreKeys, MentionsWithout
<1>3. Mentions(p, k) > 0 /\ Mentions(p, k) \in Nat
  BY <1>1, MentionsIsNat
<1>4. MentionsIn(Kept(refs) \ {k}, p) \in Nat
  BY <1>1, KeptAreKeys, MentionsInIsNat
<1>5. refs[p] = e[p] + MentionsIn(Kept(refs), p) /\ e[p] \in Nat
  BY <1>1 DEF Counted
<1> QED
  BY <1>1, <1>2, <1>3, <1>4, <1>5 DEF Kept

LEMMA CountedIsNat ==
    ASSUME CacheAssumption, NEW refs, NEW e, Counted(refs, e), NEW q \in Keys
    PROVE  /\ refs[q] \in Nat /\ e[q] \in Nat /\ MentionsIn(Kept(refs), q) \in Nat
           /\ refs[q] = e[q] + MentionsIn(Kept(refs), q)
<1>1. MentionsIn(Kept(refs), q) \in Nat
  BY KeptAreKeys, MentionsInIsNat
<1>2. e[q] \in Nat /\ refs[q] = e[q] + MentionsIn(Kept(refs), q)
  BY DEF Counted
<1> QED
  BY <1>1, <1>2

\* How often q is among the first i parents of k.
Among(q, k, i) == Cardinality({j \in 1 .. i : Parents[k][j] = q})

LEMMA AmongSteps ==
    ASSUME CacheAssumption, NEW q \in Keys, NEW k \in Keys
    PROVE  /\ Among(q, k, 0) = 0
           /\ Among(q, k, Len(Parents[k])) = Mentions(q, k)
           /\ \A i \in 0 .. Len(Parents[k]) : Among(q, k, i) \in Nat
                                              /\ Among(q, k, i) <= Mentions(q, k)
           /\ \A i \in 1 .. Len(Parents[k]) :
                  Among(q, k, i) = Among(q, k, i - 1) + (IF Parents[k][i] = q THEN 1 ELSE 0)
<1> DEFINE n == Len(Parents[k])
           M(i) == {j \in 1 .. i : Parents[k][j] = q}
<1>1. n \in Nat /\ DOMAIN Parents[k] = 1 .. n
  BY ParentsAreKeys
<1>2. \A i \in 0 .. n : IsFiniteSet(M(i)) /\ Cardinality(M(i)) \in Nat
  <2> SUFFICES ASSUME NEW i \in 0 .. n PROVE IsFiniteSet(M(i)) /\ Cardinality(M(i)) \in Nat
    OBVIOUS
  <2>1. IsFiniteSet(1 .. i)
    BY FS_Interval
  <2> QED
    BY <2>1, FS_Subset, FS_CardinalityType
<1>3. Among(q, k, 0) = 0
  <2>1. M(0) = {}
    OBVIOUS
  <2> QED
    BY <2>1, FS_EmptySet DEF Among
<1>4. Among(q, k, n) = Mentions(q, k)
  BY <1>1 DEF Among, Mentions
<1>5. ASSUME NEW i \in 0 .. n PROVE Among(q, k, i) \in Nat /\ Among(q, k, i) <= Mentions(q, k)
  <2>1. M(i) \subseteq M(n) /\ n \in 0 .. n
    BY <1>1, SMTT(30)
  <2>2. Cardinality(M(i)) <= Cardinality(M(n))
    <3> HIDE DEF M
    <3> QED
      BY <1>2, <2>1, FS_Subset
  <2> QED
    BY <1>2, <1>4, <2>2 DEF Among
<1>6. ASSUME NEW i \in 1 .. n
      PROVE  Among(q, k, i) = Among(q, k, i - 1) + (IF Parents[k][i] = q THEN 1 ELSE 0)
  <2>1. i - 1 \in 0 .. n /\ i \notin M(i - 1) /\ IsFiniteSet(M(i - 1))
        /\ Cardinality(M(i - 1)) \in Nat
    <3>1. i - 1 \in 0 .. n /\ i \notin M(i - 1)
      BY <1>1
    <3> HIDE DEF M
    <3> QED
      BY <1>2, <3>1
  <2>0. Among(q, k, i) = Cardinality(M(i)) /\ Among(q, k, i - 1) = Cardinality(M(i - 1))
    BY DEF Among
  <2>2. CASE Parents[k][i] = q
    <3>1. M(i) = M(i - 1) \cup {i}
      BY <1>1, <2>2
    <3>2. Cardinality(M(i - 1) \cup {i}) = Cardinality(M(i - 1)) + 1
      <4> HIDE DEF M
      <4> QED
        BY <2>1, FS_AddElement
    <3> QED
      BY <2>0, <2>2, <3>1, <3>2
  <2>3. CASE Parents[k][i] # q
    <3>1. M(i) = M(i - 1)
      BY <1>1, <2>3, SMTT(30)
    <3> QED
      <4> HIDE DEF M
      <4> QED
        BY <2>0, <2>1, <2>3, <3>1
  <2> QED
    BY <2>2, <2>3
<1> QED
  BY <1>3, <1>4, <1>5, <1>6

-----------------------------------------------------------------------------
(* A key that is retained gains one reference, and its parents theirs.     *)

OneMore(e, k) == [e EXCEPT ![k] = @ + 1]
OneFewer(e, k) == [e EXCEPT ![k] = @ - 1]

GainCounts(k) ==
    \A refs, e : Counted(refs, e) =>
        /\ Counted(Gained[k][refs], OneMore(e, k))
        /\ Kept(refs) \subseteq Kept(Gained[k][refs])
        /\ k \in Kept(Gained[k][refs])

ParentsGain(k) == \A p \in ParentsOf(k) : GainCounts(p)

LEMMA PassesGain ==
    ASSUME CacheAssumption, NEW k \in Keys, NEW refs, NEW e, Counted(refs, e), ParentsGain(k),
           NEW h, Passes(h, Gained, refs, k)
    PROVE  \A i \in 0 .. Len(Parents[k]) :
               /\ Counted(h[i], [q \in Keys |-> e[q] + Among(q, k, i)])
               /\ Kept(refs) \subseteq Kept(h[i])
<1> DEFINE n == Len(Parents[k])
           f(i) == [q \in Keys |-> e[q] + Among(q, k, i)]
           E == {i \in 0 .. n : Counted(h[i], f(i)) /\ Kept(refs) \subseteq Kept(h[i])}
<1>1. n \in Nat
  BY PassTypes
<1>2. 0 \in E
  <2>1. e \in [Keys -> Nat]
    BY DEF Counted
  <2>2. \A q \in Keys : f(0)[q] = e[q]
    BY <2>1, AmongSteps
  <2>3. f(0) = e
    BY <2>1, <2>2
  <2> QED
    <3>1. h[0] = refs /\ 0 \in 0 .. n
      BY <1>1, PassTypes
    <3> HIDE DEF f, n
    <3> QED
      BY <2>3, <3>1
<1>3. ASSUME NEW i \in 1 .. n, i - 1 \in E PROVE i \in E
  <2> DEFINE p == Parents[k][i]
  <2>1. p \in ParentsOf(k) /\ p \in Keys /\ h[i] = Gained[p][h[i - 1]]
    <3>1. h[i] = Gained[p][h[i - 1]]
      BY PassTypes
    <3>2. p \in ParentsOf(k)
      BY PassTypes
    <3>3. p \in Keys
      BY <3>2, ParentsAreKeys
    <3> QED
      BY <3>1, <3>2, <3>3
  <2>2. Counted(h[i], OneMore(f(i - 1), p)) /\ Kept(h[i - 1]) \subseteq Kept(h[i])
    <3> HIDE DEF p, f
    <3> QED
      BY <1>3, <2>1 DEF ParentsGain, GainCounts
  <2>3. OneMore(f(i - 1), p) = f(i)
    <3>1. \A q \in Keys : e[q] \in Nat /\ Among(q, k, i - 1) \in Nat
      <4>1. i - 1 \in 0 .. n
        BY <1>1
      <4>2. \A q \in Keys : e[q] \in Nat
        BY DEF Counted
      <4> QED
        BY <4>1, <4>2, AmongSteps
    <3>2. \A q \in Keys : Among(q, k, i) = Among(q, k, i - 1) + (IF p = q THEN 1 ELSE 0)
      BY AmongSteps
    <3>3. ASSUME NEW q \in Keys PROVE OneMore(f(i - 1), p)[q] = f(i)[q]
      <4>1. f(i - 1)[q] = e[q] + Among(q, k, i - 1) /\ f(i)[q] = e[q] + Among(q, k, i)
        OBVIOUS
      <4>2. OneMore(f(i - 1), p)[q] = IF p = q THEN f(i - 1)[q] + 1 ELSE f(i - 1)[q]
        BY DEF OneMore
      <4>3. Among(q, k, i) = Among(q, k, i - 1) + (IF p = q THEN 1 ELSE 0)
            /\ e[q] \in Nat /\ Among(q, k, i - 1) \in Nat
        BY <3>1, <3>2
      <4>4. CASE p = q
        <5>1. Among(q, k, i) = Among(q, k, i - 1) + 1
          BY <4>3, <4>4
        <5>2. e[q] + Among(q, k, i) = (e[q] + Among(q, k, i - 1)) + 1
          <6>1. \A x, y, z \in Nat : z = y + 1 => x + z = (x + y) + 1
            OBVIOUS
          <6> DEFINE a == Among(q, k, i)
                     m == Among(q, k, i - 1)
          <6>2. e[q] \in Nat /\ m \in Nat /\ a = m + 1
            BY <4>3, <5>1
          <6> HIDE DEF a, m, f, p
          <6>3. a \in Nat
            BY <6>2
          <6>4. e[q] + a = (e[q] + m) + 1
            BY <6>1, <6>2, <6>3, SMTT(30)
          <6> QED
            BY <6>4 DEF a, m
        <5>3. OneMore(f(i - 1), p)[q] = f(i - 1)[q] + 1
          BY <4>2, <4>4
        <5> HIDE DEF f, p
        <5> QED
          BY <4>1, <5>2, <5>3
      <4>5. CASE p # q
        <5>1. Among(q, k, i) = Among(q, k, i - 1)
          BY <4>3, <4>5
        <5> HIDE DEF f, p
        <5> QED
          BY <4>1, <4>2, <4>5, <5>1
      <4> QED
        BY <4>4, <4>5
    <3> HIDE DEF p
    <3> QED
      BY <3>3 DEF OneMore
  <2> QED
    BY <1>1, <1>3, <2>2, <2>3
<1>4. 0 .. n \subseteq E
  <2> HIDE DEF E, n
  <2> QED
    BY <1>1, <1>2, <1>3, UptoInduction
<1> QED
  BY <1>4

LEMMA NewKeyCounted ==
    ASSUME CacheAssumption, NEW k \in Keys, NEW e \in [Keys -> Nat], NEW refs,
           Counted(refs, [q \in Keys |-> e[q] + Mentions(q, k)]), refs[k] = 0
    PROVE  /\ Counted([refs EXCEPT ![k] = 1], OneMore(e, k))
           /\ Kept([refs EXCEPT ![k] = 1]) = Kept(refs) \cup {k}
<1> DEFINE new == [refs EXCEPT ![k] = 1]
           K == Kept(refs)
           L == K \cup {k}
           f == [q \in Keys |-> e[q] + Mentions(q, k)]
<1>1. refs \in Counts /\ k \notin K /\ K \in SUBSET Keys
  BY DEF Counted, Kept
<1>2. new \in Counts /\ Kept(new) = L
  BY <1>1 DEF Kept, Counts
<1>3. OneMore(e, k) \in [Keys -> Nat]
  BY DEF OneMore
<1>4. \A q \in Keys : /\ refs[q] = f[q] + MentionsIn(K, q)
                      /\ MentionsIn(K, q) \in Nat /\ f[q] \in Nat
  <2>1. Counted(refs, f)
    OBVIOUS
  <2> HIDE DEF f
  <2> QED
    BY <2>1, CountedIsNat
<1>5. ASSUME NEW q \in Keys PROVE new[q] = OneMore(e, k)[q] + MentionsIn(L, q)
  <2>1. L \in SUBSET Keys /\ k \in L /\ L \ {k} = K
    BY <1>1
  <2>2. MentionsIn(L, q) = Mentions(q, k) + MentionsIn(K, q)
    <3> HIDE DEF L
    <3> QED
      BY <2>1, MentionsWithout, ZenonT(60)
  <2>3. Mentions(q, k) \in Nat /\ e[q] \in Nat /\ refs[q] = e[q] + Mentions(q, k) + MentionsIn(K, q)
    BY <1>4, MentionsIsNat
  <2>4. CASE q = k
    BY <1>1, <1>4, <2>2, <2>3, <2>4 DEF OneMore, Counts
  <2>5. CASE q # k
    <3>1. new[q] = refs[q] /\ OneMore(e, k)[q] = e[q]
      BY <1>1, <2>5 DEF OneMore, Counts
    <3> QED
      BY <1>4, <2>2, <2>3, <3>1
  <2> QED
    BY <2>4, <2>5
<1> QED
  BY <1>2, <1>3, <1>5 DEF Counted

LEMMA OldKeyCounted ==
    ASSUME CacheAssumption, NEW k \in Keys, NEW e, NEW refs, Counted(refs, e),
           k \in Kept(refs)
    PROVE  /\ Counted([refs EXCEPT ![k] = @ + 1], OneMore(e, k))
           /\ Kept([refs EXCEPT ![k] = @ + 1]) = Kept(refs)
<1> DEFINE new == [refs EXCEPT ![k] = @ + 1]
<1>1. refs \in Counts /\ e \in [Keys -> Nat] /\ refs[k] > 0
  BY DEF Counted, Kept
<1>2. new \in Counts /\ Kept(new) = Kept(refs) /\ OneMore(e, k) \in [Keys -> Nat]
  BY <1>1 DEF Kept, Counts, OneMore
<1>3. ASSUME NEW q \in Keys PROVE new[q] = OneMore(e, k)[q] + MentionsIn(Kept(refs), q)
  <2>1. refs[q] = e[q] + MentionsIn(Kept(refs), q) /\ MentionsIn(Kept(refs), q) \in Nat
        /\ e[q] \in Nat
    BY CountedIsNat
  <2> QED
    BY <1>1, <2>1 DEF OneMore, Counts
<1> QED
  BY <1>2, <1>3 DEF Counted

LEMMA GainedCounts ==
    ASSUME CacheAssumption, ParentsFirst
    PROVE  \A k \in Keys : GainCounts(k)
<1> DEFINE A == {k \in Keys : GainCounts(k)}
<1>1. Ancestral(A)
  <2> SUFFICES ASSUME NEW k \in Keys, ParentsOf(k) \subseteq A PROVE GainCounts(k)
    BY DEF Ancestral
  <2> SUFFICES ASSUME NEW refs, NEW e, Counted(refs, e)
               PROVE  /\ Counted(Gained[k][refs], OneMore(e, k))
                      /\ Kept(refs) \subseteq Kept(Gained[k][refs])
                      /\ k \in Kept(Gained[k][refs])
    BY DEF GainCounts
  <2>1. refs \in Counts
    BY DEF Counted
  <2>2. CASE k \in Kept(refs)
    <3>1. Gained[k][refs] = [refs EXCEPT ![k] = @ + 1]
      BY <2>1, <2>2, GainedStep
    <3>2. /\ Counted([refs EXCEPT ![k] = @ + 1], OneMore(e, k))
          /\ Kept([refs EXCEPT ![k] = @ + 1]) = Kept(refs)
      BY <2>2, OldKeyCounted
    <3> QED
      BY <2>2, <3>1, <3>2
  <2>3. CASE k \notin Kept(refs)
    <3> DEFINE n == Len(Parents[k])
    <3>1. PICK h : Passes(h, Gained, refs, k) /\ Gained[k][refs] = [h[n] EXCEPT ![k] = 1]
      BY <2>1, <2>3, GainedStep
    <3>2. ParentsGain(k)
      BY DEF ParentsGain
    <3>3. n \in 0 .. n
      BY <3>1, PassTypes
    <3>4. /\ Counted(h[n], [q \in Keys |-> e[q] + Among(q, k, n)])
          /\ Kept(refs) \subseteq Kept(h[n])
      BY <3>1, <3>2, <3>3, PassesGain
    <3>5. [q \in Keys |-> e[q] + Among(q, k, n)] = [q \in Keys |-> e[q] + Mentions(q, k)]
      BY AmongSteps
    <3>6. h[n][k] = 0
      <4>1. refs[k] = 0
        <5>1. refs[k] \in Nat
          BY CountedIsNat
        <5> QED
          BY <2>3, <5>1 DEF Kept
      <4> QED
        BY <2>1, <3>1, <4>1, ParentsLeave
    <3>7. e \in [Keys -> Nat]
      BY DEF Counted
    <3>8. Counted(h[n], [q \in Keys |-> e[q] + Mentions(q, k)])
      BY <3>4, <3>5
    <3> HIDE DEF n
    <3>9. /\ Counted([h[n] EXCEPT ![k] = 1], OneMore(e, k))
          /\ Kept([h[n] EXCEPT ![k] = 1]) = Kept(h[n]) \cup {k}
      BY <3>6, <3>7, <3>8, NewKeyCounted
    <3> QED
      BY <3>1, <3>4, <3>9
  <2> QED
    BY <2>2, <2>3
<1>2. Keys \subseteq A
  <2> HIDE DEF A
  <2> QED
    BY <1>1, AncestorsInduction
<1> QED
  BY <1>2

LossCounts(k) ==
    \A refs, e : Counted(refs, e) /\ e[k] > 0 =>
        /\ Counted(Lost[k][refs], OneFewer(e, k))
        /\ Kept(Lost[k][refs]) \subseteq Kept(refs)

ParentsLose(k) == \A p \in ParentsOf(k) : LossCounts(p)

LEMMA OneFewerIs ==
    ASSUME NEW k \in Keys, NEW e \in [Keys -> Nat], e[k] > 0
    PROVE  /\ OneFewer(e, k) \in [Keys -> Nat]
           /\ OneFewer(e, k)[k] = e[k] - 1
           /\ \A q \in Keys : q # k => OneFewer(e, k)[q] = e[q]
<1>1. e[k] - 1 \in Nat
  OBVIOUS
<1> QED
  BY <1>1 DEF OneFewer

LEMMA PassesLose ==
    ASSUME CacheAssumption, NEW k \in Keys, NEW refs, NEW e \in [Keys -> Nat], ParentsLose(k),
           Counted(refs, [q \in Keys |-> e[q] + Mentions(q, k)]),
           NEW h, Passes(h, Lost, refs, k)
    PROVE  \A i \in 0 .. Len(Parents[k]) :
               /\ Counted(h[i], [q \in Keys |-> e[q] + (Mentions(q, k) - Among(q, k, i))])
               /\ Kept(h[i]) \subseteq Kept(refs)
<1> DEFINE n == Len(Parents[k])
           f(i) == [q \in Keys |-> e[q] + (Mentions(q, k) - Among(q, k, i))]
           E == {i \in 0 .. n : Counted(h[i], f(i)) /\ Kept(h[i]) \subseteq Kept(refs)}
<1>1. n \in Nat
  BY PassTypes
<1>0. \A q \in Keys : Mentions(q, k) \in Nat /\ e[q] \in Nat
  BY MentionsIsNat
<1>2. 0 \in E
  <2>1. f(0) = [q \in Keys |-> e[q] + Mentions(q, k)]
    <3>1. \A q \in Keys : Mentions(q, k) - Among(q, k, 0) = Mentions(q, k)
      BY <1>0, AmongSteps
    <3> QED
      BY <3>1
  <2>2. h[0] = refs /\ 0 \in 0 .. n
    BY <1>1, PassTypes
  <2>3. Counted(h[0], f(0))
    BY <2>1, <2>2
  <2> HIDE DEF f, n
  <2> QED
    BY <2>2, <2>3
<1>3. ASSUME NEW i \in 1 .. n, i - 1 \in E PROVE i \in E
  <2> DEFINE p == Parents[k][i]
  <2>1. h[i] = Lost[p][h[i - 1]]
    BY PassTypes
  <2>2. p \in ParentsOf(k)
    BY PassTypes
  <2>3. p \in Keys
    BY <2>2, ParentsAreKeys
  <2>4. i - 1 \in 0 .. n /\ i \in 0 .. n
    BY <1>1
  <2>5. \A q \in Keys : /\ Among(q, k, i) = Among(q, k, i - 1) + (IF p = q THEN 1 ELSE 0)
                        /\ Among(q, k, i - 1) \in Nat
                        /\ Among(q, k, i) \in Nat /\ Among(q, k, i) <= Mentions(q, k)
    BY <2>4, AmongSteps
  <2>6. f(i - 1)[p] > 0
    <3> DEFINE a == Among(p, k, i - 1)
               b == Among(p, k, i)
               m == Mentions(p, k)
    <3>1. b = a + 1 /\ a \in Nat /\ b <= m /\ m \in Nat /\ e[p] \in Nat
      BY <1>0, <2>3, <2>5
    <3>2. f(i - 1)[p] = e[p] + (m - a)
      BY <2>3
    <3>3. \A x, y, z \in Nat : z + 1 <= y => x + (y - z) > 0
      OBVIOUS
    <3> HIDE DEF f, p, a, b, m
    <3> QED
      BY <3>1, <3>2, <3>3
  <2>7. Counted(h[i], OneFewer(f(i - 1), p)) /\ Kept(h[i]) \subseteq Kept(h[i - 1])
    <3>1. Counted(h[i - 1], f(i - 1))
      BY <1>3
    <3> HIDE DEF p, f
    <3> QED
      BY <3>1, <2>1, <2>2, <2>6 DEF ParentsLose, LossCounts
  <2>8. OneFewer(f(i - 1), p) = f(i)
    <3>1. ASSUME NEW q \in Keys PROVE OneFewer(f(i - 1), p)[q] = f(i)[q]
      <4> DEFINE a == Among(q, k, i - 1)
                 b == Among(q, k, i)
                 m == Mentions(q, k)
      <4>1. f(i - 1)[q] = e[q] + (m - a) /\ f(i)[q] = e[q] + (m - b)
        OBVIOUS
      <4>2. OneFewer(f(i - 1), p)[q] = IF p = q THEN f(i - 1)[q] - 1 ELSE f(i - 1)[q]
        BY DEF OneFewer
      <4>3. \A x, y, z \in Nat : x + (y - (z + 1)) = (x + (y - z)) - 1
        OBVIOUS
      <4>4. a \in Nat /\ m \in Nat /\ e[q] \in Nat /\ b = a + (IF p = q THEN 1 ELSE 0)
        BY <1>0, <2>5
      <4>5. CASE p = q
        <5>1. b = a + 1
          BY <4>4, <4>5
        <5>2. OneFewer(f(i - 1), p)[q] = f(i - 1)[q] - 1
          BY <4>2, <4>5
        <5> HIDE DEF a, b, m, f, p
        <5>3. e[q] + (m - b) = (e[q] + (m - a)) - 1
          BY <4>3, <4>4, <5>1
        <5> QED
          BY <4>1, <5>2, <5>3
      <4>6. CASE p # q
        <5>1. b = a
          BY <4>4, <4>6
        <5>2. e[q] + (m - b) = e[q] + (m - a)
          BY <5>1
        <5>3. OneFewer(f(i - 1), p)[q] = f(i - 1)[q]
          BY <4>2, <4>6
        <5> HIDE DEF a, b, m, f, p
        <5> QED
          BY <4>1, <5>2, <5>3
      <4> QED
        BY <4>5, <4>6
    <3> HIDE DEF p
    <3> QED
      BY <3>1 DEF OneFewer
  <2>9. Counted(h[i], f(i)) /\ Kept(h[i]) \subseteq Kept(refs)
    BY <1>3, <2>7, <2>8
  <2> HIDE DEF f, n
  <2> QED
    BY <2>4, <2>9
<1>4. 0 .. n \subseteq E
  <2> HIDE DEF E, n
  <2> QED
    BY <1>1, <1>2, <1>3, UptoInduction
<1> QED
  BY <1>4

\* fewer has one reference to k less than refs.
Fewer(fewer, refs, k) ==
    /\ refs \in Counts /\ k \in Kept(refs)
    /\ fewer \in Counts /\ fewer[k] = refs[k] - 1
    /\ \A q \in Keys : q # k => fewer[q] = refs[q]
    /\ k \in Kept(fewer) => Kept(fewer) = Kept(refs)
    /\ k \notin Kept(fewer) => Kept(fewer) = Kept(refs) \ {k}

LEMMA FewerReferences ==
    ASSUME CacheAssumption, NEW k \in Keys, NEW e, NEW refs, Counted(refs, e), e[k] > 0
    PROVE  Fewer([refs EXCEPT ![k] = @ - 1], refs, k) /\ e \in [Keys -> Nat]
<1> DEFINE fewer == [refs EXCEPT ![k] = @ - 1]
<1>1. e \in [Keys -> Nat] /\ refs \in Counts
  BY DEF Counted
<1>2. refs[k] = e[k] + MentionsIn(Kept(refs), k) /\ MentionsIn(Kept(refs), k) \in Nat
      /\ e[k] \in Nat
  BY CountedIsNat
<1>3. k \in Kept(refs)
  <2>1. refs[k] > 0
    BY <1>2
  <2> QED
    BY <2>1 DEF Kept
<1>4. /\ fewer \in Counts /\ fewer[k] = refs[k] - 1
      /\ \A q \in Keys : q # k => fewer[q] = refs[q]
  BY <1>1 DEF Counts
<1> QED
  BY <1>1, <1>3, <1>4 DEF Kept, Fewer

LEMMA StillKept ==
    ASSUME CacheAssumption, NEW k \in Keys, NEW e, NEW refs, Counted(refs, e), e[k] > 0,
           NEW fewer, Fewer(fewer, refs, k), k \in Kept(fewer)
    PROVE  Counted(fewer, OneFewer(e, k))
<1>1. /\ e \in [Keys -> Nat] /\ Kept(fewer) = Kept(refs) /\ fewer \in Counts
      /\ fewer[k] = refs[k] - 1 /\ \A q \in Keys : q # k => fewer[q] = refs[q]
  BY DEF Fewer, Counted
<1>2. ASSUME NEW q \in Keys PROVE fewer[q] = OneFewer(e, k)[q] + MentionsIn(Kept(refs), q)
  <2>1. /\ refs[q] = e[q] + MentionsIn(Kept(refs), q) /\ MentionsIn(Kept(refs), q) \in Nat
        /\ e[q] \in Nat
    BY CountedIsNat
  <2>2. CASE q = k
    <3>1. OneFewer(e, k)[q] = e[q] - 1 /\ fewer[q] = refs[q] - 1
      BY <1>1, <2>2, OneFewerIs
    <3> QED
      BY <2>1, <3>1
  <2>3. CASE q # k
    <3>1. OneFewer(e, k)[q] = e[q] /\ fewer[q] = refs[q]
      BY <1>1, <2>3, OneFewerIs
    <3> QED
      BY <2>1, <3>1
  <2> QED
    BY <2>2, <2>3
<1> QED
  BY <1>1, <1>2, OneFewerIs DEF Counted

LEMMA LetGo ==
    ASSUME CacheAssumption, NEW k \in Keys, NEW e, NEW refs, Counted(refs, e), e[k] > 0,
           NEW fewer, Fewer(fewer, refs, k), k \notin Kept(fewer)
    PROVE  Counted(fewer, [q \in Keys |-> OneFewer(e, k)[q] + Mentions(q, k)])
<1> DEFINE K == Kept(refs)
           L == K \ {k}
           f == [q \in Keys |-> OneFewer(e, k)[q] + Mentions(q, k)]
<1>1. /\ e \in [Keys -> Nat] /\ Kept(fewer) = L /\ fewer \in Counts /\ k \in K
      /\ fewer[k] = refs[k] - 1 /\ \A q \in Keys : q # k => fewer[q] = refs[q]
      /\ K \in SUBSET Keys
  BY KeptAreKeys DEF Fewer, Counted
<1>2. ASSUME NEW q \in Keys PROVE fewer[q] = f[q] + MentionsIn(L, q) /\ f[q] \in Nat
  <2>1. /\ refs[q] = e[q] + MentionsIn(K, q) /\ e[q] \in Nat
    BY CountedIsNat
  <2>2. MentionsIn(K, q) = Mentions(q, k) + MentionsIn(L, q)
    BY <1>1, MentionsWithout
  <2>3. Mentions(q, k) \in Nat /\ MentionsIn(L, q) \in Nat
    BY <1>1, MentionsIsNat, MentionsInIsNat
  <2>4. f[q] = OneFewer(e, k)[q] + Mentions(q, k) /\ OneFewer(e, k)[q] \in Nat
    <3>1. OneFewer(e, k)[q] \in Nat
      BY <1>1, OneFewerIs, ZenonT(60)
    <3> QED
      BY <3>1
  <2>5. f[q] \in Nat
    BY <2>3, <2>4
  <2>6. CASE q = k
    <3>1. OneFewer(e, k)[q] = e[q] - 1 /\ fewer[q] = refs[q] - 1
      BY <1>1, <2>6, OneFewerIs
    <3> HIDE DEF f, L, K
    <3> QED
      BY <2>1, <2>2, <2>3, <2>4, <2>5, <3>1, SMTT(30)
  <2>7. CASE q # k
    <3>1. OneFewer(e, k)[q] = e[q] /\ fewer[q] = refs[q]
      BY <1>1, <2>7, OneFewerIs
    <3> HIDE DEF f, L, K
    <3> QED
      BY <2>1, <2>2, <2>3, <2>4, <2>5, <3>1
  <2> QED
    BY <2>6, <2>7
<1>3. f \in [Keys -> Nat]
  BY <1>2
<1> QED
  BY <1>1, <1>2, <1>3 DEF Counted

LEMMA LostCounts ==
    ASSUME CacheAssumption, ParentsFirst
    PROVE  \A k \in Keys : LossCounts(k)
<1> DEFINE A == {k \in Keys : LossCounts(k)}
<1>1. Ancestral(A)
  <2> SUFFICES ASSUME NEW k \in Keys, ParentsOf(k) \subseteq A PROVE LossCounts(k)
    BY DEF Ancestral
  <2> SUFFICES ASSUME NEW refs, NEW e, Counted(refs, e), e[k] > 0
               PROVE  /\ Counted(Lost[k][refs], OneFewer(e, k))
                      /\ Kept(Lost[k][refs]) \subseteq Kept(refs)
    BY DEF LossCounts
  <2> DEFINE fewer == [refs EXCEPT ![k] = @ - 1]
  <2>0. Fewer(fewer, refs, k)
    BY FewerReferences
  <2>1. /\ e \in [Keys -> Nat] /\ refs \in Counts /\ Kept(fewer) \subseteq Kept(refs)
    <3> HIDE DEF fewer
    <3> QED
      BY <2>0 DEF Counted, Fewer
  <2>2. CASE k \in Kept(fewer)
    <3>1. Lost[k][refs] = fewer
      BY <2>1, <2>2, LostStep
    <3>2. Counted(fewer, OneFewer(e, k))
      <4> HIDE DEF fewer
      <4> QED
        BY <2>0, <2>2, StillKept
    <3> QED
      BY <2>1, <3>1, <3>2
  <2>3. CASE k \notin Kept(fewer)
    <3> DEFINE n == Len(Parents[k])
               d == OneFewer(e, k)
               m == [q \in Keys |-> d[q] + Mentions(q, k)]
               f(i) == [q \in Keys |-> d[q] + (Mentions(q, k) - Among(q, k, i))]
    <3>1. PICK h : Passes(h, Lost, fewer, k) /\ Lost[k][refs] = h[n]
      BY <2>1, <2>3, LostStep, ZenonT(60)
    <3>2. d \in [Keys -> Nat]
      BY <2>1, OneFewerIs
    <3>3. Counted(fewer, m)
      <4> HIDE DEF fewer
      <4> QED
        BY <2>0, <2>3, LetGo
    <3>4. ParentsLose(k)
      BY DEF ParentsLose
    <3>5. n \in 0 .. n
      BY <3>1, PassTypes
    <3>6. Counted(h[n], f(n)) /\ Kept(h[n]) \subseteq Kept(fewer)
      <4> HIDE DEF fewer, d
      <4> QED
        BY <3>1, <3>2, <3>3, <3>4, <3>5, PassesLose, ZenonT(60)
    <3>7. f(n) = d
      <4>1. \A q \in Keys : Mentions(q, k) - Among(q, k, n) = 0
        BY AmongSteps, MentionsIsNat
      <4>2. \A q \in Keys : d[q] \in Nat /\ d[q] + 0 = d[q]
        BY <3>2
      <4> HIDE DEF d
      <4>3. \A q \in Keys : f(n)[q] = d[q]
        BY <4>1, <4>2
      <4> QED
        BY <3>2, <4>3
    <3> HIDE DEF d, fewer, n, f
    <3> QED
      BY <2>1, <3>1, <3>6, <3>7 DEF d
  <2> QED
    BY <2>2, <2>3
<1>2. Keys \subseteq A
  <2> HIDE DEF A
  <2> QED
    BY <1>1, AncestorsInduction
<1> QED
  BY <1>2

-----------------------------------------------------------------------------
(* What a key adds to the budget.                                          *)

SumThrough(cost, k) == FoldLeft(LAMBDA n, q : n + cost[q], KeyBytes[k], Parents[k])
Sums(cost, k) ==
    CHOOSE g : g = [s \in SUBSET DOMAIN Parents[k] |->
        IF s = {} THEN KeyBytes[k] ELSE g[s \ {Max(s)}] + cost[Parents[k][Max(s)]]]

LEMMA SumThroughIs ==
    ASSUME NEW cost, NEW k
    PROVE  SumThrough(cost, k) = Sums(cost, k)[DOMAIN Parents[k]]
  BY Zenon DEF SumThrough, Sums, FoldLeft, MapThenFoldSet

\* h adds up the costs of the parents of k, one after the other.
Totals(h, cost, k) ==
    /\ h \in [0 .. Len(Parents[k]) -> Nat]
    /\ h[0] = KeyBytes[k]
    /\ \A i \in 1 .. Len(Parents[k]) : h[i] = h[i - 1] + cost[Parents[k][i]]

Prices(cost, k) == \A p \in ParentsOf(k) : cost[p] \in Nat

LEMMA TotalsExist ==
    ASSUME CacheAssumption, NEW k \in Keys, NEW cost, Prices(cost, k)
    PROVE  \E h : Totals(h, cost, k) /\ SumThrough(cost, k) = h[Len(Parents[k])]
<1> DEFINE n == Len(Parents[k])
           D == DOMAIN Parents[k]
           pick == MaxOf(n)
           base == KeyBytes[k]
           step == [z \in D \X Nat |-> z[2] + cost[Parents[k][z[1]]]]
           Q(g) == g = [s \in SUBSET D |->
                            IF s = {} THEN base ELSE g[s \ {Max(s)}] + cost[Parents[k][Max(s)]]]
           H == Sums(cost, k)
<1>1. n \in Nat /\ D = 1 .. n /\ \A i \in D : Parents[k][i] \in ParentsOf(k)
  BY ParentsAreKeys
<1>2. Picks(pick, D) /\ IsFiniteSet(D)
  BY <1>1, MaxOfPicks
<1>3. \A i \in D, v \in Nat : step[<<i, v>>] = v + cost[Parents[k][i]]
  OBVIOUS
<1>4. StaysIn(Nat, D, base, step)
  <2>1. base \in Nat
    BY DEF CacheAssumption
  <2>2. ASSUME NEW i \in D, NEW v \in Nat PROVE step[<<i, v>>] \in Nat
    <3>1. cost[Parents[k][i]] \in Nat
      BY <1>1 DEF Prices
    <3>2. step[<<i, v>>] = v + cost[Parents[k][i]]
      BY <1>3
    <3> QED
      <4> HIDE DEF step
      <4> QED
        BY <3>1, <3>2, SMTT(30)
  <2> HIDE DEF D, base, step
  <2> QED
    BY <2>1, <2>2 DEF StaysIn
<1>5. PICK g : FoldIn(Nat, D, pick, base, step, g)
  <2> HIDE DEF pick, step, D
  <2> QED
    BY <1>2, <1>4, FoldExists
<1>6. \A s \in SUBSET D : pick[s] = Max(s)
  BY <1>1 DEF MaxOf
<1>7. Q(g)
  <2>1. g = [s \in SUBSET D |-> g[s]] /\ g[{}] = base
    BY <1>5 DEF FoldIn
  <2>2. ASSUME NEW s \in SUBSET D, s # {}
        PROVE  g[s] = g[s \ {Max(s)}] + cost[Parents[k][Max(s)]]
    <3>1. pick[s] = Max(s) /\ Max(s) \in D /\ g[s \ {Max(s)}] \in Nat
      BY <1>2, <1>5, <1>6, <2>2 DEF FoldIn, Picks
    <3> QED
      BY <1>3, <1>5, <2>2, <3>1 DEF FoldIn
  <2> QED
    BY <2>1, <2>2, Zenon
<1>8. Q(H)
  BY <1>7 DEF Sums
<1>9. Follows(Nat, D, pick, base, step, H)
  <2>1. H[{}] = base
    BY <1>8
  <2>2. ASSUME NEW s \in SUBSET D, s # {}, H[s \ {pick[s]}] \in Nat
        PROVE  H[s] = step[<<pick[s], H[s \ {pick[s]}]>>]
    <3>1. pick[s] = Max(s) /\ Max(s) \in D
      BY <1>2, <1>6, <2>2 DEF Picks
    <3>2. H[s] = H[s \ {Max(s)}] + cost[Parents[k][Max(s)]]
      BY <1>8, <2>2
    <3> QED
      BY <1>3, <2>2, <3>1, <3>2
  <2> HIDE DEF H, pick, step, D
  <2> QED
    BY <2>1, <2>2 DEF Follows
<1>10. PICK h : Chain(h, n, Nat, base, step) /\ h[n] = H[D]
  <2> HIDE DEF H, step, n
  <2> QED
    BY <1>1, <1>4, <1>9, ChainExists
<1>11. Totals(h, cost, k)
  <2>1. h \in [0 .. n -> Nat] /\ h[0] = base
    BY <1>10 DEF Chain
  <2>2. ASSUME NEW i \in 1 .. n PROVE h[i] = h[i - 1] + cost[Parents[k][i]]
    <3>1. i \in D /\ i - 1 \in 0 .. n
      BY <1>1
    <3>2. h[i] = step[<<i, h[i - 1]>>]
      <4> HIDE DEF step, n
      <4> QED
        BY <1>10 DEF Chain
    <3>3. h[i - 1] \in Nat
      BY <2>1, <3>1
    <3> QED
      BY <1>3, <3>1, <3>2, <3>3
  <2> QED
    BY <2>1, <2>2 DEF Totals
<1> QED
  BY <1>1, <1>10, <1>11, SumThroughIs

LEMMA SumThroughLocal ==
    ASSUME CacheAssumption, NEW k \in Keys, NEW cost, Prices(cost, k), NEW other,
           AgreeOn(cost, other, k)
    PROVE  SumThrough(cost, k) = SumThrough(other, k) /\ SumThrough(cost, k) \in Nat
<1> DEFINE n == Len(Parents[k])
<1>1. Prices(other, k)
  BY DEF Prices, AgreeOn
<1>2. PICK g : Totals(g, cost, k) /\ SumThrough(cost, k) = g[n]
  BY TotalsExist
<1>3. PICK h : Totals(h, other, k) /\ SumThrough(other, k) = h[n]
  BY <1>1, TotalsExist
<1>4. n \in Nat /\ \A i \in 1 .. n : Parents[k][i] \in ParentsOf(k)
  BY ParentsAreKeys
<1> DEFINE E == {i \in 0 .. n : g[i] = h[i]}
<1>5. 0 \in E
  BY <1>2, <1>3, <1>4 DEF Totals
<1>6. ASSUME NEW i \in 1 .. n, i - 1 \in E PROVE i \in E
  <2>1. g[i] = g[i - 1] + cost[Parents[k][i]] /\ h[i] = h[i - 1] + other[Parents[k][i]]
    BY <1>2, <1>3 DEF Totals
  <2>2. cost[Parents[k][i]] = other[Parents[k][i]]
    BY <1>4 DEF AgreeOn
  <2>3. g[i] = h[i] /\ i \in 0 .. n
    BY <1>4, <1>6, <2>1, <2>2
  <2> QED
    BY <2>3
<1>7. 0 .. n \subseteq E
  <2> HIDE DEF E, n
  <2> QED
    BY <1>4, <1>5, <1>6, UptoInduction
<1>8. g[n] = h[n] /\ g[n] \in Nat
  BY <1>2, <1>4, <1>7 DEF Totals
<1> QED
  BY <1>2, <1>3, <1>8

CostIn(cost, K, k) == IF k \in K THEN 0 ELSE SumThrough(cost, k)
Cost(K) == CHOOSE cost : cost = [k \in Keys |-> CostIn(cost, K, k)]

LEMMA AdditionalIs ==
    ASSUME NEW c, NEW k
    PROVE  Additional(c, k) = Cost(Kept(c.identities))[k]
  BY Zenon DEF Additional, Cost, CostIn, SumThrough

LEMMA CostInLocal ==
    ASSUME CacheAssumption, NEW K, NEW k \in Keys, NEW cost, Prices(cost, k)
    PROVE  /\ CostIn(cost, K, k) \in Nat
           /\ \A other : AgreeOn(cost, other, k) => CostIn(cost, K, k) = CostIn(other, K, k)
<1>1. AgreeOn(cost, cost, k)
  BY DEF AgreeOn
<1>2. SumThrough(cost, k) \in Nat
  BY <1>1, SumThroughLocal
<1>3. ASSUME NEW other, AgreeOn(cost, other, k)
      PROVE  SumThrough(cost, k) = SumThrough(other, k)
  BY <1>3, SumThroughLocal
<1> QED
  BY <1>2, <1>3 DEF CostIn

LEMMA PricesOf ==
    ASSUME CacheAssumption, NEW cost \in [Keys -> Nat], NEW k \in Keys
    PROVE  Prices(cost, k)
  BY ParentsAreKeys DEF Prices

LEMMA CostSolves ==
    ASSUME CacheAssumption, ParentsFirst, NEW K
    PROVE  /\ Cost(K) \in [Keys -> Nat]
           /\ \A k \in Keys : Cost(K)[k] = CostIn(Cost(K), K, k)
<1> DEFINE F == [z \in Keys \X [Keys -> Nat] |-> CostIn(z[2], K, z[1])]
<1>1. \A k \in Keys, cost \in [Keys -> Nat] : F[<<k, cost>>] = CostIn(cost, K, k)
  OBVIOUS
<1>2. Local(F, Nat)
  <2>1. ASSUME NEW k \in Keys, NEW cost \in [Keys -> Nat] PROVE F[<<k, cost>>] \in Nat
    BY <1>1, PricesOf, CostInLocal
  <2>2. ASSUME NEW k \in Keys, NEW cost \in [Keys -> Nat], NEW other \in [Keys -> Nat],
               \A p \in ParentsOf(k) : cost[p] = other[p]
        PROVE  F[<<k, cost>>] = F[<<k, other>>]
    <3>1. AgreeOn(cost, other, k)
      BY <2>2 DEF AgreeOn
    <3>2. CostIn(cost, K, k) = CostIn(other, K, k)
      BY <3>1, PricesOf, CostInLocal
    <3> QED
      BY <1>1, <3>2
  <2> HIDE DEF F
  <2> QED
    BY <2>1, <2>2 DEF Local
<1>3. PICK G : Recurs(G, F, Nat)
  <2>1. Nat # {}
    OBVIOUS
  <2> HIDE DEF F
  <2> QED
    BY <1>2, <2>1, RecursionExists
<1>4. G = [k \in Keys |-> CostIn(G, K, k)]
  <2>1. G = [k \in Keys |-> G[k]]
    BY <1>3 DEF Recurs
  <2>2. \A k \in Keys : G[k] = CostIn(G, K, k)
    BY <1>1, <1>3 DEF Recurs
  <2> QED
    BY <2>1, <2>2
<1>5. Cost(K) = [k \in Keys |-> CostIn(Cost(K), K, k)]
  BY <1>4 DEF Cost
<1>6. \A k \in Keys : Cost(K)[k] = CostIn(Cost(K), K, k)
  BY <1>5
<1> DEFINE A == {k \in Keys : Cost(K)[k] \in Nat}
<1>7. Ancestral(A)
  <2> SUFFICES ASSUME NEW k \in Keys, ParentsOf(k) \subseteq A PROVE Cost(K)[k] \in Nat
    BY DEF Ancestral
  <2>1. Prices(Cost(K), k)
    BY DEF Prices
  <2> QED
    BY <1>6, <2>1, CostInLocal
<1>8. Keys \subseteq A
  <2> HIDE DEF A
  <2> QED
    BY <1>7, AncestorsInduction
<1>9. Cost(K) \in [Keys -> Nat]
  <2>1. \A k \in Keys : Cost(K)[k] \in Nat
    BY <1>8
  <2> QED
    BY <1>5, <2>1
<1> QED
  BY <1>6, <1>9

LEMMA CostStep ==
    ASSUME CacheAssumption, ParentsFirst, NEW K, NEW k \in Keys
    PROVE  /\ Cost(K)[k] \in Nat
           /\ k \in K => Cost(K)[k] = 0
           /\ k \notin K => \E t : Totals(t, Cost(K), k) /\ Cost(K)[k] = t[Len(Parents[k])]
<1>1. Cost(K)[k] = CostIn(Cost(K), K, k) /\ Cost(K)[k] \in Nat
  BY CostSolves
<1>2. \E t : Totals(t, Cost(K), k) /\ SumThrough(Cost(K), k) = t[Len(Parents[k])]
  BY CostSolves, PricesOf, TotalsExist
<1> QED
  BY <1>1, <1>2 DEF CostIn

LEMMA BytesOfKeys ==
    ASSUME CacheAssumption, NEW S \in SUBSET Keys
    PROVE  /\ SumOver(S, KeyBytes) \in Nat
           /\ IsFiniteSet(S) /\ Summable(S, KeyBytes)
           /\ \A T \in SUBSET S :
                  /\ SumOver(S, KeyBytes) = SumOver(T, KeyBytes) + SumOver(S \ T, KeyBytes)
                  /\ SumOver(T, KeyBytes) <= SumOver(S, KeyBytes)
<1>1. IsFiniteSet(S) /\ \A k \in S : KeyBytes[k] \in Nat
  BY FS_Subset DEF CacheAssumption
<1>2. SumOver(S, KeyBytes) \in Nat /\ Summable(S, KeyBytes)
  BY <1>1, SumIsNat
<1>3. ASSUME NEW T \in SUBSET S
      PROVE  /\ SumOver(S, KeyBytes) = SumOver(T, KeyBytes) + SumOver(S \ T, KeyBytes)
             /\ SumOver(T, KeyBytes) <= SumOver(S, KeyBytes)
  BY <1>1, <1>2, SumOfPart, SumGrows
<1> QED
  BY <1>1, <1>2, <1>3

LEMMA BytesOfOneMore ==
    ASSUME CacheAssumption, NEW S \in SUBSET Keys, NEW k \in Keys, k \notin S
    PROVE  SumOver(S \cup {k}, KeyBytes) = SumOver(S, KeyBytes) + KeyBytes[k]
<1> DEFINE T == S \cup {k}
<1>1. T \in SUBSET Keys /\ k \in T /\ T \ {k} = S
  OBVIOUS
<1>2. Summable(T, KeyBytes)
  BY <1>1, BytesOfKeys
<1>3. SumOver(T, KeyBytes) = KeyBytes[k] + SumOver(S, KeyBytes)
  <2> HIDE DEF T
  <2>1. SumOver(T, KeyBytes) = KeyBytes[k] + SumOver(T \ {k}, KeyBytes)
    BY <1>1, <1>2, SumWithout
  <2> QED
    BY <1>1, <2>1
<1>4. KeyBytes[k] \in Nat /\ SumOver(S, KeyBytes) \in Nat
  BY BytesOfKeys DEF CacheAssumption
<1> QED
  BY <1>3, <1>4

\* The bytes of what is kept after k is retained are those of what was kept
\* before, and no more than what k was to add.
Spends(k) ==
    \A refs, e, K : Counted(refs, e) /\ K \subseteq Kept(refs) =>
        SumOver(Kept(Gained[k][refs]), KeyBytes) <= SumOver(Kept(refs), KeyBytes) + Cost(K)[k]

ParentsSpend(k) == \A p \in ParentsOf(k) : Spends(p)

LEMMA PassesSpend ==
    ASSUME CacheAssumption, ParentsFirst, NEW k \in Keys, NEW refs, NEW e, Counted(refs, e),
           ParentsSpend(k), NEW h, Passes(h, Gained, refs, k),
           NEW K, K \subseteq Kept(refs), NEW t, Totals(t, Cost(K), k)
    PROVE  LET n == Len(Parents[k]) IN
           SumOver(Kept(h[n]), KeyBytes) + KeyBytes[k] <= SumOver(Kept(refs), KeyBytes) + t[n]
<1> DEFINE n == Len(Parents[k])
           B(r) == SumOver(Kept(r), KeyBytes)
           E == {i \in 0 .. n : B(h[i]) + KeyBytes[k] <= B(refs) + t[i]}
<1>1. n \in Nat /\ KeyBytes[k] \in Nat
  BY PassTypes DEF CacheAssumption
<1>2. \A r : B(r) \in Nat
  BY BytesOfKeys, KeptAreKeys
<1>3. 0 \in E
  <2>1. h[0] = refs /\ t[0] = KeyBytes[k]
    BY PassTypes DEF Totals
  <2>2. B(h[0]) + KeyBytes[k] <= B(refs) + t[0]
    BY <1>1, <1>2, <2>1
  <2> QED
    BY <1>1, <2>2
<1>4. ASSUME NEW i \in 1 .. n, i - 1 \in E PROVE i \in E
  <2> DEFINE p == Parents[k][i]
  <2>1. h[i] = Gained[p][h[i - 1]]
    BY DEF Passes
  <2>2. p \in ParentsOf(k)
    BY PassTypes
  <2>3. p \in Keys /\ i - 1 \in 0 .. n /\ i \in 0 .. n
    BY <1>1, <2>2, ParentsAreKeys, SMTT(30)
  <2>4. ParentsGain(k)
    BY GainedCounts, ParentsAreKeys DEF ParentsGain
  <2>5. Counted(h[i - 1], [q \in Keys |-> e[q] + Among(q, k, i - 1)])
        /\ K \subseteq Kept(h[i - 1])
    BY <2>3, <2>4, PassesGain
  <2>6. B(h[i]) <= B(h[i - 1]) + Cost(K)[p]
    <3> HIDE DEF p
    <3> QED
      BY <2>1, <2>2, <2>5 DEF ParentsSpend, Spends
  <2>7. t[i] = t[i - 1] + Cost(K)[p] /\ t[i - 1] \in Nat /\ Cost(K)[p] \in Nat
    <3>1. Cost(K)[p] \in Nat
      BY <2>3, CostStep
    <3> QED
      BY <2>3, <3>1 DEF Totals
  <2>8. B(h[i - 1]) + KeyBytes[k] <= B(refs) + t[i - 1]
    BY <1>4
  <2>9. B(h[i]) + KeyBytes[k] <= B(refs) + t[i]
    <3>1. B(h[i]) \in Nat /\ B(h[i - 1]) \in Nat /\ B(refs) \in Nat
      BY <1>2
    <3>2. \A a, b, c, d, x, y \in Nat : a <= b + c /\ b + x <= d + y => a + x <= d + (y + c)
      OBVIOUS
    <3>3. B(h[i]) + KeyBytes[k] <= B(refs) + (t[i - 1] + Cost(K)[p])
      <4> HIDE DEF B, p
      <4> QED
        BY <1>1, <2>6, <2>7, <2>8, <3>1, <3>2
    <3> QED
      BY <2>7, <3>3
  <2> HIDE DEF B
  <2> QED
    BY <2>3, <2>9
<1>5. 0 .. n \subseteq E
  <2> HIDE DEF E, n
  <2> QED
    BY <1>1, <1>3, <1>4, UptoInduction
<1> QED
  BY <1>1, <1>5

LEMMA GainedSpends ==
    ASSUME CacheAssumption, ParentsFirst
    PROVE  \A k \in Keys : Spends(k)
<1> DEFINE A == {k \in Keys : Spends(k)}
<1>1. Ancestral(A)
  <2> SUFFICES ASSUME NEW k \in Keys, ParentsOf(k) \subseteq A PROVE Spends(k)
    BY DEF Ancestral
  <2> SUFFICES ASSUME NEW refs, NEW e, NEW K, Counted(refs, e), K \subseteq Kept(refs)
               PROVE  SumOver(Kept(Gained[k][refs]), KeyBytes)
                          <= SumOver(Kept(refs), KeyBytes) + Cost(K)[k]
    BY DEF Spends
  <2>1. refs \in Counts
    BY DEF Counted
  <2>2. SumOver(Kept(refs), KeyBytes) \in Nat /\ Cost(K)[k] \in Nat
    BY BytesOfKeys, KeptAreKeys, CostStep
  <2>3. CASE k \in Kept(refs)
    <3>1. Gained[k][refs] = [refs EXCEPT ![k] = @ + 1]
      BY <2>1, <2>3, GainedStep
    <3>2. Kept([refs EXCEPT ![k] = @ + 1]) = Kept(refs)
      BY <2>3, OldKeyCounted
    <3>3. SumOver(Kept(Gained[k][refs]), KeyBytes) = SumOver(Kept(refs), KeyBytes)
      BY <3>1, <3>2
    <3> QED
      BY <2>2, <3>3
  <2>4. CASE k \notin Kept(refs)
    <3> DEFINE n == Len(Parents[k])
    <3>1. PICK h : Passes(h, Gained, refs, k) /\ Gained[k][refs] = [h[n] EXCEPT ![k] = 1]
      BY <2>1, <2>4, GainedStep
    <3>2. PICK t : Totals(t, Cost(K), k) /\ Cost(K)[k] = t[n]
      BY <2>4, CostStep
    <3>3. ParentsSpend(k)
      BY DEF ParentsSpend
    <3>4. SumOver(Kept(h[n]), KeyBytes) + KeyBytes[k] <= SumOver(Kept(refs), KeyBytes) + t[n]
      BY <3>1, <3>2, <3>3, PassesSpend
    <3>5. h[n] \in Counts /\ h[n][k] = refs[k]
      <4>1. n \in 0 .. n
        BY <3>1, PassTypes
      <4>2. h[n][k] = refs[k]
        BY <2>1, <3>1, ParentsLeave
      <4> QED
        BY <3>1, <4>1, <4>2, PassTypes
    <3>6. k \notin Kept(h[n]) /\ Kept([h[n] EXCEPT ![k] = 1]) = Kept(h[n]) \cup {k}
      <4> HIDE DEF n
      <4> QED
        BY <2>4, <3>5 DEF Kept, Counts
    <3>7. SumOver(Kept(Gained[k][refs]), KeyBytes) = SumOver(Kept(h[n]), KeyBytes) + KeyBytes[k]
      <4> HIDE DEF n
      <4> QED
        BY <3>1, <3>6, KeptAreKeys, BytesOfOneMore
    <3> QED
      BY <3>2, <3>4, <3>7
  <2> QED
    BY <2>3, <2>4
<1>2. Keys \subseteq A
  <2> HIDE DEF A
  <2> QED
    BY <1>1, AncestorsInduction
<1> QED
  BY <1>2

-----------------------------------------------------------------------------
(* Only k and its ancestors are kept for k.                                *)

Closed(C) == C \subseteq Keys /\ \A k \in C : ParentsOf(k) \subseteq C
StaysWithin(k) ==
    \A refs \in Counts, C \in SUBSET Keys : Closed(C) /\ k \in C /\ Kept(refs) \subseteq C
                                => Kept(Gained[k][refs]) \subseteq C
ParentsStay(k) == \A p \in ParentsOf(k) : StaysWithin(p)

LEMMA PassesStay ==
    ASSUME CacheAssumption, NEW k \in Keys, NEW refs \in Counts, ParentsStay(k),
           NEW h, Passes(h, Gained, refs, k),
           NEW C, Closed(C), k \in C, Kept(refs) \subseteq C
    PROVE  Kept(h[Len(Parents[k])]) \subseteq C
<1> DEFINE n == Len(Parents[k])
           E == {i \in 0 .. n : Kept(h[i]) \subseteq C}
<1>1. n \in Nat
  BY PassTypes
<1>2. 0 \in E
  <2>1. h[0] = refs
    BY PassTypes
  <2> QED
    BY <1>1, <2>1
<1>3. ASSUME NEW i \in 1 .. n, i - 1 \in E PROVE i \in E
  <2> DEFINE p == Parents[k][i]
  <2>1. h[i] = Gained[p][h[i - 1]]
    BY PassTypes
  <2>2. p \in ParentsOf(k)
    BY PassTypes
  <2>3. i - 1 \in 0 .. n /\ i \in 0 .. n
    BY <1>1
  <2>4. h[i - 1] \in Counts
    BY <2>3, PassTypes
  <2>5. p \in C
    BY <2>2 DEF Closed
  <2>6. Kept(h[i]) \subseteq C
    <3>1. StaysWithin(p)
      BY <2>2 DEF ParentsStay
    <3>2. Kept(h[i - 1]) \subseteq C
      BY <1>3
    <3> HIDE DEF p
    <3>3. C \in SUBSET Keys
      BY DEF Closed
    <3>4. Kept(Gained[p][h[i - 1]]) \subseteq C
      BY <2>4, <2>5, <3>1, <3>2, <3>3 DEF StaysWithin
    <3> QED
      BY <2>1, <3>4
  <2> QED
    BY <2>3, <2>6
<1>4. 0 .. n \subseteq E
  <2> HIDE DEF E, n
  <2> QED
    BY <1>1, <1>2, <1>3, UptoInduction
<1> QED
  BY <1>1, <1>4

LEMMA GainedStaysWithin ==
    ASSUME CacheAssumption, ParentsFirst
    PROVE  \A k \in Keys : StaysWithin(k)
<1> DEFINE A == {k \in Keys : StaysWithin(k)}
<1>1. Ancestral(A)
  <2> SUFFICES ASSUME NEW k \in Keys, ParentsOf(k) \subseteq A PROVE StaysWithin(k)
    BY DEF Ancestral
  <2> SUFFICES ASSUME NEW refs \in Counts, NEW C, Closed(C), k \in C, Kept(refs) \subseteq C
               PROVE  Kept(Gained[k][refs]) \subseteq C
    BY DEF StaysWithin
  <2>1. CASE k \in Kept(refs)
    <3>1. Gained[k][refs] = [refs EXCEPT ![k] = @ + 1]
      BY <2>1, GainedStep
    <3> QED
      BY <2>1, <3>1 DEF Kept, Counts
  <2>2. CASE k \notin Kept(refs)
    <3> DEFINE n == Len(Parents[k])
    <3>1. PICK h : Passes(h, Gained, refs, k) /\ Gained[k][refs] = [h[n] EXCEPT ![k] = 1]
      BY <2>2, GainedStep
    <3>2. ParentsStay(k)
      BY DEF ParentsStay
    <3>3. Kept(h[n]) \subseteq C
      BY <3>1, <3>2, PassesStay
    <3>4. n \in 0 .. n
      BY <3>1, PassTypes
    <3>5. h[n] \in Counts
      BY <3>1, <3>4, PassTypes
    <3> HIDE DEF n
    <3> QED
      BY <3>1, <3>3, <3>5 DEF Kept, Counts
  <2> QED
    BY <2>1, <2>2
<1>2. Keys \subseteq A
  <2> HIDE DEF A
  <2> QED
    BY <1>1, AncestorsInduction
<1> QED
  BY <1>2

-----------------------------------------------------------------------------
(* Functions on part of a set.                                             *)

PartialMaps(X, Y) == UNION {[S -> Y] : S \in SUBSET X}

LEMMA PartialMapIs ==
    ASSUME NEW X, NEW Y, NEW f \in PartialMaps(X, Y)
    PROVE  /\ DOMAIN f \subseteq X
           /\ f = [x \in DOMAIN f |-> f[x]]
           /\ \A x \in DOMAIN f : f[x] \in Y
  BY DEF PartialMaps

LEMMA IsPartialMap ==
    ASSUME NEW X, NEW Y, NEW S \in SUBSET X, NEW f \in [S -> Y]
    PROVE  f \in PartialMaps(X, Y)
  BY DEF PartialMaps

\* g is f with x under v, or without x.
Adds(g, f, x, v) ==
    /\ DOMAIN g = DOMAIN f \cup {x}
    /\ g[x] = v
    /\ \A y \in DOMAIN f : y # x => g[y] = f[y]
Drops(g, f, x) ==
    /\ DOMAIN g = DOMAIN f \ {x}
    /\ \A y \in DOMAIN f : y # x => g[y] = f[y]

LEMMA WithMap ==
    ASSUME NEW X, NEW Y, NEW f \in PartialMaps(X, Y), NEW x \in X, NEW v \in Y
    PROVE  With(f, x, v) \in PartialMaps(X, Y) /\ Adds(With(f, x, v), f, x, v)
<1>1. DOMAIN f \subseteq X /\ \A y \in DOMAIN f : f[y] \in Y
  BY PartialMapIs
<1>2. With(f, x, v) \in [DOMAIN f \cup {x} -> Y] /\ DOMAIN f \cup {x} \in SUBSET X
  BY <1>1 DEF With
<1>3. With(f, x, v) \in PartialMaps(X, Y)
  BY <1>2, IsPartialMap
<1> QED
  BY <1>2, <1>3 DEF With, Adds

LEMMA WithoutMap ==
    ASSUME NEW X, NEW Y, NEW f \in PartialMaps(X, Y), NEW x
    PROVE  Without(f, x) \in PartialMaps(X, Y) /\ Drops(Without(f, x), f, x)
<1>1. DOMAIN f \subseteq X /\ \A y \in DOMAIN f : f[y] \in Y
  BY PartialMapIs
<1>2. Without(f, x) \in [DOMAIN f \ {x} -> Y] /\ DOMAIN f \ {x} \in SUBSET X
  BY <1>1 DEF Without
<1>3. Without(f, x) \in PartialMaps(X, Y)
  BY <1>2, IsPartialMap
<1> QED
  BY <1>2, <1>3 DEF Without, Drops

LEMMA NothingMap ==
    ASSUME NEW X, NEW Y
    PROVE  Nothing \in PartialMaps(X, Y) /\ DOMAIN Nothing = {}
<1>1. Nothing \in [{} -> Y] /\ {} \in SUBSET X
  BY DEF Nothing
<1> QED
  BY <1>1, IsPartialMap

-----------------------------------------------------------------------------
(* The orders of a cache.                                                  *)

Ticks == 1 .. LastTick
Entries == PartialMaps(Keys, Ticks)
Orders == PartialMaps(Ticks, Keys)

Matched(en, or, pr, tick) ==
    /\ \A k \in DOMAIN en :
           /\ en[k] <= tick
           /\ k \in Results => en[k] \in DOMAIN pr /\ pr[en[k]] = k
           /\ k \notin Results => en[k] \in DOMAIN or /\ or[en[k]] = k
    /\ \A t \in DOMAIN or : or[t] \in DOMAIN en /\ or[t] \notin Results /\ en[or[t]] = t
    /\ \A t \in DOMAIN pr : pr[t] \in DOMAIN en /\ pr[t] \in Results /\ en[pr[t]] = t

LEMMA MatchedWithout ==
    ASSUME NEW en \in Entries, NEW or \in Orders, NEW pr \in Orders, NEW tick,
           Matched(en, or, pr, tick), NEW k \in DOMAIN en
    PROVE  /\ k \in Results => Matched(Without(en, k), or, Without(pr, en[k]), tick)
           /\ k \notin Results => Matched(Without(en, k), Without(or, en[k]), pr, tick)
<1> DEFINE ne == Without(en, k)
           no == Without(or, en[k])
           np == Without(pr, en[k])
<1>1. Drops(ne, en, k)
  BY WithoutMap DEF Entries
<1>2. Drops(no, or, en[k])
  BY WithoutMap DEF Orders
<1>3. Drops(np, pr, en[k])
  BY WithoutMap DEF Orders
<1> HIDE DEF ne, no, np
<1>4. ASSUME k \in Results PROVE Matched(ne, or, np, tick)
  BY <1>1, <1>3, <1>4 DEF Matched, Drops
<1>5. ASSUME k \notin Results PROVE Matched(ne, no, pr, tick)
  BY <1>1, <1>2, <1>5 DEF Matched, Drops
<1> QED
  BY <1>4, <1>5 DEF ne, no, np

LEMMA MatchedWith ==
    ASSUME CacheAssumption, NEW en \in Entries, NEW or \in Orders, NEW pr \in Orders,
           NEW tick \in Ticks, Matched(en, or, pr, tick), \A q \in DOMAIN en : en[q] # tick,
           NEW k \in Keys, k \notin DOMAIN en
    PROVE  /\ k \in Results => Matched(With(en, k, tick), or, With(pr, tick, k), tick)
           /\ k \notin Results => Matched(With(en, k, tick), With(or, tick, k), pr, tick)
<1> DEFINE ne == With(en, k, tick)
           no == With(or, tick, k)
           np == With(pr, tick, k)
<1>1. Adds(ne, en, k, tick)
  BY WithMap DEF Entries
<1>2. Adds(no, or, tick, k)
  BY WithMap DEF Orders
<1>3. Adds(np, pr, tick, k)
  BY WithMap DEF Orders
<1>4. tick \notin DOMAIN or /\ tick \notin DOMAIN pr /\ tick <= tick
  BY DEF Matched, Ticks
<1> HIDE DEF ne, no, np
<1>5. ASSUME k \in Results PROVE Matched(ne, or, np, tick)
  BY <1>1, <1>3, <1>4, <1>5 DEF Matched, Adds
<1>6. ASSUME k \notin Results PROVE Matched(ne, no, pr, tick)
  BY <1>1, <1>2, <1>4, <1>6 DEF Matched, Adds
<1> QED
  BY <1>5, <1>6 DEF ne, no, np

\* The orders together hold as many ticks as there are entries.
LEMMA OrdersCount ==
    ASSUME CacheAssumption, NEW en \in Entries, NEW or \in Orders, NEW pr \in Orders,
           NEW tick, Matched(en, or, pr, tick)
    PROVE  Cardinality(DOMAIN en) = Cardinality(DOMAIN or) + Cardinality(DOMAIN pr)
<1> DEFINE A == DOMAIN en \cap Results
           B == DOMAIN en \ Results
<1>1. DOMAIN en \subseteq Keys
  BY PartialMapIs DEF Entries
<1>2. IsFiniteSet(DOMAIN en) /\ IsFiniteSet(A) /\ IsFiniteSet(B)
  <2>1. IsFiniteSet(DOMAIN en)
    BY <1>1, FS_Subset DEF CacheAssumption
  <2> QED
    BY <2>1, FS_Subset
<1>3. Cardinality(DOMAIN en) = Cardinality(A) + Cardinality(B)
  <2>1. DOMAIN en = A \cup B /\ A \cap B = {}
    OBVIOUS
  <2>2. Cardinality(A \cup B) = Cardinality(A) + Cardinality(B) - Cardinality(A \cap B)
    <3> HIDE DEF A, B
    <3> QED
      BY <1>2, FS_Union
  <2>3. Cardinality({}) = 0 /\ Cardinality(A) \in Nat /\ Cardinality(B) \in Nat
    BY <1>2, FS_EmptySet, FS_CardinalityType
  <2>4. Cardinality(DOMAIN en) = Cardinality(A \cup B)
    BY <2>1
  <2>5. Cardinality(A \cap B) = 0
    BY <2>1, <2>3
  <2> HIDE DEF A, B
  <2> QED
    BY <2>2, <2>3, <2>4, <2>5
<1>4. Cardinality(DOMAIN pr) = Cardinality(A)
  <2> DEFINE f == [k \in A |-> en[k]]
  <2>1. f \in Bijection(A, DOMAIN pr)
    <3>1. f \in [A -> DOMAIN pr]
      BY DEF Matched
    <3>2. \A k \in A, q \in A : f[k] = f[q] => k = q
      BY DEF Matched
    <3>3. \A t \in DOMAIN pr : pr[t] \in A /\ f[pr[t]] = t
      BY DEF Matched
    <3> HIDE DEF f, A
    <3> QED
      BY <3>1, <3>2, <3>3 DEF Bijection, Injection, Surjection, IsInjective
  <2> HIDE DEF f, A
  <2> QED
    BY <1>2, <2>1, FS_Bijection DEF ExistsBijection
<1>5. Cardinality(DOMAIN or) = Cardinality(B)
  <2> DEFINE f == [k \in B |-> en[k]]
  <2>1. f \in Bijection(B, DOMAIN or)
    <3>1. f \in [B -> DOMAIN or]
      BY DEF Matched
    <3>2. \A k \in B, q \in B : f[k] = f[q] => k = q
      BY DEF Matched
    <3>3. \A t \in DOMAIN or : or[t] \in B /\ f[or[t]] = t
      BY DEF Matched
    <3> HIDE DEF f, B
    <3> QED
      BY <3>1, <3>2, <3>3 DEF Bijection, Injection, Surjection, IsInjective
  <2> HIDE DEF f, B
  <2> QED
    BY <1>2, <2>1, FS_Bijection DEF ExistsBijection
<1>6. Cardinality(A) \in Nat /\ Cardinality(B) \in Nat
  BY <1>2, FS_CardinalityType
<1> QED
  BY <1>3, <1>4, <1>5, <1>6

CacheShape ==
    [entries : Entries, order : Orders, protected : Orders,
     identities : Counts, tick : 0 .. LastTick, bytes : Int]
CacheOf(en, or, pr, refs, tick, bytes) ==
    [entries |-> en, order |-> or, protected |-> pr,
     identities |-> refs, tick |-> tick, bytes |-> bytes]

LEMMA CacheFields ==
    ASSUME NEW c \in CacheShape
    PROVE  /\ c = CacheOf(c.entries, c.order, c.protected, c.identities, c.tick, c.bytes)
           /\ c.entries \in Entries /\ c.order \in Orders /\ c.protected \in Orders
           /\ c.identities \in Counts /\ c.tick \in 0 .. LastTick /\ c.bytes \in Int
  BY DEF CacheShape, CacheOf

LEMMA NewField ==
    ASSUME NEW en, NEW or, NEW pr, NEW refs, NEW tick, NEW bytes, NEW x
    PROVE  LET c == CacheOf(en, or, pr, refs, tick, bytes) IN
           /\ [c EXCEPT !.entries = x] = CacheOf(x, or, pr, refs, tick, bytes)
           /\ [c EXCEPT !.identities = x] = CacheOf(en, or, pr, x, tick, bytes)
           /\ [c EXCEPT !.tick = x] = CacheOf(en, or, pr, refs, x, bytes)
           /\ [c EXCEPT !.bytes = x] = CacheOf(en, or, pr, refs, tick, x)
           /\ c.entries = en /\ c.identities = refs /\ c.tick = tick /\ c.bytes = bytes
  BY DEF CacheOf

Recounted(c, x, y) == [c EXCEPT !.identities = x, !.bytes = y]
Reentered(c, x, y) == [c EXCEPT !.entries = x, !.bytes = y]

LEMMA NewFields ==
    ASSUME NEW en, NEW or, NEW pr, NEW refs, NEW tick, NEW bytes, NEW x, NEW y
    PROVE  /\ Recounted(CacheOf(en, or, pr, refs, tick, bytes), x, y)
                  = CacheOf(en, or, pr, x, tick, y)
           /\ Reentered(CacheOf(en, or, pr, refs, tick, bytes), x, y)
                  = CacheOf(x, or, pr, refs, tick, y)
<1> DEFINE c == CacheOf(en, or, pr, refs, tick, bytes)
<1>1. /\ [c EXCEPT !.identities = x, !.bytes = y] = [[c EXCEPT !.identities = x] EXCEPT !.bytes = y]
      /\ [c EXCEPT !.entries = x, !.bytes = y] = [[c EXCEPT !.entries = x] EXCEPT !.bytes = y]
  BY Zenon
<1>2. /\ [c EXCEPT !.identities = x] = CacheOf(en, or, pr, x, tick, bytes)
      /\ [c EXCEPT !.entries = x] = CacheOf(x, or, pr, refs, tick, bytes)
  BY NewField
<1>3. /\ [CacheOf(en, or, pr, x, tick, bytes) EXCEPT !.bytes = y] = CacheOf(en, or, pr, x, tick, y)
      /\ [CacheOf(x, or, pr, refs, tick, bytes) EXCEPT !.bytes = y]
             = CacheOf(x, or, pr, refs, tick, y)
  BY NewField
<1> HIDE DEF c
<1>4. /\ Recounted(c, x, y) = CacheOf(en, or, pr, x, tick, y)
      /\ Reentered(c, x, y) = CacheOf(x, or, pr, refs, tick, y)
  BY <1>1, <1>2, <1>3, Zenon DEF Recounted, Reentered
<1> QED
  BY <1>4 DEF c

LEMMA TouchIs ==
    ASSUME NEW c \in CacheShape
    PROVE  Touch(c) =
             IF c.tick = LastTick
             THEN CacheOf(Nothing, Nothing, Nothing, [k \in Keys |-> 0], 1, 0)
             ELSE CacheOf(c.entries, c.order, c.protected, c.identities, c.tick + 1, c.bytes)
<1>1. CASE c.tick = LastTick
  <2>1. Touch(c) = [[Clear(c) EXCEPT !.tick = 0] EXCEPT !.tick = @ + 1]
    BY <1>1 DEF Touch
  <2>2. Clear(c) = CacheOf(Nothing, Nothing, Nothing, [k \in Keys |-> 0], c.tick, 0)
    BY DEF Clear, EmptyCache, CacheOf
  <2> DEFINE d == CacheOf(Nothing, Nothing, Nothing, [k \in Keys |-> 0], 0, 0)
  <2>3. [Clear(c) EXCEPT !.tick = 0] = d
    BY <2>2, NewField
  <2>4. d.tick = 0 /\ [d EXCEPT !.tick = 1]
                      = CacheOf(Nothing, Nothing, Nothing, [k \in Keys |-> 0], 1, 0)
    BY NewField
  <2>5. [d EXCEPT !.tick = @ + 1] = [d EXCEPT !.tick = 1]
    <3> HIDE DEF d
    <3>1. d.tick + 1 = 1
      BY <2>4
    <3> QED
      BY <3>1
  <2> HIDE DEF d
  <2> QED
    BY <1>1, <2>1, <2>3, <2>4, <2>5
<1>2. CASE c.tick # LastTick
  <2>1. Touch(c) = [c EXCEPT !.tick = @ + 1]
    BY <1>2 DEF Touch
  <2> QED
    BY <1>2, <2>1 DEF CacheShape, CacheOf
<1> QED
  BY <1>1, <1>2

LEMMA ClearIs ==
    ASSUME NEW c \in CacheShape
    PROVE  Clear(c) = CacheOf(Nothing, Nothing, Nothing, [k \in Keys |-> 0], c.tick, 0)
  BY DEF CacheShape, CacheOf, Clear, EmptyCache

LEMMA EmptyIs ==
    EmptyCache = CacheOf(Nothing, Nothing, Nothing, [k \in Keys |-> 0], 0, 0)
  BY DEF CacheOf, EmptyCache

LEMMA ListedIs ==
    ASSUME NEW c \in CacheShape, NEW k
    PROVE  Listed(c, k) =
             CacheOf(With(c.entries, k, c.tick),
                     IF k \in Results THEN c.order ELSE With(c.order, c.tick, k),
                     IF k \in Results THEN With(c.protected, c.tick, k) ELSE c.protected,
                     c.identities, c.tick, c.bytes)
  BY DEF CacheShape, CacheOf, Listed

LEMMA UnlistedIs ==
    ASSUME NEW c \in CacheShape, NEW k
    PROVE  Unlisted(c, k) =
             CacheOf(c.entries,
                     IF k \in Results THEN c.order ELSE Without(c.order, c.entries[k]),
                     IF k \in Results THEN Without(c.protected, c.entries[k]) ELSE c.protected,
                     c.identities, c.tick, c.bytes)
  BY DEF CacheShape, CacheOf, Unlisted

LEMMA RetainIs ==
    ASSUME NEW c \in CacheShape, NEW k
    PROVE  Retain(c, k) =
             CacheOf(c.entries, c.order, c.protected, Gained[k][c.identities], c.tick,
                     c.bytes
                         + SumOver(Kept(Gained[k][c.identities]) \ Kept(c.identities), KeyBytes))
<1> DEFINE d == CacheOf(c.entries, c.order, c.protected, c.identities, c.tick, c.bytes)
           r == Gained[k][c.identities]
           x == SumOver(Kept(r) \ Kept(c.identities), KeyBytes)
<1>1. c = d
  BY CacheFields
<1>2. Retain(c, k) = Recounted(c, r, c.bytes + x)
  BY Zenon DEF Retain, Recounted
<1>3. Recounted(d, r, c.bytes + x)
      = CacheOf(c.entries, c.order, c.protected, r, c.tick, c.bytes + x)
  BY NewFields
<1> HIDE DEF d
<1> QED
  BY <1>1, <1>2, <1>3, Zenon

LEMMA RemovedIs ==
    ASSUME NEW c \in CacheShape, NEW k
    PROVE  Removed(c, k) =
             CacheOf(Without(c.entries, k),
                     IF k \in Results THEN c.order ELSE Without(c.order, c.entries[k]),
                     IF k \in Results THEN Without(c.protected, c.entries[k]) ELSE c.protected,
                     Lost[k][c.identities], c.tick,
                     (c.bytes - ValueBytes[k])
                         - SumOver(Kept(c.identities) \ Kept(Lost[k][c.identities]), KeyBytes))
<1> DEFINE d == Unlisted(c, k)
           en == Without(c.entries, k)
           or == IF k \in Results THEN c.order ELSE Without(c.order, c.entries[k])
           pr == IF k \in Results THEN Without(c.protected, c.entries[k]) ELSE c.protected
           r == Lost[k][c.identities]
           x == SumOver(Kept(c.identities) \ Kept(r), KeyBytes)
           v == c.bytes - ValueBytes[k]
           e == CacheOf(en, or, pr, c.identities, c.tick, v)
<1>1. d = CacheOf(c.entries, or, pr, c.identities, c.tick, c.bytes)
  BY UnlistedIs
<1>2. d.entries = c.entries /\ d.bytes = c.bytes
  BY <1>1, NewField
<1>3. [d EXCEPT !.entries = Without(@, k), !.bytes = @ - ValueBytes[k]]
      = Reentered(d, en, v)
  BY <1>2, Zenon DEF Reentered
<1>4. Reentered(d, en, v) = e
  <2> HIDE DEF en, or, pr, v, d
  <2> QED
    BY <1>1, NewFields
<1>5. Removed(c, k) = Release(e, k)
  <2> HIDE DEF e, en, v
  <2>1. Removed(c, k)
            = Release([d EXCEPT !.entries = Without(@, k), !.bytes = @ - ValueBytes[k]], k)
    BY Zenon DEF Removed
  <2> QED
    BY <1>3, <1>4, <2>1
<1>6. e.identities = c.identities /\ e.bytes = v
  BY NewField
<1>7. Release(e, k) = Recounted(e, r, v - x)
  <2>1. Release(e, k) = [e EXCEPT !.identities = Lost[k][e.identities],
                             !.bytes = e.bytes - SumOver(Kept(e.identities)
                                                         \ Kept(Lost[k][e.identities]), KeyBytes)]
    BY Zenon DEF Release
  <2> HIDE DEF e
  <2> QED
    BY <1>6, <2>1, Zenon DEF Recounted
<1>8. Recounted(e, r, v - x) = CacheOf(en, or, pr, r, c.tick, v - x)
  BY NewFields
<1> HIDE DEF e
<1> QED
  BY <1>5, <1>7, <1>8

-----------------------------------------------------------------------------
(* Every operation keeps the books.                                        *)

Held(en) == [k \in Keys |-> IF k \in DOMAIN en THEN 1 ELSE 0]
BytesOf(en, refs) == SumOver(DOMAIN en, ValueBytes) + SumOver(Kept(refs), KeyBytes)

Good(en, or, pr, refs, tick, bytes) ==
    /\ en \in Entries /\ or \in Orders /\ pr \in Orders
    /\ tick \in 0 .. LastTick
    /\ Matched(en, or, pr, tick)
    /\ Counted(refs, Held(en))
    /\ bytes = BytesOf(en, refs) /\ bytes <= MaxBytes
    /\ Cardinality(DOMAIN en) <= MaxEntries

GoodCaches ==
    {c \in CacheShape : Good(c.entries, c.order, c.protected, c.identities, c.tick, c.bytes)}

LEMMA EntriesAreFinite ==
    ASSUME CacheAssumption, NEW en \in Entries
    PROVE  /\ DOMAIN en \in SUBSET Keys /\ IsFiniteSet(DOMAIN en)
           /\ Cardinality(DOMAIN en) \in Nat
           /\ Summable(DOMAIN en, ValueBytes)
           /\ SumOver(DOMAIN en, ValueBytes) \in Nat
           /\ Held(en) \in [Keys -> Nat]
           /\ \A k \in DOMAIN en : en[k] \in Ticks
<1>1. DOMAIN en \in SUBSET Keys /\ \A k \in DOMAIN en : en[k] \in Ticks
  BY PartialMapIs DEF Entries
<1>2. IsFiniteSet(DOMAIN en) /\ \A k \in DOMAIN en : ValueBytes[k] \in Nat
  BY <1>1, FS_Subset DEF CacheAssumption
<1>3. Summable(DOMAIN en, ValueBytes) /\ SumOver(DOMAIN en, ValueBytes) \in Nat
  BY <1>2, SumIsNat
<1> QED
  BY <1>1, <1>2, <1>3, FS_CardinalityType DEF Held

LEMMA BytesAreInt ==
    ASSUME CacheAssumption, NEW en \in Entries, NEW refs
    PROVE  BytesOf(en, refs) \in Nat
<1>1. SumOver(DOMAIN en, ValueBytes) \in Nat
  BY EntriesAreFinite
<1>2. SumOver(Kept(refs), KeyBytes) \in Nat
  BY BytesOfKeys, KeptAreKeys
<1> QED
  BY <1>1, <1>2 DEF BytesOf

LEMMA IsGood ==
    ASSUME CacheAssumption, NEW en, NEW or, NEW pr, NEW refs, NEW tick, NEW bytes,
           Good(en, or, pr, refs, tick, bytes)
    PROVE  CacheOf(en, or, pr, refs, tick, bytes) \in GoodCaches
<1>1. en \in Entries /\ refs \in Counts /\ bytes \in Int
  <2>1. en \in Entries /\ refs \in Counts /\ bytes = BytesOf(en, refs)
    BY DEF Good, Counted
  <2> QED
    BY <2>1, BytesAreInt
<1>2. CacheOf(en, or, pr, refs, tick, bytes) \in CacheShape
  BY <1>1 DEF Good, CacheShape, CacheOf
<1> DEFINE c == CacheOf(en, or, pr, refs, tick, bytes)
<1>3. c.entries = en /\ c.order = or /\ c.protected = pr /\ c.identities = refs
      /\ c.tick = tick /\ c.bytes = bytes
  BY DEF CacheOf
<1>4. Good(c.entries, c.order, c.protected, c.identities, c.tick, c.bytes)
  <2> HIDE DEF c
  <2> QED
    BY <1>3
<1> QED
  BY <1>2, <1>4 DEF GoodCaches

LEMMA GoodIs ==
    ASSUME NEW c \in GoodCaches
    PROVE  c \in CacheShape /\ Good(c.entries, c.order, c.protected, c.identities, c.tick, c.bytes)
  BY DEF GoodCaches

NoCounts == [k \in Keys |-> 0]

LEMMA NothingIsGood ==
    ASSUME CacheAssumption, NEW tick \in 0 .. LastTick
    PROVE  Good(Nothing, Nothing, Nothing, NoCounts, tick, 0)
<1>1. Nothing \in Entries /\ Nothing \in Orders /\ DOMAIN Nothing = {}
  BY NothingMap DEF Entries, Orders
<1>2. Matched(Nothing, Nothing, Nothing, tick)
  BY <1>1 DEF Matched
<1>3. Kept(NoCounts) = {} /\ NoCounts \in Counts
  BY DEF Kept, NoCounts, Counts
<1>4. \A q \in Keys : MentionsIn({}, q) = 0
  BY SumEmpty DEF MentionsIn
<1>5. Held(Nothing) = NoCounts
  BY <1>1 DEF Held, NoCounts
<1>6. Counted(NoCounts, Held(Nothing))
  <2>1. NoCounts \in [Keys -> Nat] /\ \A q \in Keys : NoCounts[q] = 0
    BY DEF NoCounts
  <2> HIDE DEF NoCounts
  <2> QED
    BY <1>3, <1>4, <1>5, <2>1 DEF Counted
<1>7. BytesOf(Nothing, NoCounts) = 0
  BY <1>1, <1>3, SumEmpty DEF BytesOf
<1>8. Cardinality(DOMAIN Nothing) = 0 /\ 0 <= MaxEntries /\ 0 <= MaxBytes
  BY <1>1, FS_EmptySet DEF CacheAssumption
<1> QED
  BY <1>1, <1>2, <1>6, <1>7, <1>8 DEF Good

LEMMA EmptyIsGood ==
    ASSUME CacheAssumption PROVE EmptyCache \in GoodCaches
<1>1. 0 \in 0 .. LastTick
  BY DEF CacheAssumption
<1> QED
  BY <1>1, NothingIsGood, IsGood, EmptyIs DEF NoCounts

LEMMA ClearIsGood ==
    ASSUME CacheAssumption, NEW c \in GoodCaches PROVE Clear(c) \in GoodCaches
<1> DEFINE t == c.tick
<1>1. c \in CacheShape /\ t \in 0 .. LastTick
  BY GoodIs DEF Good
<1>2. Clear(c) = CacheOf(Nothing, Nothing, Nothing, NoCounts, t, 0)
  BY <1>1, ClearIs DEF NoCounts
<1> HIDE DEF t
<1> QED
  BY <1>1, <1>2, NothingIsGood, IsGood

\* After a touch the tick is that of no entry; nothing else changes, or all
\* is cleared.
Fresh(c) ==
    c.tick \in Ticks /\ \A k \in DOMAIN c.entries : c.entries[k] # c.tick
SameBut(d, c) ==
    \/ d.entries = c.entries /\ d.identities = c.identities /\ d.bytes = c.bytes
    \/ d.entries = Nothing /\ d.identities = NoCounts /\ d.bytes = 0

LEMMA TouchIsGood ==
    ASSUME CacheAssumption, NEW c \in GoodCaches
    PROVE  Touch(c) \in GoodCaches /\ Fresh(Touch(c)) /\ SameBut(Touch(c), c)
<1> DEFINE d == Touch(c)
<1>1. c \in CacheShape /\ Good(c.entries, c.order, c.protected, c.identities, c.tick, c.bytes)
  BY GoodIs
<1>2. c.tick \in 0 .. LastTick /\ LastTick \in Nat /\ LastTick >= 1
  BY <1>1 DEF Good, CacheAssumption
<1>3. CASE c.tick = LastTick
  <2>1. d = CacheOf(Nothing, Nothing, Nothing, NoCounts, 1, 0)
    BY <1>1, <1>3, TouchIs DEF NoCounts
  <2>2. 1 \in 0 .. LastTick /\ 1 \in Ticks
    BY <1>2 DEF Ticks
  <2>3. d \in GoodCaches
    BY <2>1, <2>2, NothingIsGood, IsGood
  <2>4. d.entries = Nothing /\ d.identities = NoCounts /\ d.bytes = 0 /\ d.tick = 1
    BY <2>1 DEF CacheOf
  <2>5. DOMAIN Nothing = {}
    BY DEF Nothing
  <2> HIDE DEF d
  <2> QED
    BY <2>2, <2>3, <2>4, <2>5 DEF Fresh, SameBut, d
<1>4. CASE c.tick # LastTick
  <2> DEFINE t == c.tick + 1
  <2>1. d = CacheOf(c.entries, c.order, c.protected, c.identities, t, c.bytes)
    BY <1>1, <1>4, TouchIs
  <2>2. t \in 0 .. LastTick /\ t \in Ticks /\ c.tick < t /\ c.tick \in Int
    BY <1>2, <1>4 DEF Ticks
  <2>3. \A k \in DOMAIN c.entries : c.entries[k] \in Int /\ c.entries[k] <= c.tick
    BY <1>1, EntriesAreFinite DEF Good, Matched, Ticks
  <2>4. \A k \in DOMAIN c.entries : c.entries[k] <= t /\ c.entries[k] # t
    BY <2>2, <2>3
  <2> HIDE DEF t
  <2>5. Matched(c.entries, c.order, c.protected, t)
    BY <1>1, <2>4 DEF Good, Matched
  <2>6. Good(c.entries, c.order, c.protected, c.identities, t, c.bytes)
    BY <1>1, <2>2, <2>5 DEF Good
  <2>7. d \in GoodCaches
    BY <2>1, <2>6, IsGood
  <2>8. d.entries = c.entries /\ d.identities = c.identities /\ d.bytes = c.bytes /\ d.tick = t
    BY <2>1 DEF CacheOf
  <2> HIDE DEF d
  <2> QED
    BY <2>2, <2>4, <2>7, <2>8 DEF Fresh, SameBut, d
<1> QED
  BY <1>3, <1>4

\* With the last tick all is cleared.
Cleared(e, d) == e.tick = 1 /\ d.tick = LastTick

LEMMA TouchEffect ==
    ASSUME CacheAssumption, NEW c \in GoodCaches
    PROVE  \/ Cleared(Touch(c), c)
           \/ Touch(c).tick = c.tick + 1 /\ Touch(c).entries = c.entries
<1>1. c \in CacheShape
  BY GoodIs
<1> QED
  BY <1>1, TouchIs DEF CacheOf, Cleared

LEMMA GetIsGood ==
    ASSUME CacheAssumption, NEW c \in GoodCaches, NEW k \in Keys
    PROVE  /\ Get(c, k) \in GoodCaches
           /\ \/ Cleared(Get(c, k), c)
              \/ Get(c, k).tick = c.tick + 1 /\ DOMAIN Get(c, k).entries = DOMAIN c.entries
<1> DEFINE d == Touch(c)
<1>1. d \in GoodCaches /\ Fresh(d)
  BY TouchIsGood
<1>2. ASSUME NEW x \in GoodCaches, Fresh(x), k \in DOMAIN x.entries
      PROVE  /\ Listed(Unlisted(x, k), k) \in GoodCaches
             /\ Listed(Unlisted(x, k), k).tick = x.tick
             /\ DOMAIN Listed(Unlisted(x, k), k).entries = DOMAIN x.entries
  <2> DEFINE en == x.entries
             or == x.order
             pr == x.protected
             t == x.tick
             oo == IF k \in Results THEN or ELSE Without(or, en[k])
             op == IF k \in Results THEN Without(pr, en[k]) ELSE pr
             ne == With(en, k, t)
             no == IF k \in Results THEN oo ELSE With(oo, t, k)
             np == IF k \in Results THEN With(op, t, k) ELSE op
  <2>1. x \in CacheShape /\ Good(en, or, pr, x.identities, t, x.bytes)
    BY GoodIs
  <2>2. en \in Entries /\ or \in Orders /\ pr \in Orders /\ Matched(en, or, pr, t)
        /\ x.identities \in Counts /\ x.bytes \in Int /\ t \in 0 .. LastTick
    BY <2>1, CacheFields DEF Good
  <2>3. t \in Ticks /\ \A q \in DOMAIN en : en[q] # t
    BY <1>2 DEF Fresh
  <2>4. Without(en, k) \in Entries /\ Drops(Without(en, k), en, k)
    BY <2>2, WithoutMap DEF Entries
  <2>5. oo \in Orders /\ op \in Orders
    <3>1. Without(or, en[k]) \in Orders /\ Without(pr, en[k]) \in Orders
      BY <2>2, WithoutMap DEF Orders
    <3> QED
      BY <2>2, <3>1
  <2>6. Matched(Without(en, k), oo, op, t)
    <3> HIDE DEF en, or, pr, t
    <3> QED
      BY <1>2, <2>2, MatchedWithout DEF en
  <2>7. ne \in Entries /\ Adds(ne, en, k, t)
    BY <2>2, <2>3, WithMap DEF Entries
  <2>8. no \in Orders /\ np \in Orders
    <3>1. With(oo, t, k) \in Orders /\ With(op, t, k) \in Orders
      <4> HIDE DEF oo, op, t
      <4> QED
        BY <2>3, <2>5, WithMap DEF Orders
    <3> QED
      BY <2>5, <3>1
  <2>9. With(Without(en, k), k, t) = ne
    BY DEF With, Without
  <2>10. Matched(ne, no, np, t)
    <3>1. \A q \in DOMAIN Without(en, k) : Without(en, k)[q] # t
      BY <2>3, <2>4 DEF Drops
    <3>2. k \notin DOMAIN Without(en, k)
      BY <2>4 DEF Drops
    <3> DEFINE we == Without(en, k)
    <3>3. we \in Entries /\ Matched(we, oo, op, t) /\ (\A q \in DOMAIN we : we[q] # t)
          /\ k \notin DOMAIN we /\ With(we, k, t) = ne
      BY <2>4, <2>6, <2>9, <3>1, <3>2
    <3> HIDE DEF we, oo, op, t, ne
    <3>4. /\ k \in Results => Matched(ne, oo, With(op, t, k), t)
          /\ k \notin Results => Matched(ne, With(oo, t, k), op, t)
      BY <2>3, <2>5, <3>3, MatchedWith
    <3> QED
      BY <3>4
  <2>11. DOMAIN ne = DOMAIN en
    BY <1>2, <2>7 DEF Adds
  <2>12. Good(ne, no, np, x.identities, t, x.bytes)
    <3>1. Held(ne) = Held(en) /\ BytesOf(ne, x.identities) = BytesOf(en, x.identities)
          /\ Cardinality(DOMAIN ne) = Cardinality(DOMAIN en)
      BY <2>11 DEF Held, BytesOf
    <3> HIDE DEF en, or, pr, ne, no, np, t
    <3> QED
      BY <2>1, <2>7, <2>8, <2>10, <3>1 DEF Good
  <2>13. Unlisted(x, k) = CacheOf(en, oo, op, x.identities, t, x.bytes)
    BY <2>1, UnlistedIs
  <2> DEFINE u == CacheOf(en, oo, op, x.identities, t, x.bytes)
  <2>14. u \in CacheShape /\ u.entries = en /\ u.order = oo /\ u.protected = op
         /\ u.identities = x.identities /\ u.tick = t /\ u.bytes = x.bytes
    <3> HIDE DEF en, oo, op, t
    <3> QED
      BY <2>2, <2>5 DEF CacheOf, CacheShape
  <2>15. Listed(u, k) = CacheOf(ne, no, np, x.identities, t, x.bytes)
    <3> HIDE DEF u
    <3>1. Listed(u, k) =
             CacheOf(With(u.entries, k, u.tick),
                     IF k \in Results THEN u.order ELSE With(u.order, u.tick, k),
                     IF k \in Results THEN With(u.protected, u.tick, k) ELSE u.protected,
                     u.identities, u.tick, u.bytes)
      BY <2>14, ListedIs
    <3> HIDE DEF en, oo, op, t
    <3> QED
      BY <2>14, <3>1
  <2> DEFINE l == CacheOf(ne, no, np, x.identities, t, x.bytes)
  <2>16. l.tick = t /\ DOMAIN l.entries = DOMAIN en
    <3> HIDE DEF ne, no, np, t
    <3> QED
      BY <2>11, NewField
  <2> HIDE DEF u, ne, no, np, t
  <2>17. l \in GoodCaches
    BY <2>12, IsGood
  <2>18. Listed(Unlisted(x, k), k) = l
    BY <2>13, <2>15 DEF u
  <2> HIDE DEF l
  <2> QED
    BY <2>16, <2>17, <2>18 DEF t
<1> HIDE DEF d
<1> DEFINE l == Listed(Unlisted(d, k), k)
<1>3. k \in DOMAIN d.entries =>
          l \in GoodCaches /\ l.tick = d.tick /\ DOMAIN l.entries = DOMAIN d.entries
  BY <1>1, <1>2
<1>4. Get(c, k) = IF k \in DOMAIN d.entries THEN l ELSE d
  BY Zenon DEF Get, Hit, d
<1>5. Cleared(d, c) \/ (d.tick = c.tick + 1 /\ d.entries = c.entries)
  BY TouchEffect DEF d
<1> HIDE DEF l
<1> DEFINE e == Get(c, k)
<1>6. e \in GoodCaches /\ e.tick = d.tick /\ DOMAIN e.entries = DOMAIN d.entries
  BY <1>1, <1>3, <1>4
<1> HIDE DEF e
<1>7. Cleared(e, c) \/ (e.tick = c.tick + 1 /\ DOMAIN e.entries = DOMAIN c.entries)
  BY <1>5, <1>6 DEF Cleared
<1> QED
  BY <1>6, <1>7 DEF e

LEMMA RemovedIsGood ==
    ASSUME CacheAssumption, ParentsFirst, NEW c \in GoodCaches, NEW k \in DOMAIN c.entries
    PROVE  /\ Removed(c, k) \in GoodCaches /\ Removed(c, k).tick = c.tick
           /\ DOMAIN Removed(c, k).entries = DOMAIN c.entries \ {k}
<1> DEFINE en == c.entries
           or == c.order
           pr == c.protected
           refs == c.identities
           t == c.tick
           b == c.bytes
           ne == Without(en, k)
           no == IF k \in Results THEN or ELSE Without(or, en[k])
           np == IF k \in Results THEN Without(pr, en[k]) ELSE pr
           fewer == Lost[k][refs]
           gone == SumOver(Kept(refs) \ Kept(fewer), KeyBytes)
<1>1. c \in CacheShape /\ Good(en, or, pr, refs, t, b)
  BY GoodIs
<1>2. /\ en \in Entries /\ or \in Orders /\ pr \in Orders /\ Matched(en, or, pr, t)
      /\ Counted(refs, Held(en)) /\ b = BytesOf(en, refs) /\ b <= MaxBytes /\ t \in 0 .. LastTick
      /\ Cardinality(DOMAIN en) <= MaxEntries
  BY <1>1 DEF Good
<1>3. k \in Keys
  BY <1>2, EntriesAreFinite
<1>4. ne \in Entries /\ Drops(ne, en, k)
  BY <1>2, WithoutMap DEF Entries
<1>5. no \in Orders /\ np \in Orders
  <2>1. Without(or, en[k]) \in Orders /\ Without(pr, en[k]) \in Orders
    BY <1>2, WithoutMap DEF Orders
  <2> QED
    BY <1>2, <2>1
<1>6. Matched(ne, no, np, t)
  <2>1. /\ k \in Results => Matched(ne, or, Without(pr, en[k]), t)
        /\ k \notin Results => Matched(ne, Without(or, en[k]), pr, t)
    BY <1>2, MatchedWithout
  <2> HIDE DEF en, or, pr, t, ne
  <2> QED
    BY <2>1
<1>7. DOMAIN ne = DOMAIN en \ {k}
  BY <1>4 DEF Drops
<1>8. Counted(fewer, Held(ne)) /\ Kept(fewer) \subseteq Kept(refs)
  <2>1. Held(en)[k] = 1 /\ Held(en)[k] > 0
    BY <1>3 DEF Held
  <2>2. LossCounts(k)
    BY <1>3, LostCounts
  <2>3. Counted(fewer, OneFewer(Held(en), k)) /\ Kept(fewer) \subseteq Kept(refs)
    <3> HIDE DEF en, refs
    <3> QED
      BY <1>2, <2>1, <2>2 DEF LossCounts
  <2>4. OneFewer(Held(en), k) = Held(ne)
    <3> HIDE DEF ne, en
    <3>1. /\ Held(en) \in [Keys -> {0, 1}] /\ Held(ne) \in [Keys -> {0, 1}]
          /\ \A q \in Keys : Held(en)[q] = (IF q \in DOMAIN en THEN 1 ELSE 0)
                            /\ Held(ne)[q] = (IF q \in DOMAIN ne THEN 1 ELSE 0)
      BY DEF Held
    <3>2. \A q \in Keys : q # k => Held(ne)[q] = Held(en)[q]
      BY <1>7, <3>1
    <3>3. Held(ne)[k] = 0 /\ Held(en)[k] = 1 /\ 1 - 1 = 0
      BY <1>3, <1>7, <2>1, <3>1
    <3> DEFINE g == OneFewer(Held(en), k)
    <3>4. DOMAIN g = Keys /\ g[k] = 0 /\ \A q \in Keys : q # k => g[q] = Held(en)[q]
      BY <1>3, <3>1, <3>3 DEF OneFewer
    <3>5. g = [q \in Keys |-> g[q]]
      BY <3>1 DEF OneFewer
    <3> HIDE DEF g
    <3>6. \A q \in Keys : g[q] = Held(ne)[q]
      BY <3>2, <3>3, <3>4
    <3>7. Held(ne) = [q \in Keys |-> Held(ne)[q]]
      BY <3>1
    <3> QED
      BY <3>5, <3>6, <3>7 DEF g
  <2> QED
    BY <2>3, <2>4
<1>9. SumOver(DOMAIN en, ValueBytes) = ValueBytes[k] + SumOver(DOMAIN ne, ValueBytes)
  <2> DEFINE D == DOMAIN en
  <2>1. Summable(D, ValueBytes) /\ k \in D
    BY <1>2, EntriesAreFinite
  <2>2. SumOver(D, ValueBytes) = ValueBytes[k] + SumOver(D \ {k}, ValueBytes)
    <3> HIDE DEF D
    <3> QED
      BY <2>1, SumWithout
  <2> QED
    BY <1>7, <2>2
<1>10. SumOver(Kept(refs), KeyBytes) = SumOver(Kept(fewer), KeyBytes) + gone
  BY <1>8, KeptAreKeys, BytesOfKeys
<1>11. /\ SumOver(DOMAIN ne, ValueBytes) \in Nat /\ SumOver(Kept(fewer), KeyBytes) \in Nat
       /\ gone \in Nat /\ ValueBytes[k] \in Nat
  <2>1. Kept(refs) \ Kept(fewer) \in SUBSET Keys
    BY KeptAreKeys
  <2>2. gone \in Nat
    BY <2>1, BytesOfKeys
  <2>3. SumOver(Kept(fewer), KeyBytes) \in Nat
    BY KeptAreKeys, BytesOfKeys
  <2>4. SumOver(DOMAIN ne, ValueBytes) \in Nat
    BY <1>4, EntriesAreFinite
  <2> QED
    BY <1>3, <2>2, <2>3, <2>4 DEF CacheAssumption
<1>12. (b - ValueBytes[k]) - gone = BytesOf(ne, fewer) /\ BytesOf(ne, fewer) <= MaxBytes
  <2> DEFINE v == SumOver(DOMAIN ne, ValueBytes)
             f == SumOver(Kept(fewer), KeyBytes)
             x == ValueBytes[k]
  <2>1. b = (x + v) + (f + gone) /\ BytesOf(ne, fewer) = v + f
    BY <1>2, <1>9, <1>10 DEF BytesOf
  <2>2. v \in Nat /\ f \in Nat /\ gone \in Nat /\ x \in Nat /\ MaxBytes \in Nat
    BY <1>11 DEF CacheAssumption
  <2>3. \A x1, v1, f1, g1 \in Nat : (((x1 + v1) + (f1 + g1)) - x1) - g1 = v1 + f1
                                  /\ v1 + f1 <= (x1 + v1) + (f1 + g1)
    OBVIOUS
  <2>4. (((x + v) + (f + gone)) - x) - gone = v + f /\ v + f <= (x + v) + (f + gone)
        /\ v + f \in Int /\ (x + v) + (f + gone) \in Int /\ MaxBytes \in Int
    <3> HIDE DEF v, f, x, gone
    <3> QED
      BY <2>2, <2>3
  <2>5. (x + v) + (f + gone) <= MaxBytes
    BY <1>2, <2>1
  <2>6. v + f <= MaxBytes
    <3> HIDE DEF v, f, x, gone
    <3> QED
      BY <2>4, <2>5
  <2> HIDE DEF b, v, f, gone, ne, fewer
  <2> QED
    BY <2>1, <2>4, <2>6
<1>13. Cardinality(DOMAIN ne) <= MaxEntries
  <2>1. Cardinality(DOMAIN ne) <= Cardinality(DOMAIN en) /\ Cardinality(DOMAIN ne) \in Nat
        /\ Cardinality(DOMAIN en) \in Nat
    <3>1. IsFiniteSet(DOMAIN en) /\ DOMAIN ne \subseteq DOMAIN en
      BY <1>2, <1>7, EntriesAreFinite
    <3> HIDE DEF en, ne
    <3> QED
      BY <1>2, <1>4, <3>1, EntriesAreFinite, FS_Subset
  <2> HIDE DEF en, ne
  <2> QED
    BY <1>2, <2>1 DEF CacheAssumption
<1>14. Good(ne, no, np, fewer, t, (b - ValueBytes[k]) - gone)
  <2> HIDE DEF en, or, pr, refs, t, b, ne, no, np, fewer, gone
  <2> QED
    BY <1>2, <1>4, <1>5, <1>6, <1>8, <1>12, <1>13 DEF Good
<1>15. Removed(c, k) = CacheOf(ne, no, np, fewer, t, (b - ValueBytes[k]) - gone)
  BY <1>1, RemovedIs
<1>16. Removed(c, k).entries = ne /\ Removed(c, k).tick = t
  BY <1>15 DEF CacheOf
<1> HIDE DEF ne, no, np, fewer, t, b, gone
<1> QED
  BY <1>7, <1>14, <1>15, <1>16, IsGood DEF en, t

-----------------------------------------------------------------------------
(* The last step of a put.                                                 *)

Placed(c, k) ==
    LET e == Listed(Retain(Touch(c), k), k)
    IN [e EXCEPT !.bytes = @ + ValueBytes[k]]

LEMMA PlacedBytes ==
    ASSUME CacheAssumption, ParentsFirst, NEW k \in Keys, NEW refs, NEW e, Counted(refs, e)
    PROVE  /\ SumOver(Kept(Gained[k][refs]), KeyBytes)
                  <= SumOver(Kept(refs), KeyBytes) + Cost(Kept(refs))[k]
           /\ SumOver(Kept(Gained[k][NoCounts]), KeyBytes)
                  <= SumOver(Kept(refs), KeyBytes) + Cost(Kept(refs))[k]
           /\ SumOver(Kept(refs), KeyBytes) \in Nat
           /\ Cost(Kept(refs))[k] \in Nat
<1> DEFINE C == Kept(Gained[k][refs])
<1>1. SumOver(C, KeyBytes) <= SumOver(Kept(refs), KeyBytes) + Cost(Kept(refs))[k]
  BY GainedSpends DEF Spends
<1>2. Counted(Gained[k][refs], OneMore(e, k)) /\ k \in C
  BY GainedCounts DEF GainCounts
<1>3. Closed(C)
  <2>1. \A p \in C : ParentsOf(p) \subseteq C
    BY <1>2, CountedClosed
  <2> QED
    BY <2>1, KeptAreKeys DEF Closed
<1>4. NoCounts \in Counts /\ Kept(NoCounts) = {}
  BY DEF NoCounts, Counts, Kept
<1>5. Kept(Gained[k][NoCounts]) \subseteq C
  <2>1. StaysWithin(k)
    BY GainedStaysWithin
  <2>2. C \in SUBSET Keys
    BY <1>3 DEF Closed
  <2> HIDE DEF C
  <2> QED
    BY <1>2, <1>3, <1>4, <2>1, <2>2 DEF StaysWithin
<1>6. SumOver(Kept(Gained[k][NoCounts]), KeyBytes) <= SumOver(C, KeyBytes)
  BY <1>5, KeptAreKeys, BytesOfKeys
<1>7. /\ SumOver(Kept(Gained[k][NoCounts]), KeyBytes) \in Nat /\ SumOver(C, KeyBytes) \in Nat
      /\ SumOver(Kept(refs), KeyBytes) \in Nat
  BY KeptAreKeys, BytesOfKeys
<1>8. Cost(Kept(refs))[k] \in Nat
  BY CostStep
<1> HIDE DEF C
<1> QED
  BY <1>1, <1>6, <1>7, <1>8 DEF C

LEMMA HeldOneMore ==
    ASSUME NEW en, NEW ne, NEW k \in Keys, k \notin DOMAIN en, DOMAIN ne = DOMAIN en \cup {k}
    PROVE  OneMore(Held(en), k) = Held(ne)
<1>1. /\ Held(en) \in [Keys -> {0, 1}] /\ Held(ne) \in [Keys -> {0, 1}]
      /\ \A q \in Keys : Held(en)[q] = (IF q \in DOMAIN en THEN 1 ELSE 0)
                         /\ Held(ne)[q] = (IF q \in DOMAIN ne THEN 1 ELSE 0)
  BY DEF Held
<1>2. \A q \in Keys : q # k => Held(ne)[q] = Held(en)[q]
  BY <1>1
<1>3. Held(ne)[k] = 1 /\ Held(en)[k] = 0 /\ 0 + 1 = 1
  BY <1>1
<1> DEFINE g == OneMore(Held(en), k)
<1>4. DOMAIN g = Keys /\ g[k] = 1 /\ \A q \in Keys : q # k => g[q] = Held(en)[q]
  BY <1>1, <1>3 DEF OneMore
<1>5. g = [q \in Keys |-> g[q]]
  BY <1>1 DEF OneMore
<1> HIDE DEF g
<1>6. \A q \in Keys : g[q] = Held(ne)[q]
  BY <1>2, <1>3, <1>4
<1>7. Held(ne) = [q \in Keys |-> Held(ne)[q]]
  BY <1>1
<1> QED
  BY <1>5, <1>6, <1>7 DEF g

\* A put on a good, freshly touched cache that has the room.
LEMMA PutIsGood ==
    ASSUME CacheAssumption, ParentsFirst, NEW c \in GoodCaches, Fresh(c), NEW k \in Keys,
           k \notin DOMAIN c.entries,
           Cardinality(DOMAIN c.entries) < MaxEntries,
           SumOver(DOMAIN c.entries, ValueBytes) + ValueBytes[k]
               + SumOver(Kept(Gained[k][c.identities]), KeyBytes) <= MaxBytes
    PROVE  LET e == Listed(Retain(c, k), k)
               f == [e EXCEPT !.bytes = @ + ValueBytes[k]]
           IN f \in GoodCaches /\ f.tick = c.tick /\ DOMAIN f.entries = DOMAIN c.entries \cup {k}
<1> DEFINE en == c.entries
           or == c.order
           pr == c.protected
           refs == c.identities
           t == c.tick
           b == c.bytes
           ne == With(en, k, t)
           no == IF k \in Results THEN or ELSE With(or, t, k)
           np == IF k \in Results THEN With(pr, t, k) ELSE pr
           more == Gained[k][refs]
           new == SumOver(Kept(more) \ Kept(refs), KeyBytes)
           v == SumOver(DOMAIN en, ValueBytes)
           f == SumOver(Kept(refs), KeyBytes)
           nb == (b + new) + ValueBytes[k]
<1>1. c \in CacheShape /\ Good(en, or, pr, refs, t, b)
  BY GoodIs
<1>2. /\ en \in Entries /\ or \in Orders /\ pr \in Orders /\ Matched(en, or, pr, t)
      /\ Counted(refs, Held(en)) /\ b = BytesOf(en, refs) /\ t \in 0 .. LastTick
  BY <1>1 DEF Good
<1>3. t \in Ticks /\ \A q \in DOMAIN en : en[q] # t
  BY DEF Fresh
<1>4. ne \in Entries /\ Adds(ne, en, k, t)
  BY <1>2, <1>3, WithMap DEF Entries
<1>5. no \in Orders /\ np \in Orders
  <2>1. With(or, t, k) \in Orders /\ With(pr, t, k) \in Orders
    BY <1>2, <1>3, WithMap DEF Orders
  <2> QED
    BY <1>2, <2>1
<1>6. Matched(ne, no, np, t)
  <2>1. /\ k \in Results => Matched(ne, or, With(pr, t, k), t)
        /\ k \notin Results => Matched(ne, With(or, t, k), pr, t)
    BY <1>2, <1>3, MatchedWith
  <2> HIDE DEF en, or, pr, t, ne
  <2> QED
    BY <2>1
<1>7. DOMAIN ne = DOMAIN en \cup {k}
  BY <1>4 DEF Adds
<1>8. Counted(more, Held(ne)) /\ Kept(refs) \subseteq Kept(more)
  <2>1. GainCounts(k)
    BY GainedCounts
  <2>2. Counted(more, OneMore(Held(en), k)) /\ Kept(refs) \subseteq Kept(more)
    <3> HIDE DEF en, refs
    <3> QED
      BY <1>2, <2>1 DEF GainCounts
  <2>3. OneMore(Held(en), k) = Held(ne)
    BY <1>7, HeldOneMore
  <2> QED
    BY <2>2, <2>3
<1>9. SumOver(DOMAIN ne, ValueBytes) = ValueBytes[k] + v
  <2> DEFINE D == DOMAIN ne
  <2>1. Summable(D, ValueBytes) /\ k \in D /\ D \ {k} = DOMAIN en
    BY <1>4, <1>7, EntriesAreFinite
  <2>2. SumOver(D, ValueBytes) = ValueBytes[k] + SumOver(D \ {k}, ValueBytes)
    <3> HIDE DEF D
    <3> QED
      BY <2>1, SumWithout
  <2> QED
    BY <2>1, <2>2
<1>10. SumOver(Kept(more), KeyBytes) = f + new
  BY <1>8, KeptAreKeys, BytesOfKeys
<1>11. v \in Nat /\ f \in Nat /\ new \in Nat /\ ValueBytes[k] \in Nat /\ MaxBytes \in Nat
  <2>1. Kept(more) \ Kept(refs) \in SUBSET Keys
    BY KeptAreKeys
  <2>2. new \in Nat
    BY <2>1, BytesOfKeys
  <2>3. f \in Nat
    BY KeptAreKeys, BytesOfKeys
  <2>4. v \in Nat
    BY <1>2, EntriesAreFinite
  <2> QED
    BY <2>2, <2>3, <2>4 DEF CacheAssumption
<1>12. nb = BytesOf(ne, more) /\ BytesOf(ne, more) <= MaxBytes
  <2> DEFINE x == ValueBytes[k]
  <2>1. b = v + f /\ BytesOf(ne, more) = (x + v) + (f + new)
    BY <1>2, <1>9, <1>10 DEF BytesOf
  <2>2. \A x1, v1, f1, g1 \in Nat : ((v1 + f1) + g1) + x1 = (x1 + v1) + (f1 + g1)
                                  /\ (v1 + x1) + (f1 + g1) = (x1 + v1) + (f1 + g1)
    OBVIOUS
  <2>3. ((v + f) + new) + x = (x + v) + (f + new) /\ (v + x) + (f + new) = (x + v) + (f + new)
    <3>1. v \in Nat /\ f \in Nat /\ new \in Nat /\ x \in Nat
      BY <1>11
    <3> HIDE DEF v, f, new, x
    <3> QED
      BY <2>2, <3>1
  <2>4. (v + x) + (f + new) <= MaxBytes
    BY <1>10
  <2> HIDE DEF b, v, f, new, ne, more
  <2> QED
    BY <2>1, <2>3, <2>4
<1>13. Cardinality(DOMAIN ne) <= MaxEntries
  <2>1. IsFiniteSet(DOMAIN en) /\ Cardinality(DOMAIN en) \in Nat
    BY <1>2, EntriesAreFinite
  <2>2. Cardinality(DOMAIN ne) = Cardinality(DOMAIN en) + 1
    <3> HIDE DEF en
    <3>1. Cardinality(DOMAIN en \cup {k}) = Cardinality(DOMAIN en) + 1
      BY <2>1, FS_AddElement DEF en
    <3> QED
      BY <1>7, <3>1
  <2> QED
    BY <2>1, <2>2 DEF CacheAssumption
<1>14. Good(ne, no, np, more, t, nb)
  <2> HIDE DEF en, or, pr, refs, t, b, ne, no, np, more, new, nb
  <2> QED
    BY <1>2, <1>4, <1>5, <1>6, <1>8, <1>12, <1>13 DEF Good
<1> DEFINE r == CacheOf(en, or, pr, more, t, b + new)
<1>15. Retain(c, k) = r
  BY <1>1, RetainIs
<1>16. r \in CacheShape /\ r.entries = en /\ r.order = or /\ r.protected = pr
       /\ r.identities = more /\ r.tick = t /\ r.bytes = b + new
  <2>1. b + new \in Int /\ more \in Counts
    BY <1>1, <1>8, <1>11, CacheFields DEF Counted
  <2> HIDE DEF en, or, pr, more, t, b, new
  <2> QED
    BY <1>2, <2>1 DEF CacheOf, CacheShape
<1> DEFINE l == CacheOf(ne, no, np, more, t, b + new)
<1>17. Listed(r, k) = l
  <2> HIDE DEF r
  <2>1. Listed(r, k) =
           CacheOf(With(r.entries, k, r.tick),
                   IF k \in Results THEN r.order ELSE With(r.order, r.tick, k),
                   IF k \in Results THEN With(r.protected, r.tick, k) ELSE r.protected,
                   r.identities, r.tick, r.bytes)
    BY <1>16, ListedIs
  <2> HIDE DEF en, or, pr, more, t, b, new
  <2> QED
    BY <1>16, <2>1
<1>18. [l EXCEPT !.bytes = @ + ValueBytes[k]] = CacheOf(ne, no, np, more, t, nb)
  <2> HIDE DEF ne, no, np, more, t, b, new, nb
  <2>1. l.bytes = b + new
    BY NewField
  <2>2. [l EXCEPT !.bytes = nb] = CacheOf(ne, no, np, more, t, nb)
    BY NewField
  <2>3. [l EXCEPT !.bytes = @ + ValueBytes[k]] = [l EXCEPT !.bytes = l.bytes + ValueBytes[k]]
    BY Zenon
  <2>4. nb = (b + new) + ValueBytes[k]
    BY DEF nb
  <2> HIDE DEF l
  <2> QED
    BY <2>1, <2>2, <2>3, <2>4
<1> DEFINE all == CacheOf(ne, no, np, more, t, nb)
<1>19. all \in GoodCaches /\ all.entries = ne /\ all.tick = t
  <2> HIDE DEF ne, no, np, more, t, nb
  <2> QED
    BY <1>14, IsGood, NewField
<1>20. DOMAIN all.entries = DOMAIN en \cup {k} /\ all.tick = c.tick
  BY <1>7, <1>19
<1> HIDE DEF ne, no, np, more, t, nb, r, l
<1>21. Listed(Retain(c, k), k) = l /\ [l EXCEPT !.bytes = @ + ValueBytes[k]] = all
  BY <1>15, <1>17, <1>18
<1> HIDE DEF all
<1> QED
  BY <1>19, <1>20, <1>21, Zenon

LEMMA PlacedIsGood ==
    ASSUME CacheAssumption, ParentsFirst, NEW c \in GoodCaches, NEW k \in Keys,
           k \notin DOMAIN c.entries, Fits(c, k)
    PROVE  /\ Placed(c, k) \in GoodCaches /\ Placed(c, k).tick = Touch(c).tick
           /\ DOMAIN Placed(c, k).entries = DOMAIN Touch(c).entries \cup {k}
<1> DEFINE d == Touch(c)
           v == SumOver(DOMAIN c.entries, ValueBytes)
           f == SumOver(Kept(c.identities), KeyBytes)
           cost == Cost(Kept(c.identities))[k]
           g == SumOver(Kept(Gained[k][c.identities]), KeyBytes)
           g0 == SumOver(Kept(Gained[k][NoCounts]), KeyBytes)
           x == ValueBytes[k]
<1>1. d \in GoodCaches /\ Fresh(d) /\ SameBut(d, c)
  BY TouchIsGood
<1>2. /\ c.entries \in Entries /\ Counted(c.identities, Held(c.entries))
      /\ c.bytes = v + f
  BY GoodIs DEF Good, BytesOf
<1>3. (v + f) + x + cost <= MaxBytes /\ Cardinality(DOMAIN c.entries) < MaxEntries
  BY <1>2, AdditionalIs DEF Fits
<1>4. g <= f + cost /\ g0 <= f + cost /\ f \in Nat /\ cost \in Nat
  BY <1>2, PlacedBytes
<1>5. v \in Nat /\ x \in Nat /\ MaxBytes \in Nat /\ Cardinality(DOMAIN c.entries) \in Nat
      /\ MaxEntries \in Nat
  BY <1>2, EntriesAreFinite DEF CacheAssumption
<1>6. g \in Nat /\ g0 \in Nat
  BY KeptAreKeys, BytesOfKeys
<1>7. v + x + g <= MaxBytes /\ 0 + x + g0 <= MaxBytes
  <2> HIDE DEF v, f, cost, g, g0, x
  <2> QED
    BY <1>3, <1>4, <1>5, <1>6
<1>8. DOMAIN Nothing = {} /\ SumOver({}, ValueBytes) = 0 /\ Cardinality({}) = 0
  BY SumEmpty, FS_EmptySet DEF Nothing
<1>9. /\ k \notin DOMAIN d.entries
      /\ Cardinality(DOMAIN d.entries) < MaxEntries
      /\ SumOver(DOMAIN d.entries, ValueBytes) + x
             + SumOver(Kept(Gained[k][d.identities]), KeyBytes) <= MaxBytes
  <2> HIDE DEF d
  <2>1. CASE d.entries = c.entries /\ d.identities = c.identities
    BY <1>3, <1>7, <2>1
  <2>2. CASE d.entries = Nothing /\ d.identities = NoCounts
    <3>1. 0 < MaxEntries
      BY <1>3, <1>5
    <3> HIDE DEF x
    <3> QED
      BY <1>7, <1>8, <2>2, <3>1
  <2> QED
    BY <1>1, <2>1, <2>2 DEF SameBut
<1> HIDE DEF d
<1> DEFINE e == Listed(Retain(d, k), k)
           all == [e EXCEPT !.bytes = @ + ValueBytes[k]]
<1>10. all \in GoodCaches /\ all.tick = d.tick /\ DOMAIN all.entries = DOMAIN d.entries \cup {k}
  BY <1>1, <1>9, PutIsGood
<1>11. Placed(c, k) = all
  BY Zenon DEF Placed, d
<1> HIDE DEF e, all
<1> QED
  BY <1>10, <1>11 DEF d

-----------------------------------------------------------------------------
(* Making room.                                                            *)

\* One turn of an eviction, and the fold of all turns.
Evicted(d, k) ==
    IF Fits(d, k) \/ Leaves(d, k) = {} THEN d
    ELSE Removed(d, CHOOSE old \in Leaves(d, k) : TRUE)
Evictions(c, k) ==
    CHOOSE g : g = [s \in SUBSET DOMAIN c.entries |->
                        IF s = {} THEN c ELSE Evicted(g[s \ {One(s)}], k)]

LEMMA MakeRoomIs ==
    ASSUME NEW c, NEW k PROVE MakeRoom(c, k) = Evictions(c, k)[DOMAIN c.entries]
  BY Zenon DEF MakeRoom, Evictions, Evicted, One, FoldSet, MapThenFoldSet

LEMMA OldestIsIn ==
    ASSUME CacheAssumption, NEW or \in Orders, DOMAIN or # {}
    PROVE  Oldest(or) \in DOMAIN or
<1>1. DOMAIN or \subseteq Nat
  BY PartialMapIs DEF Orders, Ticks
<1>2. PICK t \in DOMAIN or : \A u \in DOMAIN or : t <= u
  <2> DEFINE T == DOMAIN or
  <2>1. T \subseteq Nat /\ T # {}
    BY <1>1
  <2> HIDE DEF T
  <2>2. \E t \in T : \A u \in T : t <= u
    BY <2>1, LeastNumber
  <2> QED
    BY <2>2 DEF T
<1> QED
  BY <1>2 DEF Oldest

\* What leaves is a value of the cache.
LEMMA LeavesAreEntries ==
    ASSUME CacheAssumption, NEW c \in GoodCaches, NEW k
    PROVE  /\ Leaves(c, k) \subseteq DOMAIN c.entries
           /\ k \notin Results => Leaves(c, k) \cap Results = {}
<1>1. c.order \in Orders /\ c.protected \in Orders
      /\ Matched(c.entries, c.order, c.protected, c.tick)
  BY GoodIs DEF Good
<1>2. DOMAIN c.order # {} => Oldest(c.order) \in DOMAIN c.order
  BY <1>1, OldestIsIn
<1>3. DOMAIN c.protected # {} => Oldest(c.protected) \in DOMAIN c.protected
  BY <1>1, OldestIsIn
<1>4. /\ \A t \in DOMAIN c.order :
             c.order[t] \in DOMAIN c.entries /\ c.order[t] \notin Results
      /\ \A t \in DOMAIN c.protected : c.protected[t] \in DOMAIN c.entries
  BY <1>1 DEF Matched
<1> QED
  BY <1>2, <1>3, <1>4 DEF Leaves, EvictsResults


\* What evictions leave of c to make room for k: only a result evicts results.
Survive(d, c) == DOMAIN c.entries \cap Results \subseteq DOMAIN d.entries
Spared(d, c, k) ==
    /\ k \notin DOMAIN d.entries
    /\ d.tick = c.tick
    /\ k \notin Results => Survive(d, c)
Room(c, k) == {d \in GoodCaches : Spared(d, c, k)}

LEMMA RoomIs ==
    ASSUME NEW c, NEW k, NEW d
    PROVE  d \in Room(c, k) <=> d \in GoodCaches /\ Spared(d, c, k)
BY DEF Room

LEMMA SparedIs ==
    ASSUME NEW c, NEW k, NEW d
    PROVE  Spared(d, c, k) <=> (/\ k \notin DOMAIN d.entries
                                /\ d.tick = c.tick
                                /\ k \notin Results => Survive(d, c))
BY Zenon DEF Spared

LEMMA EvictedHasRoom ==
    ASSUME CacheAssumption, ParentsFirst, NEW c, NEW k \in Keys, NEW d \in Room(c, k)
    PROVE  /\ Evicted(d, k) \in Room(c, k)
           /\ \/ Fits(d, k) /\ Evicted(d, k) = d
              \/ Leaves(d, k) = {} /\ Evicted(d, k) = d
              \/ Cardinality(DOMAIN Evicted(d, k).entries) = Cardinality(DOMAIN d.entries) - 1
<1>1. /\ d \in GoodCaches /\ k \notin DOMAIN d.entries /\ d.tick = c.tick
      /\ k \notin Results => Survive(d, c)
  BY RoomIs, SparedIs
<1>2. CASE Fits(d, k) \/ Leaves(d, k) = {}
  BY <1>2 DEF Evicted
<1>3. CASE ~ (Fits(d, k) \/ Leaves(d, k) = {})
  <2> DEFINE old == CHOOSE x \in Leaves(d, k) : TRUE
  <2>1. old \in Leaves(d, k) /\ Evicted(d, k) = Removed(d, old)
    BY <1>3 DEF Evicted
  <2>2. old \in DOMAIN d.entries /\ (k \notin Results => old \notin Results)
    BY <1>1, <2>1, LeavesAreEntries
  <2> HIDE DEF old
  <2>3. /\ Removed(d, old) \in GoodCaches /\ Removed(d, old).tick = d.tick
        /\ DOMAIN Removed(d, old).entries = DOMAIN d.entries \ {old}
    BY <1>1, <2>2, RemovedIsGood
  <2>4. Removed(d, old) \in Room(c, k)
    <3> DEFINE e == Removed(d, old)
    <3>1. e \in GoodCaches /\ e.tick = c.tick /\ DOMAIN e.entries = DOMAIN d.entries \ {old}
      BY <1>1, <2>3
    <3> HIDE DEF e
    <3>2. k \notin DOMAIN e.entries
      BY <1>1, <3>1
    <3>3. k \notin Results => Survive(e, c)
      BY <1>1, <2>2, <3>1 DEF Survive
    <3>4. e \in Room(c, k)
      BY <3>1, <3>2, <3>3, RoomIs, SparedIs
    <3> QED
      BY <3>4 DEF e
  <2>5. Cardinality(DOMAIN d.entries \ {old}) = Cardinality(DOMAIN d.entries) - 1
    <3> DEFINE D == DOMAIN d.entries
    <3>1. IsFiniteSet(D) /\ old \in D
      BY <1>1, <2>2, GoodIs, EntriesAreFinite DEF Good
    <3> HIDE DEF D
    <3>2. Cardinality(D \ {old}) = Cardinality(D) - 1
      BY <3>1, FS_RemoveElement
    <3> QED
      BY <3>2 DEF D
  <2> QED
    BY <2>1, <2>3, <2>4, <2>5
<1> QED
  BY <1>2, <1>3

\* h tells what is left after every turn.
Turns(h, c, k) ==
    /\ h[{}] = c
    /\ \A s \in SUBSET DOMAIN c.entries :
           h[s] \in Room(c, k) /\ (s # {} => h[s] = Evicted(h[s \ {One(s)}], k))

LEMMA TurnsExist ==
    ASSUME CacheAssumption, ParentsFirst, NEW k \in Keys, NEW c, c \in Room(c, k)
    PROVE  \E h : Turns(h, c, k) /\ MakeRoom(c, k) = h[DOMAIN c.entries]
<1> DEFINE D == DOMAIN c.entries
           V == Room(c, k)
           pick == [s \in SUBSET D |-> One(s)]
           step == [z \in D \X V |-> Evicted(z[2], k)]
           Q(g) == g = [s \in SUBSET D |-> IF s = {} THEN c ELSE Evicted(g[s \ {One(s)}], k)]
           H == Evictions(c, k)
<1>1. IsFiniteSet(D) /\ Picks(pick, D)
  <2>1. IsFiniteSet(D)
    BY RoomIs, GoodIs, EntriesAreFinite DEF Good
  <2> QED
    BY <2>1, OneIsIn DEF Picks
<1>2. \A x \in D, v \in V : step[<<x, v>>] = Evicted(v, k)
  OBVIOUS
<1>3. StaysIn(V, D, c, step)
  <2>1. \A v \in V : Evicted(v, k) \in V
    BY EvictedHasRoom
  <2> HIDE DEF step, V, D
  <2> QED
    BY <1>2, <2>1 DEF StaysIn, V
<1>4. PICK g : FoldIn(V, D, pick, c, step, g)
  <2> HIDE DEF pick, step, D, V
  <2> QED
    BY <1>1, <1>3, FoldExists
<1>5. \A s \in SUBSET D : pick[s] = One(s)
  OBVIOUS
<1>6. Q(g)
  <2>1. g = [s \in SUBSET D |-> g[s]] /\ g[{}] = c
    BY <1>4 DEF FoldIn
  <2>2. ASSUME NEW s \in SUBSET D, s # {} PROVE g[s] = Evicted(g[s \ {One(s)}], k)
    <3> HIDE DEF pick, step, D, V
    <3>1. pick[s] = One(s) /\ One(s) \in D /\ g[s \ {One(s)}] \in V
      BY <1>1, <1>4, <1>5, <2>2 DEF FoldIn, Picks
    <3> QED
      BY <1>2, <1>4, <2>2, <3>1, ZenonT(60) DEF FoldIn
  <2> QED
    BY <2>1, <2>2, Zenon
<1>7. Q(H)
  BY <1>6 DEF Evictions
<1>8. Follows(V, D, pick, c, step, H)
  <2>1. H[{}] = c
    BY <1>7
  <2>2. ASSUME NEW s \in SUBSET D, s # {}, H[s \ {pick[s]}] \in V
        PROVE  H[s] = step[<<pick[s], H[s \ {pick[s]}]>>]
    <3>1. H[s] = Evicted(H[s \ {One(s)}], k)
      BY <1>7, <2>2
    <3> HIDE DEF pick, step, D, V, H
    <3>2. pick[s] = One(s) /\ One(s) \in D
      BY <1>1, <1>5, <2>2 DEF Picks
    <3> QED
      BY <1>2, <2>2, <3>1, <3>2
  <2> HIDE DEF H, pick, step, D, V
  <2> QED
    BY <2>1, <2>2 DEF Follows
<1>9. \A s \in SUBSET D : H[s] \in V
  <2> HIDE DEF H, pick, step, D, V
  <2> QED
    BY <1>1, <1>3, <1>8, FoldStays
<1>10. Turns(H, c, k)
  <2>1. \A s \in SUBSET D : s # {} => H[s] = Evicted(H[s \ {One(s)}], k)
    BY <1>7
  <2>2. H[{}] = c
    BY <1>7
  <2> HIDE DEF H
  <2> QED
    BY <1>9, <2>1, <2>2 DEF Turns
<1> QED
  BY <1>10, MakeRoomIs

\* There is a turn for every value: k fits in the end, or nothing may leave.
LEMMA MakeRoomMakesRoom ==
    ASSUME CacheAssumption, ParentsFirst, NEW k \in Keys, NEW c, c \in Room(c, k)
    PROVE  /\ MakeRoom(c, k) \in Room(c, k)
           /\ Fits(MakeRoom(c, k), k) \/ Leaves(MakeRoom(c, k), k) = {}
<1> DEFINE D == DOMAIN c.entries
           pick == [s \in SUBSET D |-> One(s)]
<1>1. PICK h : Turns(h, c, k) /\ MakeRoom(c, k) = h[D]
  BY TurnsExist
<1> DEFINE Settled(s) == Fits(h[s], k) \/ Leaves(h[s], k) = {}
           G == {s \in SUBSET D : \/ Settled(s)
                                  \/ Cardinality(DOMAIN h[s].entries) = Cardinality(D) - Cardinality(s)}
<1>2. c \in GoodCaches
  BY RoomIs
<1>3. IsFiniteSet(D) /\ Cardinality(D) \in Nat /\ Picks(pick, D)
  <2>1. IsFiniteSet(D) /\ Cardinality(D) \in Nat
    BY <1>2, GoodIs, EntriesAreFinite DEF Good
  <2> QED
    BY <2>1, OneIsIn DEF Picks
<1>4. {} \in G
  <2>1. Cardinality({}) = 0 /\ h[{}] = c
    BY <1>1, FS_EmptySet DEF Turns
  <2> QED
    BY <1>3, <2>1
<1>5. ASSUME NEW s \in SUBSET D, s # {}, s \ {One(s)} \in G PROVE s \in G
  <2> DEFINE r == s \ {One(s)}
             d == h[r]
  <2>1. One(s) \in s /\ r \in SUBSET D
    BY <1>5, OneIsIn
  <2>2. d \in Room(c, k) /\ h[s] = Evicted(d, k)
    BY <1>1, <1>5, <2>1 DEF Turns
  <2>3. Cardinality(r) = Cardinality(s) - 1 /\ Cardinality(s) \in Nat
    BY <1>3, <2>1, FS_Subset, FS_RemoveElement, FS_CardinalityType
  <2>4. \/ Fits(d, k) /\ Evicted(d, k) = d
        \/ Leaves(d, k) = {} /\ Evicted(d, k) = d
        \/ Cardinality(DOMAIN Evicted(d, k).entries) = Cardinality(DOMAIN d.entries) - 1
    <3> HIDE DEF d
    <3> QED
      BY <2>2, EvictedHasRoom
  <2>5. Settled(r) => Settled(s)
    BY <2>2, <2>4 DEF Evicted
  <2>6. ~ Settled(r) => Cardinality(DOMAIN h[s].entries) = Cardinality(D) - Cardinality(s)
    <3> SUFFICES ASSUME ~ Settled(r)
                 PROVE  Cardinality(DOMAIN h[s].entries) = Cardinality(D) - Cardinality(s)
      OBVIOUS
    <3>1. Cardinality(DOMAIN d.entries) = Cardinality(D) - Cardinality(r)
      BY <1>5
    <3>2. Cardinality(DOMAIN h[s].entries) = Cardinality(DOMAIN d.entries) - 1
      BY <2>2, <2>4
    <3>3. \A x, y \in Nat : (x - (y - 1)) - 1 = x - y
      OBVIOUS
    <3> DEFINE x == Cardinality(D)
               y == Cardinality(s)
    <3>4. x \in Nat /\ y \in Nat
      BY <1>3, <2>3
    <3>5. Cardinality(DOMAIN h[s].entries) = (x - (y - 1)) - 1
      BY <2>3, <3>1, <3>2
    <3> HIDE DEF x, y
    <3>6. Cardinality(DOMAIN h[s].entries) = x - y
      BY <3>3, <3>4, <3>5
    <3> QED
      BY <3>6 DEF x, y
  <2> HIDE DEF Settled, r
  <2> QED
    BY <1>5, <2>5, <2>6
<1>6. D \in G
  <2>1. Inductive(G, D, pick)
    <3>1. \A s \in SUBSET D : s # {} /\ s \ {pick[s]} \in G => s \in G
      BY <1>5
    <3> HIDE DEF G, D, pick
    <3> QED
      BY <1>4, <3>1 DEF Inductive
  <2> HIDE DEF G, pick
  <2>2. SUBSET D \subseteq G
    <3> HIDE DEF D
    <3> QED
      BY <1>3, <2>1, SubsetInduction
  <2> QED
    BY <2>2
<1> DEFINE d == h[D]
<1>7. d \in Room(c, k)
  BY <1>1 DEF Turns
<1>8. Cardinality(DOMAIN d.entries) = 0 => Leaves(d, k) = {}
  <2>1. d \in GoodCaches
    BY <1>7, RoomIs
  <2> HIDE DEF d
  <2>2. IsFiniteSet(DOMAIN d.entries) /\ Leaves(d, k) \subseteq DOMAIN d.entries
    BY <2>1, GoodIs, EntriesAreFinite, LeavesAreEntries DEF Good
  <2> QED
    BY <2>2, FS_EmptySet
<1>9. Settled(D)
  <2>1. Settled(D) \/ Cardinality(DOMAIN d.entries) = Cardinality(D) - Cardinality(D)
    BY <1>6
  <2>2. Cardinality(D) - Cardinality(D) = 0
    BY <1>3
  <2> QED
    BY <1>8, <2>1, <2>2
<1> QED
  BY <1>1, <1>7, <1>9

\* What a put does to the tick and to the results: with the last tick all is
\* cleared; else a value that is no result evicts none, and a result is in, or
\* nothing changed, or nothing is left.
PutEffect(e, d, k) ==
    \/ Cleared(e, d)
    \/ /\ e.tick \in {d.tick, d.tick + 1}
       /\ k \notin Results => Survive(e, d)
       /\ \/ DOMAIN e.entries = DOMAIN d.entries
          \/ DOMAIN e.entries = {}
          \/ k \in DOMAIN e.entries
          \/ k \notin Results

LEMMA NothingLeft ==
    ASSUME CacheAssumption, NEW c \in GoodCaches, NEW k \in Results, Leaves(c, k) = {}
    PROVE  DOMAIN c.entries = {}
<1>1. Matched(c.entries, c.order, c.protected, c.tick)
  BY GoodIs DEF Good
<1>2. DOMAIN c.order = {} /\ DOMAIN c.protected = {}
  BY DEF Leaves, EvictsResults
<1> QED
  BY <1>1, <1>2 DEF Matched

LEMMA PutKeepsGood ==
    ASSUME CacheAssumption, ParentsFirst, NEW c \in GoodCaches, NEW k \in Keys
    PROVE  Put(c, k) \in GoodCaches /\ PutEffect(Put(c, k), c, k)
<1> DEFINE b == IF k \in DOMAIN c.entries THEN Removed(c, k) ELSE c
           d == MakeRoom(b, k)
           full == MaxEntries = 0 \/ ValueBytes[k] + Additional(c, k) > MaxBytes
<1>1. b \in Room(b, k) /\ b.tick = c.tick /\ (k \notin Results => Survive(b, c))
  <2>1. k \in DOMAIN c.entries =>
            /\ Removed(c, k) \in GoodCaches /\ Removed(c, k).tick = c.tick
            /\ DOMAIN Removed(c, k).entries = DOMAIN c.entries \ {k}
    BY RemovedIsGood
  <2>2. b \in GoodCaches /\ k \notin DOMAIN b.entries /\ b.tick = c.tick
        /\ DOMAIN b.entries = DOMAIN c.entries \ {k}
    BY <2>1
  <2> HIDE DEF b
  <2> QED
    BY <2>2, RoomIs, SparedIs DEF Survive
<1>2. /\ d \in GoodCaches /\ k \notin DOMAIN d.entries /\ d.tick = c.tick
      /\ k \notin Results => Survive(d, c)
      /\ Fits(d, k) \/ Leaves(d, k) = {}
  <2> HIDE DEF b
  <2>1. d \in Room(b, k) /\ (Fits(d, k) \/ Leaves(d, k) = {})
    BY <1>1, MakeRoomMakesRoom
  <2> HIDE DEF d
  <2>2. d \in GoodCaches /\ k \notin DOMAIN d.entries /\ d.tick = b.tick
        /\ (k \notin Results => Survive(d, b))
    BY <2>1, RoomIs, SparedIs
  <2> QED
    BY <1>1, <2>1, <2>2 DEF Survive
<1>3. Put(c, k) = IF full THEN c ELSE IF ~ Fits(d, k) THEN d ELSE Placed(d, k)
  BY Zenon DEF Put, Placed
<1>4. Fits(d, k) =>
          /\ Placed(d, k) \in GoodCaches /\ Placed(d, k).tick = Touch(d).tick
          /\ DOMAIN Placed(d, k).entries = DOMAIN Touch(d).entries \cup {k}
  <2> HIDE DEF d
  <2> QED
    BY <1>2, PlacedIsGood
<1> HIDE DEF d, full
<1>5. CASE full
  BY <1>3, <1>5 DEF PutEffect, Survive
<1>6. CASE ~ full /\ ~ Fits(d, k)
  <2>1. Put(c, k) = d /\ Leaves(d, k) = {}
    BY <1>2, <1>3, <1>6
  <2>2. k \in Results => DOMAIN d.entries = {}
    BY <1>2, <2>1, NothingLeft
  <2> QED
    BY <1>2, <2>1, <2>2 DEF PutEffect
<1>7. CASE ~ full /\ Fits(d, k)
  <2>1. Put(c, k) = Placed(d, k)
    BY <1>3, <1>7
  <2>2. Cleared(Touch(d), d) \/ (Touch(d).tick = d.tick + 1 /\ Touch(d).entries = d.entries)
    BY <1>2, TouchEffect
  <2> DEFINE e == Placed(d, k)
  <2>3. e \in GoodCaches /\ e.tick = Touch(d).tick
        /\ DOMAIN e.entries = DOMAIN Touch(d).entries \cup {k}
    BY <1>4, <1>7
  <2> HIDE DEF e
  <2>4. CASE Cleared(Touch(d), d)
    <3>1. Cleared(e, c)
      BY <1>2, <2>3, <2>4 DEF Cleared
    <3> QED
      BY <2>1, <2>3, <3>1 DEF PutEffect, e
  <2>5. CASE Touch(d).tick = d.tick + 1 /\ Touch(d).entries = d.entries
    <3>1. e.tick = c.tick + 1 /\ DOMAIN e.entries = DOMAIN d.entries \cup {k}
      BY <1>2, <2>3, <2>5
    <3>2. k \notin Results => Survive(e, c)
      BY <1>2, <3>1 DEF Survive
    <3>3. PutEffect(e, c, k)
      BY <3>1, <3>2 DEF PutEffect
    <3> QED
      BY <2>1, <2>3, <3>3 DEF e
  <2> QED
    BY <2>2, <2>4, <2>5
<1> QED
  BY <1>5, <1>6, <1>7

-----------------------------------------------------------------------------
(* A batch.                                                                *)

\* One key looked up; the lookups, and the puts, of all.
Seen(s, k) ==
    [cache |-> Get(s.cache, k),
     missing |-> IF Hit(s.cache, k) THEN s.missing ELSE Append(s.missing, k)]
Lookups(c, keys) ==
    CHOOSE g : g = [s \in SUBSET DOMAIN keys |->
        IF s = {} THEN [cache |-> c, missing |-> <<>>]
        ELSE Seen(g[s \ {Max(s)}], keys[Max(s)])]
PutAll(c, keys) == FoldLeft(LAMBDA e, k : Put(e, k), c, keys)
Puts(c, keys) ==
    CHOOSE g : g = [s \in SUBSET DOMAIN keys |->
        IF s = {} THEN c ELSE Put(g[s \ {Max(s)}], keys[Max(s)])]

LEMMA LookedUpIs ==
    ASSUME NEW c, NEW keys PROVE LookedUp(c, keys) = Lookups(c, keys)[DOMAIN keys]
  BY Zenon DEF LookedUp, Lookups, Seen, FoldLeft, MapThenFoldSet

LEMMA PutAllIs ==
    ASSUME NEW c, NEW keys PROVE PutAll(c, keys) = Puts(c, keys)[DOMAIN keys]
  BY Zenon DEF PutAll, Puts, FoldLeft, MapThenFoldSet

LEMMA BatchIs ==
    ASSUME NEW c, NEW keys
    PROVE  Batch(c, keys) = PutAll(LookedUp(c, keys).cache, LookedUp(c, keys).missing)
  BY Zenon DEF Batch, PutAll

LookedUps == [cache : GoodCaches, missing : Seq(Keys)]

LEMMA SeenIsGood ==
    ASSUME CacheAssumption, NEW s \in LookedUps, NEW k \in Keys
    PROVE  Seen(s, k) \in LookedUps
<1>1. s.cache \in GoodCaches /\ s.missing \in Seq(Keys)
  BY DEF LookedUps
<1>2. Get(s.cache, k) \in GoodCaches
  BY <1>1, GetIsGood
<1>3. (IF Hit(s.cache, k) THEN s.missing ELSE Append(s.missing, k)) \in Seq(Keys)
  BY <1>1
<1> QED
  BY <1>2, <1>3 DEF Seen, LookedUps

\* h is what is known after each key.
Looks(h, c, keys) ==
    /\ h \in [0 .. Len(keys) -> LookedUps]
    /\ h[0] = [cache |-> c, missing |-> <<>>]
    /\ \A i \in 1 .. Len(keys) : h[i] = Seen(h[i - 1], keys[i])

LEMMA LookupsExist ==
    ASSUME CacheAssumption, ParentsFirst, NEW c \in GoodCaches, NEW keys \in Seq(Keys)
    PROVE  \E h : Looks(h, c, keys) /\ LookedUp(c, keys) = h[Len(keys)]
<1> DEFINE D == DOMAIN keys
           n == Len(keys)
           V == LookedUps
           base == [cache |-> c, missing |-> <<>>]
           pick == MaxOf(n)
           step == [z \in D \X V |-> Seen(z[2], keys[z[1]])]
           H == Lookups(c, keys)
<1>1. n \in Nat /\ D = 1 .. n /\ \A i \in D : keys[i] \in Keys
  OBVIOUS
<1>2. IsFiniteSet(D) /\ Picks(pick, D) /\ \A s \in SUBSET D : pick[s] = Max(s)
  BY <1>1, MaxOfPicks DEF MaxOf
<1>3. \A i \in D, v \in V : step[<<i, v>>] = Seen(v, keys[i])
  OBVIOUS
<1>4. StaysIn(V, D, base, step)
  <2>1. base \in LookedUps
    BY DEF LookedUps
  <2>2. \A v \in V, k \in Keys : Seen(v, k) \in V
    BY SeenIsGood
  <2> HIDE DEF step, D, base
  <2> QED
    BY <1>1, <1>3, <2>1, <2>2 DEF StaysIn
<1>5. PICK g : FoldIn(V, D, pick, base, step, g)
  <2> HIDE DEF pick, step, D, V, base
  <2> QED
    BY <1>2, <1>4, FoldExists
<1> DEFINE Q(f) == f = [s \in SUBSET D |->
                        IF s = {} THEN base ELSE Seen(f[s \ {Max(s)}], keys[Max(s)])]
<1>6. Q(g)
  <2>1. g = [s \in SUBSET D |-> g[s]] /\ g[{}] = base
    BY <1>5 DEF FoldIn
  <2>2. ASSUME NEW s \in SUBSET D, s # {} PROVE g[s] = Seen(g[s \ {Max(s)}], keys[Max(s)])
    <3> HIDE DEF pick, step, D, V, base
    <3>1. pick[s] = Max(s) /\ Max(s) \in D /\ g[s \ {Max(s)}] \in V
      BY <1>2, <1>5, <2>2 DEF FoldIn, Picks
    <3> QED
      BY <1>3, <1>5, <2>2, <3>1 DEF FoldIn
  <2> HIDE DEF base
  <2> QED
    BY <2>1, <2>2, Zenon
<1>7. Q(H)
  BY <1>6 DEF Lookups
<1>8. Follows(V, D, pick, base, step, H)
  <2>1. H[{}] = base
    BY <1>7
  <2>2. ASSUME NEW s \in SUBSET D, s # {}, H[s \ {pick[s]}] \in V
        PROVE  H[s] = step[<<pick[s], H[s \ {pick[s]}]>>]
    <3>1. H[s] = Seen(H[s \ {Max(s)}], keys[Max(s)])
      BY <1>7, <2>2
    <3> HIDE DEF pick, step, D, V, H
    <3>2. pick[s] = Max(s) /\ Max(s) \in D
      BY <1>2, <2>2 DEF Picks
    <3> QED
      BY <1>3, <2>2, <3>1, <3>2
  <2> HIDE DEF H, pick, step, D, V, base
  <2> QED
    BY <2>1, <2>2 DEF Follows
<1>9. PICK h : Chain(h, n, V, base, step) /\ h[n] = H[D]
  <2> HIDE DEF H, step, n, V, base, D
  <2>1. n \in Nat /\ StaysIn(V, 1 .. n, base, step) /\ Follows(V, 1 .. n, MaxOf(n), base, step, H)
    BY <1>1, <1>4, <1>8, Zenon DEF pick
  <2> HIDE DEF pick
  <2>2. \E h : Chain(h, n, V, base, step) /\ h[n] = H[1 .. n]
    BY <2>1, ChainExists, SMTT(60)
  <2> QED
    BY <1>1, <2>2
<1>10. Looks(h, c, keys)
  <2>1. h \in [0 .. n -> V] /\ h[0] = base
    BY <1>9 DEF Chain
  <2>2. ASSUME NEW i \in 1 .. n PROVE h[i] = Seen(h[i - 1], keys[i])
    <3>1. i \in D /\ i - 1 \in 0 .. n
      BY <1>1
    <3>2. h[i] = step[<<i, h[i - 1]>>]
      <4> HIDE DEF step, n, V, base
      <4> QED
        BY <1>9 DEF Chain
    <3>3. h[i - 1] \in V
      <4> HIDE DEF V
      <4> QED
        BY <2>1, <3>1
    <3> HIDE DEF step, V
    <3> QED
      BY <1>3, <3>1, <3>2, <3>3
  <2> QED
    BY <2>1, <2>2 DEF Looks
<1> QED
  BY <1>1, <1>9, <1>10, LookedUpIs

PutOneByOne(h, c, keys) ==
    /\ h \in [0 .. Len(keys) -> GoodCaches]
    /\ h[0] = c
    /\ \A i \in 1 .. Len(keys) : h[i] = Put(h[i - 1], keys[i])

LEMMA PutsExist ==
    ASSUME CacheAssumption, ParentsFirst, NEW c \in GoodCaches, NEW keys \in Seq(Keys)
    PROVE  \E h : PutOneByOne(h, c, keys) /\ PutAll(c, keys) = h[Len(keys)]
<1> DEFINE D == DOMAIN keys
           n == Len(keys)
           V == GoodCaches
           base == c
           pick == MaxOf(n)
           step == [z \in D \X V |-> Put(z[2], keys[z[1]])]
           H == Puts(c, keys)
<1>1. n \in Nat /\ D = 1 .. n /\ \A i \in D : keys[i] \in Keys
  OBVIOUS
<1>2. IsFiniteSet(D) /\ Picks(pick, D) /\ \A s \in SUBSET D : pick[s] = Max(s)
  BY <1>1, MaxOfPicks DEF MaxOf
<1>3. \A i \in D, v \in V : step[<<i, v>>] = Put(v, keys[i])
  OBVIOUS
<1>4. StaysIn(V, D, base, step)
  <2>1. \A v \in V, k \in Keys : Put(v, k) \in V
    BY PutKeepsGood
  <2> HIDE DEF step, D
  <2> QED
    BY <1>1, <1>3, <2>1 DEF StaysIn
<1>5. PICK g : FoldIn(V, D, pick, base, step, g)
  <2> HIDE DEF pick, step, D, V, base
  <2> QED
    BY <1>2, <1>4, FoldExists
<1> DEFINE Q(f) == f = [s \in SUBSET D |->
                        IF s = {} THEN base ELSE Put(f[s \ {Max(s)}], keys[Max(s)])]
<1>6. Q(g)
  <2>1. g = [s \in SUBSET D |-> g[s]] /\ g[{}] = base
    BY <1>5 DEF FoldIn
  <2>2. ASSUME NEW s \in SUBSET D, s # {} PROVE g[s] = Put(g[s \ {Max(s)}], keys[Max(s)])
    <3> HIDE DEF pick, step, D, V, base
    <3>1. pick[s] = Max(s) /\ Max(s) \in D /\ g[s \ {Max(s)}] \in V
      BY <1>2, <1>5, <2>2 DEF FoldIn, Picks
    <3> QED
      BY <1>3, <1>5, <2>2, <3>1 DEF FoldIn
  <2> HIDE DEF base
  <2> QED
    BY <2>1, <2>2, Zenon
<1>7. Q(H)
  BY <1>6 DEF Puts
<1>8. Follows(V, D, pick, base, step, H)
  <2>1. H[{}] = base
    BY <1>7
  <2>2. ASSUME NEW s \in SUBSET D, s # {}, H[s \ {pick[s]}] \in V
        PROVE  H[s] = step[<<pick[s], H[s \ {pick[s]}]>>]
    <3>1. H[s] = Put(H[s \ {Max(s)}], keys[Max(s)])
      BY <1>7, <2>2
    <3> HIDE DEF pick, step, D, V, H
    <3>2. pick[s] = Max(s) /\ Max(s) \in D
      BY <1>2, <2>2 DEF Picks
    <3> QED
      BY <1>3, <2>2, <3>1, <3>2
  <2> HIDE DEF H, pick, step, D, V, base
  <2> QED
    BY <2>1, <2>2 DEF Follows
<1>9. PICK h : Chain(h, n, V, base, step) /\ h[n] = H[D]
  <2> HIDE DEF H, step, n, V, base, D
  <2>1. n \in Nat /\ StaysIn(V, 1 .. n, base, step) /\ Follows(V, 1 .. n, MaxOf(n), base, step, H)
    BY <1>1, <1>4, <1>8, Zenon DEF pick
  <2> HIDE DEF pick
  <2>2. \E h : Chain(h, n, V, base, step) /\ h[n] = H[1 .. n]
    BY <2>1, ChainExists, SMTT(60)
  <2> QED
    BY <1>1, <2>2
<1>10. PutOneByOne(h, c, keys)
  <2>1. h \in [0 .. n -> V] /\ h[0] = base
    BY <1>9 DEF Chain
  <2>2. ASSUME NEW i \in 1 .. n PROVE h[i] = Put(h[i - 1], keys[i])
    <3>1. i \in D /\ i - 1 \in 0 .. n
      BY <1>1
    <3>2. h[i] = step[<<i, h[i - 1]>>]
      <4> HIDE DEF step, n, V, base
      <4> QED
        BY <1>9 DEF Chain
    <3>3. h[i - 1] \in V
      <4> HIDE DEF V
      <4> QED
        BY <2>1, <3>1
    <3> HIDE DEF step, V
    <3> QED
      BY <1>3, <3>1, <3>2, <3>3
  <2> QED
    BY <2>1, <2>2 DEF PutOneByOne
<1> QED
  BY <1>1, <1>9, <1>10, PutAllIs

\* A batch is of one stage, and short beside the ticks: it does not go through
\* all of them.
Behind(d, c, i) == d.tick + LastTick <= c.tick + i
Near(d, c, i) == d.tick <= c.tick + i

LEMMA GoodTicks ==
    ASSUME CacheAssumption, NEW c \in GoodCaches
    PROVE  c.tick \in Nat /\ c.tick <= LastTick /\ LastTick \in Nat /\ 1 <= LastTick
<1>1. c.tick \in 0 .. LastTick
  BY GoodIs DEF Good
<1> QED
  BY <1>1 DEF CacheAssumption

LEMMA Drift ==
    ASSUME CacheAssumption, NEW c \in GoodCaches, NEW d \in GoodCaches, NEW e \in GoodCaches,
           NEW i \in Nat, Behind(d, c, i) \/ Near(d, c, i)
    PROVE  /\ Cleared(e, d) => Behind(e, c, i + 1)
           /\ e.tick \in {d.tick, d.tick + 1} =>
                  /\ Behind(d, c, i) => Behind(e, c, i + 1)
                  /\ Near(d, c, i) => Near(e, c, i + 1)
<1>1. /\ c.tick \in Nat /\ d.tick \in Nat /\ e.tick \in Nat
      /\ LastTick \in Nat /\ 1 <= LastTick
  BY GoodTicks
<1> DEFINE x == c.tick
           y == d.tick
           z == e.tick
           l == LastTick
<1>2. y + l <= x + i \/ y <= x + i
  BY DEF Behind, Near
<1>3. x \in Nat /\ y \in Nat /\ z \in Nat /\ l \in Nat /\ 1 <= l
  BY <1>1
<1> HIDE DEF x, y, z, l
<1>4. z = 1 /\ y = l => z + l <= x + (i + 1)
  BY <1>2, <1>3
<1>5. z \in {y, y + 1} => /\ y + l <= x + i => z + l <= x + (i + 1)
                          /\ y <= x + i => z <= x + (i + 1)
  BY <1>3
<1> QED
  BY <1>4, <1>5 DEF Behind, Near, Cleared, x, y, z, l

\* What is known after i lookups of keys in W.
LookedAt(s, c, W, i) ==
    /\ s.missing \in Seq(W) /\ Len(s.missing) <= i
    /\ \/ Behind(s.cache, c, i)
       \/ /\ Near(s.cache, c, i)
          /\ DOMAIN s.cache.entries = DOMAIN c.entries
          /\ s.missing \in Seq(W \ DOMAIN c.entries)

LEMMA LooksOn ==
    ASSUME CacheAssumption, NEW c \in GoodCaches, NEW W \in SUBSET Keys, NEW i \in Nat,
           NEW s \in LookedUps, LookedAt(s, c, W, i), NEW k \in W
    PROVE  LookedAt(Seen(s, k), c, W, i + 1)
<1> DEFINE d == s.cache
           e == Get(d, k)
           m == IF Hit(d, k) THEN s.missing ELSE Append(s.missing, k)
<1>1. Seen(s, k).cache = e /\ Seen(s, k).missing = m
  BY DEF Seen
<1>2. d \in GoodCaches /\ k \in Keys
  BY DEF LookedUps
<1>3. e \in GoodCaches
      /\ (Cleared(e, d) \/ (e.tick = d.tick + 1 /\ DOMAIN e.entries = DOMAIN d.entries))
  BY <1>2, GetIsGood
<1>4. m \in Seq(W) /\ Len(m) <= i + 1
  BY DEF LookedAt
<1>5. Behind(d, c, i) \/ Near(d, c, i)
  BY DEF LookedAt
<1>6. /\ Cleared(e, d) => Behind(e, c, i + 1)
      /\ e.tick \in {d.tick, d.tick + 1} => /\ Behind(d, c, i) => Behind(e, c, i + 1)
                                            /\ Near(d, c, i) => Near(e, c, i + 1)
  <2> HIDE DEF d, e
  <2> QED
    BY <1>2, <1>3, <1>5, Drift
<1>7. ~ Cleared(e, d) => (Hit(d, k) <=> k \in DOMAIN d.entries)
  <2>1. Cleared(Touch(d), d) \/ Touch(d).entries = d.entries
    BY <1>2, TouchEffect
  <2>2. Cleared(Touch(d), d) => Cleared(e, d)
    <3>1. e.tick = Touch(d).tick \/ Cleared(e, d)
      <4>1. Cleared(e, d) \/ e.tick = d.tick + 1
        BY <1>3
      <4>2. Cleared(Touch(d), d) \/ Touch(d).tick = d.tick + 1
        BY <1>2, TouchEffect
      <4>3. d.tick \in Nat /\ LastTick \in Nat /\ d.tick <= LastTick
        BY <1>2, GoodTicks
      <4>4. e.tick \in Nat /\ e.tick <= LastTick
        BY <1>3, GoodTicks
      <4> QED
        <5> HIDE DEF d, e
        <5> QED
          BY <4>1, <4>2, <4>3, <4>4 DEF Cleared
    <3> QED
      BY <3>1 DEF Cleared
  <2> HIDE DEF e, d
  <2> QED
    BY <2>1, <2>2 DEF Hit
<1>8. CASE Behind(d, c, i) \/ Cleared(e, d)
  <2>1. Behind(e, c, i + 1)
    <3> HIDE DEF d, e
    <3> QED
      BY <1>3, <1>6, <1>8
  <2> HIDE DEF d, e, m
  <2> QED
    BY <1>1, <1>4, <2>1 DEF LookedAt
<1>9. CASE ~ Behind(d, c, i) /\ ~ Cleared(e, d)
  <2>1. Near(d, c, i) /\ DOMAIN d.entries = DOMAIN c.entries
        /\ s.missing \in Seq(W \ DOMAIN c.entries)
    BY <1>9 DEF LookedAt
  <2>2. Near(e, c, i + 1) /\ DOMAIN e.entries = DOMAIN c.entries
    <3> HIDE DEF d, e
    <3> QED
      BY <1>3, <1>6, <1>9, <2>1
  <2>3. m \in Seq(W \ DOMAIN c.entries)
    <3>1. Hit(d, k) <=> k \in DOMAIN c.entries
      BY <1>7, <1>9, <2>1
    <3> DEFINE V == W \ DOMAIN c.entries
               z == s.missing
    <3>2. ~ Hit(d, k) => k \in V
      BY <3>1
    <3>3. z \in Seq(V)
      BY <2>1
    <3> HIDE DEF V, z
    <3>4. k \in V => Append(z, k) \in Seq(V)
      BY <3>3
    <3> QED
      BY <3>2, <3>3, <3>4 DEF V, z
  <2> HIDE DEF d, e, m
  <2> QED
    BY <1>1, <1>4, <2>2, <2>3 DEF LookedAt
<1> QED
  BY <1>8, <1>9

LEMMA LookedUpEffect ==
    ASSUME CacheAssumption, ParentsFirst, NEW c \in GoodCaches, NEW keys \in Seq(Keys)
    PROVE  /\ LookedUp(c, keys) \in LookedUps
           /\ LookedAt(LookedUp(c, keys), c, Range(keys), Len(keys))
<1> DEFINE n == Len(keys)
           W == Range(keys)
<1>1. PICK h : Looks(h, c, keys) /\ LookedUp(c, keys) = h[n]
  BY LookupsExist
<1>2. n \in Nat /\ W \in SUBSET Keys /\ \A i \in 1 .. n : keys[i] \in W
  BY DEF Range
<1>3. h \in [0 .. n -> LookedUps] /\ h[0] = [cache |-> c, missing |-> <<>>]
      /\ \A i \in 1 .. n : h[i] = Seen(h[i - 1], keys[i])
  BY <1>1 DEF Looks
<1> DEFINE G == {i \in 0 .. n : LookedAt(h[i], c, W, i)}
<1>4. 0 \in G
  <2>1. c.tick <= c.tick + 0
    BY GoodTicks
  <2>2. h[0].cache = c /\ h[0].missing = <<>>
    BY <1>3
  <2>3. \A V : <<>> \in Seq(V) /\ Len(<<>>) = 0
    OBVIOUS
  <2>4. LookedAt(h[0], c, W, 0)
    BY <2>1, <2>2, <2>3 DEF LookedAt, Near
  <2> QED
    BY <1>2, <2>4
<1>5. \A i \in 1 .. n : i - 1 \in G => i \in G
  <2> SUFFICES ASSUME NEW i \in 1 .. n, i - 1 \in G
               PROVE  LookedAt(h[i], c, W, i)
    BY <1>2
  <2> DEFINE j == i - 1
  <2> HIDE DEF n, W
  <2>1. j \in Nat /\ j + 1 = i /\ j \in 0 .. n
    BY <1>2
  <2>2. h[i] = Seen(h[j], keys[i]) /\ keys[i] \in W
    BY <1>2, <1>3
  <2>3. h[j] \in LookedUps /\ LookedAt(h[j], c, W, j)
    BY <1>3, <2>1
  <2> HIDE DEF j
  <2>4. LookedAt(Seen(h[j], keys[i]), c, W, j + 1)
    BY <1>2, <2>1, <2>2, <2>3, LooksOn
  <2> QED
    BY <2>1, <2>2, <2>4
<1>6. n \in G
  <2> HIDE DEF G
  <2>1. 0 .. n \subseteq G
    BY <1>2, <1>4, <1>5, UptoInduction
  <2> QED
    BY <1>2, <2>1
<1> QED
  BY <1>1, <1>2, <1>3, <1>6

\* What the puts of keys in W leave of the results of d: a transient value
\* evicts none, and a result that was not there is there now.
Outlast(e, d) ==
    \/ Survive(e, d)
    \/ DOMAIN e.entries = {}
    \/ (DOMAIN e.entries \ DOMAIN d.entries) \cap Results # {}
Lasting(e, d, W) ==
    /\ W \cap Results = {} => Survive(e, d)
    /\ W \subseteq Results /\ W \cap DOMAIN d.entries = {} => Outlast(e, d)
PutAt(e, d, W, i) ==
    \/ Behind(e, d, i)
    \/ Near(e, d, i) /\ Lasting(e, d, W)

LEMMA PutsOn ==
    ASSUME CacheAssumption, ParentsFirst, NEW d \in GoodCaches, NEW W \in SUBSET Keys,
           NEW i \in Nat, NEW e \in GoodCaches, PutAt(e, d, W, i), NEW k \in W
    PROVE  PutAt(Put(e, k), d, W, i + 1)
<1> DEFINE f == Put(e, k)
<1>1. f \in GoodCaches /\ PutEffect(f, e, k)
  BY PutKeepsGood
<1>2. Behind(e, d, i) \/ Near(e, d, i)
  BY DEF PutAt
<1> HIDE DEF f
<1>3. /\ Cleared(f, e) => Behind(f, d, i + 1)
      /\ f.tick \in {e.tick, e.tick + 1} => /\ Behind(e, d, i) => Behind(f, d, i + 1)
                                            /\ Near(e, d, i) => Near(f, d, i + 1)
  BY <1>1, <1>2, Drift
<1>4. CASE Cleared(f, e)
  BY <1>3, <1>4 DEF PutAt, f
<1>5. CASE ~ Cleared(f, e)
  <2>1. /\ f.tick \in {e.tick, e.tick + 1}
        /\ k \notin Results => Survive(f, e)
        /\ \/ DOMAIN f.entries = DOMAIN e.entries
           \/ DOMAIN f.entries = {}
           \/ k \in DOMAIN f.entries
           \/ k \notin Results
    BY <1>1, <1>5 DEF PutEffect
  <2>2. CASE Behind(e, d, i)
    BY <1>3, <2>1, <2>2 DEF PutAt, f
  <2>3. CASE ~ Behind(e, d, i)
    <3>1. Near(f, d, i + 1) /\ Lasting(e, d, W)
      BY <1>3, <2>1, <2>3 DEF PutAt
    <3>2. W \cap Results = {} => Survive(f, d)
      BY <2>1, <3>1 DEF Lasting, Survive
    <3>3. W \subseteq Results /\ W \cap DOMAIN d.entries = {} => Outlast(f, d)
      <4> SUFFICES ASSUME W \subseteq Results, W \cap DOMAIN d.entries = {}
                   PROVE  Outlast(f, d)
        OBVIOUS
      <4>1. k \in Results /\ k \notin DOMAIN d.entries /\ Outlast(e, d)
        BY <3>1 DEF Lasting
      <4> QED
        BY <2>1, <4>1 DEF Outlast, Survive
    <3> QED
      BY <3>1, <3>2, <3>3 DEF PutAt, Lasting, f
  <2> QED
    BY <2>2, <2>3
<1> QED
  BY <1>4, <1>5

LEMMA PutAllEffect ==
    ASSUME CacheAssumption, ParentsFirst, NEW c \in GoodCaches, NEW keys \in Seq(Keys)
    PROVE  PutAll(c, keys) \in GoodCaches /\ PutAt(PutAll(c, keys), c, Range(keys), Len(keys))
<1> DEFINE n == Len(keys)
           W == Range(keys)
<1>1. PICK h : PutOneByOne(h, c, keys) /\ PutAll(c, keys) = h[n]
  BY PutsExist
<1>2. n \in Nat /\ W \in SUBSET Keys /\ \A i \in 1 .. n : keys[i] \in W
  BY DEF Range
<1>3. h \in [0 .. n -> GoodCaches] /\ h[0] = c
      /\ \A i \in 1 .. n : h[i] = Put(h[i - 1], keys[i])
  BY <1>1 DEF PutOneByOne
<1> DEFINE G == {i \in 0 .. n : PutAt(h[i], c, W, i)}
<1>4. 0 \in G
  <2>1. c.tick <= c.tick + 0
    BY GoodTicks
  <2>2. PutAt(c, c, W, 0)
    BY <2>1 DEF PutAt, Near, Lasting, Survive, Outlast
  <2> QED
    BY <1>2, <1>3, <2>2
<1>5. \A i \in 1 .. n : i - 1 \in G => i \in G
  <2> SUFFICES ASSUME NEW i \in 1 .. n, i - 1 \in G
               PROVE  PutAt(h[i], c, W, i)
    BY <1>2
  <2> DEFINE j == i - 1
  <2> HIDE DEF n, W
  <2>1. j \in Nat /\ j + 1 = i /\ j \in 0 .. n
    BY <1>2
  <2>2. h[i] = Put(h[j], keys[i]) /\ keys[i] \in W
    BY <1>2, <1>3
  <2>3. h[j] \in GoodCaches /\ PutAt(h[j], c, W, j)
    BY <1>3, <2>1
  <2> HIDE DEF j
  <2>4. PutAt(Put(h[j], keys[i]), c, W, j + 1)
    BY <1>2, <2>1, <2>2, <2>3, PutsOn
  <2> QED
    BY <2>1, <2>2, <2>4
<1>6. n \in G
  <2> HIDE DEF G
  <2>1. 0 .. n \subseteq G
    BY <1>2, <1>4, <1>5, UptoInduction
  <2> QED
    BY <1>2, <2>1
<1> QED
  BY <1>1, <1>2, <1>3, <1>6

\* Results go for another result, or with everything else.
Outlived(e, c) ==
    (DOMAIN c.entries \ DOMAIN e.entries) \cap Results # {} =>
        \/ (DOMAIN e.entries \ DOMAIN c.entries) \cap Results # {}
        \/ DOMAIN e.entries = {}
        \/ e.tick < c.tick

LEMMA BatchIsGood ==
    ASSUME CacheAssumption, ParentsFirst, NEW c \in GoodCaches, NEW keys \in Batches
    PROVE  /\ Batch(c, keys) \in GoodCaches /\ Outlived(Batch(c, keys), c)
           /\ FailedBatch(c, keys) \in GoodCaches /\ Outlived(FailedBatch(c, keys), c)
<1> DEFINE s == LookedUp(c, keys)
           d == s.cache
           m == s.missing
           e == PutAll(d, m)
           n == Len(keys)
           W == Range(keys)
<1>1. keys \in Seq(Keys) /\ n \in Nat /\ 2 * n < LastTick
      /\ (W \subseteq Results \/ W \cap Results = {})
  BY DEF Batches
<1>2. s \in LookedUps /\ LookedAt(s, c, W, n)
  BY <1>1, LookedUpEffect
<1>3. d \in GoodCaches /\ m \in Seq(Keys)
  BY <1>2 DEF LookedUps
<1>4. e \in GoodCaches /\ PutAt(e, d, Range(m), Len(m))
  <2> HIDE DEF d, m
  <2> QED
    BY <1>3, PutAllEffect
<1>5. Batch(c, keys) = e /\ FailedBatch(c, keys) = d
  BY BatchIs DEF FailedBatch
<1>6. m \in Seq(W) /\ Len(m) <= n /\ Len(m) \in Nat
      /\ \/ Behind(d, c, n)
         \/ /\ Near(d, c, n)
            /\ DOMAIN d.entries = DOMAIN c.entries
            /\ m \in Seq(W \ DOMAIN c.entries)
  BY <1>2 DEF LookedAt
<1> DEFINE z == Len(m)
<1>7. c.tick \in Nat /\ d.tick \in Nat /\ e.tick \in Nat /\ LastTick \in Nat
  BY <1>3, <1>4, GoodTicks
<1>8. Range(m) \subseteq W
  BY <1>6 DEF Range
<1> HIDE DEF s, d, m, e, n, W
<1>9. (Behind(e, d, z) \/ Near(e, d, z)) /\ (Behind(d, c, n) \/ Near(d, c, n))
  BY <1>4, <1>6 DEF PutAt
<1>10. Behind(d, c, n) => d.tick < c.tick /\ e.tick < c.tick
  BY <1>1, <1>6, <1>7, <1>9, SMTT(30) DEF Behind, Near
<1>11. Behind(e, d, z) => e.tick < c.tick
  BY <1>1, <1>6, <1>7, <1>9 DEF Behind, Near
<1>12. Outlived(d, c)
  BY <1>6, <1>10 DEF Outlived
<1>13. Outlived(e, c)
  <2>1. CASE Behind(d, c, n) \/ Behind(e, d, z)
    BY <1>10, <1>11, <2>1 DEF Outlived
  <2>2. CASE ~ Behind(d, c, n) /\ ~ Behind(e, d, z)
    <3>1. DOMAIN d.entries = DOMAIN c.entries /\ m \in Seq(W \ DOMAIN c.entries)
      BY <1>6, <2>2
    <3>2. Range(m) \cap DOMAIN d.entries = {}
      <4> DEFINE V == W \ DOMAIN c.entries
      <4>1. m \in Seq(V)
        BY <3>1
      <4> HIDE DEF V
      <4>2. Range(m) \subseteq V
        BY <4>1 DEF Range
      <4> QED
        BY <3>1, <4>2 DEF V
    <3>3. Lasting(e, d, Range(m))
      BY <1>4, <2>2 DEF PutAt
    <3>4. Survive(e, d) \/ Outlast(e, d)
      BY <1>1, <1>8, <3>2, <3>3 DEF Lasting
    <3> QED
      BY <3>1, <3>4 DEF Outlived, Outlast, Survive
  <2> QED
    BY <2>1, <2>2
<1> QED
  BY <1>3, <1>4, <1>5, <1>12, <1>13

LEMMA ClearOutlives == ASSUME NEW c PROVE Outlived(Clear(c), c)
<1>1. Clear(c).entries = Nothing /\ DOMAIN Nothing = {}
  BY DEF Clear, EmptyCache, Nothing
<1> QED
  BY <1>1 DEF Outlived

LEMMA GoodIsSound ==
    ASSUME CacheAssumption, NEW c \in GoodCaches
    PROVE  SoundCache(c)
<1>1. Good(c.entries, c.order, c.protected, c.identities, c.tick, c.bytes)
  BY GoodIs
<1>2. OrdersAgree(c)
  <2>1. Cardinality(DOMAIN c.entries)
            = Cardinality(DOMAIN c.order) + Cardinality(DOMAIN c.protected)
    BY <1>1, OrdersCount DEF Good
  <2> QED
    BY <1>1, <2>1 DEF Good, Matched, OrdersAgree
<1>3. BytesAccounted(c)
  BY <1>1 DEF Good, BytesOf, BytesAccounted
<1>4. IdentitiesCounted(c)
  <2> DEFINE kept == Kept(c.identities)
             m(k) == [p \in kept |-> Mentions(k, p)]
  <2>1. Counted(c.identities, Held(c.entries))
    BY <1>1 DEF Good
  <2>2. ASSUME NEW k \in Keys
        PROVE  c.identities[k] = (IF k \in DOMAIN c.entries THEN 1 ELSE 0) + SumOver(kept, m(k))
    <3>1. c.identities[k] = Held(c.entries)[k] + MentionsIn(kept, k)
      BY <2>1 DEF Counted
    <3>2. SumOver(kept, m(k)) = MentionsIn(kept, k)
      <4> DEFINE f == Mentioned(k)
                 e == m(k)
      <4>1. Summable(kept, f) /\ \A p \in kept : e[p] = f[p]
        BY <2>2, KeptAreKeys, MentionsInIsNat
      <4>2. SumOver(kept, e) = SumOver(kept, f)
        <5> HIDE DEF e, f, kept
        <5> QED
          BY <4>1, SumSame
      <4> QED
        BY <4>2 DEF MentionsIn
    <3>3. Held(c.entries)[k] = (IF k \in DOMAIN c.entries THEN 1 ELSE 0)
      BY DEF Held
    <3> QED
      BY <3>1, <3>2, <3>3
  <2> QED
    BY <2>2 DEF IdentitiesCounted
<1> QED
  BY <1>2, <1>3, <1>4 DEF SoundCache
================================================================================
