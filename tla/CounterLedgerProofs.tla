------------------------- MODULE CounterLedgerProofs -------------------------
(***************************************************************************)
(* Proofs about what a store's rows are worth, for any number of           *)
(* transactions, of items, of sessions and of lines in a document: that    *)
(* the books tie out to the stock, in which order sales draw on one item,  *)
(* and that no committed document leaves a hole beside stock.  They rest   *)
(* on the locks of CounterBooksProofs and on what is first shown here of   *)
(* finite sets: induction over the subsets of one, stated with a set of    *)
(* subsets in place of a predicate, and from it that SumFunctionOnSet,     *)
(* whose definition picks the elements in an order of its own, adds them   *)
(* up in any order.                                                        *)
(***************************************************************************)
EXTENDS CounterBooksProofs, WellFoundedInduction

-----------------------------------------------------------------------------
(* Induction.                                                              *)

\* A collection of subsets that has a set whenever it has all its strict
\* subsets is the whole of them: the subsets of a finite set are well founded.
LEMMA StrictSubsetsFirst ==
    ASSUME NEW S, IsFiniteSet(S), NEW G,
           \A s \in SUBSET S : (\A u \in (SUBSET s) \ {s} : u \in G) => s \in G
    PROVE  \A s \in SUBSET S : s \in G
<1> DEFINE Bad == {s \in SUBSET S : s \notin G}
<1> SUFFICES ASSUME Bad # {} PROVE FALSE
  OBVIOUS
<1>1. \A s \in SUBSET S : s \in FiniteSubsetsOf(S)
  BY FS_Subset DEF FiniteSubsetsOf
<1>2. Bad \subseteq FiniteSubsetsOf(S)
  BY <1>1
<1>3. PICK s \in Bad : \A u \in Bad : ~(<<u, s>> \in StrictSubsetOrdering(S))
  <2> HIDE DEF Bad
  <2> QED  BY <1>2, FS_StrictSubsetOrderingWellFounded, WFMin
<1>4. PICK u \in (SUBSET s) \ {s} : u \notin G
  OBVIOUS
<1>5. u \in Bad /\ <<u, s>> \in StrictSubsetOrdering(S)
  BY <1>4 DEF StrictSubsetOrdering
<1> QED  BY <1>3, <1>5

\* A collection with the empty set that keeps its members under one more
\* element has the whole set.
LEMMA OneMoreElement ==
    ASSUME NEW S, IsFiniteSet(S), NEW G, {} \in G,
           \A s \in SUBSET S : s \in G => \A x \in S \ s : s \cup {x} \in G
    PROVE  S \in G
<1>1. ASSUME NEW s \in SUBSET S, \A u \in (SUBSET s) \ {s} : u \in G
      PROVE  s \in G
  <2>1. CASE s = {}
    BY <2>1
  <2>2. CASE s # {}
    <3>1. PICK x : x \in s
      BY <2>2
    <3>2. s \ {x} \in (SUBSET s) \ {s} /\ s = (s \ {x}) \cup {x}
      BY <3>1
    <3> QED  BY <1>1, <3>1, <3>2
  <2> QED  BY <2>1, <2>2
<1> QED  BY <1>1, StrictSubsetsFirst

-----------------------------------------------------------------------------
(* The recursive function inside a sum.                                    *)

Some(s) == CHOOSE x \in s : TRUE

\* g is the sum of f over each of the subsets of S, taken apart by Some.
Adds(g, f, S) ==
    g = [s \in SUBSET S |-> IF s = {} THEN 0 ELSE f[Some(s)] + g[s \ {Some(s)}]]

LEMMA SumIsRecursive ==
    ASSUME NEW f, NEW S
    PROVE  SumFunctionOnSet(f, S) = (CHOOSE g : Adds(g, f, S))[S]
  BY DEF SumFunctionOnSet, FoldFunctionOnSet, MapThenFoldSet, Adds, Some

LEMMA AddsOfNone ==
    ASSUME NEW f, NEW S, NEW g, Adds(g, f, S)
    PROVE  g[{}] = 0
  BY DEF Adds

LEMMA AddsOfSubset ==
    ASSUME NEW f, NEW S, NEW g, Adds(g, f, S), NEW s \in SUBSET S, s # {}
    PROVE  /\ Some(s) \in s
           /\ s \ {Some(s)} \in (SUBSET s) \ {s}
           /\ g[s] = f[Some(s)] + g[s \ {Some(s)}]
  BY DEF Adds, Some

\* There is only one such function, as far as each is defined.
LEMMA AddsUnique ==
    ASSUME NEW f, NEW S, NEW T \in SUBSET S, IsFiniteSet(T),
           NEW g, Adds(g, f, S), NEW h, Adds(h, f, T)
    PROVE  g[T] = h[T]
<1> DEFINE G == {s \in SUBSET T : g[s] = h[s]}
<1>1. ASSUME NEW s \in SUBSET T, \A u \in (SUBSET s) \ {s} : u \in G
      PROVE  s \in G
  <2>1. CASE s = {}
    BY <2>1 DEF Adds
  <2>2. CASE s # {}
    <3>1. /\ s \ {Some(s)} \in (SUBSET s) \ {s}
          /\ g[s] = f[Some(s)] + g[s \ {Some(s)}]
      BY <2>2, AddsOfSubset
    <3>2. h[s] = f[Some(s)] + h[s \ {Some(s)}]
      BY <2>2 DEF Adds
    <3>3. s \ {Some(s)} \in G
      BY <1>1, <3>1
    <3> QED  BY <3>1, <3>2, <3>3
  <2> QED  BY <2>1, <2>2
<1> HIDE DEF G
<1>2. T \in G
  BY <1>1, StrictSubsetsFirst
<1> QED  BY <1>2 DEF G

\* And there is one.
LEMMA AddsExists ==
    ASSUME NEW f, NEW S, IsFiniteSet(S)
    PROVE  \E g : Adds(g, f, S)
<1> DEFINE G == {s \in SUBSET S : \E g : Adds(g, f, s)}
           F(u) == CHOOSE g : Adds(g, f, u)
<1>1. ASSUME NEW s \in SUBSET S, \A u \in (SUBSET s) \ {s} : u \in G
      PROVE  s \in G
  <2> DEFINE h == [u \in SUBSET s |->
                      IF u = {} THEN 0 ELSE f[Some(u)] + F(u \ {Some(u)})[u \ {Some(u)}]]
  <2>1. ASSUME NEW u \in (SUBSET s) \ {s} PROVE Adds(F(u), f, u)
    BY <1>1, <2>1
  <2>2. ASSUME NEW u \in (SUBSET s) \ {s} PROVE h[u] = F(u)[u]
    <3>1. CASE u = {}
      <4>1. h[u] = 0
        BY <3>1
      <4>2. F(u)[{}] = 0
        <5> HIDE DEF F
        <5> QED  BY <2>1, AddsOfNone
      <4> HIDE DEF F, h
      <4> QED  BY <3>1, <4>1, <4>2
    <3>2. CASE u # {}
      <4> DEFINE r == u \ {Some(u)}
      <4>1. Some(u) \in u /\ r \in (SUBSET u) \ {u}
        BY <3>2 DEF Some
      <4>2. r \in (SUBSET s) \ {s} /\ IsFiniteSet(r)
        BY <4>1, FS_Subset
      <4>3. F(u)[u] = f[Some(u)] + F(u)[r]
        <5> HIDE DEF F
        <5> QED  BY <2>1, <3>2, AddsOfSubset
      <4>4. Adds(F(u), f, u) /\ Adds(F(r), f, r)
        <5> HIDE DEF F, r
        <5> QED  BY <2>1, <2>2, <4>2
      <4>5. F(u)[r] = F(r)[r]
        <5> HIDE DEF F, r
        <5> QED  BY <4>1, <4>2, <4>4, AddsUnique
      <4>6. h[u] = f[Some(u)] + F(r)[r]
        <5> HIDE DEF F
        <5> QED  BY <3>2
      <4> QED  BY <4>3, <4>5, <4>6
    <3> QED  BY <3>1, <3>2
  <2>3. ASSUME NEW u \in SUBSET s, u # {}
        PROVE  h[u] = f[Some(u)] + h[u \ {Some(u)}]
    <3>1. u \ {Some(u)} \in (SUBSET s) \ {s}
      BY <2>3 DEF Some
    <3>2. h[u] = f[Some(u)] + F(u \ {Some(u)})[u \ {Some(u)}]
      <4> HIDE DEF F
      <4> QED  BY <2>3
    <3> HIDE DEF F, h
    <3> QED  BY <2>2, <3>1, <3>2
  <2>4. Adds(h, f, s)
    <3>1. h[{}] = 0
      OBVIOUS
    <3>2. h = [u \in SUBSET s |-> IF u = {} THEN 0 ELSE f[Some(u)] + h[u \ {Some(u)}]]
      <4>1. h = [u \in SUBSET s |-> h[u]]
        <5> HIDE DEF F
        <5> QED  OBVIOUS
      <4> HIDE DEF h
      <4> QED  BY <2>3, <3>1, <4>1
    <3> HIDE DEF h
    <3> QED  BY <3>2 DEF Adds
  <2> QED  BY <2>4
<1> HIDE DEF G
<1>2. S \in G
  BY <1>1, StrictSubsetsFirst
<1> QED  BY <1>2 DEF G

\* A sum is what is picked first and the sum of the rest.
LEMMA SumPicks ==
    ASSUME NEW f, NEW S, IsFiniteSet(S)
    PROVE  /\ S = {} => SumFunctionOnSet(f, S) = 0
           /\ S # {} => /\ Some(S) \in S
                        /\ SumFunctionOnSet(f, S) =
                              f[Some(S)] + SumFunctionOnSet(f, S \ {Some(S)})
<1> DEFINE F(u) == CHOOSE g : Adds(g, f, u)
<1>1. ASSUME NEW u \in SUBSET S PROVE Adds(F(u), f, u)
  <2>1. \E g : Adds(g, f, u)
    BY AddsExists, FS_Subset
  <2> QED  BY <2>1
<1>2. \A u \in SUBSET S : SumFunctionOnSet(f, u) = F(u)[u]
  BY SumIsRecursive
<1> HIDE DEF F
<1>3. ASSUME S = {} PROVE SumFunctionOnSet(f, S) = 0
  BY <1>1, <1>2, <1>3, AddsOfNone
<1>4. ASSUME S # {}
      PROVE  /\ Some(S) \in S
             /\ SumFunctionOnSet(f, S) = f[Some(S)] + SumFunctionOnSet(f, S \ {Some(S)})
  <2>1. /\ Some(S) \in S /\ S \ {Some(S)} \in SUBSET S
        /\ F(S)[S] = f[Some(S)] + F(S)[S \ {Some(S)}]
    BY <1>1, <1>4, AddsOfSubset
  <2>2. F(S)[S \ {Some(S)}] = F(S \ {Some(S)})[S \ {Some(S)}]
    BY <1>1, <2>1, AddsUnique, FS_Subset
  <2> QED  BY <1>2, <2>1, <2>2
<1> QED  BY <1>3, <1>4

-----------------------------------------------------------------------------
(* Sums, whatever the order.                                               *)

LEMMA SumOverNone ==
    ASSUME NEW f
    PROVE  SumFunctionOnSet(f, {}) = 0
  BY SumPicks, FS_EmptySet

\* It depends on the values over the set, and on nothing else.
LEMMA SumSame ==
    ASSUME NEW S, IsFiniteSet(S), NEW f, NEW g, \A x \in S : f[x] = g[x]
    PROVE  SumFunctionOnSet(f, S) = SumFunctionOnSet(g, S)
<1> DEFINE G == {s \in SUBSET S : SumFunctionOnSet(f, s) = SumFunctionOnSet(g, s)}
<1>1. ASSUME NEW s \in SUBSET S, \A u \in (SUBSET s) \ {s} : u \in G
      PROVE  s \in G
  <2>1. IsFiniteSet(s)
    BY FS_Subset
  <2>2. CASE s = {}
    BY <2>2, SumOverNone
  <2>3. CASE s # {}
    <3>1. Some(s) \in s /\ s \ {Some(s)} \in G
      BY <1>1, <2>1, <2>3, SumPicks
    <3> QED  BY <2>1, <2>3, <3>1, SumPicks
  <2> QED  BY <2>2, <2>3
<1> HIDE DEF G
<1>2. S \in G
  BY <1>1, StrictSubsetsFirst
<1> QED  BY <1>2 DEF G

\* An element's value can be taken out first, whichever it is.
LEMMA SumTakesOut ==
    ASSUME NEW S, IsFiniteSet(S), NEW f, \A x \in S : f[x] \in Int
    PROVE  /\ SumFunctionOnSet(f, S) \in Int
           /\ \A x \in S : SumFunctionOnSet(f, S) = f[x] + SumFunctionOnSet(f, S \ {x})
<1> DEFINE G == {s \in SUBSET S :
                    /\ SumFunctionOnSet(f, s) \in Int
                    /\ \A x \in s : SumFunctionOnSet(f, s)
                                        = f[x] + SumFunctionOnSet(f, s \ {x})}
<1>1. ASSUME NEW s \in SUBSET S, \A u \in (SUBSET s) \ {s} : u \in G
      PROVE  s \in G
  <2>1. IsFiniteSet(s)
    BY FS_Subset
  <2>2. CASE s = {}
    BY <2>2, SumOverNone
  <2>3. CASE s # {}
    <3> DEFINE p == Some(s)
               r == s \ {p}
    <3>1. /\ p \in s /\ f[p] \in Int
          /\ SumFunctionOnSet(f, s) = f[p] + SumFunctionOnSet(f, r)
      BY <2>1, <2>3, SumPicks
    <3> HIDE DEF p
    <3>2. r \in G
      BY <1>1, <3>1
    <3>3. SumFunctionOnSet(f, r) \in Int
      BY <3>2
    <3>4. ASSUME NEW x \in s
          PROVE  SumFunctionOnSet(f, s) = f[x] + SumFunctionOnSet(f, s \ {x})
      <4>1. CASE x = p
        BY <3>1, <4>1
      <4>2. CASE x # p
        <5>1. SumFunctionOnSet(f, r) = f[x] + SumFunctionOnSet(f, r \ {x})
          BY <3>2, <4>2
        <5>2. s \ {x} \in G /\ r \ {x} \in G
          BY <1>1, <3>1
        <5>3. SumFunctionOnSet(f, s \ {x}) = f[p] + SumFunctionOnSet(f, (s \ {x}) \ {p})
          BY <3>1, <4>2, <5>2
        <5>4. (s \ {x}) \ {p} = r \ {x}
          OBVIOUS
        <5>5. f[x] \in Int /\ SumFunctionOnSet(f, r \ {x}) \in Int
          BY <5>2
        <5>6. SumFunctionOnSet(f, s \ {x}) = f[p] + SumFunctionOnSet(f, r \ {x})
          BY <5>3, <5>4, Zenon
        <5> HIDE DEF r, G
        <5> QED  BY <3>1, <5>1, <5>5, <5>6
      <4> QED  BY <4>1, <4>2
    <3>5. SumFunctionOnSet(f, s) \in Int
      BY <3>1, <3>3
    <3> QED  BY <3>4, <3>5
  <2> QED  BY <2>2, <2>3
<1> HIDE DEF G
<1>2. S \in G
  BY <1>1, StrictSubsetsFirst
<1> QED  BY <1>2 DEF G

LEMMA SumOfOne ==
    ASSUME NEW f, NEW x, f[x] \in Int
    PROVE  SumFunctionOnSet(f, {x}) = f[x]
<1>1. IsFiniteSet({x}) /\ {x} \ {x} = {}
  BY FS_Singleton
<1>2. SumFunctionOnSet(f, {x}) = f[x] + SumFunctionOnSet(f, {x} \ {x})
  BY <1>1, SumTakesOut
<1> QED  BY <1>1, <1>2, SumOverNone

LEMMA SumPutsIn ==
    ASSUME NEW S, IsFiniteSet(S), NEW f, NEW x, x \notin S,
           \A y \in S \cup {x} : f[y] \in Int
    PROVE  SumFunctionOnSet(f, S \cup {x}) = SumFunctionOnSet(f, S) + f[x]
<1>1. IsFiniteSet(S \cup {x}) /\ (S \cup {x}) \ {x} = S
  BY FS_AddElement
<1>2. /\ SumFunctionOnSet(f, S) \in Int /\ f[x] \in Int
      /\ SumFunctionOnSet(f, S \cup {x}) = f[x] + SumFunctionOnSet(f, (S \cup {x}) \ {x})
  BY <1>1, SumTakesOut
<1>3. SumFunctionOnSet(f, (S \cup {x}) \ {x}) = SumFunctionOnSet(f, S)
  BY <1>1, Zenon
<1> QED  BY <1>2, <1>3

LEMMA SumSteps ==
    ASSUME NEW S, IsFiniteSet(S), NEW f, \A x \in S : f[x] \in Int
    PROVE  \A s \in SUBSET S : \A x \in S \ s :
              SumFunctionOnSet(f, s \cup {x}) = SumFunctionOnSet(f, s) + f[x]
  BY SumPutsIn, FS_Subset

\* Over disjoint sets.
LEMMA SumOfUnion ==
    ASSUME NEW S, IsFiniteSet(S), NEW T, IsFiniteSet(T), S \cap T = {},
           NEW f, \A x \in S \cup T : f[x] \in Int
    PROVE  SumFunctionOnSet(f, S \cup T) = SumFunctionOnSet(f, S) + SumFunctionOnSet(f, T)
<1> DEFINE G == {s \in SUBSET T : SumFunctionOnSet(f, S \cup s)
                                    = SumFunctionOnSet(f, S) + SumFunctionOnSet(f, s)}
<1>1. SumFunctionOnSet(f, S) \in Int /\ \A s \in SUBSET T : SumFunctionOnSet(f, s) \in Int
  BY SumTakesOut, FS_Subset
<1>2. {} \in G
  BY <1>1, SumOverNone
<1>3. ASSUME NEW s \in SUBSET T, s \in G, NEW x \in T \ s
      PROVE  s \cup {x} \in G
  <2>1. /\ IsFiniteSet(s) /\ IsFiniteSet(S \cup s) /\ x \notin S \cup s
        /\ S \cup (s \cup {x}) = (S \cup s) \cup {x}
    BY FS_Subset, FS_Union
  <2>2. /\ SumFunctionOnSet(f, (S \cup s) \cup {x}) = SumFunctionOnSet(f, S \cup s) + f[x]
        /\ SumFunctionOnSet(f, s \cup {x}) = SumFunctionOnSet(f, s) + f[x]
    BY <2>1, SumPutsIn
  <2>3. SumFunctionOnSet(f, S \cup s) = SumFunctionOnSet(f, S) + SumFunctionOnSet(f, s)
    BY <1>3
  <2>4. f[x] \in Int
    OBVIOUS
  <2>5. SumFunctionOnSet(f, S \cup (s \cup {x}))
            = SumFunctionOnSet(f, S) + SumFunctionOnSet(f, s \cup {x})
    <3>1. SumFunctionOnSet(f, S \cup (s \cup {x}))
            = SumFunctionOnSet(f, (S \cup s) \cup {x})
      BY <2>1, Zenon
    <3>2. SumFunctionOnSet(f, S) \in Int /\ SumFunctionOnSet(f, s) \in Int
      BY <1>1
    <3> QED  BY <2>2, <2>3, <2>4, <3>1, <3>2
  <2> QED  BY <2>5
<1> HIDE DEF G
<1>4. T \in G
  BY <1>2, <1>3, OneMoreElement
<1> QED  BY <1>4 DEF G

\* Of two functions together.
LEMMA SumOfPlus ==
    ASSUME NEW S, IsFiniteSet(S), NEW f, NEW g, NEW h,
           \A x \in S : f[x] \in Int /\ g[x] \in Int /\ h[x] = f[x] + g[x]
    PROVE  SumFunctionOnSet(h, S) = SumFunctionOnSet(f, S) + SumFunctionOnSet(g, S)
<1> DEFINE G == {s \in SUBSET S : SumFunctionOnSet(h, s)
                                    = SumFunctionOnSet(f, s) + SumFunctionOnSet(g, s)}
<1>1. \A x \in S : h[x] \in Int
  OBVIOUS
<1>2. \A s \in SUBSET S : /\ IsFiniteSet(s)
                          /\ SumFunctionOnSet(f, s) \in Int
                          /\ SumFunctionOnSet(g, s) \in Int
  BY SumTakesOut, FS_Subset
<1>3. {} \in G
  BY SumOverNone
<1>4. \A s \in SUBSET S : \A x \in S \ s :
        /\ SumFunctionOnSet(f, s \cup {x}) = SumFunctionOnSet(f, s) + f[x]
        /\ SumFunctionOnSet(g, s \cup {x}) = SumFunctionOnSet(g, s) + g[x]
        /\ SumFunctionOnSet(h, s \cup {x}) = SumFunctionOnSet(h, s) + h[x]
  <2> HIDE DEF G
  <2>1. /\ \A x \in S : f[x] \in Int
        /\ \A x \in S : g[x] \in Int
    OBVIOUS
  <2>2. \A s \in SUBSET S : \A x \in S \ s :
          SumFunctionOnSet(f, s \cup {x}) = SumFunctionOnSet(f, s) + f[x]
    BY ONLY <2>1, IsFiniteSet(S), SumSteps
  <2>3. \A s \in SUBSET S : \A x \in S \ s :
          SumFunctionOnSet(g, s \cup {x}) = SumFunctionOnSet(g, s) + g[x]
    BY ONLY <2>1, IsFiniteSet(S), SumSteps
  <2>4. \A s \in SUBSET S : \A x \in S \ s :
          SumFunctionOnSet(h, s \cup {x}) = SumFunctionOnSet(h, s) + h[x]
    BY ONLY <1>1, IsFiniteSet(S), SumSteps
  <2> QED  BY <2>2, <2>3, <2>4
<1>5. ASSUME NEW s \in SUBSET S, s \in G, NEW x \in S \ s
      PROVE  s \cup {x} \in G
  <2>1. /\ SumFunctionOnSet(f, s \cup {x}) = SumFunctionOnSet(f, s) + f[x]
        /\ SumFunctionOnSet(g, s \cup {x}) = SumFunctionOnSet(g, s) + g[x]
        /\ SumFunctionOnSet(h, s \cup {x}) = SumFunctionOnSet(h, s) + h[x]
    BY <1>4
  <2>2. /\ SumFunctionOnSet(h, s) = SumFunctionOnSet(f, s) + SumFunctionOnSet(g, s)
        /\ h[x] = f[x] + g[x] /\ f[x] \in Int /\ g[x] \in Int
    BY <1>5
  <2>3. SumFunctionOnSet(h, s \cup {x})
            = SumFunctionOnSet(f, s \cup {x}) + SumFunctionOnSet(g, s \cup {x})
    BY <1>2, <2>1, <2>2
  <2> QED  BY <2>3
<1> HIDE DEF G
<1>6. S \in G
  BY <1>3, <1>5, OneMoreElement
<1> QED  BY <1>6 DEF G

\* Term by term no greater.
LEMMA SumGrows ==
    ASSUME NEW S, IsFiniteSet(S), NEW f, NEW g,
           \A x \in S : f[x] \in Int /\ g[x] \in Int /\ f[x] <= g[x]
    PROVE  SumFunctionOnSet(f, S) <= SumFunctionOnSet(g, S)
<1> DEFINE G == {s \in SUBSET S : SumFunctionOnSet(f, s) <= SumFunctionOnSet(g, s)}
<1>1. \A s \in SUBSET S : /\ IsFiniteSet(s)
                          /\ SumFunctionOnSet(f, s) \in Int
                          /\ SumFunctionOnSet(g, s) \in Int
  BY SumTakesOut, FS_Subset
<1>2. {} \in G
  BY SumOverNone
<1>3. ASSUME NEW s \in SUBSET S, s \in G, NEW x \in S \ s
      PROVE  s \cup {x} \in G
  <2>1. /\ SumFunctionOnSet(f, s \cup {x}) = SumFunctionOnSet(f, s) + f[x]
        /\ SumFunctionOnSet(g, s \cup {x}) = SumFunctionOnSet(g, s) + g[x]
    BY <1>1, SumPutsIn
  <2>2. /\ SumFunctionOnSet(f, s) <= SumFunctionOnSet(g, s)
        /\ f[x] <= g[x] /\ f[x] \in Int /\ g[x] \in Int
    BY <1>3
  <2>3. SumFunctionOnSet(f, s \cup {x}) <= SumFunctionOnSet(g, s \cup {x})
    BY <1>1, <2>1, <2>2
  <2> QED  BY <2>3
<1> HIDE DEF G
<1>4. S \in G
  BY <1>2, <1>3, OneMoreElement
<1> QED  BY <1>4 DEF G

LEMMA SumOfZeros ==
    ASSUME NEW S, IsFiniteSet(S), NEW f, \A x \in S : f[x] = 0
    PROVE  SumFunctionOnSet(f, S) = 0
<1> DEFINE G == {s \in SUBSET S : SumFunctionOnSet(f, s) = 0}
<1>1. {} \in G
  BY SumOverNone
<1>2. ASSUME NEW s \in SUBSET S, s \in G, NEW x \in S \ s
      PROVE  s \cup {x} \in G
  <2>1. IsFiniteSet(s) /\ \A y \in s \cup {x} : f[y] \in Int
    BY FS_Subset
  <2>2. SumFunctionOnSet(f, s \cup {x}) = SumFunctionOnSet(f, s) + f[x]
    BY <2>1, SumPutsIn
  <2> QED  BY <1>2, <2>2
<1> HIDE DEF G
<1>3. S \in G
  BY <1>1, <1>2, OneMoreElement
<1> QED  BY <1>3 DEF G

\* Naturals add up to a natural.
LEMMA SumOfNaturals ==
    ASSUME NEW S, IsFiniteSet(S), NEW f, \A x \in S : f[x] \in Nat
    PROVE  SumFunctionOnSet(f, S) \in Nat
<1> DEFINE z == [x \in S |-> 0]
<1>1. SumFunctionOnSet(z, S) = 0
  BY SumOfZeros
<1>2. SumFunctionOnSet(z, S) <= SumFunctionOnSet(f, S)
  <2>1. \A x \in S : z[x] \in Int /\ f[x] \in Int /\ z[x] <= f[x]
    OBVIOUS
  <2> HIDE DEF z
  <2> QED  BY <2>1, SumGrows
<1>3. SumFunctionOnSet(f, S) \in Int
  BY SumTakesOut
<1> QED  BY <1>1, <1>2, <1>3

\* What is zero does not count.
LEMMA SumDropsZeros ==
    ASSUME NEW S, IsFiniteSet(S), NEW T \in SUBSET S, NEW f, \A x \in T : f[x] \in Int,
           \A x \in S \ T : f[x] = 0
    PROVE  SumFunctionOnSet(f, S) = SumFunctionOnSet(f, T)
<1>1. /\ IsFiniteSet(T) /\ IsFiniteSet(S \ T)
      /\ T \cap (S \ T) = {} /\ T \cup (S \ T) = S
  BY FS_Subset
<1>2. SumFunctionOnSet(f, T \cup (S \ T))
        = SumFunctionOnSet(f, T) + SumFunctionOnSet(f, S \ T)
  BY <1>1, SumOfUnion
<1>3. SumFunctionOnSet(f, S \ T) = 0 /\ SumFunctionOnSet(f, T) \in Int
  BY <1>1, SumOfZeros, SumTakesOut
<1> QED  BY <1>1, <1>2, <1>3

\* The other way round.
LEMMA SumOfNegatives ==
    ASSUME NEW S, IsFiniteSet(S), NEW f, NEW g,
           \A x \in S : f[x] \in Int /\ g[x] = 0 - f[x]
    PROVE  SumFunctionOnSet(g, S) = 0 - SumFunctionOnSet(f, S)
<1> DEFINE z == [x \in S |-> 0]
<1>1. SumFunctionOnSet(z, S) = 0
  BY SumOfZeros
<1>2. SumFunctionOnSet(z, S) = SumFunctionOnSet(f, S) + SumFunctionOnSet(g, S)
  <2>1. \A x \in S : f[x] \in Int /\ g[x] \in Int /\ z[x] = f[x] + g[x]
    OBVIOUS
  <2> HIDE DEF z
  <2> QED  BY <2>1, SumOfPlus
<1>3. SumFunctionOnSet(f, S) \in Int /\ SumFunctionOnSet(g, S) \in Int
  BY SumTakesOut
<1> QED  BY <1>1, <1>2, <1>3

\* Of one number over and over.
LEMMA SumOfEquals ==
    ASSUME NEW S, IsFiniteSet(S), NEW c \in Int, NEW f, \A x \in S : f[x] = c
    PROVE  SumFunctionOnSet(f, S) = c * Cardinality(S)
<1> DEFINE G == {s \in SUBSET S : SumFunctionOnSet(f, s) = c * Cardinality(s)}
<1>1. {} \in G
  BY SumOverNone, FS_EmptySet
<1>2. ASSUME NEW s \in SUBSET S, s \in G, NEW x \in S \ s
      PROVE  s \cup {x} \in G
  <2>1. IsFiniteSet(s) /\ x \notin s /\ \A y \in s \cup {x} : f[y] \in Int
    BY FS_Subset
  <2>2. SumFunctionOnSet(f, s \cup {x}) = SumFunctionOnSet(f, s) + f[x]
    BY <2>1, SumPutsIn
  <2>3. Cardinality(s \cup {x}) = Cardinality(s) + 1 /\ Cardinality(s) \in Nat
    BY <2>1, FS_AddElement, FS_CardinalityType
  <2> DEFINE m == Cardinality(s)
  <2>4. SumFunctionOnSet(f, s) = c * m /\ f[x] = c
    BY <1>2
  <2>5. m \in Int /\ Cardinality(s \cup {x}) = m + 1
    BY <2>3
  <2> HIDE DEF m
  <2>6. c * (m + 1) = c * m + c
    BY <2>5
  <2>7. SumFunctionOnSet(f, s \cup {x}) = c * Cardinality(s \cup {x})
    BY <2>2, <2>4, <2>5, <2>6
  <2> QED  BY <2>7
<1> HIDE DEF G
<1>3. S \in G
  BY <1>1, <1>2, OneMoreElement
<1> QED  BY <1>3 DEF G

\* A finite set of numbers that has an element has a greatest.
LEMMA GreatestOfSet ==
    ASSUME NEW T, IsFiniteSet(T), T \subseteq Int, T # {}
    PROVE  \E x \in T : \A y \in T : y <= x
<1> DEFINE G == {S \in SUBSET T : S = {} \/ \E x \in S : \A y \in S : y <= x}
<1>1. {} \in G
  OBVIOUS
<1>2. ASSUME NEW S \in SUBSET T, S \in G, NEW z \in T \ S
      PROVE  S \cup {z} \in G
  <2>1. CASE S = {}
    BY <2>1
  <2>2. CASE S # {}
    <3>1. PICK x \in S : \A y \in S : y <= x
      BY <1>2, <2>2
    <3>2. x \in Int /\ z \in Int
      OBVIOUS
    <3>3. CASE z <= x
      BY <3>1, <3>3
    <3>4. CASE ~(z <= x)
      <4>1. \A y \in S \cup {z} : y <= z
        BY <3>1, <3>2, <3>4
      <4> QED  BY <4>1
    <3> QED  BY <3>3, <3>4
  <2> QED  BY <2>1, <2>2
<1> HIDE DEF G
<1>3. T \in G
  BY <1>1, <1>2, OneMoreElement
<1> QED  BY <1>3 DEF G

\* A finite set of numbers has a k-th, for every k up to how many there are.
LEMMA KthOfSet ==
    ASSUME NEW T, IsFiniteSet(T), T \subseteq Int
    PROVE  \A k \in 1..Cardinality(T) :
              \E x \in T : Cardinality({y \in T : y <= x}) = k
<1> DEFINE G == {S \in SUBSET T : \A k \in 1..Cardinality(S) :
                    \E x \in S : Cardinality({y \in S : y <= x}) = k}
<1>1. ASSUME NEW S \in SUBSET T, \A U \in (SUBSET S) \ {S} : U \in G
      PROVE  S \in G
  <2> SUFFICES ASSUME NEW k \in 1..Cardinality(S)
               PROVE  \E x \in S : Cardinality({y \in S : y <= x}) = k
    OBVIOUS
  <2>1. IsFiniteSet(S) /\ Cardinality(S) \in Nat
    BY FS_Subset, FS_CardinalityType
  <2>2. S # {}
    BY FS_EmptySet
  <2>3. PICK m \in S : \A y \in S : y <= m
    BY <2>1, <2>2, GreatestOfSet
  <2>4. CASE k = Cardinality(S)
    <3>1. {y \in S : y <= m} = S
      BY <2>3
    <3>2. Cardinality({y \in S : y <= m}) = k
      BY <2>4, <3>1, Zenon
    <3> QED  BY <3>2
  <2>5. CASE k # Cardinality(S)
    <3> DEFINE U == S \ {m}
    <3>1. Cardinality(U) = Cardinality(S) - 1
      BY <2>1, FS_RemoveElement
    <3>2. k \in 1..Cardinality(U)
      BY <2>1, <2>5, <3>1
    <3>3. U \in G
      BY <1>1
    <3>4. \E x \in U : Cardinality({y \in U : y <= x}) = k
      BY <3>2, <3>3
    <3>5. PICK x \in U : Cardinality({y \in U : y <= x}) = k
      BY <3>4
    <3>6. x \in S /\ x # m /\ x \in Int /\ m \in Int /\ x <= m
      BY <2>3
    <3>7. {y \in U : y <= x} = {y \in S : y <= x}
      BY <3>6
    <3> QED  BY <3>5, <3>6, <3>7
  <2> QED  BY <2>4, <2>5
<1> HIDE DEF G
<1>2. T \in G
  BY <1>1, StrictSubsetsFirst
<1> QED  BY <1>2 DEF G

\* The first of a set, the next and the last, by how many are no greater.
LEMMA FirstOfSet ==
    ASSUME NEW T, IsFiniteSet(T), T \subseteq Int, NEW x \in T,
           Cardinality({w \in T : w <= x}) = 1
    PROVE  \A v \in T : x <= v
<1> DEFINE A == {w \in T : w <= x}
<1>1. IsFiniteSet(A) /\ Cardinality(A) = 1
  BY FS_Subset
<1>2. \A a, b \in A : a = b
  <2>1. \E z : A = {z}
    <3> HIDE DEF A
    <3> QED  BY <1>1, FS_Singleton
  <2> QED  BY <2>1
<1> SUFFICES ASSUME NEW v \in T, ~(x <= v) PROVE FALSE
  OBVIOUS
<1>3. x \in A /\ v \in A /\ v # x
  OBVIOUS
<1> QED  BY <1>2, <1>3

LEMMA NextOfSet ==
    ASSUME NEW T, IsFiniteSet(T), T \subseteq Int, NEW x \in T, NEW y \in T,
           Cardinality({w \in T : w <= y}) = Cardinality({w \in T : w <= x}) + 1
    PROVE  x < y /\ \A v \in T : v < y => v <= x
<1> DEFINE A == {w \in T : w <= x}
           B == {w \in T : w <= y}
<1>1. IsFiniteSet(A) /\ IsFiniteSet(B)
  BY FS_Subset
<1>2. Cardinality(A) \in Nat /\ Cardinality(B) = Cardinality(A) + 1
  BY <1>1, FS_CardinalityType
<1>3. x \in Int /\ y \in Int
  OBVIOUS
<1>4. ~(y <= x)
  <2> SUFFICES ASSUME y <= x PROVE FALSE
    OBVIOUS
  <2>1. B \in SUBSET A
    <3> SUFFICES ASSUME NEW w \in T, w <= y PROVE w <= x
      OBVIOUS
    <3>1. w \in Int
      OBVIOUS
    <3> QED  BY ONLY <1>3, <3>1, w <= y, y <= x
  <2> HIDE DEF A, B
  <2>2. Cardinality(B) <= Cardinality(A)
    BY <1>1, <2>1, FS_Subset
  <2> QED  BY <1>2, <2>2
<1>5. ASSUME NEW v \in T, v < y, ~(v <= x) PROVE FALSE
  <2>1. v \in Int /\ v \notin A /\ y \in B
    BY <1>5
  <2>2. A \cup {v} \in SUBSET (B \ {y})
    <3>1. \A w \in A : w \in B /\ w # y
      BY <1>3, <1>4
    <3>2. v \in B /\ v # y
      BY <1>3, <1>5, <2>1
    <3> HIDE DEF A, B
    <3> QED  BY <3>1, <3>2
  <2> HIDE DEF A, B
  <2>3. Cardinality(A \cup {v}) = Cardinality(A) + 1
    BY <1>1, <2>1, FS_AddElement
  <2>4. IsFiniteSet(B \ {y}) /\ Cardinality(B \ {y}) = Cardinality(B) - 1
    BY <1>1, <2>1, FS_RemoveElement
  <2>5. Cardinality(A \cup {v}) <= Cardinality(B \ {y})
    BY <2>2, <2>4, FS_Subset
  <2> QED  BY <1>2, <2>3, <2>4, <2>5
<1> QED  BY <1>3, <1>4, <1>5

LEMMA LastOfSet ==
    ASSUME NEW T, IsFiniteSet(T), T \subseteq Int, NEW x \in T,
           Cardinality({w \in T : w <= x}) = Cardinality(T)
    PROVE  \A v \in T : v <= x
<1> DEFINE A == {w \in T : w <= x}
<1>1. A \in SUBSET T /\ Cardinality(T) = Cardinality(A)
  OBVIOUS
<1>2. A = T
  <2> HIDE DEF A
  <2> QED  BY <1>1, FS_Subset
<1> QED  BY <1>2

-----------------------------------------------------------------------------
(* The books: what the rows are worth, and what is still to be posted.     *)

\* What n units of a row are worth on the Inventory account: a hole's are owed.
Weigh(r, n) ==
    IF r[1] = "layer" THEN n * stock[r].cost ELSE 0 - (n * stock[r].cost)

Booked ==
    [r \in Rows |-> IF r \in DOMAIN stock /\ r[2] \in Committed
                    THEN Weigh(r, stock[r].qty) ELSE 0]

\* What t's commit will change: its own rows come in, what it drew goes out.
Moved(t) ==
    [r \in Rows |-> IF r \in DOMAIN stock
                    THEN (IF r[2] = t THEN Weigh(r, stock[r].qty) ELSE 0)
                            - Weigh(r, Drawn(t, r))
                    ELSE 0]

Total(f) == SumFunctionOnSet(f, Rows)

\* A transaction's own rows are those of the lines behind it.
FreshInv(t) ==
    \A r \in DOMAIN stock :
        r[2] = t =>
          /\ pc[t] \notin {"none", "session", "pool", "layers", "restore", "count"}
          /\ pc[t] \in {"consume", "receive"} =>
                \E i \in DOMAIN doc[t] : i < line[t] /\ doc[t][i].v = r[3]
          /\ pc[t] = "settle" =>
                \E i \in DOMAIN doc[t] : i <= line[t] /\ doc[t][i].v = r[3]

PostsInv(t) ==
    /\ t \in Running => posts[t] = Total(Moved(t))
    /\ t \notin Running => posts[t] = 0 /\ DOMAIN drawn[t] = {}

\* The account is what the committed rows are worth, and what a transaction
\* will post is what it moves.
MoneyInv ==
    /\ DOMAIN stock \subseteq Rows
    /\ \A r \in DOMAIN stock : stock[r].cost \in Nat
    /\ \A l \in Born \X Variants : charged[l] \in Nat
    /\ posts \in [Txns -> Int]
    /\ ledger = Total(Booked)
    /\ \A t \in Txns : FreshInv(t) /\ PostsInv(t)

-----------------------------------------------------------------------------

LEMMA RowsFinite == IsFiniteSet(Rows)
<1> DEFINE Kd == {"layer", "hole"}
           P  == Kd \X (Born \X Variants)
           f  == [x \in P |-> <<x[1], x[2][1], x[2][2]>>]
<1>1. IsFiniteSet(Kd)
  <2>1. Kd = {"layer"} \cup {"hole"}
    OBVIOUS
  <2>2. IsFiniteSet({"layer"} \cup {"hole"})
    BY FS_Singleton, FS_AddElement
  <2> QED  BY <2>1, <2>2, Zenon
<1>2. IsFiniteSet(Born) /\ IsFiniteSet(Variants)
  BY BooksAssumption, FS_Interval DEF Born
<1>3. IsFiniteSet(P)
  <2> HIDE DEF Kd
  <2> QED  BY <1>1, <1>2, FS_Product
<1>4. f \in Surjection(P, Rows)
  <2>1. f \in [P -> Rows]
    BY DEF Rows
  <2>2. ASSUME NEW r \in Rows PROVE \E x \in P : f[x] = r
    <3>1. PICK k \in Kd, b \in Born, v \in Variants : r = <<k, b, v>>
      BY DEF Rows
    <3>2. <<k, <<b, v>>>> \in P
      OBVIOUS
    <3>3. f[<<k, <<b, v>>>>] = <<k, b, v>>
      BY <3>2
    <3> QED  BY <3>1, <3>2, <3>3, Zenon
  <2> HIDE DEF f, P
  <2> QED  BY <2>1, <2>2 DEF Surjection
<1> HIDE DEF f, P
<1> QED  BY <1>3, <1>4, FS_Surjection

\* Weighing is additive.
LEMMA WeighAdds ==
    ASSUME NEW r, stock[r].cost \in Nat
    PROVE  /\ \A n \in Int : Weigh(r, n) \in Int
           /\ Weigh(r, 0) = 0
           /\ \A m, n \in Int : Weigh(r, m + n) = Weigh(r, m) + Weigh(r, n)
           /\ \A m, n \in Int : Weigh(r, m - n) = Weigh(r, m) - Weigh(r, n)
<1> DEFINE c == stock[r].cost
<1>1. c \in Int
  OBVIOUS
<1> HIDE DEF c
<1>2. CASE r[1] = "layer"
  <2>1. \A n : Weigh(r, n) = n * c
    BY <1>2 DEF Weigh, c
  <2> QED  BY <1>1, <2>1
<1>3. CASE r[1] # "layer"
  <2>1. \A n : Weigh(r, n) = 0 - (n * c)
    BY <1>3 DEF Weigh, c
  <2> QED  BY <1>1, <2>1
<1> QED  BY <1>2, <1>3

LEMMA WeighSame ==
    ASSUME NEW r, stock'[r].cost = stock[r].cost
    PROVE  \A n : Weigh(r, n)' = Weigh(r, n)
  BY DEF Weigh

\* Adding up over all rows there can be.
LEMMA TotalOfNothing ==
    ASSUME NEW f, \A r \in Rows : f[r] = 0
    PROVE  Total(f) = 0
  BY RowsFinite, SumOfZeros DEF Total

LEMMA TotalSame ==
    ASSUME NEW f, NEW g, \A r \in Rows : f[r] = g[r]
    PROVE  Total(f) = Total(g)
  BY RowsFinite, SumSame DEF Total

LEMMA TotalOfOne ==
    ASSUME NEW f, NEW row \in Rows, f[row] \in Int, \A r \in Rows \ {row} : f[r] = 0
    PROVE  Total(f) = f[row]
<1>1. SumFunctionOnSet(f, Rows) = SumFunctionOnSet(f, {row})
  <2>1. {row} \in SUBSET Rows /\ \A r \in {row} : f[r] \in Int
    OBVIOUS
  <2> QED  BY <2>1, RowsFinite, SumDropsZeros
<1> QED  BY <1>1, SumOfOne DEF Total

LEMMA TotalOfSum ==
    ASSUME NEW f, NEW g, NEW h,
           \A r \in Rows : f[r] \in Int /\ g[r] \in Int /\ h[r] = f[r] + g[r]
    PROVE  Total(h) = Total(f) + Total(g) /\ Total(f) \in Int /\ Total(g) \in Int
<1>1. (\A r \in Rows : f[r] \in Int) /\ (\A r \in Rows : g[r] \in Int)
  OBVIOUS
<1>2. Total(f) \in Int
  BY ONLY <1>1, RowsFinite, SumTakesOut DEF Total
<1>3. Total(g) \in Int
  BY ONLY <1>1, RowsFinite, SumTakesOut DEF Total
<1>4. Total(h) = Total(f) + Total(g)
  BY RowsFinite, SumOfPlus DEF Total
<1> QED  BY <1>2, <1>3, <1>4

\* What a draw is worth.
LEMMA WorthIsNat ==
    ASSUME NEW draw, DOMAIN draw \subseteq DOMAIN stock, DOMAIN stock \subseteq Rows,
           \A r \in DOMAIN draw : draw[r] \in Nat /\ stock[r].cost \in Nat
    PROVE  Worth(draw) \in Nat
<1> DEFINE f == [r \in DOMAIN draw |-> draw[r] * stock[r].cost]
<1>1. IsFiniteSet(DOMAIN draw)
  BY RowsFinite, FS_Subset
<1>2. \A r \in DOMAIN draw : f[r] \in Nat
  <2> SUFFICES ASSUME NEW r \in DOMAIN draw PROVE draw[r] * stock[r].cost \in Nat
    OBVIOUS
  <2> QED  OBVIOUS
<1>3. DOMAIN f = DOMAIN draw /\ Worth(draw) = SumFunctionOnSet(f, DOMAIN f)
  BY DEF Worth, SumFunction
<1> HIDE DEF f
<1> QED  BY <1>1, <1>2, <1>3, SumOfNaturals

\* Over the rows drawn from, and nothing over the others.
LEMMA TotalOfDraw ==
    ASSUME NEW draw, DOMAIN draw \subseteq DOMAIN stock, DOMAIN stock \subseteq Rows,
           \A r \in DOMAIN draw : draw[r] \in Nat /\ stock[r].cost \in Nat,
           NEW f, \A r \in Rows \ DOMAIN draw : f[r] = 0
    PROVE  /\ (\A r \in DOMAIN draw : f[r] = draw[r] * stock[r].cost)
                 => Total(f) = Worth(draw)
           /\ (\A r \in DOMAIN draw : f[r] = 0 - (draw[r] * stock[r].cost))
                 => Total(f) = 0 - Worth(draw)
<1> DEFINE g == [r \in DOMAIN draw |-> draw[r] * stock[r].cost]
<1>1. IsFiniteSet(DOMAIN draw) /\ DOMAIN draw \in SUBSET Rows
  BY RowsFinite, FS_Subset
<1>2. \A r \in DOMAIN draw : g[r] \in Int
  <2> SUFFICES ASSUME NEW r \in DOMAIN draw PROVE draw[r] * stock[r].cost \in Int
    OBVIOUS
  <2> QED  OBVIOUS
<1>3. Worth(draw) = SumFunctionOnSet(g, DOMAIN draw)
  BY DEF Worth, SumFunction
<1>4. \A r \in DOMAIN draw : g[r] = draw[r] * stock[r].cost
  OBVIOUS
<1> HIDE DEF g
<1>5. ASSUME \A r \in DOMAIN draw : f[r] = draw[r] * stock[r].cost
      PROVE  Total(f) = Worth(draw)
  <2>1. \A r \in DOMAIN draw : f[r] = g[r]
    BY <1>4, <1>5
  <2>2. SumFunctionOnSet(f, DOMAIN draw) = SumFunctionOnSet(g, DOMAIN draw)
    BY ONLY <1>1, <2>1, SumSame
  <2>3. Total(f) = SumFunctionOnSet(f, DOMAIN draw)
    <3>1. \A r \in DOMAIN draw : f[r] \in Int
      BY <1>2, <2>1
    <3>2. \A r \in Rows \ DOMAIN draw : f[r] = 0
      OBVIOUS
    <3> QED  BY ONLY <1>1, <3>1, <3>2, RowsFinite, SumDropsZeros DEF Total
  <2> QED  BY <1>3, <2>2, <2>3
<1>6. ASSUME \A r \in DOMAIN draw : f[r] = 0 - (draw[r] * stock[r].cost)
      PROVE  Total(f) = 0 - Worth(draw)
  <2>1. \A r \in DOMAIN draw : g[r] \in Int /\ f[r] = 0 - g[r]
    BY <1>2, <1>4, <1>6
  <2>2. SumFunctionOnSet(f, DOMAIN draw) = 0 - SumFunctionOnSet(g, DOMAIN draw)
    BY ONLY <1>1, <2>1, SumOfNegatives
  <2>3. Total(f) = SumFunctionOnSet(f, DOMAIN draw)
    <3>1. \A r \in DOMAIN draw : f[r] \in Int
      BY <2>1
    <3>2. \A r \in Rows \ DOMAIN draw : f[r] = 0
      OBVIOUS
    <3> QED  BY ONLY <1>1, <3>1, <3>2, RowsFinite, SumDropsZeros DEF Total
  <2> QED  BY <1>3, <2>2, <2>3
<1> QED  BY <1>5, <1>6

\* What is drawn, and what a row moves by, are numbers.
LEMMA MovedIsInt ==
    ASSUME StockInv, MoneyInv, NEW t \in Txns
    PROVE  /\ \A r : Drawn(t, r) \in Nat
           /\ \A r \in DOMAIN stock : stock[r].qty \in Nat /\ stock[r].cost \in Nat
           /\ \A r \in Rows : Moved(t)[r] \in Int /\ Booked[r] \in Int
<1>1. \A r : Drawn(t, r) \in Nat
  <2> SUFFICES ASSUME NEW r \in DOMAIN drawn[t] PROVE drawn[t][r] \in Nat
    BY DEF Drawn
  <2>1. r \in DOMAIN stock /\ drawn[t][r] \in 0..stock[r].qty
    BY DEF StockInv, DrawInv, Drawable
  <2> QED  BY <2>1 DEF StockInv, RowInv
<1>2. \A r \in DOMAIN stock : stock[r].qty \in Nat /\ stock[r].cost \in Nat
  <2>1. \A r \in DOMAIN stock : stock[r].qty \in Nat
    BY DEF StockInv, RowInv
  <2>2. \A r \in DOMAIN stock : stock[r].cost \in Nat
    BY DEF MoneyInv
  <2> QED  BY <2>1, <2>2
<1>3. \A r \in DOMAIN stock : Weigh(r, stock[r].qty) \in Int /\ Weigh(r, Drawn(t, r)) \in Int
  <2> SUFFICES ASSUME NEW r \in DOMAIN stock
               PROVE  Weigh(r, stock[r].qty) \in Int /\ Weigh(r, Drawn(t, r)) \in Int
    OBVIOUS
  <2>1. stock[r].qty \in Int /\ Drawn(t, r) \in Int /\ stock[r].cost \in Nat
    BY <1>1, <1>2
  <2>2. \A n \in Int : Weigh(r, n) \in Int
    BY <2>1, WeighAdds
  <2> QED  BY <2>1, <2>2
<1>4. ASSUME NEW r \in Rows PROVE Moved(t)[r] \in Int /\ Booked[r] \in Int
  <2>1. CASE r \in DOMAIN stock
    <3>1. Weigh(r, stock[r].qty) \in Int /\ Weigh(r, Drawn(t, r)) \in Int
      BY <1>3, <2>1
    <3> QED  BY <2>1, <3>1 DEF Moved, Booked
  <2>2. CASE r \notin DOMAIN stock
    BY <2>2 DEF Moved, Booked
  <2> QED  BY <2>1, <2>2
<1> QED  BY <1>1, <1>2, <1>4

\* While t moves alone and commits nothing, the books stand, and so does what
\* the others will post.
LEMMA OthersMove ==
    ASSUME BooksInv, StockInv, MoneyInv, StockInv', NEW t \in Txns, Alone(t),
           pc'[t] # "committed", UNCHANGED ledger,
           posts' = [posts EXCEPT ![t] = posts'[t]], posts'[t] \in Int,
           DOMAIN stock \subseteq DOMAIN stock', DOMAIN stock' \subseteq Rows,
           \A r \in DOMAIN stock' :
              /\ stock'[r].cost \in Nat
              /\ r[2] = t \/ (r \in DOMAIN stock /\ stock'[r] = stock[r]),
           \A l \in Born \X Variants : charged'[l] \in Nat,
           FreshInv(t)', PostsInv(t)'
    PROVE  MoneyInv'
<1>1. \A u \in Txns \ {t} : /\ pc'[u] = pc[u] /\ line'[u] = line[u] /\ drawn'[u] = drawn[u]
                            /\ posts'[u] = posts[u]
  BY DEF BooksInv, ShapeInv, StockInv, MoneyInv, Alone
<1>2. Committed' = Committed /\ t \notin Committed
  BY <1>1, BooksAssumption DEF Committed, Alone, Steps, Txns
<1>3. Booked' = Booked
  <2>1. \A r \in Rows : Booked'[r] = Booked[r]
    <3> SUFFICES ASSUME NEW r \in Rows PROVE Booked'[r] = Booked[r]
      OBVIOUS
    <3>1. CASE r[2] \in Committed
      <4>1. r \in DOMAIN stock' <=> r \in DOMAIN stock
        BY <1>2, <3>1
      <4>2. r \in DOMAIN stock => stock'[r] = stock[r]
        BY <1>2, <3>1
      <4> QED  BY <1>2, <3>1, <4>1, <4>2, WeighSame DEF Booked
    <3>2. CASE r[2] \notin Committed
      BY <1>2, <3>2 DEF Booked
    <3> QED  BY <3>1, <3>2
  <2> QED  BY <2>1 DEF Booked
<1>4. ASSUME NEW u \in Txns \ {t} PROVE FreshInv(u)' /\ PostsInv(u)'
  <2>1. \A r \in DOMAIN stock' : r[2] = u => r \in DOMAIN stock
    BY BooksAssumption DEF Txns
  <2>2. FreshInv(u)'
    <3> SUFFICES ASSUME NEW r \in DOMAIN stock', r[2] = u
          PROVE /\ pc'[u] \notin {"none", "session", "pool", "layers", "restore", "count"}
                /\ pc'[u] \in {"consume", "receive"} =>
                      \E i \in DOMAIN doc'[u] : i < line'[u] /\ doc'[u][i].v = r[3]
                /\ pc'[u] = "settle" =>
                      \E i \in DOMAIN doc'[u] : i <= line'[u] /\ doc'[u][i].v = r[3]
      BY DEF FreshInv
    <3>1. FreshInv(u) /\ r \in DOMAIN stock
      BY <2>1 DEF MoneyInv
    <3> QED  BY <1>1, <3>1 DEF FreshInv, Alone
  <2>3. Total(Moved(u))' = Total(Moved(u))
    <3>1. ASSUME NEW r \in Rows PROVE Moved(u)'[r] = Moved(u)[r]
      <4>1. \A x : Drawn(u, x)' = Drawn(u, x)
        BY <1>1 DEF Drawn
      <4>2. CASE r \in DOMAIN stock' /\ r[2] # t
        <5>1. r \in DOMAIN stock /\ stock'[r] = stock[r]
          BY <4>2
        <5>2. \A n : Weigh(r, n)' = Weigh(r, n)
          BY <5>1, WeighSame
        <5>3. Weigh(r, stock[r].qty)' = Weigh(r, stock[r].qty)
          BY <5>1, <5>2 DEF Weigh
        <5>4. Weigh(r, Drawn(u, r))' = Weigh(r, Drawn(u, r))
          BY <4>1, <5>1 DEF Weigh
        <5>5. r \in DOMAIN stock'
          BY <4>2
        <5> QED  BY <5>1, <5>3, <5>4, <5>5 DEF Moved
      <4>3. CASE r \in DOMAIN stock' /\ r[2] = t
        <5>1. r \notin DOMAIN drawn[u]
          BY <1>2, <4>3 DEF StockInv, DrawInv, Drawable
        <5>2. Drawn(u, r) = 0 /\ Drawn(u, r)' = 0
          BY <4>1, <5>1 DEF Drawn
        <5>3. Weigh(r, Drawn(u, r))' = 0
          BY <4>3, <5>2 DEF Weigh
        <5>4. r \in DOMAIN stock => Weigh(r, Drawn(u, r)) = 0
          BY <5>2, WeighAdds DEF MoneyInv
        <5>5. r[2] # u
          BY <4>3
        <5> QED  BY <4>3, <5>3, <5>4, <5>5 DEF Moved
      <4>4. CASE r \notin DOMAIN stock'
        BY <4>4 DEF Moved
      <4> QED  BY <4>2, <4>3, <4>4
    <3>2. Moved(u)' = Moved(u)
      BY <3>1 DEF Moved
    <3> QED  BY <3>2 DEF Total
  <2>4. PostsInv(u)'
    BY <1>1, <2>3 DEF MoneyInv, PostsInv, Running
  <2> QED  BY <2>2, <2>4
<1>5. posts' \in [Txns -> Int]
  BY DEF MoneyInv
<1>6. ledger' = Total(Booked)'
  BY <1>3 DEF MoneyInv, Total
<1> QED  BY <1>4, <1>5, <1>6 DEF MoneyInv

\* A statement that draws nothing and puts nothing in posts nothing.
LEMMA StillMoves ==
    ASSUME BooksInv, StockInv, MoneyInv, StockInv', NEW t \in Txns, Alone(t),
           pc'[t] \in Steps, UNCHANGED <<stock, drawn, posts, charged, ledger>>,
           FreshInv(t)'
    PROVE  MoneyInv'
<1>1. posts' = [posts EXCEPT ![t] = posts'[t]] /\ posts'[t] \in Int
  BY DEF MoneyInv
<1>2. PostsInv(t)'
  <2>1. Moved(t)' = Moved(t)
    BY DEF Moved, Weigh, Drawn
  <2>2. posts[t] = Total(Moved(t))
    BY DEF MoneyInv, PostsInv, Running, Alone
  <2> QED  BY <2>1, <2>2 DEF PostsInv, Running, Total
<1>3. pc'[t] # "committed"
  BY DEF Steps
<1>4. /\ DOMAIN stock' \subseteq Rows
      /\ \A r \in DOMAIN stock' : stock'[r].cost \in Nat
      /\ \A l \in Born \X Variants : charged'[l] \in Nat
  BY DEF MoneyInv
<1> QED  BY <1>1, <1>2, <1>3, <1>4, OthersMove

\* A transaction given up moves nothing.
LEMMA GiveUpMoves ==
    ASSUME BooksInv, StockInv, MoneyInv, StockInv', NEW t \in Txns,
           NEW how, how \notin Steps \cup {"none", "committed"}, pc[t] \in Steps,
           End(t, how), UNCHANGED <<rowVars, docVars>>
    PROVE  MoneyInv'
<1>1. /\ UNCHANGED <<stock, kind, doc, charged, ledger>> /\ pc' = [pc EXCEPT ![t] = how]
      /\ held' = [held EXCEPT ![t] = {}] /\ want' = [want EXCEPT ![t] = {}]
      /\ line' = [line EXCEPT ![t] = 1] /\ drawn' = [drawn EXCEPT ![t] = << >>]
      /\ posts' = [posts EXCEPT ![t] = 0]
  BY DEF End, Goto, rowVars, docVars
<1>2. pc'[t] = how /\ posts'[t] = 0 /\ Alone(t)
  BY <1>1 DEF BooksInv, ShapeInv, StockInv, MoneyInv, Alone
<1>3. DOMAIN drawn'[t] = {}
  <2>1. drawn'[t] = << >>
    BY <1>1 DEF StockInv
  <2> QED  BY <2>1, NothingDrawn, Zenon
<1>4. FreshInv(t)' /\ PostsInv(t)'
  BY <1>2, <1>3 DEF FreshInv, PostsInv, Running, Steps
<1>5. /\ DOMAIN stock' \subseteq Rows
      /\ \A r \in DOMAIN stock' : stock'[r].cost \in Nat
      /\ \A l \in Born \X Variants : charged'[l] \in Nat
  BY <1>1 DEF MoneyInv
<1>6. /\ DOMAIN stock \subseteq DOMAIN stock'
      /\ \A r \in DOMAIN stock' :
            r[2] = t \/ (r \in DOMAIN stock /\ stock'[r] = stock[r])
  <2>1. stock' = stock
    BY <1>1
  <2> QED  BY <2>1
<1>7. pc'[t] # "committed" /\ UNCHANGED ledger /\ posts'[t] \in Int
  BY <1>1, <1>2
<1>8. posts' = [posts EXCEPT ![t] = posts'[t]]
  BY <1>1, <1>2 DEF MoneyInv
<1> QED  BY <1>2, <1>4, <1>5, <1>6, <1>7, <1>8, OthersMove

\* A statement that waits.
LEMMA WaitMoves ==
    ASSUME BooksInv, StockInv, MoneyInv, StockInv', NEW t \in Txns, NEW rows,
           Wait(t, rows), pc[t] \in Steps
    PROVE  MoneyInv'
<1>1. /\ UNCHANGED <<stock, kind, doc, charged, ledger, pc, line, held, drawn, posts>>
      /\ want' = [want EXCEPT ![t] = rows]
  BY DEF Wait, rowVars, docVars
<1>2. Alone(t)
  BY <1>1 DEF BooksInv, ShapeInv, StockInv, Alone
<1>3. FreshInv(t)'
  <2>1. FreshInv(t)
    BY DEF MoneyInv
  <2> QED  BY <1>1, <2>1 DEF FreshInv
<1> QED  BY <1>1, <1>2, <1>3, StillMoves

\* A step of t alone changes what it moves by D, and posts as much.
LEMMA MovesBy ==
    ASSUME BooksInv, StockInv, MoneyInv, StockInv', NEW t \in Txns, Alone(t),
           pc'[t] \in Steps, UNCHANGED ledger,
           DOMAIN stock \subseteq DOMAIN stock', DOMAIN stock' \subseteq Rows,
           \A r \in DOMAIN stock' :
              /\ stock'[r].cost \in Nat
              /\ r[2] = t \/ (r \in DOMAIN stock /\ stock'[r] = stock[r]),
           \A l \in Born \X Variants : charged'[l] \in Nat,
           FreshInv(t)',
           NEW D, \A r \in Rows : D[r] \in Int /\ Moved(t)'[r] = Moved(t)[r] + D[r],
           posts' = [posts EXCEPT ![t] = posts[t] + Total(D)]
    PROVE  MoneyInv'
<1>1. \A r \in Rows : Moved(t)[r] \in Int
  BY MovedIsInt
<1>2. Total(Moved(t)') = Total(Moved(t)) + Total(D) /\ Total(D) \in Int
  <2>1. \A r \in Rows : /\ Moved(t)[r] \in Int /\ D[r] \in Int
                        /\ Moved(t)'[r] = Moved(t)[r] + D[r]
    BY <1>1
  <2> QED  BY ONLY <2>1, TotalOfSum
<1>3. posts[t] = Total(Moved(t))
  BY DEF MoneyInv, PostsInv, Running, Alone
<1>4. /\ posts'[t] = posts[t] + Total(D) /\ posts[t] \in Int
      /\ posts' = [posts EXCEPT ![t] = posts'[t]]
  BY DEF MoneyInv
<1>5. PostsInv(t)' /\ posts'[t] \in Int
  <2>1. Total(Moved(t))' = Total(Moved(t)')
    BY DEF Total
  <2> QED  BY <1>2, <1>3, <1>4, <2>1 DEF PostsInv, Running
<1>6. pc'[t] # "committed"
  BY DEF Steps
<1> QED  BY <1>4, <1>5, <1>6, OthersMove

LEMMA GivenUp ==
    \A how \in {"refused", "rolled back"} : how \notin Steps \cup {"none", "committed"}
  BY Zenon DEF Steps

\* A row of t's own that was not there yet comes in.
LEMMA InsertMoves ==
    ASSUME BooksInv, StockInv, MoneyInv, StockInv', NEW t \in Txns, Alone(t),
           pc'[t] \in Steps, UNCHANGED <<ledger, drawn>>,
           NEW row \in Rows \ DOMAIN stock, row[2] = t, NEW n \in Nat, NEW each \in Nat,
           Insert(row, n, each),
           \A l \in Born \X Variants : charged'[l] \in Nat,
           FreshInv(t)',
           NEW w, w = IF row[1] = "layer" THEN n * each ELSE 0 - (n * each),
           posts' = [posts EXCEPT ![t] = posts[t] + w]
    PROVE  MoneyInv'
<1> DEFINE D == [r \in Rows |-> IF r = row THEN w ELSE 0]
<1>1. /\ DOMAIN stock' = DOMAIN stock \cup {row}
      /\ stock'[row] = [qty |-> n, cost |-> each]
      /\ \A r \in DOMAIN stock : stock'[r] = stock[r]
  BY DEF Insert, With
<1>2. w \in Int
  OBVIOUS
<1>3. ASSUME NEW r \in Rows PROVE Moved(t)'[r] = Moved(t)[r] + D[r]
  <2>1. \A x : Drawn(t, x)' = Drawn(t, x)
    BY DEF Drawn
  <2>2. CASE r = row
    <3>1. Moved(t)[r] = 0 /\ D[r] = w
      BY <2>2 DEF Moved
    <3>2. r \notin DOMAIN drawn[t]
      BY <2>2 DEF StockInv, DrawInv, Drawable
    <3>3. Drawn(t, r)' = 0
      BY <2>1, <3>2 DEF Drawn
    <3>4. stock'[r].qty = n /\ stock'[r].cost = each
      BY <1>1, <2>2
    <3>5. Weigh(r, stock[r].qty)' = w /\ Weigh(r, Drawn(t, r))' = 0
      BY <2>2, <3>3, <3>4 DEF Weigh
    <3>6. Moved(t)'[r] = Weigh(r, stock[r].qty)' - Weigh(r, Drawn(t, r))'
      BY <1>1, <2>2 DEF Moved
    <3> HIDE DEF D
    <3> QED  BY <1>2, <3>1, <3>5, <3>6
  <2>3. CASE r # row
    <3>1. (r \in DOMAIN stock' <=> r \in DOMAIN stock) /\ D[r] = 0
      BY <1>1, <2>3
    <3>2. r \in DOMAIN stock => stock'[r] = stock[r]
      BY <1>1
    <3>3. r \in DOMAIN stock => /\ Weigh(r, stock[r].qty)' = Weigh(r, stock[r].qty)
                                /\ Weigh(r, Drawn(t, r))' = Weigh(r, Drawn(t, r))
      BY <2>1, <3>2 DEF Weigh
    <3>4. Moved(t)'[r] = Moved(t)[r]
      BY <3>1, <3>3 DEF Moved
    <3>5. Moved(t)[r] \in Int
      BY MovedIsInt
    <3> HIDE DEF D
    <3> QED  BY <3>1, <3>4, <3>5
  <2> QED  BY <2>2, <2>3
<1>4. Total(D) = w
  <2>1. row \in Rows /\ D[row] = w /\ \A r \in Rows \ {row} : D[r] = 0
    OBVIOUS
  <2> HIDE DEF D
  <2> QED  BY <1>2, <2>1, TotalOfOne
<1>5. \A r \in Rows : D[r] \in Int
  BY <1>2
<1>6. DOMAIN stock \subseteq DOMAIN stock' /\ DOMAIN stock' \subseteq Rows
  BY <1>1 DEF MoneyInv
<1>7. \A r \in DOMAIN stock' :
         /\ stock'[r].cost \in Nat
         /\ r[2] = t \/ (r \in DOMAIN stock /\ stock'[r] = stock[r])
  <2>1. \A r \in DOMAIN stock : stock[r].cost \in Nat
    BY DEF MoneyInv
  <2>2. stock'[row].cost \in Nat
    BY <1>1
  <2> QED  BY <1>1, <2>1, <2>2
<1> HIDE DEF D
<1>8. posts' = [posts EXCEPT ![t] = posts[t] + Total(D)]
  BY <1>4, Zenon
<1>9. \A r \in Rows : D[r] \in Int /\ Moved(t)'[r] = Moved(t)[r] + D[r]
  BY <1>3, <1>5
<1>10. UNCHANGED ledger /\ (\A l \in Born \X Variants : charged'[l] \in Nat)
  OBVIOUS
<1> QED  BY ONLY BooksInv, StockInv, MoneyInv, StockInv', t \in Txns, Alone(t),
                 pc'[t] \in Steps, FreshInv(t)', <1>6, <1>7, <1>8, <1>9, <1>10, MovesBy

-----------------------------------------------------------------------------
(* The statements, and what they move.                                     *)

\* Before it draws, a transaction has no row of its own.
LEMMA EarlyMoves ==
    ASSUME BooksInv, StockInv, MoneyInv, StockInv', NEW t \in Txns, Alone(t),
           pc[t] \in {"session", "pool", "layers", "count", "number"}, pc'[t] \in Steps,
           pc[t] = "number" => pc'[t] = "commit",
           UNCHANGED <<stock, drawn, posts, charged, ledger>>
    PROVE  MoneyInv'
<1>1. FreshInv(t)'
  BY DEF MoneyInv, FreshInv
<1> QED  BY <1>1, StillMoves

LEMMA TakeSessionMoves ==
    ASSUME BooksInv, StockInv, MoneyInv, StockInv', NEW t \in Txns, TakeSession(t)
    PROVE  MoneyInv'
<1>1. pc[t] = "session" /\ pc[t] \in Steps
  BY DEF TakeSession, Steps
<1>2. CASE Wait(t, SessionRows)
  BY <1>1, <1>2, WaitMoves
<1>3. CASE Refuse(t)
  BY <1>1, <1>3, GiveUpMoves, GivenUp DEF Refuse
<1>4. CASE Lock(t, SessionRows) /\ ~Wait(t, SessionRows) /\ ~Refuse(t)
  <2>1. /\ UNCHANGED <<stock, drawn, posts, charged, ledger, kind, doc, line>>
        /\ Goto(t, AfterSession(t))
    BY <1>4 DEF TakeSession, rowVars, docVars
  <2>2. /\ pc' = [pc EXCEPT ![t] = pc'[t]] /\ pc'[t] = AfterSession(t)
        /\ held' = [held EXCEPT ![t] = held'[t]]
        /\ want' = [want EXCEPT ![t] = {}] /\ want'[t] = {}
    BY <1>4, <2>1, LockAdds DEF Goto, BooksInv, ShapeInv
  <2>3. Alone(t) /\ pc'[t] \in Steps
    BY <1>1, <2>1, <2>2 DEF Alone, StockInv, AfterSession, Steps
  <2> QED  BY <1>1, <2>1, <2>3, EarlyMoves
<1> QED  BY <1>1, <1>2, <1>3, <1>4 DEF TakeSession

LEMMA LockStockMoves ==
    ASSUME BooksInv, StockInv, MoneyInv, StockInv', NEW t \in Txns,
           LockPool(t) \/ LockLayers(t)
    PROVE  MoneyInv'
<1>1. pc[t] \in {"pool", "layers"} /\ pc[t] \in Steps
  BY DEF LockPool, LockLayers, Steps
<1>2. CASE \E rows : Wait(t, rows)
  BY <1>1, <1>2, WaitMoves
<1>3. CASE ~\E rows : Wait(t, rows)
  <2>1. /\ UNCHANGED <<stock, drawn, posts, charged, ledger, docVars>>
        /\ \/ UNCHANGED line /\ Goto(t, "layers")
           \/ NextLine(t, "pool", "consume")
    BY <1>3 DEF LockPool, LockLayers, rowVars
  <2>2. PICK rows : Lock(t, rows)
    BY <1>3 DEF LockPool, LockLayers
  <2>3. kind[t] \in StockKinds
    BY <1>1 DEF BooksInv, TxnInv, StepsOf, Steps, ShapeInv, Kinds, StockKinds
  <2>4. /\ line' = [line EXCEPT ![t] = line'[t]] /\ pc' = [pc EXCEPT ![t] = pc'[t]]
        /\ pc'[t] \in {"layers", "pool", "consume"}
    <3>1. CASE UNCHANGED line /\ Goto(t, "layers")
      BY <2>1, <3>1 DEF StockInv, LineInv, docVars, Goto, BooksInv, ShapeInv
    <3>2. CASE NextLine(t, "pool", "consume")
      BY <2>1, <2>3, <3>2, NextLineMoves DEF BooksInv
    <3> QED  BY <2>1, <3>1, <3>2
  <2>5. /\ held' = [held EXCEPT ![t] = held'[t]]
        /\ want' = [want EXCEPT ![t] = {}] /\ want'[t] = {}
    BY <2>2, LockAdds DEF BooksInv, ShapeInv
  <2>6. Alone(t) /\ pc'[t] \in Steps
    BY <1>1, <2>1, <2>4, <2>5 DEF Alone, StockInv, docVars, Steps
  <2> QED  BY <1>1, <2>1, <2>6, EarlyMoves
<1> QED  BY <1>2, <1>3

LEMMA CountAndNumberMove ==
    ASSUME BooksInv, StockInv, MoneyInv, StockInv', NEW t \in Txns, Count(t) \/ Number(t)
    PROVE  MoneyInv'
<1>1. pc[t] \in {"count", "number"} /\ pc[t] \in Steps
  BY DEF Count, Number, Steps
<1>2. CASE Wait(t, {Series})
  BY <1>1, <1>2, WaitMoves
<1>3. CASE Refuse(t)
  BY <1>1, <1>3, GiveUpMoves, GivenUp DEF Refuse
<1>4. CASE ~Wait(t, {Series}) /\ ~Refuse(t)
  <2>1. /\ UNCHANGED <<stock, drawn, posts, charged, ledger, kind, doc, line>>
        /\ Goto(t, "commit")
        /\ UNCHANGED <<held, want>> \/ Lock(t, {Series})
    BY <1>4 DEF Count, Number, rowVars, docVars
  <2>2. /\ held' = [held EXCEPT ![t] = held'[t]]
        /\ want' = [want EXCEPT ![t] = want'[t]]
    BY <2>1, LockAdds DEF BooksInv, ShapeInv
  <2>3. pc' = [pc EXCEPT ![t] = pc'[t]] /\ pc'[t] = "commit" /\ pc'[t] \in Steps
    BY <2>1 DEF Goto, BooksInv, ShapeInv, Steps
  <2>4. Alone(t)
    BY <1>1, <2>1, <2>2, <2>3 DEF Alone, StockInv
  <2> QED  BY <1>1, <2>1, <2>3, <2>4, EarlyMoves
<1> QED  BY <1>2, <1>3, <1>4

\* A line names an item and a count.
LEMMA LineIsOf ==
    ASSUME BooksInv, StockInv, NEW t \in Txns, kind[t] \in StockKinds
    PROVE  Line(t).v \in Variants /\ Line(t).n \in Nat \ {0}
<1>1. line[t] \in DOMAIN doc[t] /\ doc[t] \in Seq(Lines)
  BY FirstLine DEF BooksInv, ShapeInv
<1>2. doc[t][line[t]] \in Lines
  BY <1>1, LenProperties, ElementOfSeq
<1> QED  BY <1>2 DEF Line, Lines

\* The delivered units come in at what they cost.
LEMMA ReceiveMoves ==
    ASSUME BooksInv, StockInv, MoneyInv, StockInv', NEW t \in Txns, Receive(t)
    PROVE  MoneyInv'
<1> DEFINE row == Layer(t, Line(t).v)
<1>1. pc[t] = "receive" /\ pc[t] \in Steps
  BY DEF Receive, Steps
<1>2. CASE Wait(t, {Pool(Line(t).v)})
  BY <1>1, <1>2, WaitMoves
<1>3. CASE ~Wait(t, {Pool(Line(t).v)})
  <2>1. /\ Lock(t, {Pool(Line(t).v)}) /\ Insert(row, Line(t).n, NewCost)
        /\ posts' = [posts EXCEPT ![t] = posts[t] + Line(t).n * NewCost]
        /\ pc' = [pc EXCEPT ![t] = "settle"]
        /\ UNCHANGED <<kind, doc, line, drawn, charged, ledger>>
    BY <1>3 DEF Receive, Goto, docVars
  <2>2. kind[t] \in StockKinds
    BY <1>1 DEF BooksInv, TxnInv, StepsOf, Steps, ShapeInv, Kinds, StockKinds
  <2>3. /\ held' = [held EXCEPT ![t] = held'[t]]
        /\ want' = [want EXCEPT ![t] = {}] /\ want'[t] = {} /\ pc'[t] = "settle"
    BY <2>1, LockAdds DEF BooksInv, ShapeInv
  <2>4. Alone(t) /\ pc'[t] \in Steps
    BY <1>1, <2>1, <2>3 DEF Alone, StockInv, Steps
  <2>5. Line(t).n \in Nat /\ Line(t).v \in Variants
    BY <2>2, LineIsOf
  <2>6. row[1] = "layer" /\ row[2] = t /\ row[3] = Line(t).v
    BY DEF Layer
  <2>7. row \in Rows
    BY <2>5, BooksAssumption DEF Layer, Rows, Txns, Born
  <2>8. row \notin DOMAIN stock
    <3> SUFFICES ASSUME row \in DOMAIN stock PROVE FALSE
      OBVIOUS
    <3>1. PICK i \in DOMAIN doc[t] : i < line[t] /\ doc[t][i].v = Line(t).v
      BY <1>1, <2>6 DEF MoneyInv, FreshInv
    <3>2. i = line[t] /\ line[t] \in Nat
      BY <2>2, <3>1, OneLineEach, FirstLine DEF BooksInv
    <3> QED  BY <3>1, <3>2
  <2>9. FreshInv(t)'
    <3> SUFFICES ASSUME NEW r \in DOMAIN stock', r[2] = t
                 PROVE  \E i \in DOMAIN doc[t] : i <= line[t] /\ doc[t][i].v = r[3]
      BY <2>1, <2>3 DEF FreshInv
    <3>1. line[t] \in DOMAIN doc[t] /\ line[t] \in Nat /\ DOMAIN doc[t] = 1..Len(doc[t])
      BY <2>2, FirstLine DEF BooksInv
    <3>2. CASE r \in DOMAIN stock
      <4>1. PICK i \in DOMAIN doc[t] : i < line[t] /\ doc[t][i].v = r[3]
        BY <1>1, <3>2 DEF MoneyInv, FreshInv
      <4> QED  BY <3>1, <4>1
    <3>3. CASE r \notin DOMAIN stock
      <4>1. r = row
        BY <2>1, <3>3 DEF Insert, With
      <4> QED  BY <2>6, <3>1, <4>1 DEF Line
    <3> QED  BY <3>2, <3>3
  <2>10. \A l \in Born \X Variants : charged'[l] \in Nat
    BY <2>1 DEF MoneyInv
  <2> DEFINE w == Line(t).n * NewCost
  <2>11. w = (IF row[1] = "layer" THEN Line(t).n * NewCost ELSE 0 - (Line(t).n * NewCost))
    BY <2>6
  <2>12. posts' = [posts EXCEPT ![t] = posts[t] + w]
    BY <2>1
  <2> HIDE DEF row, w
  <2>13. /\ row \in Rows \ DOMAIN stock /\ Line(t).n \in Nat /\ NewCost \in Nat
         /\ Insert(row, Line(t).n, NewCost) /\ UNCHANGED <<ledger, drawn>>
    BY <2>1, <2>5, <2>7, <2>8, BooksAssumption
  <2> QED  BY ONLY BooksInv, StockInv, MoneyInv, StockInv', t \in Txns, <2>4, <2>6, <2>9,
                   <2>10, <2>11, <2>12, <2>13, InsertMoves
<1> QED  BY <1>2, <1>3

\* What a sale, or the sale before the instance, sold is a count.
LEMMA SoldNat ==
    ASSUME BooksInv, NEW u \in Born, NEW v \in Variants
    PROVE  Sold(u, v) \in Nat
<1>1. CASE u = 0
  BY <1>1 DEF Sold
<1>2. CASE u # 0
  <2>1. u \in Txns
    BY <1>2, BooksAssumption DEF Born, Txns
  <2> QED  BY <2>1, SoldIsNat DEF BooksInv
<1> QED  BY <1>1, <1>2

LEMMA ShareIsNat == \A a, b \in Nat : b > 0 => a \div b \in Nat
  OBVIOUS

\* A unit that comes back does so at its share of what the line was charged.
LEMMA RestoreMoves ==
    ASSUME BooksInv, StockInv, MoneyInv, StockInv', NEW t \in Txns, Restore(t)
    PROVE  MoneyInv'
<1> DEFINE row == Layer(t, Item(t))
           unit == charged[<<of[t], Item(t)>>] \div Sold(of[t], Item(t))
<1>1. pc[t] = "restore" /\ pc[t] \in Steps
  BY DEF Restore, Steps
<1>2. CASE ~Returnable(t)
  BY <1>1, <1>2, GiveUpMoves, GivenUp DEF Restore, Refuse
<1>3. CASE Returnable(t)
  <2>1. /\ Insert(row, 1, unit) /\ pc' = [pc EXCEPT ![t] = "number"]
        /\ posts' = [posts EXCEPT ![t] = posts[t] + unit]
        /\ UNCHANGED <<kind, doc, line, held, want, drawn, charged, ledger>>
    BY <1>3 DEF Restore, Goto, docVars
  <2>2. Alone(t) /\ pc'[t] = "number" /\ pc'[t] \in Steps
    BY <1>1, <2>1 DEF Alone, BooksInv, ShapeInv, StockInv, Steps
  <2>3. kind[t] = "return"
    BY <1>1 DEF BooksInv, TxnInv, StepsOf, Steps, ShapeInv, Kinds
  <2>4. Item(t) \in Variants /\ of[t] \in Born
    BY <2>3, ItemIsVariant DEF BooksInv, ShapeInv
  <2>5. unit \in Nat
    <3>1. Sold(of[t], Item(t)) \in Nat
      BY <2>4, SoldNat
    <3>2. Back(of[t], Item(t)) \in Nat
      <4>1. Returns(of[t], Item(t)) \cap Committed \subseteq 1..MaxTxns
        BY DEF Returns, Txns
      <4> DEFINE C == Returns(of[t], Item(t)) \cap Committed
      <4>2. C \in SUBSET (1..MaxTxns) /\ IsFiniteSet(1..MaxTxns)
        BY <4>1, FS_Interval, BooksAssumption
      <4> HIDE DEF C
      <4>3. Cardinality(C) \in Nat
        BY <4>2, FS_Subset, FS_CardinalityType
      <4> QED  BY <4>3 DEF Back, C
    <3>3. Sold(of[t], Item(t)) > 0
      BY <1>3, <3>1, <3>2 DEF Returnable
    <3>4. charged[<<of[t], Item(t)>>] \in Nat
      BY <2>4 DEF MoneyInv
    <3> DEFINE a == charged[<<of[t], Item(t)>>]
               b == Sold(of[t], Item(t))
    <3>5. a \in Nat /\ b \in Nat /\ b > 0
      BY <3>1, <3>3, <3>4
    <3>6. unit = a \div b
      OBVIOUS
    <3> HIDE DEF a, b, unit
    <3> QED  BY ONLY <3>5, <3>6, ShareIsNat
  <2>6. row[1] = "layer" /\ row[2] = t
    BY DEF Layer
  <2>7. row \in Rows
    BY <2>4, BooksAssumption DEF Layer, Rows, Txns, Born
  <2>8. row \notin DOMAIN stock
    BY <1>1, <2>6 DEF MoneyInv, FreshInv
  <2>9. FreshInv(t)'
    BY <2>2 DEF FreshInv
  <2>10. \A l \in Born \X Variants : charged'[l] \in Nat
    BY <2>1 DEF MoneyInv
  <2>11. unit = (IF row[1] = "layer" THEN 1 * unit ELSE 0 - (1 * unit))
    <3> HIDE DEF row, unit
    <3> QED  BY <2>5, <2>6
  <2>12. row \in Rows \ DOMAIN stock /\ 1 \in Nat /\ UNCHANGED <<ledger, drawn>>
    BY <2>1, <2>7, <2>8
  <2> HIDE DEF row, unit
  <2> QED  BY ONLY BooksInv, StockInv, MoneyInv, StockInv', t \in Txns, <2>1, <2>2, <2>5,
                   <2>6, <2>9, <2>10, <2>11, <2>12, InsertMoves
<1> QED  BY <1>2, <1>3

\* What t is about to draw, of rows that are there, changes what it moves.
LEMMA DrawMoves ==
    ASSUME StockInv, MoneyInv, NEW t \in Txns, NEW draw, drawn' = DrawnToo(t, draw),
           DOMAIN draw \subseteq DOMAIN stock, \A r \in DOMAIN draw : draw[r] \in Nat,
           \A r \in DOMAIN stock : r \in DOMAIN stock' /\ stock'[r] = stock[r]
    PROVE  \A r \in Rows : r \in DOMAIN stock =>
              /\ Moved(t)[r] \in Int
              /\ Moved(t)'[r] = IF r \in DOMAIN draw THEN Moved(t)[r] - Weigh(r, draw[r])
                                                     ELSE Moved(t)[r]
<1> SUFFICES ASSUME NEW r \in Rows, r \in DOMAIN stock
      PROVE  /\ Moved(t)[r] \in Int
             /\ Moved(t)'[r] = IF r \in DOMAIN draw THEN Moved(t)[r] - Weigh(r, draw[r])
                                                    ELSE Moved(t)[r]
  OBVIOUS
<1>1. /\ Drawn(t, r) \in Nat /\ stock[r].qty \in Nat /\ stock[r].cost \in Nat
      /\ Moved(t)[r] \in Int
  BY MovedIsInt
<1>2. Drawn(t, r)' = Drawn(t, r) + (IF r \in DOMAIN draw THEN draw[r] ELSE 0)
  <2> DEFINE more == [x \in DOMAIN drawn[t] \cup DOMAIN draw |->
                         Drawn(t, x) + (IF x \in DOMAIN draw THEN draw[x] ELSE 0)]
  <2>1. drawn'[t] = more
    BY DEF DrawnToo, StockInv
  <2>2. CASE r \in DOMAIN drawn[t] \cup DOMAIN draw
    <3>1. Drawn(t, r)' = more[r]
      BY <2>1, <2>2 DEF Drawn
    <3> QED  BY <2>2, <3>1
  <2>3. CASE r \notin DOMAIN drawn[t] \cup DOMAIN draw
    <3>1. r \notin DOMAIN drawn'[t]
      BY <2>1, <2>3
    <3>2. Drawn(t, r)' = 0 /\ Drawn(t, r) = 0
      BY <2>3, <3>1 DEF Drawn
    <3> QED  BY <2>3, <3>2
  <2> QED  BY <2>2, <2>3
<1>3. \A n : Weigh(r, n)' = Weigh(r, n)
  BY DEF Weigh
<1>4. /\ \A n \in Int : Weigh(r, n) \in Int
      /\ \A m, n \in Int : Weigh(r, m + n) = Weigh(r, m) + Weigh(r, n)
  BY <1>1, WeighAdds
<1>5. Moved(t)'[r] = (IF r[2] = t THEN Weigh(r, stock[r].qty) ELSE 0) - Weigh(r, Drawn(t, r)')
  BY <1>3 DEF Moved, Weigh
<1>6. Moved(t)[r] = (IF r[2] = t THEN Weigh(r, stock[r].qty) ELSE 0) - Weigh(r, Drawn(t, r))
  BY DEF Moved
<1>7. CASE r \in DOMAIN draw
  <2>1. draw[r] \in Nat /\ draw[r] * stock[r].cost \in Int
    BY <1>1, <1>7
  <2>2. Weigh(r, Drawn(t, r)') = Weigh(r, Drawn(t, r)) + Weigh(r, draw[r])
    BY <1>1, <1>2, <1>4, <1>7, <2>1
  <2>3. /\ Weigh(r, Drawn(t, r)) \in Int /\ Weigh(r, draw[r]) \in Int
        /\ Weigh(r, stock[r].qty) \in Int
    BY <1>1, <1>4, <2>1
  <2> QED  BY <1>1, <1>5, <1>6, <1>7, <2>1, <2>2, <2>3
<1>8. CASE r \notin DOMAIN draw
  <2>1. Drawn(t, r)' = Drawn(t, r)
    BY <1>1, <1>2, <1>8
  <2> QED  BY <1>1, <1>5, <1>6, <1>8, <2>1
<1> QED  BY <1>7, <1>8

LEMMA MaxWithZero ==
    ASSUME NEW n \in Int
    PROVE  Max({0, n}) = IF n > 0 THEN n ELSE 0
  BY DEF Max

\* Units left to draw add up to a count.
LEMMA UnitsIsNat ==
    ASSUME NEW t, NEW S, S \subseteq Rows, \A r \in S : Left(t, r) \in Nat
    PROVE  Units(t, S) \in Nat
<1> DEFINE f == [r \in S |-> Left(t, r)]
<1>1. IsFiniteSet(S)
  BY RowsFinite, FS_Subset
<1>2. (\A r \in S : f[r] \in Nat) /\ DOMAIN f = S /\ Units(t, S) = SumFunctionOnSet(f, DOMAIN f)
  BY DEF Units, SumFunction
<1> HIDE DEF f
<1> QED  BY <1>1, <1>2, SumOfNaturals

\* Among numbers that are bounded one is the greatest.
LEMMA GreatestNumber ==
    ASSUME NEW n \in Nat, NEW T, T \subseteq 0..n, T # {}
    PROVE  \E x \in T : \A y \in T : y <= x
<1> DEFINE G == {S \in SUBSET (0..n) : S = {} \/ \E x \in S : \A y \in S : y <= x}
<1>1. {} \in G
  OBVIOUS
<1>2. ASSUME NEW S \in SUBSET T, S \in G, NEW z \in T \ S
      PROVE  S \cup {z} \in G
  <2>1. CASE S = {}
    BY <2>1
  <2>2. CASE S # {}
    <3>1. PICK x \in S : \A y \in S : y <= x
      BY <1>2, <2>2
    <3>2. x \in Int /\ z \in Int
      OBVIOUS
    <3>3. CASE z <= x
      BY <3>1, <3>3
    <3>4. CASE ~(z <= x)
      <4>1. \A y \in S \cup {z} : y <= z
        BY <3>1, <3>2, <3>4
      <4> QED  BY <4>1
    <3> QED  BY <3>3, <3>4
  <2> QED  BY <2>1, <2>2
<1>3. IsFiniteSet(T)
  <2>1. IsFiniteSet(0..n) /\ T \in SUBSET (0..n)
    BY FS_Interval
  <2> QED  BY ONLY <2>1, FS_Subset
<1> HIDE DEF G
<1>4. T \in G
  BY <1>1, <1>2, <1>3, OneMoreElement
<1> QED  BY <1>4 DEF G

\* Units go out at what they cost, those no layer covered at a guess.
LEMMA ConsumeMoves ==
    ASSUME BooksInv, StockInv, MoneyInv, StockInv', NEW t \in Txns, Consume(t)
    PROVE  MoneyInv'
<1> DEFINE v == Line(t).v
           rows == OpenRows(t, "layer", v)
           got == Got(t, rows)
           draw == Draw(t, got, Line(t).n)
           short == Line(t).n - Units(t, got)
           guess == IF got = {} THEN 0
                    ELSE stock[CHOOSE r \in got : \A x \in got : x[2] <= r[2]].cost
           total == Worth(draw) + Max({0, short}) * guess
           row == Hole(t, v)
<1>1. pc[t] = "consume" /\ pc[t] \in Steps
  BY DEF Consume, Steps
<1>2. kind[t] \in StockKinds
  BY <1>1 DEF BooksInv, TxnInv, StepsOf, Steps, ShapeInv, Kinds, StockKinds
<1>3. \A r \in rows : Drawable(t, r) /\ r[3] = v /\ r[1] = "layer"
  BY DEF OpenRows, Drawable
<1>4. CASE Wait(t, rows)
  BY <1>1, <1>4, WaitMoves
<1>5. CASE ~Wait(t, rows)
  <2>1. /\ Lock(t, rows) /\ drawn' = DrawnToo(t, draw)
        /\ posts' = [posts EXCEPT ![t] = posts[t] - total]
        /\ charged' = [charged EXCEPT ![<<t, v>>] = total]
        /\ IF short \in 1..Line(t).n THEN Insert(row, short, guess) ELSE UNCHANGED stock
        /\ NextLine(t, "consume", "commit") /\ UNCHANGED docVars /\ UNCHANGED ledger
    BY <1>5 DEF Consume
  <2>2. \A r \in got : /\ Drawable(t, r) /\ r[3] = v /\ Left(t, r) \in Nat
                       /\ r \in Asked(t, rows) /\ r[1] = "layer"
    BY <1>1, <1>3, AskedDrawable
  <2>3. DOMAIN draw = got /\ \A r \in got : draw[r] \in 0..Left(t, r)
    BY <2>2, DrawWithin DEF Draw
  <2>4. \A r \in got : r \in DOMAIN stock /\ stock[r].cost \in Nat /\ draw[r] \in Nat
    <3>1. \A r \in got : r \in DOMAIN stock /\ draw[r] \in Nat
      BY <2>2, <2>3 DEF Drawable
    <3> HIDE DEF got, draw
    <3> QED  BY <3>1 DEF MoneyInv
  <2>5. Line(t).n \in Nat \ {0} /\ v \in Variants
    BY <1>2, LineIsOf
  <2>6. short \in Int /\ short <= Line(t).n
    <3>1. Units(t, got) \in Nat
      <4>1. got \subseteq Rows /\ \A r \in got : Left(t, r) \in Nat
        BY <2>2, <2>4 DEF MoneyInv
      <4> HIDE DEF got
      <4> QED  BY <4>1, UnitsIsNat
    <3> HIDE DEF got
    <3> QED  BY <2>5, <3>1
  <2>7. guess \in Nat
    <3>1. CASE got = {}
      BY <3>1
    <3>2. CASE got # {}
      <4>1. \E z \in got : \A x \in got : x[2] <= z[2]
        <5> DEFINE T == {y[2] : y \in got}
        <5>1. T \subseteq 0..MaxTxns /\ T # {}
          <6>1. \A r \in got : r \in Rows
            BY <2>4 DEF MoneyInv
          <6> HIDE DEF got
          <6> QED  BY <3>2, <6>1 DEF Rows, Born
        <5>2. PICK n \in T : \A m \in T : m <= n
          <6> HIDE DEF T
          <6> QED  BY <5>1, GreatestNumber, BooksAssumption
        <5> QED  BY <5>2
      <4>2. (CHOOSE r \in got : \A x \in got : x[2] <= r[2]) \in got
        BY <4>1
      <4> HIDE DEF got
      <4> QED  BY <2>4, <3>2, <4>2
    <3> QED  BY <3>1, <3>2
  <2>8. Worth(draw) \in Nat
    <3>1. /\ DOMAIN draw \subseteq DOMAIN stock /\ DOMAIN stock \subseteq Rows
          /\ \A r \in DOMAIN draw : draw[r] \in Nat /\ stock[r].cost \in Nat
      BY <2>3, <2>4 DEF MoneyInv
    <3> HIDE DEF draw
    <3> QED  BY <3>1, WorthIsNat
  <2>9. PICK m \in Nat : /\ m = Max({0, short})
                         /\ m = IF short \in 1..Line(t).n THEN short ELSE 0
    <3> HIDE DEF short
    <3> QED  BY <2>5, <2>6, MaxWithZero
  <2>10. m * guess \in Nat /\ total = Worth(draw) + m * guess
    <3> HIDE DEF guess, short, draw
    <3> QED  BY <2>7, <2>9
  <2>11. row \in Rows \ DOMAIN stock /\ row[1] = "hole" /\ row[2] = t /\ row[3] = v
    <3>1. row[1] = "hole" /\ row[2] = t /\ row[3] = v
      BY DEF Hole
    <3>2. row \in Rows
      BY <2>5, BooksAssumption DEF Hole, Rows, Txns, Born
    <3>3. ASSUME row \in DOMAIN stock PROVE FALSE
      <4>1. PICK i \in DOMAIN doc[t] : i < line[t] /\ doc[t][i].v = Line(t).v
        BY <1>1, <3>1, <3>3 DEF MoneyInv, FreshInv
      <4>2. i = line[t] /\ line[t] \in Nat
        BY <1>2, <4>1, OneLineEach, FirstLine DEF BooksInv
      <4> QED  BY <4>1, <4>2
    <3> QED  BY <3>1, <3>2, <3>3
  <2> DEFINE w == m * guess
             D1 == [r \in Rows |-> IF r \in got THEN 0 - (draw[r] * stock[r].cost) ELSE 0]
             D2 == [r \in Rows |-> IF r = row THEN 0 - w ELSE 0]
             D  == [r \in Rows |-> D1[r] + D2[r]]
  <2>12. posts' = [posts EXCEPT ![t] = posts[t] - (Worth(draw) + w)]
    BY <2>1, <2>10, Zenon
  <2>13. \/ DOMAIN stock' = DOMAIN stock /\ w = 0
         \/ DOMAIN stock' = DOMAIN stock \cup {row} /\ stock'[row] = [qty |-> m, cost |-> guess]
    <3>1. CASE short \in 1..Line(t).n
      BY <2>1, <2>9, <3>1 DEF Insert, With
    <3>2. CASE short \notin 1..Line(t).n
      <4>1. m = 0 /\ stock' = stock
        BY <2>1, <2>9, <3>2
      <4> HIDE DEF guess
      <4> QED  BY <2>7, <4>1
    <3> QED  BY <3>1, <3>2
  <2>14. \A r \in DOMAIN stock : r \in DOMAIN stock' /\ stock'[r] = stock[r]
    BY <2>1, <2>11 DEF Insert, With
  <2>15. charged' = [charged EXCEPT ![<<t, v>>] = Worth(draw) + w] /\ w \in Nat
    <3>1. w \in Nat
      BY <2>10
    <3>2. charged' = [charged EXCEPT ![<<t, v>>] = Worth(draw) + w]
      BY <2>1, <2>10, Zenon
    <3> QED  BY <3>1, <3>2
  <2>16. /\ pc' = [pc EXCEPT ![t] = pc'[t]] /\ line' = [line EXCEPT ![t] = line'[t]]
         /\ \/ pc'[t] = "consume" /\ line'[t] = line[t] + 1
            \/ pc'[t] = "commit" /\ line'[t] = 1
    <3> HIDE DEF v, rows, got, draw, short, row, guess, total
    <3> QED  BY <1>2, <2>1, NextLineMoves DEF BooksInv
  <2>17. DOMAIN draw \subseteq DOMAIN stock /\ DOMAIN draw = got
    BY <2>3, <2>4
  <2> HIDE DEF v, rows, got, draw, short, guess, total, row, w
  <2>18. drawn' = DrawnToo(t, draw) /\ UNCHANGED ledger
    BY <2>1
  <2>19. Alone(t) /\ pc'[t] \in Steps
    <3>1. /\ held' = [held EXCEPT ![t] = held'[t]]
          /\ want' = [want EXCEPT ![t] = {}] /\ want'[t] = {}
      BY <2>1, LockAdds DEF BooksInv, ShapeInv
    <3>2. drawn' = [drawn EXCEPT ![t] = drawn'[t]]
      BY <2>18 DEF DrawnToo, StockInv
    <3> QED  BY <1>1, <2>1, <2>16, <3>1, <3>2 DEF Alone, docVars, Steps
  <2>20. \A l \in Born \X Variants : charged'[l] \in Nat
    <3>1. Worth(draw) + w \in Nat
      BY <2>8, <2>15
    <3> QED  BY <2>15, <3>1 DEF MoneyInv
  <2>21. /\ DOMAIN stock' \subseteq Rows
         /\ \A r \in DOMAIN stock' :
               /\ stock'[r].cost \in Nat
               /\ r[2] = t \/ (r \in DOMAIN stock /\ stock'[r] = stock[r])
    <3>1. DOMAIN stock \subseteq Rows /\ \A r \in DOMAIN stock : stock[r].cost \in Nat
      BY DEF MoneyInv
    <3>2. DOMAIN stock' = DOMAIN stock \cup {row} => stock'[row].cost \in Nat
                                                     \/ row \in DOMAIN stock
                                                     \/ DOMAIN stock' = DOMAIN stock
      BY <2>7, <2>13
    <3> QED  BY <2>7, <2>11, <2>13, <2>14, <3>1
  <2>22. FreshInv(t)'
    <3> SUFFICES ASSUME NEW r \in DOMAIN stock', r[2] = t, pc'[t] = "consume"
                 PROVE  \E i \in DOMAIN doc[t] : i < line'[t] /\ doc[t][i].v = r[3]
      BY <2>1, <2>16 DEF FreshInv, docVars
    <3>1. line[t] \in DOMAIN doc[t] /\ line[t] \in Nat /\ DOMAIN doc[t] = 1..Len(doc[t])
      BY <1>2, FirstLine DEF BooksInv
    <3>2. line'[t] = line[t] + 1
      BY <2>16
    <3>3. CASE r \in DOMAIN stock
      <4>1. PICK i \in DOMAIN doc[t] : i < line[t] /\ doc[t][i].v = r[3]
        BY <1>1, <3>3 DEF MoneyInv, FreshInv
      <4> QED  BY <3>1, <3>2, <4>1
    <3>4. CASE r \notin DOMAIN stock
      <4>1. r[3] = Line(t).v
        BY <2>11, <2>13, <3>4 DEF v
      <4> QED  BY <3>1, <3>2, <4>1 DEF Line
    <3> QED  BY <3>3, <3>4
  <2>23. ASSUME NEW r \in Rows
         PROVE  /\ D1[r] \in Int /\ D2[r] \in Int
                /\ Moved(t)'[r] = Moved(t)[r] + (D1[r] + D2[r]) /\ Moved(t)[r] \in Int
    <3>1. Moved(t)[r] \in Int
      BY MovedIsInt
    <3>2. CASE r \in DOMAIN stock
      <4>1. Moved(t)'[r] = Moved(t)[r] - (IF r \in DOMAIN draw THEN Weigh(r, draw[r]) ELSE 0)
        BY <2>4, <2>14, <2>17, <2>18, <3>2, DrawMoves
      <4>2. D2[r] = 0
        BY <2>11, <3>2
      <4>3. CASE r \in got
        <5>1. Weigh(r, draw[r]) = draw[r] * stock[r].cost
          BY <2>2, <4>3 DEF Weigh
        <5>2. draw[r] * stock[r].cost \in Int
          <6>1. draw[r] \in Int /\ stock[r].cost \in Int
            BY <2>4, <4>3
          <6> QED  BY <6>1
        <5>3. D1[r] = 0 - (draw[r] * stock[r].cost)
          BY <4>3
        <5> HIDE DEF D1, D2
        <5> QED  BY <2>17, <3>1, <4>1, <4>2, <4>3, <5>1, <5>2, <5>3
      <4>4. CASE r \notin got
        <5>1. D1[r] = 0
          BY <4>4
        <5> HIDE DEF D1, D2
        <5> QED  BY <2>17, <3>1, <4>1, <4>2, <4>4, <5>1
      <4> QED  BY <4>3, <4>4
    <3>3. CASE r \notin DOMAIN stock
      <4>1. Moved(t)[r] = 0
        BY <3>3 DEF Moved
      <4>2. D1[r] = 0
        BY <2>17, <3>3
      <4>3. CASE r # row
        <5>1. Moved(t)'[r] = 0
          BY <2>13, <3>3, <4>3 DEF Moved
        <5>2. D2[r] = 0
          BY <4>3
        <5> HIDE DEF D1, D2
        <5> QED  BY <4>1, <4>2, <5>1, <5>2
      <4>4. CASE r = row
        <5>1. D2[r] = 0 - w
          BY <4>4
        <5>2. Moved(t)'[r] = 0 - w
          <6>1. CASE r \notin DOMAIN stock'
            <7>1. w = 0
              BY <2>13, <4>4, <6>1
            <7> QED  BY <6>1, <7>1 DEF Moved
          <6>2. CASE r \in DOMAIN stock'
            <7>1. stock'[r].qty = m /\ stock'[r].cost = guess
              BY <2>11, <2>13, <4>4, <6>2
            <7>2. r \notin DOMAIN drawn[t] \cup DOMAIN draw
              BY <2>17, <3>3 DEF StockInv, DrawInv, Drawable
            <7>3. Drawn(t, r)' = 0
              BY <2>18, <7>2 DEF Drawn, DrawnToo, StockInv
            <7>4. Weigh(r, stock[r].qty)' = 0 - w
              BY <2>11, <4>4, <7>1 DEF Weigh, w
            <7>5. Weigh(r, Drawn(t, r))' = 0
              <8>1. Weigh(r, Drawn(t, r))' = 0 - (0 * guess)
                BY <2>11, <4>4, <7>1, <7>3 DEF Weigh
              <8> QED  BY <2>7, <8>1
            <7>6. Moved(t)'[r] = Weigh(r, stock[r].qty)' - Weigh(r, Drawn(t, r))'
              BY <2>11, <4>4, <6>2 DEF Moved
            <7> QED  BY <2>15, <7>4, <7>5, <7>6
          <6> QED  BY <6>1, <6>2
        <5> HIDE DEF D1, D2
        <5> QED  BY <2>15, <4>1, <4>2, <5>1, <5>2
      <4> QED  BY <4>3, <4>4
    <3> QED  BY <3>2, <3>3
  <2>24. Total(D1) = 0 - Worth(draw)
    <3>1. /\ DOMAIN draw \subseteq DOMAIN stock /\ DOMAIN stock \subseteq Rows
          /\ \A r \in DOMAIN draw : draw[r] \in Nat /\ stock[r].cost \in Nat
          /\ \A r \in Rows \ DOMAIN draw : D1[r] = 0
          /\ \A r \in DOMAIN draw : D1[r] = 0 - (draw[r] * stock[r].cost)
      BY <2>4, <2>17 DEF MoneyInv
    <3> HIDE DEF D1
    <3> QED  BY ONLY <3>1, TotalOfDraw
  <2>25. Total(D2) = 0 - w
    <3>1. D2[row] = 0 - w /\ row \in Rows /\ \A r \in Rows \ {row} : D2[r] = 0
      BY <2>11
    <3>2. D2[row] \in Int
      BY <2>15, <3>1
    <3> HIDE DEF D2
    <3> QED  BY <3>1, <3>2, TotalOfOne
  <2>26. /\ \A r \in Rows : D1[r] \in Int /\ D2[r] \in Int /\ D[r] = D1[r] + D2[r]
         /\ \A r \in Rows : D[r] \in Int /\ Moved(t)'[r] = Moved(t)[r] + D[r]
    <3>1. \A r \in Rows : D[r] = D1[r] + D2[r]
      OBVIOUS
    <3> HIDE DEF D, D1, D2
    <3> QED  BY <2>23, <3>1
  <2> HIDE DEF D, D1, D2
  <2>27. Total(D) = Total(D1) + Total(D2)
    BY ONLY <2>26, TotalOfSum
  <2>28. posts' = [posts EXCEPT ![t] = posts[t] + Total(D)]
    <3>1. posts[t] - (Worth(draw) + w) = posts[t] + Total(D)
      <4>1. posts[t] \in Int
        BY DEF MoneyInv
      <4> QED  BY <2>8, <2>15, <2>24, <2>25, <2>27, <4>1
    <3> QED  BY <2>12, <3>1, Zenon
  <2>29. DOMAIN stock \subseteq DOMAIN stock'
    BY <2>14
  <2> QED  BY ONLY BooksInv, StockInv, MoneyInv, StockInv', t \in Txns, <2>18, <2>19, <2>20,
                   <2>21, <2>22, <2>26, <2>28, <2>29, MovesBy
<1> QED  BY <1>4, <1>5

\* Holes are settled at what they were charged, out of layers at what those
\* cost: the difference is posted.
LEMMA SettleMoves ==
    ASSUME BooksInv, StockInv, MoneyInv, StockInv', NEW t \in Txns, Settle(t)
    PROVE  MoneyInv'
<1> DEFINE v == Line(t).v
           holes == OpenRows(t, "hole", v)
           rows == IF holes = {} THEN {} ELSE holes \cup OpenRows(t, "layer", v)
           got == Got(t, rows)
           owed == {r \in got : r[1] = "hole"}
           shelf == got \ owed
           n == Min({Units(t, owed), Units(t, shelf)})
           settled == Draw(t, owed, n)
           actual == Draw(t, shelf, n)
           draw == [r \in got |-> IF r \in owed THEN settled[r] ELSE actual[r]]
<1>1. pc[t] = "settle" /\ pc[t] \in Steps
  BY DEF Settle, Steps
<1>2. kind[t] \in StockKinds
  BY <1>1 DEF BooksInv, TxnInv, StepsOf, Steps, ShapeInv, Kinds, StockKinds
<1>3. \A r \in rows : Drawable(t, r) /\ r[3] = v
  BY DEF OpenRows, Drawable
<1>4. CASE Wait(t, rows)
  BY <1>1, <1>4, WaitMoves
<1>5. CASE ~Wait(t, rows)
  <2>1. /\ Lock(t, rows) /\ drawn' = DrawnToo(t, draw)
        /\ posts' = [posts EXCEPT ![t] = posts[t] + Worth(settled) - Worth(actual)]
        /\ NextLine(t, "receive", "commit")
        /\ UNCHANGED <<stock, kind, doc, of, charged, ledger>>
    BY <1>5 DEF Settle, rowVars, docVars
  <2>2. \A r \in got : Drawable(t, r) /\ Left(t, r) \in Nat
    BY <1>1, <1>3, AskedDrawable
  <2>3. /\ DOMAIN settled = owed /\ \A r \in owed : settled[r] \in Nat
        /\ DOMAIN actual = shelf /\ \A r \in shelf : actual[r] \in Nat
    <3>1. DOMAIN settled = owed /\ DOMAIN actual = shelf
      BY DEF Draw
    <3>2. \A r \in owed : settled[r] \in 0..Left(t, r)
      BY <2>2, DrawWithin
    <3>3. \A r \in shelf : actual[r] \in 0..Left(t, r)
      BY <2>2, DrawWithin
    <3>4. owed \subseteq got /\ shelf \subseteq got
      OBVIOUS
    <3> HIDE DEF owed, shelf, settled, actual, got
    <3> QED  BY <2>2, <3>1, <3>2, <3>3, <3>4
  <2>4. got = owed \cup shelf /\ owed \cap shelf = {}
    OBVIOUS
  <2>5. /\ \A r \in owed : r[1] = "hole"
        /\ \A r \in shelf : r[1] = "layer"
    BY <2>2 DEF Drawable
  <2>6. /\ \A r \in owed : draw[r] = settled[r]
        /\ \A r \in shelf : draw[r] = actual[r]
        /\ DOMAIN draw = got
    BY <2>4
  <2> HIDE DEF v, holes, rows, got, owed, shelf, n, settled, actual, draw
  <2>7. /\ \A r \in got : r \in DOMAIN stock
        /\ \A r \in DOMAIN stock : stock[r].cost \in Nat
        /\ DOMAIN stock \subseteq Rows
    BY <2>2 DEF Drawable, MoneyInv
  <2>8. \A r \in got : draw[r] \in Nat
    BY <2>3, <2>4, <2>6
  <2> DEFINE D1 == [r \in Rows |-> IF r \in shelf THEN 0 - (actual[r] * stock[r].cost) ELSE 0]
             D2 == [r \in Rows |-> IF r \in owed THEN settled[r] * stock[r].cost ELSE 0]
             D  == [r \in Rows |-> D1[r] + D2[r]]
  <2>9. ASSUME NEW r \in Rows
        PROVE  /\ D1[r] \in Int /\ D2[r] \in Int
               /\ Moved(t)'[r] = Moved(t)[r] + (D1[r] + D2[r]) /\ Moved(t)[r] \in Int
    <3>1. Moved(t)[r] \in Int
      BY MovedIsInt
    <3>2. r \in DOMAIN stock =>
             Moved(t)'[r] = Moved(t)[r] - (IF r \in DOMAIN draw THEN Weigh(r, draw[r]) ELSE 0)
      <4>1. \A x \in DOMAIN stock : x \in DOMAIN stock' /\ stock'[x] = stock[x]
        BY <2>1
      <4>2. DOMAIN draw \subseteq DOMAIN stock /\ \A x \in DOMAIN draw : draw[x] \in Nat
        BY <2>6, <2>7, <2>8
      <4> QED  BY <2>1, <4>1, <4>2, DrawMoves
    <3>3. CASE r \in shelf
      <4>1. D1[r] = 0 - (actual[r] * stock[r].cost) /\ D2[r] = 0
        BY <2>4, <3>3
      <4>2. Weigh(r, draw[r]) = actual[r] * stock[r].cost
        BY <2>5, <2>6, <3>3 DEF Weigh
      <4>3. actual[r] * stock[r].cost \in Int
        <5>1. actual[r] \in Int /\ stock[r].cost \in Int
          BY <2>3, <2>4, <2>7, <3>3
        <5> QED  BY <5>1
      <4>4. r \in DOMAIN stock /\ r \in DOMAIN draw
        BY <2>4, <2>6, <2>7, <3>3
      <4> HIDE DEF D1, D2
      <4> QED  BY <3>1, <3>2, <4>1, <4>2, <4>3, <4>4
    <3>4. CASE r \in owed
      <4>1. D1[r] = 0 /\ D2[r] = settled[r] * stock[r].cost
        BY <2>4, <3>4
      <4>2. Weigh(r, draw[r]) = 0 - (settled[r] * stock[r].cost)
        BY <2>5, <2>6, <3>4 DEF Weigh
      <4>3. settled[r] * stock[r].cost \in Int
        <5>1. settled[r] \in Int /\ stock[r].cost \in Int
          BY <2>3, <2>4, <2>7, <3>4
        <5> QED  BY <5>1
      <4>4. r \in DOMAIN stock /\ r \in DOMAIN draw
        BY <2>4, <2>6, <2>7, <3>4
      <4> HIDE DEF D1, D2
      <4> QED  BY <3>1, <3>2, <4>1, <4>2, <4>3, <4>4
    <3>5. CASE r \notin got
      <4>1. D1[r] = 0 /\ D2[r] = 0
        BY <2>4, <3>5
      <4>2. Moved(t)'[r] = Moved(t)[r]
        <5>1. CASE r \in DOMAIN stock
          BY <2>6, <3>1, <3>2, <3>5, <5>1
        <5>2. CASE r \notin DOMAIN stock
          BY <2>1, <5>2 DEF Moved
        <5> QED  BY <5>1, <5>2
      <4> HIDE DEF D1, D2
      <4> QED  BY <3>1, <4>1, <4>2
    <3> QED  BY <2>4, <3>3, <3>4, <3>5
  <2>10. Total(D1) = 0 - Worth(actual) /\ Worth(actual) \in Nat
    <3>1. /\ DOMAIN actual \subseteq DOMAIN stock /\ DOMAIN stock \subseteq Rows
          /\ \A r \in DOMAIN actual : actual[r] \in Nat /\ stock[r].cost \in Nat
          /\ \A r \in Rows \ DOMAIN actual : D1[r] = 0
          /\ \A r \in DOMAIN actual : D1[r] = 0 - (actual[r] * stock[r].cost)
      BY <2>3, <2>4, <2>7
    <3> HIDE DEF D1
    <3> QED  BY ONLY <3>1, TotalOfDraw, WorthIsNat
  <2>11. Total(D2) = Worth(settled) /\ Worth(settled) \in Nat
    <3>1. /\ DOMAIN settled \subseteq DOMAIN stock /\ DOMAIN stock \subseteq Rows
          /\ \A r \in DOMAIN settled : settled[r] \in Nat /\ stock[r].cost \in Nat
          /\ \A r \in Rows \ DOMAIN settled : D2[r] = 0
          /\ \A r \in DOMAIN settled : D2[r] = settled[r] * stock[r].cost
      BY <2>3, <2>4, <2>7
    <3> HIDE DEF D2
    <3> QED  BY ONLY <3>1, TotalOfDraw, WorthIsNat
  <2>12. /\ \A r \in Rows : D1[r] \in Int /\ D2[r] \in Int /\ D[r] = D1[r] + D2[r]
         /\ \A r \in Rows : D[r] \in Int /\ Moved(t)'[r] = Moved(t)[r] + D[r]
    <3>1. \A r \in Rows : D[r] = D1[r] + D2[r]
      OBVIOUS
    <3> HIDE DEF D, D1, D2
    <3> QED  BY <2>9, <3>1
  <2> HIDE DEF D, D1, D2
  <2>13. Total(D) = Total(D1) + Total(D2)
    BY ONLY <2>12, TotalOfSum
  <2>14. posts' = [posts EXCEPT ![t] = posts[t] + Total(D)]
    <3>1. posts[t] + Worth(settled) - Worth(actual) = posts[t] + Total(D)
      <4>1. posts[t] \in Int
        BY DEF MoneyInv
      <4> QED  BY <2>10, <2>11, <2>13, <4>1
    <3> QED  BY <2>1, <3>1, Zenon
  <2>15. /\ pc' = [pc EXCEPT ![t] = pc'[t]] /\ line' = [line EXCEPT ![t] = line'[t]]
         /\ \/ pc'[t] = "receive" /\ line'[t] = line[t] + 1
            \/ pc'[t] = "commit" /\ line'[t] = 1
    BY <1>2, <2>1, NextLineMoves DEF BooksInv, docVars
  <2>16. Alone(t) /\ pc'[t] \in Steps
    <3>1. /\ held' = [held EXCEPT ![t] = held'[t]]
          /\ want' = [want EXCEPT ![t] = {}] /\ want'[t] = {}
      BY <2>1, LockAdds DEF BooksInv, ShapeInv
    <3>2. drawn' = [drawn EXCEPT ![t] = drawn'[t]]
      BY <2>1 DEF DrawnToo, StockInv
    <3> QED  BY <1>1, <2>1, <2>15, <3>1, <3>2 DEF Alone, Steps
  <2>17. FreshInv(t)'
    <3> SUFFICES ASSUME NEW r \in DOMAIN stock, r[2] = t, pc'[t] = "receive"
                 PROVE  \E i \in DOMAIN doc[t] : i < line'[t] /\ doc[t][i].v = r[3]
      BY <2>1, <2>15 DEF FreshInv
    <3>1. line[t] \in Nat /\ DOMAIN doc[t] = 1..Len(doc[t]) /\ line'[t] = line[t] + 1
      BY <1>2, <2>15, FirstLine DEF BooksInv
    <3>2. PICK i \in DOMAIN doc[t] : i <= line[t] /\ doc[t][i].v = r[3]
      BY <1>1 DEF MoneyInv, FreshInv
    <3> QED  BY <3>1, <3>2
  <2>18. /\ DOMAIN stock \subseteq DOMAIN stock' /\ DOMAIN stock' \subseteq Rows
         /\ \A r \in DOMAIN stock' :
               /\ stock'[r].cost \in Nat
               /\ r[2] = t \/ (r \in DOMAIN stock /\ stock'[r] = stock[r])
    <3>1. stock' = stock
      BY <2>1
    <3> QED  BY <2>7, <3>1
  <2>19. UNCHANGED ledger /\ \A l \in Born \X Variants : charged'[l] \in Nat
    BY <2>1 DEF MoneyInv
  <2> QED  BY ONLY BooksInv, StockInv, MoneyInv, StockInv', t \in Txns, <2>12, <2>14, <2>16,
                   <2>17, <2>18, <2>19, MovesBy
<1> QED  BY <1>4, <1>5

\* A commit changes the worth of the committed rows by what it posts.
LEMMA CommitPosts ==
    ASSUME BooksInv, StockInv, MoneyInv, NEW t \in Txns, Commit(t)
    PROVE  MoneyInv'
<1>1. /\ pc[t] = "commit" /\ pc[t] \in Steps /\ t # 0
      /\ pc' = [pc EXCEPT ![t] = "committed"]
      /\ line' = [line EXCEPT ![t] = 1] /\ drawn' = [drawn EXCEPT ![t] = << >>]
      /\ posts' = [posts EXCEPT ![t] = 0] /\ ledger' = ledger + posts[t]
      /\ UNCHANGED <<kind, doc, charged>>
  BY DEF Commit, End, Goto, docVars, Steps, Txns
<1>2. /\ pc'[t] = "committed" /\ posts'[t] = 0
      /\ \A u \in Txns \ {t} : /\ pc'[u] = pc[u] /\ line'[u] = line[u]
                               /\ drawn'[u] = drawn[u] /\ posts'[u] = posts[u]
  BY <1>1 DEF BooksInv, ShapeInv, StockInv, MoneyInv
<1>3. t \notin Committed /\ Committed' = Committed \cup {t}
  BY <1>1, <1>2 DEF Committed, Steps
<1>4. /\ DOMAIN stock' = DOMAIN stock
      /\ \A r \in DOMAIN stock : /\ stock'[r].qty = stock[r].qty - Drawn(t, r)
                                 /\ stock'[r].cost = stock[r].cost
                                 /\ Drawn(t, r) = 0 => stock'[r].qty = stock[r].qty
  BY CommitTakesOut
<1>5. /\ \A r : Drawn(t, r) \in Nat
      /\ \A r \in DOMAIN stock : stock[r].qty \in Nat /\ stock[r].cost \in Nat
      /\ \A r \in Rows : Moved(t)[r] \in Int /\ Booked[r] \in Int
  BY MovedIsInt
<1>6. ASSUME NEW r \in DOMAIN stock
      PROVE  /\ Weigh(r, stock[r].qty) \in Int /\ Weigh(r, Drawn(t, r)) \in Int
             /\ Weigh(r, 0) = 0
             /\ Weigh(r, stock[r].qty)' = Weigh(r, stock[r].qty) - Weigh(r, Drawn(t, r))
  <2> DEFINE q == stock[r].qty
             d == Drawn(t, r)
  <2>1. q \in Int /\ d \in Int /\ stock[r].cost \in Nat
    BY <1>5
  <2>2. /\ \A n \in Int : Weigh(r, n) \in Int
        /\ Weigh(r, 0) = 0
        /\ \A m, n \in Int : Weigh(r, m - n) = Weigh(r, m) - Weigh(r, n)
    BY <2>1, WeighAdds
  <2>3. Weigh(r, q)' = Weigh(r, q - d)
    BY <1>4 DEF Weigh
  <2> HIDE DEF q, d
  <2>4. Weigh(r, q) \in Int /\ Weigh(r, d) \in Int /\ Weigh(r, q - d) = Weigh(r, q) - Weigh(r, d)
    BY <2>1, <2>2
  <2> QED  BY <2>2, <2>3, <2>4 DEF q, d
<1>7. \A r \in DOMAIN stock : r[2] \notin Committed \cup {t} => Drawn(t, r) = 0
  BY DEF Drawn, StockInv, DrawInv, Drawable
<1>8. ASSUME NEW r \in Rows PROVE Booked'[r] = Booked[r] + Moved(t)[r]
  <2>1. CASE r \notin DOMAIN stock
    <3>1. Booked'[r] = 0 /\ Booked[r] = 0 /\ Moved(t)[r] = 0
      BY <1>4, <2>1 DEF Booked, Moved
    <3> QED  BY <3>1
  <2>2. CASE r \in DOMAIN stock /\ r[2] = t
    <3>1. /\ Booked'[r] = Weigh(r, stock[r].qty)' /\ Booked[r] = 0
          /\ Moved(t)[r] = Weigh(r, stock[r].qty) - Weigh(r, Drawn(t, r))
      BY <1>3, <1>4, <2>2 DEF Booked, Moved, Weigh
    <3> QED  BY <1>6, <2>2, <3>1
  <2>3. CASE r \in DOMAIN stock /\ r[2] \in Committed
    <3>1. /\ Booked'[r] = Weigh(r, stock[r].qty)' /\ Booked[r] = Weigh(r, stock[r].qty)
          /\ Moved(t)[r] = 0 - Weigh(r, Drawn(t, r))
      BY <1>3, <1>4, <2>3 DEF Booked, Moved, Weigh
    <3> QED  BY <1>6, <2>3, <3>1
  <2>4. CASE r \in DOMAIN stock /\ r[2] \notin Committed \cup {t}
    <3>1. Booked'[r] = 0 /\ Booked[r] = 0
      BY <1>3, <1>4, <2>4 DEF Booked
    <3>2. Drawn(t, r) = 0
      BY <1>7, <2>4
    <3>3. Moved(t)[r] = 0 - Weigh(r, Drawn(t, r))
      BY <2>4 DEF Moved
    <3>4. Weigh(r, Drawn(t, r)) = 0
      BY <1>6, <2>4, <3>2, Zenon
    <3> QED  BY <3>1, <3>3, <3>4
  <2> QED  BY <2>1, <2>2, <2>3, <2>4
<1>9. ledger' = Total(Booked)'
  <2>1. \A r \in Rows : /\ Booked[r] \in Int /\ Moved(t)[r] \in Int
                        /\ Booked'[r] = Booked[r] + Moved(t)[r]
    BY <1>5, <1>8
  <2>2. Total(Booked') = Total(Booked) + Total(Moved(t))
    BY ONLY <2>1, TotalOfSum
  <2>3. ledger = Total(Booked) /\ posts[t] = Total(Moved(t))
    BY <1>1 DEF MoneyInv, PostsInv, Running
  <2>4. Total(Booked)' = Total(Booked')
    BY DEF Total
  <2> QED  BY <1>1, <2>2, <2>3, <2>4
<1>10. FreshInv(t)' /\ PostsInv(t)'
  <2>1. DOMAIN drawn'[t] = {}
    <3>1. drawn'[t] = << >>
      BY <1>1 DEF StockInv
    <3> QED  BY <3>1, NothingDrawn, Zenon
  <2> QED  BY <1>2, <2>1 DEF FreshInv, PostsInv, Running, Steps
<1>11. ASSUME NEW u \in Txns \ {t} PROVE FreshInv(u)' /\ PostsInv(u)'
  <2>1. FreshInv(u) /\ PostsInv(u)
    BY DEF MoneyInv
  <2>2. FreshInv(u)'
    BY <1>1, <1>2, <1>4, <2>1 DEF FreshInv
  <2>3. ASSUME u \in Running PROVE Total(Moved(u))' = Total(Moved(u))
    <3>1. u \notin Committed
      BY <2>3 DEF Committed, Running, Steps, Txns
    <3>2. ASSUME NEW r \in Rows PROVE Moved(u)'[r] = Moved(u)[r]
      <4>1. CASE r \in DOMAIN stock
        <5>1. Weigh(r, Drawn(u, r))' = Weigh(r, Drawn(u, r))
          BY <1>2, <1>4, <4>1 DEF Weigh, Drawn
        <5>2. r[2] = u => Weigh(r, stock[r].qty)' = Weigh(r, stock[r].qty)
          <6> SUFFICES ASSUME r[2] = u PROVE Weigh(r, stock[r].qty)' = Weigh(r, stock[r].qty)
            OBVIOUS
          <6>1. Drawn(t, r) = 0
            BY <1>7, <3>1, <4>1
          <6>2. stock'[r].qty = stock[r].qty /\ stock'[r].cost = stock[r].cost
            BY <1>4, <4>1, <6>1
          <6> QED  BY <6>2 DEF Weigh
        <5>3. r \in DOMAIN stock'
          BY <1>4, <4>1
        <5> QED  BY <4>1, <5>1, <5>2, <5>3 DEF Moved
      <4>2. CASE r \notin DOMAIN stock
        BY <1>4, <4>2 DEF Moved
      <4> QED  BY <4>1, <4>2
    <3>3. Moved(u)' = Moved(u)
      BY <3>2 DEF Moved
    <3> QED  BY <3>3 DEF Total
  <2>4. PostsInv(u)'
    BY <1>2, <2>1, <2>3 DEF PostsInv, Running
  <2> QED  BY <2>2, <2>4
<1>12. /\ DOMAIN stock' \subseteq Rows
       /\ \A r \in DOMAIN stock' : stock'[r].cost \in Nat
       /\ \A l \in Born \X Variants : charged'[l] \in Nat
       /\ posts' \in [Txns -> Int]
  BY <1>1, <1>4 DEF MoneyInv
<1> QED  BY <1>9, <1>10, <1>11, <1>12 DEF MoneyInv

\* A transaction begins with nothing to post, for it has no rows.
LEMMA BeginMoves ==
    ASSUME BooksInv, StockInv, MoneyInv, NEW t \in Txns, NEW k \in Kinds, NEW d, NEW u,
           Begins(t, k, d, u)
    PROVE  MoneyInv'
<1> DEFINE first == CASE k = "issue" -> "consume" [] k = "delivery" -> "receive"
                      [] OTHER -> "session"
<1>1. /\ pc[t] = "none" /\ UNCHANGED <<stock, charged, ledger, line, drawn, posts>>
      /\ doc' = [doc EXCEPT ![t] = d] /\ pc' = [pc EXCEPT ![t] = first]
  BY DEF Begins, Goto, rowVars
<1>2. first \in Steps
  BY DEF Steps
<1> HIDE DEF first
<1>3. /\ \A s \in Txns \ {t} : pc'[s] = pc[s] /\ doc'[s] = doc[s]
      /\ pc'[t] = first
  BY <1>1 DEF BooksInv, ShapeInv
<1>4. Committed' = Committed
  BY <1>1, <1>2, <1>3 DEF Committed, Steps
<1>5. \A s : Total(Moved(s))' = Total(Moved(s))
  BY <1>1 DEF Total, Moved, Weigh, Drawn
<1>6. Total(Booked)' = Total(Booked)
  BY <1>1, <1>4 DEF Total, Booked, Weigh
<1>7. FreshInv(t) /\ PostsInv(t)
  BY DEF MoneyInv
<1>8. \A r \in DOMAIN stock : r[2] # t
  BY <1>1, <1>7 DEF FreshInv
<1>9. Total(Moved(t)) = 0 /\ posts[t] = 0
  <2>1. DOMAIN drawn[t] = {} /\ posts[t] = 0
    BY <1>1, <1>7 DEF PostsInv, Running, Steps
  <2>2. \A r \in Rows : Moved(t)[r] = 0
    <3> SUFFICES ASSUME NEW r \in Rows, r \in DOMAIN stock PROVE Moved(t)[r] = 0
      BY DEF Moved
    <3>1. Drawn(t, r) = 0
      BY <2>1 DEF Drawn
    <3>2. Weigh(r, Drawn(t, r)) = 0
      <4>1. Weigh(r, 0) = 0
        BY WeighAdds DEF MoneyInv
      <4> QED  BY <3>1, <4>1, Zenon
    <3> QED  BY <1>8, <3>2 DEF Moved
  <2> QED  BY <2>1, <2>2, TotalOfNothing
<1>10. FreshInv(t)' /\ PostsInv(t)'
  BY <1>1, <1>2, <1>3, <1>5, <1>8, <1>9 DEF FreshInv, PostsInv, Running
<1>11. ASSUME NEW s \in Txns \ {t} PROVE FreshInv(s)' /\ PostsInv(s)'
  <2>1. FreshInv(s) /\ PostsInv(s)
    BY DEF MoneyInv
  <2> QED  BY <1>1, <1>3, <1>5, <2>1 DEF FreshInv, PostsInv, Running
<1> QED  BY <1>1, <1>6, <1>10, <1>11 DEF MoneyInv

\* As many rows of a kind as there are items that have one.
LEMMA AsManyRows ==
    ASSUME NEW what, NEW V \in SUBSET Variants
    PROVE  LET S == {<<what, 0, v>> : v \in V}
           IN  IsFiniteSet(S) /\ Cardinality(S) = Cardinality(V) /\ Cardinality(V) \in Nat
<1> DEFINE S == {<<what, 0, v>> : v \in V}
           f == [v \in V |-> <<what, 0, v>>]
<1>1. IsFiniteSet(V)
  BY BooksAssumption, FS_Subset
<1>2. f \in Bijection(V, S)
  <2>1. f \in [V -> S] /\ \A s \in S : \E v \in V : f[v] = s
    OBVIOUS
  <2>2. \A v, w \in V : f[v] = f[w] => v = w
    OBVIOUS
  <2> HIDE DEF f, S
  <2> QED  BY <2>1, <2>2 DEF Bijection, Injection, Surjection, IsInjective
<1> HIDE DEF f, S
<1>3. IsFiniteSet(S) /\ Cardinality(S) = Cardinality(V) /\ Cardinality(V) \in Nat
  BY <1>1, <1>2, FS_Bijection, FS_CardinalityType DEF ExistsBijection
<1> QED  BY <1>3 DEF S

\* At the start the account is what the opening stock is worth, less what the
\* shop already owes.
LEMMA InitMoney == Init => MoneyInv
<1> SUFFICES ASSUME Init PROVE MoneyInv
  OBVIOUS
<1>1. PICK opening \in Openings :
        /\ stock = [r \in {Layer(0, v) : v \in {w \in Variants : opening[w] = "stocked"}}
                         \cup {Hole(0, v) : v \in {w \in Variants : opening[w] = "short"}}
                    |-> [qty |-> 1, cost |-> OldCost]]
        /\ charged = [l \in Born \X Variants |->
                        IF l[1] = 0 /\ opening[l[2]] # "new" THEN OldCost ELSE 0]
        /\ ledger = OldCost * (Cardinality({v \in Variants : opening[v] = "stocked"})
                             - Cardinality({v \in Variants : opening[v] = "short"}))
        /\ pc = [t \in Txns |-> "none"]
        /\ drawn = [t \in Txns |-> << >>]
        /\ posts = [t \in Txns |-> 0]
  BY DEF Init
<1> DEFINE Stocked == {v \in Variants : opening[v] = "stocked"}
           Short == {v \in Variants : opening[v] = "short"}
           L == {<<"layer", 0, v>> : v \in Stocked}
           H == {<<"hole", 0, v>> : v \in Short}
<1>2. stock = [r \in L \cup H |-> [qty |-> 1, cost |-> OldCost]]
  BY <1>1 DEF Layer, Hole
<1>3. /\ L \subseteq Rows /\ H \subseteq Rows /\ L \cap H = {}
      /\ \A r \in L : r[1] = "layer" /\ r[2] = 0
      /\ \A r \in H : r[1] = "hole" /\ r[2] = 0
  BY BooksAssumption DEF Rows, Born
<1>4. /\ IsFiniteSet(L) /\ Cardinality(L) = Cardinality(Stocked) /\ Cardinality(Stocked) \in Nat
      /\ IsFiniteSet(H) /\ Cardinality(H) = Cardinality(Short) /\ Cardinality(Short) \in Nat
  <2>1. Stocked \in SUBSET Variants /\ Short \in SUBSET Variants
    OBVIOUS
  <2> HIDE DEF Stocked, Short
  <2> QED  BY <2>1, AsManyRows
<1>5. ledger = OldCost * (Cardinality(Stocked) - Cardinality(Short))
  BY <1>1
<1>6. OldCost \in Nat
  BY BooksAssumption
<1> HIDE DEF L, H, Stocked, Short
<1>7. /\ DOMAIN stock = L \cup H
      /\ \A r \in L \cup H : stock[r].qty = 1 /\ stock[r].cost = OldCost
  BY <1>2
<1>8. /\ \A r \in L : Booked[r] = OldCost
      /\ \A r \in H : Booked[r] = 0 - OldCost
      /\ \A r \in Rows \ (L \cup H) : Booked[r] = 0
  <2>1. ASSUME NEW r \in L PROVE Booked[r] = OldCost
    <3>1. r \in Rows /\ r \in DOMAIN stock /\ r[1] = "layer" /\ r[2] \in Committed
      BY <1>3, <1>7 DEF Committed
    <3>2. stock[r].qty = 1 /\ stock[r].cost = OldCost
      BY <1>7
    <3> QED  BY <1>6, <3>1, <3>2 DEF Booked, Weigh
  <2>2. ASSUME NEW r \in H PROVE Booked[r] = 0 - OldCost
    <3>1. r \in Rows /\ r \in DOMAIN stock /\ r[1] = "hole" /\ r[2] \in Committed
      BY <1>3, <1>7 DEF Committed
    <3>2. stock[r].qty = 1 /\ stock[r].cost = OldCost
      BY <1>7
    <3> QED  BY <1>6, <3>1, <3>2 DEF Booked, Weigh
  <2>3. \A r \in Rows \ (L \cup H) : Booked[r] = 0
    BY <1>7 DEF Booked
  <2> QED  BY <2>1, <2>2, <2>3
<1>9. ledger = Total(Booked)
  <2> DEFINE a == Cardinality(Stocked)
             b == Cardinality(Short)
  <2>1. Total(Booked) = SumFunctionOnSet(Booked, L \cup H)
    <3>1. L \cup H \in SUBSET Rows /\ \A r \in L \cup H : Booked[r] \in Int
      BY <1>3, <1>6, <1>8
    <3> QED  BY <1>8, <3>1, RowsFinite, SumDropsZeros DEF Total
  <2>2. SumFunctionOnSet(Booked, L \cup H)
            = SumFunctionOnSet(Booked, L) + SumFunctionOnSet(Booked, H)
    <3>1. \A r \in L \cup H : Booked[r] \in Int
      BY <1>6, <1>8
    <3> QED  BY ONLY <1>3, <1>4, <3>1, SumOfUnion
  <2>3. SumFunctionOnSet(Booked, L) = OldCost * a
    <3>1. OldCost \in Int /\ \A r \in L : Booked[r] = OldCost
      BY <1>6, <1>8
    <3>2. SumFunctionOnSet(Booked, L) = OldCost * Cardinality(L)
      BY ONLY <1>4, <3>1, SumOfEquals
    <3> QED  BY <1>4, <3>2
  <2>4. SumFunctionOnSet(Booked, H) = (0 - OldCost) * b
    <3>1. 0 - OldCost \in Int /\ \A r \in H : Booked[r] = 0 - OldCost
      BY <1>6, <1>8
    <3>2. SumFunctionOnSet(Booked, H) = (0 - OldCost) * Cardinality(H)
      BY ONLY <1>4, <3>1, SumOfEquals
    <3> QED  BY <1>4, <3>2
  <2>5. a \in Int /\ b \in Int /\ OldCost \in Int /\ ledger = OldCost * (a - b)
    BY <1>4, <1>5, <1>6
  <2> HIDE DEF a, b
  <2>6. OldCost * (a - b) = OldCost * a + (0 - OldCost) * b
    BY ONLY <2>5
  <2> QED  BY <2>1, <2>2, <2>3, <2>4, <2>5, <2>6
<1>10. \A t \in Txns : FreshInv(t) /\ PostsInv(t)
  <2> SUFFICES ASSUME NEW t \in Txns PROVE FreshInv(t) /\ PostsInv(t)
    OBVIOUS
  <2>1. \A r \in DOMAIN stock : r[2] # t
    BY <1>3, <1>7 DEF Txns
  <2>2. pc[t] = "none" /\ posts[t] = 0 /\ DOMAIN drawn[t] = {}
    <3>1. pc[t] = "none" /\ posts[t] = 0
      BY <1>1
    <3>2. drawn[t] = << >>
      BY <1>1
    <3> QED  BY <3>1, <3>2, NothingDrawn, Zenon
  <2> QED  BY <2>1, <2>2 DEF FreshInv, PostsInv, Running, Steps
<1>11. /\ DOMAIN stock \subseteq Rows
       /\ \A r \in DOMAIN stock : stock[r].cost \in Nat
       /\ \A l \in Born \X Variants : charged[l] \in Nat
       /\ posts \in [Txns -> Int]
  BY <1>1, <1>3, <1>6, <1>7
<1> QED  BY <1>9, <1>10, <1>11 DEF MoneyInv

\* The account is what the rows are worth, whatever order documents commit in.
THEOREM MoneyCorrect == Spec => []MoneyInv
<1>1. Init => MoneyInv
  BY InitMoney
<1>2. BooksInv /\ StockInv /\ StockInv' /\ MoneyInv /\ [Next]_vars => MoneyInv'
  <2> SUFFICES ASSUME BooksInv, StockInv, StockInv', MoneyInv, [Next]_vars PROVE MoneyInv'
    OBVIOUS
  <2>1. CASE UNCHANGED vars \/ OpenSession
    <3>1. UNCHANGED <<stock, charged, ledger, doc, pc, line, drawn, posts>>
      BY <2>1 DEF vars, rowVars, docVars, txnVars, OpenSession
    <3> QED  BY <3>1 DEF MoneyInv, FreshInv, PostsInv, Running, Committed, Total, Moved,
                         Booked, Weigh, Drawn
  <2>2. ASSUME NEW t \in Txns, BeginStock(t) \/ BeginCash(t) \/ BeginReturn(t)
        PROVE  MoneyInv'
    <3>1. PICK k \in Kinds : \E d, u : Begins(t, k, d, u)
      BY <2>2 DEF BeginStock, BeginCash, BeginReturn, Kinds
    <3>2. PICK d, u : Begins(t, k, d, u)
      BY <3>1
    <3> QED  BY <3>2, BeginMoves
  <2>3. ASSUME NEW t \in Txns, Step(t)
        PROVE  MoneyInv'
    BY <2>3, TakeSessionMoves, CountAndNumberMove, LockStockMoves, ConsumeMoves,
       ReceiveMoves, SettleMoves, RestoreMoves, CommitPosts DEF Step
  <2>4. ASSUME NEW t \in Txns, Rollback(t) \/ Victim(t)
        PROVE  MoneyInv'
    <3>1. t \in Running
      BY <2>4 DEF Rollback, Victim, BooksInv, TxnInv, Running
    <3>2. \E how \in {"refused", "rolled back"} :
             End(t, how) /\ UNCHANGED <<rowVars, docVars>>
      BY <2>4, Zenon DEF Rollback, Victim
    <3>3. PICK how : /\ how \notin Steps \cup {"none", "committed"}
                     /\ End(t, how) /\ UNCHANGED <<rowVars, docVars>>
      BY <3>2, GivenUp, Zenon
    <3>4. pc[t] \in Steps
      BY <3>1 DEF Running
    <3> QED  BY <3>3, <3>4, GiveUpMoves
  <2> QED  BY <2>1, <2>2, <2>3, <2>4 DEF Next
<1> QED  BY <1>1, <1>2, BooksCorrect, StockCorrect, PTL DEF Spec

\* The valuation of the committed rows is the Inventory account to the last
\* unit, however documents interleave, wait, fail and commit (migration 0047).
THEOREM TieOutHolds == Spec => []TieOut
<1>1. ASSUME StockInv, MoneyInv PROVE TieOut
  <2> DEFINE L == OnTheBooks("layer")
             H == OnTheBooks("hole")
             worth == [r \in DOMAIN stock |-> stock[r].qty * stock[r].cost]
             f == [r \in L |-> stock[r].qty * stock[r].cost]
             g == [r \in H |-> stock[r].qty * stock[r].cost]
  <2>1. \A r \in DOMAIN stock : stock[r].qty \in Nat /\ stock[r].cost \in Nat
    BY <1>1 DEF StockInv, RowInv, MoneyInv
  <2>2. \A r \in DOMAIN stock : stock[r].qty * stock[r].cost \in Nat
    <3> SUFFICES ASSUME NEW r \in DOMAIN stock PROVE stock[r].qty * stock[r].cost \in Nat
      OBVIOUS
    <3> DEFINE q == stock[r].qty
               c == stock[r].cost
    <3>1. q \in Nat /\ c \in Nat
      BY <2>1
    <3> HIDE DEF q, c
    <3>2. q * c \in Nat
      BY <3>1
    <3> QED  BY <3>2 DEF q, c
  <2>3. /\ L \subseteq Rows /\ H \subseteq Rows /\ L \cap H = {}
        /\ L \subseteq DOMAIN stock /\ H \subseteq DOMAIN stock
    BY <1>1 DEF OnTheBooks, MoneyInv
  <2>4. IsFiniteSet(L) /\ IsFiniteSet(H)
    BY <2>3, RowsFinite, FS_Subset
  <2>5. /\ \A r \in L : Booked[r] = stock[r].qty * stock[r].cost
        /\ \A r \in H : Booked[r] = 0 - (stock[r].qty * stock[r].cost)
    BY <2>3 DEF Booked, Weigh, OnTheBooks
  <2>6. \A r \in Rows \ (L \cup H) : Booked[r] = 0
    <3> SUFFICES ASSUME NEW r \in Rows \ (L \cup H), r \in DOMAIN stock, r[2] \in Committed
                 PROVE  Weigh(r, stock[r].qty) = 0
      BY DEF Booked
    <3>1. r[1] \in {"layer", "hole"}
      BY DEF Rows
    <3>2. stock[r].qty = 0
      BY <2>1, <3>1 DEF OnTheBooks
    <3>3. Weigh(r, 0) = 0
      BY <2>1, WeighAdds
    <3> QED  BY <3>2, <3>3, Zenon
  <2>7. Value("layer") = SumFunctionOnSet(f, L) /\ Value("hole") = SumFunctionOnSet(g, H)
    BY DEF Value, SumFunction
  <2>8. /\ \A r \in L : f[r] = Booked[r] /\ f[r] \in Int /\ Booked[r] \in Int
        /\ \A r \in H : g[r] \in Int /\ Booked[r] = 0 - g[r] /\ Booked[r] \in Int
    <3>1. \A r \in L : f[r] = stock[r].qty * stock[r].cost
      OBVIOUS
    <3>2. \A r \in H : g[r] = stock[r].qty * stock[r].cost
      OBVIOUS
    <3> HIDE DEF f, g, L, H
    <3> QED  BY <2>2, <2>3, <2>5, <3>1, <3>2
  <2> HIDE DEF f, g, L, H
  <2>9. SumFunctionOnSet(f, L) = SumFunctionOnSet(Booked, L)
    BY ONLY <2>4, <2>8, SumSame
  <2>10. SumFunctionOnSet(Booked, H) = 0 - SumFunctionOnSet(g, H)
    BY ONLY <2>4, <2>8, SumOfNegatives
  <2>11. Total(Booked) = SumFunctionOnSet(Booked, L \cup H)
    <3>1. L \cup H \in SUBSET Rows /\ \A r \in L \cup H : Booked[r] \in Int
      BY <2>3, <2>8
    <3> QED  BY ONLY <2>6, <3>1, RowsFinite, SumDropsZeros DEF Total
  <2>12. SumFunctionOnSet(Booked, L \cup H)
            = SumFunctionOnSet(Booked, L) + SumFunctionOnSet(Booked, H)
    <3>1. \A r \in L \cup H : Booked[r] \in Int
      BY <2>8
    <3> QED  BY ONLY <2>3, <2>4, <3>1, SumOfUnion
  <2>13. SumFunctionOnSet(Booked, L) \in Int /\ SumFunctionOnSet(g, H) \in Int
    <3>1. /\ \A r \in L : Booked[r] \in Int
          /\ \A r \in H : g[r] \in Int
      BY <2>8
    <3> QED  BY ONLY <2>4, <3>1, SumTakesOut
  <2>14. ledger = Total(Booked)
    BY <1>1 DEF MoneyInv
  <2> QED  BY <2>7, <2>9, <2>10, <2>11, <2>12, <2>13, <2>14 DEF TieOut
<1> QED  BY <1>1, StockCorrect, MoneyCorrect, PTL

-----------------------------------------------------------------------------
(* Types.                                                                  *)

\* A document has as many items as lines, and one of them is the k-th.
LEMMA KthItemIs ==
    ASSUME ShapeInv, StockInv, NEW t \in Txns, kind[t] \in StockKinds
    PROVE  /\ LineVariants(t) \subseteq Variants /\ LineVariants(t) \subseteq Int
           /\ IsFiniteSet(LineVariants(t))
           /\ Cardinality(LineVariants(t)) = Len(doc[t])
           /\ \A k \in DOMAIN doc[t] :
                 \E v \in LineVariants(t) : Cardinality({w \in LineVariants(t) : w <= v}) = k
<1> DEFINE d == doc[t]
           f == [i \in DOMAIN d |-> d[i].v]
<1>1. /\ doc[t] \in Documents /\ line[t] \in DOMAIN doc[t]
      /\ DOMAIN doc[t] = 1..Len(doc[t]) /\ Len(doc[t]) \in Nat
  BY FirstLine
<1>2. LineVariants(t) \subseteq Variants
  <2>1. doc[t] \in Seq(Lines)
    BY DEF ShapeInv
  <2>2. \A i \in DOMAIN doc[t] : doc[t][i].v \in Variants
    <3>1. \A i \in 1..Len(doc[t]) : doc[t][i] \in Lines
      BY <2>1, ElementOfSeq
    <3> QED  BY <1>1, <3>1 DEF Lines
  <2> QED  BY <2>2 DEF LineVariants
<1>3. IsFiniteSet(LineVariants(t)) /\ LineVariants(t) \subseteq Int
  <2>1. IsFiniteSet(Variants) /\ Variants \subseteq Nat
    BY BooksAssumption
  <2>2. LineVariants(t) \in SUBSET Variants
    BY <1>2
  <2>3. IsFiniteSet(LineVariants(t))
    BY ONLY <2>1, <2>2, FS_Subset
  <2>4. LineVariants(t) \subseteq Nat
    BY ONLY <2>1, <2>2
  <2>5. LineVariants(t) \subseteq Int
    BY ONLY <2>4
  <2> QED  BY <2>3, <2>5
<1>4. Cardinality(LineVariants(t)) = Len(doc[t])
  <2>1. f \in Bijection(1..Len(d), LineVariants(t))
    <3>1. \A i, j \in DOMAIN d : d[i].v = d[j].v => i = j
      BY <1>1, BooksAssumption
    <3>2. DOMAIN d = 1..Len(d)
      BY <1>1
    <3>3. LineVariants(t) = {d[i].v : i \in DOMAIN d}
      BY DEF LineVariants
    <3> HIDE DEF d
    <3>4. /\ f \in [1..Len(d) -> LineVariants(t)]
          /\ \A i, j \in 1..Len(d) : f[i] = f[j] => i = j
          /\ \A v \in LineVariants(t) : \E i \in 1..Len(d) : f[i] = v
      BY <3>1, <3>2, <3>3
    <3> HIDE DEF f
    <3> QED  BY <3>4 DEF Bijection, Injection, Surjection, IsInjective
  <2>2. IsFiniteSet(1..Len(d)) /\ Cardinality(1..Len(d)) = Len(d)
    BY <1>1, FS_Interval
  <2> HIDE DEF d, f
  <2>3. Cardinality(LineVariants(t)) = Len(d)
    BY <2>1, <2>2, FS_Bijection DEF ExistsBijection
  <2> QED  BY <2>3 DEF d
<1>5. \A k \in 1..Cardinality(LineVariants(t)) :
         \E v \in LineVariants(t) : Cardinality({w \in LineVariants(t) : w <= v}) = k
  BY ONLY <1>3, KthOfSet
<1> QED  BY <1>1, <1>2, <1>3, <1>4, <1>5

\* The item whose rows a sale locks next is one of its items.
LEMMA NthIsOne ==
    ASSUME ShapeInv, StockInv, NEW t \in Txns, kind[t] \in StockKinds
    PROVE  /\ LineVariants(t) \subseteq Variants /\ LineVariants(t) \subseteq Int
           /\ IsFiniteSet(LineVariants(t))
           /\ Nth(t) \in LineVariants(t)
           /\ Cardinality({w \in LineVariants(t) : w <= Nth(t)}) = line[t]
<1>1. line[t] \in DOMAIN doc[t]
  BY FirstLine
<1>2. \E v \in LineVariants(t) : Cardinality({w \in LineVariants(t) : w <= v}) = line[t]
  BY <1>1, KthItemIs
<1> QED  BY <1>2, KthItemIs DEF Nth

\* What a drawer holds is a number.
LEMMA DrawerIsInt ==
    ASSUME BooksInv, NEW n \in Nat \ {0}
    PROVE  Drawer(n) \in Int
<1> DEFINE f == [t \in Rung(n) |-> Cash(kind[t])]
<1>1. IsFiniteSet(Rung(n))
  <2>1. Rung(n) \subseteq Txns
    BY DEF Rung, Committed
  <2>2. IsFiniteSet(Txns)
    BY BooksAssumption, FS_Interval DEF Txns
  <2> QED  BY <2>1, <2>2, FS_Subset
<1>2. \A t \in Rung(n) : f[t] \in Int
  <2> SUFFICES ASSUME NEW t \in Rung(n) PROVE Cash(kind[t]) \in Int
    OBVIOUS
  <2>1. t \in Txns /\ sess[t] = n /\ kind[t] # "close"
    BY DEF Rung, Committed
  <2>2. kind[t] \in {"sale", "return", "movement"}
    BY <2>1 DEF BooksInv, ShapeInv, SessionInv, Kinds
  <2> QED  BY <2>2 DEF Cash
<1>3. DOMAIN f = Rung(n) /\ Drawer(n) = SumFunctionOnSet(f, DOMAIN f)
  BY DEF Drawer, SumFunction
<1> HIDE DEF f
<1> QED  BY <1>1, <1>2, <1>3, SumTakesOut

\* What the other invariants do not say of the types.
TypeInv ==
    /\ DOMAIN frozen \subseteq 1..sessions
    /\ \A t \in Txns : sess[t] \in 0..sessions
    /\ pools \subseteq Variants
    /\ charged \in [Born \X Variants -> Nat]
    /\ \A t \in Txns : kind[t] \notin StockKinds => line[t] = 1
    /\ figure \in [Txns -> Int]
    /\ blind \subseteq Txns \X Variants

LEMMA InitTypes == Init => TypeInv
<1> SUFFICES ASSUME Init PROVE TypeInv
  OBVIOUS
<1>1. DOMAIN frozen \subseteq 1..sessions
  <2>1. frozen = << >>
    BY DEF Init
  <2> QED  BY <2>1, NothingDrawn, Zenon
<1>2. charged \in [Born \X Variants -> Nat]
  BY BooksAssumption DEF Init
<1>3. pools \subseteq Variants
  BY DEF Init
<1>4. /\ sessions = 1 /\ sess = [t \in Txns |-> 0] /\ line = [t \in Txns |-> 1]
      /\ figure = [t \in Txns |-> 0] /\ blind = {}
  BY DEF Init
<1> QED  BY <1>1, <1>2, <1>3, <1>4 DEF TypeInv

\* A statement that opens no session and closes none, and keeps to the lines.
LEMMA StepTypes ==
    ASSUME BooksInv, StockInv, TypeInv, NEW t \in Txns,
           UNCHANGED <<sessions, frozen, pools, kind>>,
           sess' = [sess EXCEPT ![t] = sess'[t]], sess'[t] \in 0..sessions,
           charged' \in [Born \X Variants -> Nat],
           line' = [line EXCEPT ![t] = line'[t]],
           kind[t] \notin StockKinds => line'[t] = 1,
           figure' = [figure EXCEPT ![t] = figure'[t]], figure'[t] \in Int,
           blind' \subseteq Txns \X Variants
    PROVE  TypeInv'
<1>1. \A u \in Txns \ {t} : sess'[u] = sess[u] /\ line'[u] = line[u]
  BY DEF BooksInv, ShapeInv, StockInv
<1>2. figure' \in [Txns -> Int]
  BY DEF TypeInv
<1> QED  BY <1>1, <1>2 DEF TypeInv

\* A statement that waits, and a transaction given up.
LEMMA EasyTypes ==
    ASSUME BooksInv, StockInv, TypeInv, NEW t \in Txns,
           \/ \E rows : Wait(t, rows)
           \/ Refuse(t) \/ Rollback(t) \/ Victim(t)
    PROVE  TypeInv'
<1>1. /\ UNCHANGED <<sessions, frozen, pools, kind, sess, charged, blind>>
      /\ \/ UNCHANGED <<line, figure>>
         \/ line' = [line EXCEPT ![t] = 1] /\ figure' = [figure EXCEPT ![t] = 0]
  BY Zenon DEF Wait, Refuse, Rollback, Victim, End, rowVars, docVars
<1>2. /\ sess' = [sess EXCEPT ![t] = sess'[t]] /\ sess'[t] \in 0..sessions
      /\ charged' \in [Born \X Variants -> Nat]
      /\ blind' \subseteq Txns \X Variants
  BY <1>1 DEF BooksInv, ShapeInv, TypeInv
<1>3. /\ line' = [line EXCEPT ![t] = line'[t]]
      /\ kind[t] \notin StockKinds => line'[t] = 1
      /\ figure' = [figure EXCEPT ![t] = figure'[t]] /\ figure'[t] \in Int
  BY <1>1 DEF StockInv, TypeInv
<1> QED  BY <1>1, <1>2, <1>3, StepTypes

LEMMA EarlyTypes ==
    ASSUME BooksInv, StockInv, TypeInv, NEW t \in Txns,
           TakeSession(t) \/ Count(t) \/ Restore(t) \/ Number(t)
    PROVE  TypeInv'
<1>1. CASE (\E rows : Wait(t, rows)) \/ Refuse(t)
  BY <1>1, EasyTypes
<1>2. CASE ~((\E rows : Wait(t, rows)) \/ Refuse(t))
  <2>1. /\ UNCHANGED <<sessions, frozen, pools, charged, kind, line, blind>>
        /\ \/ UNCHANGED sess
           \/ \E n \in 1..sessions : sess' = [sess EXCEPT ![t] = n]
        /\ \/ UNCHANGED figure
           \/ Count(t)
    BY <1>2 DEF TakeSession, Count, Restore, Number, rowVars, docVars
  <2>2. sess' = [sess EXCEPT ![t] = sess'[t]] /\ sess'[t] \in 0..sessions
    BY <2>1 DEF BooksInv, ShapeInv, TypeInv
  <2>3. figure' = [figure EXCEPT ![t] = figure'[t]] /\ figure'[t] \in Int
    <3>1. CASE Count(t)
      <4>1. pc[t] = "count" /\ figure' = [figure EXCEPT ![t] = Drawer(sess[t])]
        BY <3>1 DEF Count
      <4>2. kind[t] = "close"
        BY <4>1 DEF BooksInv, TxnInv, ShapeInv, StepsOf, Kinds, Steps
      <4>3. sess[t] \in Nat \ {0}
        BY <4>1, <4>2, BooksAssumption DEF BooksInv, SessionInv, InSession, Steps
      <4>4. Drawer(sess[t]) \in Int
        BY <4>3, DrawerIsInt
      <4> QED  BY <4>1, <4>4 DEF TypeInv
    <3>2. CASE UNCHANGED figure
      BY <3>2 DEF TypeInv
    <3> QED  BY <2>1, <3>1, <3>2
  <2>4. /\ line' = [line EXCEPT ![t] = line'[t]]
        /\ kind[t] \notin StockKinds => line'[t] = 1
        /\ charged' \in [Born \X Variants -> Nat]
        /\ blind' \subseteq Txns \X Variants
    BY <2>1 DEF StockInv, TypeInv
  <2> QED  BY <2>1, <2>2, <2>3, <2>4, StepTypes
<1> QED  BY <1>1, <1>2

LEMMA GoodsTypes ==
    ASSUME BooksInv, StockInv, MoneyInv', TypeInv, NEW t \in Txns,
           LockPool(t) \/ LockLayers(t) \/ Consume(t) \/ Receive(t) \/ Settle(t)
    PROVE  TypeInv'
<1>1. CASE \E rows : Wait(t, rows)
  BY <1>1, EasyTypes
<1>2. CASE ~\E rows : Wait(t, rows)
  <2>1. /\ UNCHANGED <<sessions, frozen, pools, docVars, sess, figure>>
        /\ \/ UNCHANGED charged
           \/ \E l, n : charged' = [charged EXCEPT ![l] = n]
        /\ \/ UNCHANGED line
           \/ \E first, after : NextLine(t, first, after)
        /\ \/ UNCHANGED blind
           \/ blind' = blind \cup {<<t, Nth(t)>>}
           \/ blind' = blind \cup {<<t, Line(t).v>>}
    BY <1>2, Zenon DEF LockPool, LockLayers, Consume, Receive, Settle, rowVars
  <2>2. kind[t] \in StockKinds
    BY DEF LockPool, LockLayers, Consume, Receive, Settle, BooksInv, TxnInv, StepsOf, Steps,
           ShapeInv, Kinds, StockKinds
  <2>3. line' = [line EXCEPT ![t] = line'[t]]
    <3>1. CASE UNCHANGED line
      BY <3>1 DEF StockInv
    <3>2. ASSUME NEW first, NEW after, NextLine(t, first, after)
          PROVE  line' = [line EXCEPT ![t] = line'[t]]
      BY <2>1, <2>2, <3>2, NextLineMoves DEF BooksInv
    <3> QED  BY <2>1, <3>1, <3>2
  <2>4. charged' \in [Born \X Variants -> Nat]
    BY <2>1 DEF TypeInv, MoneyInv
  <2>5. blind' \subseteq Txns \X Variants
    <3>1. Nth(t) \in Variants
      BY <2>2, NthIsOne DEF BooksInv
    <3>2. Line(t).v \in Variants
      BY <2>2, LineIsOf
    <3> QED  BY <2>1, <3>1, <3>2 DEF TypeInv
  <2>6. /\ UNCHANGED kind
        /\ sess' = [sess EXCEPT ![t] = sess'[t]] /\ sess'[t] \in 0..sessions
        /\ figure' = [figure EXCEPT ![t] = figure'[t]] /\ figure'[t] \in Int
    BY <2>1 DEF BooksInv, ShapeInv, TypeInv, docVars
  <2> QED  BY <2>1, <2>2, <2>3, <2>4, <2>5, <2>6, StepTypes
<1> QED  BY <1>1, <1>2

LEMMA CommitTypes ==
    ASSUME BooksInv, StockInv, TypeInv, NEW t \in Txns, Commit(t)
    PROVE  TypeInv'
<1>1. /\ UNCHANGED <<sessions, charged, kind, doc, sess, blind>> /\ pc[t] = "commit"
      /\ pools' = (IF kind[t] = "delivery" THEN pools \cup LineVariants(t) ELSE pools)
      /\ frozen' = (IF kind[t] = "close" THEN With(frozen, sess[t], figure[t]) ELSE frozen)
      /\ line' = [line EXCEPT ![t] = 1] /\ figure' = [figure EXCEPT ![t] = 0]
  BY DEF Commit, End, docVars
<1>2. pools' \subseteq Variants
  <2>1. kind[t] = "delivery" => LineVariants(t) \subseteq Variants
    BY NthIsOne DEF BooksInv, StockKinds
  <2> QED  BY <1>1, <2>1 DEF TypeInv
<1>3. DOMAIN frozen' \subseteq 1..sessions
  <2>1. CASE kind[t] = "close"
    <3>1. sess[t] \in 1..sessions
      BY <1>1, <2>1 DEF BooksInv, SessionInv, InSession, Steps, TypeInv
    <3>2. DOMAIN frozen' = DOMAIN frozen \cup {sess[t]}
      BY <1>1, <2>1 DEF With
    <3> QED  BY <3>1, <3>2 DEF TypeInv
  <2> QED  BY <1>1, <2>1 DEF TypeInv
<1>4. \A u \in Txns : kind'[u] \notin StockKinds => line'[u] = 1
  BY <1>1 DEF TypeInv, StockInv
<1>5. figure' \in [Txns -> Int]
  BY <1>1 DEF TypeInv
<1> QED  BY <1>1, <1>2, <1>3, <1>4, <1>5 DEF TypeInv

LEMMA TypesHold == Spec => []TypeInv
<1>1. Init => TypeInv
  BY InitTypes
<1>2. BooksInv /\ StockInv /\ MoneyInv' /\ TypeInv /\ [Next]_vars => TypeInv'
  <2> SUFFICES ASSUME BooksInv, StockInv, MoneyInv', TypeInv, [Next]_vars PROVE TypeInv'
    OBVIOUS
  <2>1. CASE UNCHANGED vars
    BY <2>1 DEF vars, rowVars, docVars, txnVars, TypeInv
  <2>2. CASE OpenSession
    <3>1. /\ sessions' = sessions + 1 /\ sessions \in Nat
          /\ UNCHANGED <<frozen, pools, charged, kind, line, figure, sess, blind>>
      BY <2>2, BooksAssumption DEF OpenSession, docVars, txnVars, BooksInv, ShapeInv
    <3>2. 1..sessions \subseteq 1..sessions' /\ 0..sessions \subseteq 0..sessions'
      BY <3>1
    <3> QED  BY <3>1, <3>2 DEF TypeInv
  <2>3. ASSUME NEW t \in Txns, BeginStock(t) \/ BeginCash(t) \/ BeginReturn(t)
        PROVE  TypeInv'
    <3>1. PICK k, d, u : Begins(t, k, d, u)
      BY <2>3, Zenon DEF BeginStock, BeginCash, BeginReturn
    <3>2. /\ UNCHANGED <<sessions, frozen, pools, charged, line, figure, sess, blind>>
          /\ kind' = [kind EXCEPT ![t] = k] /\ pc[t] = "none"
      BY <3>1 DEF Begins, rowVars
    <3>3. kind[t] = "none" /\ kind[t] \notin StockKinds
      BY <3>2 DEF BooksInv, TxnInv, StockKinds
    <3>4. \A s \in Txns : kind'[s] \notin StockKinds => line'[s] = 1
      BY <3>2, <3>3 DEF TypeInv, BooksInv, ShapeInv
    <3> QED  BY <3>2, <3>4 DEF TypeInv
  <2>4. ASSUME NEW t \in Txns, Step(t)
        PROVE  TypeInv'
    BY <2>4, EarlyTypes, GoodsTypes, CommitTypes DEF Step
  <2>5. ASSUME NEW t \in Txns, Rollback(t) \/ Victim(t)
        PROVE  TypeInv'
    BY <2>5, EasyTypes
  <2> QED  BY <2>1, <2>2, <2>3, <2>4, <2>5 DEF Next
<1> QED  BY <1>1, <1>2, BooksCorrect, StockCorrect, MoneyCorrect, PTL DEF Spec

\* Every variable keeps to its type.
THEOREM BooksTypeCorrect == Spec => []TypeOK
<1>1. ASSUME BooksInv, StockInv, MoneyInv, TypeInv PROVE TypeOK
  <2>1. Range(frozen) \subseteq Int
    <3> SUFFICES ASSUME NEW n \in DOMAIN frozen PROVE frozen[n] \in Int
      BY DEF Range
    <3>1. n \in Nat \ {0} /\ frozen[n] = Drawer(n)
      BY <1>1 DEF TypeInv, BooksInv, FrozenIsComplete, ShapeInv
    <3> QED  BY <1>1, <3>1, DrawerIsInt
  <2>2. Range(stock) \subseteq [qty : Int, cost : Nat]
    <3> SUFFICES ASSUME NEW r \in DOMAIN stock PROVE stock[r] \in [qty : Int, cost : Nat]
      BY DEF Range
    <3>1. stock[r] = [qty |-> stock[r].qty, cost |-> stock[r].cost]
      BY <1>1 DEF StockInv, RowInv
    <3>2. stock[r].qty \in Int /\ stock[r].cost \in Nat
      BY <1>1 DEF StockInv, RowInv, MoneyInv
    <3> DEFINE q == stock[r].qty
               c == stock[r].cost
    <3>3. stock[r] = [qty |-> q, cost |-> c] /\ q \in Int /\ c \in Nat
      BY <3>1, <3>2
    <3> HIDE DEF q, c
    <3> QED  BY <3>3
  <2>3. ledger \in Int
    <3> USE <1>1
    <3>1. \A r \in Rows : Booked[r] \in Int
      <4> SUFFICES ASSUME NEW r \in Rows, r \in DOMAIN stock
                   PROVE  Weigh(r, stock[r].qty) \in Int
        BY DEF Booked
      <4>1. stock[r].cost \in Nat /\ stock[r].qty \in Int
        BY DEF StockInv, RowInv, MoneyInv
      <4>2. \A n \in Int : Weigh(r, n) \in Int
        BY <4>1, WeighAdds
      <4> QED  BY <4>1, <4>2
    <3>2. Total(Booked) \in Int
      BY ONLY <3>1, RowsFinite, SumTakesOut DEF Total
    <3> QED  BY <3>2 DEF MoneyInv
  <2>4. \A t \in Txns : line[t] \in 1..(Len(doc[t]) + 1)
    <3> SUFFICES ASSUME NEW t \in Txns PROVE line[t] \in 1..(Len(doc[t]) + 1)
      OBVIOUS
    <3>1. CASE kind[t] \in StockKinds
      <4>1. line[t] \in 1..Len(doc[t]) /\ Len(doc[t]) \in Nat
        BY <1>1, <3>1, FirstLine DEF BooksInv
      <4> QED  BY <4>1
    <3>2. CASE kind[t] \notin StockKinds
      <4>1. line[t] = 1 /\ doc[t] \in Seq(Lines)
        BY <1>1, <3>2 DEF TypeInv, BooksInv, ShapeInv
      <4>2. Len(doc[t]) \in Nat
        BY <4>1, LenProperties
      <4> QED  BY <4>1, <4>2
    <3> QED  BY <3>1, <3>2
  <2>5. \A t \in Txns : DOMAIN drawn[t] \subseteq DOMAIN stock /\ Range(drawn[t]) \subseteq Nat
    <3> SUFFICES ASSUME NEW t \in Txns, NEW r \in DOMAIN drawn[t]
                 PROVE  r \in DOMAIN stock /\ drawn[t][r] \in Nat
      BY DEF Range
    <3>1. r \in DOMAIN stock /\ drawn[t][r] \in 0..stock[r].qty
      BY <1>1 DEF StockInv, DrawInv, Drawable
    <3> QED  BY <1>1, <3>1 DEF StockInv, RowInv
  <2>6. \A t \in Txns : pc[t] \notin Steps => held[t] \cup want[t] = {}
    BY <1>1 DEF BooksInv, TxnInv
  <2> QED  BY <1>1, <2>1, <2>2, <2>3, <2>4, <2>5, <2>6 DEF TypeOK, TypeInv, BooksInv, ShapeInv,
              MoneyInv
<1> QED  BY <1>1, BooksCorrect, StockCorrect, MoneyCorrect, TypesHold, PTL

-----------------------------------------------------------------------------
(* Sales queue.                                                            *)

\* The item whose rows a sale with these items locks k-th.
KthItem(S, k) == CHOOSE v \in S : Cardinality({w \in S : w <= v}) = k

\* Sale t holds the pool row of v, or took v with none there to hold.
Has(t, v) == Pool(v) \in held[t] \/ <<t, v>> \in blind

\* A sale takes its pool rows in the order of its items, and each before the
\* layers of its item.
SaleInv(t) ==
    /\ pc[t] = "session" => /\ held[t] = {} /\ line[t] = 1
                            /\ \A r \in want[t] : r[1] = "session"
    /\ pc[t] \in {"pool", "layers"} =>
          \A v \in LineVariants(t) : v < Nth(t) => Has(t, v)
    /\ pc[t] = "pool" =>
          /\ \A r \in held[t] : r[1] = "pool" => r[2] \in LineVariants(t) /\ r[2] < Nth(t)
          /\ want[t] \subseteq {Pool(Nth(t))}
    /\ pc[t] = "layers" =>
          /\ \A r \in held[t] : r[1] = "pool" => r[2] \in LineVariants(t) /\ r[2] <= Nth(t)
          /\ Has(t, Nth(t))
          /\ \A r \in want[t] : r[1] = "layer" /\ r[3] = Nth(t)
    /\ pc[t] = "consume" => \A v \in LineVariants(t) : Has(t, v)
    /\ pc[t] = "commit" => want[t] = {}
    /\ \A r \in held[t] : r[1] = "layer" => Has(t, r[3])

QueueInv == \A t \in Txns : kind[t] = "sale" => SaleInv(t)

LEMMA PoolRow == \A v : Pool(v)[1] = "pool" /\ Pool(v)[2] = v
  BY DEF Pool

LEMMA NthIsKth ==
    ASSUME NEW t
    PROVE  Nth(t) = KthItem(LineVariants(t), line[t])
  BY DEF Nth, KthItem

\* As long as a transaction stays on its line, its next item is the same.
LEMMA NthSame ==
    ASSUME NEW t, doc'[t] = doc[t], line'[t] = line[t]
    PROVE  LineVariants(t)' = LineVariants(t) /\ Nth(t)' = Nth(t)
<1>1. LineVariants(t)' = LineVariants(t)
  BY DEF LineVariants
<1>2. Nth(t)' = KthItem(LineVariants(t)', line'[t])
  BY DEF Nth, KthItem
<1>3. KthItem(LineVariants(t)', line'[t]) = KthItem(LineVariants(t), line[t])
  BY <1>1, Zenon
<1> QED  BY <1>1, <1>2, <1>3, NthIsKth

LEMMA OthersQueue ==
    ASSUME QueueInv, NEW t \in Txns, blind \subseteq blind',
           \A u \in Txns \ {t} : /\ kind'[u] = kind[u] /\ doc'[u] = doc[u] /\ pc'[u] = pc[u]
                                 /\ line'[u] = line[u] /\ held'[u] = held[u]
                                 /\ want'[u] = want[u],
           kind'[t] = "sale" => SaleInv(t)'
    PROVE  QueueInv'
<1>1. ASSUME NEW u \in Txns \ {t}, kind'[u] = "sale" PROVE SaleInv(u)'
  <2>1. LineVariants(u)' = LineVariants(u) /\ Nth(u)' = Nth(u)
    BY <1>1, NthSame
  <2>2. SaleInv(u)
    BY <1>1 DEF QueueInv
  <2>3. \A v : Has(u, v) => Has(u, v)'
    BY <1>1 DEF Has
  <2> QED  BY <1>1, <2>1, <2>2, <2>3 DEF SaleInv
<1>2. \A u \in Txns : kind'[u] = "sale" => SaleInv(u)'
  BY <1>1
<1> QED  BY <1>2 DEF QueueInv

\* A statement of t's that is over, and one that waits.
LEMMA EndQueues ==
    ASSUME BooksInv, StockInv, QueueInv, NEW t \in Txns, NEW how, how \notin Steps,
           End(t, how), UNCHANGED <<docVars, blind>> 
    PROVE  QueueInv'
<1>1. /\ UNCHANGED <<kind, doc, blind>> /\ pc' = [pc EXCEPT ![t] = how]
      /\ held' = [held EXCEPT ![t] = {}] /\ want' = [want EXCEPT ![t] = {}]
      /\ line' = [line EXCEPT ![t] = 1]
  BY DEF End, Goto, docVars
<1>2. pc'[t] = how /\ held'[t] = {}
  BY <1>1 DEF BooksInv, ShapeInv
<1>3. SaleInv(t)'
  BY <1>2 DEF SaleInv, Steps
<1>4. \A u \in Txns \ {t} : /\ kind'[u] = kind[u] /\ doc'[u] = doc[u] /\ pc'[u] = pc[u]
                            /\ held'[u] = held[u] /\ want'[u] = want[u] /\ line'[u] = line[u]
  BY <1>1 DEF BooksInv, ShapeInv, StockInv
<1> QED  BY <1>1, <1>3, <1>4, OthersQueue

LEMMA WaitQueues ==
    ASSUME BooksInv, QueueInv, NEW t \in Txns, NEW rows, Wait(t, rows),
           kind[t] = "sale" =>
              /\ pc[t] = "session" => \A r \in rows : r[1] = "session"
              /\ pc[t] = "pool" => rows \subseteq {Pool(Nth(t))}
              /\ pc[t] = "layers" => \A r \in rows : r[1] = "layer" /\ r[3] = Nth(t)
              /\ pc[t] # "commit"
    PROVE  QueueInv'
<1>1. /\ UNCHANGED <<kind, doc, pc, line, held, blind>>
      /\ want' = [want EXCEPT ![t] = rows]
  BY DEF Wait, docVars
<1>2. want'[t] = rows /\ \A u \in Txns \ {t} : want'[u] = want[u]
  BY <1>1 DEF BooksInv, ShapeInv
<1>3. LineVariants(t)' = LineVariants(t) /\ Nth(t)' = Nth(t)
  BY <1>1, NthSame
<1>4. kind'[t] = "sale" => SaleInv(t)'
  BY <1>1, <1>2, <1>3 DEF SaleInv, QueueInv, Has
<1> QED  BY <1>1, <1>2, <1>4, OthersQueue

LEMMA InitQueue == Init => QueueInv
  BY DEF Init, QueueInv

LEMMA BeginQueues ==
    ASSUME BooksInv, StockInv, QueueInv, NEW t \in Txns, NEW k, NEW d, NEW u,
           Begins(t, k, d, u)
    PROVE  QueueInv'
<1>1. /\ pc[t] = "none" /\ UNCHANGED <<held, want, line, blind>>
      /\ kind' = [kind EXCEPT ![t] = k] /\ doc' = [doc EXCEPT ![t] = d]
      /\ pc' = [pc EXCEPT ![t] = CASE k = "issue" -> "consume" [] k = "delivery" -> "receive"
                                   [] OTHER -> "session"]
  BY DEF Begins, Goto
<1>2. /\ \A s \in Txns \ {t} : pc'[s] = pc[s] /\ kind'[s] = kind[s] /\ doc'[s] = doc[s]
      /\ kind'[t] = k /\ (k = "sale" => pc'[t] = "session")
  BY <1>1 DEF BooksInv, ShapeInv
<1>3. held[t] = {} /\ want[t] = {} /\ line[t] = 1
  BY <1>1 DEF BooksInv, TxnInv, StockInv, LineInv, Steps
<1>4. kind'[t] = "sale" => SaleInv(t)'
  BY <1>1, <1>2, <1>3 DEF SaleInv
<1> QED  BY <1>1, <1>2, <1>4, OthersQueue

LEMMA TakeSessionQueues ==
    ASSUME BooksInv, StockInv, QueueInv, NEW t \in Txns, TakeSession(t)
    PROVE  QueueInv'
<1>1. pc[t] = "session" /\ \A r \in SessionRows : r[1] = "session"
  BY RowKinds DEF TakeSession, SessionRows
<1>2. CASE Wait(t, SessionRows)
  BY <1>1, <1>2, WaitQueues
<1>3. CASE Refuse(t)
  BY <1>3, EndQueues, GivenUp DEF Refuse
<1>4. CASE Lock(t, SessionRows) /\ ~Wait(t, SessionRows) /\ ~Refuse(t)
  <2>1. /\ UNCHANGED <<kind, doc, line, blind>> /\ pc' = [pc EXCEPT ![t] = AfterSession(t)]
    BY <1>4 DEF TakeSession, docVars, Goto
  <2>2. /\ pc'[t] = AfterSession(t)
        /\ held' = [held EXCEPT ![t] = held'[t]] /\ held'[t] = held[t] \cup Asked(t, SessionRows)
        /\ want' = [want EXCEPT ![t] = {}] /\ want'[t] = {}
    BY <1>4, <2>1, LockAdds DEF BooksInv, ShapeInv
  <2>3. \A u \in Txns \ {t} : pc'[u] = pc[u] /\ held'[u] = held[u] /\ want'[u] = want[u]
    BY <2>1, <2>2 DEF BooksInv, ShapeInv
  <2>4. ASSUME kind[t] = "sale" PROVE SaleInv(t)'
    <3>1. pc'[t] = "pool"
      BY <2>2, <2>4 DEF AfterSession
    <3>2. SaleInv(t) /\ kind[t] \in StockKinds
      BY <2>4 DEF QueueInv, StockKinds
    <3>3. \A r \in held'[t] : r[1] = "session"
      BY <1>1, <2>2, <3>2 DEF SaleInv, Asked
    <3>4. \A v \in LineVariants(t) : ~(v < Nth(t))
      <4>1. /\ LineVariants(t) \subseteq Int /\ IsFiniteSet(LineVariants(t))
            /\ Nth(t) \in LineVariants(t)
            /\ Cardinality({w \in LineVariants(t) : w <= Nth(t)}) = 1
        BY <1>1, <3>2, NthIsOne DEF SaleInv, BooksInv
      <4>2. \A v \in LineVariants(t) : Nth(t) <= v
        BY ONLY <4>1, FirstOfSet
      <4> QED  BY <4>1, <4>2
    <3>5. LineVariants(t)' = LineVariants(t) /\ Nth(t)' = Nth(t)
      BY <2>1, NthSame
    <3> QED  BY <2>2, <3>1, <3>3, <3>4, <3>5 DEF SaleInv
  <2> QED  BY <2>1, <2>3, <2>4, OthersQueue
<1> QED  BY <1>2, <1>3, <1>4 DEF TakeSession

LEMMA LockPoolQueues ==
    ASSUME BooksInv, StockInv, QueueInv, NEW t \in Txns, LockPool(t)
    PROVE  QueueInv'
<1>1. pc[t] = "pool" /\ PoolRows(t) = {Pool(v) : v \in {Nth(t)} \cap pools}
  BY DEF LockPool, PoolRows
<1>2. PoolRows(t) \subseteq {Pool(Nth(t))} /\ (Nth(t) \in pools => Pool(Nth(t)) \in PoolRows(t))
  BY <1>1
<1>3. kind[t] = "sale"
  BY <1>1 DEF BooksInv, TxnInv, StepsOf, Steps, ShapeInv, Kinds
<1>4. CASE Wait(t, PoolRows(t))
  BY <1>1, <1>2, <1>4, WaitQueues
<1>5. CASE ~Wait(t, PoolRows(t))
  <2>1. /\ Lock(t, PoolRows(t)) /\ UNCHANGED <<kind, doc, line>>
        /\ pc' = [pc EXCEPT ![t] = "layers"]
        /\ blind' = IF Nth(t) \in pools THEN blind ELSE blind \cup {<<t, Nth(t)>>}
    BY <1>5 DEF LockPool, docVars, Goto
  <2>2. /\ pc'[t] = "layers"
        /\ held' = [held EXCEPT ![t] = held'[t]] /\ held'[t] = held[t] \cup Asked(t, PoolRows(t))
        /\ want' = [want EXCEPT ![t] = {}] /\ want'[t] = {}
    BY <2>1, LockAdds DEF BooksInv, ShapeInv
  <2>3. \A u \in Txns \ {t} : pc'[u] = pc[u] /\ held'[u] = held[u] /\ want'[u] = want[u]
    BY <2>1, <2>2 DEF BooksInv, ShapeInv
  <2>4. SaleInv(t)
    BY <1>3 DEF QueueInv
  <2>5. /\ Asked(t, PoolRows(t)) \subseteq {Pool(Nth(t))}
        /\ Nth(t) \in pools => Pool(Nth(t)) \in Asked(t, PoolRows(t))
    BY <1>1, <1>2, <2>4 DEF SaleInv, Asked
  <2>6. /\ Nth(t) \in LineVariants(t) /\ LineVariants(t) \subseteq Int
        /\ LineVariants(t)' = LineVariants(t) /\ Nth(t)' = Nth(t)
    <3>1. Nth(t) \in LineVariants(t) /\ LineVariants(t) \subseteq Int
      BY <1>3, NthIsOne DEF BooksInv, StockKinds
    <3> QED  BY <2>1, <3>1, NthSame
  <2>7. \A v : Has(t, v) => Has(t, v)'
    BY <2>1, <2>2 DEF Has
  <2>8. Has(t, Nth(t))'
    BY <2>1, <2>2, <2>5, <2>6 DEF Has
  <2>9. \A r \in held'[t] : r[1] = "pool" => r[2] \in LineVariants(t) /\ r[2] <= Nth(t)
    <3> SUFFICES ASSUME NEW r \in held'[t], r[1] = "pool"
                 PROVE  r[2] \in LineVariants(t) /\ r[2] <= Nth(t)
      OBVIOUS
    <3>1. CASE r \in held[t]
      <4>1. r[2] \in LineVariants(t) /\ r[2] < Nth(t)
        BY <1>1, <2>4, <3>1 DEF SaleInv
      <4> QED  BY <2>6, <4>1
    <3>2. CASE r = Pool(Nth(t))
      BY <2>6, <3>2, PoolRow
    <3> QED  BY <2>2, <2>5, <3>1, <3>2
  <2>10. \A r \in held'[t] : r[1] = "layer" => Has(t, r[3])'
    <3>1. \A r \in held'[t] : r[1] = "layer" => r \in held[t]
      BY <2>2, <2>5, PoolRow
    <3> QED  BY <2>4, <2>7, <3>1 DEF SaleInv
  <2>11. SaleInv(t)'
    BY <1>1, <2>2, <2>4, <2>6, <2>7, <2>8, <2>9, <2>10 DEF SaleInv
  <2> QED  BY <2>1, <2>3, <2>11, OthersQueue
<1> QED  BY <1>4, <1>5

LEMMA LockLayersQueues ==
    ASSUME BooksInv, StockInv, QueueInv, NEW t \in Txns, LockLayers(t)
    PROVE  QueueInv'
<1> DEFINE rows == OpenRows(t, "layer", Nth(t))
<1>1. pc[t] = "layers" /\ \A r \in rows : r[1] = "layer" /\ r[3] = Nth(t)
  BY DEF LockLayers, OpenRows
<1>2. kind[t] = "sale" /\ kind[t] \in StockKinds
  BY <1>1 DEF BooksInv, TxnInv, StepsOf, Steps, ShapeInv, Kinds, StockKinds
<1>3. CASE Wait(t, rows)
  BY <1>1, <1>3, WaitQueues
<1>4. CASE ~Wait(t, rows)
  <2>1. /\ Lock(t, rows) /\ NextLine(t, "pool", "consume")
        /\ UNCHANGED <<docVars, kind, doc, blind>>
    BY <1>4 DEF LockLayers, docVars
  <2> HIDE DEF rows
  <2>2. /\ held' = [held EXCEPT ![t] = held'[t]] /\ held'[t] = held[t] \cup Asked(t, rows)
        /\ want' = [want EXCEPT ![t] = {}] /\ want'[t] = {}
    BY <2>1, LockAdds DEF BooksInv, ShapeInv
  <2>3. /\ pc' = [pc EXCEPT ![t] = pc'[t]] /\ line' = [line EXCEPT ![t] = line'[t]]
        /\ LineInv(t)'
        /\ \/ pc'[t] = "pool" /\ line'[t] = line[t] + 1
           \/ pc'[t] = "consume" /\ line'[t] = 1
    BY <1>2, <2>1, NextLineMoves DEF BooksInv
  <2>4. \A u \in Txns \ {t} : /\ pc'[u] = pc[u] /\ held'[u] = held[u] /\ want'[u] = want[u]
                              /\ line'[u] = line[u]
    BY <2>2, <2>3 DEF BooksInv, ShapeInv, StockInv
  <2>5. SaleInv(t)
    BY <1>2 DEF QueueInv
  <2>6. /\ LineVariants(t) \subseteq Int /\ IsFiniteSet(LineVariants(t))
        /\ Nth(t) \in LineVariants(t) /\ Nth(t) \in Int
        /\ Cardinality({w \in LineVariants(t) : w <= Nth(t)}) = line[t]
    BY <1>2, NthIsOne DEF BooksInv
  <2>7. \A v \in LineVariants(t) : v <= Nth(t) => Has(t, v)
    <3> SUFFICES ASSUME NEW v \in LineVariants(t), v <= Nth(t) PROVE Has(t, v)
      OBVIOUS
    <3>1. v < Nth(t) \/ v = Nth(t)
      BY <2>6
    <3> QED  BY <1>1, <2>5, <3>1 DEF SaleInv
  <2>8. \A v : Has(t, v) => Has(t, v)'
    BY <2>1, <2>2 DEF Has
  <2>9. \A r \in held'[t] : r[1] = "layer" => Has(t, r[3])'
    <3>1. \A r \in Asked(t, rows) : r[1] = "layer" /\ r[3] = Nth(t)
      BY <1>1, <2>5 DEF SaleInv, Asked
    <3>2. \A r \in held[t] : r[1] = "layer" => Has(t, r[3])
      BY <2>5 DEF SaleInv
    <3>3. Has(t, Nth(t))
      BY <1>1, <2>5 DEF SaleInv
    <3> QED  BY <2>2, <2>8, <3>1, <3>2, <3>3
  <2>10. \A r \in held'[t] : r[1] = "pool" => r[2] \in LineVariants(t) /\ r[2] <= Nth(t)
    <3>1. \A r \in Asked(t, rows) : r[1] = "layer"
      BY <1>1, <2>5 DEF SaleInv, Asked
    <3>2. \A r \in held[t] : r[1] = "pool" => r[2] \in LineVariants(t) /\ r[2] <= Nth(t)
      BY <1>1, <2>5 DEF SaleInv
    <3> QED  BY <2>2, <3>1, <3>2
  <2>11. LineVariants(t)' = LineVariants(t)
    BY <2>1 DEF LineVariants
  <2>12. ASSUME pc'[t] = "pool" PROVE SaleInv(t)'
    <3>1. line'[t] = line[t] + 1
      BY <2>3, <2>12
    <3>2. /\ Nth(t)' \in LineVariants(t)
          /\ Cardinality({w \in LineVariants(t) : w <= Nth(t)'}) = line[t] + 1
      <4>1. doc[t] \in Seq(Lines) /\ doc[t] \in Documents /\ line'[t] \in DOMAIN doc[t]
        BY <1>2, <2>1, <2>3, FirstLine DEF LineInv, BooksInv, ShapeInv
      <4>2. \E v \in LineVariants(t) : Cardinality({w \in LineVariants(t) : w <= v}) = line'[t]
        BY <1>2, <2>6, <4>1, KthItemIs DEF BooksInv
      <4>3. Nth(t)' = KthItem(LineVariants(t), line'[t])
        <5>1. Nth(t)' = KthItem(LineVariants(t)', line'[t])
          BY DEF Nth, KthItem
        <5> QED  BY <2>11, <5>1, Zenon
      <4> QED  BY <3>1, <4>2, <4>3 DEF KthItem
    <3>3. Nth(t) < Nth(t)' /\ \A v \in LineVariants(t) : v < Nth(t)' => v <= Nth(t)
      BY ONLY <2>6, <3>2, NextOfSet
    <3>4. Nth(t)' \in Int
      BY <2>6, <3>2
    <3>5. \A r \in held'[t] : r[1] = "pool" => r[2] \in LineVariants(t) /\ r[2] < Nth(t)'
      <4> SUFFICES ASSUME NEW r \in held'[t], r[1] = "pool"
                   PROVE  r[2] \in LineVariants(t) /\ r[2] < Nth(t)'
        OBVIOUS
      <4>1. r[2] \in LineVariants(t) /\ r[2] <= Nth(t)
        BY <2>10
      <4>2. r[2] \in Int
        BY <2>6, <4>1
      <4> QED  BY <2>6, <3>3, <3>4, <4>1, <4>2
    <3> QED  BY <2>2, <2>7, <2>8, <2>9, <2>11, <2>12, <3>3, <3>5 DEF SaleInv
  <2>13. ASSUME pc'[t] = "consume" PROVE SaleInv(t)'
    <3>1. line[t] = Len(doc[t])
      BY <1>2, <2>1, <2>13, FirstLine DEF NextLine, Goto, BooksInv, ShapeInv
    <3>2. \A v \in LineVariants(t) : v <= Nth(t)
      <4>1. Cardinality({w \in LineVariants(t) : w <= Nth(t)}) = Cardinality(LineVariants(t))
        BY <1>2, <2>6, <3>1, KthItemIs DEF BooksInv
      <4> QED  BY ONLY <2>6, <4>1, LastOfSet
    <3> QED  BY <2>2, <2>7, <2>8, <2>9, <2>11, <2>13, <3>2 DEF SaleInv
  <2>14. SaleInv(t)'
    BY <2>3, <2>12, <2>13
  <2> QED  BY <2>1, <2>4, <2>14, OthersQueue
<1> QED  BY <1>3, <1>4

LEMMA ConsumeQueues ==
    ASSUME BooksInv, StockInv, QueueInv, NEW t \in Txns, Consume(t)
    PROVE  QueueInv'
<1> DEFINE rows == OpenRows(t, "layer", Line(t).v)
<1>1. /\ pc[t] = "consume" /\ \A r \in rows : r[1] = "layer" /\ r[3] = Line(t).v
      /\ rows = OpenRows(t, "layer", Line(t).v)
  BY DEF Consume, OpenRows
<1>2. kind[t] \in StockKinds
  BY <1>1 DEF BooksInv, TxnInv, StepsOf, Steps, ShapeInv, Kinds, StockKinds
<1>3. CASE Wait(t, rows)
  BY <1>1, <1>3, WaitQueues
<1>4. CASE ~Wait(t, rows)
  <2> HIDE DEF rows
  <2>1. /\ Lock(t, rows) /\ NextLine(t, "consume", "commit")
        /\ UNCHANGED docVars
        /\ blind' = IF kind[t] = "sale" THEN blind ELSE blind \cup {<<t, Line(t).v>>}
    BY <1>4 DEF Consume, rows
  <2>2. UNCHANGED <<kind, doc>> /\ blind \subseteq blind'
    BY <2>1 DEF docVars
  <2>3. /\ held' = [held EXCEPT ![t] = held'[t]] /\ held'[t] = held[t] \cup Asked(t, rows)
        /\ want' = [want EXCEPT ![t] = {}] /\ want'[t] = {}
    BY <2>1, LockAdds DEF BooksInv, ShapeInv
  <2>4. /\ pc' = [pc EXCEPT ![t] = pc'[t]] /\ line' = [line EXCEPT ![t] = line'[t]]
        /\ \/ pc'[t] = "consume"
           \/ pc'[t] = "commit"
    BY <1>2, <2>1, NextLineMoves DEF BooksInv
  <2>5. \A u \in Txns \ {t} : /\ pc'[u] = pc[u] /\ held'[u] = held[u] /\ want'[u] = want[u]
                              /\ line'[u] = line[u]
    BY <2>3, <2>4 DEF BooksInv, ShapeInv, StockInv
  <2>6. ASSUME kind[t] = "sale" PROVE SaleInv(t)'
    <3>1. SaleInv(t)
      BY <2>6 DEF QueueInv
    <3>2. \A v : Has(t, v) => Has(t, v)'
      BY <2>2, <2>3 DEF Has
    <3>3. LineVariants(t)' = LineVariants(t)
      BY <2>2 DEF LineVariants
    <3>4. Line(t).v \in LineVariants(t)
      <4>1. line[t] \in DOMAIN doc[t]
        BY <1>2, FirstLine DEF BooksInv
      <4> QED  BY <4>1 DEF LineVariants, Line
    <3>5. \A r \in Asked(t, rows) : r[3] = Line(t).v
      BY <1>1 DEF Asked, StockInv, DrawInv
    <3>6. \A r \in held'[t] : r[1] = "layer" => Has(t, r[3])'
      BY <1>1, <2>3, <3>1, <3>2, <3>4, <3>5 DEF SaleInv
    <3>7. \A v \in LineVariants(t) : Has(t, v)'
      BY <1>1, <3>1, <3>2 DEF SaleInv
    <3> QED  BY <2>3, <2>4, <3>3, <3>6, <3>7 DEF SaleInv
  <2> QED  BY <2>2, <2>5, <2>6, OthersQueue
<1> QED  BY <1>3, <1>4

\* A statement of a document that is no sale.
LEMMA NoSaleQueues ==
    ASSUME BooksInv, StockInv, QueueInv, NEW t \in Txns, kind[t] # "sale",
           UNCHANGED <<docVars, blind>>,
           pc' = [pc EXCEPT ![t] = pc'[t]], line' = [line EXCEPT ![t] = line'[t]],
           held' = [held EXCEPT ![t] = held'[t]], want' = [want EXCEPT ![t] = want'[t]]
    PROVE  QueueInv'
<1>1. UNCHANGED <<kind, doc, blind>>
  BY DEF docVars
<1>2. \A u \in Txns \ {t} : /\ pc'[u] = pc[u] /\ held'[u] = held[u]
                            /\ want'[u] = want[u] /\ line'[u] = line[u]
  BY DEF BooksInv, ShapeInv, StockInv
<1> QED  BY <1>1, <1>2, OthersQueue

LEMMA OtherStepsQueue ==
    ASSUME BooksInv, StockInv, QueueInv, NEW t \in Txns,
           Count(t) \/ Receive(t) \/ Settle(t) \/ Restore(t) \/ Number(t)
    PROVE  QueueInv'
<1>1. pc[t] \in {"count", "receive", "settle", "restore", "number"}
  BY DEF Count, Receive, Settle, Restore, Number
<1>2. kind[t] # "sale"
  BY <1>1 DEF BooksInv, TxnInv, StepsOf, Steps
<1>3. CASE Refuse(t)
  BY <1>3, EndQueues, GivenUp DEF Refuse
<1>4. CASE \E rows : Wait(t, rows)
  <2>1. PICK rows : Wait(t, rows)
    BY <1>4
  <2> QED  BY <1>2, <2>1, WaitQueues
<1>5. CASE ~Refuse(t) /\ ~\E rows : Wait(t, rows)
  <2>1. UNCHANGED <<docVars, blind>>
    BY <1>5 DEF Count, Receive, Settle, Restore, Number, docVars
  <2>2. /\ pc' = [pc EXCEPT ![t] = pc'[t]] /\ line' = [line EXCEPT ![t] = line'[t]]
    BY <1>5 DEF Count, Receive, Settle, Restore, Number, Goto, NextLine, BooksInv, ShapeInv,
                StockInv
  <2>3. held' = [held EXCEPT ![t] = held'[t]] /\ want' = [want EXCEPT ![t] = want'[t]]
    BY <1>5 DEF Count, Receive, Settle, Restore, Number, Lock, BooksInv, ShapeInv
  <2> QED  BY <1>2, <2>1, <2>2, <2>3, NoSaleQueues
<1> QED  BY <1>3, <1>4, <1>5

LEMMA QueueCorrect == Spec => []QueueInv
<1>1. BooksInv /\ StockInv /\ QueueInv /\ [Next]_vars => QueueInv'
  <2> SUFFICES ASSUME BooksInv, StockInv, QueueInv, [Next]_vars PROVE QueueInv'
    OBVIOUS
  <2>1. CASE UNCHANGED vars \/ OpenSession
    <3>1. UNCHANGED <<kind, doc, pc, line, held, want, blind>>
      BY <2>1 DEF vars, rowVars, docVars, txnVars, OpenSession
    <3>2. \A t \in Txns : LineVariants(t)' = LineVariants(t) /\ Nth(t)' = Nth(t)
      BY <3>1, NthSame
    <3> QED  BY <3>1, <3>2 DEF QueueInv, SaleInv, Has
  <2>2. ASSUME NEW t \in Txns, BeginStock(t) \/ BeginCash(t) \/ BeginReturn(t)
        PROVE  QueueInv'
    <3>1. PICK k, d, u : Begins(t, k, d, u)
      BY <2>2 DEF BeginStock, BeginCash, BeginReturn
    <3> QED  BY <3>1, BeginQueues
  <2>3. ASSUME NEW t \in Txns, Step(t)
        PROVE  QueueInv'
    <3>1. CASE Commit(t)
      <4>1. End(t, "committed") /\ UNCHANGED <<docVars, blind>> /\ "committed" \notin Steps
        BY <3>1 DEF Commit, Steps
      <4> QED  BY <4>1, EndQueues
    <3> QED  BY <2>3, <3>1, TakeSessionQueues, OtherStepsQueue, LockPoolQueues,
                LockLayersQueues, ConsumeQueues DEF Step
  <2>4. ASSUME NEW t \in Txns, Rollback(t) \/ Victim(t)
        PROVE  QueueInv'
    <3>1. \E how \in {"refused", "rolled back"} : End(t, how) /\ UNCHANGED <<docVars, blind>>
      BY <2>4, Zenon DEF Rollback, Victim
    <3>2. PICK how : /\ how \notin Steps \cup {"none", "committed"}
                     /\ End(t, how) /\ UNCHANGED <<docVars, blind>>
      BY <3>1, GivenUp, Zenon
    <3> QED  BY <3>2, EndQueues
  <2> QED  BY <2>1, <2>2, <2>3, <2>4 DEF Next
<1> QED  BY <1>1, InitQueue, BooksCorrect, StockCorrect, PTL DEF Spec

\* Whom a sale that found all its pool rows waits for, among such sales: only
\* one that waits for a pool row does, and only for those past that row.
LEMMA SaleWaits ==
    ASSUME BooksInv, StockInv, QueueInv, NEW u \in Running, NEW w \in Blockers(u),
           kind[u] = "sale", kind[w] = "sale",
           \A v \in Variants : <<u, v>> \notin blind /\ <<w, v>> \notin blind
    PROVE  /\ w \in Running /\ pc[u] = "pool"
           /\ pc[w] = "pool" => Nth(u) < Nth(w)
<1>1. PICK r \in want[u] : w \in Holders(u, r)
  BY DEF Blockers
<1>2. w \in Running \ {u} /\ r \in held[w] /\ Conflict(u, w, r)
  BY <1>1 DEF Holders
<1>3. u \in Txns /\ w \in Txns /\ u # w
  BY <1>2 DEF Running
<1>4. SaleInv(u) /\ SaleInv(w) /\ kind[u] \in StockKinds /\ kind[w] \in StockKinds
  BY <1>3 DEF QueueInv, StockKinds
<1>5. r[1] # "session"
  BY <1>2 DEF Conflict
<1>6. pc[u] \in {"session", "pool", "layers", "consume", "commit"}
  BY <1>3 DEF Running, BooksInv, TxnInv, StepsOf
<1>7. /\ LineVariants(u) \subseteq Variants /\ LineVariants(w) \subseteq Variants
      /\ Nth(u) \in LineVariants(u)
  BY <1>3, <1>4, NthIsOne DEF BooksInv
<1>8. ASSUME r[1] = "layer", r[3] \in LineVariants(u), Has(u, r[3]) PROVE FALSE
  <2>1. r[3] \in Variants
    BY <1>7, <1>8
  <2>2. Has(w, r[3])
    BY <1>2, <1>4, <1>8 DEF SaleInv
  <2>3. Pool(r[3]) \in held[u] \cap held[w]
    BY <1>8, <2>1, <2>2 DEF Has
  <2>4. Conflict(u, w, Pool(r[3]))
    BY PoolRow DEF Conflict
  <2> QED  BY <1>3, <2>3, <2>4 DEF BooksInv, LockInv
<1>9. pc[u] # "session" /\ pc[u] # "commit"
  BY <1>1, <1>4, <1>5 DEF SaleInv
<1>10. pc[u] # "layers"
  BY <1>1, <1>4, <1>7, <1>8 DEF SaleInv
<1>11. pc[u] # "consume"
  <2> SUFFICES ASSUME pc[u] = "consume" PROVE FALSE
    OBVIOUS
  <2>1. r[1] = "layer" /\ r[3] = Line(u).v
    BY <1>1, <1>3 DEF StockInv, DrawInv
  <2>2. line[u] \in DOMAIN doc[u]
    BY <1>3, <1>4, FirstLine DEF BooksInv
  <2>3. Line(u).v \in LineVariants(u)
    BY <2>2 DEF LineVariants, Line
  <2> QED  BY <1>4, <1>8, <2>1, <2>3 DEF SaleInv
<1>12. pc[u] = "pool"
  BY <1>6, <1>9, <1>10, <1>11
<1>13. r = Pool(Nth(u))
  BY <1>1, <1>4, <1>12 DEF SaleInv
<1>14. pc[w] = "pool" => Nth(u) < Nth(w)
  BY <1>2, <1>4, <1>13, PoolRow DEF SaleInv
<1> QED  BY <1>2, <1>12, <1>14

\* Sales that share items queue, whatever the order their lines were rung in:
\* none waits for itself through others, as long as each found the pool rows
\* of its items (store.go:560).
THEOREM SalesQueueHolds == Spec => []SalesQueue
<1>1. ASSUME BooksInv, StockInv, QueueInv PROVE SalesQueue
  <2> DEFINE sales == {t \in Running : /\ kind[t] = "sale"
                                       /\ \A v \in Variants : <<t, v>> \notin blind}
  <2> SUFFICES ASSUME NEW t \in sales, OnCycle(t, sales) PROVE FALSE
    BY DEF SalesQueue
  <2>1. \A u \in sales : \A w \in Blockers(u) \cap sales :
           pc[u] = "pool" /\ (pc[w] = "pool" => Nth(u) < Nth(w))
    BY <1>1, SaleWaits
  <2>2. \A u \in sales : pc[u] = "pool" => Nth(u) \in Int
    <3> SUFFICES ASSUME NEW u \in sales PROVE Nth(u) \in Int
      OBVIOUS
    <3>1. u \in Txns /\ kind[u] \in StockKinds
      BY DEF Running, StockKinds
    <3> QED  BY <1>1, <3>1, NthIsOne DEF BooksInv
  <2> HIDE DEF sales
  <2>3. \A X \in SUBSET sales :
           (\A u \in X \cup {t} : Blockers(u) \cap sales \subseteq X) => t \in X
    BY DEF OnCycle
  <2>4. CASE pc[t] = "pool"
    <3> DEFINE X == {u \in sales : pc[u] = "pool" => Nth(t) < Nth(u)}
    <3>1. ASSUME NEW u \in X \cup {t}, NEW w \in Blockers(u) \cap sales PROVE w \in X
      <4>1. u \in sales /\ pc[u] = "pool" /\ (pc[w] = "pool" => Nth(u) < Nth(w))
        BY <2>1, <3>1
      <4>2. u = t \/ Nth(t) < Nth(u)
        BY <4>1, <3>1
      <4>3. pc[w] = "pool" => Nth(t) < Nth(w)
        BY <2>2, <2>4, <4>1, <4>2
      <4> QED  BY <4>3
    <3>2. t \notin X
      BY <2>2, <2>4
    <3>3. X \in SUBSET sales
      OBVIOUS
    <3> HIDE DEF X
    <3> QED  BY <2>3, <3>1, <3>2, <3>3
  <2>5. CASE pc[t] # "pool"
    <3>1. Blockers(t) \cap sales = {}
      BY <2>1, <2>5
    <3>2. {} \in SUBSET sales
      OBVIOUS
    <3> QED  BY <2>3, <3>1, <3>2
  <2> QED  BY <2>4, <2>5
<1> QED  BY <1>1, BooksCorrect, StockCorrect, QueueCorrect, PTL

-----------------------------------------------------------------------------
(* Units owed and units on the shelf.                                      *)

\* The layers of v that t counts on, its own with them; what returns bring
\* back is not among them.
Goods(t, v) == {r \in DOMAIN stock : /\ r[1] = "layer" /\ r[3] = v
                                     /\ r[2] \in Committed \cup {t}
                                     /\ r[2] = 0 \/ kind[r[2]] # "return"}

\* The holes of v that sales with its pool row in hand have left.
Debts(v) == {r \in DOMAIN stock : /\ r[1] = "hole" /\ r[3] = v /\ r[2] \in Committed
                                  /\ <<r[2], v>> \notin blind}

Spent(t, S) == \A r \in S : Left(t, r) = 0

\* A statement that waits waits for all of S there is anything left of.
Asking(t, S) == want[t] # {} => \A r \in S : Left(t, r) > 0 => r \in want[t]

\* A sale leaves a hole once it has the goods all drawn, and a delivery is past
\* an item once it has settled the debts or drawn the goods; the pool row keeps
\* either so to the end.
DebtInv(t) ==
    t \in Running =>
      /\ \A r \in DOMAIN stock :
            /\ r[2] = t /\ r[1] = "hole" /\ <<t, r[3]>> \notin blind =>
                  Pool(r[3]) \in held[t] /\ Spent(t, Goods(t, r[3]))
            /\ r[2] = t /\ r[1] = "layer" /\ kind[t] # "return" =>
                  /\ Pool(r[3]) \in held[t]
                  /\ \/ pc[t] = "settle" /\ r[3] = Line(t).v
                     \/ Spent(t, Debts(r[3]))
                     \/ Spent(t, Goods(t, r[3]))
      /\ pc[t] = "receive" => want[t] \subseteq {Pool(Line(t).v)}
      /\ pc[t] = "consume" /\ kind[t] = "sale" /\ <<t, Line(t).v>> \notin blind =>
            Asking(t, Goods(t, Line(t).v))
      /\ pc[t] = "settle" =>
            /\ Pool(Line(t).v) \in held[t]
            /\ Asking(t, Debts(Line(t).v) \cup Goods(t, Line(t).v))

OwedInv == NoHoleBesideStock /\ \A t \in Txns : DebtInv(t)
-----------------------------------------------------------------------------

LEMMA LeftIsNat ==
    ASSUME StockInv, NEW t \in Txns, NEW r \in DOMAIN stock
    PROVE  Left(t, r) \in Nat
<1>1. stock[r].qty \in Nat
  BY DEF StockInv, RowInv
<1>2. Drawn(t, r) \in 0..stock[r].qty
  BY <1>1 DEF Drawn, StockInv, DrawInv
<1> DEFINE q == stock[r].qty
<1>3. q \in Nat /\ Drawn(t, r) \in 0..q
  BY <1>1, <1>2
<1> HIDE DEF q
<1>4. q - Drawn(t, r) \in Nat
  BY <1>3
<1> QED  BY <1>4 DEF Left, q

\* Asked for as many units as there are, or more, a draw takes them all.
LEMMA DrawAll ==
    ASSUME NEW t, NEW S, S \subseteq Rows, \A r \in S : Left(t, r) \in Nat,
           NEW n \in Int, Units(t, S) <= n, NEW r \in S
    PROVE  Draw(t, S, n)[r] = Left(t, r)
<1> DEFINE B == {x \in S : x[2] < r[2]}
           f == [x \in S |-> Left(t, x)]
           g == [x \in B |-> Left(t, x)]
<1>1. r \notin B /\ B \in SUBSET S /\ r[2] \in Int
  BY BooksAssumption DEF Rows, Born
<1>2. /\ IsFiniteSet(S) /\ IsFiniteSet(B) /\ IsFiniteSet(B \cup {r})
      /\ IsFiniteSet(S \ (B \cup {r}))
  <2>1. S \in SUBSET Rows
    OBVIOUS
  <2> QED  BY <1>1, <2>1, RowsFinite, FS_Subset
<1>3. Units(t, S) = SumFunctionOnSet(f, S) /\ Units(t, B) = SumFunctionOnSet(g, B)
  BY DEF Units, SumFunction
<1>4. /\ \A x \in S : f[x] \in Nat
      /\ \A x \in B : f[x] = g[x]
      /\ f[r] = Left(t, r) /\ Left(t, r) \in Nat
  OBVIOUS
<1>5. Draw(t, S, n)[r] = (IF n - Units(t, B) \in 0..Left(t, r) THEN n - Units(t, B)
                          ELSE IF n - Units(t, B) > 0 THEN Left(t, r) ELSE 0)
  BY DEF Draw
<1> HIDE DEF B, f, g
<1>6. SumFunctionOnSet(f, B) = SumFunctionOnSet(g, B)
  BY ONLY <1>2, <1>4, SumSame
<1>7. SumFunctionOnSet(f, B \cup {r}) = SumFunctionOnSet(f, B) + f[r]
  <2>1. \A x \in B \cup {r} : f[x] \in Int
    BY <1>1, <1>4
  <2> QED  BY ONLY <1>1, <1>2, <2>1, SumPutsIn
<1>8. /\ SumFunctionOnSet(f, S) = SumFunctionOnSet(f, B \cup {r})
                                    + SumFunctionOnSet(f, S \ (B \cup {r}))
      /\ SumFunctionOnSet(f, S \ (B \cup {r})) \in Nat
      /\ SumFunctionOnSet(f, B) \in Nat
  <2> DEFINE P == B \cup {r}
             Q == S \ (B \cup {r})
  <2>1. S = P \cup Q /\ P \cap Q = {}
    BY <1>1
  <2>2. /\ \A x \in P \cup Q : f[x] \in Int
        /\ \A x \in Q : f[x] \in Nat
        /\ \A x \in B : f[x] \in Nat
    BY <1>1, <1>4
  <2>3. IsFiniteSet(P) /\ IsFiniteSet(Q)
    BY <1>2
  <2> HIDE DEF P, Q
  <2>4. SumFunctionOnSet(f, P \cup Q) = SumFunctionOnSet(f, P) + SumFunctionOnSet(f, Q)
    BY ONLY <2>1, <2>2, <2>3, SumOfUnion
  <2>5. SumFunctionOnSet(f, Q) \in Nat /\ SumFunctionOnSet(f, B) \in Nat
    BY ONLY <1>2, <2>2, <2>3, SumOfNaturals
  <2>6. SumFunctionOnSet(f, S) = SumFunctionOnSet(f, P) + SumFunctionOnSet(f, Q)
    BY <2>1, <2>4, Zenon
  <2> QED  BY <2>5, <2>6 DEF P, Q
<1>9. /\ Units(t, S) \in Nat /\ Units(t, B) \in Nat
      /\ Units(t, B) + Left(t, r) <= Units(t, S)
  BY <1>3, <1>4, <1>6, <1>7, <1>8
<1> QED  BY <1>4, <1>5, <1>9

\* A step of one transaction leaves what is owed to the others as it was.
LEMMA OthersOwe ==
    ASSUME BooksInv, StockInv, OwedInv, NEW t \in Txns, Alone(t),
           pc'[t] # "committed", blind \subseteq blind',
           \A r \in DOMAIN stock : r \in DOMAIN stock' /\ stock'[r] = stock[r],
           \A r \in DOMAIN stock' : r[2] = t \/ r \in DOMAIN stock,
           DebtInv(t)'
    PROVE  OwedInv'
<1>1. \A u \in Txns \ {t} : /\ pc'[u] = pc[u] /\ line'[u] = line[u] /\ drawn'[u] = drawn[u]
                            /\ held'[u] = held[u] /\ want'[u] = want[u]
  BY DEF BooksInv, ShapeInv, StockInv, Alone
<1>2. Committed' = Committed /\ t \notin Committed
  BY <1>1, BooksAssumption DEF Committed, Alone, Steps, Txns
<1>3. kind' = kind /\ doc' = doc
  BY DEF Alone
<1>4. ASSUME NEW u \in Txns \ {t} PROVE DebtInv(u)'
  <2>1. \A r \in DOMAIN stock' : r[2] = u => r \in DOMAIN stock
    OBVIOUS
  <2>2. \A v : Goods(u, v)' = Goods(u, v)
    BY <1>2, <1>3 DEF Goods
  <2>3. \A v : Debts(v)' \subseteq Debts(v)
    BY <1>2 DEF Debts
  <2>4. \A r \in DOMAIN stock : Left(u, r)' = Left(u, r)
    BY <1>1 DEF Left, Drawn
  <2>5. \A v : Goods(u, v) \subseteq DOMAIN stock /\ Debts(v) \subseteq DOMAIN stock
    BY DEF Goods, Debts
  <2>6. \A v : /\ Spent(u, Goods(u, v)) => Spent(u, Goods(u, v))'
               /\ Spent(u, Debts(v)) => Spent(u, Debts(v))'
               /\ Asking(u, Goods(u, v)) => Asking(u, Goods(u, v))'
               /\ Asking(u, Debts(v) \cup Goods(u, v)) => Asking(u, Debts(v) \cup Goods(u, v))'
    BY <1>1, <2>2, <2>3, <2>4, <2>5 DEF Spent, Asking
  <2>7. Line(u)' = Line(u)
    BY <1>1, <1>3 DEF Line
  <2>8. \A v : Pool(v)' = Pool(v)
    BY DEF Pool
  <2>9. DebtInv(u) /\ (u \in Running' <=> u \in Running)
    BY <1>1 DEF OwedInv, Running
  <2> QED  BY <1>1, <1>3, <2>1, <2>6, <2>7, <2>8, <2>9 DEF DebtInv
<1>5. \A what : OnTheBooks(what)' = OnTheBooks(what)
  BY <1>2 DEF OnTheBooks
<1>6. NoHoleBesideStock'
  BY <1>3, <1>5 DEF OwedInv, NoHoleBesideStock
<1> QED  BY <1>4, <1>6 DEF OwedInv

\* A statement that draws nothing and puts nothing in.
LEMMA StillOwes ==
    ASSUME BooksInv, StockInv, OwedInv, NEW t \in Txns, Alone(t),
           UNCHANGED <<stock, drawn>>, pc'[t] # "committed", blind \subseteq blind',
           held[t] \subseteq held'[t],
           pc[t] # "settle" \/ UNCHANGED <<pc, line>>,
           pc'[t] \in {"receive", "consume", "settle"} =>
              \/ want'[t] = {} /\ pc'[t] # "settle"
              \/ DebtInv(t) => DebtInv(t)'
    PROVE  OwedInv'
<1>1. t \notin Committed /\ t \in Running /\ DebtInv(t)
  BY BooksAssumption DEF Committed, Running, Alone, Steps, Txns, OwedInv
<1>2. Committed' = Committed
  <2>1. \A u \in Txns \ {t} : pc'[u] = pc[u]
    BY DEF BooksInv, ShapeInv, Alone
  <2> QED  BY <1>1, <2>1 DEF Committed
<1>3. \A v : Goods(t, v)' = Goods(t, v) /\ Debts(v)' \subseteq Debts(v)
  BY <1>2 DEF Goods, Debts, Alone
<1>4. \A r : Left(t, r)' = Left(t, r)
  BY DEF Left, Drawn
<1>5. \A v : /\ Spent(t, Goods(t, v)) => Spent(t, Goods(t, v))'
             /\ Spent(t, Debts(v)) => Spent(t, Debts(v))'
  BY <1>3, <1>4 DEF Spent
<1>6. \A v : Pool(v)' = Pool(v)
  BY DEF Pool
<1>7. pc[t] = "settle" => Line(t)' = Line(t) /\ pc'[t] = pc[t]
  BY DEF Line, Alone
<1>8. DebtInv(t)'
  <2>1. CASE DebtInv(t) => DebtInv(t)'
    BY <1>1, <2>1
  <2>2. CASE pc'[t] # "settle" /\ (pc'[t] \in {"receive", "consume"} => want'[t] = {})
    BY <1>1, <1>5, <1>6, <1>7, <2>2 DEF DebtInv, Asking, Alone
  <2> QED  BY <2>1, <2>2
<1> QED  BY <1>8, OthersOwe

LEMMA GiveUpOwes ==
    ASSUME BooksInv, StockInv, OwedInv, NEW t \in Txns, NEW how,
           how \notin Steps \cup {"none", "committed"}, pc[t] \in Steps,
           End(t, how), UNCHANGED <<rowVars, docVars, blind>>
    PROVE  OwedInv'
<1>1. /\ UNCHANGED <<stock, kind, doc, blind>> /\ pc' = [pc EXCEPT ![t] = how]
      /\ held' = [held EXCEPT ![t] = {}] /\ want' = [want EXCEPT ![t] = {}]
      /\ line' = [line EXCEPT ![t] = 1] /\ drawn' = [drawn EXCEPT ![t] = << >>]
  BY DEF End, Goto, rowVars, docVars
<1>2. pc'[t] = how /\ Alone(t)
  BY <1>1 DEF BooksInv, ShapeInv, StockInv, Alone
<1>3. DebtInv(t)'
  BY <1>2 DEF DebtInv, Running, Steps
<1> QED  BY <1>1, <1>2, <1>3, OthersOwe

\* A statement that waits; one that draws asks for all that is left.
LEMMA WaitOwes ==
    ASSUME BooksInv, StockInv, OwedInv, NEW t \in Txns, NEW rows, Wait(t, rows),
           pc[t] \in Steps,
           pc[t] = "receive" => rows \subseteq {Pool(Line(t).v)},
           pc[t] = "consume" =>
              \A r \in Goods(t, Line(t).v) : Left(t, r) > 0 => r \in rows,
           pc[t] = "settle" =>
              \A r \in Debts(Line(t).v) \cup Goods(t, Line(t).v) : Left(t, r) > 0 => r \in rows
    PROVE  OwedInv'
<1>1. /\ UNCHANGED <<stock, kind, doc, pc, line, held, drawn, blind>>
      /\ want' = [want EXCEPT ![t] = rows]
  BY DEF Wait, rowVars, docVars
<1>2. want'[t] = rows /\ Alone(t) /\ pc'[t] # "committed"
  BY <1>1 DEF BooksInv, ShapeInv, StockInv, Alone, Steps
<1>3. /\ Committed' = Committed /\ (t \in Running' <=> t \in Running) /\ Line(t)' = Line(t)
      /\ \A r : Left(t, r)' = Left(t, r)
      /\ \A v : Pool(v)' = Pool(v)
  BY <1>1 DEF Committed, Running, Line, Left, Drawn, Pool
<1>4. \A v : Goods(t, v)' = Goods(t, v) /\ Debts(v)' = Debts(v)
  BY <1>1, <1>3 DEF Goods, Debts
<1>5. \A v : /\ Spent(t, Goods(t, v)) => Spent(t, Goods(t, v))'
             /\ Spent(t, Debts(v)) => Spent(t, Debts(v))'
  BY <1>3, <1>4 DEF Spent
<1>6. pc[t] = "consume" => Asking(t, Goods(t, Line(t).v))'
  BY <1>2, <1>3, <1>4 DEF Asking
<1>7. pc[t] = "settle" => Asking(t, Debts(Line(t).v) \cup Goods(t, Line(t).v))'
  BY <1>2, <1>3, <1>4 DEF Asking
<1>8. DebtInv(t) => DebtInv(t)'
  BY <1>1, <1>2, <1>3, <1>5, <1>6, <1>7 DEF DebtInv
<1> QED  BY <1>1, <1>2, <1>8, StillOwes

LEMMA InitOwed == Init => OwedInv
<1> SUFFICES ASSUME Init PROVE OwedInv
  OBVIOUS
<1>1. PICK opening \in Openings :
         stock = [r \in {Layer(0, v) : v \in {w \in Variants : opening[w] = "stocked"}}
                         \cup {Hole(0, v) : v \in {w \in Variants : opening[w] = "short"}}
                    |-> [qty |-> 1, cost |-> OldCost]]
  BY DEF Init
<1>2. \A r \in DOMAIN stock : \/ r[1] = "layer" /\ opening[r[3]] = "stocked"
                              \/ r[1] = "hole" /\ opening[r[3]] = "short"
  BY <1>1 DEF Layer, Hole
<1>3. NoHoleBesideStock
  <2>1. /\ \A r \in OnTheBooks("hole") : opening[r[3]] = "short"
        /\ \A r \in OnTheBooks("layer") : opening[r[3]] = "stocked"
    BY <1>2 DEF OnTheBooks
  <2>2. \A h \in OnTheBooks("hole"), l \in OnTheBooks("layer") : h[3] # l[3]
    BY <2>1
  <2> QED  BY <2>2 DEF NoHoleBesideStock
<1>4. \A t \in Txns : DebtInv(t)
  BY DEF Init, DebtInv, Running, Steps
<1> QED  BY <1>3, <1>4 DEF OwedInv

LEMMA BeginOwes ==
    ASSUME BooksInv, StockInv, MoneyInv, OwedInv, NEW t \in Txns, NEW k, NEW d, NEW u,
           Begins(t, k, d, u)
    PROVE  OwedInv'
<1>1. /\ pc[t] = "none" /\ UNCHANGED <<stock, held, want, line, drawn, blind>>
      /\ kind' = [kind EXCEPT ![t] = k] /\ doc' = [doc EXCEPT ![t] = d]
      /\ pc' = [pc EXCEPT ![t] = pc'[t]]
      /\ pc'[t] \in {"consume", "receive", "session"} /\ (k = "sale" => pc'[t] = "session")
  BY DEF Begins, Goto, rowVars, BooksInv, ShapeInv
<1>2. /\ \A s \in Txns \ {t} : pc'[s] = pc[s] /\ kind'[s] = kind[s] /\ doc'[s] = doc[s]
      /\ kind'[t] = k
  BY <1>1 DEF BooksInv, ShapeInv
<1>3. \A r \in DOMAIN stock : r[2] # t /\ (r[2] # 0 => r[2] \in Txns \ {t})
  <2>1. \A r \in DOMAIN stock : r[2] \in Born
    BY DEF MoneyInv, Rows
  <2> QED  BY <1>1, <2>1, BooksAssumption DEF MoneyInv, FreshInv, Born, Txns
<1>4. Committed' = Committed
  BY <1>1, <1>2 DEF Committed
<1>5. \A r \in DOMAIN stock : r[2] # 0 => kind'[r[2]] = kind[r[2]]
  BY <1>2, <1>3
<1>9. want[t] = {}
  BY <1>1 DEF BooksInv, TxnInv, Steps
<1>6. DebtInv(t)'
  BY <1>1, <1>2, <1>3, <1>9 DEF DebtInv
<1>7. ASSUME NEW s \in Txns \ {t} PROVE DebtInv(s)'
  <2>1. \A v : Goods(s, v)' = Goods(s, v) /\ Debts(v)' = Debts(v) /\ Pool(v)' = Pool(v)
    BY <1>1, <1>4, <1>5 DEF Goods, Debts, Pool
  <2>2. \A r : Left(s, r)' = Left(s, r)
    BY <1>1 DEF Left, Drawn
  <2>3. Line(s)' = Line(s) /\ (s \in Running' <=> s \in Running)
    BY <1>1, <1>2 DEF Line, Running
  <2>4. \A v : /\ Spent(s, Goods(s, v)) => Spent(s, Goods(s, v))'
               /\ Spent(s, Debts(v)) => Spent(s, Debts(v))'
               /\ Asking(s, Goods(s, v)) => Asking(s, Goods(s, v))'
               /\ Asking(s, Debts(v) \cup Goods(s, v)) => Asking(s, Debts(v) \cup Goods(s, v))'
    BY <1>1, <2>1, <2>2 DEF Spent, Asking
  <2>5. DebtInv(s)
    BY DEF OwedInv
  <2> QED  BY <1>1, <1>2, <2>1, <2>3, <2>4, <2>5 DEF DebtInv
<1>8. NoHoleBesideStock'
  <2>1. \A what : OnTheBooks(what)' = OnTheBooks(what)
    BY <1>1, <1>4 DEF OnTheBooks
  <2>2. \A r \in OnTheBooks("layer") : r[2] # 0 => kind'[r[2]] = kind[r[2]]
    BY <1>5 DEF OnTheBooks
  <2> QED  BY <1>1, <2>1, <2>2 DEF OwedInv, NoHoleBesideStock
<1> QED  BY <1>6, <1>7, <1>8 DEF OwedInv

LEMMA TakeSessionOwes ==
    ASSUME BooksInv, StockInv, OwedInv, NEW t \in Txns, TakeSession(t)
    PROVE  OwedInv'
<1>1. pc[t] = "session" /\ pc[t] \in Steps
  BY DEF TakeSession, Steps
<1>2. CASE Wait(t, SessionRows)
  BY <1>1, <1>2, WaitOwes
<1>3. CASE Refuse(t)
  BY <1>1, <1>3, GiveUpOwes, GivenUp DEF Refuse
<1>4. CASE Lock(t, SessionRows) /\ ~Wait(t, SessionRows) /\ ~Refuse(t)
  <2>1. /\ UNCHANGED <<stock, drawn, kind, doc, line, blind>>
        /\ Goto(t, AfterSession(t))
    BY <1>4 DEF TakeSession, rowVars, docVars
  <2>2. /\ pc' = [pc EXCEPT ![t] = pc'[t]] /\ pc'[t] = AfterSession(t)
        /\ held' = [held EXCEPT ![t] = held'[t]] /\ held[t] \subseteq held'[t]
        /\ want' = [want EXCEPT ![t] = {}] /\ want'[t] = {}
    BY <1>4, <2>1, LockAdds DEF Goto, BooksInv, ShapeInv
  <2>3. Alone(t) /\ pc'[t] \notin {"committed", "consume", "settle"}
    BY <1>1, <2>1, <2>2 DEF Alone, StockInv, AfterSession
  <2> QED  BY <1>1, <2>1, <2>2, <2>3, StillOwes
<1> QED  BY <1>1, <1>2, <1>3, <1>4 DEF TakeSession

LEMMA LockStockOwes ==
    ASSUME BooksInv, StockInv, OwedInv, NEW t \in Txns, LockPool(t) \/ LockLayers(t)
    PROVE  OwedInv'
<1>1. pc[t] \in {"pool", "layers"} /\ pc[t] \in Steps
  BY DEF LockPool, LockLayers, Steps
<1>2. CASE \E rows : Wait(t, rows)
  BY <1>1, <1>2, WaitOwes
<1>3. CASE ~\E rows : Wait(t, rows)
  <2>1. /\ UNCHANGED <<stock, drawn, docVars>> /\ blind \subseteq blind'
        /\ \/ UNCHANGED line /\ Goto(t, "layers")
           \/ NextLine(t, "pool", "consume")
    BY <1>3 DEF LockPool, LockLayers, rowVars
  <2>2. PICK rows : Lock(t, rows)
    BY <1>3 DEF LockPool, LockLayers
  <2>3. kind[t] \in StockKinds
    BY <1>1 DEF BooksInv, TxnInv, StepsOf, Steps, ShapeInv, Kinds, StockKinds
  <2>4. /\ line' = [line EXCEPT ![t] = line'[t]] /\ pc' = [pc EXCEPT ![t] = pc'[t]]
        /\ pc'[t] \in {"layers", "pool", "consume"}
    <3>1. CASE UNCHANGED line /\ Goto(t, "layers")
      BY <2>1, <3>1 DEF StockInv, LineInv, docVars, Goto, BooksInv, ShapeInv
    <3>2. CASE NextLine(t, "pool", "consume")
      BY <2>1, <2>3, <3>2, NextLineMoves DEF BooksInv
    <3> QED  BY <2>1, <3>1, <3>2
  <2>5. /\ held' = [held EXCEPT ![t] = held'[t]] /\ held[t] \subseteq held'[t]
        /\ want' = [want EXCEPT ![t] = {}] /\ want'[t] = {}
    BY <2>2, LockAdds DEF BooksInv, ShapeInv
  <2>6. Alone(t)
    BY <1>1, <2>1, <2>4, <2>5 DEF Alone, StockInv, docVars
  <2> QED  BY <1>1, <2>1, <2>4, <2>5, <2>6, StillOwes
<1> QED  BY <1>2, <1>3

LEMMA CountAndNumberOwe ==
    ASSUME BooksInv, StockInv, OwedInv, NEW t \in Txns, Count(t) \/ Number(t)
    PROVE  OwedInv'
<1>1. pc[t] \in {"count", "number"} /\ pc[t] \in Steps
  BY DEF Count, Number, Steps
<1>2. CASE Wait(t, {Series})
  BY <1>1, <1>2, WaitOwes
<1>3. CASE Refuse(t)
  BY <1>1, <1>3, GiveUpOwes, GivenUp DEF Refuse
<1>4. CASE ~Wait(t, {Series}) /\ ~Refuse(t)
  <2>1. /\ UNCHANGED <<stock, drawn, kind, doc, line, blind>>
        /\ Goto(t, "commit")
        /\ UNCHANGED <<held, want>> \/ Lock(t, {Series})
    BY <1>4 DEF Count, Number, rowVars, docVars
  <2>2. /\ held' = [held EXCEPT ![t] = held'[t]] /\ held[t] \subseteq held'[t]
        /\ want' = [want EXCEPT ![t] = want'[t]]
    BY <2>1, LockAdds DEF BooksInv, ShapeInv
  <2>3. pc' = [pc EXCEPT ![t] = pc'[t]] /\ pc'[t] = "commit"
    BY <2>1 DEF Goto, BooksInv, ShapeInv
  <2>4. Alone(t)
    BY <1>1, <2>1, <2>2, <2>3 DEF Alone, StockInv
  <2> QED  BY <1>1, <2>1, <2>2, <2>3, <2>4, StillOwes
<1> QED  BY <1>2, <1>3, <1>4

\* What drawing leaves.
LEMMA LeftMoves ==
    ASSUME StockInv, NEW t \in Txns, NEW draw, drawn' = DrawnToo(t, draw),
           \A r \in DOMAIN draw : draw[r] \in 0..Left(t, r),
           \A r \in DOMAIN stock : r \in DOMAIN stock' /\ stock'[r] = stock[r]
    PROVE  \A r \in DOMAIN stock :
              /\ Left(t, r) = 0 => Left(t, r)' = 0
              /\ r \in DOMAIN draw /\ draw[r] = Left(t, r) => Left(t, r)' = 0
<1> SUFFICES ASSUME NEW r \in DOMAIN stock
      PROVE  /\ Left(t, r) = 0 => Left(t, r)' = 0
             /\ r \in DOMAIN draw /\ draw[r] = Left(t, r) => Left(t, r)' = 0
  OBVIOUS
<1>1. Drawn(t, r)' = Drawn(t, r) + (IF r \in DOMAIN draw THEN draw[r] ELSE 0)
  <2> DEFINE more == [x \in DOMAIN drawn[t] \cup DOMAIN draw |->
                         Drawn(t, x) + (IF x \in DOMAIN draw THEN draw[x] ELSE 0)]
  <2>1. drawn'[t] = more
    BY DEF DrawnToo, StockInv
  <2>2. CASE r \in DOMAIN drawn[t] \cup DOMAIN draw
    <3>1. Drawn(t, r)' = more[r]
      BY <2>1, <2>2 DEF Drawn
    <3> QED  BY <2>2, <3>1
  <2>3. CASE r \notin DOMAIN drawn[t] \cup DOMAIN draw
    <3>1. r \notin DOMAIN drawn'[t]
      BY <2>1, <2>3
    <3>2. Drawn(t, r)' = 0 /\ Drawn(t, r) = 0
      BY <2>3, <3>1 DEF Drawn
    <3> QED  BY <2>3, <3>2
  <2> QED  BY <2>2, <2>3
<1> DEFINE q == stock[r].qty
<1>2. q \in Nat /\ Drawn(t, r) \in 0..q
  <2>1. q \in Nat
    BY DEF StockInv, RowInv
  <2> QED  BY <2>1 DEF Drawn, StockInv, DrawInv
<1>3. Left(t, r) = q - Drawn(t, r) /\ Left(t, r)' = q - Drawn(t, r)'
  BY DEF Left
<1>4. r \in DOMAIN draw => draw[r] \in 0..Left(t, r)
  OBVIOUS
<1> HIDE DEF q
<1> QED  BY <1>1, <1>2, <1>3, <1>4

\* A row of t's own that was not there yet comes in.
LEMMA InsertOwes ==
    ASSUME BooksInv, StockInv, MoneyInv, OwedInv, NEW t \in Txns, Alone(t),
           pc'[t] # "committed", UNCHANGED <<drawn, blind>>, held[t] \subseteq held'[t],
           NEW row, row \notin DOMAIN stock, row[2] = t, row[1] = "layer",
           NEW n, NEW each, Insert(row, n, each),
           \A r \in DOMAIN stock : r[2] = t => r[3] # row[3],
           pc[t] # "settle", pc'[t] \notin {"receive", "consume"},
           kind[t] # "return" => pc'[t] = "settle" /\ Line(t)'.v = row[3],
           pc'[t] = "settle" => /\ Pool(row[3]) \in held'[t] /\ want'[t] = {}
                                /\ Line(t)'.v = row[3]
    PROVE  OwedInv'
<1>1. /\ DOMAIN stock' = DOMAIN stock \cup {row}
      /\ \A r \in DOMAIN stock : stock'[r] = stock[r]
  BY DEF Insert, With
<1>2. t \notin Committed /\ t \in Running /\ DebtInv(t)
  BY BooksAssumption DEF Committed, Running, Alone, Steps, Txns, OwedInv
<1>3. Committed' = Committed
  <2>1. \A u \in Txns \ {t} : pc'[u] = pc[u]
    BY DEF BooksInv, ShapeInv, Alone
  <2> QED  BY <1>2, <2>1 DEF Committed
<1>4. \A v : /\ v # row[3] => Goods(t, v)' = Goods(t, v)
             /\ Debts(v)' = Debts(v)
  BY <1>1, <1>3 DEF Goods, Debts, Alone
<1>5. \A r \in DOMAIN stock : Left(t, r)' = Left(t, r)
  BY <1>1 DEF Left, Drawn
<1>6. \A v : /\ v # row[3] /\ Spent(t, Goods(t, v)) => Spent(t, Goods(t, v))'
             /\ Spent(t, Debts(v)) => Spent(t, Debts(v))'
  <2>1. \A v : Goods(t, v) \subseteq DOMAIN stock /\ Debts(v) \subseteq DOMAIN stock
    BY DEF Goods, Debts
  <2> QED  BY <1>4, <1>5, <2>1 DEF Spent
<1>7. \A v : Pool(v)' = Pool(v)
  BY DEF Pool
<1>8. ASSUME NEW r \in DOMAIN stock', r[2] = t, r[1] = "hole", <<t, r[3]>> \notin blind'
      PROVE  Pool(r[3])' \in held'[t] /\ Spent(t, Goods(t, r[3]))'
  <2>1. r \in DOMAIN stock /\ r[3] # row[3]
    BY <1>1, <1>8
  <2> QED  BY <1>2, <1>6, <1>7, <1>8, <2>1 DEF DebtInv
<1>9. ASSUME NEW r \in DOMAIN stock', r[2] = t, r[1] = "layer", kind'[t] # "return"
      PROVE  /\ Pool(r[3])' \in held'[t]
             /\ \/ pc'[t] = "settle" /\ r[3] = Line(t)'.v
                \/ Spent(t, Debts(r[3]))'
                \/ Spent(t, Goods(t, r[3]))'
  <2>1. kind[t] # "return" /\ pc'[t] = "settle" /\ Line(t)'.v = row[3]
    BY <1>9 DEF Alone
  <2>2. CASE r = row
    BY <1>7, <2>1, <2>2
  <2>3. CASE r \in DOMAIN stock
    BY <1>2, <1>6, <1>7, <1>9, <2>1, <2>3 DEF DebtInv
  <2> QED  BY <1>1, <1>9, <2>2, <2>3
<1>10. DebtInv(t)'
  BY <1>7, <1>8, <1>9 DEF DebtInv, Asking
<1>11. /\ \A r \in DOMAIN stock : r \in DOMAIN stock' /\ stock'[r] = stock[r]
       /\ \A r \in DOMAIN stock' : r[2] = t \/ r \in DOMAIN stock
  BY <1>1
<1> QED  BY <1>10, <1>11, OthersOwe

LEMMA RestoreOwes ==
    ASSUME BooksInv, StockInv, MoneyInv, OwedInv, NEW t \in Txns, Restore(t)
    PROVE  OwedInv'
<1> DEFINE row == Layer(t, Item(t))
<1>1. pc[t] = "restore" /\ pc[t] \in Steps
  BY DEF Restore, Steps
<1>2. CASE ~Returnable(t)
  BY <1>1, <1>2, GiveUpOwes, GivenUp DEF Restore, Refuse
<1>3. CASE Returnable(t)
  <2>1. PICK unit : /\ Insert(row, 1, unit) /\ pc' = [pc EXCEPT ![t] = "number"]
                    /\ UNCHANGED <<kind, doc, line, held, want, drawn, blind>>
    BY <1>3 DEF Restore, Goto, docVars
  <2>2. Alone(t) /\ pc'[t] = "number"
    BY <1>1, <2>1 DEF Alone, BooksInv, ShapeInv, StockInv
  <2>3. kind[t] = "return"
    BY <1>1 DEF BooksInv, TxnInv, StepsOf, Steps, ShapeInv, Kinds
  <2>4. row[1] = "layer" /\ row[2] = t
    BY DEF Layer
  <2>5. \A r \in DOMAIN stock : r[2] # t
    BY <1>1 DEF MoneyInv, FreshInv
  <2> HIDE DEF row
  <2> QED  BY <1>1, <2>1, <2>2, <2>3, <2>4, <2>5, InsertOwes
<1> QED  BY <1>2, <1>3

LEMMA ReceiveOwes ==
    ASSUME BooksInv, StockInv, MoneyInv, OwedInv, NEW t \in Txns, Receive(t)
    PROVE  OwedInv'
<1> DEFINE v == Line(t).v
           row == Layer(t, v)
<1>1. pc[t] = "receive" /\ pc[t] \in Steps
  BY DEF Receive, Steps
<1>2. CASE Wait(t, {Pool(v)})
  BY <1>1, <1>2, WaitOwes
<1>3. CASE ~Wait(t, {Pool(v)})
  <2>1. /\ Lock(t, {Pool(v)}) /\ Insert(row, Line(t).n, NewCost)
        /\ pc' = [pc EXCEPT ![t] = "settle"]
        /\ UNCHANGED <<kind, doc, line, drawn, blind>>
    BY <1>3 DEF Receive, Goto, docVars
  <2>2. kind[t] \in StockKinds
    BY <1>1 DEF BooksInv, TxnInv, StepsOf, Steps, ShapeInv, Kinds, StockKinds
  <2>3. /\ held' = [held EXCEPT ![t] = held'[t]] /\ held[t] \subseteq held'[t]
        /\ want' = [want EXCEPT ![t] = {}] /\ want'[t] = {} /\ pc'[t] = "settle"
        /\ held'[t] = held[t] \cup Asked(t, {Pool(v)})
    BY <2>1, LockAdds DEF BooksInv, ShapeInv
  <2>4. Pool(v) \in held'[t]
    <3>1. want[t] \subseteq {Pool(v)}
      BY <1>1 DEF OwedInv, DebtInv, Running
    <3> QED  BY <2>3, <3>1 DEF Asked
  <2>5. Alone(t)
    BY <1>1, <2>1, <2>3 DEF Alone, StockInv
  <2>6. row[1] = "layer" /\ row[2] = t /\ row[3] = v
    BY DEF Layer
  <2>7. \A r \in DOMAIN stock : r[2] = t => r[3] # v
    <3> SUFFICES ASSUME NEW r \in DOMAIN stock, r[2] = t, r[3] = v PROVE FALSE
      OBVIOUS
    <3>1. PICK i \in DOMAIN doc[t] : i < line[t] /\ doc[t][i].v = Line(t).v
      BY <1>1 DEF MoneyInv, FreshInv
    <3>2. i = line[t] /\ line[t] \in Nat
      BY <2>2, <3>1, OneLineEach, FirstLine DEF BooksInv
    <3> QED  BY <3>1, <3>2
  <2>8. Line(t)' = Line(t)
    BY <2>1 DEF Line
  <2>9. row \notin DOMAIN stock
    BY <2>6, <2>7
  <2>10. Line(t)'.v = row[3] /\ Pool(row[3]) \in held'[t]
    BY <2>4, <2>6, <2>8
  <2>11. \A r \in DOMAIN stock : r[2] = t => r[3] # row[3]
    BY <2>6, <2>7
  <2> HIDE DEF row, v
  <2>12. UNCHANGED <<drawn, blind>> /\ pc'[t] # "committed"
    BY <2>1, <2>3
  <2> QED  BY <1>1, <2>1, <2>3, <2>5, <2>6, <2>9, <2>10, <2>11, <2>12, InsertOwes
<1> QED  BY <1>2, <1>3

\* A sale that leaves a hole has drawn all there was.
LEMMA ConsumeOwes ==
    ASSUME BooksInv, StockInv, MoneyInv, QueueInv, OwedInv, NEW t \in Txns, Consume(t)
    PROVE  OwedInv'
<1> DEFINE v == Line(t).v
           rows == OpenRows(t, "layer", v)
           got == Got(t, rows)
           draw == Draw(t, got, Line(t).n)
           short == Line(t).n - Units(t, got)
           row == Hole(t, v)
<1>0. PICK item : item = v
  OBVIOUS
<1>1. pc[t] = "consume" /\ pc[t] \in Steps
  BY DEF Consume, Steps
<1>2. kind[t] \in StockKinds
  BY <1>1 DEF BooksInv, TxnInv, StepsOf, Steps, ShapeInv, Kinds, StockKinds
<1>3. \A r \in rows : Drawable(t, r) /\ r[3] = v /\ r[1] = "layer"
  BY DEF OpenRows, Drawable
<1>4. \A r \in Goods(t, v) : Left(t, r) > 0 => r \in rows
  BY DEF Goods, OpenRows
<1>5. CASE Wait(t, rows)
  BY <1>1, <1>4, <1>5, WaitOwes
<1>6. CASE ~Wait(t, rows)
  <2>1. PICK guess :
           /\ Lock(t, rows) /\ drawn' = DrawnToo(t, draw)
           /\ IF short \in 1..Line(t).n THEN Insert(row, short, guess) ELSE UNCHANGED stock
           /\ NextLine(t, "consume", "commit") /\ UNCHANGED docVars
           /\ blind' = IF kind[t] = "sale" THEN blind ELSE blind \cup {<<t, v>>}
    BY <1>6 DEF Consume
  <2>2. \A r \in got : /\ Drawable(t, r) /\ r[3] = v /\ Left(t, r) \in Nat
                       /\ r \in Asked(t, rows) /\ r[1] = "layer"
    BY <1>1, <1>3, AskedDrawable
  <2>3. DOMAIN draw = got /\ \A r \in got : draw[r] \in 0..Left(t, r)
    BY <2>2, DrawWithin DEF Draw
  <2>4. row[1] = "hole" /\ row[2] = t /\ row[3] = v
    BY DEF Hole
  <2>5. t \in Running /\ DebtInv(t) /\ t \notin Committed
    BY <1>1, BooksAssumption DEF OwedInv, Running, Committed, Steps, Txns
  <2>6. <<t, v>> \notin blind' => \A r \in Goods(t, v) : Left(t, r) > 0 => r \in got
    <3> SUFFICES ASSUME <<t, v>> \notin blind', NEW r \in Goods(t, v), Left(t, r) > 0
                 PROVE  r \in Asked(t, rows)
      BY DEF Got
    <3>1. kind[t] = "sale" /\ <<t, v>> \notin blind
      BY <2>1
    <3>2. Asking(t, Goods(t, v))
      BY <1>1, <2>5, <3>1 DEF DebtInv
    <3> QED  BY <1>4, <3>2 DEF Asked, Asking
  <2>7. <<t, v>> \notin blind' => Pool(v) \in held[t]
    <3> SUFFICES ASSUME <<t, v>> \notin blind' PROVE Pool(v) \in held[t]
      OBVIOUS
    <3>1. kind[t] = "sale" /\ <<t, v>> \notin blind
      BY <2>1
    <3>2. v \in LineVariants(t)
      <4>1. line[t] \in DOMAIN doc[t]
        BY <1>2, FirstLine DEF BooksInv
      <4> QED  BY <4>1 DEF LineVariants, Line
    <3> QED  BY <1>1, <3>1, <3>2 DEF QueueInv, SaleInv, Has
  <2>8. Line(t).n \in Nat
    BY <1>2, LineIsOf
  <2>9. got \subseteq Rows /\ \A r \in got : r \in DOMAIN stock /\ Left(t, r) \in Nat
    BY <2>2 DEF Drawable, MoneyInv
  <2>10. \A r \in DOMAIN stock : r[2] = t => r[3] # v
    <3> SUFFICES ASSUME NEW r \in DOMAIN stock, r[2] = t, r[3] = v PROVE FALSE
      OBVIOUS
    <3>1. PICK i \in DOMAIN doc[t] : i < line[t] /\ doc[t][i].v = Line(t).v
      BY <1>1 DEF MoneyInv, FreshInv
    <3>2. i = line[t] /\ line[t] \in Nat
      BY <1>2, <3>1, OneLineEach, FirstLine DEF BooksInv
    <3> QED  BY <3>1, <3>2
  <2>11. Units(t, got) \in Nat
    <3> HIDE DEF got
    <3> QED  BY <2>9, UnitsIsNat
  <2>12. short \in 1..Line(t).n => \A r \in got : draw[r] = Left(t, r)
    <3> SUFFICES ASSUME short \in 1..Line(t).n, NEW r \in got PROVE draw[r] = Left(t, r)
      OBVIOUS
    <3>1. Units(t, got) <= Line(t).n
      <4> HIDE DEF got
      <4> QED  BY <2>8, <2>11
    <3> HIDE DEF got
    <3> QED  BY <2>8, <2>9, <3>1, DrawAll
  <2> HIDE DEF v, rows, got, draw, short, row
  <2>13. /\ \A r \in DOMAIN stock : r \in DOMAIN stock' /\ stock'[r] = stock[r]
         /\ \A r \in DOMAIN stock' : r \in DOMAIN stock \/ (r = row /\ short \in 1..Line(t).n)
    <3>1. row \notin DOMAIN stock
      BY <2>4, <2>10
    <3> QED  BY <2>1, <3>1 DEF Insert, With
  <2>14. \A r \in DOMAIN stock :
            /\ Left(t, r) = 0 => Left(t, r)' = 0
            /\ r \in got /\ short \in 1..Line(t).n => Left(t, r)' = 0
    <3>1. \A r \in DOMAIN stock :
            /\ Left(t, r) = 0 => Left(t, r)' = 0
            /\ r \in DOMAIN draw /\ draw[r] = Left(t, r) => Left(t, r)' = 0
      BY <2>1, <2>3, <2>13, LeftMoves
    <3> QED  BY <2>3, <2>12, <3>1
  <2>15. /\ held' = [held EXCEPT ![t] = held'[t]] /\ held[t] \subseteq held'[t]
         /\ want' = [want EXCEPT ![t] = {}] /\ want'[t] = {}
    BY <2>1, LockAdds DEF BooksInv, ShapeInv
  <2>16. /\ pc' = [pc EXCEPT ![t] = pc'[t]] /\ line' = [line EXCEPT ![t] = line'[t]]
         /\ pc'[t] \in {"consume", "commit"}
    BY <1>2, <2>1, NextLineMoves DEF BooksInv
  <2>17. Alone(t)
    <3>1. drawn' = [drawn EXCEPT ![t] = drawn'[t]]
      BY <2>1 DEF DrawnToo, StockInv
    <3> QED  BY <1>1, <2>1, <2>15, <2>16, <3>1 DEF Alone, docVars
  <2>18. Committed' = Committed
    <3>1. \A u \in Txns \ {t} : pc'[u] = pc[u]
      BY <2>16 DEF BooksInv, ShapeInv
    <3> QED  BY <2>5, <2>16, <3>1 DEF Committed
  <2>19. blind \subseteq blind'
    BY <2>1
  <2>20. \A w : Goods(t, w)' = Goods(t, w) /\ Debts(w)' \subseteq Debts(w)
    <3>1. UNCHANGED kind
      BY <2>17 DEF Alone
    <3> QED  BY <2>4, <2>5, <2>13, <2>18, <2>19, <3>1 DEF Goods, Debts
  <2>21. \A w : /\ Goods(t, w) \subseteq DOMAIN stock /\ Debts(w) \subseteq DOMAIN stock
                /\ Pool(w)' = Pool(w)
    BY DEF Goods, Debts, Pool
  <2>22. \A w : /\ Spent(t, Goods(t, w)) => Spent(t, Goods(t, w))'
                /\ Spent(t, Debts(w)) => Spent(t, Debts(w))'
    BY <2>14, <2>20, <2>21 DEF Spent
  <2>23. short \in 1..Line(t).n /\ <<t, item>> \notin blind' => Spent(t, Goods(t, item))'
    <3>1. \A r \in Goods(t, item) : r \in DOMAIN stock /\ Left(t, r) \in Nat
      BY <2>21, LeftIsNat
    <3>2. \A r \in Goods(t, item) :
             short \in 1..Line(t).n /\ <<t, item>> \notin blind' => Left(t, r)' = 0
      BY <1>0, <2>6, <2>14, <3>1
    <3> QED  BY <2>20, <3>2 DEF Spent
  <2>24. ASSUME NEW r \in DOMAIN stock', r[2] = t, r[1] = "hole", <<t, r[3]>> \notin blind'
         PROVE  Pool(r[3])' \in held'[t] /\ Spent(t, Goods(t, r[3]))'
    <3>1. CASE r \in DOMAIN stock
      BY <2>5, <2>15, <2>19, <2>21, <2>22, <2>24, <3>1 DEF DebtInv
    <3>2. CASE r = row /\ short \in 1..Line(t).n
      <4>1. r[3] = item /\ Pool(item) \in held'[t]
        BY <1>0, <2>4, <2>7, <2>15, <2>24, <3>2
      <4> QED  BY <2>21, <2>23, <2>24, <3>2, <4>1
    <3> QED  BY <2>13, <3>1, <3>2
  <2>25. ASSUME NEW r \in DOMAIN stock', r[2] = t, r[1] = "layer", kind'[t] # "return"
         PROVE  /\ Pool(r[3])' \in held'[t]
                /\ \/ pc'[t] = "settle" /\ r[3] = Line(t)'.v
                   \/ Spent(t, Debts(r[3]))'
                   \/ Spent(t, Goods(t, r[3]))'
    <3>1. r \in DOMAIN stock /\ kind[t] # "return"
      BY <2>4, <2>13, <2>17, <2>25 DEF Alone
    <3> QED  BY <1>1, <2>5, <2>15, <2>21, <2>22, <2>25, <3>1 DEF DebtInv
  <2>26. DebtInv(t)'
    BY <2>15, <2>16, <2>24, <2>25 DEF DebtInv, Asking
  <2>27. /\ \A r \in DOMAIN stock' : r[2] = t \/ r \in DOMAIN stock
         /\ pc'[t] # "committed"
    BY <2>4, <2>13, <2>16
  <2> QED  BY <2>13, <2>17, <2>19, <2>26, <2>27, OthersOwe
<1> QED  BY <1>5, <1>6

\* A delivery settles all the debts, or draws all the goods there are.
LEMMA SettleOwes ==
    ASSUME BooksInv, StockInv, MoneyInv, OwedInv, NEW t \in Txns, Settle(t)
    PROVE  OwedInv'
<1> DEFINE v == Line(t).v
           holes == OpenRows(t, "hole", v)
           rows == IF holes = {} THEN {} ELSE holes \cup OpenRows(t, "layer", v)
           got == Got(t, rows)
           owed == {r \in got : r[1] = "hole"}
           shelf == got \ owed
           n == Min({Units(t, owed), Units(t, shelf)})
           settled == Draw(t, owed, n)
           actual == Draw(t, shelf, n)
           draw == [r \in got |-> IF r \in owed THEN settled[r] ELSE actual[r]]
<1>0. PICK item : item = v
  OBVIOUS
<1>1. pc[t] = "settle" /\ pc[t] \in Steps
  BY DEF Settle, Steps
<1>2. kind[t] \in StockKinds
  BY <1>1 DEF BooksInv, TxnInv, StepsOf, Steps, ShapeInv, Kinds, StockKinds
<1>3. \A r \in rows : Drawable(t, r) /\ r[3] = v
  BY DEF OpenRows, Drawable
<1>4. /\ \A r \in Debts(v) : Left(t, r) > 0 => r \in holes
      /\ \A r \in Goods(t, v) : Left(t, r) > 0 => r \in OpenRows(t, "layer", v)
  BY DEF Debts, Goods, OpenRows
<1>5. holes # {} => \A r \in Debts(v) \cup Goods(t, v) : Left(t, r) > 0 => r \in rows
  BY <1>4
<1>6. CASE Wait(t, rows)
  <2>1. holes # {}
    BY <1>6 DEF Wait
  <2> HIDE DEF rows, holes
  <2> QED  BY <1>1, <1>5, <1>6, <2>1, WaitOwes
<1>7. CASE ~Wait(t, rows)
  <2>1. /\ Lock(t, rows) /\ drawn' = DrawnToo(t, draw)
        /\ NextLine(t, "receive", "commit")
        /\ UNCHANGED <<stock, kind, doc, of, blind>>
    BY <1>7 DEF Settle, rowVars, docVars
  <2>2. \A r \in got : Drawable(t, r) /\ r[3] = v /\ Left(t, r) \in Nat
    BY <1>1, <1>3, AskedDrawable
  <2>3. /\ DOMAIN draw = got
        /\ \A r \in owed : draw[r] = settled[r] /\ settled[r] \in 0..Left(t, r)
        /\ \A r \in shelf : draw[r] = actual[r] /\ actual[r] \in 0..Left(t, r)
    <3>1. \A r \in owed : draw[r] = settled[r] /\ r \in got
      OBVIOUS
    <3>2. \A r \in shelf : draw[r] = actual[r] /\ r \in got
      OBVIOUS
    <3>3. \A r \in owed : settled[r] \in 0..Left(t, r)
      BY <2>2, DrawWithin
    <3>4. \A r \in shelf : actual[r] \in 0..Left(t, r)
      BY <2>2, DrawWithin
    <3>5. DOMAIN draw = got
      OBVIOUS
    <3> QED  BY <3>1, <3>2, <3>3, <3>4, <3>5
  <2>4. got = owed \cup shelf
    OBVIOUS
  <2>5. t \in Running /\ DebtInv(t) /\ t \notin Committed
    BY <1>1, BooksAssumption DEF OwedInv, Running, Committed, Steps, Txns
  <2>6. /\ owed \subseteq Rows /\ shelf \subseteq Rows
        /\ \A r \in owed : Left(t, r) \in Nat
        /\ \A r \in shelf : Left(t, r) \in Nat
    <3>1. \A r \in got : r \in Rows
      BY <2>2 DEF Drawable, MoneyInv
    <3> QED  BY <2>2, <3>1
  <2>7. \/ (\A r \in Debts(v) : Left(t, r) = 0)
        \/ \A r \in Debts(v) \cup Goods(t, v) : Left(t, r) > 0 => r \in got
    <3>1. Asking(t, Debts(v) \cup Goods(t, v))
      BY <1>1, <2>5 DEF DebtInv
    <3>2. CASE want[t] # {}
      BY <3>1, <3>2 DEF Asking, Got, Asked
    <3>3. CASE want[t] = {} /\ holes = {}
      <4>1. \A r \in Debts(v) : r \in DOMAIN stock /\ ~(Left(t, r) > 0)
        BY <1>4, <3>3 DEF Debts
      <4>2. \A r \in Debts(v) : Left(t, r) \in Nat
        BY <4>1, LeftIsNat
      <4> QED  BY <4>1, <4>2
    <3>4. CASE want[t] = {} /\ holes # {}
      BY <1>5, <3>4 DEF Got, Asked
    <3> QED  BY <3>2, <3>3, <3>4
  <2>8. \A r \in Debts(v) : r \in got => r \in owed
    BY DEF Debts
  <2>9. \A r \in Goods(t, v) : r \in got => r \in shelf
    BY DEF Goods
  <2> HIDE DEF v, holes, rows, got, owed, shelf, settled, actual, draw
  <2>10. (\A r \in owed : settled[r] = Left(t, r)) \/ (\A r \in shelf : actual[r] = Left(t, r))
    <3>1. Units(t, owed) \in Nat /\ Units(t, shelf) \in Nat
      BY <2>6, UnitsIsNat
    <3>2. n \in Int /\ (Units(t, owed) <= n \/ Units(t, shelf) <= n)
      <4> DEFINE a == Units(t, owed)
                 b == Units(t, shelf)
      <4>1. n = Min({a, b}) /\ a \in Nat /\ b \in Nat
        BY <3>1
      <4> HIDE DEF a, b, n
      <4>2. n \in Int /\ (a <= n \/ b <= n)
        BY <4>1 DEF Min
      <4> QED  BY <4>2 DEF a, b
    <3> HIDE DEF n
    <3> QED  BY <2>6, <3>2, DrawAll DEF settled, actual
  <2>11. \A r \in DOMAIN stock :
            /\ Left(t, r) = 0 => Left(t, r)' = 0
            /\ r \in got /\ draw[r] = Left(t, r) => Left(t, r)' = 0
    <3>1. \A r \in DOMAIN stock : r \in DOMAIN stock' /\ stock'[r] = stock[r]
      BY <2>1
    <3>2. \A r \in DOMAIN draw : draw[r] \in 0..Left(t, r)
      BY <2>3, <2>4
    <3> QED  BY <2>1, <2>3, <3>1, <3>2, LeftMoves
  <2>12. /\ held' = [held EXCEPT ![t] = held'[t]] /\ held[t] \subseteq held'[t]
         /\ want' = [want EXCEPT ![t] = {}] /\ want'[t] = {}
    BY <2>1, LockAdds DEF BooksInv, ShapeInv
  <2>13. /\ pc' = [pc EXCEPT ![t] = pc'[t]] /\ line' = [line EXCEPT ![t] = line'[t]]
         /\ pc'[t] \in {"receive", "commit"}
    BY <1>2, <2>1, NextLineMoves DEF BooksInv, docVars
  <2>14. Alone(t)
    <3>1. drawn' = [drawn EXCEPT ![t] = drawn'[t]]
      BY <2>1 DEF DrawnToo, StockInv
    <3> QED  BY <1>1, <2>1, <2>12, <2>13, <3>1 DEF Alone
  <2>15. Committed' = Committed
    <3>1. \A u \in Txns \ {t} : pc'[u] = pc[u]
      BY <2>13 DEF BooksInv, ShapeInv
    <3> QED  BY <2>5, <2>13, <3>1 DEF Committed
  <2>16. \A w : Goods(t, w)' = Goods(t, w) /\ Debts(w)' = Debts(w) /\ Pool(w)' = Pool(w)
    BY <2>1, <2>15 DEF Goods, Debts, Pool
  <2>17. \A w : Goods(t, w) \subseteq DOMAIN stock /\ Debts(w) \subseteq DOMAIN stock
    BY DEF Goods, Debts
  <2>18. \A w : /\ Spent(t, Goods(t, w)) => Spent(t, Goods(t, w))'
                /\ Spent(t, Debts(w)) => Spent(t, Debts(w))'
    BY <2>11, <2>16, <2>17 DEF Spent
  <2>19. Spent(t, Debts(item))' \/ Spent(t, Goods(t, item))'
    <3>1. \A r \in Debts(item) \cup Goods(t, item) : r \in DOMAIN stock /\ Left(t, r) \in Nat
      BY <2>17, LeftIsNat
    <3>2. CASE \A r \in Debts(item) : Left(t, r) = 0
      BY <2>18, <3>2 DEF Spent
    <3>3. CASE /\ \A r \in Debts(item) \cup Goods(t, item) : Left(t, r) > 0 => r \in got
               /\ \A r \in owed : settled[r] = Left(t, r)
      <4>1. \A r \in Debts(item) : Left(t, r)' = 0
        BY <1>0, <2>3, <2>8, <2>11, <3>1, <3>3
      <4> QED  BY <2>16, <4>1 DEF Spent
    <3>4. CASE /\ \A r \in Debts(item) \cup Goods(t, item) : Left(t, r) > 0 => r \in got
               /\ \A r \in shelf : actual[r] = Left(t, r)
      <4>1. \A r \in Goods(t, item) : Left(t, r)' = 0
        BY <1>0, <2>3, <2>9, <2>11, <3>1, <3>4
      <4> QED  BY <2>16, <4>1 DEF Spent
    <3> QED  BY <1>0, <2>7, <2>10, <3>2, <3>3, <3>4
  <2>20. ASSUME NEW r \in DOMAIN stock, r[2] = t, r[1] = "hole", <<t, r[3]>> \notin blind
         PROVE  Pool(r[3])' \in held'[t] /\ Spent(t, Goods(t, r[3]))'
    BY <2>5, <2>12, <2>16, <2>18, <2>20 DEF DebtInv
  <2>21. ASSUME NEW r \in DOMAIN stock, r[2] = t, r[1] = "layer", kind[t] # "return"
         PROVE  /\ Pool(r[3])' \in held'[t]
                /\ Spent(t, Debts(r[3]))' \/ Spent(t, Goods(t, r[3]))'
    <3>1. Pool(r[3]) \in held[t]
      BY <2>5, <2>21 DEF DebtInv
    <3>2. r[3] = item \/ Spent(t, Debts(r[3])) \/ Spent(t, Goods(t, r[3]))
      BY <1>0, <2>5, <2>21 DEF DebtInv, v
    <3> QED  BY <2>12, <2>16, <2>18, <2>19, <3>1, <3>2
  <2>22. DebtInv(t)'
    BY <2>1, <2>12, <2>13, <2>20, <2>21 DEF DebtInv, Asking
  <2>23. /\ \A r \in DOMAIN stock : r \in DOMAIN stock' /\ stock'[r] = stock[r]
         /\ \A r \in DOMAIN stock' : r[2] = t \/ r \in DOMAIN stock
         /\ pc'[t] # "committed" /\ blind \subseteq blind'
    BY <2>1, <2>13
  <2> QED  BY <2>14, <2>22, <2>23, OthersOwe
<1> QED  BY <1>6, <1>7

\* A commit shows its rows; what it counted on is by then spent, and of an item
\* another has the pool row of it shows nothing.
LEMMA CommitOwes ==
    ASSUME BooksInv, StockInv, StockInv', MoneyInv, QueueInv, OwedInv, NEW t \in Txns,
           Commit(t)
    PROVE  OwedInv'
<1>1. /\ pc[t] = "commit" /\ pc[t] \in Steps /\ UNCHANGED <<kind, doc, blind>>
      /\ pc' = [pc EXCEPT ![t] = "committed"]
      /\ held' = [held EXCEPT ![t] = {}] /\ want' = [want EXCEPT ![t] = {}]
      /\ line' = [line EXCEPT ![t] = 1] /\ drawn' = [drawn EXCEPT ![t] = << >>]
  BY DEF Commit, End, Goto, docVars, Steps
<1>2. /\ pc'[t] = "committed" /\ t # 0
      /\ \A u \in Txns \ {t} : /\ pc'[u] = pc[u] /\ held'[u] = held[u] /\ want'[u] = want[u]
                               /\ line'[u] = line[u] /\ drawn'[u] = drawn[u]
  BY <1>1, BooksAssumption DEF BooksInv, ShapeInv, StockInv, Txns
<1>3. t \in Running /\ DebtInv(t) /\ t \notin Committed /\ Committed' = Committed \cup {t}
  BY <1>1, <1>2 DEF OwedInv, Running, Committed, Steps
<1>4. /\ DOMAIN stock' = DOMAIN stock
      /\ \A r \in DOMAIN stock : /\ stock'[r].qty = stock[r].qty - Drawn(t, r)
                                 /\ stock'[r].qty \in Nat
  BY CommitTakesOut
<1>5. \A r \in DOMAIN stock : stock[r].qty \in Nat /\ Drawn(t, r) \in 0..stock[r].qty
  <2>1. \A r \in DOMAIN stock : stock[r].qty \in Nat
    BY DEF StockInv, RowInv
  <2> QED  BY <2>1 DEF Drawn, StockInv, DrawInv
<1>6. \A r \in DOMAIN stock : /\ Left(t, r) = stock'[r].qty
                              /\ stock'[r].qty > 0 => stock[r].qty > 0
  <2> SUFFICES ASSUME NEW r \in DOMAIN stock
               PROVE  /\ Left(t, r) = stock'[r].qty
                      /\ stock'[r].qty > 0 => stock[r].qty > 0
    OBVIOUS
  <2> DEFINE was == stock[r].qty
             is == stock'[r].qty
  <2>1. was \in Nat /\ Drawn(t, r) \in 0..was /\ is = was - Drawn(t, r) /\ is \in Nat
    BY <1>4, <1>5
  <2>2. Left(t, r) = was - Drawn(t, r)
    BY DEF Left
  <2> HIDE DEF was, is
  <2>3. Left(t, r) = is /\ (is > 0 => was > 0)
    BY <2>1, <2>2
  <2> QED  BY <2>3 DEF was, is
<1>7. ASSUME NEW u \in Txns \ {t} PROVE DebtInv(u)'
  <2>1. DebtInv(u) /\ (u \in Running' <=> u \in Running) /\ Line(u)' = Line(u)
    BY <1>1, <1>2 DEF OwedInv, Running, Line
  <2>2. \A r \in DOMAIN stock : /\ Left(u, r) = 0 => Left(u, r)' = 0
                                /\ Left(u, r)' > 0 => Left(u, r) > 0
    <3> SUFFICES ASSUME NEW r \in DOMAIN stock
                 PROVE  /\ Left(u, r) = 0 => Left(u, r)' = 0
                        /\ Left(u, r)' > 0 => Left(u, r) > 0
      OBVIOUS
    <3> DEFINE was == stock[r].qty
               is == stock'[r].qty
    <3>1. was \in Nat /\ Drawn(t, r) \in 0..was /\ is = was - Drawn(t, r) /\ is \in Nat
      BY <1>4, <1>5
    <3>2. Drawn(u, r)' = Drawn(u, r) /\ Drawn(u, r) \in 0..is
      <4>1. Drawn(u, r)' = Drawn(u, r)
        BY <1>2 DEF Drawn
      <4>2. Drawn(u, r)' \in 0..is
        BY <3>1 DEF Drawn, StockInv, DrawInv
      <4> QED  BY <4>1, <4>2
    <3>3. Left(u, r) = was - Drawn(u, r) /\ Left(u, r)' = is - Drawn(u, r)'
      BY DEF Left
    <3> HIDE DEF was, is
    <3> QED  BY <3>1, <3>2, <3>3
  <2>3. ASSUME NEW v, Pool(v) \in held[u]
        PROVE  Goods(u, v)' = Goods(u, v) /\ Debts(v)' = Debts(v)
    <3>1. Pool(v) \notin held[t]
      <4>1. Conflict(t, u, Pool(v))
        BY PoolRow DEF Conflict
      <4> QED  BY <2>3, <4>1 DEF BooksInv, LockInv
    <3>2. \A r \in DOMAIN stock :
             r[2] = t /\ r[3] = v => /\ r[1] = "hole" => <<t, v>> \in blind
                                     /\ r[1] = "layer" => kind[t] = "return"
      BY <1>3, <3>1 DEF DebtInv
    <3> QED  BY <1>1, <1>2, <1>3, <1>4, <3>2 DEF Goods, Debts
  <2>4. \A v : Goods(u, v) \subseteq DOMAIN stock /\ Debts(v) \subseteq DOMAIN stock
    BY DEF Goods, Debts
  <2>5. \A v : Pool(v) \in held[u] =>
           /\ Spent(u, Goods(u, v)) => Spent(u, Goods(u, v))'
           /\ Spent(u, Debts(v)) => Spent(u, Debts(v))'
           /\ Asking(u, Goods(u, v)) => Asking(u, Goods(u, v))'
           /\ Asking(u, Debts(v) \cup Goods(u, v)) => Asking(u, Debts(v) \cup Goods(u, v))'
    BY <1>2, <2>2, <2>3, <2>4 DEF Spent, Asking
  <2>6. \A v : Pool(v)' = Pool(v)
    BY DEF Pool
  <2>7. pc[u] = "consume" /\ kind[u] = "sale" /\ <<u, Line(u).v>> \notin blind =>
           Pool(Line(u).v) \in held[u]
    <3> SUFFICES ASSUME pc[u] = "consume", kind[u] = "sale", <<u, Line(u).v>> \notin blind
                 PROVE  Pool(Line(u).v) \in held[u]
      OBVIOUS
    <3>1. line[u] \in DOMAIN doc[u]
      BY FirstLine DEF BooksInv, StockKinds
    <3>2. Line(u).v \in LineVariants(u)
      BY <3>1 DEF LineVariants, Line
    <3> QED  BY <3>2 DEF QueueInv, SaleInv, Has
  <2>8. ASSUME u \in Running, NEW r \in DOMAIN stock, r[2] = u, r[1] = "hole",
               <<u, r[3]>> \notin blind
        PROVE  Pool(r[3])' \in held'[u] /\ Spent(u, Goods(u, r[3]))'
    <3>1. Pool(r[3]) \in held[u] /\ Spent(u, Goods(u, r[3]))
      BY <2>1, <2>8 DEF DebtInv
    <3> QED  BY <1>2, <2>5, <2>6, <3>1
  <2>9. ASSUME u \in Running, NEW r \in DOMAIN stock, r[2] = u, r[1] = "layer",
               kind[u] # "return"
        PROVE  /\ Pool(r[3])' \in held'[u]
               /\ \/ pc[u] = "settle" /\ r[3] = Line(u).v
                  \/ Spent(u, Debts(r[3]))'
                  \/ Spent(u, Goods(u, r[3]))'
    <3>1. Pool(r[3]) \in held[u]
      BY <2>1, <2>9 DEF DebtInv
    <3>2. \/ pc[u] = "settle" /\ r[3] = Line(u).v
          \/ Spent(u, Debts(r[3])) \/ Spent(u, Goods(u, r[3]))
      BY <2>1, <2>9 DEF DebtInv
    <3> QED  BY <1>2, <2>5, <2>6, <3>1, <3>2
  <2>10. PICK item : item = Line(u).v
    OBVIOUS
  <2>11. Line(u)'.v = item
    BY <2>1, <2>10
  <2>12. ASSUME u \in Running, pc[u] = "consume", kind[u] = "sale", <<u, item>> \notin blind
         PROVE  Asking(u, Goods(u, item))'
    BY <2>1, <2>5, <2>7, <2>10, <2>12 DEF DebtInv
  <2>13. ASSUME u \in Running, pc[u] = "settle"
         PROVE  Pool(item) \in held'[u] /\ Asking(u, Debts(item) \cup Goods(u, item))'
    BY <1>2, <2>1, <2>5, <2>10, <2>13 DEF DebtInv
  <2>14. u \in Running /\ pc[u] = "receive" => want'[u] \subseteq {Pool(item)}
    BY <1>2, <2>1, <2>10 DEF DebtInv
  <2> QED
    BY <1>1, <1>2, <1>4, <2>1, <2>6, <2>8, <2>9, <2>10, <2>11, <2>12, <2>13, <2>14 DEF DebtInv
<1>8. DebtInv(t)'
  BY <1>2 DEF DebtInv, Running, Steps
<1>9. NoHoleBesideStock'
  <2> SUFFICES ASSUME NEW h \in OnTheBooks("hole")', NEW l \in OnTheBooks("layer")',
                      h[3] = l[3], <<h[2], h[3]>> \notin blind,
                      l[2] = 0 \/ kind[l[2]] # "return"
               PROVE  FALSE
    BY <1>1 DEF NoHoleBesideStock
  <2>1. /\ h \in DOMAIN stock /\ h[1] = "hole" /\ h[2] \in Committed \cup {t}
        /\ l \in DOMAIN stock /\ l[1] = "layer" /\ l[2] \in Committed \cup {t}
        /\ stock'[h].qty > 0 /\ stock'[l].qty > 0
    BY <1>3, <1>4 DEF OnTheBooks
  <2>2. Left(t, h) # 0 /\ Left(t, l) # 0 /\ stock[h].qty > 0 /\ stock[l].qty > 0
    BY <1>4, <1>6, <2>1
  <2>3. l \in Goods(t, h[3])
    BY <2>1 DEF Goods
  <2>4. CASE h[2] = t
    BY <1>3, <2>1, <2>2, <2>3, <2>4 DEF DebtInv, Spent
  <2>5. CASE h[2] # t /\ l[2] = t
    <3>1. h \in Debts(h[3]) /\ kind[t] # "return"
      BY <1>2, <2>1, <2>5 DEF Debts
    <3>2. Spent(t, Debts(h[3])) \/ Spent(t, Goods(t, h[3]))
      BY <1>1, <1>3, <2>1, <2>5, <3>1 DEF DebtInv
    <3> QED  BY <2>2, <2>3, <3>1, <3>2 DEF Spent
  <2>6. CASE h[2] # t /\ l[2] # t
    <3>1. h \in OnTheBooks("hole") /\ l \in OnTheBooks("layer")
      BY <2>1, <2>2, <2>6 DEF OnTheBooks
    <3> QED  BY <3>1 DEF OwedInv, NoHoleBesideStock
  <2> QED  BY <2>4, <2>5, <2>6
<1> QED  BY <1>7, <1>8, <1>9 DEF OwedInv

LEMMA OwedCorrect == Spec => []OwedInv
<1>1. BooksInv /\ StockInv /\ StockInv' /\ MoneyInv /\ QueueInv /\ OwedInv /\ [Next]_vars
         => OwedInv'
  <2> SUFFICES ASSUME BooksInv, StockInv, StockInv', MoneyInv, QueueInv, OwedInv, [Next]_vars
               PROVE  OwedInv'
    OBVIOUS
  <2>1. CASE UNCHANGED vars \/ OpenSession
    <3>1. UNCHANGED <<stock, kind, doc, pc, line, held, want, drawn, blind>>
      BY <2>1 DEF vars, rowVars, docVars, txnVars, OpenSession
    <3> QED  BY <3>1 DEF OwedInv, NoHoleBesideStock, OnTheBooks, DebtInv, Running, Committed,
                         Goods, Debts, Spent, Asking, Left, Drawn, Line, Pool
  <2>2. ASSUME NEW t \in Txns, BeginStock(t) \/ BeginCash(t) \/ BeginReturn(t)
        PROVE  OwedInv'
    <3>1. PICK k, d, u : Begins(t, k, d, u)
      BY <2>2 DEF BeginStock, BeginCash, BeginReturn
    <3> QED  BY <3>1, BeginOwes
  <2>3. ASSUME NEW t \in Txns, Step(t)
        PROVE  OwedInv'
    BY <2>3, TakeSessionOwes, CountAndNumberOwe, LockStockOwes, ConsumeOwes, ReceiveOwes,
       SettleOwes, RestoreOwes, CommitOwes DEF Step
  <2>4. ASSUME NEW t \in Txns, Rollback(t) \/ Victim(t)
        PROVE  OwedInv'
    <3>1. t \in Running
      BY <2>4 DEF Rollback, Victim, BooksInv, TxnInv, Running
    <3>2. \E how \in {"refused", "rolled back"} :
             End(t, how) /\ UNCHANGED <<rowVars, docVars, blind>>
      BY <2>4, Zenon DEF Rollback, Victim
    <3>3. PICK how : /\ how \notin Steps \cup {"none", "committed"}
                     /\ End(t, how) /\ UNCHANGED <<rowVars, docVars, blind>>
      BY <3>2, GivenUp, Zenon
    <3>4. pc[t] \in Steps
      BY <3>1 DEF Running
    <3> QED  BY <3>3, <3>4, GiveUpOwes
  <2> QED  BY <2>1, <2>2, <2>3, <2>4 DEF Next
<1> QED
  BY <1>1, InitOwed, BooksCorrect, StockCorrect, MoneyCorrect, QueueCorrect, PTL DEF Spec

\* A delivery settles every hole a sale with the pool row left, or leaves no
\* layer open: the two never stand beside each other (shortfall.go:106), what
\* returns bring back left aside.
THEOREM NoHoleBesideStockHolds == Spec => []NoHoleBesideStock
<1>1. OwedInv => NoHoleBesideStock
  BY DEF OwedInv
<1> QED  BY <1>1, OwedCorrect, PTL

=============================================================================
