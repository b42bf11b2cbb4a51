------------------------------ MODULE FiniteLemmas ------------------------------
(***************************************************************************)
(* Finite sets: the last element of an order, sums of a function as        *)
(* SumFunctionOnSet takes them, one element at a time in any order, folds  *)
(* of a sequence, and what is computed step by step.                       *)
(*                                                                         *)
(* The lemmas are proved by minimal counterexample: a set of subsets of a  *)
(* finite set has a member that is minimal for inclusion (FiniteMin).      *)
(***************************************************************************)
EXTENDS SequencesExt, Orders, FiniteSetTheorems, TLAPS

\* Induction over the subsets of a finite set: of those that are no example
\* there is a smallest.
LEMMA FiniteMin ==
    ASSUME NEW S, IsFiniteSet(S), NEW T, T \subseteq SUBSET S, T # {}
    PROVE \E x \in T : \A y \in T : y \subseteq x => y = x
<1>1. IsWellFoundedOn(StrictSubsetOrdering(S), FiniteSubsetsOf(S))
  BY FS_StrictSubsetOrderingWellFounded
<1>2. FiniteSubsetsOf(S) = SUBSET S
  BY FS_FiniteSubsetsOfFinite
<1> DEFINE R == StrictSubsetOrdering(S)
<1> HIDE DEF R
<1>3. \E x \in T : \A y \in T : ~(<<y, x>> \in R)
  BY <1>1, <1>2, WFMin DEF R
<1>4. \A x, y \in SUBSET S : y \subseteq x /\ y # x => <<y, x>> \in R
  BY DEF R, StrictSubsetOrdering
<1> QED
  BY <1>3, <1>4

\* An order, as a set of pairs, has a last element.
LEMMA FiniteLast ==
    ASSUME NEW S, IsFiniteSet(S), S # {}, NEW R,
           \A x, y \in S : x # y => <<x, y>> \in R \/ <<y, x>> \in R,
           \A x, y, z \in S : <<x, y>> \in R /\ <<y, z>> \in R => <<x, z>> \in R
    PROVE \E x \in S : \A y \in S \ {x} : <<y, x>> \in R
<1> DEFINE LastOf(s, x) == x \in s /\ \A y \in s \ {x} : <<y, x>> \in R
           T == {s \in SUBSET S : s # {} /\ ~\E x \in s : LastOf(s, x)}
<1> SUFFICES ASSUME T # {} PROVE FALSE
  OBVIOUS
<1>1. PICK s \in T : \A y \in T : y \subseteq s => y = s
  <2>1. T \subseteq SUBSET S
    OBVIOUS
  <2> HIDE DEF T
  <2> QED
    BY <2>1, FiniteMin
<1>2. PICK p : p \in s
  OBVIOUS
<1>3. s \subseteq S /\ ~\E x \in s : LastOf(s, x)
  OBVIOUS
<1>4. CASE s = {p}
  BY <1>3, <1>4
<1>5. CASE s # {p}
  <2>1. s \ {p} \in SUBSET S /\ s \ {p} # {} /\ s \ {p} # s /\ s \ {p} \subseteq s
    BY <1>2, <1>5
  <2>2. \E x \in s \ {p} : LastOf(s \ {p}, x)
    <3>1. s \ {p} \notin T
      BY <1>1, <2>1
    <3> HIDE DEF LastOf
    <3> QED
      BY <2>1, <3>1
  <2>3. PICK x \in s \ {p} : \A y \in (s \ {p}) \ {x} : <<y, x>> \in R
    BY <2>2
  <2>4. x \in S /\ p \in S /\ x # p
    BY <1>2, <1>3
  <2>5. CASE <<p, x>> \in R
    BY <1>3, <2>3, <2>5
  <2>6. CASE <<x, p>> \in R
    <3>1. \A y \in s \ {p} : <<y, p>> \in R
      BY <1>3, <2>3, <2>4, <2>6
    <3> QED
      BY <1>2, <1>3, <3>1
  <2> QED
    BY <2>4, <2>5, <2>6
<1> QED
  BY <1>4, <1>5

-----------------------------------------------------------------------------
(* The recursion behind the sum.                                             *)

Pick(s) == CHOOSE x \in s : TRUE

\* g sums f over the subsets of S.
Adds(g, f, S) ==
    g = [s \in SUBSET S |-> IF s = {} THEN 0 ELSE f[Pick(s)] + g[s \ {Pick(s)}]]

LEMMA SumIsAdds ==
    ASSUME NEW f, NEW S
    PROVE SumFunctionOnSet(f, S) = (CHOOSE g : Adds(g, f, S))[S]
BY DEF SumFunctionOnSet, FoldFunctionOnSet, MapThenFoldSet, Adds, Pick

LEMMA PickIn == ASSUME NEW s, s # {} PROVE Pick(s) \in s
BY DEF Pick

LEMMA AddsAt ==
    ASSUME NEW f, NEW g, NEW S, Adds(g, f, S), NEW s \in SUBSET S
    PROVE g[s] = IF s = {} THEN 0 ELSE f[Pick(s)] + g[s \ {Pick(s)}]
BY DEF Adds

LEMMA AddsAgree ==
    ASSUME NEW f, NEW S, IsFiniteSet(S), NEW R, NEW g, NEW h, Adds(g, f, S), Adds(h, f, R)
    PROVE \A s \in SUBSET (S \cap R) : g[s] = h[s]
<1> DEFINE T == {s \in SUBSET (S \cap R) : g[s] # h[s]}
<1> SUFFICES ASSUME T # {} PROVE FALSE
  OBVIOUS
<1>1. PICK s \in T : \A y \in T : y \subseteq s => y = s
  <2>1. T \subseteq SUBSET S
    OBVIOUS
  <2> HIDE DEF T
  <2> QED
    BY <2>1, FiniteMin
<1>2. s \in SUBSET S /\ s \in SUBSET R /\ g[s] # h[s]
  OBVIOUS
<1>3. s # {}
  BY <1>2, AddsAt
<1>4. Pick(s) \in s
  BY <1>3, PickIn
<1>5. s \ {Pick(s)} \notin T
  BY <1>1, <1>4
<1>6. g[s \ {Pick(s)}] = h[s \ {Pick(s)}]
  BY <1>2, <1>5
<1>7. g[s] = f[Pick(s)] + g[s \ {Pick(s)}] /\ h[s] = f[Pick(s)] + h[s \ {Pick(s)}]
  BY <1>2, <1>3, AddsAt
<1> QED
  BY <1>2, <1>6, <1>7

LEMMA AddsExists ==
    ASSUME NEW f, NEW S, IsFiniteSet(S) PROVE \E g : Adds(g, f, S)
<1> DEFINE T == {s \in SUBSET S : ~\E g : Adds(g, f, s)}
<1> SUFFICES ASSUME T # {} PROVE FALSE
  OBVIOUS
<1>1. PICK s \in T : \A y \in T : y \subseteq s => y = s
  <2>1. T \subseteq SUBSET S
    OBVIOUS
  <2> HIDE DEF T
  <2> QED
    BY <2>1, FiniteMin
<1> DEFINE G(u) == CHOOSE g : Adds(g, f, u)
           Rest(u) == u \ {Pick(u)}
           g0 == [u \in SUBSET s |-> IF u = {} THEN 0 ELSE f[Pick(u)] + G(Rest(u))[Rest(u)]]
<1>2. \A u \in SUBSET s : u # s => Adds(G(u), f, u)
  BY <1>1
<1>3. \A u \in SUBSET s : u # {} => Rest(u) \in SUBSET s /\ Rest(u) # s /\ IsFiniteSet(Rest(u))
  BY PickIn, FS_Subset
<1>4. ASSUME NEW u \in SUBSET s, u # s PROVE g0[u] = G(u)[u]
  <2>1. Adds(G(u), f, u)
    BY <1>2, <1>4
  <2>2. u = {} => G(u)[u] = 0
    BY <2>1, AddsAt
  <2>3. ASSUME u # {} PROVE G(u)[u] = f[Pick(u)] + G(Rest(u))[Rest(u)]
    <3>1. G(u)[u] = f[Pick(u)] + G(u)[Rest(u)]
      <4> HIDE DEF G
      <4> QED
        BY <2>1, <2>3, AddsAt
    <3>2. Adds(G(Rest(u)), f, Rest(u)) /\ IsFiniteSet(Rest(u)) /\ Rest(u) \subseteq u
      BY <1>2, <1>3, <2>3
    <3>3. G(u)[Rest(u)] = G(Rest(u))[Rest(u)]
      <4>1. Rest(u) \in SUBSET (Rest(u) \cap u)
        BY <3>2
      <4> HIDE DEF G, Rest
      <4> QED
        BY <2>1, <3>2, <4>1, AddsAgree
    <3> QED
      BY <3>1, <3>3
  <2> QED
    BY <2>2, <2>3
<1>5. Adds(g0, f, s)
  <2>1. \A u \in SUBSET s : g0[u] = IF u = {} THEN 0 ELSE f[Pick(u)] + g0[Rest(u)]
    <3> TAKE u \in SUBSET s
    <3>1. CASE u = {}
      BY <3>1
    <3>2. CASE u # {}
      <4>1. g0[u] = f[Pick(u)] + G(Rest(u))[Rest(u)]
        BY <3>2
      <4>2. g0[Rest(u)] = G(Rest(u))[Rest(u)]
        BY <1>3, <1>4, <3>2
      <4> QED
        BY <3>2, <4>1, <4>2
    <3> QED
      BY <3>1, <3>2
  <2>2. g0 = [u \in SUBSET s |-> g0[u]]
    OBVIOUS
  <2> HIDE DEF g0
  <2>3. g0 = [u \in SUBSET s |-> IF u = {} THEN 0 ELSE f[Pick(u)] + g0[Rest(u)]]
    BY <2>1, <2>2
  <2> QED
    BY <2>3 DEF Adds
<1> QED
  BY <1>1, <1>5

\* The sum, one element at a time.
LEMMA SumStep ==
    ASSUME NEW f, NEW S, IsFiniteSet(S)
    PROVE SumFunctionOnSet(f, S) =
            IF S = {} THEN 0 ELSE f[Pick(S)] + SumFunctionOnSet(f, S \ {Pick(S)})
<1> DEFINE R == S \ {Pick(S)}
           g == CHOOSE x : Adds(x, f, S)
           h == CHOOSE x : Adds(x, f, R)
<1>1. IsFiniteSet(R)
  BY FS_Subset
<1>2. Adds(g, f, S) /\ Adds(h, f, R)
  BY <1>1, AddsExists
<1>3. SumFunctionOnSet(f, S) = g[S] /\ SumFunctionOnSet(f, R) = h[R]
  BY SumIsAdds
<1> HIDE DEF g, h
<1>4. g[S] = IF S = {} THEN 0 ELSE f[Pick(S)] + g[R]
  <2>1. S \in SUBSET S /\ Adds(g, f, S)
    BY <1>2
  <2> QED
    BY <2>1, AddsAt
<1>5. g[R] = h[R]
  BY <1>1, <1>2, AddsAgree
<1> QED
  BY <1>3, <1>4, <1>5

-----------------------------------------------------------------------------
(* What sums over finite sets are like.                                      *)

LEMMA SumEmpty == ASSUME NEW f PROVE SumFunctionOnSet(f, {}) = 0
BY SumStep, FS_EmptySet

LEMMA SumIsInt ==
    ASSUME NEW S, IsFiniteSet(S), NEW f, \A x \in S : f[x] \in Int
    PROVE SumFunctionOnSet(f, S) \in Int
<1> DEFINE T == {s \in SUBSET S : SumFunctionOnSet(f, s) \notin Int}
<1> SUFFICES ASSUME T # {} PROVE FALSE
  OBVIOUS
<1>1. PICK s \in T : \A y \in T : y \subseteq s => y = s
  <2>1. T \subseteq SUBSET S
    OBVIOUS
  <2> HIDE DEF T
  <2> QED
    BY <2>1, FiniteMin
<1>2. IsFiniteSet(s)
  BY FS_Subset
<1>3. s # {}
  <2>1. SumFunctionOnSet(f, s) \notin Int
    OBVIOUS
  <2>2. SumFunctionOnSet(f, {}) = 0
    BY SumEmpty
  <2> QED
    BY <2>1, <2>2
<1>4. Pick(s) \in s
  BY <1>3, PickIn
<1>5. SumFunctionOnSet(f, s \ {Pick(s)}) \in Int
  BY <1>1, <1>4
<1>6. SumFunctionOnSet(f, s) = f[Pick(s)] + SumFunctionOnSet(f, s \ {Pick(s)})
  BY <1>2, <1>3, SumStep
<1>7. f[Pick(s)] \in Int
  BY <1>4
<1> QED
  BY <1>5, <1>6, <1>7

\* Two functions with the same values have the same sum.
LEMMA SumSame ==
    ASSUME NEW S, IsFiniteSet(S), NEW f, NEW g, \A x \in S : f[x] = g[x]
    PROVE SumFunctionOnSet(f, S) = SumFunctionOnSet(g, S)
<1> DEFINE T == {s \in SUBSET S : SumFunctionOnSet(f, s) # SumFunctionOnSet(g, s)}
<1> SUFFICES ASSUME T # {} PROVE FALSE
  OBVIOUS
<1>1. PICK s \in T : \A y \in T : y \subseteq s => y = s
  <2>1. T \subseteq SUBSET S
    OBVIOUS
  <2> HIDE DEF T
  <2> QED
    BY <2>1, FiniteMin
<1>2. IsFiniteSet(s)
  BY FS_Subset
<1>3. s # {}
  BY <1>1, SumEmpty
<1>4. Pick(s) \in s
  BY <1>3, PickIn
<1>5. SumFunctionOnSet(f, s \ {Pick(s)}) = SumFunctionOnSet(g, s \ {Pick(s)})
  BY <1>1, <1>4
<1>6. /\ SumFunctionOnSet(f, s) = f[Pick(s)] + SumFunctionOnSet(f, s \ {Pick(s)})
      /\ SumFunctionOnSet(g, s) = g[Pick(s)] + SumFunctionOnSet(g, s \ {Pick(s)})
  BY <1>2, <1>3, SumStep
<1> QED
  BY <1>4, <1>5, <1>6

\* Any element may be the one taken out.
LEMMA SumRemove ==
    ASSUME NEW S, IsFiniteSet(S), NEW f, \A x \in S : f[x] \in Int, NEW x \in S
    PROVE SumFunctionOnSet(f, S) = f[x] + SumFunctionOnSet(f, S \ {x})
<1> DEFINE T == {s \in SUBSET S : \E y \in s :
                    SumFunctionOnSet(f, s) # f[y] + SumFunctionOnSet(f, s \ {y})}
<1> SUFFICES ASSUME T # {} PROVE FALSE
  <2>1. S \in SUBSET S
    OBVIOUS
  <2> QED
    BY <2>1
<1>1. PICK s \in T : \A y \in T : y \subseteq s => y = s
  <2>1. T \subseteq SUBSET S
    OBVIOUS
  <2> HIDE DEF T
  <2> QED
    BY <2>1, FiniteMin
<1>2. PICK y \in s : SumFunctionOnSet(f, s) # f[y] + SumFunctionOnSet(f, s \ {y})
  OBVIOUS
<1> DEFINE p == Pick(s)
<1>3. p \in s
  BY PickIn
<1>4. IsFiniteSet(s) /\ IsFiniteSet(s \ {p}) /\ IsFiniteSet(s \ {y})
  BY FS_Subset
<1>5. SumFunctionOnSet(f, s) = f[p] + SumFunctionOnSet(f, s \ {p})
  BY <1>3, <1>4, SumStep
<1>6. p # y
  BY <1>2, <1>5
<1> HIDE DEF p
<1>7. SumFunctionOnSet(f, s \ {p}) = f[y] + SumFunctionOnSet(f, (s \ {p}) \ {y})
  <2>1. s \ {p} \notin T /\ s \ {p} \in SUBSET S /\ y \in s \ {p}
    BY <1>1, <1>3, <1>6
  <2> QED
    BY <2>1
<1>8. SumFunctionOnSet(f, s \ {y}) = f[p] + SumFunctionOnSet(f, (s \ {y}) \ {p})
  <2>1. s \ {y} \notin T /\ s \ {y} \in SUBSET S /\ p \in s \ {y}
    BY <1>1, <1>3, <1>6
  <2> QED
    BY <2>1
<1>9. SumFunctionOnSet(f, (s \ {p}) \ {y}) = SumFunctionOnSet(f, (s \ {y}) \ {p})
  <2>1. (s \ {p}) \ {y} = (s \ {y}) \ {p}
    OBVIOUS
  <2> QED
    BY <2>1
<1>10. f[p] \in Int /\ f[y] \in Int /\ SumFunctionOnSet(f, (s \ {y}) \ {p}) \in Int
  <2>1. IsFiniteSet((s \ {y}) \ {p}) /\ \A z \in (s \ {y}) \ {p} : f[z] \in Int
    BY <1>4, FS_Subset
  <2> QED
    BY <1>3, <2>1, SumIsInt
<1> QED
  BY <1>2, <1>5, <1>7, <1>8, <1>9, <1>10

\* An element more.
LEMMA SumAdd ==
    ASSUME NEW S, IsFiniteSet(S), NEW x, x \notin S, NEW f, \A y \in S \cup {x} : f[y] \in Int
    PROVE SumFunctionOnSet(f, S \cup {x}) = f[x] + SumFunctionOnSet(f, S)
<1>1. IsFiniteSet(S \cup {x}) /\ x \in S \cup {x} /\ (S \cup {x}) \ {x} = S
  BY FS_AddElement
<1> QED
  BY <1>1, SumRemove

\* What is nothing adds nothing.
LEMMA SumZero ==
    ASSUME NEW S, IsFiniteSet(S), NEW f, \A x \in S : f[x] = 0
    PROVE SumFunctionOnSet(f, S) = 0
<1> DEFINE T == {s \in SUBSET S : SumFunctionOnSet(f, s) # 0}
<1> SUFFICES ASSUME T # {} PROVE FALSE
  OBVIOUS
<1>1. PICK s \in T : \A y \in T : y \subseteq s => y = s
  <2>1. T \subseteq SUBSET S
    OBVIOUS
  <2> HIDE DEF T
  <2> QED
    BY <2>1, FiniteMin
<1>2. IsFiniteSet(s)
  BY FS_Subset
<1>3. s # {}
  BY <1>1, SumEmpty
<1>4. Pick(s) \in s
  BY <1>3, PickIn
<1>5. SumFunctionOnSet(f, s \ {Pick(s)}) = 0
  BY <1>1, <1>4
<1> QED
  BY <1>2, <1>3, <1>4, <1>5, SumStep

\* Ones count.
LEMMA SumOnes ==
    ASSUME NEW S, IsFiniteSet(S), NEW f, \A x \in S : f[x] = 1
    PROVE SumFunctionOnSet(f, S) = Cardinality(S)
<1> DEFINE T == {s \in SUBSET S : SumFunctionOnSet(f, s) # Cardinality(s)}
<1> SUFFICES ASSUME T # {} PROVE FALSE
  OBVIOUS
<1>1. PICK s \in T : \A y \in T : y \subseteq s => y = s
  <2>1. T \subseteq SUBSET S
    OBVIOUS
  <2> HIDE DEF T
  <2> QED
    BY <2>1, FiniteMin
<1>2. IsFiniteSet(s) /\ SumFunctionOnSet(f, s) # Cardinality(s)
  BY FS_Subset
<1>3. s # {}
  BY <1>2, SumEmpty, FS_EmptySet
<1>4. Pick(s) \in s
  BY <1>3, PickIn
<1>5. SumFunctionOnSet(f, s \ {Pick(s)}) = Cardinality(s \ {Pick(s)})
  BY <1>1, <1>4
<1>6. SumFunctionOnSet(f, s) = f[Pick(s)] + SumFunctionOnSet(f, s \ {Pick(s)})
  BY <1>2, <1>3, SumStep
<1>7. Cardinality(s \ {Pick(s)}) = Cardinality(s) - 1 /\ Cardinality(s) \in Nat
  BY <1>2, <1>4, FS_RemoveElement, FS_CardinalityType
<1>8. f[Pick(s)] = 1
  BY <1>4
<1> QED
  BY <1>2, <1>5, <1>6, <1>7, <1>8

\* Two sums over the same set are one.
LEMMA SumPlus ==
    ASSUME NEW S, IsFiniteSet(S), NEW f, NEW g, NEW h,
           \A x \in S : f[x] \in Int /\ g[x] \in Int /\ h[x] = f[x] + g[x]
    PROVE SumFunctionOnSet(h, S) = SumFunctionOnSet(f, S) + SumFunctionOnSet(g, S)
<1> DEFINE T == {s \in SUBSET S :
        SumFunctionOnSet(h, s) # SumFunctionOnSet(f, s) + SumFunctionOnSet(g, s)}
<1> SUFFICES ASSUME T # {} PROVE FALSE
  OBVIOUS
<1>1. PICK s \in T : \A y \in T : y \subseteq s => y = s
  <2>1. T \subseteq SUBSET S
    OBVIOUS
  <2> HIDE DEF T
  <2> QED
    BY <2>1, FiniteMin
<1>2. IsFiniteSet(s) /\ IsFiniteSet(s \ {Pick(s)})
  BY FS_Subset
<1>3. s # {}
  <2> SUFFICES ASSUME s = {} PROVE FALSE
    OBVIOUS
  <2>1. SumFunctionOnSet(h, s) = 0
    BY SumEmpty
  <2>2. SumFunctionOnSet(f, s) = 0
    BY SumEmpty
  <2>3. SumFunctionOnSet(g, s) = 0
    BY SumEmpty
  <2>4. SumFunctionOnSet(h, s) # SumFunctionOnSet(f, s) + SumFunctionOnSet(g, s)
    OBVIOUS
  <2> QED
    BY <2>1, <2>2, <2>3, <2>4
<1>4. Pick(s) \in s
  BY <1>3, PickIn
<1> DEFINE p == Pick(s)
           R == s \ {p}
<1>5. SumFunctionOnSet(h, R) = SumFunctionOnSet(f, R) + SumFunctionOnSet(g, R)
  BY <1>1, <1>4
<1>6. /\ SumFunctionOnSet(h, s) = h[p] + SumFunctionOnSet(h, R)
      /\ SumFunctionOnSet(f, s) = f[p] + SumFunctionOnSet(f, R)
      /\ SumFunctionOnSet(g, s) = g[p] + SumFunctionOnSet(g, R)
  BY <1>2, <1>3, SumStep
<1>7. /\ f[p] \in Int /\ g[p] \in Int /\ h[p] = f[p] + g[p]
      /\ SumFunctionOnSet(f, R) \in Int /\ SumFunctionOnSet(g, R) \in Int
  <2>1. \A x \in R : f[x] \in Int /\ g[x] \in Int
    OBVIOUS
  <2> QED
    BY <1>2, <1>4, <2>1, SumIsInt
<1>8. SumFunctionOnSet(h, s) # SumFunctionOnSet(f, s) + SumFunctionOnSet(g, s)
  OBVIOUS
<1> HIDE DEF p, R
<1> QED
  BY <1>5, <1>6, <1>7, <1>8

\* The sum over a part is that of a function that is nothing outside it.
LEMMA SumPart ==
    ASSUME NEW S, IsFiniteSet(S), NEW f, \A x \in S : f[x] \in Int, NEW R \in SUBSET S
    PROVE SumFunctionOnSet(f, R) = SumFunctionOnSet([x \in S |-> IF x \in R THEN f[x] ELSE 0], S)
<1> DEFINE g == [x \in S |-> IF x \in R THEN f[x] ELSE 0]
           T == {s \in SUBSET S : SumFunctionOnSet(f, s \cap R) # SumFunctionOnSet(g, s)}
<1> SUFFICES ASSUME T # {} PROVE FALSE
  <2>1. S \in SUBSET S /\ S \cap R = R
    OBVIOUS
  <2> QED
    BY <2>1
<1>1. PICK s \in T : \A y \in T : y \subseteq s => y = s
  <2>1. T \subseteq SUBSET S
    OBVIOUS
  <2> HIDE DEF T
  <2> QED
    BY <2>1, FiniteMin
<1>2. /\ s \in SUBSET S /\ SumFunctionOnSet(f, s \cap R) # SumFunctionOnSet(g, s)
      /\ IsFiniteSet(s) /\ IsFiniteSet(s \cap R)
  BY FS_Subset
<1>3. s # {}
  <2>1. {} \cap R = {}
    OBVIOUS
  <2> QED
    BY <1>2, <2>1, SumEmpty
<1> DEFINE p == Pick(s)
<1>4. p \in s
  BY <1>3, PickIn
<1> HIDE DEF p
<1>5. SumFunctionOnSet(f, (s \ {p}) \cap R) = SumFunctionOnSet(g, s \ {p})
  BY <1>1, <1>4
<1>6. (\A x \in s : g[x] \in Int) /\ (\A x \in s \cap R : f[x] \in Int)
  BY <1>2
<1>7. SumFunctionOnSet(g, s) = g[p] + SumFunctionOnSet(g, s \ {p})
  <2> HIDE DEF g
  <2> QED
    BY <1>2, <1>4, <1>6, SumRemove
<1>8. CASE p \in R
  <2>1. (s \cap R) \ {p} = (s \ {p}) \cap R /\ p \in s \cap R /\ g[p] = f[p]
    BY <1>2, <1>4, <1>8
  <2>2. SumFunctionOnSet(f, s \cap R) = f[p] + SumFunctionOnSet(f, (s \cap R) \ {p})
    BY <1>2, <1>6, <2>1, SumRemove
  <2> QED
    BY <1>2, <1>5, <1>7, <2>1, <2>2
<1>9. CASE p \notin R
  <2>1. (s \ {p}) \cap R = s \cap R /\ g[p] = 0
    BY <1>2, <1>4, <1>9
  <2>2. SumFunctionOnSet(g, s \ {p}) \in Int
    <3>1. IsFiniteSet(s \ {p}) /\ \A x \in s \ {p} : g[x] \in Int
      BY <1>2, <1>6, FS_Subset
    <3> HIDE DEF g
    <3> QED
      BY <3>1, SumIsInt
  <2> QED
    BY <1>2, <1>5, <1>7, <2>1, <2>2
<1> QED
  BY <1>8, <1>9

\* What is nothing outside a part adds up on that part.
LEMMA SumOnlyPart ==
    ASSUME NEW S, IsFiniteSet(S), NEW f, \A x \in S : f[x] \in Int, NEW R \in SUBSET S,
           \A x \in S : x \notin R => f[x] = 0
    PROVE SumFunctionOnSet(f, S) = SumFunctionOnSet(f, R)
<1> DEFINE g == [x \in S |-> IF x \in R THEN f[x] ELSE 0]
<1>1. SumFunctionOnSet(f, R) = SumFunctionOnSet(g, S)
  BY SumPart
<1>2. \A x \in S : f[x] = g[x]
  OBVIOUS
<1> HIDE DEF g
<1>3. SumFunctionOnSet(f, S) = SumFunctionOnSet(g, S)
  BY <1>2, SumSame
<1> QED
  BY <1>1, <1>3

\* Two sets without a common element.
LEMMA SumUnion ==
    ASSUME NEW R, IsFiniteSet(R), NEW S, IsFiniteSet(S), R \cap S = {},
           NEW f, \A x \in R \cup S : f[x] \in Int
    PROVE SumFunctionOnSet(f, R \cup S) = SumFunctionOnSet(f, R) + SumFunctionOnSet(f, S)
<1> DEFINE U == R \cup S
           part(V) == [x \in U |-> IF x \in V THEN f[x] ELSE 0]
<1>1. IsFiniteSet(U) /\ R \in SUBSET U /\ S \in SUBSET U
  BY FS_Union
<1>2. /\ SumFunctionOnSet(f, R) = SumFunctionOnSet(part(R), U)
      /\ SumFunctionOnSet(f, S) = SumFunctionOnSet(part(S), U)
  BY <1>1, SumPart
<1>3. \A x \in U : part(R)[x] \in Int /\ part(S)[x] \in Int /\ f[x] = part(R)[x] + part(S)[x]
  OBVIOUS
<1> HIDE DEF U, part
<1>4. SumFunctionOnSet(f, U) = SumFunctionOnSet(part(R), U) + SumFunctionOnSet(part(S), U)
  BY <1>1, <1>3, SumPlus
<1> QED
  BY <1>2, <1>4 DEF U

\* A change of one value.
LEMMA SumChange ==
    ASSUME NEW S, IsFiniteSet(S), NEW f, NEW g, NEW x \in S,
           \A y \in S : f[y] \in Int /\ g[y] \in Int, \A y \in S \ {x} : f[y] = g[y]
    PROVE SumFunctionOnSet(g, S) = SumFunctionOnSet(f, S) + g[x] - f[x]
<1>1. IsFiniteSet(S \ {x})
  BY FS_Subset
<1>2. /\ SumFunctionOnSet(f, S) = f[x] + SumFunctionOnSet(f, S \ {x})
      /\ SumFunctionOnSet(g, S) = g[x] + SumFunctionOnSet(g, S \ {x})
  BY SumRemove
<1>3. SumFunctionOnSet(f, S \ {x}) = SumFunctionOnSet(g, S \ {x})
  BY <1>1, SumSame
<1>4. SumFunctionOnSet(f, S \ {x}) \in Int
  BY <1>1, SumIsInt
<1> QED
  BY <1>2, <1>3, <1>4

\* Nothing negative, nothing negative.
LEMMA SumIsNat ==
    ASSUME NEW S, IsFiniteSet(S), NEW f, \A x \in S : f[x] \in Nat
    PROVE SumFunctionOnSet(f, S) \in Nat
<1> DEFINE T == {s \in SUBSET S : SumFunctionOnSet(f, s) \notin Nat}
<1> SUFFICES ASSUME T # {} PROVE FALSE
  OBVIOUS
<1>1. PICK s \in T : \A y \in T : y \subseteq s => y = s
  <2>1. T \subseteq SUBSET S
    OBVIOUS
  <2> HIDE DEF T
  <2> QED
    BY <2>1, FiniteMin
<1>2. IsFiniteSet(s)
  BY FS_Subset
<1>3. s # {}
  <2>1. SumFunctionOnSet(f, s) \notin Nat
    OBVIOUS
  <2>2. SumFunctionOnSet(f, {}) = 0
    BY SumEmpty
  <2> QED
    BY <2>1, <2>2
<1>4. Pick(s) \in s
  BY <1>3, PickIn
<1>5. SumFunctionOnSet(f, s \ {Pick(s)}) \in Nat
  BY <1>1, <1>4
<1>6. SumFunctionOnSet(f, s) = f[Pick(s)] + SumFunctionOnSet(f, s \ {Pick(s)})
  BY <1>2, <1>3, SumStep
<1>7. f[Pick(s)] \in Nat
  BY <1>4
<1> QED
  BY <1>5, <1>6, <1>7

-----------------------------------------------------------------------------
(* The first and the last of some numbers.                                   *)

Indices(D) == IsFiniteSet(D) /\ D \subseteq Int

LEMMA NatMin ==
    ASSUME NEW T, T \subseteq Nat, T # {}
    PROVE \E x \in T : \A y \in T : x <= y
<1>1. PICK n \in T : n \in Nat
  OBVIOUS
<1> DEFINE S == 0 .. n
           U == {s \in SUBSET S : \E m \in T : s = 0 .. m}
<1>2. IsFiniteSet(S) /\ S \in U
  BY <1>1, FS_Interval
<1>3. PICK u \in U : \A v \in U : v \subseteq u => v = u
  <2>1. U \subseteq SUBSET S /\ U # {}
    BY <1>2
  <2> HIDE DEF U, S
  <2> QED
    BY <1>2, <2>1, FiniteMin
<1>4. PICK m \in T : u = 0 .. m
  OBVIOUS
<1>5. ASSUME NEW y \in T PROVE m <= y
  <2>1. m \in Nat /\ y \in Nat
    OBVIOUS
  <2>2. CASE y < m
    <3>1. 0 .. y \subseteq 0 .. m /\ 0 .. m \subseteq S
      BY <1>4, <2>1, <2>2
    <3>2. 0 .. y \in U
      BY <3>1
    <3>3. 0 .. y = 0 .. m
      BY <1>3, <1>4, <3>1, <3>2
    <3>4. m \in 0 .. y
      BY <2>1, <3>3
    <3> QED
      BY <2>1, <2>2, <3>4
  <2> QED
    BY <2>1, <2>2
<1> QED
  BY <1>5

LEMMA MaxIn ==
    ASSUME NEW s, IsFiniteSet(s), s # {}, s \subseteq Int
    PROVE Max(s) \in s /\ \A y \in s : y <= Max(s)
<1> DEFINE R == {p \in s \X s : p[1] <= p[2]}
<1>1. \A x, y \in s : x # y => <<x, y>> \in R \/ <<y, x>> \in R
  OBVIOUS
<1>2. \A x, y, z \in s : <<x, y>> \in R /\ <<y, z>> \in R => <<x, z>> \in R
  OBVIOUS
<1>3. \A x, y \in s : <<x, y>> \in R => x <= y
  OBVIOUS
<1> HIDE DEF R
<1>4. PICK x \in s : \A y \in s \ {x} : <<y, x>> \in R
  BY <1>1, <1>2, FiniteLast
<1>5. \A y \in s : x >= y
  <2> SUFFICES ASSUME NEW y \in s PROVE x >= y
    OBVIOUS
  <2>1. x \in Int /\ y \in Int
    OBVIOUS
  <2>2. y # x => y <= x
    BY <1>3, <1>4
  <2> QED
    BY <2>1, <2>2
<1>6. Max(s) \in s /\ \A y \in s : Max(s) >= y
  BY <1>5 DEF Max
<1> QED
  BY <1>6

-----------------------------------------------------------------------------
(* What a fold over a sequence comes to, when its step is a function.        *)

Folded(step, base, q) == FoldLeft(LAMBDA w, x : step[<<w, x>>], base, q)

\* g folds q up to each set of its indices.
Chains(g, step, base, q, D) ==
    g = [s \in SUBSET D |-> IF s = {} THEN base ELSE step[<<g[s \ {Max(s)}], q[Max(s)]>>]]

LEMMA FoldIsChain ==
    ASSUME NEW step, NEW base, NEW q
    PROVE Folded(step, base, q) = (CHOOSE g : Chains(g, step, base, q, DOMAIN q))[DOMAIN q]
BY DEF Folded, FoldLeft, MapThenFoldSet, Chains

LEMMA ChainsAt ==
    ASSUME NEW g, NEW step, NEW base, NEW q, NEW D, Chains(g, step, base, q, D),
           NEW s \in SUBSET D
    PROVE g[s] = IF s = {} THEN base ELSE step[<<g[s \ {Max(s)}], q[Max(s)]>>]
BY DEF Chains

LEMMA ChainsEmpty ==
    ASSUME NEW g, NEW step, NEW base, NEW q, NEW D, Chains(g, step, base, q, D)
    PROVE g[{}] = base
<1>1. {} \in SUBSET D
  OBVIOUS
<1> QED
  BY <1>1, ChainsAt

LEMMA ChainsAgree ==
    ASSUME NEW step, NEW base, NEW q, NEW D, Indices(D), NEW R, NEW g, NEW h,
           Chains(g, step, base, q, D), Chains(h, step, base, q, R)
    PROVE \A s \in SUBSET (D \cap R) : g[s] = h[s]
<1> DEFINE T == {s \in SUBSET (D \cap R) : g[s] # h[s]}
<1> SUFFICES ASSUME T # {} PROVE FALSE
  OBVIOUS
<1>1. PICK s \in T : \A y \in T : y \subseteq s => y = s
  <2>1. T \subseteq SUBSET D /\ IsFiniteSet(D)
    BY DEF Indices
  <2> HIDE DEF T
  <2> QED
    BY <2>1, FiniteMin
<1>2. s \in SUBSET D /\ s \in SUBSET R /\ g[s] # h[s]
  OBVIOUS
<1>3. s # {}
  <2>1. g[{}] = base /\ h[{}] = base
    BY ChainsEmpty
  <2> QED
    BY <1>2, <2>1
<1>4. Max(s) \in s
  <2>1. IsFiniteSet(s) /\ s \subseteq Int
    BY <1>2, FS_Subset DEF Indices
  <2> QED
    BY <1>3, <2>1, MaxIn
<1>5. s \ {Max(s)} \notin T
  BY <1>1, <1>4
<1>6. g[s \ {Max(s)}] = h[s \ {Max(s)}]
  BY <1>2, <1>5
<1>7. g[s] = step[<<g[s \ {Max(s)}], q[Max(s)]>>] /\ h[s] = step[<<h[s \ {Max(s)}], q[Max(s)]>>]
  BY <1>2, <1>3, ChainsAt
<1> QED
  BY <1>2, <1>6, <1>7

LEMMA ChainsExist ==
    ASSUME NEW step, NEW base, NEW q, NEW D, Indices(D)
    PROVE \E g : Chains(g, step, base, q, D)
<1> DEFINE T == {s \in SUBSET D : ~\E g : Chains(g, step, base, q, s)}
<1> SUFFICES ASSUME T # {} PROVE FALSE
  OBVIOUS
<1>1. PICK s \in T : \A y \in T : y \subseteq s => y = s
  <2>1. T \subseteq SUBSET D /\ IsFiniteSet(D)
    BY DEF Indices
  <2> HIDE DEF T
  <2> QED
    BY <2>1, FiniteMin
<1> DEFINE G(u) == CHOOSE g : Chains(g, step, base, q, u)
           Rest(u) == u \ {Max(u)}
           g0 == [u \in SUBSET s |-> IF u = {} THEN base ELSE step[<<G(Rest(u))[Rest(u)], q[Max(u)]>>]]
<1>2. \A u \in SUBSET s : u # s => Chains(G(u), step, base, q, u)
  BY <1>1
<1>3. \A u \in SUBSET s : u # {} => Rest(u) \in SUBSET s /\ Rest(u) # s /\ Indices(Rest(u)) /\ Rest(u) \subseteq u
  <2> SUFFICES ASSUME NEW u \in SUBSET s, u # {}
               PROVE Rest(u) \in SUBSET s /\ Rest(u) # s /\ Indices(Rest(u)) /\ Rest(u) \subseteq u
    OBVIOUS
  <2>1. IsFiniteSet(u) /\ u \subseteq Int
    BY FS_Subset DEF Indices
  <2>2. Max(u) \in u
    BY <2>1, MaxIn
  <2>3. IsFiniteSet(Rest(u))
    BY <2>1, FS_Subset
  <2> QED
    BY <2>1, <2>2, <2>3 DEF Indices
<1>4. ASSUME NEW u \in SUBSET s, u # s PROVE g0[u] = G(u)[u]
  <2>1. Chains(G(u), step, base, q, u)
    BY <1>2, <1>4
  <2>2. u = {} => G(u)[u] = base
    BY <2>1, ChainsAt
  <2>3. ASSUME u # {} PROVE G(u)[u] = step[<<G(Rest(u))[Rest(u)], q[Max(u)]>>]
    <3>1. G(u)[u] = step[<<G(u)[Rest(u)], q[Max(u)]>>]
      <4> HIDE DEF G
      <4> QED
        BY <2>1, <2>3, ChainsAt
    <3>2. Chains(G(Rest(u)), step, base, q, Rest(u)) /\ Indices(Rest(u)) /\ Rest(u) \subseteq u
      BY <1>2, <1>3, <2>3
    <3>3. G(u)[Rest(u)] = G(Rest(u))[Rest(u)]
      <4>1. Rest(u) \in SUBSET (Rest(u) \cap u)
        BY <3>2
      <4> HIDE DEF G, Rest
      <4> QED
        BY <2>1, <3>2, <4>1, ChainsAgree
    <3> QED
      BY <3>1, <3>3
  <2> QED
    BY <2>2, <2>3
<1>5. Chains(g0, step, base, q, s)
  <2>1. \A u \in SUBSET s : g0[u] = IF u = {} THEN base ELSE step[<<g0[Rest(u)], q[Max(u)]>>]
    <3> TAKE u \in SUBSET s
    <3>1. CASE u = {}
      BY <3>1
    <3>2. CASE u # {}
      <4>1. g0[u] = step[<<G(Rest(u))[Rest(u)], q[Max(u)]>>]
        BY <3>2
      <4>2. g0[Rest(u)] = G(Rest(u))[Rest(u)]
        BY <1>3, <1>4, <3>2
      <4> QED
        BY <3>2, <4>1, <4>2
    <3> QED
      BY <3>1, <3>2
  <2>2. g0 = [u \in SUBSET s |-> g0[u]]
    OBVIOUS
  <2> HIDE DEF g0
  <2>3. g0 = [u \in SUBSET s |-> IF u = {} THEN base ELSE step[<<g0[Rest(u)], q[Max(u)]>>]]
    BY <2>1, <2>2
  <2> QED
    BY <2>3 DEF Chains
<1> QED
  BY <1>1, <1>5

\* What holds of the base, and of each step after the one before it, holds of
\* the whole.
LEMMA FoldInvariant ==
    ASSUME NEW step, NEW base, NEW n \in Nat, NEW q, DOMAIN q = 1 .. n, NEW W, base \in W[0],
           \A k \in 1 .. n : \A w \in W[k - 1] : step[<<w, q[k]>>] \in W[k]
    PROVE Folded(step, base, q) \in W[n]
<1> DEFINE D == 1 .. n
           g == CHOOSE x : Chains(x, step, base, q, D)
           T == {s \in SUBSET D : \E k \in 0 .. n : s = 1 .. k /\ g[s] \notin W[k]}
<1>1. IsFiniteSet(D) /\ Indices(D)
  BY FS_Interval DEF Indices
<1>2. Chains(g, step, base, q, D) /\ Folded(step, base, q) = g[D]
  <2>1. Chains(g, step, base, q, D)
    BY <1>1, ChainsExist
  <2> QED
    BY <2>1, FoldIsChain
<1> HIDE DEF g
<1> SUFFICES ASSUME T # {} PROVE FALSE
  BY <1>2
<1>3. PICK s \in T : \A y \in T : y \subseteq s => y = s
  <2>1. T \subseteq SUBSET D
    OBVIOUS
  <2> HIDE DEF T, D
  <2> QED
    BY <1>1, <2>1, FiniteMin
<1>4. PICK k \in 0 .. n : s = 1 .. k /\ g[s] \notin W[k]
  OBVIOUS
<1>5. s \in SUBSET D
  OBVIOUS
<1>8. \A u \in SUBSET D : u \notin T => \A i \in 0 .. n : u = 1 .. i => g[u] \in W[i]
  OBVIOUS
<1> HIDE DEF T
<1>6. CASE k = 0
  <2>1. s = {}
    BY <1>4, <1>6
  <2>2. g[s] = base
    <3> HIDE DEF D
    <3>1. {} \in SUBSET D
      OBVIOUS
    <3>2. g[{}] = base
      BY <1>2, <3>1, ChainsAt
    <3> QED
      BY <2>1, <3>2
  <2> QED
    BY <1>4, <1>6, <2>2
<1>7. CASE k # 0
  <2>1. k \in 1 .. n /\ k - 1 \in 0 .. n /\ s # {} /\ k \in s
    <3>1. k \in 1 .. n /\ k - 1 \in 0 .. n
      BY <1>7
    <3>2. k \in 1 .. k
      BY <3>1
    <3> QED
      BY <1>4, <3>1, <3>2
  <2>2. Max(s) = k
    <3>1. IsFiniteSet(s) /\ s \subseteq Int
      BY <1>1, <1>5, FS_Subset DEF Indices
    <3>2. Max(s) \in s /\ \A y \in s : y <= Max(s)
      BY <2>1, <3>1, MaxIn
    <3> QED
      BY <1>4, <2>1, <3>2
  <2>3. s \ {k} = 1 .. (k - 1)
    BY <1>4, <2>1
  <2>4. 1 .. (k - 1) \notin T
    BY <1>3, <2>1, <2>3
  <2>5. g[1 .. (k - 1)] \in W[k - 1]
    <3>1. 1 .. (k - 1) \in SUBSET D
      BY <1>5, <2>3
    <3> HIDE DEF D
    <3> QED
      BY <1>8, <2>1, <2>4, <3>1
  <2>6. g[s] = step[<<g[1 .. (k - 1)], q[k]>>]
    <3> HIDE DEF D
    <3>1. g[s] = step[<<g[s \ {Max(s)}], q[Max(s)]>>]
      <4>1. g[s] = IF s = {} THEN base ELSE step[<<g[s \ {Max(s)}], q[Max(s)]>>]
        BY <1>2, <1>5, ChainsAt
      <4> QED
        BY <2>1, <4>1
    <3> QED
      BY <2>2, <2>3, <3>1
  <2> QED
    BY <1>4, <2>1, <2>5, <2>6
<1> QED
  BY <1>6, <1>7

\* A fold stays in a set that its step stays in.
LEMMA FoldType ==
    ASSUME NEW X, NEW T, NEW step, NEW base, base \in T, NEW q, q \in Seq(X),
           \A w \in T : \A x \in X : step[<<w, x>>] \in T
    PROVE Folded(step, base, q) \in T
<1> DEFINE n == Len(q)
           W == [k \in 0 .. n |-> T]
<1>1. n \in Nat /\ DOMAIN q = 1 .. n /\ \A k \in 1 .. n : q[k] \in X
  OBVIOUS
<1> HIDE DEF n
<1>2. \A k \in 0 .. n : W[k] = T
  OBVIOUS
<1>3. 0 \in 0 .. n /\ n \in 0 .. n /\ \A k \in 1 .. n : k \in 0 .. n /\ k - 1 \in 0 .. n
  BY <1>1
<1> HIDE DEF W
<1>4. base \in W[0]
  BY <1>2, <1>3
<1>5. \A k \in 1 .. n : \A w \in W[k - 1] : step[<<w, q[k]>>] \in W[k]
  BY <1>1, <1>2, <1>3
<1>6. Folded(step, base, q) \in W[n]
  BY <1>1, <1>4, <1>5, FoldInvariant
<1> QED
  BY <1>2, <1>3, <1>6

-----------------------------------------------------------------------------
(* Numbers in order.                                                         *)

Ascending(s, S) ==
    /\ s \in [1 .. Cardinality(S) -> S]
    /\ \A i, j \in 1 .. Cardinality(S) : i < j => s[i] < s[j]

LEMMA AscendingExists ==
    ASSUME NEW S, Indices(S) PROVE \E s : Ascending(s, S)
<1> DEFINE T == {R \in SUBSET S : ~\E s : Ascending(s, R)}
<1> SUFFICES ASSUME T # {} PROVE FALSE
  OBVIOUS
<1>1. PICK R \in T : \A y \in T : y \subseteq R => y = R
  <2>1. T \subseteq SUBSET S /\ IsFiniteSet(S)
    BY DEF Indices
  <2> HIDE DEF T
  <2> QED
    BY <2>1, FiniteMin
<1>2. IsFiniteSet(R) /\ R \subseteq Int /\ ~\E s : Ascending(s, R)
  BY FS_Subset DEF Indices
<1>3. CASE R = {}
  <2>1. Cardinality(R) = 0
    BY <1>3, FS_EmptySet
  <2>2. 1 .. Cardinality(R) = {}
    BY <2>1
  <2>3. [i \in {} |-> i] \in [{} -> R]
    OBVIOUS
  <2>4. Ascending([i \in {} |-> i], R)
    BY <2>2, <2>3 DEF Ascending
  <2> QED
    BY <1>2, <2>4
<1>4. CASE R # {}
  <2> DEFINE m == Max(R)
             Q == R \ {m}
             n == Cardinality(R)
  <2>1. m \in R /\ \A y \in R : y <= m
    BY <1>2, <1>4, MaxIn
  <2> HIDE DEF m
  <2>2. IsFiniteSet(Q) /\ Cardinality(Q) = n - 1 /\ n \in Nat /\ Cardinality(Q) \in Nat
    BY <1>2, <2>1, FS_RemoveElement, FS_CardinalityType
  <2>3. Q \notin T /\ Q \in SUBSET S
    BY <1>1, <2>1
  <2>4. PICK q : Ascending(q, Q)
    BY <2>3
  <2> DEFINE s == [i \in 1 .. n |-> IF i = n THEN m ELSE q[i]]
  <2>5. \A i \in 1 .. n : i # n => i \in 1 .. (n - 1)
    BY <2>2
  <2>6. q \in [1 .. (n - 1) -> Q] /\ \A i, j \in 1 .. (n - 1) : i < j => q[i] < q[j]
    BY <2>2, <2>4 DEF Ascending
  <2> HIDE DEF n
  <2>7. s \in [1 .. n -> R]
    BY <2>1, <2>5, <2>6
  <2>8. \A y \in Q : y < m
    BY <1>2, <2>1
  <2>9. ASSUME NEW i \in 1 .. n, NEW j \in 1 .. n, i < j PROVE s[i] < s[j]
    <3>1. i # n /\ i \in 1 .. (n - 1)
      BY <2>2, <2>9
    <3>2. CASE j = n
      BY <2>6, <2>8, <3>1, <3>2
    <3>3. CASE j # n
      BY <2>5, <2>6, <2>9, <3>1, <3>3
    <3> QED
      BY <3>2, <3>3
  <2> HIDE DEF s
  <2>10. Ascending(s, R)
    BY <2>7, <2>9 DEF Ascending, n
  <2> QED
    BY <1>2, <2>10
<1> QED
  BY <1>3, <1>4

LEMMA InOrderIs ==
    ASSUME NEW S, Indices(S) PROVE Ascending(InOrder(S), S)
<1>1. \E s \in [1 .. Cardinality(S) -> S] :
        \A i, j \in 1 .. Cardinality(S) : i < j => s[i] < s[j]
  BY AscendingExists DEF Ascending
<1> QED
  BY <1>1 DEF InOrder, Ascending

LEMMA InOrderCovers ==
    ASSUME NEW S, Indices(S), NEW x \in S
    PROVE \E i \in 1 .. Cardinality(S) : InOrder(S)[i] = x
<1> DEFINE n == Cardinality(S)
           s == InOrder(S)
           D == 1 .. n
<1>1. n \in Nat /\ IsFiniteSet(S) /\ S \subseteq Int
  BY FS_CardinalityType DEF Indices
<1>2. s \in [D -> S] /\ \A i, j \in D : i < j => s[i] < s[j]
  BY InOrderIs DEF Ascending
<1> HIDE DEF s
<1>3. Cardinality(D) = n
  BY <1>1, FS_Interval
<1>7. D \subseteq Int
  BY <1>1
<1>4. ASSUME NEW i \in D, NEW j \in D, s[i] = s[j] PROVE i = j
  <2>1. i \in Int /\ j \in Int /\ s[i] \in Int
    <3>1. s[i] \in S
      BY <1>2
    <3> HIDE DEF D
    <3> QED
      BY <1>1, <1>7, <3>1
  <2>2. ~(i < j) /\ ~(j < i)
    BY <1>2, <1>4, <2>1
  <2> QED
    BY <2>1, <2>2
<1> HIDE DEF D, n
<1>5. s \in Injection(D, S)
  BY <1>2, <1>4 DEF Injection, IsInjective
<1>6. s \in Surjection(D, S)
  <2>1. Cardinality(D) = Cardinality(S)
    BY <1>3 DEF n
  <2> QED
    BY <1>1, <1>5, <2>1, FS_Injection
<1> QED
  BY <1>6 DEF Surjection, D, n, s

LEMMA ThoseAre ==
    ASSUME NEW q, NEW I, Indices(I)
    PROVE /\ Cardinality(I) \in Nat /\ DOMAIN Those(q, I) = 1 .. Cardinality(I)
          /\ \A k \in 1 .. Cardinality(I) : InOrder(I)[k] \in I /\ Those(q, I)[k] = q[InOrder(I)[k]]
<1>1. Cardinality(I) \in Nat
  BY FS_CardinalityType DEF Indices
<1>2. InOrder(I) \in [1 .. Cardinality(I) -> I]
  BY InOrderIs DEF Ascending
<1> QED
  BY <1>1, <1>2 DEF Those

LEMMA ThoseType ==
    ASSUME NEW X, NEW q, NEW I, Indices(I), \A i \in I : q[i] \in X
    PROVE Those(q, I) \in Seq(X)
<1> DEFINE n == Cardinality(I)
           t == Those(q, I)
<1>1. n \in Nat /\ DOMAIN t = 1 .. n /\ \A k \in 1 .. n : t[k] \in X
  BY ThoseAre
<1>2. t = [k \in 1 .. n |-> t[k]]
  BY DEF Those
<1> HIDE DEF t, n
<1>3. t \in [1 .. n -> X]
  BY <1>1, <1>2
<1> QED
  BY <1>1, <1>3 DEF t, n

-----------------------------------------------------------------------------
(* Images and enumerations of finite sets.                                   *)

LEMMA ImageIsFinite ==
    ASSUME NEW S, IsFiniteSet(S), NEW f, DOMAIN f = S
    PROVE IsFiniteSet({f[x] : x \in S})
<1> DEFINE T == {f[x] : x \in S}
           g == [x \in S |-> f[x]]
<1>1. g \in Surjection(S, T)
  BY DEF Surjection
<1> QED
  BY <1>1, FS_Surjection

LEMMA SetToSeqIs ==
    ASSUME NEW S, IsFiniteSet(S)
    PROVE /\ Cardinality(S) \in Nat /\ SetToSeq(S) \in [1 .. Cardinality(S) -> S]
          /\ IsInjective(SetToSeq(S)) /\ SetToSeq(S) \in Seq(S)
<1>1. Cardinality(S) \in Nat /\ ExistsBijection(1 .. Cardinality(S), S)
  BY FS_CardinalityType
<1>2. PICK f \in Bijection(1 .. Cardinality(S), S) : TRUE
  BY <1>1 DEF ExistsBijection
<1>3. f \in [1 .. Cardinality(S) -> S] /\ IsInjective(f)
  BY <1>2 DEF Bijection, Injection
<1>4. SetToSeq(S) \in [1 .. Cardinality(S) -> S] /\ IsInjective(SetToSeq(S))
  BY <1>3 DEF SetToSeq
<1> QED
  BY <1>1, <1>4

-----------------------------------------------------------------------------
(* Counting up, and what is computed step by step.                           *)

LEMMA CountUp ==
    ASSUME NEW n \in Nat, NEW T, 0 \in T, \A k \in 1 .. n : k - 1 \in T => k \in T
    PROVE \A k \in 0 .. n : k \in T
<1> DEFINE U == {k \in 0 .. n : k \notin T}
<1>1. SUFFICES ASSUME U # {} PROVE FALSE
  OBVIOUS
<1>2. PICK m \in U : \A k \in U : m <= k
  <2>1. U \subseteq Nat
    OBVIOUS
  <2> HIDE DEF U
  <2> QED
    BY <1>1, <2>1, NatMin
<1>3. m \in 1 .. n /\ m - 1 \in 0 .. n /\ ~(m <= m - 1)
  BY <1>2
<1>4. m - 1 \in T
  BY <1>2, <1>3
<1> QED
  BY <1>2, <1>3, <1>4

\* What n steps from base may be, one after the other.
Stepwise(n, W, base, step) ==
    {f \in [0 .. n -> W] : f[0] = base /\ \A k \in 1 .. n : f[k] = step[<<k, f[k - 1]>>]}

LEMMA StepsExist ==
    ASSUME NEW n \in Nat, NEW W, NEW base \in W, NEW step,
           \A k \in 1 .. n : \A w \in W : step[<<k, w>>] \in W
    PROVE Stepwise(n, W, base, step) # {}
<1> DEFINE Steps(f, k) == f[0] = base /\ \A i \in 1 .. k : f[i] = step[<<i, f[i - 1]>>]
           T == {k \in 0 .. n : \E f \in [0 .. k -> W] : Steps(f, k)}
<1>1. 0 \in T
  <2> DEFINE g == [i \in 0 .. 0 |-> base]
  <2>1. g \in [0 .. 0 -> W] /\ Steps(g, 0)
    OBVIOUS
  <2> HIDE DEF g, Steps
  <2> QED
    BY <2>1
<1>2. ASSUME NEW k \in 1 .. n, k - 1 \in T PROVE k \in T
  <2>1. PICK f \in [0 .. k - 1 -> W] : Steps(f, k - 1)
    BY <1>2
  <2> DEFINE g == [i \in 0 .. k |-> IF i = k THEN step[<<k, f[k - 1]>>] ELSE f[i]]
  <2>2. f[k - 1] \in W /\ g \in [0 .. k -> W]
    BY <2>1
  <2>3. g[0] = base
    BY <2>1
  <2>4. ASSUME NEW i \in 1 .. k PROVE g[i] = step[<<i, g[i - 1]>>]
    BY <2>1
  <2>5. k \in 0 .. n
    OBVIOUS
  <2> HIDE DEF g
  <2>6. Steps(g, k)
    BY <2>3, <2>4
  <2> HIDE DEF Steps
  <2> QED
    BY <2>2, <2>5, <2>6
<1>3. n \in T
  <2> HIDE DEF T
  <2> QED
    BY <1>1, <1>2, CountUp
<1> QED
  BY <1>3 DEF Stepwise

=============================================================================
