---------------------------- MODULE DataInduction ----------------------------
(***************************************************************************)
(* Induction without operator parameters.  That < is well founded on the   *)
(* naturals is a theorem of the library about sets; from it follows that a *)
(* set with 0 and the successor of each of its numbers holds all of them,  *)
(* and a proof by induction is a proof about the set of the numbers that   *)
(* the claim holds for.  So are the facts proved here about sums over      *)
(* finite sets, which the models take from FiniteSetsExt.                  *)
(***************************************************************************)
EXTENDS Integers, FiniteSetTheorems, WellFoundedInduction, TLAPS

Below == {p \in Nat \X Nat : p[1] < p[2]}

\* A non-empty set of naturals has a least element.
LEMMA LeastNatural ==
  ASSUME NEW T, T \subseteq Nat, T # {}
  PROVE  \E n \in T : \A m \in T : n <= m
<1>1. IsWellFoundedOn(Below, Nat)
  BY NatLessThanWellFounded DEF OpToRel, Below
<1>2. PICK n \in T : \A m \in T : <<m, n>> \notin Below
  BY <1>1, WFMin
<1>3. ASSUME NEW m \in T PROVE n <= m
  <2>1. <<m, n>> \in Nat \X Nat /\ ~(<<m, n>>[1] < <<m, n>>[2])
    BY <1>2 DEF Below
  <2> QED BY <2>1
<1> QED BY <1>3

\* A set with 0 and the successor of each of its naturals holds them all.
LEMMA NaturalsBySuccessor ==
  ASSUME NEW I, 0 \in I, \A n \in Nat : n \in I => n + 1 \in I
  PROVE  \A n \in Nat : n \in I
<1> SUFFICES ASSUME Nat \ I # {} PROVE FALSE
  OBVIOUS
<1>1. PICK n \in Nat \ I : \A m \in Nat \ I : n <= m
  BY LeastNatural
<1>2. n - 1 \in Nat /\ n - 1 \notin Nat \ I
  BY <1>1
<1> QED BY <1>1, <1>2

-----------------------------------------------------------------------------
(* Sums: f[x] for each x of a finite set, as MapThenFoldSet adds them up *)

Chosen(s) == CHOOSE x \in s : TRUE

SumStep(f, g, s) == IF s = {} THEN 0 ELSE f[Chosen(s)] + g[s \ {Chosen(s)}]

\* The partial sums of the subsets of S.
Sums(f, S) == CHOOSE g : g = [s \in SUBSET S |-> SumStep(f, g, s)]

SumOver(f, S) == Sums(f, S)[S]

AreSums(f, S, g) == g = [s \in SUBSET S |-> SumStep(f, g, s)]

NaturalOn(f, S) == \A x \in S : f[x] \in Nat

LEMMA SizeOfSubset ==
  ASSUME NEW S, IsFiniteSet(S), NEW s \in SUBSET S
  PROVE  Cardinality(s) \in Nat /\ (Cardinality(s) = 0 <=> s = {})
BY FS_Subset, FS_CardinalityType, FS_EmptySet

\* What taking one element out of a subset does to its size.
LEMMA OneLess ==
  ASSUME NEW S, IsFiniteSet(S), NEW s \in SUBSET S, NEW x \in s
  PROVE  /\ s \ {x} \in SUBSET S
         /\ Cardinality(s) \in Nat \ {0}
         /\ Cardinality(s \ {x}) = Cardinality(s) - 1
<1>1. IsFiniteSet(s)
  BY FS_Subset
<1> QED BY <1>1, FS_CardinalityType, FS_RemoveElement, FS_EmptySet

LEMMA ChosenInside == ASSUME NEW s, s # {} PROVE Chosen(s) \in s
BY DEF Chosen

\* The partial sums exist: correct up to every size, by induction on it.
LEMMA SumsExist ==
  ASSUME NEW S, IsFiniteSet(S), NEW f
  PROVE  AreSums(f, S, Sums(f, S))
<1> DEFINE UpTo(g, n) == \A s \in SUBSET S : Cardinality(s) <= n => g[s] = SumStep(f, g, s)
           I == {n \in Nat : \E g : UpTo(g, n)}
<1>1. 0 \in I
  <2> DEFINE g == [s \in SUBSET S |-> 0]
  <2>1. ASSUME NEW s \in SUBSET S, Cardinality(s) <= 0 PROVE s = {}
    BY <2>1, SizeOfSubset
  <2>2. UpTo(g, 0)
    BY <2>1 DEF SumStep
  <2> QED BY <2>2
<1>2. ASSUME NEW n \in Nat, n \in I PROVE n + 1 \in I
  <2>1. PICK g : UpTo(g, n)
    BY <1>2
  <2> DEFINE h == [s \in SUBSET S |-> SumStep(f, g, s)]
  <2>2. ASSUME NEW s \in SUBSET S, s # {}
        PROVE  /\ s \ {Chosen(s)} \in SUBSET S
               /\ Cardinality(s) \in Nat
               /\ Cardinality(s \ {Chosen(s)}) = Cardinality(s) - 1
    BY <2>2, ChosenInside, OneLess
  <2>3. ASSUME NEW s \in SUBSET S, Cardinality(s) <= n + 1 PROVE h[s] = SumStep(f, h, s)
    <3>1. CASE s = {}
      BY <3>1 DEF SumStep
    <3>2. CASE s # {}
      <4> DEFINE r == s \ {Chosen(s)}
      <4>1. r \in SUBSET S /\ Cardinality(r) <= n
        BY <2>2, <2>3, <3>2
      <4>2. g[r] = SumStep(f, g, r)
        BY <2>1, <4>1
      <4>3. h[r] = g[r]
        BY <4>1, <4>2
      <4>4. h[s] = f[Chosen(s)] + g[r]
        BY <3>2 DEF SumStep
      <4> HIDE DEF h, r
      <4>5. h[s] = f[Chosen(s)] + h[r]
        BY <4>3, <4>4
      <4> QED BY <3>2, <4>5 DEF SumStep, r
    <3> QED BY <3>1, <3>2
  <2>4. UpTo(h, n + 1)
    BY <2>3
  <2> HIDE DEF h
  <2> QED BY <2>4
<1>3. Cardinality(S) \in I
  <2> HIDE DEF I
  <2> QED BY <1>1, <1>2, NaturalsBySuccessor, FS_CardinalityType
<1>4. PICK g : UpTo(g, Cardinality(S))
  BY <1>3
<1> DEFINE h == [s \in SUBSET S |-> g[s]]
<1>5. ASSUME NEW s \in SUBSET S PROVE h[s] = SumStep(f, h, s)
  <2>1. g[s] = SumStep(f, g, s)
    BY <1>4, FS_Subset
  <2>2. s # {} => s \ {Chosen(s)} \in SUBSET S
    OBVIOUS
  <2> QED BY <2>1, <2>2 DEF SumStep
<1>6. AreSums(f, S, h)
  BY <1>5 DEF AreSums
<1> HIDE DEF h
<1> QED BY <1>6 DEF Sums, AreSums

LEMMA SumsStep ==
  ASSUME NEW S, IsFiniteSet(S), NEW f, NEW s \in SUBSET S
  PROVE  Sums(f, S)[s] = SumStep(f, Sums(f, S), s)
<1> DEFINE g == Sums(f, S)
<1>1. AreSums(f, S, g)
  BY SumsExist
<1> HIDE DEF g
<1>2. g[s] = SumStep(f, g, s)
  BY <1>1 DEF AreSums
<1> QED BY <1>2 DEF g

\* They are naturals, and every element may be the one that is added last.
LEMMA SumsNatural ==
  ASSUME NEW S, IsFiniteSet(S), NEW f, NaturalOn(f, S), NEW s \in SUBSET S
  PROVE  Sums(f, S)[s] \in Nat
<1> DEFINE g == Sums(f, S)
           I == {n \in Nat : \A r \in SUBSET S : Cardinality(r) = n => g[r] \in Nat}
<1>0. ASSUME NEW r \in SUBSET S PROVE g[r] = SumStep(f, g, r)
  BY SumsStep
<1> HIDE DEF g
<1>1. 0 \in I
  <2>1. ASSUME NEW r \in SUBSET S, Cardinality(r) = 0 PROVE r = {}
    BY <2>1, SizeOfSubset
  <2>2. g[{}] = SumStep(f, g, {})
    BY <1>0
  <2>3. g[{}] = 0
    BY <2>2 DEF SumStep
  <2> QED BY <2>1, <2>3
<1>2. ASSUME NEW n \in Nat, n \in I PROVE n + 1 \in I
  <2> SUFFICES ASSUME NEW r \in SUBSET S, Cardinality(r) = n + 1 PROVE g[r] \in Nat
    OBVIOUS
  <2>1. r # {}
    BY FS_EmptySet
  <2>2. Chosen(r) \in r /\ r \ {Chosen(r)} \in SUBSET S /\ Cardinality(r \ {Chosen(r)}) = n
    BY <2>1, ChosenInside, OneLess
  <2>3. g[r \ {Chosen(r)}] \in Nat /\ f[Chosen(r)] \in Nat
    BY <1>2, <2>2 DEF NaturalOn
  <2>4. g[r] = f[Chosen(r)] + g[r \ {Chosen(r)}]
    BY <1>0, <2>1 DEF SumStep
  <2> QED BY <2>3, <2>4
<1>3. Cardinality(s) \in Nat
  BY FS_Subset, FS_CardinalityType
<1>4. Cardinality(s) \in I
  <2> HIDE DEF I
  <2> QED BY <1>1, <1>2, <1>3, NaturalsBySuccessor
<1> QED BY <1>4 DEF g

LEMMA SumsTakeOut ==
  ASSUME NEW S, IsFiniteSet(S), NEW f, NaturalOn(f, S), NEW s \in SUBSET S, NEW x \in s
  PROVE  Sums(f, S)[s] = f[x] + Sums(f, S)[s \ {x}]
<1> DEFINE g == Sums(f, S)
           TakesOut(r) == \A y \in r : g[r] = f[y] + g[r \ {y}]
           I == {n \in Nat : \A r \in SUBSET S : Cardinality(r) = n => TakesOut(r)}
<1>0. ASSUME NEW r \in SUBSET S PROVE g[r] = SumStep(f, g, r) /\ g[r] \in Nat
  BY SumsStep, SumsNatural
<1> HIDE DEF g
<1>1. 0 \in I
  BY SizeOfSubset
<1>2. ASSUME NEW n \in Nat, n \in I PROVE n + 1 \in I
  <2> SUFFICES ASSUME NEW r \in SUBSET S, Cardinality(r) = n + 1, NEW y \in r
               PROVE  g[r] = f[y] + g[r \ {y}]
    OBVIOUS
  <2> DEFINE c == Chosen(r)
  <2>1. c \in r
    BY ChosenInside
  <2>2. g[r] = f[c] + g[r \ {c}]
    <3>1. r # {} /\ g[r] = SumStep(f, g, r)
      BY <1>0
    <3> QED BY <3>1 DEF SumStep
  <2> HIDE DEF c
  <2>3. CASE y = c
    BY <2>2, <2>3
  <2>4. CASE y # c
    <3>1. /\ r \ {c} \in SUBSET S /\ Cardinality(r \ {c}) = n /\ y \in r \ {c}
          /\ r \ {y} \in SUBSET S /\ Cardinality(r \ {y}) = n /\ c \in r \ {y}
      BY <2>1, <2>4, OneLess
    <3>2. g[r \ {c}] = f[y] + g[(r \ {c}) \ {y}]
      BY <1>2, <3>1
    <3>3. g[r \ {y}] = f[c] + g[(r \ {y}) \ {c}]
      BY <1>2, <3>1
    <3>4. (r \ {c}) \ {y} = (r \ {y}) \ {c}
      OBVIOUS
    <3>5. PICK rest \in Nat : rest = g[(r \ {y}) \ {c}]
      BY <1>0
    <3>6. f[y] \in Nat /\ f[c] \in Nat
      BY <2>1 DEF NaturalOn
    <3>7. g[r] = f[c] + (f[y] + rest) /\ g[r \ {y}] = f[c] + rest
      BY <2>2, <3>2, <3>3, <3>4, <3>5
    <3>8. f[c] + (f[y] + rest) = f[y] + (f[c] + rest)
      BY <3>5, <3>6
    <3> QED BY <3>7, <3>8
  <2> QED BY <2>3, <2>4
<1>3. Cardinality(s) \in I
  <2> HIDE DEF I
  <2> QED BY <1>1, <1>2, NaturalsBySuccessor, SizeOfSubset
<1> QED BY <1>3 DEF g

\* Only the summands count, not the set that the partial sums are of.
LEMMA SumsAgree ==
  ASSUME NEW S, IsFiniteSet(S), NEW f, NEW T, IsFiniteSet(T), NEW h,
         NEW u \in SUBSET S, u \subseteq T, \A x \in u : f[x] = h[x]
  PROVE  Sums(f, S)[u] = Sums(h, T)[u]
<1> DEFINE g == Sums(f, S)
           k == Sums(h, T)
           I == {n \in Nat : \A r \in SUBSET u : Cardinality(r) = n => g[r] = k[r]}
<1>0. ASSUME NEW r \in SUBSET u PROVE g[r] = SumStep(f, g, r) /\ k[r] = SumStep(h, k, r)
  <2>1. r \in SUBSET S /\ r \in SUBSET T
    OBVIOUS
  <2>2. g[r] = SumStep(f, g, r)
    BY <2>1, SumsStep
  <2>3. k[r] = SumStep(h, k, r)
    BY <2>1, SumsStep
  <2> QED BY <2>2, <2>3
<1>1. IsFiniteSet(u)
  BY FS_Subset
<1> HIDE DEF g, k
<1>2. 0 \in I
  <2> SUFFICES ASSUME NEW r \in SUBSET u, Cardinality(r) = 0 PROVE g[r] = k[r]
    OBVIOUS
  <2>1. r = {}
    BY <1>1, SizeOfSubset
  <2> QED BY <1>0, <2>1 DEF SumStep
<1>3. ASSUME NEW n \in Nat, n \in I PROVE n + 1 \in I
  <2> SUFFICES ASSUME NEW r \in SUBSET u, Cardinality(r) = n + 1 PROVE g[r] = k[r]
    OBVIOUS
  <2> DEFINE c == Chosen(r)
  <2>1. r # {}
    BY <1>1, SizeOfSubset
  <2>2. c \in r /\ r \ {c} \in SUBSET u /\ Cardinality(r \ {c}) = n
    BY <1>1, <2>1, ChosenInside, OneLess
  <2>3. g[r] = f[c] + g[r \ {c}] /\ k[r] = h[c] + k[r \ {c}]
    BY <1>0, <2>1 DEF SumStep
  <2> HIDE DEF c
  <2>4. g[r \ {c}] = k[r \ {c}] /\ f[c] = h[c]
    BY <1>3, <2>2
  <2> QED BY <2>3, <2>4
<1>4. Cardinality(u) \in I
  <2> HIDE DEF I
  <2>1. Cardinality(u) \in Nat
    BY <1>1, FS_CardinalityType
  <2> QED BY <1>2, <1>3, <2>1, NaturalsBySuccessor
<1> QED BY <1>4 DEF g, k

-----------------------------------------------------------------------------
(* What the models need of a sum *)

LEMMA SumIsNatural ==
  ASSUME NEW S, IsFiniteSet(S), NEW f, NaturalOn(f, S)
  PROVE  SumOver(f, S) \in Nat
BY SumsNatural DEF SumOver

LEMMA SumOfNone == ASSUME NEW f PROVE SumOver(f, {}) = 0
<1>1. IsFiniteSet({}) /\ {} \in SUBSET {}
  BY FS_EmptySet
<1> QED BY <1>1, SumsStep DEF SumOver, SumStep

LEMMA SumOfSame ==
  ASSUME NEW S, IsFiniteSet(S), NEW f, NEW h, \A x \in S : f[x] = h[x]
  PROVE  SumOver(f, S) = SumOver(h, S)
BY SumsAgree DEF SumOver

\* One more summand adds its value.
LEMMA SumWithOneMore ==
  ASSUME NEW S, IsFiniteSet(S), NEW f, NEW h, NEW x, x \notin S,
         NaturalOn(h, S \cup {x}), \A y \in S : f[y] = h[y]
  PROVE  SumOver(h, S \cup {x}) = SumOver(f, S) + h[x]
<1> DEFINE T == S \cup {x}
<1>1. IsFiniteSet(T) /\ T \in SUBSET T /\ x \in T /\ T \ {x} = S /\ S \in SUBSET T
  BY FS_AddElement
<1>2. Sums(h, T)[T] = h[x] + Sums(h, T)[S]
  BY <1>1, SumsTakeOut
<1>3. Sums(h, T)[S] = Sums(f, S)[S]
  BY <1>1, SumsAgree
<1>4. Sums(h, T)[S] \in Nat /\ h[x] \in Nat
  BY <1>1, SumsNatural DEF NaturalOn
<1> HIDE DEF T
<1>5. Sums(h, T)[T] = Sums(f, S)[S] + h[x]
  BY <1>2, <1>3, <1>4
<1> QED BY <1>5 DEF SumOver, T
=============================================================================
