------------------------------ MODULE SumTheorems ------------------------------
(***************************************************************************)
(* What the proofs need to know of sums: SumFunctionOnSet of the library   *)
(* over a finite set. Its recursion cannot be proved about by induction    *)
(* over a predicate, for none of the provers instantiates one; a least     *)
(* number, or a smallest subset, for which a claim would fail takes the    *)
(* place of the induction.                                                 *)
(***************************************************************************)
EXTENDS Integers, FiniteSets, Functions, FiniteSetTheorems, WellFoundedInduction, TLAPS

\* A set of natural numbers that is not empty has a least one: induction for what follows.
LEMMA LeastNatural ==
    ASSUME NEW T \in SUBSET Nat, T # {}
    PROVE  \E n \in T : \A m \in T : n <= m
<1> DEFINE Less == OpToRel(<, Nat)
<1>1. IsWellFoundedOn(Less, Nat)
  BY NatLessThanWellFounded
<1>2. ASSUME NEW x \in Nat, NEW y \in Nat, ~(<<x, y>> \in Less)
      PROVE  y <= x
  <2>1. ~(x < y)
    BY <1>2, Zenon DEF OpToRel
  <2> QED
    BY <2>1
<1> HIDE DEF Less
<1>3. \E x \in T : \A y \in T : ~(<<y, x>> \in Less)
  BY <1>1, WFMin, Zenon
<1>4. PICK n \in T : \A m \in T : ~(<<m, n>> \in Less)
  BY <1>3, Zenon
<1>5. \A m \in T : n <= m
  BY <1>2, <1>4, Zenon
<1> QED
  BY <1>5, Zenon

(* SumFunctionOnSet's recursion: one element is chosen at a time. *)
Chosen(s) == CHOOSE x \in s : TRUE
IsSum(g, f, S) ==
    g = [s \in SUBSET S |-> IF s = {} THEN 0 ELSE f[Chosen(s)] + g[s \ {Chosen(s)}]]

\* The library's sum is the function its recursion chooses, at the whole set.
LEMMA SumUnfolded ==
    ASSUME NEW f, NEW S
    PROVE  SumFunctionOnSet(f, S) = (CHOOSE g : IsSum(g, f, S))[S]
BY Zenon DEF SumFunctionOnSet, FoldFunctionOnSet, MapThenFoldSet, IsSum, Chosen

\* Of some subsets of a finite set one is smallest: none of the others lacks one element of it.
LEMMA SmallestSubset ==
    ASSUME NEW S, IsFiniteSet(S), NEW B \in SUBSET (SUBSET S), B # {}
    PROVE  \E s \in B : \A x \in s : s \ {x} \notin B
<1> DEFINE T == {Cardinality(s) : s \in B}
<1>1. \A s \in B : IsFiniteSet(s) /\ Cardinality(s) \in Nat
  BY FS_Subset, FS_CardinalityType
<1>2. T \in SUBSET Nat /\ T # {}
  BY <1>1
<1>3. PICK n \in T : \A m \in T : n <= m
  BY <1>2, LeastNatural
<1>4. PICK s \in B : Cardinality(s) = n
  BY <1>3
<1>5. ASSUME NEW x \in s, s \ {x} \in B
      PROVE  FALSE
  <2>1. Cardinality(s \ {x}) = Cardinality(s) - 1
    BY <1>1, <1>4, <1>5, FS_RemoveElement
  <2>2. Cardinality(s) <= Cardinality(s \ {x})
    BY <1>3, <1>4, <1>5
  <2> QED
    BY <1>1, <1>4, <1>5, <2>1, <2>2
<1> QED
  BY <1>4, <1>5

\* What the recursion says of the empty set and of all others.
LEMMA SumStep ==
    ASSUME NEW f, NEW g, NEW S, IsSum(g, f, S)
    PROVE  /\ g[{}] = 0
           /\ \A s \in SUBSET S : s # {} =>
                Chosen(s) \in s /\ g[s] = f[Chosen(s)] + g[s \ {Chosen(s)}]
<1>1. \A s : s # {} => Chosen(s) \in s
  BY DEF Chosen
<1>2. g = [s \in SUBSET S |-> IF s = {} THEN 0 ELSE f[Chosen(s)] + g[s \ {Chosen(s)}]]
  BY DEF IsSum
<1>3. \A s \in SUBSET S : g[s] = IF s = {} THEN 0 ELSE f[Chosen(s)] + g[s \ {Chosen(s)}]
  BY <1>2
<1> QED
  BY <1>1, <1>3

\* A sum of integers is one.
LEMMA SumIsInt ==
    ASSUME NEW f, NEW g, NEW S, IsFiniteSet(S), IsSum(g, f, S), \A x \in S : f[x] \in Int
    PROVE  \A s \in SUBSET S : g[s] \in Int
<1>0. /\ g[{}] = 0
      /\ \A s \in SUBSET S : s # {} =>
           Chosen(s) \in s /\ g[s] = f[Chosen(s)] + g[s \ {Chosen(s)}]
  BY SumStep
<1> DEFINE B == {s \in SUBSET S : g[s] \notin Int}
<1> SUFFICES ASSUME B # {}
             PROVE  FALSE
  OBVIOUS
<1>1. PICK s \in B : \A x \in s : s \ {x} \notin B
  BY SmallestSubset
<1>2. s # {}
  <2>1. g[s] \notin Int /\ 0 \in Int
    OBVIOUS
  <2> HIDE DEF B
  <2> QED
    BY <1>0, <2>1
<1>3. Chosen(s) \in s /\ g[s] = f[Chosen(s)] + g[s \ {Chosen(s)}]
  BY <1>0, <1>2
<1>4. g[s \ {Chosen(s)}] \in Int
  BY <1>1, <1>3
<1> QED
  BY <1>3, <1>4

\* Any element may be taken out of a sum, not only the one that was chosen.
LEMMA SumTakes ==
    ASSUME NEW f, NEW g, NEW S, IsFiniteSet(S), IsSum(g, f, S), \A x \in S : f[x] \in Int
    PROVE  \A s \in SUBSET S : \A x \in s : g[s] = f[x] + g[s \ {x}]
<1>0. /\ \A s \in SUBSET S : s # {} =>
           Chosen(s) \in s /\ g[s] = f[Chosen(s)] + g[s \ {Chosen(s)}]
      /\ \A s \in SUBSET S : g[s] \in Int
  BY SumStep, SumIsInt
<1> DEFINE B == {s \in SUBSET S : \E x \in s : g[s] # f[x] + g[s \ {x}]}
<1> SUFFICES ASSUME B # {}
             PROVE  FALSE
  OBVIOUS
<1>1. PICK s \in B : \A x \in s : s \ {x} \notin B
  BY SmallestSubset
<1>2. PICK x \in s : g[s] # f[x] + g[s \ {x}]
  OBVIOUS
<1>3. PICK y \in s : g[s] = f[y] + g[s \ {y}]
  BY <1>0, <1>2
<1>4. x # y
  BY <1>2, <1>3
<1>a. \A t \in SUBSET S : t \notin B => \A z \in t : g[t] = f[z] + g[t \ {z}]
  OBVIOUS
<1>b. s \in SUBSET S /\ s \ {y} \in SUBSET S /\ s \ {x} \in SUBSET S
      /\ x \in s \ {y} /\ y \in s \ {x} /\ (s \ {y}) \ {x} \in SUBSET S
  BY <1>2, <1>3, <1>4
<1> HIDE DEF B
<1>5. g[s \ {y}] = f[x] + g[(s \ {y}) \ {x}]
  BY <1>1, <1>3, <1>a, <1>b
<1>6. g[s \ {x}] = f[y] + g[(s \ {x}) \ {y}]
  BY <1>1, <1>2, <1>a, <1>b
<1> DEFINE rest == g[(s \ {y}) \ {x}]
<1>7. g[(s \ {x}) \ {y}] = rest
  <2>1. (s \ {x}) \ {y} = (s \ {y}) \ {x}
    OBVIOUS
  <2> QED
    BY <2>1
<1>8. f[x] \in Int /\ f[y] \in Int /\ rest \in Int
  BY <1>0, <1>2, <1>3, <1>b
<1> HIDE DEF rest
<1>9. f[y] + (f[x] + rest) = f[x] + (f[y] + rest)
  BY <1>8
<1> QED
  BY <1>2, <1>3, <1>5, <1>6, <1>7, <1>9

\* Sums of the same terms agree, whichever sets their functions are defined for.
LEMMA SumsAgree ==
    ASSUME NEW f, NEW g, NEW S, IsFiniteSet(S), IsSum(g, f, S),
           NEW k, NEW h, NEW R, IsSum(h, k, R)
    PROVE  \A s \in SUBSET (S \cap R) : (\A x \in s : f[x] = k[x]) => g[s] = h[s]
<1> DEFINE B == {s \in SUBSET (S \cap R) : (\A x \in s : f[x] = k[x]) /\ g[s] # h[s]}
<1> SUFFICES ASSUME B # {}
             PROVE  FALSE
  OBVIOUS
<1>0. B \in SUBSET (SUBSET S)
  OBVIOUS
<1>1. PICK s \in B : \A x \in s : s \ {x} \notin B
  <2> HIDE DEF B
  <2> QED
    BY <1>0, SmallestSubset
<1>2. s # {} /\ s \in SUBSET S /\ s \in SUBSET R
  BY SumStep
<1>3. /\ Chosen(s) \in s /\ g[s] = f[Chosen(s)] + g[s \ {Chosen(s)}]
      /\ h[s] = k[Chosen(s)] + h[s \ {Chosen(s)}]
  BY <1>2, SumStep
<1>4. g[s \ {Chosen(s)}] = h[s \ {Chosen(s)}] /\ f[Chosen(s)] = k[Chosen(s)]
  BY <1>1, <1>3
<1> QED
  BY <1>3, <1>4
\* The recursion has a solution: one for all sets up to a size extends to the next size.
LEMMA SumExists ==
    ASSUME NEW f, NEW S, IsFiniteSet(S), \A x \in S : f[x] \in Int
    PROVE  \E g : IsSum(g, f, S)
<1> DEFINE Def(g, s) == IF s = {} THEN 0 ELSE f[Chosen(s)] + g[s \ {Chosen(s)}]
           UpTo(g, n) == \A s \in SUBSET S : Cardinality(s) <= n => g[s] = Def(g, s)
           T == {n \in Nat : ~\E g \in [SUBSET S -> Int] : UpTo(g, n)}
<1>1. \A s \in SUBSET S : IsFiniteSet(s) /\ Cardinality(s) \in Nat
                          /\ (Cardinality(s) = 0 <=> s = {})
  BY FS_Subset, FS_CardinalityType, FS_EmptySet
<1>2. \A s \in SUBSET S : s # {} => Chosen(s) \in s
                            /\ Cardinality(s \ {Chosen(s)}) = Cardinality(s) - 1
  <2>1. \A s : s # {} => Chosen(s) \in s
    BY DEF Chosen
  <2> QED
    BY <1>1, <2>1, FS_RemoveElement
<1>3. 0 \notin T
  <2> DEFINE g == [s \in SUBSET S |-> 0]
  <2>1. g \in [SUBSET S -> Int] /\ \A s \in SUBSET S : g[s] = 0
    OBVIOUS
  <2>2. UpTo(g, 0)
    <3> SUFFICES ASSUME NEW s \in SUBSET S, Cardinality(s) <= 0
                 PROVE  g[s] = Def(g, s)
      OBVIOUS
    <3>1. s = {}
      BY <1>1
    <3> QED
      BY <3>1
  <2> HIDE DEF g, UpTo
  <2> QED
    BY <2>1, <2>2
<1>4. ASSUME NEW n \in Nat, n \notin T
      PROVE  n + 1 \notin T
  <2>1. PICK g \in [SUBSET S -> Int] : UpTo(g, n)
    BY <1>4
  <2> DEFINE h == [s \in SUBSET S |-> Def(g, s)]
  <2>2. ASSUME NEW s \in SUBSET S
        PROVE  h[s] = Def(g, s) /\ Def(g, s) \in Int
    <3>1. CASE s = {}
      BY <3>1
    <3>2. CASE s # {}
      <4>1. Chosen(s) \in S /\ s \ {Chosen(s)} \in SUBSET S
        BY <1>2, <3>2
      <4>2. f[Chosen(s)] \in Int /\ g[s \ {Chosen(s)}] \in Int
        BY <2>1, <4>1
      <4>3. Def(g, s) = f[Chosen(s)] + g[s \ {Chosen(s)}]
        BY <3>2
      <4>4. h[s] = Def(g, s)
        OBVIOUS
      <4> QED
        BY <4>2, <4>3, <4>4
    <3> QED
      BY <3>1, <3>2
  <2>3. h \in [SUBSET S -> Int]
    <3> HIDE DEF Def
    <3> QED
      BY <2>2
  <2>4. UpTo(h, n + 1)
    <3> SUFFICES ASSUME NEW s \in SUBSET S, Cardinality(s) <= n + 1
                 PROVE  h[s] = Def(h, s)
      OBVIOUS
    <3>1. CASE s = {}
      BY <2>2, <3>1
    <3>2. CASE s # {}
      <4> DEFINE t == s \ {Chosen(s)}
      <4>1. t \in SUBSET S /\ Cardinality(t) <= n
        BY <1>1, <1>2, <3>2
      <4>2. g[t] = h[t]
        <5>1. g[t] = Def(g, t)
          BY <2>1, <4>1
        <5> HIDE DEF Def, t, h
        <5> QED
          BY <2>2, <4>1, <5>1
      <4>3. Def(g, s) = f[Chosen(s)] + g[t] /\ Def(h, s) = f[Chosen(s)] + h[t]
        BY <3>2
      <4>4. h[s] = Def(g, s)
        BY <2>2
      <4> HIDE DEF Def, t, h
      <4> QED
        BY <4>2, <4>3, <4>4
    <3> QED
      BY <3>1, <3>2
  <2> HIDE DEF h, UpTo
  <2> QED
    BY <2>3, <2>4
<1>5. T = {}
  <2> SUFFICES ASSUME T # {}
               PROVE  FALSE
    OBVIOUS
  <2>1. T \in SUBSET Nat
    OBVIOUS
  <2> HIDE DEF T
  <2>2. PICK n \in T : \A m \in T : n <= m
    BY <2>1, LeastNatural
  <2>3. n # 0 /\ n - 1 \in Nat /\ (n - 1) + 1 = n
    BY <1>3, <2>1, <2>2
  <2>4. n - 1 \notin T
    BY <2>1, <2>2, <2>3
  <2> QED
    BY <1>4, <2>2, <2>3, <2>4
<1>6. PICK g \in [SUBSET S -> Int] : UpTo(g, Cardinality(S))
  <2>1. Cardinality(S) \in Nat
    BY FS_CardinalityType
  <2> HIDE DEF UpTo
  <2> QED
    BY <1>5, <2>1
<1>7. \A s \in SUBSET S : Cardinality(s) <= Cardinality(S)
  BY FS_Subset
<1>8. \A s \in SUBSET S : g[s] = Def(g, s)
  BY <1>6, <1>7
<1>9. g = [s \in SUBSET S |-> Def(g, s)]
  <2> HIDE DEF Def
  <2> QED
    BY <1>6, <1>8
<1> QED
  BY <1>9 DEF IsSum

\* So the library's sum is the value of a function that solves the recursion.
LEMMA SumUnfoldedWell ==
    ASSUME NEW f, NEW S, IsFiniteSet(S), \A x \in S : f[x] \in Int
    PROVE  \E g : IsSum(g, f, S) /\ SumFunctionOnSet(f, S) = g[S]
<1> DEFINE g == CHOOSE h : IsSum(h, f, S)
<1>1. \E h : IsSum(h, f, S)
  BY SumExists
<1>2. IsSum(g, f, S)
  BY <1>1
<1>3. SumFunctionOnSet(f, S) = g[S]
  BY SumUnfolded
<1> QED
  BY <1>2, <1>3

\* Of nothing the sum is zero.
THEOREM SumEmpty ==
    ASSUME NEW f
    PROVE  SumFunctionOnSet(f, {}) = 0
<1>1. IsFiniteSet({})
  BY FS_EmptySet
<1>2. PICK g : IsSum(g, f, {}) /\ SumFunctionOnSet(f, {}) = g[{}]
  BY <1>1, SumUnfoldedWell
<1> QED
  BY <1>2, SumStep

\* A sum of integers is an integer.
THEOREM SumInt ==
    ASSUME NEW f, NEW S, IsFiniteSet(S), \A x \in S : f[x] \in Int
    PROVE  SumFunctionOnSet(f, S) \in Int
<1>1. PICK g : IsSum(g, f, S) /\ SumFunctionOnSet(f, S) = g[S]
  BY SumUnfoldedWell
<1> QED
  BY <1>1, SumIsInt

\* An element that leaves takes its term with it.
THEOREM SumRemoves ==
    ASSUME NEW f, NEW S, IsFiniteSet(S), \A x \in S : f[x] \in Int, NEW x \in S
    PROVE  SumFunctionOnSet(f, S) = f[x] + SumFunctionOnSet(f, S \ {x})
<1>1. PICK g : IsSum(g, f, S) /\ SumFunctionOnSet(f, S) = g[S]
  BY SumUnfoldedWell
<1>2. IsFiniteSet(S \ {x}) /\ \A y \in S \ {x} : f[y] \in Int
  BY FS_Subset
<1>3. PICK h : IsSum(h, f, S \ {x}) /\ SumFunctionOnSet(f, S \ {x}) = h[S \ {x}]
  BY <1>2, SumUnfoldedWell
<1>4. g[S] = f[x] + g[S \ {x}]
  BY <1>1, SumTakes
<1>5. g[S \ {x}] = h[S \ {x}]
  <2>1. S \ {x} \in SUBSET (S \cap (S \ {x}))
    OBVIOUS
  <2> QED
    BY <1>1, <1>2, <1>3, <2>1, SumsAgree
<1> QED
  BY <1>1, <1>3, <1>4, <1>5

\* An element that joins brings its term.
THEOREM SumAdds ==
    ASSUME NEW f, NEW S, IsFiniteSet(S), NEW x, x \notin S,
           \A y \in S \cup {x} : f[y] \in Int
    PROVE  SumFunctionOnSet(f, S \cup {x}) = f[x] + SumFunctionOnSet(f, S)
<1>1. IsFiniteSet(S \cup {x})
  BY FS_AddElement
<1>2. (S \cup {x}) \ {x} = S /\ x \in S \cup {x}
  OBVIOUS
<1>3. SumFunctionOnSet(f, S \cup {x}) = f[x] + SumFunctionOnSet(f, (S \cup {x}) \ {x})
  <2> DEFINE R == S \cup {x}
  <2>1. IsFiniteSet(R) /\ x \in R /\ \A y \in R : f[y] \in Int
    BY <1>1
  <2> HIDE DEF R
  <2>2. SumFunctionOnSet(f, R) = f[x] + SumFunctionOnSet(f, R \ {x})
    BY <2>1, SumRemoves
  <2> QED
    BY <2>2 DEF R
<1> QED
  BY <1>2, <1>3

\* Functions that agree on a set have one sum.
THEOREM SumSame ==
    ASSUME NEW f, NEW k, NEW S, IsFiniteSet(S), \A x \in S : f[x] \in Int /\ f[x] = k[x]
    PROVE  SumFunctionOnSet(f, S) = SumFunctionOnSet(k, S)
<1>1. PICK g : IsSum(g, f, S) /\ SumFunctionOnSet(f, S) = g[S]
  BY SumUnfoldedWell
<1>2. \A x \in S : k[x] \in Int
  OBVIOUS
<1>3. PICK h : IsSum(h, k, S) /\ SumFunctionOnSet(k, S) = h[S]
  BY <1>2, SumUnfoldedWell
<1>4. S \in SUBSET (S \cap S)
  OBVIOUS
<1>5. g[S] = h[S]
  BY <1>1, <1>3, <1>4, SumsAgree
<1> QED
  BY <1>1, <1>3, <1>5

\* A term that changes changes the sum by as much.
THEOREM SumChanges ==
    ASSUME NEW f, NEW k, NEW S, IsFiniteSet(S), NEW x \in S,
           \A y \in S : f[y] \in Int /\ k[y] \in Int,
           \A y \in S \ {x} : k[y] = f[y]
    PROVE  SumFunctionOnSet(k, S) = SumFunctionOnSet(f, S) + (k[x] - f[x])
<1> DEFINE rest == SumFunctionOnSet(f, S \ {x})
<1>1. IsFiniteSet(S \ {x})
  BY FS_Subset
<1>2. SumFunctionOnSet(f, S) = f[x] + rest
  BY SumRemoves
<1>3. SumFunctionOnSet(k, S) = k[x] + SumFunctionOnSet(k, S \ {x})
  BY SumRemoves
<1>4. SumFunctionOnSet(k, S \ {x}) = rest
  <2>1. \A y \in S \ {x} : k[y] \in Int /\ k[y] = f[y]
    OBVIOUS
  <2> DEFINE R == S \ {x}
  <2> HIDE DEF R
  <2>2. IsFiniteSet(R) /\ \A y \in R : k[y] \in Int /\ k[y] = f[y]
    BY <1>1, <2>1 DEF R
  <2>3. SumFunctionOnSet(k, R) = SumFunctionOnSet(f, R)
    BY <2>2, SumSame
  <2> QED
    BY <2>3 DEF R
<1>5. rest \in Int
  BY <1>1, SumInt
<1>6. f[x] \in Int /\ k[x] \in Int
  OBVIOUS
<1> HIDE DEF rest
<1> QED
  BY <1>2, <1>3, <1>4, <1>5, <1>6

\* One element more, while the function keeps its values at the others.
THEOREM SumGains ==
    ASSUME NEW f, NEW k, NEW S, IsFiniteSet(S), NEW x, x \notin S, k[x] \in Int,
           \A y \in S : f[y] \in Int /\ k[y] = f[y]
    PROVE  SumFunctionOnSet(k, S \cup {x}) = SumFunctionOnSet(f, S) + k[x]
<1>1. \A y \in S \cup {x} : k[y] \in Int
  OBVIOUS
<1>2. SumFunctionOnSet(k, S \cup {x}) = k[x] + SumFunctionOnSet(k, S)
  BY <1>1, SumAdds
<1>3. SumFunctionOnSet(f, S) = SumFunctionOnSet(k, S)
  BY SumSame
<1>4. SumFunctionOnSet(f, S) \in Int
  BY SumInt
<1> QED
  BY ONLY <1>2, <1>3, <1>4, k[x] \in Int

\* Nothing adds up to nothing.
THEOREM SumZeros ==
    ASSUME NEW f, NEW S, IsFiniteSet(S), \A x \in S : f[x] = 0
    PROVE  SumFunctionOnSet(f, S) = 0
<1> DEFINE B == {s \in SUBSET S : SumFunctionOnSet(f, s) # 0}
<1> SUFFICES ASSUME B # {} PROVE FALSE
  BY DEF B
<1>1. PICK s \in B : \A x \in s : s \ {x} \notin B
  <2>1. B \in SUBSET (SUBSET S)
    OBVIOUS
  <2> HIDE DEF B
  <2> QED
    BY <2>1, SmallestSubset
<1>2. s \in SUBSET S /\ SumFunctionOnSet(f, s) # 0
  BY <1>1
<1>3. s # {}
  BY <1>2, SumEmpty
<1>4. PICK x \in s : TRUE
  BY <1>3
<1>5. SumFunctionOnSet(f, s \ {x}) = 0
  <2>1. s \ {x} \in SUBSET S /\ s \ {x} \notin B
    BY <1>1, <1>2
  <2> QED
    BY <2>1
<1>6. IsFiniteSet(s) /\ \A y \in s : f[y] \in Int
  <2>1. \A y \in s : f[y] = 0
    BY <1>2
  <2> QED
    BY <1>2, <2>1, FS_Subset
<1> HIDE DEF B
<1>7. SumFunctionOnSet(f, s) = f[x] + SumFunctionOnSet(f, s \ {x})
  BY <1>6, SumRemoves
<1>8. f[x] = 0
  BY <1>2
<1> QED
  BY <1>2, <1>5, <1>7, <1>8

\* The numbers from a to n + 1 are those from a to n, and n + 1.
LEMMA OneNumberMore ==
    ASSUME NEW a \in Int, NEW n \in Int, a <= n + 1
    PROVE  a..(n + 1) = (a..n) \cup {n + 1} /\ n + 1 \notin a..n
  OBVIOUS

\* A sum over places that all moved by one is the sum over where they were.
THEOREM SumShifts ==
    ASSUME NEW f, NEW k, NEW n \in Nat,
           \A a \in 0..(n - 1) : f[a] \in Int /\ k[a + 1] = f[a]
    PROVE  SumFunctionOnSet(k, 1..n) = SumFunctionOnSet(f, 0..(n - 1))
<1> DEFINE Same(m) == SumFunctionOnSet(k, 1..m) = SumFunctionOnSet(f, 0..(m - 1))
           T == {m \in 0..n : ~Same(m)}
<1> SUFFICES ASSUME T # {} PROVE FALSE
  OBVIOUS
<1>1. PICK m \in T : \A i \in T : m <= i
  <2>1. T \in SUBSET Nat
    OBVIOUS
  <2> HIDE DEF T
  <2> QED
    BY <2>1, LeastNatural
<1>2. m \in 0..n /\ ~Same(m)
  OBVIOUS
<1>3. m # 0
  <2>1. 1..0 = {} /\ 0..(0 - 1) = {}
    OBVIOUS
  <2>2. SumFunctionOnSet(k, {}) = SumFunctionOnSet(f, {})
    BY SumEmpty
  <2>3. Same(0)
    BY <2>1, <2>2
  <2> HIDE DEF Same
  <2> QED
    BY <1>2, <2>3
<1> DEFINE i == m - 1
<1>4. i \in Nat /\ i + 1 = m /\ i < n /\ i \in 0..n /\ i - 1 \in Int
  BY <1>2, <1>3
<1> HIDE DEF i
<1>5. Same(i)
  <2>1. i \notin T
    BY <1>1, <1>4
  <2> HIDE DEF Same
  <2> QED
    BY <1>4, <2>1
<1> DEFINE A == 1..i
           B == 0..(i - 1)
<1>6. /\ 1..(i + 1) = A \cup {i + 1} /\ i + 1 \notin A
      /\ 0..((i - 1) + 1) = B \cup {i} /\ i \notin B /\ (i - 1) + 1 = i
  BY <1>4
<1>7. IsFiniteSet(A) /\ IsFiniteSet(B)
  <2> HIDE DEF Same, T
  <2>1. i \in Int /\ i - 1 \in Int /\ 0 \in Int /\ 1 \in Int
    BY <1>4
  <2>2. IsFiniteSet(1..i)
    BY <2>1, FS_Interval
  <2>3. IsFiniteSet(0..(i - 1))
    BY <2>1, FS_Interval
  <2> QED
    BY <2>2, <2>3
<1>8. /\ \A a \in B : f[a] \in Int
      /\ \A a \in A : k[a] \in Int
      /\ f[i] \in Int /\ k[i + 1] = f[i]
  <2>1. \A a \in B : a \in 0..(n - 1)
    BY <1>4
  <2>2. \A a \in A : a - 1 \in 0..(n - 1) /\ (a - 1) + 1 = a
    BY <1>4
  <2>3. i \in 0..(n - 1)
    BY <1>4
  <2> QED
    BY <2>1, <2>2, <2>3
<1>9. SumFunctionOnSet(k, A) = SumFunctionOnSet(f, B)
  BY <1>5
<1> HIDE DEF A, B
<1> HIDE DEF Same, T
<1>10. SumFunctionOnSet(k, A \cup {i + 1}) = SumFunctionOnSet(k, A) + k[i + 1]
  <2>1. k[i + 1] \in Int /\ \A y \in A : k[y] \in Int /\ k[y] = k[y]
    BY <1>8
  <2> QED
    BY <1>6, <1>7, <2>1, SumGains
<1>11. SumFunctionOnSet(f, B \cup {i}) = SumFunctionOnSet(f, B) + f[i]
  <2>1. f[i] \in Int /\ \A y \in B : f[y] \in Int /\ f[y] = f[y]
    BY <1>8
  <2> QED
    BY <1>6, <1>7, <2>1, SumGains
<1>12. SumFunctionOnSet(k, 1..(i + 1)) = SumFunctionOnSet(f, 0..((i - 1) + 1))
  BY <1>6, <1>8, <1>9, <1>10, <1>11
<1>13. Same(m)
  <2>1. (i - 1) + 1 = m - 1
    BY <1>4
  <2> QED
    BY <1>4, <1>12, <2>1 DEF Same
<1> QED
  BY <1>2, <1>13
================================================================================
