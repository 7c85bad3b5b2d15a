------------------------------ MODULE SumProofs ------------------------------
(***************************************************************************)
(* The sums of the models: what SumFunction adds up to.                    *)
(*                                                                         *)
(* SumFunction takes the elements of the domain out one by one, in an      *)
(* order of its own.  The lemmas say that it is a sum all the same: any    *)
(* element may be the first, so whatever gains f[x] when x is added, for   *)
(* any x, is the sum of f (SumIsMeasured).  The rest follows from that:    *)
(* sums of sums, of multiples, of renamed elements, of one changed value.  *)
(*                                                                         *)
(* Induction is over sets, not over predicates: a set of numbers, or of    *)
(* subsets, that is closed under the next one has them all.                *)
(***************************************************************************)
EXTENDS Integers, FiniteSets, Functions, FiniteSetTheorems, WellFoundedInduction, TLAPS

\* A set of numbers has a least one.
LEMMA LeastNumber ==
  ASSUME NEW S \in SUBSET Nat, S # {}
  PROVE  \E n \in S : \A m \in S : n <= m
<1>1. \E n \in S : \A m \in S : ~ (<<m, n>> \in OpToRel(<, Nat))
  BY NatLessThanWellFounded, WFMin
<1>2. ASSUME NEW n \in Nat, NEW m \in Nat, m < n PROVE <<m, n>> \in OpToRel(<, Nat)
  BY <1>2 DEF OpToRel
<1>3. PICK n \in S : \A m \in S : ~ (m < n)
  BY <1>1, <1>2
<1> QED BY <1>3

\* Induction: what holds of zero and of the next number holds of all.
LEMMA SetInduction ==
  ASSUME NEW S \in SUBSET Nat, 0 \in S, \A n \in S : n + 1 \in S
  PROVE  S = Nat
<1> SUFFICES ASSUME Nat \ S # {} PROVE FALSE
  OBVIOUS
<1>1. PICK n \in Nat \ S : \A m \in Nat \ S : n <= m
  BY LeastNumber
<1>2. n - 1 \in Nat /\ n - 1 \in S
  BY <1>1
<1> QED BY <1>1, <1>2

\* The subsets of a finite set: finite, with fewer elements when one is taken out.
LEMMA SubsetFacts ==
  ASSUME NEW S, IsFiniteSet(S), NEW s \in SUBSET S
  PROVE  /\ IsFiniteSet(s) /\ Cardinality(s) \in Nat
         /\ Cardinality(s) = 0 <=> s = {}
         /\ \A x \in s : s \ {x} \in SUBSET S /\ Cardinality(s \ {x}) = Cardinality(s) - 1
<1>1. IsFiniteSet(s)
  BY FS_Subset
<1> QED BY <1>1, FS_CardinalityType, FS_EmptySet, FS_RemoveElement

\* Induction: what holds of {}, and of a set when it holds with an element less.
LEMMA RemovalInduction ==
  ASSUME NEW S, IsFiniteSet(S), NEW C, {} \in C,
         \A s \in SUBSET S : s # {} /\ (\A x \in s : s \ {x} \in C) => s \in C
  PROVE  SUBSET S \subseteq C
<1> DEFINE N == {n \in Nat : \A s \in SUBSET S : Cardinality(s) = n => s \in C}
<1>1. 0 \in N
  BY SubsetFacts
<1>2. ASSUME NEW n \in N PROVE n + 1 \in N
  <2> SUFFICES ASSUME NEW s \in SUBSET S, Cardinality(s) = n + 1 PROVE s \in C
    OBVIOUS
  <2>1. s # {}
    BY SubsetFacts
  <2>2. \A x \in s : s \ {x} \in SUBSET S /\ Cardinality(s \ {x}) = n
    BY SubsetFacts
  <2> QED BY <2>1, <2>2
<1>3. N = Nat
  <2> HIDE DEF N
  <2>1. N \in SUBSET Nat
    BY DEF N
  <2> QED BY <1>1, <1>2, <2>1, SetInduction
<1> QED BY <1>3, SubsetFacts
\* Induction: what holds of {} and of a set with one more element holds of S.
LEMMA SubsetInduction ==
  ASSUME NEW S, IsFiniteSet(S), NEW C, {} \in C,
         \A s \in SUBSET S : \A x \in s : s \ {x} \in C => s \in C
  PROVE  SUBSET S \subseteq C
<1>1. \A s \in SUBSET S : s # {} /\ (\A x \in s : s \ {x} \in C) => s \in C
  OBVIOUS
<1> QED BY <1>1, RemovalInduction
-----------------------------------------------------------------------------
\* The element that is taken out of s, and what the sums of f are then.
Pick(s) == CHOOSE x \in s : TRUE

Step(f, s, g) == IF s = {} THEN 0 ELSE f[Pick(s)] + g[s \ {Pick(s)}]

Adds(f, S, g) == g = [s \in SUBSET S |-> Step(f, s, g)]

\* g gives every subset what it should: it gains f[x] with x, whichever x it is.
Measures(f, S, g) ==
  /\ g[{}] = 0
  /\ \A s \in SUBSET S : g[s] \in Int
  /\ \A s \in SUBSET S : \A x \in s : g[s] = f[x] + g[s \ {x}]

\* What the library computes.
LEMMA SumIs ==
  ASSUME NEW f, NEW S
  PROVE  SumFunctionOnSet(f, S) = (CHOOSE g : Adds(f, S, g))[S]
BY DEF SumFunctionOnSet, FoldFunctionOnSet, MapThenFoldSet, Adds, Step, Pick

\* The recursion has a solution on a finite set.
LEMMA AddsExists ==
  ASSUME NEW f, NEW S, IsFiniteSet(S)
  PROVE  \E g : Adds(f, S, g)
<1> DEFINE Upto(n, g) == \A s \in SUBSET S : Cardinality(s) <= n => g[s] = Step(f, s, g)
           N == {n \in Nat : \E g : Upto(n, g)}
<1>1. 0 \in N
  <2> DEFINE g == [s \in SUBSET S |-> 0]
  <2>1. Upto(0, g)
    <3> SUFFICES ASSUME NEW s \in SUBSET S, Cardinality(s) <= 0 PROVE g[s] = Step(f, s, g)
      OBVIOUS
    <3>1. s = {}
      BY SubsetFacts
    <3> QED BY <3>1 DEF Step
  <2> QED BY <2>1
<1>2. ASSUME NEW n \in N PROVE n + 1 \in N
  <2>1. PICK g : Upto(n, g)
    OBVIOUS
  <2> DEFINE h == [s \in SUBSET S |-> IF Cardinality(s) <= n THEN g[s] ELSE Step(f, s, g)]
  <2>2. ASSUME NEW s \in SUBSET S, Cardinality(s) <= n + 1 PROVE h[s] = Step(f, s, h)
    <3>1. h[s] = Step(f, s, g)
      BY <2>1
    <3>2. CASE s = {}
      BY <3>1, <3>2 DEF Step
    <3>3. CASE s # {}
      <4>1. PICK p \in s : p = Pick(s)
        BY <3>3 DEF Pick
      <4>2. s \ {p} \in SUBSET S /\ Cardinality(s \ {p}) <= n
        BY <2>2, SubsetFacts
      <4>3. h[s \ {p}] = g[s \ {p}]
        BY <4>2
      <4> HIDE DEF h
      <4> QED BY <3>1, <3>3, <4>1, <4>3 DEF Step
    <3> QED BY <3>2, <3>3
  <2> HIDE DEF h
  <2>3. Upto(n + 1, h)
    BY <2>2
  <2> QED BY <2>3
<1>3. N = Nat
  <2> HIDE DEF N
  <2>1. N \in SUBSET Nat
    BY DEF N
  <2> QED BY <1>1, <1>2, <2>1, SetInduction
<1>4. Cardinality(S) \in Nat
  BY FS_CardinalityType
<1>5. PICK g : Upto(Cardinality(S), g)
  BY <1>3, <1>4
<1> DEFINE h == [s \in SUBSET S |-> g[s]]
<1>6. ASSUME NEW s \in SUBSET S PROVE h[s] = Step(f, s, h)
  <2>1. Cardinality(s) <= Cardinality(S)
    BY FS_Subset
  <2>2. g[s] = Step(f, s, g)
    BY <1>5, <2>1
  <2>3. CASE s = {}
    BY <2>2, <2>3 DEF Step
  <2>4. CASE s # {}
    <3>1. PICK p \in s : p = Pick(s)
      BY <2>4 DEF Pick
    <3>2. h[s \ {p}] = g[s \ {p}] /\ h[s] = g[s]
      OBVIOUS
    <3> HIDE DEF h
    <3> QED BY <2>2, <2>4, <3>1, <3>2 DEF Step
  <2> QED BY <2>3, <2>4
<1>7. h = [s \in SUBSET S |-> h[s]]
  OBVIOUS
<1> HIDE DEF h
<1>8. h = [s \in SUBSET S |-> Step(f, s, h)]
  BY <1>6, <1>7
<1> QED BY <1>8 DEF Adds

\* Whichever element is taken out first, the sum is the same.
LEMMA AddsMeasures ==
  ASSUME NEW f, NEW S, IsFiniteSet(S), \A x \in S : f[x] \in Int, NEW g, Adds(f, S, g)
  PROVE  Measures(f, S, g)
<1>0. \A s \in SUBSET S : g[s] = Step(f, s, g)
  BY DEF Adds
<1> DEFINE N == {n \in Nat : \A s \in SUBSET S : Cardinality(s) <= n =>
                   g[s] \in Int /\ \A x \in s : g[s] = f[x] + g[s \ {x}]}
<1>1. 0 \in N
  <2> SUFFICES ASSUME NEW s \in SUBSET S, Cardinality(s) <= 0
               PROVE  g[s] \in Int /\ \A x \in s : g[s] = f[x] + g[s \ {x}]
    OBVIOUS
  <2>1. s = {} /\ g[s] = Step(f, s, g)
    BY <1>0, SubsetFacts
  <2> QED BY <2>1 DEF Step
<1>2. ASSUME NEW n \in N PROVE n + 1 \in N
  <2> SUFFICES ASSUME NEW s \in SUBSET S, Cardinality(s) <= n + 1
               PROVE  g[s] \in Int /\ \A x \in s : g[s] = f[x] + g[s \ {x}]
    OBVIOUS
  <2>0. CASE s = {}
    <3>1. g[s] = 0
      BY <1>0, <2>0 DEF Step
    <3> QED BY <2>0, <3>1
  <2> SUFFICES ASSUME s # {} PROVE g[s] \in Int /\ \A x \in s : g[s] = f[x] + g[s \ {x}]
    BY <2>0
  <2>1. PICK p \in s : p = Pick(s)
    BY DEF Pick
  <2>2. g[s] = f[p] + g[s \ {p}]
    BY <1>0, <2>1 DEF Step
  <2>3. \A x \in s : s \ {x} \in SUBSET S /\ Cardinality(s \ {x}) <= n
    BY SubsetFacts
  <2>4. \A x \in s : g[s \ {x}] \in Int /\ \A y \in s \ {x} : g[s \ {x}] = f[y] + g[(s \ {x}) \ {y}]
    BY <2>3
  <2>5. ASSUME NEW x \in s, x # p PROVE g[s] = f[x] + g[s \ {x}]
    <3>1. g[s \ {p}] = f[x] + g[(s \ {p}) \ {x}] /\ g[s \ {x}] = f[p] + g[(s \ {x}) \ {p}]
      BY <2>4, <2>5
    <3>2. (s \ {p}) \ {x} = (s \ {x}) \ {p}
      OBVIOUS
    <3>3. Cardinality(s \ {x}) <= n /\ (s \ {x}) \in SUBSET S /\ p \in s \ {x}
      BY <2>3, <2>5
    <3>4. (s \ {x}) \ {p} \in SUBSET S /\ Cardinality((s \ {x}) \ {p}) <= n
      BY <3>3, SubsetFacts
    <3>5. g[(s \ {x}) \ {p}] \in Int /\ f[x] \in Int /\ f[p] \in Int
      BY <3>4
    <3>6. PICK rest : rest = (s \ {x}) \ {p}
      OBVIOUS
    <3>7. g[s \ {p}] = f[x] + g[rest] /\ g[s \ {x}] = f[p] + g[rest] /\ g[rest] \in Int
      BY <3>1, <3>2, <3>5, <3>6
    <3> QED BY <2>2, <3>5, <3>7
  <2>6. f[p] \in Int /\ g[s \ {p}] \in Int
    BY <2>4
  <2>7. g[s] \in Int
    BY <2>2, <2>6
  <2>8. ASSUME NEW x \in s PROVE g[s] = f[x] + g[s \ {x}]
    <3>1. CASE x = p
      BY <2>2, <3>1
    <3>2. CASE x # p
      BY <2>5, <3>2
    <3> QED BY <3>1, <3>2
  <2> QED BY <2>7, <2>8
<1>3. N = Nat
  <2> HIDE DEF N
  <2>1. N \in SUBSET Nat
    BY DEF N
  <2> QED BY <1>1, <1>2, <2>1, SetInduction
<1>4. \A s \in SUBSET S : g[s] \in Int /\ \A x \in s : g[s] = f[x] + g[s \ {x}]
  <2> TAKE s \in SUBSET S
  <2>1. Cardinality(s) \in N /\ Cardinality(s) <= Cardinality(s)
    BY <1>3, SubsetFacts
  <2> QED BY <2>1
<1>5. g[{}] = 0
  BY <1>0 DEF Step
<1>6. \A s \in SUBSET S : g[s] \in Int
  BY <1>4
<1>7. \A s \in SUBSET S : \A x \in s : g[s] = f[x] + g[s \ {x}]
  BY <1>4
<1> HIDE DEF N
<1> QED BY <1>5, <1>6, <1>7 DEF Measures

\* Two such functions agree where both are defined.
LEMMA MeasuresAgree ==
  ASSUME NEW f, NEW S, IsFiniteSet(S), NEW T \in SUBSET S, NEW g, NEW h,
         Measures(f, S, g), Measures(f, T, h)
  PROVE  g[T] = h[T]
<1> DEFINE C == {s \in SUBSET T : g[s] = h[s]}
<1>1. {} \in C
  BY DEF Measures
<1>2. ASSUME NEW s \in SUBSET T, NEW x \in s, s \ {x} \in C PROVE s \in C
  <2>1. g[s \ {x}] = h[s \ {x}] /\ s \in SUBSET S
    BY <1>2
  <2>2. g[s] = f[x] + g[s \ {x}] /\ h[s] = f[x] + h[s \ {x}]
    BY <2>1 DEF Measures
  <2> QED BY <2>1, <2>2
<1>3. SUBSET T \subseteq C
  <2> HIDE DEF C
  <2> QED BY <1>1, <1>2, FS_Subset, SubsetInduction
<1> QED BY <1>3

\* What is measured is the sum.
LEMMA SumIsMeasured ==
  ASSUME NEW f, NEW S, IsFiniteSet(S), \A x \in S : f[x] \in Int, NEW g, Measures(f, S, g)
  PROVE  SumFunctionOnSet(f, S) = g[S]
<1> DEFINE h == CHOOSE h : Adds(f, S, h)
<1>1. Adds(f, S, h)
  BY AddsExists
<1>2. SumFunctionOnSet(f, S) = h[S]
  BY SumIs
<1> HIDE DEF h
<1>3. Measures(f, S, h)
  BY <1>1, AddsMeasures
<1> QED BY <1>2, <1>3, MeasuresAgree

\* A sum over a finite set: a number, 0 over {}, and any element may come first.
LEMMA SumFacts ==
  ASSUME NEW f, NEW S, IsFiniteSet(S), \A x \in S : f[x] \in Int
  PROVE  /\ SumFunctionOnSet(f, S) \in Int
         /\ S = {} => SumFunctionOnSet(f, S) = 0
         /\ \A x \in S : SumFunctionOnSet(f, S) = f[x] + SumFunctionOnSet(f, S \ {x})
<1>1. PICK g : Adds(f, S, g)
  BY AddsExists
<1>2. Measures(f, S, g)
  BY <1>1, AddsMeasures
<1>3. ASSUME NEW T \in SUBSET S PROVE SumFunctionOnSet(f, T) = g[T]
  <2>1. Measures(f, T, g) /\ IsFiniteSet(T)
    BY <1>2, FS_Subset DEF Measures
  <2> QED BY <2>1, SumIsMeasured
<1>4. S \in SUBSET S /\ \A x \in S : S \ {x} \in SUBSET S
  OBVIOUS
<1> QED BY <1>2, <1>3, <1>4 DEF Measures

\* Where two functions agree their sums do.
LEMMA SumSame ==
  ASSUME NEW f, NEW h, NEW S, IsFiniteSet(S), \A x \in S : f[x] \in Int /\ h[x] = f[x]
  PROVE  SumFunctionOnSet(h, S) = SumFunctionOnSet(f, S)
<1>1. PICK g : Measures(f, S, g)
  BY AddsExists, AddsMeasures
<1>2. Measures(h, S, g)
  BY <1>1 DEF Measures
<1> QED BY <1>1, <1>2, SumIsMeasured

\* The sum of a function is a sum over its domain.
LEMMA SumOfFunction ==
  ASSUME NEW f PROVE SumFunction(f) = SumFunctionOnSet(f, DOMAIN f)
BY DEF SumFunction
-----------------------------------------------------------------------------
\* One more element, or one value changed: the rest of the sum stays.
LEMMA SumExtended ==
  ASSUME NEW f, NEW h, NEW S, IsFiniteSet(S), \A x \in S : f[x] \in Int /\ h[x] = f[x],
         NEW i, i \notin S, h[i] \in Int
  PROVE  SumFunctionOnSet(h, S \cup {i}) = SumFunctionOnSet(f, S) + h[i]
<1>1. IsFiniteSet(S \cup {i}) /\ (S \cup {i}) \ {i} = S
  BY FS_AddElement
<1>2. SumFunctionOnSet(h, S \cup {i}) = h[i] + SumFunctionOnSet(h, S)
  BY <1>1, SumFacts
<1>3. SumFunctionOnSet(h, S) = SumFunctionOnSet(f, S) /\ SumFunctionOnSet(f, S) \in Int
  BY SumSame, SumFacts
<1> QED BY <1>2, <1>3

\* Replacing one summand changes the sum by the difference.
LEMMA SumChanged ==
  ASSUME NEW f, NEW h, NEW S, IsFiniteSet(S), NEW i \in S, h[i] \in Int,
         \A x \in S : f[x] \in Int, \A x \in S \ {i} : h[x] = f[x]
  PROVE  SumFunctionOnSet(h, S) = SumFunctionOnSet(f, S) - f[i] + h[i]
<1>1. IsFiniteSet(S \ {i}) /\ \A x \in S : h[x] \in Int
  BY FS_RemoveElement
<1>2. SumFunctionOnSet(h, S) = h[i] + SumFunctionOnSet(h, S \ {i})
  BY <1>1, SumFacts
<1>3. SumFunctionOnSet(f, S) = f[i] + SumFunctionOnSet(f, S \ {i})
  BY SumFacts
<1>4. SumFunctionOnSet(h, S \ {i}) = SumFunctionOnSet(f, S \ {i})
      /\ SumFunctionOnSet(f, S \ {i}) \in Int
  BY <1>1, SumSame, SumFacts
<1> QED BY <1>2, <1>3, <1>4

\* The sum of sums, and of multiples.
LEMMA SumPlus ==
  ASSUME NEW a, NEW b, NEW h, NEW S, IsFiniteSet(S),
         \A x \in S : a[x] \in Int /\ b[x] \in Int /\ h[x] = a[x] + b[x]
  PROVE  SumFunctionOnSet(h, S) = SumFunctionOnSet(a, S) + SumFunctionOnSet(b, S)
<1> DEFINE g == [s \in SUBSET S |-> SumFunctionOnSet(a, s) + SumFunctionOnSet(b, s)]
<1>1. ASSUME NEW s \in SUBSET S
      PROVE  /\ SumFunctionOnSet(a, s) \in Int /\ SumFunctionOnSet(b, s) \in Int
             /\ s = {} => SumFunctionOnSet(a, s) = 0 /\ SumFunctionOnSet(b, s) = 0
             /\ \A x \in s : SumFunctionOnSet(a, s) = a[x] + SumFunctionOnSet(a, s \ {x})
             /\ \A x \in s : SumFunctionOnSet(b, s) = b[x] + SumFunctionOnSet(b, s \ {x})
  <2>1. IsFiniteSet(s) /\ \A x \in s : a[x] \in Int /\ b[x] \in Int
    BY FS_Subset
  <2> QED BY <2>1, SumFacts
<1>2. g[{}] = 0
  BY <1>1
<1>3. \A s \in SUBSET S : g[s] \in Int
  BY <1>1
<1>4. ASSUME NEW s \in SUBSET S, NEW x \in s PROVE g[s] = h[x] + g[s \ {x}]
  <2>1. s \ {x} \in SUBSET S
    OBVIOUS
  <2>2. SumFunctionOnSet(a, s \ {x}) \in Int /\ SumFunctionOnSet(b, s \ {x}) \in Int
    BY <1>1, <2>1
  <2>3. g[s \ {x}] = SumFunctionOnSet(a, s \ {x}) + SumFunctionOnSet(b, s \ {x})
    BY <2>1
  <2>4. g[s] = (a[x] + SumFunctionOnSet(a, s \ {x})) + (b[x] + SumFunctionOnSet(b, s \ {x}))
    BY <1>1
  <2> HIDE DEF g
  <2> QED BY <2>2, <2>3, <2>4
<1>5. g[S] = SumFunctionOnSet(a, S) + SumFunctionOnSet(b, S)
  OBVIOUS
<1>6. \A x \in S : h[x] \in Int
  OBVIOUS
<1> HIDE DEF g
<1>7. Measures(h, S, g)
  BY <1>2, <1>3, <1>4 DEF Measures
<1> QED BY <1>5, <1>6, <1>7, SumIsMeasured

\* A common factor can be taken out of a sum.
LEMMA SumScaled ==
  ASSUME NEW a, NEW h, NEW c \in Int, NEW S, IsFiniteSet(S),
         \A x \in S : a[x] \in Int /\ h[x] = a[x] * c
  PROVE  SumFunctionOnSet(h, S) = SumFunctionOnSet(a, S) * c
<1> DEFINE g == [s \in SUBSET S |-> SumFunctionOnSet(a, s) * c]
<1>0. ASSUME NEW p \in Int, NEW q \in Int PROVE (p + q) * c = p * c + q * c /\ p * c \in Int
  OBVIOUS
<1>1. ASSUME NEW s \in SUBSET S
      PROVE  /\ SumFunctionOnSet(a, s) \in Int
             /\ s = {} => SumFunctionOnSet(a, s) = 0
             /\ \A x \in s : SumFunctionOnSet(a, s) = a[x] + SumFunctionOnSet(a, s \ {x})
  <2>1. IsFiniteSet(s) /\ \A x \in s : a[x] \in Int
    BY FS_Subset
  <2> QED BY <2>1, SumFacts
<1>2. g[{}] = 0
  BY <1>1
<1>3. \A s \in SUBSET S : g[s] \in Int
  BY <1>0, <1>1
<1>4. ASSUME NEW s \in SUBSET S, NEW x \in s PROVE g[s] = h[x] + g[s \ {x}]
  <2>1. s \ {x} \in SUBSET S
    OBVIOUS
  <2>2. SumFunctionOnSet(a, s \ {x}) \in Int /\ a[x] \in Int /\ h[x] = a[x] * c
    BY <1>1, <2>1
  <2>3. g[s \ {x}] = SumFunctionOnSet(a, s \ {x}) * c
    BY <2>1
  <2>4. g[s] = (a[x] + SumFunctionOnSet(a, s \ {x})) * c
    BY <1>1
  <2> HIDE DEF g
  <2> QED BY <1>0, <2>2, <2>3, <2>4
<1>5. g[S] = SumFunctionOnSet(a, S) * c
  OBVIOUS
<1>6. \A x \in S : h[x] \in Int
  BY <1>0
<1> HIDE DEF g
<1>7. Measures(h, S, g)
  BY <1>2, <1>3, <1>4 DEF Measures
<1> QED BY <1>5, <1>6, <1>7, SumIsMeasured

\* The sum of ones is a count.
LEMMA SumOfOnes ==
  ASSUME NEW f, NEW S, IsFiniteSet(S), \A x \in S : f[x] = 1
  PROVE  SumFunctionOnSet(f, S) = Cardinality(S)
<1> DEFINE g == [s \in SUBSET S |-> Cardinality(s)]
<1>1. g[{}] = 0 /\ g[S] = Cardinality(S)
  BY FS_EmptySet
<1>2. \A s \in SUBSET S : g[s] \in Int
  BY SubsetFacts
<1>3. ASSUME NEW s \in SUBSET S, NEW x \in s PROVE g[s] = f[x] + g[s \ {x}]
  BY SubsetFacts
<1> HIDE DEF g
<1>4. Measures(f, S, g)
  BY <1>1, <1>2, <1>3 DEF Measures
<1> QED BY <1>1, <1>4, SumIsMeasured

\* The sum of zeroes.
LEMMA SumOfZeroes ==
  ASSUME NEW f, NEW S, IsFiniteSet(S), \A x \in S : f[x] = 0
  PROVE  SumFunctionOnSet(f, S) = 0
<1> DEFINE g == [s \in SUBSET S |-> 0]
<1>1. Measures(f, S, g)
  BY DEF Measures
<1> QED BY <1>1, SumIsMeasured

\* One value, and zero elsewhere.
LEMMA SumOfOne ==
  ASSUME NEW f, NEW S, IsFiniteSet(S), NEW i \in S, f[i] \in Int, \A x \in S \ {i} : f[x] = 0
  PROVE  SumFunctionOnSet(f, S) = f[i]
<1>1. IsFiniteSet(S \ {i}) /\ \A x \in S : f[x] \in Int
  BY FS_RemoveElement
<1>2. SumFunctionOnSet(f, S) = f[i] + SumFunctionOnSet(f, S \ {i})
  BY <1>1, SumFacts
<1>3. SumFunctionOnSet(f, S \ {i}) = 0
  BY <1>1, SumOfZeroes
<1> QED BY <1>2, <1>3

\* A sum of what is nowhere negative is not; and it is zero only if all are.
LEMMA SumOfNaturals ==
  ASSUME NEW f, NEW S, IsFiniteSet(S), \A x \in S : f[x] \in Nat
  PROVE  /\ SumFunctionOnSet(f, S) \in Nat
         /\ \A x \in S : f[x] <= SumFunctionOnSet(f, S)
<1> DEFINE C == {s \in SUBSET S : SumFunctionOnSet(f, s) \in Nat}
<1>0. \A s \in SUBSET S : IsFiniteSet(s)
  BY FS_Subset
<1>1. {} \in C
  BY SumFacts, FS_EmptySet
<1>2. ASSUME NEW s \in SUBSET S, NEW x \in s, s \ {x} \in C PROVE s \in C
  <2>1. SumFunctionOnSet(f, s) = f[x] + SumFunctionOnSet(f, s \ {x})
    BY <1>0, SumFacts
  <2> QED BY <1>2, <2>1
<1>3. SUBSET S \subseteq C
  <2> HIDE DEF C
  <2> QED BY <1>1, <1>2, SubsetInduction
<1>4. ASSUME NEW x \in S PROVE f[x] <= SumFunctionOnSet(f, S)
  <2>1. SumFunctionOnSet(f, S) = f[x] + SumFunctionOnSet(f, S \ {x})
    BY SumFacts
  <2>2. S \ {x} \in C
    BY <1>3
  <2> QED BY <2>1, <2>2
<1> QED BY <1>3, <1>4

\* A sum of numbers up to m is at most m for each of them.
LEMMA SumBounded ==
  ASSUME NEW f, NEW S, IsFiniteSet(S), NEW m \in Nat, \A x \in S : f[x] \in Nat /\ f[x] <= m
  PROVE  SumFunctionOnSet(f, S) \in Nat /\ SumFunctionOnSet(f, S) <= Cardinality(S) * m
<1>1. PICK o, c, d : /\ o = [x \in S |-> 1] /\ c = [x \in S |-> 1 * m]
                     /\ d = [x \in S |-> m - f[x]]
  OBVIOUS
<1>2. SumFunctionOnSet(o, S) = Cardinality(S)
  <2>1. \A x \in S : o[x] = 1
    BY <1>1
  <2> QED BY <2>1, SumOfOnes
<1>3. SumFunctionOnSet(c, S) = Cardinality(S) * m
  <2>1. m \in Int /\ \A x \in S : o[x] \in Int /\ c[x] = o[x] * m
    BY <1>1
  <2> QED BY <1>2, <2>1, SumScaled
<1>4. \A x \in S : f[x] \in Int /\ d[x] \in Nat /\ d[x] \in Int /\ c[x] = f[x] + d[x]
  BY <1>1
<1>5. SumFunctionOnSet(c, S) = SumFunctionOnSet(f, S) + SumFunctionOnSet(d, S)
  BY <1>4, SumPlus
<1>6. SumFunctionOnSet(f, S) \in Nat /\ SumFunctionOnSet(d, S) \in Nat
  BY <1>4, SumOfNaturals
<1>7. PICK x, y : x = SumFunctionOnSet(f, S) /\ y = SumFunctionOnSet(d, S)
  OBVIOUS
<1> QED BY <1>3, <1>5, <1>6, <1>7

\* A sum over other names of the same elements.
Renames(q, S, T) ==
  /\ \A x \in S : q[x] \in T
  /\ \A x, y \in S : q[x] = q[y] => x = y
  /\ \A y \in T : \E x \in S : q[x] = y

\* A sum does not depend on the names of its indices.
LEMMA SumRenamed ==
  ASSUME NEW S, IsFiniteSet(S), NEW T, NEW q, Renames(q, S, T),
         NEW f, \A x \in S : f[q[x]] \in Int,
         NEW h, \A x \in S : h[x] = f[q[x]]
  PROVE  IsFiniteSet(T) /\ SumFunctionOnSet(f, T) = SumFunctionOnSet(h, S)
<1>a. /\ \A x \in S : q[x] \in T
      /\ \A x, y \in S : q[x] = q[y] => x = y
      /\ \A y \in T : \E x \in S : q[x] = y
  BY DEF Renames
<1> DEFINE Named(s) == {q[x] : x \in s}
           C == {s \in SUBSET S : IsFiniteSet(Named(s))
                                  /\ SumFunctionOnSet(f, Named(s)) = SumFunctionOnSet(h, s)}
<1>0. \A s \in SUBSET S : IsFiniteSet(s)
  BY FS_Subset
<1>1. {} \in C
  <2>1. Named({}) = {}
    OBVIOUS
  <2>2. IsFiniteSet({})
    BY FS_EmptySet
  <2>3. SumFunctionOnSet(f, {}) = 0 /\ SumFunctionOnSet(h, {}) = 0
    BY <2>2, SumFacts
  <2> QED BY <2>1, <2>2, <2>3
<1>2. ASSUME NEW s \in SUBSET S, NEW x \in s, s \ {x} \in C PROVE s \in C
  <2>1. Named(s) = Named(s \ {x}) \cup {q[x]} /\ q[x] \notin Named(s \ {x})
    BY <1>a
  <2>2. IsFiniteSet(Named(s \ {x}))
        /\ SumFunctionOnSet(f, Named(s \ {x})) = SumFunctionOnSet(h, s \ {x})
    BY <1>2
  <2>3. \A y \in Named(s \ {x}) : f[y] \in Int
    OBVIOUS
  <2>4. f[q[x]] \in Int /\ h[x] = f[q[x]] /\ \A y \in s : h[y] \in Int
    OBVIOUS
  <2>5. SumFunctionOnSet(h, s) = h[x] + SumFunctionOnSet(h, s \ {x})
        /\ SumFunctionOnSet(h, s \ {x}) \in Int
    <3>1. IsFiniteSet(s) /\ IsFiniteSet(s \ {x}) /\ \A y \in s \ {x} : h[y] \in Int
      BY <1>0, <2>4
    <3> QED BY <2>4, <3>1, SumFacts
  <2>a. PICK t : t = Named(s \ {x})
    OBVIOUS
  <2>b. PICK i : i = q[x]
    OBVIOUS
  <2>6. IsFiniteSet(t) /\ i \notin t /\ f[i] \in Int /\ \A y \in t : f[y] \in Int
    BY <2>1, <2>2, <2>3, <2>4, <2>a, <2>b
  <2>c. IsFiniteSet(t \cup {i})
        /\ SumFunctionOnSet(f, t \cup {i}) = SumFunctionOnSet(f, t) + f[i]
    BY <2>6, SumExtended, FS_AddElement
  <2>d. Named(s) = t \cup {i}
    BY <2>1, <2>a, <2>b
  <2>7. IsFiniteSet(Named(s))
        /\ SumFunctionOnSet(f, Named(s)) = SumFunctionOnSet(f, t) + f[i]
    BY <2>c, <2>d
  <2> QED BY <2>2, <2>4, <2>5, <2>7, <2>a, <2>b
<1>3. SUBSET S \subseteq C
  <2> HIDE DEF C
  <2> QED BY <1>1, <1>2, SubsetInduction
<1>4. T = Named(S)
  BY <1>a
<1> QED BY <1>3, <1>4

\* A table with its row and column sums.
Table(a, K, U, rows, cols) ==
  /\ \A k \in K, u \in U : a[k][u] \in Int
  /\ \A k \in K : rows[k] = SumFunctionOnSet(a[k], U)
  /\ \A u \in U : cols[u] = SumFunctionOnSet([k \in K |-> a[k][u]], K)

\* Rows first or columns first: the sum of a table.
LEMMA SumSwapped ==
  ASSUME NEW K, IsFiniteSet(K), NEW U, IsFiniteSet(U),
         NEW a, NEW rows, NEW cols, Table(a, K, U, rows, cols)
  PROVE  SumFunctionOnSet(rows, K) = SumFunctionOnSet(cols, U)
<1>t. /\ \A k \in K, u \in U : a[k][u] \in Int
      /\ \A k \in K : rows[k] = SumFunctionOnSet(a[k], U)
      /\ \A u \in U : cols[u] = SumFunctionOnSet([k \in K |-> a[k][u]], K)
  BY DEF Table
<1> DEFINE col(s) == [u \in U |-> SumFunctionOnSet([k \in K |-> a[k][u]], s)]
           C == {s \in SUBSET K : SumFunctionOnSet(rows, s) = SumFunctionOnSet(col(s), U)}
<1>0. \A s \in SUBSET K : IsFiniteSet(s)
  BY FS_Subset
<1>a. \A k \in K : rows[k] \in Int
  BY <1>t, SumFacts
<1>b. ASSUME NEW s \in SUBSET K, NEW u \in U
      PROVE  /\ SumFunctionOnSet([k \in K |-> a[k][u]], s) \in Int
             /\ s = {} => SumFunctionOnSet([k \in K |-> a[k][u]], s) = 0
             /\ \A x \in s : SumFunctionOnSet([k \in K |-> a[k][u]], s) =
                  a[x][u] + SumFunctionOnSet([k \in K |-> a[k][u]], s \ {x})
  <2> DEFINE c == [k \in K |-> a[k][u]]
  <2>1. IsFiniteSet(s) /\ \A x \in s : c[x] \in Int /\ c[x] = a[x][u]
    BY <1>0, <1>t
  <2> HIDE DEF c
  <2>2. /\ SumFunctionOnSet(c, s) \in Int
        /\ s = {} => SumFunctionOnSet(c, s) = 0
        /\ \A x \in s : SumFunctionOnSet(c, s) = a[x][u] + SumFunctionOnSet(c, s \ {x})
    BY <2>1, SumFacts
  <2> QED BY <2>2 DEF c
<1>1. {} \in C
  <2>1. \A u \in U : col({})[u] = 0
    BY <1>b
  <2>2. SumFunctionOnSet(col({}), U) = 0
    <3> HIDE DEF col
    <3> QED BY <2>1, SumOfZeroes
  <2>3. SumFunctionOnSet(rows, {}) = 0
    BY <1>a, FS_EmptySet, SumFacts
  <2> QED BY <2>2, <2>3
<1>2. ASSUME NEW s \in SUBSET K, NEW x \in s, s \ {x} \in C PROVE s \in C
  <2>1. \A u \in U : /\ col(s \ {x})[u] \in Int /\ a[x][u] \in Int
                     /\ col(s)[u] = a[x][u] + col(s \ {x})[u]
    BY <1>b, <1>t
  <2>2. SumFunctionOnSet(col(s), U) = SumFunctionOnSet(a[x], U) + SumFunctionOnSet(col(s \ {x}), U)
    <3>1. PICK h : h = col(s)
      OBVIOUS
    <3>2. PICK b : b = col(s \ {x})
      OBVIOUS
    <3>3. PICK c : c = a[x]
      OBVIOUS
    <3>4. \A u \in U : c[u] \in Int /\ b[u] \in Int /\ h[u] = c[u] + b[u]
      BY <2>1, <3>1, <3>2, <3>3
    <3>5. SumFunctionOnSet(h, U) = SumFunctionOnSet(c, U) + SumFunctionOnSet(b, U)
      BY <3>4, SumPlus
    <3> QED BY <3>1, <3>2, <3>3, <3>5
  <2>3. SumFunctionOnSet(rows, s) = rows[x] + SumFunctionOnSet(rows, s \ {x})
    BY <1>0, <1>a, SumFacts
  <2> QED BY <1>2, <1>t, <2>2, <2>3
<1>3. SUBSET K \subseteq C
  <2> HIDE DEF C
  <2> QED BY <1>1, <1>2, SubsetInduction
<1>4. SumFunctionOnSet(rows, K) = SumFunctionOnSet(col(K), U)
  BY <1>3
<1>5. \A u \in U : col(K)[u] \in Int /\ cols[u] = col(K)[u]
  BY <1>b, <1>t
<1>6. SumFunctionOnSet(cols, U) = SumFunctionOnSet(col(K), U)
  <2> HIDE DEF col
  <2> QED BY <1>5, SumSame
<1> QED BY <1>4, <1>6
=============================================================================
