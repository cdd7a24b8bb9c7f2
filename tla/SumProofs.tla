----------------------------- MODULE SumProofs -----------------------------
(* Sums over finite sets. *)
EXTENDS Integers, FiniteSets, Functions, TLAPS, WellFoundedInduction, FiniteSetTheorems

\* A set of naturals that is not empty has a least element.
LEMMA LeastElement ==
    ASSUME NEW T \in SUBSET Nat, T # {}
    PROVE  \E x \in T : \A y \in T : x <= y
<1>1. PICK x \in T : \A y \in T : << y, x >> \notin OpToRel(<, Nat)
  BY NatLessThanWellFounded, WFMin, Zenon
<1>2. \A y \in T : ~(y < x)
  BY <1>1 DEF OpToRel
<1> QED
  BY <1>2

\* The subsets of a finite set, by induction: Good holds every subset if it
\* holds each one whose proper subsets it holds.
LEMMA SubsetInduction ==
    ASSUME NEW S, IsFiniteSet(S), NEW Good,
           \A T \in SUBSET S : (\A U \in SUBSET T : U # T => U \in Good) => T \in Good
    PROVE  \A T \in SUBSET S : T \in Good
<1> DEFINE Bad == {n \in Nat : \E T \in SUBSET S : Cardinality(T) = n /\ T \notin Good}
<1>1. \A T \in SUBSET S : IsFiniteSet(T) /\ Cardinality(T) \in Nat
  BY FS_Subset, FS_CardinalityType
<1>2. Bad = {}
  <2> SUFFICES ASSUME Bad # {} PROVE FALSE
    OBVIOUS
  <2>1. PICK n \in Bad : \A m \in Bad : n <= m
    BY LeastElement
  <2>2. PICK T \in SUBSET S : Cardinality(T) = n /\ T \notin Good
    BY <2>1
  <2>3. PICK U \in SUBSET T : U # T /\ U \notin Good
    BY <2>2
  <2>4. Cardinality(U) <= n /\ Cardinality(U) # n /\ Cardinality(U) \in Nat
    BY <1>1, <2>2, <2>3, FS_Subset
  <2>5. Cardinality(U) \in Bad
    BY <1>1, <2>2, <2>3, <2>4
  <2> QED
    BY <2>1, <2>4, <2>5
<1> QED
  BY <1>1, <1>2

\* What the recursion of SumFunctionOnSet does at a set, given its value at smaller ones.
SumStep(f, g, s) == IF s = {} THEN 0
                    ELSE LET x == CHOOSE x \in s : TRUE IN f[x] + g[s \ {x}]

Sums(f, g, S) == g = [s \in SUBSET S |-> SumStep(f, g, s)]

\* The recursion has a solution.
LEMMA SumsExist ==
    ASSUME NEW S, IsFiniteSet(S), NEW f
    PROVE  \E g : Sums(f, g, S)
<1> DEFINE Upto(n) == {s \in SUBSET S : Cardinality(s) <= n}
           Partial(g, n) == g = [s \in Upto(n) |-> SumStep(f, g, s)]
           Bad == {n \in Nat : ~ \E g : Partial(g, n)}
<1>1. \A T \in SUBSET S : IsFiniteSet(T) /\ Cardinality(T) \in Nat
  BY FS_Subset, FS_CardinalityType
<1>2. Bad = {}
  <2> SUFFICES ASSUME Bad # {} PROVE FALSE
    OBVIOUS
  <2>1. PICK n \in Bad : \A m \in Bad : n <= m
    BY LeastElement
  <2>2. CASE n = 0
    <3> DEFINE g == [s \in Upto(0) |-> 0]
    <3>1. \A s \in Upto(0) : s = {}
      BY <1>1, FS_EmptySet
    <3>2. Partial(g, 0)
      BY <3>1 DEF SumStep
    <3> QED
      BY <2>1, <2>2, <3>2
  <2>3. CASE n # 0
    <3>1. n - 1 \in Nat /\ n - 1 \notin Bad
      <4> HIDE DEF Bad
      <4>1. n \in Nat
        BY DEF Bad
      <4> QED
        BY <2>1, <2>3, <4>1
    <3>2. PICK h : Partial(h, n - 1)
      BY <3>1
    <3> DEFINE g == [s \in Upto(n) |-> SumStep(f, h, s)]
    <3>3. \A s \in Upto(n - 1) : s \in Upto(n) /\ h[s] = g[s]
      <4>1. \A s \in Upto(n - 1) : s \in Upto(n)
        BY <1>1, <3>1
      <4>2. \A s \in Upto(n - 1) : h[s] = SumStep(f, h, s)
        BY <3>2
      <4> QED
        BY <4>1, <4>2
    <3>4. \A s \in Upto(n) : SumStep(f, h, s) = SumStep(f, g, s)
      <4> SUFFICES ASSUME NEW s \in Upto(n), s # {}
                   PROVE  SumStep(f, h, s) = SumStep(f, g, s)
        BY DEF SumStep
      <4> DEFINE x == CHOOSE x \in s : TRUE
      <4>1. x \in s
        OBVIOUS
      <4>2. s \ {x} \in Upto(n - 1)
        <5>1. IsFiniteSet(s) /\ Cardinality(s) \in Nat /\ Cardinality(s) <= n
          BY <1>1
        <5>2. Cardinality(s \ {x}) = Cardinality(s) - 1
          BY <4>1, <5>1, FS_RemoveElement
        <5>3. s \ {x} \in SUBSET S
          OBVIOUS
        <5> QED
          BY <3>1, <5>1, <5>2, <5>3
      <4> QED
        BY <3>3, <4>2 DEF SumStep
    <3>5. Partial(g, n)
      BY <3>4
    <3> QED
      BY <2>1, <3>5
  <2> QED
    BY <2>2, <2>3
<1> DEFINE c == Cardinality(S)
<1>3. c \in Nat /\ Upto(c) = SUBSET S
  BY <1>1, FS_Subset
<1>4. \E g : Partial(g, c)
  BY <1>2, <1>3
<1> QED
  BY <1>3, <1>4 DEF Sums

\* Solutions agree where both are defined.
LEMMA SumsAgree ==
    ASSUME NEW S, IsFiniteSet(S), NEW f, NEW g, Sums(f, g, S),
           NEW T \in SUBSET S, NEW h, Sums(f, h, T)
    PROVE  \A s \in SUBSET T : g[s] = h[s]
<1> DEFINE Good == {s \in SUBSET T : g[s] = h[s]}
<1>1. IsFiniteSet(T)
  BY FS_Subset
<1>2. ASSUME NEW s \in SUBSET T, \A u \in SUBSET s : u # s => u \in Good
      PROVE  s \in Good
  <2>1. g[s] = SumStep(f, g, s) /\ h[s] = SumStep(f, h, s)
    BY DEF Sums
  <2>2. SumStep(f, g, s) = SumStep(f, h, s)
    BY <1>2 DEF SumStep
  <2> QED
    BY <2>1, <2>2
<1>3. \A s \in SUBSET T : s \in Good
  <2> HIDE DEF Good
  <2> QED
    BY <1>1, <1>2, SubsetInduction
<1> QED
  BY <1>3

\* SumFunctionOnSet adds the value at an element that it chooses to the sum of the others.
LEMMA SumUnfold ==
    ASSUME NEW S, IsFiniteSet(S), NEW f
    PROVE  /\ S = {} => SumFunctionOnSet(f, S) = 0
           /\ S # {} => LET x == CHOOSE x \in S : TRUE
                        IN  SumFunctionOnSet(f, S) = f[x] + SumFunctionOnSet(f, S \ {x})
<1> DEFINE sum(T) == CHOOSE g : Sums(f, g, T)
<1>1. \A T \in SUBSET S : SumFunctionOnSet(f, T) = sum(T)[T]
  BY DEF SumFunctionOnSet, FoldFunctionOnSet, MapThenFoldSet, Sums, SumStep
<1>2. \A T \in SUBSET S : Sums(f, sum(T), T)
  BY FS_Subset, SumsExist
<1>3. SumFunctionOnSet(f, S) = SumStep(f, sum(S), S)
  <2>1. Sums(f, sum(S), S)
    BY <1>2
  <2>2. sum(S)[S] = SumStep(f, sum(S), S)
    <3> HIDE DEF sum
    <3> QED
      BY <2>1 DEF Sums
  <2> QED
    BY <1>1, <2>2
<1>4. \A T \in SUBSET S : sum(S)[T] = sum(T)[T]
  BY <1>2, SumsAgree
<1> QED
  BY <1>1, <1>3, <1>4 DEF SumStep

\* The sum over no element.
LEMMA SumEmpty ==
    \A f : SumFunctionOnSet(f, {}) = 0
  BY FS_EmptySet, SumUnfold

\* A sum of naturals is a natural.
LEMMA SumNat ==
    ASSUME NEW S, IsFiniteSet(S), NEW f, \A x \in S : f[x] \in Nat
    PROVE  SumFunctionOnSet(f, S) \in Nat
<1> DEFINE Good == {T \in SUBSET S : SumFunctionOnSet(f, T) \in Nat}
<1>1. ASSUME NEW T \in SUBSET S, \A U \in SUBSET T : U # T => U \in Good
      PROVE  T \in Good
  <2>1. CASE T = {}
    BY <2>1, SumEmpty
  <2>2. CASE T # {}
    <3> DEFINE x == CHOOSE x \in T : TRUE
    <3>1. x \in T
      BY <2>2
    <3>2. SumFunctionOnSet(f, T) = f[x] + SumFunctionOnSet(f, T \ {x})
      BY <2>2, SumUnfold, FS_Subset
    <3>3. T \ {x} \in SUBSET T /\ T \ {x} # T
      BY <3>1
    <3>4. SumFunctionOnSet(f, T \ {x}) \in Nat
      BY <1>1, <3>3
    <3>5. f[x] \in Nat
      BY <3>1
    <3> QED
      BY <3>2, <3>4, <3>5
  <2> QED
    BY <2>1, <2>2
<1>2. \A T \in SUBSET S : T \in Good
  <2> HIDE DEF Good
  <2> QED
    BY <1>1, SubsetInduction
<1> QED
  BY <1>2

\* The order in which a sum is taken does not matter: any element may be first.
LEMMA SumRemove ==
    ASSUME NEW S, IsFiniteSet(S), NEW f, \A x \in S : f[x] \in Nat, NEW a \in S
    PROVE  SumFunctionOnSet(f, S) = f[a] + SumFunctionOnSet(f, S \ {a})
<1> DEFINE sum(T) == SumFunctionOnSet(f, T)
           Good == {T \in SUBSET S : \A y \in T : sum(T) = f[y] + sum(T \ {y})}
<1>1. \A T \in SUBSET S : IsFiniteSet(T) /\ sum(T) \in Nat
  BY FS_Subset, SumNat
<1>2. ASSUME NEW T \in SUBSET S, \A U \in SUBSET T : U # T => U \in Good
      PROVE  T \in Good
  <2> SUFFICES ASSUME NEW y \in T PROVE sum(T) = f[y] + sum(T \ {y})
    OBVIOUS
  <2> DEFINE x == CHOOSE x \in T : TRUE
  <2>1. x \in T
    OBVIOUS
  <2>2. sum(T) = f[x] + sum(T \ {x})
    BY <1>1, SumUnfold
  <2>3. CASE y = x
    BY <2>2, <2>3
  <2>4. CASE y # x
    <3> DEFINE R == (T \ {x}) \ {y}
    <3>1. T \ {x} \in Good /\ T \ {y} \in Good
      BY <1>2, <2>1
    <3>2. sum(T \ {x}) = f[y] + sum(R)
      BY <2>1, <2>4, <3>1
    <3>3. x \in T \ {y} /\ (T \ {y}) \ {x} = R
      BY <2>1, <2>4
    <3>4. sum(T \ {y}) = f[x] + sum(R)
      BY <3>1, <3>3
    <3>5. sum(R) \in Nat /\ f[x] \in Nat /\ f[y] \in Nat
      BY <1>1, <2>1
    <3> HIDE DEF sum, R, x
    <3> QED
      BY <2>2, <3>2, <3>4, <3>5
  <2> QED
    BY <2>3, <2>4
<1>3. \A T \in SUBSET S : T \in Good
  <2> HIDE DEF Good
  <2> QED
    BY <1>2, SubsetInduction
<1>4. S \in Good
  BY <1>3
<1> QED
  BY <1>4

\* Values that agree have the same sum.
LEMMA SumSame ==
    ASSUME NEW S, IsFiniteSet(S), NEW f, NEW g, \A x \in S : f[x] = g[x]
    PROVE  SumFunctionOnSet(f, S) = SumFunctionOnSet(g, S)
<1> DEFINE Good == {T \in SUBSET S : SumFunctionOnSet(f, T) = SumFunctionOnSet(g, T)}
<1>1. ASSUME NEW T \in SUBSET S, \A U \in SUBSET T : U # T => U \in Good
      PROVE  T \in Good
  <2>1. CASE T = {}
    BY <2>1, SumEmpty
  <2>2. CASE T # {}
    <3> DEFINE x == CHOOSE x \in T : TRUE
    <3>1. x \in T
      BY <2>2
    <3>2. /\ SumFunctionOnSet(f, T) = f[x] + SumFunctionOnSet(f, T \ {x})
          /\ SumFunctionOnSet(g, T) = g[x] + SumFunctionOnSet(g, T \ {x})
      BY <2>2, SumUnfold, FS_Subset
    <3>3. T \ {x} \in SUBSET T /\ T \ {x} # T
      BY <3>1
    <3>4. T \ {x} \in Good /\ f[x] = g[x]
      BY <1>1, <3>1, <3>3
    <3> QED
      BY <3>2, <3>4
  <2> QED
    BY <2>1, <2>2
<1>2. \A T \in SUBSET S : T \in Good
  <2> HIDE DEF Good
  <2> QED
    BY <1>1, SubsetInduction
<1> QED
  BY <1>2

\* The sum of two sums.
LEMMA SumPlus ==
    ASSUME NEW S, IsFiniteSet(S), NEW f, NEW g, NEW h,
           \A x \in S : f[x] \in Nat /\ g[x] \in Nat /\ h[x] = f[x] + g[x]
    PROVE  SumFunctionOnSet(h, S) = SumFunctionOnSet(f, S) + SumFunctionOnSet(g, S)
<1> DEFINE Good == {T \in SUBSET S :
                SumFunctionOnSet(h, T) = SumFunctionOnSet(f, T) + SumFunctionOnSet(g, T)}
<1>1. ASSUME NEW T \in SUBSET S, \A U \in SUBSET T : U # T => U \in Good
      PROVE  T \in Good
  <2>1. CASE T = {}
    BY <2>1, SumEmpty
  <2>2. CASE T # {}
    <3>1. PICK x \in T : TRUE
      BY <2>2
    <3> DEFINE R == T \ {x}
    <3>2. IsFiniteSet(T) /\ IsFiniteSet(R)
      BY FS_Subset
    <3>3. /\ SumFunctionOnSet(f, T) = f[x] + SumFunctionOnSet(f, R)
          /\ SumFunctionOnSet(g, T) = g[x] + SumFunctionOnSet(g, R)
          /\ SumFunctionOnSet(h, T) = h[x] + SumFunctionOnSet(h, R)
      BY <3>1, <3>2, SumRemove
    <3>4. R \in Good
      BY <1>1, <3>1
    <3>5. SumFunctionOnSet(f, R) \in Nat /\ SumFunctionOnSet(g, R) \in Nat
      BY <3>2, SumNat
    <3>6. f[x] \in Nat /\ g[x] \in Nat /\ h[x] = f[x] + g[x]
      BY <3>1
    <3>7. SumFunctionOnSet(h, R) = SumFunctionOnSet(f, R) + SumFunctionOnSet(g, R)
      BY <3>4
    <3> QED
      BY <3>3, <3>5, <3>6, <3>7
  <2> QED
    BY <2>1, <2>2
<1>2. \A T \in SUBSET S : T \in Good
  <2> HIDE DEF Good
  <2> QED
    BY <1>1, SubsetInduction
<1> QED
  BY <1>2

\* The sum of zeros.
LEMMA SumZero ==
    ASSUME NEW S, IsFiniteSet(S), NEW f, \A x \in S : f[x] = 0
    PROVE  SumFunctionOnSet(f, S) = 0
<1>1. SumFunctionOnSet(f, S) = SumFunctionOnSet(f, S) + SumFunctionOnSet(f, S)
  BY SumPlus
<1>2. SumFunctionOnSet(f, S) \in Nat
  BY SumNat
<1>3. \A n \in Nat : n = n + n => n = 0
  OBVIOUS
<1> QED
  BY <1>1, <1>2, <1>3

\* The sum of values all but one of which are zero.
LEMMA SumOnly ==
    ASSUME NEW S, IsFiniteSet(S), NEW f, NEW a \in S, f[a] \in Nat,
           \A x \in S \ {a} : f[x] = 0
    PROVE  SumFunctionOnSet(f, S) = f[a]
<1>1. IsFiniteSet(S \ {a}) /\ \A x \in S : f[x] \in Nat
  BY FS_Subset
<1>2. SumFunctionOnSet(f, S \ {a}) = 0
  BY <1>1, SumZero
<1>3. SumFunctionOnSet(f, S) = f[a] + SumFunctionOnSet(f, S \ {a})
  BY <1>1, SumRemove
<1> QED
  BY <1>2, <1>3

\* The sum over one element more, of values that agree on the others.
LEMMA SumAdd ==
    ASSUME NEW S, IsFiniteSet(S), NEW a, a \notin S, NEW f, NEW g, g[a] \in Nat,
           \A x \in S : f[x] \in Nat /\ g[x] = f[x]
    PROVE  SumFunctionOnSet(g, S \cup {a}) = SumFunctionOnSet(f, S) + g[a]
<1> DEFINE R == S \cup {a}
<1>1. IsFiniteSet(R) /\ a \in R /\ R \ {a} = S /\ \A x \in R : g[x] \in Nat
  BY FS_AddElement
<1>2. SumFunctionOnSet(g, R) = g[a] + SumFunctionOnSet(g, R \ {a})
  <2> HIDE DEF R
  <2> QED
    BY <1>1, SumRemove
<1>3. SumFunctionOnSet(g, S) = SumFunctionOnSet(f, S) /\ SumFunctionOnSet(f, S) \in Nat
  BY SumSame, SumNat
<1> QED
  BY <1>1, <1>2, <1>3

\* The sum over one element less.
LEMMA SumDrop ==
    ASSUME NEW S, IsFiniteSet(S), NEW a \in S, NEW f, NEW g,
           \A x \in S : f[x] \in Nat, \A x \in S \ {a} : g[x] = f[x]
    PROVE  /\ SumFunctionOnSet(f, S) = SumFunctionOnSet(g, S \ {a}) + f[a]
           /\ SumFunctionOnSet(g, S \ {a}) \in Nat
<1>1. IsFiniteSet(S \ {a})
  BY FS_Subset
<1>2. SumFunctionOnSet(f, S) = f[a] + SumFunctionOnSet(f, S \ {a})
  BY SumRemove
<1>3. SumFunctionOnSet(g, S \ {a}) = SumFunctionOnSet(f, S \ {a})
  BY <1>1, SumSame
<1>4. SumFunctionOnSet(f, S \ {a}) \in Nat
  BY <1>1, SumNat
<1> QED
  BY <1>2, <1>3, <1>4

\* The sum when the value at one element changes.
LEMMA SumUpdate ==
    ASSUME NEW S, IsFiniteSet(S), NEW a \in S, NEW f, NEW g,
           \A x \in S : f[x] \in Nat /\ g[x] \in Nat, \A x \in S \ {a} : g[x] = f[x]
    PROVE  SumFunctionOnSet(g, S) + f[a] = SumFunctionOnSet(f, S) + g[a]
<1>1. /\ SumFunctionOnSet(f, S) = SumFunctionOnSet(g, S \ {a}) + f[a]
      /\ SumFunctionOnSet(g, S \ {a}) \in Nat
  BY SumDrop
<1>2. SumFunctionOnSet(g, S) = g[a] + SumFunctionOnSet(g, S \ {a})
  BY SumRemove
<1> QED
  BY <1>1, <1>2

=============================================================================
