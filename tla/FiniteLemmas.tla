---------------------------- MODULE FiniteLemmas ----------------------------
(***************************************************************************)
(* Induction over finite sets, in a form the provers can apply: the        *)
(* property is a set of sets, where the theorems of the library take an    *)
(* operator.  On it rest the facts about the sums of module Functions,     *)
(* whose definition by recursion has to be shown to be sound first.        *)
(***************************************************************************)
EXTENDS Integers, FiniteSets, FiniteSetsExt, Functions, FiniteSetTheorems,
        WellFoundedInduction, TLAPS

-----------------------------------------------------------------------------
(* Induction.                                                              *)

LEMMA LeastOfNaturals ==
  ASSUME NEW S \in SUBSET Nat, S # {}
  PROVE  \E x \in S : \A y \in S : x <= y
<1> DEFINE R == OpToRel(<, Nat)
<1>1. IsWellFoundedOn(R, Nat)
  BY NatLessThanWellFounded, Zenon
<1>2. \E x \in S : \A y \in S : ~ (<<y, x>> \in R)
  <2> HIDE DEF R
  <2> QED BY <1>1, WFMin, Zenon
<1>3. ASSUME NEW x \in S, NEW y \in S, ~ (<<y, x>> \in R) PROVE x <= y
  <2>1. <<y, x>> \in Nat \X Nat
    OBVIOUS
  <2> QED BY <1>3, <2>1 DEF OpToRel
<1> QED BY <1>2, <1>3

LEMMA GreatestOfInterval ==
  ASSUME NEW n \in Int, NEW S \in SUBSET (0 .. n), S # {}
  PROVE  \E x \in S : \A y \in S : y <= x
<1> DEFINE D == {k \in Nat : n - k \in S}
<1>1. D \in SUBSET Nat /\ D # {}
  <2>1. PICK s \in S : TRUE
    OBVIOUS
  <2>2. n - s \in D
    BY n - (n - s) = s
  <2> QED BY <2>2
<1>2. PICK d \in D : \A e \in D : d <= e
  <2> HIDE DEF D
  <2> QED BY <1>1, LeastOfNaturals
<1>3. PICK x \in S : x = n - d
  BY <1>2
<1>4. ASSUME NEW y \in S PROVE y <= x
  <2>1. n - y \in D
    BY n - (n - y) = y
  <2> QED BY <1>2, <1>3, <2>1
<1> QED BY <1>4

LEMMA NaturalInduction ==
  ASSUME NEW Good, 0 \in Good, \A n \in Nat : n \in Good => n + 1 \in Good
  PROVE  \A n \in Nat : n \in Good
<1> SUFFICES ASSUME Nat \ Good # {} PROVE FALSE
  OBVIOUS
<1>1. PICK n \in Nat \ Good : \A m \in Nat \ Good : n <= m
  BY LeastOfNaturals
<1>2. n # 0 /\ n - 1 \in Nat /\ ~(n <= n - 1) /\ (n - 1) + 1 = n
  OBVIOUS
<1> QED BY <1>1, <1>2

(* What holds of a set if it holds of all smaller ones, holds of S.        *)
LEMMA SubsetInduction ==
  ASSUME NEW S, IsFiniteSet(S), NEW Good,
         \A T \in SUBSET S : (\A U \in SUBSET T : U # T => U \in Good) => T \in Good
  PROVE  \A T \in SUBSET S : T \in Good
<1> DEFINE Bad   == {T \in SUBSET S : T \notin Good}
           Sizes == {Cardinality(T) : T \in Bad}
<1> SUFFICES ASSUME Bad # {} PROVE FALSE
  OBVIOUS
<1>1. \A T \in Bad : IsFiniteSet(T) /\ Cardinality(T) \in Nat
  BY FS_Subset, FS_CardinalityType
<1>2. Sizes \in SUBSET Nat /\ Sizes # {}
  BY <1>1
<1>3. PICK n \in Sizes : \A m \in Sizes : n <= m
  <2> HIDE DEF Sizes
  <2> QED BY <1>2, LeastOfNaturals
<1>4. PICK T \in Bad : Cardinality(T) = n
  BY <1>3
<1>5. ASSUME NEW U \in SUBSET T, U # T PROVE U \in Good
  <2>1. Cardinality(U) <= Cardinality(T) /\ Cardinality(U) # Cardinality(T)
    BY <1>1, <1>4, <1>5, FS_Subset
  <2>2. U \in Bad => n <= Cardinality(U)
    BY <1>3
  <2>3. U \in Bad => Cardinality(U) \in Nat
    BY <1>1
  <2> QED BY <1>1, <1>4, <2>1, <2>2, <2>3
<1> QED BY <1>4, <1>5

(* What holds of {} and goes on to hold as elements join, holds of S.      *)
LEMMA FiniteInduction ==
  ASSUME NEW S, IsFiniteSet(S), NEW Good, {} \in Good,
         \A T \in SUBSET S : \A x \in S \ T : T \in Good => T \cup {x} \in Good
  PROVE  S \in Good
<1>1. ASSUME NEW T \in SUBSET S, \A U \in SUBSET T : U # T => U \in Good
      PROVE  T \in Good
  <2>1. CASE T = {}
    BY <2>1
  <2>2. CASE T # {}
    <3>1. PICK x \in T : TRUE
      BY <2>2
    <3>2. T \ {x} \in Good
      BY <1>1
    <3>3. T = (T \ {x}) \cup {x} /\ x \in S \ (T \ {x}) /\ T \ {x} \in SUBSET S
      OBVIOUS
    <3> QED BY <3>2, <3>3
  <2> QED BY <2>1, <2>2
<1>2. \A T \in SUBSET S : T \in Good
  BY <1>1, SubsetInduction
<1> QED BY <1>2

-----------------------------------------------------------------------------
(* The recursion of MapThenFoldSet has a solution, and only one.           *)

Some(s) == CHOOSE x \in s : TRUE

SumsUp(g, f, S) ==
    g = [s \in SUBSET S |-> IF s = {} THEN 0 ELSE f[Some(s)] + g[s \ {Some(s)}]]

LEMMA SomeIsIn == \A s : s # {} => Some(s) \in s
BY DEF Some

LEMMA SumExists ==
  ASSUME NEW S, IsFiniteSet(S), NEW f
  PROVE  \E g : SumsUp(g, f, S)
<1> DEFINE UpTo(n) == {s \in SUBSET S : Cardinality(s) <= n}
           Solves(g, n) == g = [s \in UpTo(n) |->
                                   IF s = {} THEN 0 ELSE f[Some(s)] + g[s \ {Some(s)}]]
           Good == {n \in Nat : \E g : Solves(g, n)}
<1>1. ASSUME NEW s \in SUBSET S
      PROVE  IsFiniteSet(s) /\ Cardinality(s) \in Nat /\ (Cardinality(s) = 0 <=> s = {})
  BY FS_Subset, FS_CardinalityType, FS_EmptySet
<1>2. 0 \in Good
  <2> DEFINE g == [s \in UpTo(0) |-> 0]
  <2>1. ASSUME NEW s \in UpTo(0) PROVE s = {}
    <3>1. s \in SUBSET S /\ Cardinality(s) <= 0
      OBVIOUS
    <3>2. Cardinality(s) \in Nat /\ (Cardinality(s) = 0 <=> s = {})
      BY <1>1, <3>1
    <3> QED BY <3>1, <3>2
  <2>2. Solves(g, 0)
    BY <2>1
  <2> QED BY <2>2
<1>3. ASSUME NEW n \in Nat, n \in Good PROVE n + 1 \in Good
  <2>1. PICK g : Solves(g, n)
    BY <1>3
  <2> DEFINE h == [s \in UpTo(n + 1) |->
                      IF s = {} THEN 0 ELSE f[Some(s)] + g[s \ {Some(s)}]]
  <2>2. ASSUME NEW s \in UpTo(n + 1), s # {} PROVE h[s \ {Some(s)}] = g[s \ {Some(s)}]
    <3> DEFINE t == s \ {Some(s)}
    <3>1. s \in SUBSET S /\ Cardinality(s) <= n + 1
      OBVIOUS
    <3>2. IsFiniteSet(s) /\ Cardinality(s) \in Nat /\ Some(s) \in s
      BY <1>1, <2>2, <3>1, SomeIsIn
    <3>3. Cardinality(t) = Cardinality(s) - 1 /\ t \in SUBSET S
      BY <3>1, <3>2, FS_RemoveElement
    <3>4. t \in UpTo(n) /\ t \in UpTo(n + 1)
      BY <3>1, <3>2, <3>3
    <3> QED BY <2>1, <3>4
  <2>3. Solves(h, n + 1)
    BY <2>2
  <2>4. \E k : Solves(k, n + 1)
    <3> HIDE DEF Solves, h
    <3> QED BY <2>3
  <2> HIDE DEF Solves
  <2> QED BY <2>4
<1>4. \A n \in Nat : n \in Good
  <2> HIDE DEF Good
  <2> QED BY <1>2, <1>3, NaturalInduction DEF Good
<1>5. PICK g : Solves(g, Cardinality(S))
  <2>1. Cardinality(S) \in Good
    BY <1>4, FS_CardinalityType
  <2> QED BY <2>1
<1>6. UpTo(Cardinality(S)) = SUBSET S
  BY FS_Subset
<1>7. SumsUp(g, f, S)
  BY <1>5, <1>6 DEF SumsUp
<1> QED BY <1>7

LEMMA SumUnique ==
  ASSUME NEW S, IsFiniteSet(S), NEW T \in SUBSET S, NEW f, NEW g, NEW h,
         SumsUp(g, f, S), SumsUp(h, f, T)
  PROVE  \A s \in SUBSET T : g[s] = h[s]
<1> DEFINE Good == {s \in SUBSET T : g[s] = h[s]}
<1>1. IsFiniteSet(T)
  BY FS_Subset
<1>2. ASSUME NEW s \in SUBSET T, \A U \in SUBSET s : U # s => U \in Good PROVE s \in Good
  <2>1. CASE s = {}
    BY <2>1 DEF SumsUp
  <2>2. CASE s # {}
    <3>1. s \ {Some(s)} \in Good
      BY <1>2, <2>2, SomeIsIn
    <3>2. /\ g[s] = f[Some(s)] + g[s \ {Some(s)}]
          /\ h[s] = f[Some(s)] + h[s \ {Some(s)}]
      BY <2>2 DEF SumsUp
    <3> QED BY <3>1, <3>2
  <2> QED BY <2>1, <2>2
<1>3. \A s \in SUBSET T : s \in Good
  <2> HIDE DEF Good
  <2> QED BY <1>1, <1>2, SubsetInduction
<1> QED BY <1>3

-----------------------------------------------------------------------------
(* Sums.                                                                   *)

LEMMA SumIsSolution ==
  ASSUME NEW S, IsFiniteSet(S), NEW f
  PROVE  \E g : SumsUp(g, f, S) /\ SumFunctionOnSet(f, S) = g[S]
<1>1. SumFunctionOnSet(f, S) = (CHOOSE g : SumsUp(g, f, S))[S]
  BY DEF SumFunctionOnSet, FoldFunctionOnSet, MapThenFoldSet, SumsUp, Some
<1>2. SumsUp(CHOOSE g : SumsUp(g, f, S), f, S)
  BY SumExists, Zenon
<1> QED BY <1>1, <1>2

LEMMA SumSolved ==
  ASSUME NEW S, IsFiniteSet(S), NEW f, NEW g, SumsUp(g, f, S)
  PROVE  SumFunctionOnSet(f, S) = g[S]
<1>1. PICK h : SumsUp(h, f, S) /\ SumFunctionOnSet(f, S) = h[S]
  BY SumIsSolution
<1>2. h[S] = g[S]
  BY <1>1, SumUnique
<1> QED BY <1>1, <1>2

LEMMA SumOfNone == ASSUME NEW f PROVE SumFunctionOnSet(f, {}) = 0
<1>1. PICK g : SumsUp(g, f, {}) /\ SumFunctionOnSet(f, {}) = g[{}]
  BY SumIsSolution, FS_EmptySet
<1> QED BY <1>1 DEF SumsUp

LEMMA SumTakesAny ==
  ASSUME NEW S, IsFiniteSet(S), S # {}, NEW f
  PROVE  SumFunctionOnSet(f, S) = f[Some(S)] + SumFunctionOnSet(f, S \ {Some(S)})
<1> DEFINE T == S \ {Some(S)}
<1>1. IsFiniteSet(T) /\ T \in SUBSET S
  BY FS_Subset
<1>2. PICK g : SumsUp(g, f, S) /\ SumFunctionOnSet(f, S) = g[S]
  BY SumIsSolution
<1>3. PICK h : SumsUp(h, f, T) /\ SumFunctionOnSet(f, T) = h[T]
  <2> HIDE DEF T
  <2> QED BY <1>1, SumIsSolution
<1>4. g[T] = h[T]
  <2> HIDE DEF T
  <2> QED BY <1>1, <1>2, <1>3, SumUnique
<1>5. g[S] = f[Some(S)] + g[T]
  BY <1>2 DEF SumsUp
<1> QED BY <1>2, <1>3, <1>4, <1>5

LEMMA SumInt ==
  ASSUME NEW S, IsFiniteSet(S), NEW f, \A x \in S : f[x] \in Int
  PROVE  SumFunctionOnSet(f, S) \in Int
<1> DEFINE Good == {T \in SUBSET S : SumFunctionOnSet(f, T) \in Int}
<1>1. ASSUME NEW T \in SUBSET S, \A U \in SUBSET T : U # T => U \in Good PROVE T \in Good
  <2>1. CASE T = {}
    BY <2>1, SumOfNone
  <2>2. CASE T # {}
    <3>1. IsFiniteSet(T) /\ Some(T) \in T
      BY <2>2, SomeIsIn, FS_Subset
    <3>2. T \ {Some(T)} \in Good
      BY <1>1, <3>1
    <3>3. SumFunctionOnSet(f, T) = f[Some(T)] + SumFunctionOnSet(f, T \ {Some(T)})
      BY <2>2, <3>1, SumTakesAny
    <3> QED BY <3>1, <3>2, <3>3
  <2> QED BY <2>1, <2>2
<1>2. S \in Good
  <2> HIDE DEF Good
  <2> QED BY <1>1, SubsetInduction
<1> QED BY <1>2

(* Any element may be taken out.                                           *)
LEMMA SumTakes ==
  ASSUME NEW S, IsFiniteSet(S), NEW f, \A y \in S : f[y] \in Int, NEW x \in S
  PROVE  SumFunctionOnSet(f, S) = f[x] + SumFunctionOnSet(f, S \ {x})
<1> DEFINE Sum(T) == SumFunctionOnSet(f, T)
           Good == {T \in SUBSET S : \A z \in T : Sum(T) = f[z] + Sum(T \ {z})}
<1>1. ASSUME NEW T \in SUBSET S, \A U \in SUBSET T : U # T => U \in Good PROVE T \in Good
  <2> SUFFICES ASSUME NEW z \in T PROVE Sum(T) = f[z] + Sum(T \ {z})
    OBVIOUS
  <2> DEFINE y == Some(T)
  <2>1. IsFiniteSet(T) /\ y \in T
    BY SomeIsIn, FS_Subset
  <2>2. Sum(T) = f[y] + Sum(T \ {y})
    BY <2>1, SumTakesAny
  <2>3. CASE z = y
    <3> HIDE DEF Sum, y
    <3> QED BY <2>2, <2>3
  <2>4. CASE z # y
    <3>1. T \ {y} \in Good /\ T \ {z} \in Good
      BY <1>1, <2>1
    <3>2. /\ Sum(T \ {y}) = f[z] + Sum((T \ {y}) \ {z})
          /\ Sum(T \ {z}) = f[y] + Sum((T \ {z}) \ {y})
      BY <2>1, <2>4, <3>1
    <3>3. (T \ {y}) \ {z} = (T \ {z}) \ {y}
      OBVIOUS
    <3>4. IsFiniteSet((T \ {y}) \ {z}) /\ (T \ {y}) \ {z} \in SUBSET S
      BY <2>1, FS_Subset
    <3>5. Sum((T \ {y}) \ {z}) \in Int
      BY <3>4, SumInt
    <3>6. f[y] \in Int /\ f[z] \in Int
      BY <2>1
    <3> DEFINE both == Sum((T \ {y}) \ {z})
    <3>7. Sum(T \ {y}) = f[z] + both /\ Sum(T \ {z}) = f[y] + both
      BY <3>2, <3>3
    <3>8. Sum(T) = f[y] + (f[z] + both)
      BY <2>2, <3>7
    <3>9. f[y] + (f[z] + both) = f[z] + (f[y] + both)
      <4> HIDE DEF both, y
      <4> QED BY <3>5, <3>6 DEF both
    <3> HIDE DEF both, Sum, y
    <3> QED BY <3>7, <3>8, <3>9
  <2> QED BY <2>3, <2>4
<1>2. S \in Good
  <2> HIDE DEF Good
  <2> QED BY <1>1, SubsetInduction
<1> QED BY <1>2

LEMMA SumJoins ==
  ASSUME NEW T, IsFiniteSet(T), NEW x, x \notin T, NEW f, \A y \in T \cup {x} : f[y] \in Int
  PROVE  /\ SumFunctionOnSet(f, T \cup {x}) = f[x] + SumFunctionOnSet(f, T)
         /\ SumFunctionOnSet(f, T) \in Int
<1> DEFINE S == T \cup {x}
<1>1. IsFiniteSet(S) /\ S \ {x} = T /\ x \in S
  BY FS_AddElement
<1>2. \A y \in S : f[y] \in Int
  OBVIOUS
<1>3. SumFunctionOnSet(f, T) \in Int
  BY SumInt
<1>4. SumFunctionOnSet(f, S) = f[x] + SumFunctionOnSet(f, S \ {x})
  <2> HIDE DEF S
  <2> QED BY <1>1, <1>2, SumTakes
<1> QED BY <1>1, <1>3, <1>4

LEMMA SumSame ==
  ASSUME NEW S, IsFiniteSet(S), NEW f, NEW g,
         \A x \in S : f[x] \in Int /\ f[x] = g[x]
  PROVE  SumFunctionOnSet(f, S) = SumFunctionOnSet(g, S)
<1> DEFINE Good == {T \in SUBSET S : SumFunctionOnSet(f, T) = SumFunctionOnSet(g, T)}
<1>1. \A y \in S : f[y] \in Int /\ g[y] \in Int
  OBVIOUS
<1>2. {} \in Good
  BY SumOfNone
<1>3. ASSUME NEW T \in SUBSET S, NEW x \in S \ T, T \in Good PROVE T \cup {x} \in Good
  <2>1. IsFiniteSet(T)
    BY FS_Subset
  <2>2. /\ SumFunctionOnSet(f, T \cup {x}) = f[x] + SumFunctionOnSet(f, T)
        /\ SumFunctionOnSet(g, T \cup {x}) = g[x] + SumFunctionOnSet(g, T)
    BY <1>1, <2>1, SumJoins
  <2>3. SumFunctionOnSet(f, T) \in Int /\ SumFunctionOnSet(g, T) \in Int
    BY <1>1, <2>1, SumJoins
  <2> QED BY <1>3, <2>2
<1>4. S \in Good
  <2> HIDE DEF Good
  <2> QED BY <1>2, <1>3, FiniteInduction
<1> QED BY <1>4

LEMMA SumMonotone ==
  ASSUME NEW S, IsFiniteSet(S), NEW f, NEW g,
         \A x \in S : f[x] \in Int /\ g[x] \in Int /\ f[x] <= g[x]
  PROVE  SumFunctionOnSet(f, S) <= SumFunctionOnSet(g, S)
<1> DEFINE Good == {T \in SUBSET S : SumFunctionOnSet(f, T) <= SumFunctionOnSet(g, T)}
<1>1. \A y \in S : f[y] \in Int /\ g[y] \in Int
  OBVIOUS
<1>2. {} \in Good
  BY SumOfNone
<1>3. ASSUME NEW T \in SUBSET S, NEW x \in S \ T, T \in Good PROVE T \cup {x} \in Good
  <2>1. IsFiniteSet(T)
    BY FS_Subset
  <2>2. /\ SumFunctionOnSet(f, T \cup {x}) = f[x] + SumFunctionOnSet(f, T)
        /\ SumFunctionOnSet(g, T \cup {x}) = g[x] + SumFunctionOnSet(g, T)
    BY <1>1, <2>1, SumJoins
  <2>3. SumFunctionOnSet(f, T) \in Int /\ SumFunctionOnSet(g, T) \in Int
    BY <1>1, <2>1, SumJoins
  <2>4. f[x] \in Int /\ g[x] \in Int /\ f[x] <= g[x]
    OBVIOUS
  <2> QED BY <1>3, <2>2, <2>3, <2>4
<1>4. S \in Good
  <2> HIDE DEF Good
  <2> QED BY <1>2, <1>3, FiniteInduction
<1> QED BY <1>4

LEMMA SumPlus ==
  ASSUME NEW S, IsFiniteSet(S), NEW f, NEW g, NEW h,
         \A x \in S : f[x] \in Int /\ g[x] \in Int /\ h[x] = f[x] + g[x]
  PROVE  SumFunctionOnSet(h, S) = SumFunctionOnSet(f, S) + SumFunctionOnSet(g, S)
<1> DEFINE Good == {T \in SUBSET S : SumFunctionOnSet(h, T) =
                                     SumFunctionOnSet(f, T) + SumFunctionOnSet(g, T)}
<1>1. \A y \in S : f[y] \in Int /\ g[y] \in Int /\ h[y] \in Int
  OBVIOUS
<1>2. {} \in Good
  BY SumOfNone
<1>3. ASSUME NEW T \in SUBSET S, NEW x \in S \ T, T \in Good PROVE T \cup {x} \in Good
  <2>1. IsFiniteSet(T)
    BY FS_Subset
  <2>2. /\ SumFunctionOnSet(f, T \cup {x}) = f[x] + SumFunctionOnSet(f, T)
        /\ SumFunctionOnSet(g, T \cup {x}) = g[x] + SumFunctionOnSet(g, T)
        /\ SumFunctionOnSet(h, T \cup {x}) = h[x] + SumFunctionOnSet(h, T)
    BY <1>1, <2>1, SumJoins
  <2>3. SumFunctionOnSet(f, T) \in Int /\ SumFunctionOnSet(g, T) \in Int /\ SumFunctionOnSet(h, T) \in Int
    BY <1>1, <2>1, SumJoins
  <2>4. f[x] \in Int /\ g[x] \in Int /\ h[x] = f[x] + g[x]
    OBVIOUS
  <2> QED BY <1>3, <2>2, <2>3, <2>4
<1>4. S \in Good
  <2> HIDE DEF Good
  <2> QED BY <1>2, <1>3, FiniteInduction
<1> QED BY <1>4

LEMMA SumConstant ==
  ASSUME NEW S, IsFiniteSet(S), NEW f, NEW c \in Int, \A x \in S : f[x] = c
  PROVE  SumFunctionOnSet(f, S) = c * Cardinality(S)
<1> DEFINE Good == {T \in SUBSET S : SumFunctionOnSet(f, T) = c * Cardinality(T)}
<1>1. \A y \in S : f[y] \in Int
  OBVIOUS
<1>2. {} \in Good
  BY SumOfNone, FS_EmptySet
<1>3. ASSUME NEW T \in SUBSET S, NEW x \in S \ T, T \in Good PROVE T \cup {x} \in Good
  <2>1. IsFiniteSet(T)
    BY FS_Subset
  <2>2. SumFunctionOnSet(f, T \cup {x}) = f[x] + SumFunctionOnSet(f, T)
    BY <1>1, <2>1, SumJoins
  <2>3. SumFunctionOnSet(f, T) \in Int
    BY <1>1, <2>1, SumJoins
  <2>4. Cardinality(T \cup {x}) = Cardinality(T) + 1 /\ Cardinality(T) \in Nat
    BY <2>1, FS_AddElement, FS_CardinalityType
  <2>5. SumFunctionOnSet(f, T) = c * Cardinality(T) /\ f[x] = c
    BY <1>3
  <2>6. c + c * Cardinality(T) = c * (Cardinality(T) + 1)
    BY <2>4
  <2> QED BY <2>2, <2>4, <2>5, <2>6
<1>4. S \in Good
  <2> HIDE DEF Good
  <2> QED BY <1>2, <1>3, FiniteInduction
<1> QED BY <1>4

LEMMA SumNat ==
  ASSUME NEW S, IsFiniteSet(S), NEW f, \A x \in S : f[x] \in Nat
  PROVE  SumFunctionOnSet(f, S) \in Nat
<1> DEFINE Good == {T \in SUBSET S : SumFunctionOnSet(f, T) \in Nat}
<1>1. \A y \in S : f[y] \in Int
  OBVIOUS
<1>2. {} \in Good
  BY SumOfNone
<1>3. ASSUME NEW T \in SUBSET S, NEW x \in S \ T, T \in Good PROVE T \cup {x} \in Good
  <2>1. IsFiniteSet(T)
    BY FS_Subset
  <2>2. SumFunctionOnSet(f, T \cup {x}) = f[x] + SumFunctionOnSet(f, T)
    BY <1>1, <2>1, SumJoins
  <2>3. SumFunctionOnSet(f, T) \in Int
    BY <1>1, <2>1, SumJoins
  <2>4. f[x] \in Nat /\ SumFunctionOnSet(f, T) \in Nat
    BY <1>3
  <2> QED BY <2>2, <2>4
<1>4. S \in Good
  <2> HIDE DEF Good
  <2> QED BY <1>2, <1>3, FiniteInduction
<1> QED BY <1>4

LEMMA SumOfDisjoint ==
  ASSUME NEW S, IsFiniteSet(S), NEW U, IsFiniteSet(U), S \cap U = {},
         NEW f, \A x \in S \cup U : f[x] \in Int
  PROVE  SumFunctionOnSet(f, S \cup U) = SumFunctionOnSet(f, S) + SumFunctionOnSet(f, U)
<1> DEFINE Sum(V) == SumFunctionOnSet(f, V)
           Good == {T \in SUBSET S : Sum(T \cup U) = Sum(T) + Sum(U)}
<1>1. Sum(U) \in Int /\ {} \cup U = U
  BY SumInt
<1>2. {} \in Good
  <2>1. Sum({}) = 0
    BY SumOfNone
  <2> HIDE DEF Sum
  <2> QED BY <1>1, <2>1
<1>3. ASSUME NEW T \in SUBSET S, NEW x \in S \ T, T \in Good PROVE T \cup {x} \in Good
  <2>1. IsFiniteSet(T) /\ IsFiniteSet(T \cup U) /\ x \notin T \cup U
    BY FS_Subset, FS_Union
  <2>2. Sum(T \cup {x}) = f[x] + Sum(T) /\ Sum(T) \in Int
    BY <2>1, SumJoins
  <2>3. Sum((T \cup U) \cup {x}) = f[x] + Sum(T \cup U)
    <3>1. \A y \in (T \cup U) \cup {x} : f[y] \in Int
      OBVIOUS
    <3> DEFINE W == T \cup U
    <3>2. IsFiniteSet(W) /\ x \notin W /\ \A y \in W \cup {x} : f[y] \in Int
      BY <2>1, <3>1
    <3>3. SumFunctionOnSet(f, W \cup {x}) = f[x] + SumFunctionOnSet(f, W)
      <4> HIDE DEF W
      <4> QED BY <3>2, SumJoins
    <3> QED BY <3>3
  <2>4. (T \cup U) \cup {x} = (T \cup {x}) \cup U /\ f[x] \in Int
    OBVIOUS
  <2>5. Sum(T \cup U) = Sum(T) + Sum(U)
    BY <1>3
  <2>6. f[x] + (Sum(T) + Sum(U)) = (f[x] + Sum(T)) + Sum(U)
    <3> HIDE DEF Sum
    <3> QED BY <1>1, <2>2, <2>4
  <2> HIDE DEF Sum
  <2> QED BY <2>2, <2>3, <2>4, <2>5, <2>6
<1>4. S \in Good
  <2> HIDE DEF Good
  <2> QED BY <1>2, <1>3, FiniteInduction
<1> QED BY <1>4

(* c more at each element of U.                                            *)
LEMMA SumShift ==
  ASSUME NEW S, IsFiniteSet(S), NEW U \in SUBSET S, NEW c \in Int,
         NEW f, NEW g, \A x \in S : f[x] \in Int,
         \A x \in S : g[x] = IF x \in U THEN f[x] + c ELSE f[x]
  PROVE  SumFunctionOnSet(g, S) = SumFunctionOnSet(f, S) + c * Cardinality(U)
<1> DEFINE V == S \ U
           k == [x \in S |-> c]
<1>1. /\ IsFiniteSet(U) /\ IsFiniteSet(V) /\ U \cup V = S /\ U \cap V = {}
      /\ \A x \in U : f[x] \in Int /\ g[x] \in Int /\ k[x] \in Int /\ g[x] = f[x] + k[x] /\ k[x] = c
      /\ \A x \in V : f[x] \in Int /\ g[x] \in Int /\ g[x] = f[x]
      /\ \A x \in U \cup V : f[x] \in Int /\ g[x] \in Int
  BY FS_Subset
<1> HIDE DEF V, k
<1>2. SumFunctionOnSet(g, U) = SumFunctionOnSet(f, U) + SumFunctionOnSet(k, U)
  BY <1>1, SumPlus
<1>3. SumFunctionOnSet(k, U) = c * Cardinality(U)
  BY <1>1, SumConstant
<1>4. SumFunctionOnSet(g, V) = SumFunctionOnSet(f, V)
  BY <1>1, SumSame
<1>5. /\ SumFunctionOnSet(f, S) = SumFunctionOnSet(f, U) + SumFunctionOnSet(f, V)
      /\ SumFunctionOnSet(g, S) = SumFunctionOnSet(g, U) + SumFunctionOnSet(g, V)
  BY <1>1, SumOfDisjoint
<1>6. /\ SumFunctionOnSet(f, U) \in Int /\ SumFunctionOnSet(f, V) \in Int
      /\ SumFunctionOnSet(k, U) \in Int
  BY <1>1, SumInt
<1> QED BY <1>2, <1>3, <1>4, <1>5, <1>6

(* A sum may be taken group by group.                                      *)
GroupOf(S, own, k) == {x \in S : own[x] = k}

LEMMA SumOfGroups ==
  ASSUME NEW S, IsFiniteSet(S), NEW K, IsFiniteSet(K), NEW own \in [S -> K],
         NEW f, \A x \in S : f[x] \in Int,
         NEW h, \A k \in K : h[k] = SumFunctionOnSet(f, GroupOf(S, own, k))
  PROVE  SumFunctionOnSet(h, K) = SumFunctionOnSet(f, S)
<1> DEFINE Of(L) == {x \in S : own[x] \in L}
           Group(k) == GroupOf(S, own, k)
           Good == {L \in SUBSET K : SumFunctionOnSet(h, L) = SumFunctionOnSet(f, Of(L))}
<1>1. ASSUME NEW k \in K PROVE h[k] \in Int /\ h[k] = SumFunctionOnSet(f, Group(k))
  <2>1. IsFiniteSet(Group(k)) /\ \A x \in Group(k) : f[x] \in Int
    BY FS_Subset DEF GroupOf
  <2>2. SumFunctionOnSet(f, Group(k)) \in Int
    <3> HIDE DEF Group
    <3> QED BY <2>1, SumInt
  <2> QED BY <2>2
<1>2. {} \in Good
  <2>1. Of({}) = {}
    OBVIOUS
  <2> QED BY <2>1, SumOfNone
<1>3. ASSUME NEW L \in SUBSET K, NEW k \in K \ L, L \in Good PROVE L \cup {k} \in Good
  <2>1. IsFiniteSet(L)
    BY FS_Subset
  <2>2. SumFunctionOnSet(h, L \cup {k}) = h[k] + SumFunctionOnSet(h, L)
    BY <1>1, <2>1, SumJoins
  <2>3. /\ Of(L \cup {k}) = Group(k) \cup Of(L) /\ Group(k) \cap Of(L) = {}
        /\ IsFiniteSet(Group(k)) /\ IsFiniteSet(Of(L))
        /\ \A x \in Group(k) \cup Of(L) : f[x] \in Int
    BY FS_Subset DEF GroupOf
  <2>4. SumFunctionOnSet(f, Group(k) \cup Of(L)) =
            SumFunctionOnSet(f, Group(k)) + SumFunctionOnSet(f, Of(L))
    <3> HIDE DEF Group, Of
    <3> QED BY <2>3, SumOfDisjoint
  <2> HIDE DEF Group, Of
  <2> QED BY <1>1, <1>3, <2>2, <2>3, <2>4
<1>4. K \in Good
  <2> HIDE DEF Good
  <2> QED BY <1>2, <1>3, FiniteInduction
<1>5. Of(K) = S
  OBVIOUS
<1> QED BY <1>4, <1>5

-----------------------------------------------------------------------------
(* Quotients, remainders and cardinalities.                                 *)

LEMMA QuotientBelow ==
  ASSUME NEW k \in Nat \ {0}, NEW n \in Nat, NEW x \in 0 .. n * k - 1
  PROVE  x \div k \in 0 .. n - 1
<1> DEFINE q == x \div k
           m == x % k
<1>1. /\ q \in Int
      /\ m \in 0 .. k - 1
      /\ x = k * q + m
  OBVIOUS
<1>2. q >= 0
  <2> SUFFICES ASSUME q <= -1 PROVE FALSE
    BY <1>1
  <2>1. k * q <= -k
    BY <1>1
  <2> QED BY <1>1, <2>1
<1>3. q <= n - 1
  <2> SUFFICES ASSUME q >= n PROVE FALSE
    BY <1>1
  <2>1. k * q >= n * k
    BY <1>1
  <2> QED BY <1>1, <2>1
<1> QED BY <1>1, <1>2, <1>3

(* Remainders of numbers less than QUEUE_SIZE apart differ.                *)
LEMMA RemaindersDiffer ==
  ASSUME NEW Q \in Nat \ {0}, NEW x \in Int, NEW y \in Int, x < y, y - x < Q
  PROVE  x % Q # y % Q
<1> DEFINE a == x \div Q
           b == y \div Q
<1>1. /\ a \in Int /\ b \in Int
      /\ x = Q * a + (x % Q) /\ y = Q * b + (y % Q)
      /\ x % Q \in Int /\ y % Q \in Int
  OBVIOUS
<1> SUFFICES ASSUME x % Q = y % Q PROVE FALSE
  OBVIOUS
<1> HIDE DEF a, b
<1>2. y - x = Q * (b - a)
  BY <1>1
<1>3. b - a >= 1
  <2> SUFFICES ASSUME b - a <= 0 PROVE FALSE
    BY <1>1
  <2>1. Q * (b - a) <= 0
    BY <1>1
  <2> QED BY <1>2, <2>1
<1>4. Q * (b - a) >= Q
  BY <1>1, <1>3
<1> QED BY <1>2, <1>4

LEMMA RemainderUnique ==
  ASSUME NEW Q \in Nat \ {0}, NEW a \in Int, NEW b \in Int,
         NEW u \in 0 .. Q - 1, NEW v \in 0 .. Q - 1, Q * a + u = Q * b + v
  PROVE  u = v
<1>1. Q * (a - b) = Q * a - Q * b
  OBVIOUS
<1>2. v - u = Q * (a - b)
  BY <1>1
<1>3. a - b = 0
  <2>1. ASSUME a - b >= 1 PROVE FALSE
    <3>1. Q * (a - b) >= Q
      BY <2>1
    <3> QED BY <1>2, <3>1
  <2>2. ASSUME a - b <= -1 PROVE FALSE
    <3>1. Q * (a - b) <= -Q
      BY <2>2
    <3> QED BY <1>2, <3>1
  <2> QED BY <2>1, <2>2
<1> QED BY <1>2, <1>3

LEMMA RemainderOfShift ==
  ASSUME NEW Q \in Nat \ {0}, NEW x \in Int, NEW i \in Int
  PROVE  ((x % Q) + i) % Q = (x + i) % Q
<1> DEFINE y == (x % Q) + i
           z == x + i
           k == x \div Q
           a == y \div Q
           b == z \div Q
           u == y % Q
           v == z % Q
<1>1. /\ k \in Int /\ x = Q * k + (x % Q) /\ x % Q \in Int
      /\ y \in Int /\ z \in Int
  OBVIOUS
<1>2. z = y + Q * k
  BY <1>1
<1> HIDE DEF y, z, k
<1>3. /\ a \in Int /\ b \in Int
      /\ u \in 0 .. Q - 1 /\ v \in 0 .. Q - 1
      /\ y = Q * a + u /\ z = Q * b + v
  BY <1>1
<1> HIDE DEF a, b, u, v
<1>4. Q * (a + k) = Q * a + Q * k
  BY <1>1, <1>3
<1>5. Q * (a + k) + u = Q * b + v
  BY <1>1, <1>2, <1>3, <1>4
<1>6. a + k \in Int
  BY <1>1, <1>3
<1>7. u = v
  BY <1>3, <1>5, <1>6, RemainderUnique
<1> QED BY <1>7 DEF u, v, y, z

LEMMA CardinalityWithout ==
  ASSUME NEW S, IsFiniteSet(S), NEW T \in SUBSET S
  PROVE  Cardinality(S \ T) = Cardinality(S) - Cardinality(T)
<1>1. S \cap T = T
  OBVIOUS
<1>2. Cardinality(S \ T) = Cardinality(S) - Cardinality(S \cap T)
  BY FS_Difference
<1> QED BY <1>1, <1>2

LEMMA CardinalityOfDisjoint ==
  ASSUME NEW S, IsFiniteSet(S), NEW T, IsFiniteSet(T), S \cap T = {}
  PROVE  Cardinality(S \cup T) = Cardinality(S) + Cardinality(T)
<1>1. Cardinality(S \cup T) = Cardinality(S) + Cardinality(T) - Cardinality(S \cap T)
  BY FS_Union
<1>2. Cardinality(S \cap T) = 0
  BY FS_EmptySet
<1> QED BY <1>1, <1>2, FS_CardinalityType

-----------------------------------------------------------------------------
(* The place of an element in the order of a set.                          *)

Below(S, p) == {q \in S : q < p}

LEMMA BelowNext ==
  ASSUME NEW S \in SUBSET Nat, IsFiniteSet(S), NEW p \in S, NEW q \in S, p < q,
         \A x \in S : p < x => q <= x
  PROVE  Cardinality(Below(S, q)) = Cardinality(Below(S, p)) + 1
<1>1. Below(S, q) = Below(S, p) \cup {p} /\ p \notin Below(S, p)
  <2>1. \A x \in S : x \in Int
    OBVIOUS
  <2>2. ~(p < p) /\ \A x \in S : x < q <=> x < p \/ x = p
    BY <2>1
  <2> QED BY <2>2 DEF Below
<1>2. IsFiniteSet(Below(S, p))
  BY FS_Subset DEF Below
<1> QED BY <1>1, <1>2, FS_AddElement

LEMMA EveryPlaceTaken ==
  ASSUME NEW S \in SUBSET Nat, IsFiniteSet(S), NEW k \in Nat, k < Cardinality(S)
  PROVE  \E p \in S : Cardinality(Below(S, p)) = k
<1> DEFINE Good == {n \in Nat : n < Cardinality(S) => \E p \in S : Cardinality(Below(S, p)) = n}
<1>1. Cardinality(S) \in Nat
  BY FS_CardinalityType
<1>2. 0 \in Good
  <2> SUFFICES ASSUME 0 < Cardinality(S) PROVE \E p \in S : Cardinality(Below(S, p)) = 0
    OBVIOUS
  <2>1. S # {}
    BY <1>1, FS_EmptySet
  <2>2. PICK p \in S : \A x \in S : p <= x
    BY <2>1, LeastOfNaturals
  <2>3. Below(S, p) = {}
    <3>1. \A x \in S : x \in Int
      OBVIOUS
    <3>2. \A x \in S : ~(x < p)
      BY <2>2, <3>1
    <3> QED BY <3>2 DEF Below
  <2> QED BY <2>3, FS_EmptySet
<1>3. ASSUME NEW n \in Nat, n \in Good PROVE n + 1 \in Good
  <2> SUFFICES ASSUME n + 1 < Cardinality(S)
               PROVE  \E p \in S : Cardinality(Below(S, p)) = n + 1
    OBVIOUS
  <2>1. PICK p \in S : Cardinality(Below(S, p)) = n
    BY <1>1, <1>3
  <2> DEFINE T == {x \in S : p < x}
  <2>2. T # {}
    <3> SUFFICES ASSUME T = {} PROVE FALSE
      OBVIOUS
    <3>1. S = Below(S, p) \cup {p} /\ p \notin Below(S, p)
      <4>1. \A x \in S : x \in Int /\ ~(p < x)
        OBVIOUS
      <4>2. ~(p < p) /\ \A x \in S : x < p \/ x = p
        BY <4>1
      <4> QED BY <4>2 DEF Below
    <3>2. IsFiniteSet(Below(S, p))
      BY FS_Subset DEF Below
    <3>3. Cardinality(S) = n + 1
      BY <2>1, <3>1, <3>2, FS_AddElement
    <3> QED BY <3>3
  <2>3. PICK q \in T : \A x \in T : q <= x
    <3>1. T \in SUBSET Nat
      OBVIOUS
    <3> HIDE DEF T
    <3> QED BY <2>2, <3>1, LeastOfNaturals
  <2>4. Cardinality(Below(S, q)) = n + 1
    BY <2>1, <2>3, BelowNext
  <2> QED BY <2>3, <2>4
<1>4. \A n \in Nat : n \in Good
  <2> HIDE DEF Good
  <2> QED BY <1>2, <1>3, NaturalInduction
<1> QED BY <1>4

LEMMA NoPlaceTwice ==
  ASSUME NEW S \in SUBSET Nat, IsFiniteSet(S), NEW p \in S, NEW q \in S,
         Cardinality(Below(S, p)) = Cardinality(Below(S, q))
  PROVE  p = q
<1>1. ASSUME NEW x \in S, NEW y \in S, x < y
      PROVE  Cardinality(Below(S, x)) # Cardinality(Below(S, y))
  <2>1. ~(x < x) /\ \A z \in S : z < x => z < y
    <3>1. \A z \in S : z \in Int
      OBVIOUS
    <3> QED BY <1>1, <3>1
  <2>2. /\ Below(S, x) \subseteq Below(S, y)
        /\ x \in Below(S, y) /\ x \notin Below(S, x)
    BY <1>1, <2>1 DEF Below
  <2>3. IsFiniteSet(Below(S, y))
    BY FS_Subset DEF Below
  <2> QED BY <2>2, <2>3, FS_Subset
<1>2. ~(p < q) /\ ~(q < p)
  BY <1>1
<1> QED BY <1>2
=============================================================================
