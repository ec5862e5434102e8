---------------------------- MODULE SumTheorems ----------------------------
(***************************************************************************)
(* Sums over finite sets: what SumFunctionOnSet of the community modules   *)
(* is, and how it moves with its set and with its function.  The library's *)
(* induction takes an operator as a parameter, so the lemmas go by the     *)
(* well-foundedness of the subset ordering of a finite set instead.        *)
(***************************************************************************)
EXTENDS Functions, FiniteSetTheorems, TLAPS

\* Induction over the natural numbers, for a set that holds zero and every successor.
LEMMA NatGood ==
  ASSUME NEW G, 0 \in G, \A n \in Nat : n \in G => n + 1 \in G
  PROVE  Nat \subseteq G
<1> DEFINE R == OpToRel(<, Nat)
           T == {n \in Nat : n \notin G}
<1>1. IsWellFoundedOn(R, Nat)
  BY NatLessThanWellFounded
<1>2. SUFFICES ASSUME T # {} PROVE FALSE
  OBVIOUS
<1>3. PICK x \in T : \A y \in T : ~(<<y, x>> \in R)
  <2> HIDE DEF R
  <2>1. T \subseteq Nat
    OBVIOUS
  <2> HIDE DEF T
  <2> QED BY <1>1, <1>2, <2>1, WFMin
<1>4. x # 0 /\ x \in Nat
  BY <1>3
<1>5. x - 1 \in T
  <2>1. x - 1 \in Nat /\ (x - 1) + 1 = x
    BY <1>4
  <2>2. x \notin G
    BY <1>3
  <2> QED
    BY <2>1, <2>2
<1>6. <<x-1, x>> \in R
  BY <1>4 DEF OpToRel
<1> QED
  BY <1>3, <1>5, <1>6

\* A family of subsets that holds the empty set, and whatever one more element makes
\* of a member, holds every subset of a finite set.
LEMMA SetInduction ==
  ASSUME NEW S, IsFiniteSet(S), NEW Good, {} \in Good,
         \A T \in SUBSET S : \A x \in S \ T : T \in Good => T \cup {x} \in Good
  PROVE  \A T \in SUBSET S : T \in Good
<1> DEFINE R == StrictSubsetOrdering(S)
           B == {T \in SUBSET S : T \notin Good}
<1>1. IsWellFoundedOn(R, SUBSET S)
  BY FS_StrictSubsetOrderingWellFounded, FS_FiniteSubsetsOfFinite
<1>2. SUFFICES ASSUME B # {} PROVE FALSE
  OBVIOUS
<1>3. PICK T \in B : \A y \in B : ~(<<y, T>> \in R)
  <2> HIDE DEF R
  <2>1. B \subseteq SUBSET S
    OBVIOUS
  <2> HIDE DEF B
  <2> QED BY <1>1, <1>2, <2>1, WFMin
<1>4. PICK x \in T : TRUE
  BY <1>3
<1> DEFINE U == T \ {x}
<1>5. U \in SUBSET S /\ x \in S \ U /\ T = U \cup {x}
  BY <1>3, <1>4
<1>6. <<U, T>> \in R
  BY <1>5, <1>3, <1>4 DEF StrictSubsetOrdering
<1> QED
  BY <1>3, <1>5, <1>6

\* The recursion that adds up f over a set.
Step(f, g, s) == IF s = {} THEN 0 ELSE f[CHOOSE x \in s : TRUE] + g[s \ {CHOOSE x \in s : TRUE}]

Adds(f, g, D) == g = [s \in D |-> Step(f, g, s)]

\* SumFunctionOnSet is a CHOOSE of a function that follows the recursion.
LEMMA SumDef ==
  ASSUME NEW f, NEW S
  PROVE  SumFunctionOnSet(f, S) = (CHOOSE g : Adds(f, g, SUBSET S))[S]
  BY DEF SumFunctionOnSet, FoldFunctionOnSet, MapThenFoldSet, Adds, Step

\* There is such a function, for a finite set: it is built up by cardinality.
LEMMA AdderExists ==
  ASSUME NEW f, NEW S, IsFiniteSet(S)
  PROVE  \E g : Adds(f, g, SUBSET S)
<1> DEFINE D(n) == {s \in SUBSET S : Cardinality(s) <= n}
           G == {n \in Nat : \E g : Adds(f, g, D(n))}
<1>1. \A s \in SUBSET S : IsFiniteSet(s) /\ Cardinality(s) \in Nat /\ Cardinality(s) <= Cardinality(S)
  BY FS_Subset, FS_CardinalityType
<1>2. 0 \in G
  <2>1. \A s \in D(0) : s = {}
    BY <1>1, FS_EmptySet
  <2> DEFINE g == [s \in D(0) |-> 0]
  <2>2. Adds(f, g, D(0))
    BY <2>1 DEF Adds, Step
  <2> QED
    BY <2>2
<1>3. ASSUME NEW n \in Nat, n \in G
      PROVE  n + 1 \in G
  <2>1. PICK g : Adds(f, g, D(n))
    BY <1>3
  <2> DEFINE h == [s \in D(n + 1) |-> Step(f, g, s)]
  <2>2. ASSUME NEW s \in D(n + 1), s # {}
        PROVE  s \ {CHOOSE x \in s : TRUE} \in D(n)
    <3>1. (CHOOSE x \in s : TRUE) \in s
      BY <2>2
    <3>2. Cardinality(s \ {CHOOSE x \in s : TRUE}) = Cardinality(s) - 1
      BY <3>1, <1>1, FS_RemoveElement
    <3> QED
      BY <3>2, <1>1
  <2>3. \A s \in D(n) : h[s] = g[s]
    <3>1. \A s \in D(n) : s \in D(n + 1)
      BY <1>1
    <3> HIDE DEF D
    <3> QED
      BY <3>1, <2>1 DEF Adds
  <2>4. Adds(f, h, D(n + 1))
    <3> HIDE DEF D
    <3>1. ASSUME NEW s \in D(n + 1)
          PROVE  Step(f, g, s) = Step(f, h, s)
      <4>1. CASE s = {}
        BY <4>1 DEF Step
      <4>2. CASE s # {}
        <5> DEFINE t == s \ {CHOOSE x \in s : TRUE}
        <5>1. h[t] = g[t]
          <6>1. t \in D(n)
            BY <2>2, <4>2
          <6> HIDE DEF t, h
          <6> QED
            BY <6>1, <2>3
        <5> HIDE DEF h
        <5> QED
          BY <4>2, <5>1 DEF Step
      <4> QED
        BY <4>1, <4>2
    <3> QED
      BY <3>1 DEF Adds
  <2>5. n + 1 \in Nat
    OBVIOUS
  <2> HIDE DEF h
  <2> QED
    BY <2>4, <2>5
<1>4. Cardinality(S) \in G
  <2> HIDE DEF G
  <2> QED
    BY <1>1, <1>2, <1>3, NatGood
<1>5. D(Cardinality(S)) = SUBSET S
  BY <1>1
<1> QED
  BY <1>4, <1>5

\* Induction over the subsets of a finite set from all smaller subsets.
LEMMA StrongSetInduction ==
  ASSUME NEW S, IsFiniteSet(S), NEW Good,
         \A T \in SUBSET S : (\A U \in SUBSET T : U # T => U \in Good) => T \in Good
  PROVE  \A T \in SUBSET S : T \in Good
<1> DEFINE R == StrictSubsetOrdering(S)
           B == {T \in SUBSET S : T \notin Good}
<1>1. IsWellFoundedOn(R, SUBSET S)
  BY FS_StrictSubsetOrderingWellFounded, FS_FiniteSubsetsOfFinite
<1>2. SUFFICES ASSUME B # {} PROVE FALSE
  OBVIOUS
<1>3. PICK T \in B : \A U \in B : ~(<<U, T>> \in R)
  <2> HIDE DEF R
  <2>1. B \subseteq SUBSET S
    OBVIOUS
  <2> HIDE DEF B
  <2> QED BY <1>1, <1>2, <2>1, WFMin
<1>4. ASSUME NEW U \in SUBSET T, U # T
      PROVE  U \in Good
  <2>1. <<U, T>> \in R
    BY <1>3, <1>4 DEF StrictSubsetOrdering
  <2> QED
    BY <1>3, <1>4, <2>1
<1> QED
  BY <1>3, <1>4

\* The sum over a set is that of its chosen element and of the others, whichever set
\* the function was chosen for.
LEMMA SumRec ==
  ASSUME NEW f, NEW S, IsFiniteSet(S)
  PROVE  /\ SumFunctionOnSet(f, {}) = 0
         /\ S # {} => SumFunctionOnSet(f, S) =
              f[CHOOSE x \in S : TRUE] + SumFunctionOnSet(f, S \ {CHOOSE x \in S : TRUE})
<1> DEFINE Adder(T) == CHOOSE g : Adds(f, g, SUBSET T)
<1>1. \A T \in SUBSET S : Adds(f, Adder(T), SUBSET T)
  BY FS_Subset, AdderExists
<1>2. \A T \in SUBSET S : SumFunctionOnSet(f, T) = Adder(T)[T]
  BY SumDef
<1> HIDE DEF Adder
<1>3. \A T \in SUBSET S : \A U \in SUBSET T : Adder(T)[U] = Step(f, Adder(T), U)
  BY <1>1 DEF Adds
<1>4. ASSUME NEW T \in SUBSET S
      PROVE  SumFunctionOnSet(f, T) = Adder(S)[T]
  <2> DEFINE Good == {U \in SUBSET T : Adder(S)[U] = Adder(T)[U]}
  <2>1. ASSUME NEW U \in SUBSET T, \A V \in SUBSET U : V # U => V \in Good
        PROVE  U \in Good
    <3> DEFINE c == CHOOSE x \in U : TRUE
    <3>1. Adder(S)[U] = Step(f, Adder(S), U) /\ Adder(T)[U] = Step(f, Adder(T), U)
      BY <1>3
    <3>2. CASE U = {}
      BY <3>1, <3>2 DEF Step
    <3>3. CASE U # {}
      <4>1. c \in U
        BY <3>3
      <4>2. U \ {c} \in Good
        BY <2>1, <4>1
      <4> HIDE DEF c
      <4> QED
        BY <3>1, <3>3, <4>2 DEF Step, c
    <3> QED
      BY <3>2, <3>3
  <2>2. \A U \in SUBSET T : U \in Good
    <3>1. IsFiniteSet(T)
      BY FS_Subset
    <3> HIDE DEF Good
    <3> QED
      BY <2>1, <3>1, StrongSetInduction
  <2> QED
    BY <1>2, <2>2
<1>5. \A T \in SUBSET S : Adder(S)[T] = Step(f, Adder(S), T)
  BY <1>3
<1> QED
  BY <1>4, <1>5 DEF Step

\* A sum of integers is an integer, and of natural numbers a natural number.
LEMMA SumType ==
  ASSUME NEW S, IsFiniteSet(S), NEW f, \A x \in S : f[x] \in Int
  PROVE  /\ SumFunctionOnSet(f, S) \in Int
         /\ (\A x \in S : f[x] >= 0) => SumFunctionOnSet(f, S) \in Nat
<1> DEFINE Good == {T \in SUBSET S : 
      /\ SumFunctionOnSet(f, T) \in Int
      /\ (\A x \in T : f[x] >= 0) => SumFunctionOnSet(f, T) \in Nat}
<1>1. ASSUME NEW T \in SUBSET S, \A U \in SUBSET T : U # T => U \in Good
      PROVE  T \in Good
  <2> DEFINE c == CHOOSE x \in T : TRUE
  <2>1. IsFiniteSet(T)
    BY FS_Subset
  <2>2. CASE T = {}
    <3>1. SumFunctionOnSet(f, T) = 0
      BY <2>1, <2>2, SumRec
    <3> QED
      BY <3>1
  <2>3. CASE T # {}
    <3>1. c \in T
      BY <2>3
    <3>2. T \ {c} \in Good
      BY <1>1, <3>1
    <3>3. SumFunctionOnSet(f, T) = f[c] + SumFunctionOnSet(f, T \ {c})
      BY <2>1, <2>3, SumRec
    <3> HIDE DEF c
    <3> QED
      BY <3>1, <3>2, <3>3
  <2> QED
    BY <2>2, <2>3
<1>2. \A T \in SUBSET S : T \in Good
  <2> HIDE DEF Good
  <2> QED
    BY <1>1, StrongSetInduction
<1> QED
  BY <1>2

\* Any element may be added last.
LEMMA SumAdd ==
  ASSUME NEW S, IsFiniteSet(S), NEW f, \A x \in S : f[x] \in Int, NEW x \in S
  PROVE  SumFunctionOnSet(f, S) = f[x] + SumFunctionOnSet(f, S \ {x})
<1> DEFINE Sum(T) == SumFunctionOnSet(f, T)
           Good == {T \in SUBSET S : \A y \in T : Sum(T) = f[y] + Sum(T \ {y})}
<1>1. ASSUME NEW T \in SUBSET S, \A U \in SUBSET T : U # T => U \in Good,
             NEW y \in T
      PROVE  Sum(T) = f[y] + Sum(T \ {y})
  <2> DEFINE c == CHOOSE z \in T : TRUE
  <2>1. IsFiniteSet(T) /\ c \in T
    BY FS_Subset
  <2>2. Sum(T) = f[c] + Sum(T \ {c})
    BY <2>1, SumRec
  <2> HIDE DEF c
  <2>3. CASE y = c
    BY <2>2, <2>3
  <2>4. CASE y # c
    <3>1. Sum(T \ {c}) = f[y] + Sum((T \ {c}) \ {y})
      BY <1>1, <2>1, <2>4
    <3>2. Sum(T \ {y}) = f[c] + Sum((T \ {y}) \ {c})
      BY <1>1, <2>1, <2>4
    <3>3. (T \ {c}) \ {y} = (T \ {y}) \ {c}
      OBVIOUS
    <3>4. IsFiniteSet((T \ {y}) \ {c})
      BY <2>1, FS_RemoveElement
    <3>5. Sum((T \ {y}) \ {c}) \in Int
      BY <3>4, SumType
    <3>6. f[y] \in Int /\ f[c] \in Int
      BY <2>1
    <3>7. PICK rest \in Int : rest = Sum((T \ {y}) \ {c})
      BY <3>5
    <3>8. Sum(T) = f[c] + (f[y] + rest)
      BY <2>2, <3>1, <3>3, <3>7
    <3>9. Sum(T \ {y}) = f[c] + rest
      BY <3>2, <3>7
    <3> HIDE DEF Sum
    <3> QED
      BY <3>6, <3>8, <3>9
  <2> QED
    BY <2>3, <2>4
<1>2. \A T \in SUBSET S : T \in Good
  <2>1. \A T \in SUBSET S : (\A U \in SUBSET T : U # T => U \in Good) => T \in Good
    BY <1>1
  <2> HIDE DEF Good
  <2> QED
    BY <2>1, StrongSetInduction
<1> QED
  BY <1>2

\* Nothing adds up to zero.
LEMMA SumEmpty ==
  ASSUME NEW f
  PROVE  SumFunctionOnSet(f, {}) = 0
  BY SumRec, FS_EmptySet

\* One more element.
LEMMA SumInsert ==
  ASSUME NEW S, IsFiniteSet(S), NEW f, \A x \in S : f[x] \in Int,
         NEW x, x \notin S, f[x] \in Int
  PROVE  SumFunctionOnSet(f, S \cup {x}) = SumFunctionOnSet(f, S) + f[x]
<1>1. IsFiniteSet(S \cup {x}) /\ (S \cup {x}) \ {x} = S
  BY FS_AddElement
<1>2. SumFunctionOnSet(f, S \cup {x}) = f[x] + SumFunctionOnSet(f, S)
  <2>1. SumFunctionOnSet(f, S \cup {x}) = f[x] + SumFunctionOnSet(f, (S \cup {x}) \ {x})
    BY <1>1, SumAdd
  <2> QED
    BY <1>1, <2>1
<1>3. SumFunctionOnSet(f, S) \in Int
  BY SumType
<1> QED
  BY <1>2, <1>3

\* Only the summands matter.
LEMMA SumSame ==
  ASSUME NEW S, IsFiniteSet(S), NEW f, NEW g,
         \A x \in S : f[x] \in Int /\ g[x] = f[x]
  PROVE  SumFunctionOnSet(g, S) = SumFunctionOnSet(f, S)
<1> DEFINE Good == {T \in SUBSET S : SumFunctionOnSet(g, T) = SumFunctionOnSet(f, T)}
<1>1. {} \in Good
  BY SumEmpty
<1>2. ASSUME NEW T \in SUBSET S, NEW x \in S \ T, T \in Good
      PROVE  T \cup {x} \in Good
  <2>1. IsFiniteSet(T)
    BY FS_Subset
  <2>2. SumFunctionOnSet(f, T \cup {x}) = SumFunctionOnSet(f, T) + f[x]
    BY <2>1, SumInsert
  <2>3. SumFunctionOnSet(g, T \cup {x}) = SumFunctionOnSet(g, T) + g[x]
    BY <2>1, SumInsert
  <2> QED
    BY <1>2, <2>2, <2>3
<1>3. \A T \in SUBSET S : T \in Good
  <2> HIDE DEF Good
  <2> QED
    BY <1>1, <1>2, SetInduction
<1> QED
  BY <1>3

\* One summand changes.
LEMMA SumChange ==
  ASSUME NEW S, IsFiniteSet(S), NEW f, \A x \in S : f[x] \in Int,
         NEW g, NEW x \in S, g[x] \in Int, \A y \in S : y # x => g[y] = f[y]
  PROVE  SumFunctionOnSet(g, S) = SumFunctionOnSet(f, S) - f[x] + g[x]
<1>1. IsFiniteSet(S \ {x})
  BY FS_RemoveElement
<1>2. SumFunctionOnSet(f, S) = f[x] + SumFunctionOnSet(f, S \ {x})
  BY SumAdd
<1>3. SumFunctionOnSet(g, S) = g[x] + SumFunctionOnSet(g, S \ {x})
  BY SumAdd
<1>4. SumFunctionOnSet(g, S \ {x}) = SumFunctionOnSet(f, S \ {x})
  BY <1>1, SumSame
<1>5. SumFunctionOnSet(f, S \ {x}) \in Int
  BY <1>1, SumType
<1> QED
  BY <1>2, <1>3, <1>4, <1>5

\* A sum of sums, element by element.
LEMMA SumPlus ==
  ASSUME NEW S, IsFiniteSet(S), NEW f, NEW g, NEW h,
         \A x \in S : f[x] \in Int /\ g[x] \in Int /\ h[x] = f[x] + g[x]
  PROVE  SumFunctionOnSet(h, S) = SumFunctionOnSet(f, S) + SumFunctionOnSet(g, S)
<1> DEFINE Good == {T \in SUBSET S :
      SumFunctionOnSet(h, T) = SumFunctionOnSet(f, T) + SumFunctionOnSet(g, T)}
<1>1. {} \in Good
  BY SumEmpty
<1>2. ASSUME NEW T \in SUBSET S, NEW x \in S \ T, T \in Good
      PROVE  T \cup {x} \in Good
  <2>1. IsFiniteSet(T)
    BY FS_Subset
  <2>2. SumFunctionOnSet(f, T \cup {x}) = SumFunctionOnSet(f, T) + f[x]
    BY <2>1, SumInsert
  <2>3. SumFunctionOnSet(g, T \cup {x}) = SumFunctionOnSet(g, T) + g[x]
    BY <2>1, SumInsert
  <2>4. SumFunctionOnSet(h, T \cup {x}) = SumFunctionOnSet(h, T) + h[x]
    BY <2>1, SumInsert
  <2>5. SumFunctionOnSet(f, T) \in Int /\ SumFunctionOnSet(g, T) \in Int
    BY <2>1, SumType
  <2>6. f[x] \in Int /\ g[x] \in Int /\ h[x] = f[x] + g[x]
    BY <1>2
  <2>7. SumFunctionOnSet(h, T) = SumFunctionOnSet(f, T) + SumFunctionOnSet(g, T)
    BY <1>2
  <2>8. SumFunctionOnSet(h, T \cup {x}) =
          SumFunctionOnSet(f, T \cup {x}) + SumFunctionOnSet(g, T \cup {x})
    BY <2>2, <2>3, <2>4, <2>5, <2>6, <2>7
  <2> QED
    BY <2>8
<1>3. \A T \in SUBSET S : T \in Good
  <2> HIDE DEF Good
  <2> QED
    BY <1>1, <1>2, SetInduction
<1> QED
  BY <1>3

\* A summand is no more than a sum of naturals.
LEMMA SumMember ==
  ASSUME NEW S, IsFiniteSet(S), NEW f, \A x \in S : f[x] \in Nat, NEW x \in S
  PROVE  f[x] <= SumFunctionOnSet(f, S)
<1>1. IsFiniteSet(S \ {x})
  BY FS_RemoveElement
<1>2. SumFunctionOnSet(f, S) = f[x] + SumFunctionOnSet(f, S \ {x})
  BY SumAdd
<1>3. SumFunctionOnSet(f, S \ {x}) \in Nat
  BY <1>1, SumType
<1> QED
  BY <1>2, <1>3

\* Larger summands make no smaller sum.
LEMMA SumMonotone ==
  ASSUME NEW S, IsFiniteSet(S), NEW f, NEW g,
         \A x \in S : f[x] \in Int /\ g[x] \in Int /\ f[x] <= g[x]
  PROVE  SumFunctionOnSet(f, S) <= SumFunctionOnSet(g, S)
<1> DEFINE d == [x \in S |-> g[x] - f[x]]
<1>1. SumFunctionOnSet(g, S) = SumFunctionOnSet(f, S) + SumFunctionOnSet(d, S)
  BY SumPlus
<1>2. SumFunctionOnSet(d, S) \in Nat
  BY SumType
<1>3. SumFunctionOnSet(f, S) \in Int
  BY SumType
<1> QED
  BY <1>1, <1>2, <1>3

\* What is nowhere else adds up to the same over a part.
LEMMA SumSubset ==
  ASSUME NEW S, IsFiniteSet(S), NEW T \in SUBSET S, NEW f, \A x \in S : f[x] \in Nat
  PROVE  /\ SumFunctionOnSet(f, T) <= SumFunctionOnSet(f, S)
         /\ (\A x \in S \ T : f[x] = 0) => SumFunctionOnSet(f, T) = SumFunctionOnSet(f, S)
<1> DEFINE Good == {U \in SUBSET (S \ T) :
      /\ SumFunctionOnSet(f, T) <= SumFunctionOnSet(f, T \cup U)
      /\ (\A x \in U : f[x] = 0) => SumFunctionOnSet(f, T) = SumFunctionOnSet(f, T \cup U)}
<1>1. IsFiniteSet(T) /\ IsFiniteSet(S \ T)
  BY FS_Subset
<1>2. {} \in Good
  <2>1. SumFunctionOnSet(f, T) \in Int /\ T \cup {} = T
    BY <1>1, SumType
  <2> QED
    BY <2>1
<1>3. ASSUME NEW U \in SUBSET (S \ T), NEW x \in (S \ T) \ U, U \in Good
      PROVE  U \cup {x} \in Good
  <2>1. IsFiniteSet(T \cup U) /\ T \cup U \subseteq S /\ x \notin T \cup U
    BY FS_Subset
  <2>2. SumFunctionOnSet(f, (T \cup U) \cup {x}) = SumFunctionOnSet(f, T \cup U) + f[x]
    BY <2>1, SumInsert
  <2>3. (T \cup U) \cup {x} = T \cup (U \cup {x})
    OBVIOUS
  <2>4. SumFunctionOnSet(f, T) \in Int /\ SumFunctionOnSet(f, T \cup U) \in Int
    BY <1>1, <2>1, SumType
  <2>5. f[x] \in Nat
    OBVIOUS
  <2>6. SumFunctionOnSet(f, T \cup (U \cup {x})) = SumFunctionOnSet(f, T \cup U) + f[x]
    BY <2>2, <2>3
  <2>7. SumFunctionOnSet(f, T) <= SumFunctionOnSet(f, T \cup (U \cup {x}))
    BY <1>3, <2>4, <2>5, <2>6
  <2>8. ASSUME \A z \in U \cup {x} : f[z] = 0
        PROVE  SumFunctionOnSet(f, T) = SumFunctionOnSet(f, T \cup (U \cup {x}))
    <3>1. f[x] = 0 /\ SumFunctionOnSet(f, T) = SumFunctionOnSet(f, T \cup U)
      BY <1>3, <2>8
    <3> QED
      BY <2>4, <2>6, <3>1
  <2>9. U \cup {x} \in SUBSET (S \ T)
    OBVIOUS
  <2> QED
    BY <2>7, <2>8, <2>9
<1>4. \A U \in SUBSET (S \ T) : U \in Good
  <2> DEFINE Rest == S \ T
  <2>1. /\ IsFiniteSet(Rest) /\ {} \in Good
        /\ \A U \in SUBSET Rest : \A x \in Rest \ U : U \in Good => U \cup {x} \in Good
    BY <1>1, <1>2, <1>3
  <2> HIDE DEF Good, Rest
  <2>2. \A U \in SUBSET Rest : U \in Good
    BY <2>1, SetInduction
  <2> QED
    BY <2>2 DEF Rest
<1>5. S \ T \in Good
  BY <1>4
<1>6. T \cup (S \ T) = S
  OBVIOUS
<1>7. /\ SumFunctionOnSet(f, T) <= SumFunctionOnSet(f, T \cup (S \ T))
      /\ (\A x \in S \ T : f[x] = 0) => SumFunctionOnSet(f, T) = SumFunctionOnSet(f, T \cup (S \ T))
  BY <1>5
<1> QED
  BY <1>6, <1>7

\* Two disjoint sets are added up one after the other.
LEMMA SumUnion ==
  ASSUME NEW S, IsFiniteSet(S), NEW T, IsFiniteSet(T), S \cap T = {}, NEW f,
         \A x \in S \cup T : f[x] \in Int
  PROVE  SumFunctionOnSet(f, S \cup T) = SumFunctionOnSet(f, S) + SumFunctionOnSet(f, T)
<1> DEFINE Good == {U \in SUBSET T :
      SumFunctionOnSet(f, S \cup U) = SumFunctionOnSet(f, S) + SumFunctionOnSet(f, U)}
<1>1. SumFunctionOnSet(f, S) \in Int
  BY SumType
<1>2. {} \in Good
  <2>1. S \cup {} = S /\ SumFunctionOnSet(f, {}) = 0
    BY SumEmpty
  <2> QED
    BY <1>1, <2>1
<1>3. ASSUME NEW U \in SUBSET T, NEW x \in T \ U, U \in Good
      PROVE  U \cup {x} \in Good
  <2>1. IsFiniteSet(U)
    BY FS_Subset
  <2>2. IsFiniteSet(S \cup U)
    BY <2>1, FS_Union
  <2>3. x \notin S \cup U /\ f[x] \in Int /\ (\A y \in S \cup U : f[y] \in Int)
    OBVIOUS
  <2>4. SumFunctionOnSet(f, (S \cup U) \cup {x}) = SumFunctionOnSet(f, S \cup U) + f[x]
    <3> HIDE DEF Good
    <3> QED
      BY <2>2, <2>3, SumInsert
  <2>5. SumFunctionOnSet(f, U \cup {x}) = SumFunctionOnSet(f, U) + f[x]
    <3> HIDE DEF Good
    <3> QED
      BY <2>1, <2>3, SumInsert
  <2>6. SumFunctionOnSet(f, U) \in Int
    BY <2>1, <2>3, SumType
  <2>7. S \cup (U \cup {x}) = (S \cup U) \cup {x}
    OBVIOUS
  <2>8. SumFunctionOnSet(f, S \cup U) = SumFunctionOnSet(f, S) + SumFunctionOnSet(f, U)
    BY <1>3
  <2>9. SumFunctionOnSet(f, S \cup (U \cup {x})) =
          SumFunctionOnSet(f, S) + SumFunctionOnSet(f, U \cup {x})
    <3>1. SumFunctionOnSet(f, S \cup (U \cup {x})) = SumFunctionOnSet(f, S \cup U) + f[x]
      BY <2>4, <2>7
    <3> QED
      BY <1>1, <2>3, <2>5, <2>6, <2>8, <3>1
  <2> QED
    BY <2>9
<1>4. \A U \in SUBSET T : U \in Good
  <2> HIDE DEF Good
  <2> QED
    BY <1>2, <1>3, SetInduction
<1> QED
  BY <1>4

=============================================================================
