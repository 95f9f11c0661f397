----------------------------- MODULE SumLemmas -----------------------------
(***************************************************************************)
(* Facts about SumFunctionOnSet(f, S), the sum of f[x] over the x of a     *)
(* finite set S.                                                           *)
(*                                                                         *)
(* The sum is a recursive function of the subsets of S, and the facts are  *)
(* proved by induction over them: a set of subsets that is not empty has a *)
(* member of which no proper subset is one.                                *)
(***************************************************************************)
EXTENDS Integers, FiniteSets, FiniteSetsExt, Functions, FiniteSetTheorems,
        WellFoundedInduction, TLAPS

-----------------------------------------------------------------------------
(* Induction and recursion over the subsets of a finite set *)

LEMMA MinimalSubset ==
  ASSUME NEW S, IsFiniteSet(S), NEW T, T \subseteq SUBSET S, T # {}
  PROVE  \E A \in T : \A B \in T : B \subseteq A => B = A
  <1>1. IsWellFoundedOn(StrictSubsetOrdering(S), SUBSET S)
    <2>1. IsWellFoundedOn(StrictSubsetOrdering(S), FiniteSubsetsOf(S))
      BY FS_StrictSubsetOrderingWellFounded
    <2>2. FiniteSubsetsOf(S) = SUBSET S
      BY FS_FiniteSubsetsOfFinite
    <2> QED
      BY <2>1, <2>2
  <1>2. \E x \in T : \A y \in T : <<y, x>> \notin StrictSubsetOrdering(S)
    BY <1>1, WFMin
  <1> QED
    BY <1>2 DEF StrictSubsetOrdering

Pick(s) == CHOOSE x \in s : TRUE

\* g is the recursive function by which f is summed over the subsets of S.
Sums(f, S, g) ==
    g = [s \in SUBSET S |-> IF s = {} THEN 0 ELSE f[Pick(s)] + g[s \ {Pick(s)}]]

LEMMA SumIs ==
  ASSUME NEW f, NEW S
  PROVE  SumFunctionOnSet(f, S) = (CHOOSE g : Sums(f, S, g))[S]
  BY DEF SumFunctionOnSet, FoldFunctionOnSet, MapThenFoldSet, Sums, Pick

LEMMA PickIn ==
  ASSUME NEW s, s # {}
  PROVE  Pick(s) \in s
  BY DEF Pick

\* Two such functions agree where both are defined.
LEMMA SumsAgree ==
  ASSUME NEW f, NEW S, IsFiniteSet(S), NEW R \in SUBSET S,
         NEW g, Sums(f, S, g), NEW h, Sums(f, R, h)
  PROVE  \A s \in SUBSET R : g[s] = h[s]
  <1> DEFINE T == {s \in SUBSET R : g[s] # h[s]}
  <1> SUFFICES ASSUME T # {} PROVE FALSE
    OBVIOUS
  <1>1. PICK s \in T : \A r \in T : r \subseteq s => r = s
    <2>1. IsFiniteSet(R) /\ T \subseteq SUBSET R
      BY FS_Subset
    <2> HIDE DEF T
    <2> QED
      BY <2>1, MinimalSubset
  <1>2. s # {}
    BY <1>1 DEF Sums
  <1>3. Pick(s) \in s
    BY <1>2, PickIn
  <1>4. g[s \ {Pick(s)}] = h[s \ {Pick(s)}]
    BY <1>1, <1>3
  <1>5. /\ g[s] = f[Pick(s)] + g[s \ {Pick(s)}]
        /\ h[s] = f[Pick(s)] + h[s \ {Pick(s)}]
    BY <1>1, <1>2, <1>3 DEF Sums
  <1> QED
    BY <1>1, <1>4, <1>5

\* There is such a function.
LEMMA SumsExist ==
  ASSUME NEW f, NEW S, IsFiniteSet(S)
  PROVE  \E g : Sums(f, S, g)
  <1> DEFINE T == {A \in SUBSET S : ~ \E g : Sums(f, A, g)}
  <1> SUFFICES ASSUME T # {} PROVE FALSE
    BY DEF T
  <1>1. PICK A \in T : \A B \in T : B \subseteq A => B = A
    <2>1. T \subseteq SUBSET S
      OBVIOUS
    <2> HIDE DEF T
    <2> QED
      BY <2>1, MinimalSubset
  <1>2. A \in SUBSET S /\ IsFiniteSet(A)
    BY <1>1, FS_Subset
  <1> DEFINE G(B) == CHOOSE g : Sums(f, B, g)
             Value(s) == IF s = {} THEN 0 ELSE f[Pick(s)] + G(s \ {Pick(s)})[s \ {Pick(s)}]
             h == [s \in SUBSET A |-> Value(s)]
  <1>3. ASSUME NEW B \in SUBSET A, B # A
        PROVE  Sums(f, B, G(B))
    <2>1. \E g : Sums(f, B, g)
      BY <1>1, <1>2, <1>3
    <2> QED
      BY <2>1
  <1> HIDE DEF G
  <1>4. ASSUME NEW s \in SUBSET A, s # {}
        PROVE  h[s \ {Pick(s)}] = G(s \ {Pick(s)})[s \ {Pick(s)}]
    <2> DEFINE r == s \ {Pick(s)}
    <2>1. Pick(s) \in s
      BY <1>4, PickIn
    <2>2. r \in SUBSET A /\ r # A
      BY <2>1
    <2>3. Sums(f, r, G(r))
      BY <2>2, <1>3
    <2> HIDE DEF r
    <2>4. h[r] = Value(r)
      BY <2>2
    <2>5. CASE r = {}
      <3>1. G(r)[r] = 0
        BY <2>3, <2>5 DEF Sums
      <3> QED
        BY <2>4, <2>5, <3>1 DEF r
    <2>6. CASE r # {}
      <3> DEFINE t == r \ {Pick(r)}
      <3>1. Pick(r) \in r
        BY <2>6, PickIn
      <3>2. G(r)[r] = f[Pick(r)] + G(r)[t]
        BY <2>3, <2>6 DEF Sums
      <3>3. t \in SUBSET r /\ t # r /\ t \in SUBSET A /\ t # A
        BY <3>1, <2>2
      <3> HIDE DEF t
      <3>4. Sums(f, t, G(t))
        BY <3>3, <1>3
      <3>5. IsFiniteSet(r)
        BY <1>2, <2>2, FS_Subset
      <3>6. G(r)[t] = G(t)[t]
        BY <2>3, <3>3, <3>4, <3>5, SumsAgree
      <3>7. Value(r) = f[Pick(r)] + G(t)[t]
        BY <2>6 DEF t
      <3> QED
        BY <2>4, <3>2, <3>6, <3>7 DEF r
    <2> QED
      BY <2>5, <2>6
  <1>5. Sums(f, A, h)
    <2>1. ASSUME NEW s \in SUBSET A
          PROVE  Value(s) = IF s = {} THEN 0 ELSE f[Pick(s)] + h[s \ {Pick(s)}]
      BY <2>1, <1>4
    <2> HIDE DEF Value
    <2>2. h = [s \in SUBSET A |-> IF s = {} THEN 0 ELSE f[Pick(s)] + h[s \ {Pick(s)}]]
      <3> DEFINE k == [s \in SUBSET A |-> IF s = {} THEN 0
                                          ELSE f[Pick(s)] + h[s \ {Pick(s)}]]
      <3>1. \A s \in SUBSET A : h[s] = k[s]
        BY <2>1
      <3>2. h = [s \in SUBSET A |-> h[s]] /\ k = [s \in SUBSET A |-> k[s]]
        OBVIOUS
      <3> HIDE DEF h, k
      <3>3. h = k
        BY <3>1, <3>2
      <3> QED
        BY <3>3 DEF k
    <2> QED
      BY <2>2 DEF Sums
  <1> QED
    BY <1>1, <1>5

\* The sum follows its recursion.
LEMMA SumUnfolds ==
  ASSUME NEW f, NEW S, IsFiniteSet(S)
  PROVE  SumFunctionOnSet(f, S) =
            IF S = {} THEN 0 ELSE f[Pick(S)] + SumFunctionOnSet(f, S \ {Pick(S)})
  <1> DEFINE G(B) == CHOOSE g : Sums(f, B, g)
  <1>1. ASSUME NEW B \in SUBSET S
        PROVE  Sums(f, B, G(B)) /\ SumFunctionOnSet(f, B) = G(B)[B]
    <2>1. \E g : Sums(f, B, g)
      BY FS_Subset, SumsExist
    <2> QED
      BY <2>1, SumIs
  <1> HIDE DEF G
  <1>2. CASE S = {}
    BY <1>1, <1>2 DEF Sums
  <1>3. CASE S # {}
    <2> DEFINE r == S \ {Pick(S)}
    <2>1. G(S)[S] = f[Pick(S)] + G(S)[r]
      BY <1>1, <1>3 DEF Sums
    <2>2. r \in SUBSET S /\ r \in SUBSET r
      OBVIOUS
    <2> HIDE DEF r
    <2>3. Sums(f, S, G(S)) /\ Sums(f, r, G(r))
      BY <1>1, <2>2
    <2>4. \A s \in SUBSET r : G(S)[s] = G(r)[s]
      BY <2>2, <2>3, SumsAgree
    <2> QED
      BY <1>1, <1>3, <2>1, <2>2, <2>4 DEF r
  <1> QED
    BY <1>2, <1>3

-----------------------------------------------------------------------------
(* What a sum is made of *)

LEMMA SumOfNone ==
  ASSUME NEW f
  PROVE  SumFunctionOnSet(f, {}) = 0
  BY SumUnfolds, FS_EmptySet

\* It does not matter which element is taken first.
LEMMA SumTake ==
  ASSUME NEW f, NEW S, IsFiniteSet(S), \A x \in S : f[x] \in Int
  PROVE  /\ SumFunctionOnSet(f, S) \in Int
         /\ \A x \in S : SumFunctionOnSet(f, S) = f[x] + SumFunctionOnSet(f, S \ {x})
  <1> DEFINE Total(A) == SumFunctionOnSet(f, A)
             Good(A) == /\ Total(A) \in Int
                        /\ \A x \in A : Total(A) = f[x] + Total(A \ {x})
             T == {A \in SUBSET S : ~Good(A)}
  <1> SUFFICES ASSUME T # {} PROVE FALSE
    <2> HIDE DEF T
    <2>1. S \in SUBSET S /\ (T = {} => Good(S))
      BY DEF T
    <2> QED
      BY <2>1
  <1>1. PICK A \in T : \A B \in T : B \subseteq A => B = A
    <2>1. T \subseteq SUBSET S
      OBVIOUS
    <2> HIDE DEF T
    <2> QED
      BY <2>1, MinimalSubset
  <1>2. A \in SUBSET S /\ IsFiniteSet(A) /\ ~Good(A)
    BY <1>1, FS_Subset
  <1>3. \A B \in SUBSET A : B # A => Good(B)
    <2> HIDE DEF Good
    <2> QED
      BY <1>1, <1>2
  <1> HIDE DEF T
  <1>4. A # {}
    <2>1. Good({})
      BY SumOfNone
    <2> HIDE DEF Good
    <2> QED
      BY <1>2, <2>1
  <1> DEFINE c == Pick(A)
  <1>5. c \in A /\ Total(A) = f[c] + Total(A \ {c})
    BY <1>2, <1>4, PickIn, SumUnfolds
  <1> HIDE DEF c, Total
  <1>6. f[c] \in Int /\ Total(A \ {c}) \in Int
    BY <1>2, <1>3, <1>5
  <1>7. ASSUME NEW x \in A
        PROVE  Total(A) = f[x] + Total(A \ {x})
    <2>1. CASE x = c
      BY <1>5, <2>1
    <2>2. CASE x # c
      <3>1. x \in A \ {c} /\ c \in A \ {x} /\ Good(A \ {c}) /\ Good(A \ {x})
        BY <1>3, <1>5, <2>2
      <3>2. (A \ {c}) \ {x} = (A \ {x}) \ {c}
        OBVIOUS
      <3> DEFINE rest == (A \ {x}) \ {c}
      <3>3. /\ Total(A \ {c}) = f[x] + Total(rest)
            /\ Total(A \ {x}) = f[c] + Total(rest)
        BY <3>1, <3>2
      <3>4. Total(rest) \in Int
        <4>1. rest \in SUBSET A /\ rest # A
          BY <1>5
        <4> HIDE DEF rest
        <4> QED
          BY <4>1, <1>3
      <3>5. f[x] \in Int
        BY <1>2
      <3> HIDE DEF rest
      <3> QED
        BY <1>5, <1>6, <3>3, <3>4, <3>5
    <2> QED
      BY <2>1, <2>2
  <1> QED
    BY <1>2, <1>5, <1>6, <1>7

LEMMA SumType ==
  ASSUME NEW f, NEW S, IsFiniteSet(S), \A x \in S : f[x] \in Int
  PROVE  SumFunctionOnSet(f, S) \in Int
  BY SumTake

LEMMA SumAdd ==
  ASSUME NEW f, NEW S, IsFiniteSet(S), NEW x, x \notin S,
         \A y \in S \cup {x} : f[y] \in Int
  PROVE  SumFunctionOnSet(f, S \cup {x}) = SumFunctionOnSet(f, S) + f[x]
  <1> DEFINE A == S \cup {x}
  <1>1. IsFiniteSet(A)
    BY FS_AddElement
  <1>2. x \in A /\ A \ {x} = S
    OBVIOUS
  <1>3. \A y \in A : f[y] \in Int
    OBVIOUS
  <1> HIDE DEF A
  <1>4. SumFunctionOnSet(f, A) = f[x] + SumFunctionOnSet(f, S)
    BY <1>1, <1>2, <1>3, SumTake
  <1>5. SumFunctionOnSet(f, S) \in Int /\ f[x] \in Int
    BY SumType
  <1> QED
    BY <1>4, <1>5 DEF A

\* A function that is nowhere smaller has no smaller sum.
LEMMA SumMonotone ==
  ASSUME NEW f, NEW g, NEW S, IsFiniteSet(S),
         \A x \in S : f[x] \in Int /\ g[x] \in Int /\ f[x] <= g[x]
  PROVE  SumFunctionOnSet(f, S) <= SumFunctionOnSet(g, S)
  <1> DEFINE Total(h, A) == SumFunctionOnSet(h, A)
             T == {A \in SUBSET S : ~(Total(f, A) <= Total(g, A))}
  <1> SUFFICES ASSUME T # {} PROVE FALSE
    <2> HIDE DEF T
    <2>1. S \in SUBSET S /\ (T = {} => Total(f, S) <= Total(g, S))
      BY DEF T
    <2> QED
      BY <2>1
  <1>1. PICK A \in T : \A B \in T : B \subseteq A => B = A
    <2>1. T \subseteq SUBSET S
      OBVIOUS
    <2> HIDE DEF T
    <2> QED
      BY <2>1, MinimalSubset
  <1>2. A \in SUBSET S /\ IsFiniteSet(A) /\ ~(Total(f, A) <= Total(g, A))
    BY <1>1, FS_Subset
  <1>3. A # {}
    BY <1>2, SumOfNone
  <1>4. PICK x \in A : TRUE
    BY <1>3
  <1>5. Total(f, A \ {x}) <= Total(g, A \ {x})
    BY <1>1, <1>4
  <1>6. /\ Total(f, A) = f[x] + Total(f, A \ {x})
        /\ Total(g, A) = g[x] + Total(g, A \ {x})
    BY <1>2, SumTake
  <1>7. IsFiniteSet(A \ {x})
    BY <1>2, FS_Subset
  <1>8. Total(f, A \ {x}) \in Int /\ Total(g, A \ {x}) \in Int
    BY <1>2, <1>7, SumType
  <1>9. f[x] \in Int /\ g[x] \in Int /\ f[x] <= g[x]
    BY <1>2
  <1> HIDE DEF Total, T
  <1> QED
    BY <1>2, <1>5, <1>6, <1>8, <1>9

\* Functions that agree on S have the same sum.
LEMMA SumSame ==
  ASSUME NEW f, NEW g, NEW S, IsFiniteSet(S),
         \A x \in S : f[x] \in Int /\ g[x] = f[x]
  PROVE  SumFunctionOnSet(g, S) = SumFunctionOnSet(f, S)
  <1>1. /\ SumFunctionOnSet(f, S) <= SumFunctionOnSet(g, S)
        /\ SumFunctionOnSet(g, S) <= SumFunctionOnSet(f, S)
    BY SumMonotone
  <1>2. SumFunctionOnSet(f, S) \in Int /\ SumFunctionOnSet(g, S) \in Int
    BY SumType
  <1> QED
    BY <1>1, <1>2

\* Functions that agree but for one element
LEMMA SumChange ==
  ASSUME NEW f, NEW g, NEW S, IsFiniteSet(S), NEW x \in S,
         \A y \in S : f[y] \in Int /\ g[y] \in Int,
         \A y \in S \ {x} : g[y] = f[y]
  PROVE  SumFunctionOnSet(g, S) = SumFunctionOnSet(f, S) - f[x] + g[x]
  <1>1. IsFiniteSet(S \ {x})
    BY FS_Subset
  <1>2. SumFunctionOnSet(g, S \ {x}) = SumFunctionOnSet(f, S \ {x})
    BY <1>1, SumSame
  <1>3. /\ SumFunctionOnSet(f, S) = f[x] + SumFunctionOnSet(f, S \ {x})
        /\ SumFunctionOnSet(g, S) = g[x] + SumFunctionOnSet(g, S \ {x})
    BY SumTake
  <1>4. SumFunctionOnSet(f, S \ {x}) \in Int
    BY <1>1, SumType
  <1> QED
    BY <1>2, <1>3, <1>4

\* The same, where the other elements grow by nothing
LEMMA SumAtMost ==
  ASSUME NEW f, NEW g, NEW S, IsFiniteSet(S), NEW x \in S,
         \A y \in S : f[y] \in Int /\ g[y] \in Int,
         \A y \in S \ {x} : g[y] <= f[y]
  PROVE  SumFunctionOnSet(g, S) <= SumFunctionOnSet(f, S) - f[x] + g[x]
  <1>1. IsFiniteSet(S \ {x})
    BY FS_Subset
  <1>2. SumFunctionOnSet(g, S \ {x}) <= SumFunctionOnSet(f, S \ {x})
    BY <1>1, SumMonotone
  <1>3. /\ SumFunctionOnSet(f, S) = f[x] + SumFunctionOnSet(f, S \ {x})
        /\ SumFunctionOnSet(g, S) = g[x] + SumFunctionOnSet(g, S \ {x})
    BY SumTake
  <1>4. SumFunctionOnSet(f, S \ {x}) \in Int /\ SumFunctionOnSet(g, S \ {x}) \in Int
    BY <1>1, SumType
  <1> QED
    BY <1>2, <1>3, <1>4

\* Functions that agree but for two elements
LEMMA SumExchange ==
  ASSUME NEW f, NEW g, NEW S, IsFiniteSet(S), NEW x \in S, NEW y \in S, x # y,
         \A z \in S : f[z] \in Int /\ g[z] \in Int,
         \A z \in S \ {x, y} : g[z] = f[z]
  PROVE  SumFunctionOnSet(g, S) = SumFunctionOnSet(f, S) - f[x] + g[x] - f[y] + g[y]
  <1> DEFINE h == [z \in S |-> IF z = x THEN g[z] ELSE f[z]]
  <1>1. /\ \A z \in S : h[z] \in Int
        /\ \A z \in S \ {x} : h[z] = f[z]
        /\ \A z \in S \ {y} : g[z] = h[z]
        /\ h[x] = g[x] /\ h[y] = f[y]
    OBVIOUS
  <1> HIDE DEF h
  <1>2. SumFunctionOnSet(h, S) = SumFunctionOnSet(f, S) - f[x] + g[x]
    BY <1>1, SumChange
  <1>3. SumFunctionOnSet(g, S) = SumFunctionOnSet(h, S) - f[y] + g[y]
    <2>1. SumFunctionOnSet(g, S) = SumFunctionOnSet(h, S) - h[y] + g[y]
      BY <1>1, SumChange
    <2> QED
      BY <1>1, <2>1
  <1>4. SumFunctionOnSet(f, S) \in Int
    BY SumType
  <1> QED
    BY <1>2, <1>3, <1>4

=============================================================================
