---------------------------- MODULE SumTheorems ----------------------------
(***************************************************************************)
(* Sums of functions with a finite domain, for the theorems about money:   *)
(* totals of fees, of reservations, of balances and of the rewards of a    *)
(* chain are all SumFunction of a function.                                *)
(*                                                                         *)
(* SumFunction is a recursive function on the subsets of the domain, given *)
(* by a CHOOSE, so that nothing is known of it until it is shown that such *)
(* a function exists; and the order in which it takes the elements is not  *)
(* specified, so that it has to be shown not to matter.  Both need an      *)
(* induction.  The induction predicates are sets here ({n \in Nat : ..}):  *)
(* a set, unlike an operator, can be a parameter of a lemma that the       *)
(* provers instantiate.                                                    *)
(***************************************************************************)
EXTENDS Functions, FiniteSetTheorems, TLAPS

-----------------------------------------------------------------------------
(* Induction *)

\* A set of naturals that has 0 and the successor of each member has them all:
\* otherwise the least natural it lacks contradicts one of the two.
LEMMA InductionOnNat ==
    ASSUME NEW Q, 0 \in Q, \A n \in Nat : n \in Q => n + 1 \in Q
    PROVE  Nat \subseteq Q
<1> DEFINE R == OpToRel(<, Nat)
           B == Nat \ Q
<1>1. \A x, y \in Nat : (<<x, y>> \in R) <=> x < y
  BY DEF OpToRel
<1>2. IsWellFoundedOn(R, Nat)
  BY NatLessThanWellFounded
<1>3. ASSUME B # {}
      PROVE  FALSE
  <2> HIDE DEF R
  <2>0. B \subseteq Nat
    OBVIOUS
  <2>1. PICK x \in B : \A y \in B : ~(<<y, x>> \in R)
    <3> HIDE DEF B
    <3> QED BY <1>2, <1>3, <2>0, WFMin
  <2>2. x \in Nat /\ x # 0 /\ x - 1 \in Nat /\ x - 1 < x
    OBVIOUS
  <2>3. x - 1 \in Q
    BY <1>1, <2>1, <2>2
  <2> QED
    BY <2>2, <2>3
<1> QED
  BY <1>3

\* A collection of sets that has {} and, with U, every U \cup {x} inside a finite
\* set S has S: by induction on the number of elements.
LEMMA InductionOnSets ==
    ASSUME NEW S, IsFiniteSet(S), NEW Q, {} \in Q,
           \A U \in SUBSET S : \A x \in S \ U : U \in Q => U \cup {x} \in Q
    PROVE  S \in Q
<1> DEFINE P == {n \in Nat : \A U \in SUBSET S : Cardinality(U) = n => U \in Q}
<1>1. \A U \in SUBSET S : IsFiniteSet(U) /\ Cardinality(U) \in Nat
  BY FS_Subset, FS_CardinalityType
<1>2. 0 \in P
  BY <1>1, FS_EmptySet
<1>3. ASSUME NEW n \in Nat, n \in P
      PROVE  n + 1 \in P
  <2> SUFFICES ASSUME NEW U \in SUBSET S, Cardinality(U) = n + 1
               PROVE  U \in Q
    OBVIOUS
  <2>1. PICK x \in U : TRUE
    BY FS_EmptySet
  <2>2. Cardinality(U \ {x}) = Cardinality(U) - 1
    BY <1>1, FS_RemoveElement
  <2>3. U \ {x} \in Q
    <3>1. Cardinality(U \ {x}) = n
      BY <2>2
    <3> QED BY <1>3, <3>1
  <2>4. (U \ {x}) \cup {x} = U /\ x \in S \ (U \ {x}) /\ U \ {x} \in SUBSET S
    OBVIOUS
  <2> QED
    BY <2>3, <2>4
<1>4. Nat \subseteq P
  <2> HIDE DEF P
  <2> QED BY <1>2, <1>3, InductionOnNat
<1> QED
  BY <1>1, <1>4

-----------------------------------------------------------------------------
(* The recursion that defines a sum *)

\* the element that a sum takes first
Pick(s) == CHOOSE x \in s : TRUE

\* g is the recursive function of the sum of f on the sets of D
Sums(f, g, D) ==
    g = [s \in D |-> IF s = {} THEN 0 ELSE f[Pick(s)] + g[s \ {Pick(s)}]]

\* What SumFunctionOnSet abbreviates.
LEMMA SumUnfold ==
    ASSUME NEW f, NEW S
    PROVE  SumFunctionOnSet(f, S) = (CHOOSE g : Sums(f, g, SUBSET S))[S]
BY DEF SumFunctionOnSet, FoldFunctionOnSet, MapThenFoldSet, Sums, Pick

\* There is a function with the recursion of the sum: the function on the sets of
\* at most n elements extends to those of n + 1.
LEMMA SumsExists ==
    ASSUME NEW f, NEW S, IsFiniteSet(S)
    PROVE  \E g : Sums(f, g, SUBSET S)
<1> DEFINE D(n) == {s \in SUBSET S : Cardinality(s) <= n}
           P    == {n \in Nat : \E g : Sums(f, g, D(n))}
<1>1. \A U \in SUBSET S : IsFiniteSet(U) /\ Cardinality(U) \in Nat /\ Cardinality(U) <= Cardinality(S)
  BY FS_Subset, FS_CardinalityType
<1>2. ASSUME NEW U \in SUBSET S, U # {}
      PROVE  /\ Pick(U) \in U
             /\ U \ {Pick(U)} \in SUBSET S
             /\ Cardinality(U \ {Pick(U)}) = Cardinality(U) - 1
  BY <1>1, <1>2, FS_RemoveElement DEF Pick
<1>3. \A U \in SUBSET S : Cardinality(U) = 0 <=> U = {}
  BY <1>1, FS_EmptySet
<1>4. 0 \in P
  <2> DEFINE g == [s \in D(0) |-> 0]
  <2>1. \A s \in D(0) : s = {}
    BY <1>1, <1>3
  <2>2. Sums(f, g, D(0))
    <3> HIDE DEF D
    <3> QED BY <2>1 DEF Sums
  <2> QED
    BY <2>2
<1>5. ASSUME NEW n \in Nat, n \in P
      PROVE  n + 1 \in P
  <2>1. PICK g : Sums(f, g, D(n))
    BY <1>5
  <2> DEFINE h == [s \in D(n + 1) |-> IF s \in D(n) THEN g[s] ELSE f[Pick(s)] + g[s \ {Pick(s)}]]
  <2>2. ASSUME NEW s \in D(n + 1)
        PROVE  h[s] = IF s = {} THEN 0 ELSE f[Pick(s)] + h[s \ {Pick(s)}]
    <3>1. CASE s = {}
      <4>1. s \in D(n)
        BY <3>1, <1>3
      <4>2. g[s] = 0
        <5> HIDE DEF D
        <5> QED BY <4>1, <3>1, <2>1 DEF Sums
      <4> QED
        BY <4>1, <4>2, <3>1
    <3>2. CASE s # {}
      <4>1. s \ {Pick(s)} \in D(n) /\ s \ {Pick(s)} \in D(n + 1)
        BY <3>2, <1>1, <1>2
      <4>2. h[s \ {Pick(s)}] = g[s \ {Pick(s)}]
        <5> HIDE DEF D
        <5> QED BY <4>1
      <4>3. CASE s \in D(n)
        <5>1. g[s] = f[Pick(s)] + g[s \ {Pick(s)}]
          <6> HIDE DEF D
          <6> QED BY <4>3, <3>2, <2>1 DEF Sums
        <5> HIDE DEF D
        <5> QED BY <5>1, <4>2, <4>3, <3>2
      <4>4. CASE s \notin D(n)
        <5> HIDE DEF D
        <5> QED BY <4>2, <4>4, <3>2
      <4> QED
        BY <4>3, <4>4
    <3> QED
      BY <3>1, <3>2
  <2>3. Sums(f, h, D(n + 1))
    <3>1. h = [s \in D(n + 1) |-> h[s]]
      BY DEF h
    <3>2. [s \in D(n + 1) |-> h[s]] = [s \in D(n + 1) |-> IF s = {} THEN 0 ELSE f[Pick(s)] + h[s \ {Pick(s)}]]
      <4> HIDE DEF D, h
      <4> QED BY <2>2
    <3> HIDE DEF D, h
    <3> QED BY <3>1, <3>2 DEF Sums
  <2> HIDE DEF D, h
  <2> QED
    BY <2>3
<1>6. Nat \subseteq P
  <2> HIDE DEF P
  <2> QED BY <1>4, <1>5, InductionOnNat
<1>7. Cardinality(S) \in Nat /\ D(Cardinality(S)) = SUBSET S
  BY <1>1
<1> HIDE DEF D
<1> QED
  BY <1>6, <1>7

\* The function for a set and the one for a larger set agree.
LEMMA SumsEqual ==
    ASSUME NEW f, NEW S, IsFiniteSet(S), NEW U, U \subseteq S,
           NEW g, NEW h, Sums(f, g, SUBSET S), Sums(f, h, SUBSET U)
    PROVE  g[U] = h[U]
<1> DEFINE P == {n \in Nat : \A s \in SUBSET U : Cardinality(s) = n => g[s] = h[s]}
<1>1. \A s \in SUBSET U : IsFiniteSet(s) /\ Cardinality(s) \in Nat /\ s \in SUBSET S
  BY FS_Subset, FS_CardinalityType
<1>2. \A s \in SUBSET U : Cardinality(s) = 0 <=> s = {}
  BY <1>1, FS_EmptySet
<1>3. 0 \in P
  <2>1. g[{}] = 0 /\ h[{}] = 0
    BY DEF Sums
  <2> QED
    BY <2>1, <1>2
<1>4. ASSUME NEW n \in Nat, n \in P
      PROVE  n + 1 \in P
  <2> SUFFICES ASSUME NEW s \in SUBSET U, Cardinality(s) = n + 1
               PROVE  g[s] = h[s]
    OBVIOUS
  <2>1. s # {}
    BY <1>2
  <2>2. Pick(s) \in s
    BY <2>1 DEF Pick
  <2>3. Cardinality(s \ {Pick(s)}) = Cardinality(s) - 1
    BY <2>2, <1>1, FS_RemoveElement
  <2>4. Cardinality(s \ {Pick(s)}) = n
    BY <2>3
  <2>5. g[s \ {Pick(s)}] = h[s \ {Pick(s)}]
    BY <2>4, <1>4
  <2>6. g[s] = f[Pick(s)] + g[s \ {Pick(s)}]
    BY <2>1, <1>1 DEF Sums
  <2>7. h[s] = f[Pick(s)] + h[s \ {Pick(s)}]
    BY <2>1 DEF Sums
  <2> QED
    BY <2>5, <2>6, <2>7
<1>5. Nat \subseteq P
  <2> HIDE DEF P
  <2> QED BY <1>3, <1>4, InductionOnNat
<1> QED
  BY <1>1, <1>5

\* The sum over no element.
LEMMA SumEmpty ==
    ASSUME NEW f
    PROVE  SumFunctionOnSet(f, {}) = 0
<1>1. \E g : Sums(f, g, SUBSET {})
  BY SumsExists, FS_EmptySet
<1>2. Sums(f, CHOOSE g : Sums(f, g, SUBSET {}), SUBSET {})
  BY <1>1
<1> DEFINE g == CHOOSE g : Sums(f, g, SUBSET {})
<1> HIDE DEF g
<1>3. g[{}] = 0
  BY <1>2 DEF Sums, g
<1> QED
  BY <1>3, SumUnfold DEF g

\* A sum is its first element and the sum of the others.
LEMMA SumPick ==
    ASSUME NEW f, NEW S, IsFiniteSet(S), S # {}
    PROVE  SumFunctionOnSet(f, S) = f[Pick(S)] + SumFunctionOnSet(f, S \ {Pick(S)})
<1> DEFINE g == CHOOSE g : Sums(f, g, SUBSET S)
           U == S \ {Pick(S)}
           h == CHOOSE h : Sums(f, h, SUBSET U)
<1>1. Sums(f, g, SUBSET S)
  BY SumsExists
<1>2. IsFiniteSet(U)
  BY FS_Subset
<1>3. Sums(f, h, SUBSET U)
  <2> HIDE DEF U
  <2> QED BY <1>2, SumsExists
<1>4. g[S] = f[Pick(S)] + g[U]
  <2> HIDE DEF g
  <2> QED BY <1>1 DEF Sums
<1>5. g[U] = h[U]
  <2>1. ASSUME NEW a, NEW b, Sums(f, a, SUBSET S), Sums(f, b, SUBSET U)
        PROVE  a[U] = b[U]
    <3>1. U \subseteq S
      OBVIOUS
    <3> HIDE DEF U
    <3> QED BY <2>1, <3>1, SumsEqual
  <2> HIDE DEF U, g, h
  <2> QED BY <1>1, <1>3, <2>1
<1>6. SumFunctionOnSet(f, S) = g[S] /\ SumFunctionOnSet(f, U) = h[U]
  BY SumUnfold
<1> QED
  BY <1>4, <1>5, <1>6

\* A sum of integers is an integer.
LEMMA SumInt ==
    ASSUME NEW f, NEW S, IsFiniteSet(S), \A s \in S : f[s] \in Int
    PROVE  SumFunctionOnSet(f, S) \in Int
<1> DEFINE P == {n \in Nat : \A U \in SUBSET S :
                     Cardinality(U) = n => SumFunctionOnSet(f, U) \in Int}
<1>1. \A U \in SUBSET S : IsFiniteSet(U) /\ Cardinality(U) \in Nat
  BY FS_Subset, FS_CardinalityType
<1>2. 0 \in P
  BY <1>1, FS_EmptySet, SumEmpty
<1>3. ASSUME NEW n \in Nat, n \in P
      PROVE  n + 1 \in P
  <2> SUFFICES ASSUME NEW U \in SUBSET S, Cardinality(U) = n + 1
               PROVE  SumFunctionOnSet(f, U) \in Int
    OBVIOUS
  <2>1. U # {} /\ IsFiniteSet(U)
    BY <1>1, FS_EmptySet
  <2>2. Pick(U) \in U
    BY <2>1 DEF Pick
  <2>3. Cardinality(U \ {Pick(U)}) = Cardinality(U) - 1
    BY <2>1, <2>2, FS_RemoveElement
  <2>4. Cardinality(U \ {Pick(U)}) = n
    BY <2>3
  <2>5. SumFunctionOnSet(f, U \ {Pick(U)}) \in Int
    BY <2>4, <1>3
  <2> QED
    BY <2>1, <2>2, <2>5, SumPick
<1>4. Nat \subseteq P
  <2> HIDE DEF P
  <2> QED BY <1>2, <1>3, InductionOnNat
<1> QED
  BY <1>1, <1>4

\* Any element may be taken first: the order in which a sum takes the elements
\* does not matter.
LEMMA SumRemove ==
    ASSUME NEW f, NEW S, IsFiniteSet(S), \A s \in S : f[s] \in Int, NEW x \in S
    PROVE  SumFunctionOnSet(f, S) = f[x] + SumFunctionOnSet(f, S \ {x})
<1> DEFINE Sum(U) == SumFunctionOnSet(f, U)
           Good(U) == \A y \in U : Sum(U) = f[y] + Sum(U \ {y})
           P == {n \in Nat : \A U \in SUBSET S : Cardinality(U) = n => Good(U)}
<1>1. \A U \in SUBSET S : IsFiniteSet(U) /\ Cardinality(U) \in Nat /\ Sum(U) \in Int
  BY FS_Subset, FS_CardinalityType, SumInt
<1>2. 0 \in P
  BY <1>1, FS_EmptySet
<1>3. ASSUME NEW n \in Nat, n \in P
      PROVE  n + 1 \in P
  <2> SUFFICES ASSUME NEW U \in SUBSET S, Cardinality(U) = n + 1
               PROVE  Good(U)
    OBVIOUS
  <2>1. U # {} /\ IsFiniteSet(U)
    BY <1>1, FS_EmptySet
  <2>2. \A y \in U : Good(U \ {y})
    <3> TAKE y \in U
    <3>1. Cardinality(U \ {y}) = Cardinality(U) - 1
      BY <2>1, FS_RemoveElement
    <3>2. Cardinality(U \ {y}) = n
      BY <3>1
    <3> HIDE DEF Good
    <3> QED BY <3>2, <1>3
  <2> DEFINE c == Pick(U)
  <2>3. c \in U
    BY <2>1 DEF Pick
  <2>4. Sum(U) = f[c] + Sum(U \ {c})
    BY <2>1, SumPick
  <2> HIDE DEF c, Sum
  <2> SUFFICES ASSUME NEW y \in U, y # c
               PROVE  Sum(U) = f[y] + Sum(U \ {y})
    BY <2>4
  <2>5. (U \ {c}) \ {y} = (U \ {y}) \ {c}
    OBVIOUS
  <2>6. /\ Sum(U \ {c}) = f[y] + Sum((U \ {y}) \ {c})
        /\ Sum(U \ {y}) = f[c] + Sum((U \ {y}) \ {c})
    BY <2>2, <2>3, <2>5
  <2>7. /\ Sum(U) \in Int
        /\ Sum(U \ {c}) \in Int
        /\ Sum(U \ {y}) \in Int
        /\ Sum((U \ {y}) \ {c}) \in Int
        /\ f[c] \in Int
        /\ f[y] \in Int
    BY <1>1, <2>3
  <2> QED
    BY <2>4, <2>6, <2>7
<1>4. Nat \subseteq P
  <2> HIDE DEF P
  <2> QED BY <1>2, <1>3, InductionOnNat
<1>5. Good(S)
  BY <1>1, <1>4
<1> QED
  BY <1>5

\* One element more.
LEMMA SumInsert ==
    ASSUME NEW f, NEW S, IsFiniteSet(S), NEW x, x \notin S,
           \A s \in S \cup {x} : f[s] \in Int
    PROVE  SumFunctionOnSet(f, S \cup {x}) = SumFunctionOnSet(f, S) + f[x]
<1>1. IsFiniteSet(S \cup {x})
  BY FS_AddElement
<1>2. (S \cup {x}) \ {x} = S
  OBVIOUS
<1>3. SumFunctionOnSet(f, S \cup {x}) = f[x] + SumFunctionOnSet(f, S)
  BY <1>1, <1>2, SumRemove
<1>4. SumFunctionOnSet(f, S) \in Int
  BY SumInt
<1> QED
  BY <1>3, <1>4

\* Sums are linear.
LEMMA SumCombine ==
    ASSUME NEW f, NEW g, NEW h, NEW k \in Int, NEW S, IsFiniteSet(S),
           \A s \in S : f[s] \in Int /\ g[s] \in Int /\ h[s] = f[s] + k * g[s]
    PROVE  SumFunctionOnSet(h, S) = SumFunctionOnSet(f, S) + k * SumFunctionOnSet(g, S)
<1> DEFINE Q == {U \in SUBSET S : SumFunctionOnSet(h, U)
                     = SumFunctionOnSet(f, U) + k * SumFunctionOnSet(g, U)}
<1>1. {} \in Q
  BY SumEmpty
<1>2. ASSUME NEW U \in SUBSET S, NEW x \in S \ U, U \in Q
      PROVE  U \cup {x} \in Q
  <2>1. IsFiniteSet(U) /\ \A s \in S : h[s] \in Int
    BY FS_Subset
  <2>2. /\ SumFunctionOnSet(f, U \cup {x}) = SumFunctionOnSet(f, U) + f[x]
        /\ SumFunctionOnSet(f, U) \in Int
    BY <2>1, SumInsert, SumInt
  <2>3. /\ SumFunctionOnSet(g, U \cup {x}) = SumFunctionOnSet(g, U) + g[x]
        /\ SumFunctionOnSet(g, U) \in Int
    BY <2>1, SumInsert, SumInt
  <2>4. SumFunctionOnSet(h, U \cup {x}) = SumFunctionOnSet(h, U) + h[x]
    BY <2>1, SumInsert
  <2>5. h[x] = f[x] + k * g[x] /\ f[x] \in Int /\ g[x] \in Int
    OBVIOUS
  <2>6. SumFunctionOnSet(h, U) = SumFunctionOnSet(f, U) + k * SumFunctionOnSet(g, U)
    BY <1>2
  <2>7. \A a, b, c, d \in Int : a + k * b + (c + k * d) = (a + c) + k * (b + d)
    OBVIOUS
  <2> QED
    BY <2>2, <2>3, <2>4, <2>5, <2>6, <2>7
<1>3. S \in Q
  <2> HIDE DEF Q
  <2> QED BY <1>1, <1>2, InductionOnSets
<1> QED
  BY <1>3

\* A sum of naturals is a natural.
LEMMA SumNat ==
    ASSUME NEW f, NEW S, IsFiniteSet(S), \A s \in S : f[s] \in Nat
    PROVE  SumFunctionOnSet(f, S) \in Nat
<1> DEFINE Q == {U \in SUBSET S : SumFunctionOnSet(f, U) \in Nat}
<1>1. {} \in Q
  BY SumEmpty
<1>2. ASSUME NEW U \in SUBSET S, NEW x \in S \ U, U \in Q
      PROVE  U \cup {x} \in Q
  <2>1. IsFiniteSet(U)
    BY FS_Subset
  <2>2. SumFunctionOnSet(f, U \cup {x}) = SumFunctionOnSet(f, U) + f[x]
    BY <2>1, SumInsert
  <2> QED
    BY <1>2, <2>2
<1>3. S \in Q
  <2> HIDE DEF Q
  <2> QED BY <1>1, <1>2, InductionOnSets
<1> QED
  BY <1>3

\* A sum of zeros is zero.
LEMMA SumZero ==
    ASSUME NEW f, NEW S, IsFiniteSet(S), \A s \in S : f[s] = 0
    PROVE  SumFunctionOnSet(f, S) = 0
<1> DEFINE Q == {U \in SUBSET S : SumFunctionOnSet(f, U) = 0}
<1>1. {} \in Q
  BY SumEmpty
<1>2. ASSUME NEW U \in SUBSET S, NEW x \in S \ U, U \in Q
      PROVE  U \cup {x} \in Q
  <2>1. IsFiniteSet(U)
    BY FS_Subset
  <2>2. SumFunctionOnSet(f, U \cup {x}) = SumFunctionOnSet(f, U) + f[x]
    BY <2>1, SumInsert
  <2> QED
    BY <1>2, <2>2
<1>3. S \in Q
  <2> HIDE DEF Q
  <2> QED BY <1>1, <1>2, InductionOnSets
<1> QED
  BY <1>3

\* Only the values on S count.
LEMMA SumSame ==
    ASSUME NEW f, NEW g, NEW S, IsFiniteSet(S), \A s \in S : f[s] \in Int /\ g[s] = f[s]
    PROVE  SumFunctionOnSet(g, S) = SumFunctionOnSet(f, S)
<1>1. \A s \in S : f[s] \in Int /\ f[s] \in Int /\ g[s] = f[s] + 0 * f[s]
  OBVIOUS
<1>2. SumFunctionOnSet(g, S) = SumFunctionOnSet(f, S) + 0 * SumFunctionOnSet(f, S)
  BY <1>1, SumCombine
<1> QED
  BY <1>2, SumInt

-----------------------------------------------------------------------------
(* Sums of functions *)

\* The same three facts for SumFunction, which sums over the whole domain.
LEMMA SumFunctionType ==
    ASSUME NEW f, IsFiniteSet(DOMAIN f)
    PROVE  /\ (\A x \in DOMAIN f : f[x] \in Int) => SumFunction(f) \in Int
           /\ (\A x \in DOMAIN f : f[x] \in Nat) => SumFunction(f) \in Nat
           /\ (\A x \in DOMAIN f : f[x] = 0) => SumFunction(f) = 0
BY SumInt, SumNat, SumZero DEF SumFunction

\* Two functions that agree wherever both are defined, one defined at one more point.
LEMMA SumFunctionExtend ==
    ASSUME NEW f, NEW g, NEW x, IsFiniteSet(DOMAIN f), x \notin DOMAIN f,
           DOMAIN g = DOMAIN f \cup {x},
           \A s \in DOMAIN f : f[s] \in Int /\ g[s] = f[s],
           g[x] \in Int
    PROVE  SumFunction(g) = SumFunction(f) + g[x]
<1>1. SumFunctionOnSet(g, DOMAIN f \cup {x}) = SumFunctionOnSet(g, DOMAIN f) + g[x]
  BY SumInsert
<1>2. SumFunctionOnSet(g, DOMAIN f) = SumFunctionOnSet(f, DOMAIN f)
  BY SumSame
<1>3. SumFunctionOnSet(f, DOMAIN f) \in Int
  BY SumInt
<1> QED
  BY <1>1, <1>2, <1>3 DEF SumFunction

\* A function on an interval, one defined at one more point.
LEMMA SumAppend ==
    ASSUME NEW n \in Nat, NEW f, NEW g, DOMAIN f = 1 .. n, DOMAIN g = 1 .. (n + 1),
           \A i \in 1 .. n : f[i] \in Int /\ g[i] = f[i],
           g[n + 1] \in Int
    PROVE  SumFunction(f) \in Int /\ SumFunction(g) = SumFunction(f) + g[n + 1]
<1>1. IsFiniteSet(DOMAIN f)
  BY FS_Interval
<1>2. n + 1 \notin DOMAIN f /\ DOMAIN g = DOMAIN f \cup {n + 1}
  OBVIOUS
<1>3. \A i \in DOMAIN f : f[i] \in Int /\ g[i] = f[i]
  OBVIOUS
<1>4. SumFunction(f) \in Int
  BY <1>1, <1>3, SumFunctionType
<1> QED
  BY <1>1, <1>2, <1>3, <1>4, SumFunctionExtend

\* Two functions on the same set that differ at one point at most.
LEMMA SumFunctionUpdate ==
    ASSUME NEW f, NEW g, NEW x \in DOMAIN f, IsFiniteSet(DOMAIN f),
           DOMAIN g = DOMAIN f,
           \A s \in DOMAIN f : f[s] \in Int /\ (s # x => g[s] = f[s]),
           g[x] \in Int
    PROVE  SumFunction(g) = SumFunction(f) + g[x] - f[x]
<1> DEFINE U == DOMAIN f \ {x}
<1>1. IsFiniteSet(U)
  BY FS_Subset
<1>2. \A s \in DOMAIN f : g[s] \in Int
  OBVIOUS
<1>3. SumFunctionOnSet(g, DOMAIN f) = g[x] + SumFunctionOnSet(g, U)
  BY <1>2, SumRemove
<1>4. SumFunctionOnSet(f, DOMAIN f) = f[x] + SumFunctionOnSet(f, U)
  BY SumRemove
<1>5. SumFunctionOnSet(g, U) = SumFunctionOnSet(f, U)
  BY <1>1, SumSame
<1>6. SumFunctionOnSet(f, U) \in Int
  BY <1>1, SumInt
<1> QED
  BY <1>3, <1>4, <1>5, <1>6 DEF SumFunction

\* The sum of a pointwise sum.
LEMMA SumFunctionAdd ==
    ASSUME NEW f, NEW g, NEW h, IsFiniteSet(DOMAIN f),
           DOMAIN g = DOMAIN f, DOMAIN h = DOMAIN f,
           \A s \in DOMAIN f : f[s] \in Int /\ g[s] \in Int /\ h[s] = f[s] + g[s]
    PROVE  SumFunction(h) = SumFunction(f) + SumFunction(g)
<1>1. SumFunctionOnSet(h, DOMAIN f) = SumFunctionOnSet(f, DOMAIN f) + 1 * SumFunctionOnSet(g, DOMAIN f)
  BY SumCombine
<1>2. SumFunctionOnSet(g, DOMAIN f) \in Int
  BY SumInt
<1> QED
  BY <1>1, <1>2 DEF SumFunction

\* A pointwise larger function has a larger sum.
LEMMA SumFunctionMonotone ==
    ASSUME NEW f, NEW g, IsFiniteSet(DOMAIN f), DOMAIN g = DOMAIN f,
           \A s \in DOMAIN f : f[s] \in Int /\ g[s] \in Int /\ f[s] <= g[s]
    PROVE  SumFunction(f) <= SumFunction(g)
<1> DEFINE h == [s \in DOMAIN f |-> g[s] - f[s]]
<1>1. \A s \in DOMAIN f : h[s] \in Nat /\ g[s] = f[s] + 1 * h[s]
  OBVIOUS
<1> HIDE DEF h
<1>2. SumFunctionOnSet(g, DOMAIN f) = SumFunctionOnSet(f, DOMAIN f) + 1 * SumFunctionOnSet(h, DOMAIN f)
  BY <1>1, SumCombine
<1>3. SumFunctionOnSet(h, DOMAIN f) \in Nat /\ SumFunctionOnSet(f, DOMAIN f) \in Int
  BY <1>1, SumNat, SumInt
<1> QED
  BY <1>2, <1>3 DEF SumFunction

\* A sum of naturals is at least each of them.
LEMMA SumFunctionBound ==
    ASSUME NEW f, IsFiniteSet(DOMAIN f), \A s \in DOMAIN f : f[s] \in Nat, NEW x \in DOMAIN f
    PROVE  f[x] <= SumFunction(f)
<1>1. IsFiniteSet(DOMAIN f \ {x})
  BY FS_Subset
<1>2. SumFunctionOnSet(f, DOMAIN f \ {x}) \in Nat
  BY <1>1, SumNat
<1>3. SumFunctionOnSet(f, DOMAIN f) = f[x] + SumFunctionOnSet(f, DOMAIN f \ {x})
  BY SumRemove
<1> QED
  BY <1>2, <1>3 DEF SumFunction

\* A sum grouped by a key: add up each group, then the groups.
LEMMA SumFunctionGroups ==
    ASSUME NEW f, NEW A, NEW key \in [DOMAIN f -> A], IsFiniteSet(DOMAIN f), IsFiniteSet(A),
           \A s \in DOMAIN f : f[s] \in Int
    PROVE  SumFunction(f) = SumFunction([a \in A |->
                 SumFunction([s \in {y \in DOMAIN f : key[y] = a} |-> f[s]])])
<1> DEFINE S == DOMAIN f
           Group(U, a) == {y \in U : key[y] = a}
           Parts(U) == [a \in A |-> SumFunctionOnSet(f, Group(U, a))]
           Q == {U \in SUBSET S : SumFunctionOnSet(f, U) = SumFunction(Parts(U))}
<1>1. ASSUME NEW U \in SUBSET S, NEW a
      PROVE  IsFiniteSet(Group(U, a)) /\ SumFunctionOnSet(f, Group(U, a)) \in Int
  <2>1. Group(U, a) \in SUBSET S
    OBVIOUS
  <2> QED BY <2>1, FS_Subset, SumInt
<1>2. {} \in Q
  <2>1. \A a \in A : Parts({})[a] = 0
    <3> TAKE a \in A
    <3>1. Group({}, a) = {}
      OBVIOUS
    <3> QED BY <3>1, SumEmpty
  <2>2. SumFunction(Parts({})) = 0
    <3>1. DOMAIN Parts({}) = A
      OBVIOUS
    <3> HIDE DEF Parts
    <3> QED BY <2>1, <3>1, SumFunctionType
  <2> QED
    BY <2>2, SumEmpty
<1>3. ASSUME NEW U \in SUBSET S, NEW x \in S \ U, U \in Q
      PROVE  U \cup {x} \in Q
  <2>1. key[x] \in A /\ f[x] \in Int /\ IsFiniteSet(U) /\ U \cup {x} \in SUBSET S
    BY FS_Subset
  <2>2. SumFunctionOnSet(f, U \cup {x}) = SumFunctionOnSet(f, U) + f[x]
    BY <2>1, SumInsert
  <2>3. Group(U \cup {x}, key[x]) = Group(U, key[x]) \cup {x} /\ x \notin Group(U, key[x])
    OBVIOUS
  <2>4. \A a \in A : a # key[x] => Group(U \cup {x}, a) = Group(U, a)
    OBVIOUS
  <2>5. \A s \in Group(U, key[x]) \cup {x} : f[s] \in Int
    OBVIOUS
  <2>6. SumFunctionOnSet(f, Group(U \cup {x}, key[x])) = SumFunctionOnSet(f, Group(U, key[x])) + f[x]
    <3>1. IsFiniteSet(Group(U, key[x]))
      BY <1>1
    <3> HIDE DEF Group
    <3> QED BY <2>3, <2>5, <3>1, SumInsert
  <2>7. SumFunction(Parts(U \cup {x})) = SumFunction(Parts(U)) + f[x]
    <3>1. /\ DOMAIN Parts(U) = A /\ DOMAIN Parts(U \cup {x}) = A
          /\ \A a \in A : Parts(U)[a] \in Int /\ Parts(U \cup {x})[a] \in Int
      BY <1>1, <2>1
    <3>2. \A a \in A : a # key[x] => Parts(U \cup {x})[a] = Parts(U)[a]
      BY <2>4
    <3>3. Parts(U \cup {x})[key[x]] = Parts(U)[key[x]] + f[x]
      BY <2>1, <2>6
    <3> HIDE DEF Parts
    <3>4. SumFunction(Parts(U \cup {x})) = SumFunction(Parts(U)) + Parts(U \cup {x})[key[x]] - Parts(U)[key[x]]
      BY <2>1, <3>1, <3>2, SumFunctionUpdate
    <3>5. SumFunction(Parts(U)) \in Int
      BY <3>1, SumFunctionType
    <3> QED BY <2>1, <3>1, <3>3, <3>4, <3>5
  <2> HIDE DEF Parts
  <2> QED
    BY <1>3, <2>1, <2>2, <2>7
<1>4. S \in Q
  <2> HIDE DEF Q
  <2> QED BY <1>2, <1>3, InductionOnSets
<1>5. ASSUME NEW a \in A
      PROVE  Parts(S)[a] = SumFunction([s \in Group(S, a) |-> f[s]])
  <2> DEFINE g == [s \in Group(S, a) |-> f[s]]
  <2>1. DOMAIN g = Group(S, a) /\ \A s \in Group(S, a) : f[s] \in Int /\ g[s] = f[s]
    OBVIOUS
  <2>2. SumFunctionOnSet(g, Group(S, a)) = SumFunctionOnSet(f, Group(S, a))
    <3>1. IsFiniteSet(Group(S, a))
      BY <1>1
    <3> HIDE DEF g, Group
    <3> QED BY <2>1, <3>1, SumSame
  <2> HIDE DEF g, Group
  <2> QED BY <2>1, <2>2 DEF SumFunction, g
<1>6. Parts(S) = [a \in A |-> SumFunction([s \in Group(S, a) |-> f[s]])]
  BY <1>5
<1> QED
  BY <1>4, <1>6 DEF SumFunction

\* The sums of the values of e over subsets of its domain: adding an element adds
\* its value, removing one subtracts it.
LEMMA SumOver ==
    ASSUME NEW e, NEW S, S \subseteq DOMAIN e, IsFiniteSet(S), \A x \in DOMAIN e : e[x] \in Nat
    PROVE  /\ SumFunction([x \in {} |-> e[x]]) = 0
           /\ SumFunction([x \in S |-> e[x]]) \in Nat
           /\ \A y \in S : /\ e[y] <= SumFunction([x \in S |-> e[x]])
                           /\ SumFunction([x \in S \ {y} |-> e[x]])
                                = SumFunction([x \in S |-> e[x]]) - e[y]
           /\ \A y \in DOMAIN e \ S : SumFunction([x \in S \cup {y} |-> e[x]])
                                        = SumFunction([x \in S |-> e[x]]) + e[y]
<1> DEFINE F(U) == [x \in U |-> e[x]]
<1>1. ASSUME NEW U, U \subseteq DOMAIN e, IsFiniteSet(U)
      PROVE  SumFunction(F(U)) = SumFunctionOnSet(e, U)
  <2>1. DOMAIN F(U) = U /\ \A x \in U : e[x] \in Int /\ F(U)[x] = e[x]
    BY <1>1
  <2> HIDE DEF F
  <2> QED BY <1>1, <2>1, SumSame DEF SumFunction
<1>2. \A y \in S : IsFiniteSet(S \ {y}) /\ SumFunctionOnSet(e, S \ {y}) \in Nat
  BY FS_Subset, SumNat
<1>3. \A y \in DOMAIN e \ S : IsFiniteSet(S \cup {y})
  BY FS_AddElement
<1>4. SumFunctionOnSet(e, S) \in Nat
  BY SumNat
<1>5. SumFunction(F({})) = 0
  BY <1>1, FS_EmptySet, SumEmpty
<1>6. ASSUME NEW y \in S
      PROVE  SumFunctionOnSet(e, S) = e[y] + SumFunctionOnSet(e, S \ {y})
  BY SumRemove
<1>7. ASSUME NEW y \in DOMAIN e \ S
      PROVE  SumFunctionOnSet(e, S \cup {y}) = SumFunctionOnSet(e, S) + e[y]
  BY SumInsert
<1>8. /\ SumFunction(F(S)) = SumFunctionOnSet(e, S)
      /\ \A y \in S : SumFunction(F(S \ {y})) = SumFunctionOnSet(e, S \ {y})
      /\ \A y \in DOMAIN e \ S : SumFunction(F(S \cup {y})) = SumFunctionOnSet(e, S \cup {y})
  <2> HIDE DEF F
  <2> QED BY <1>1, <1>2, <1>3
<1>9. \A y \in S : e[y] <= SumFunction(F(S)) /\ SumFunction(F(S \ {y})) = SumFunction(F(S)) - e[y]
  <2> HIDE DEF F
  <2> QED BY <1>2, <1>4, <1>6, <1>8
<1>10. \A y \in DOMAIN e \ S : SumFunction(F(S \cup {y})) = SumFunction(F(S)) + e[y]
  <2> HIDE DEF F
  <2> QED BY <1>7, <1>8
<1> QED
  BY <1>4, <1>5, <1>8, <1>9, <1>10

\* The same of those elements of a growing set that are in K.
SumIn(e, U) == SumFunction([x \in U |-> e[x]])

SumsSelected(e, D, K, S) ==
    /\ SumIn(e, {} \cap K) = 0
    /\ SumIn(e, S \cap K) \in Nat
    /\ \A y \in D \ S :
          /\ y \in K => SumIn(e, (S \cup {y}) \cap K) = SumIn(e, S \cap K) + e[y]
          /\ y \notin K => SumIn(e, (S \cup {y}) \cap K) = SumIn(e, S \cap K)

LEMMA SumSelected ==
    ASSUME NEW D, IsFiniteSet(D), NEW e, \A x \in D : e[x] \in Nat, DOMAIN e = D,
           NEW S \in SUBSET D, NEW K
    PROVE  SumsSelected(e, D, K, S)
<1>1. S \cap K \subseteq DOMAIN e /\ IsFiniteSet(S \cap K)
  BY FS_Subset
<1>2. /\ SumIn(e, {}) = 0 /\ SumIn(e, S \cap K) \in Nat
      /\ \A y \in DOMAIN e \ (S \cap K) :
             SumIn(e, (S \cap K) \cup {y}) = SumIn(e, S \cap K) + e[y]
  BY <1>1, SumOver DEF SumIn
<1>3. {} \cap K = {}
  OBVIOUS
<1>4. ASSUME NEW y \in DOMAIN e \ S, y \in K
      PROVE  SumIn(e, (S \cup {y}) \cap K) = SumIn(e, S \cap K) + e[y]
  <2>1. (S \cup {y}) \cap K = (S \cap K) \cup {y} /\ y \in DOMAIN e \ (S \cap K)
    BY <1>4
  <2> QED BY <1>2, <2>1
<1>5. ASSUME NEW y \in DOMAIN e \ S, y \notin K
      PROVE  SumIn(e, (S \cup {y}) \cap K) = SumIn(e, S \cap K)
  <2>1. (S \cup {y}) \cap K = S \cap K
    BY <1>5
  <2> QED BY <2>1
<1> QED
  BY <1>2, <1>3, <1>4, <1>5 DEF SumsSelected

=============================================================================
