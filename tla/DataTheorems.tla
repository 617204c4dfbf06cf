---------------------------- MODULE DataTheorems ----------------------------
(***************************************************************************)
(* The laws of the operators that the models are built from: sums over a   *)
(* finite set (Sums), the members of a set in order (Ranks), and the dates *)
(* of repeated tasks (Repeat).                                             *)
(*                                                                         *)
(* Sums and findNextTime's loop are recursive functions.  The provers      *)
(* cannot instantiate an induction theorem that takes a predicate, so each *)
(* induction takes a smallest counterexample instead: SmallestSubset gives *)
(* one for any non-empty family of subsets of a finite set, LeastNatural   *)
(* for any non-empty set of numbers.                                       *)
(***************************************************************************)
EXTENDS Sums, Ranks, Repeat, FiniteSetTheorems, TLAPS

\* A non-empty set of natural numbers has a least one.
LEMMA LeastNatural ==
  ASSUME NEW S, S \subseteq Nat, S # {}
  PROVE  \E k \in S : \A j \in S : k <= j
<1>1. PICK k \in S : \A j \in S : ~ (<<j, k>> \in OpToRel(<, Nat))
  BY NatLessThanWellFounded, WFMin
<1>2. ASSUME NEW j \in S, j < k PROVE FALSE
  <2>1. <<j, k>> \in OpToRel(<, Nat)
    BY <1>2 DEF OpToRel
  <2> QED
    BY <1>1, <2>1
<1> QED
  BY <1>2

-----------------------------------------------------------------------------
(* Sums. *)

(***************************************************************************)
(* A non-empty family of subsets of a finite set has a member none of      *)
(* whose proper subsets is in the family.                                  *)
(***************************************************************************)
LEMMA SmallestSubset ==
  ASSUME NEW S, IsFiniteSet(S),
         NEW F, F \subseteq SUBSET S, F # {}
  PROVE  \E T \in F : \A U \in F : ~ (U \subseteq T /\ U # T)
<1>1. IsWellFoundedOn(StrictSubsetOrdering(S), SUBSET S)
  BY FS_StrictSubsetOrderingWellFounded, FS_FiniteSubsetsOfFinite
<1>2. PICK T \in F : \A U \in F : ~ (<<U, T>> \in StrictSubsetOrdering(S))
  BY <1>1, WFMin
<1>3. ASSUME NEW U \in F, U \subseteq T, U # T PROVE FALSE
  <2>1. <<U, T>> \in StrictSubsetOrdering(S)
    BY <1>3 DEF StrictSubsetOrdering
  <2> QED
    BY <1>2, <2>1
<1> QED
  BY <1>3

(***************************************************************************)
(* PartialSums is what its recursive definition says it is: a function     *)
(* that satisfies the recursion equation exists.  It is built from the     *)
(* functions that satisfy the equation below each subset, which are unique *)
(* and restrict to one another.                                            *)
(***************************************************************************)
SumStep(f, s, T) == IF T = {} THEN 0 ELSE f[Pick(T)] + s[T \ {Pick(T)}]

\* s satisfies the recursion equation on every subset of R.
SumsBelow(f, s, R) == s = [T \in SUBSET R |-> SumStep(f, s, T)]

\* At most one function satisfies the recursion equation below a finite set.
LEMMA SumsBelowUnique ==
  ASSUME NEW f, NEW R, IsFiniteSet(R),
         NEW s, SumsBelow(f, s, R),
         NEW t, SumsBelow(f, t, R)
  PROVE  s = t
<1> DEFINE Differ == {T \in SUBSET R : s[T] # t[T]}
<1>1. CASE Differ = {}
  BY <1>1 DEF SumsBelow
<1>2. CASE Differ # {}
  <2>1. PICK T \in Differ : \A U \in Differ : ~ (U \subseteq T /\ U # T)
    <3>1. Differ \subseteq SUBSET R
      OBVIOUS
    <3> HIDE DEF Differ
    <3> QED BY <1>2, <3>1, SmallestSubset
  <2>2. s[T] = SumStep(f, s, T) /\ t[T] = SumStep(f, t, T)
    BY DEF SumsBelow
  <2>3. T # {} /\ Pick(T) \in T
    BY <2>2 DEF SumStep, Pick
  <2>4. T \ {Pick(T)} \notin Differ
    BY <2>1, <2>3
  <2>5. s[T \ {Pick(T)}] = t[T \ {Pick(T)}]
    BY <2>4
  <2> QED
    BY <2>2, <2>5 DEF SumStep
<1> QED
  BY <1>1, <1>2

\* The recursion equation below a set gives it below each subset of the set.
LEMMA SumsBelowRestrict ==
  ASSUME NEW f, NEW R, NEW s, SumsBelow(f, s, R), NEW Q \in SUBSET R
  PROVE  SumsBelow(f, [T \in SUBSET Q |-> s[T]], Q)
<1> DEFINE r == [T \in SUBSET Q |-> s[T]]
<1>1. ASSUME NEW T \in SUBSET Q PROVE r[T] = SumStep(f, r, T)
  <2>1. s[T] = SumStep(f, s, T)
    BY DEF SumsBelow
  <2>2. T \ {Pick(T)} \in SUBSET Q
    OBVIOUS
  <2> QED
    BY <2>1, <2>2 DEF SumStep
<1> QED
  BY <1>1 DEF SumsBelow

LEMMA SumsBelowExist ==
  ASSUME NEW f, NEW D, IsFiniteSet(D)
  PROVE  \E s : SumsBelow(f, s, D)
<1> DEFINE Bad == {R \in SUBSET D : ~ \E s : SumsBelow(f, s, R)}
<1> SUFFICES ASSUME Bad # {} PROVE FALSE
  OBVIOUS
<1>1. PICK R \in Bad : \A U \in Bad : ~ (U \subseteq R /\ U # R)
  <2>1. Bad \subseteq SUBSET D
    OBVIOUS
  <2> HIDE DEF Bad
  <2> QED BY <2>1, SmallestSubset
<1>2. R \in SUBSET D /\ ~ \E s : SumsBelow(f, s, R)
  OBVIOUS
<1> DEFINE below(T) == CHOOSE s : SumsBelow(f, s, T)
           h == [T \in SUBSET R |-> IF T = R THEN SumStep(f, [U \in SUBSET R |-> below(U)[U]], R)
                                             ELSE below(T)[T]]
<1>3. ASSUME NEW T \in SUBSET R, T # R PROVE SumsBelow(f, below(T), T)
  <2>1. T \notin Bad
    BY <1>1, <1>3
  <2>2. \E s : SumsBelow(f, s, T)
    BY <2>1, <1>2
  <2> QED BY <2>2
<1> HIDE DEF below
<1>4. ASSUME NEW T \in SUBSET R, T # R PROVE h[T] = SumStep(f, h, T)
  <2>1. below(T)[T] = SumStep(f, below(T), T)
    BY <1>3, <1>4 DEF SumsBelow
  <2>2. CASE T = {}
    BY <2>1, <2>2, <1>4 DEF SumStep
  <2>3. CASE T # {}
    <3> DEFINE U == T \ {Pick(T)}
    <3>1. Pick(T) \in T
      BY <2>3 DEF Pick
    <3>2. U \in SUBSET T /\ U \in SUBSET R /\ U # R
      BY <3>1
    <3>3. SumsBelow(f, [V \in SUBSET U |-> below(T)[V]], U)
      BY <1>3, <1>4, <3>2, SumsBelowRestrict
    <3>4. IsFiniteSet(U)
      BY <1>2, <3>2, FS_Subset
    <3>5. SumsBelow(f, below(U), U)
      BY <1>3, <3>2
    <3>6. below(U) = [V \in SUBSET U |-> below(T)[V]]
      BY <3>3, <3>4, <3>5, SumsBelowUnique
    <3>7. below(U)[U] = below(T)[U]
      BY <3>6
    <3>8. h[U] = below(U)[U] /\ h[T] = below(T)[T]
      BY <3>2, <1>4
    <3> HIDE DEF h
    <3> QED
      BY <2>1, <2>3, <3>7, <3>8 DEF SumStep
  <2> QED BY <2>2, <2>3
<1>5. h[R] = SumStep(f, h, R)
  <2>1. h[R] = SumStep(f, [U \in SUBSET R |-> below(U)[U]], R)
    OBVIOUS
  <2>2. CASE R = {}
    BY <2>1, <2>2 DEF SumStep
  <2>3. CASE R # {}
    <3>1. Pick(R) \in R
      BY <2>3 DEF Pick
    <3>2. R \ {Pick(R)} \in SUBSET R /\ R \ {Pick(R)} # R
      BY <3>1
    <3> QED
      BY <2>1, <2>3, <3>2 DEF SumStep
  <2> QED BY <2>2, <2>3
<1>6. SumsBelow(f, h, R)
  BY <1>4, <1>5 DEF SumsBelow
<1> QED
  BY <1>2, <1>6

LEMMA PartialSumsEquation ==
  ASSUME NEW f, IsFiniteSet(DOMAIN f)
  PROVE  SumsBelow(f, PartialSums(f), DOMAIN f)
<1>1. PICK s : SumsBelow(f, s, DOMAIN f)
  BY SumsBelowExist
<1> QED
  BY <1>1 DEF PartialSums, SumsBelow, SumStep

\* The recursion equation of SumOn: the empty sum, and one term split off.
LEMMA SumOnEquation ==
  ASSUME NEW f, IsFiniteSet(DOMAIN f), NEW T \in SUBSET DOMAIN f
  PROVE  SumOn(f, T) = IF T = {} THEN 0
                       ELSE f[Pick(T)] + SumOn(f, T \ {Pick(T)})
<1>1. PartialSums(f)[T] = SumStep(f, PartialSums(f), T)
  BY PartialSumsEquation DEF SumsBelow
<1> QED
  BY <1>1 DEF SumOn, SumStep

\* A sum of integers is an integer.
LEMMA SumOnType ==
  ASSUME NEW D, IsFiniteSet(D), NEW f \in [D -> Int], NEW T \in SUBSET D
  PROVE  SumOn(f, T) \in Int
<1> DEFINE Bad == {U \in SUBSET D : SumOn(f, U) \notin Int}
<1> SUFFICES ASSUME Bad # {} PROVE FALSE
  OBVIOUS
<1>1. PICK U \in Bad : \A V \in Bad : ~ (V \subseteq U /\ V # U)
  <2>1. Bad \subseteq SUBSET D
    OBVIOUS
  <2> HIDE DEF Bad
  <2> QED BY <2>1, SmallestSubset
<1>2. SumOn(f, U) = IF U = {} THEN 0 ELSE f[Pick(U)] + SumOn(f, U \ {Pick(U)})
  BY SumOnEquation
<1>3. U # {} /\ Pick(U) \in U
  BY <1>2 DEF Pick
<1>4. U \ {Pick(U)} \notin Bad
  BY <1>1, <1>3
<1> QED
  BY <1>2, <1>3, <1>4

\* Any term can be split off, not only the one the recursion picks.
LEMMA SumOnSplit ==
  ASSUME NEW D, IsFiniteSet(D), NEW f \in [D -> Int],
         NEW T \in SUBSET D, NEW x \in T
  PROVE  SumOn(f, T) = f[x] + SumOn(f, T \ {x})
<1> DEFINE Bad == {U \in SUBSET D : \E y \in U : SumOn(f, U) # f[y] + SumOn(f, U \ {y})}
<1> SUFFICES ASSUME Bad # {} PROVE FALSE
  OBVIOUS
<1>1. PICK U \in Bad : \A V \in Bad : ~ (V \subseteq U /\ V # U)
  <2>1. Bad \subseteq SUBSET D
    OBVIOUS
  <2> HIDE DEF Bad
  <2> QED BY <2>1, SmallestSubset
<1>2. PICK y \in U : SumOn(f, U) # f[y] + SumOn(f, U \ {y})
  OBVIOUS
<1> DEFINE p == Pick(U)
<1>3. p \in U
  BY DEF Pick
<1>4. SumOn(f, U) = f[p] + SumOn(f, U \ {p})
  BY SumOnEquation
<1>5. p # y
  BY <1>2, <1>4
<1>6. U \ {p} \in SUBSET D /\ U \ {y} \in SUBSET D /\ y \in U \ {p} /\ p \in U \ {y}
  BY <1>3, <1>5
<1>7. U \ {p} \notin Bad /\ U \ {y} \notin Bad
  BY <1>1, <1>3
<1>8. SumOn(f, U \ {p}) = f[y] + SumOn(f, (U \ {p}) \ {y})
  BY <1>6, <1>7
<1>9. SumOn(f, U \ {y}) = f[p] + SumOn(f, (U \ {y}) \ {p})
  BY <1>6, <1>7
<1>10. (U \ {p}) \ {y} = (U \ {y}) \ {p}
  OBVIOUS
<1>11. f[p] \in Int /\ f[y] \in Int /\ SumOn(f, (U \ {y}) \ {p}) \in Int
  BY <1>3, SumOnType
<1>12. \A a, b, c \in Int : a + (b + c) = b + (a + c)
  OBVIOUS
<1>13. f[p] + (f[y] + SumOn(f, (U \ {y}) \ {p})) = f[y] + (f[p] + SumOn(f, (U \ {y}) \ {p}))
  BY <1>11, <1>12
<1>14. SumOn(f, U) = f[y] + SumOn(f, U \ {y})
  BY <1>4, <1>8, <1>9, <1>10, <1>13
<1> QED
  BY <1>2, <1>14

\* The sum over T depends only on the values on T.
LEMMA SumOnAgree ==
  ASSUME NEW D, IsFiniteSet(D), NEW f \in [D -> Int], NEW g \in [D -> Int],
         NEW T \in SUBSET D, \A x \in T : f[x] = g[x]
  PROVE  SumOn(f, T) = SumOn(g, T)
<1> DEFINE Bad == {U \in SUBSET T : SumOn(f, U) # SumOn(g, U)}
<1> SUFFICES ASSUME Bad # {} PROVE FALSE
  OBVIOUS
<1>1. PICK U \in Bad : \A V \in Bad : ~ (V \subseteq U /\ V # U)
  <2>1. Bad \subseteq SUBSET D
    OBVIOUS
  <2> HIDE DEF Bad
  <2> QED BY <2>1, SmallestSubset
<1>2. SumOn(f, U) = IF U = {} THEN 0 ELSE f[Pick(U)] + SumOn(f, U \ {Pick(U)})
  BY SumOnEquation
<1>3. SumOn(g, U) = IF U = {} THEN 0 ELSE g[Pick(U)] + SumOn(g, U \ {Pick(U)})
  BY SumOnEquation
<1>4. U # {} /\ Pick(U) \in U
  BY <1>2, <1>3 DEF Pick
<1>5. U \ {Pick(U)} \notin Bad
  BY <1>1, <1>4
<1> QED
  BY <1>2, <1>3, <1>4, <1>5

\* A sum grows with its terms.
LEMMA SumOnMonotone ==
  ASSUME NEW D, IsFiniteSet(D), NEW f \in [D -> Int], NEW g \in [D -> Int],
         NEW T \in SUBSET D, \A x \in T : f[x] <= g[x]
  PROVE  SumOn(f, T) <= SumOn(g, T)
<1> DEFINE Bad == {U \in SUBSET T : ~ (SumOn(f, U) <= SumOn(g, U))}
<1> SUFFICES ASSUME Bad # {} PROVE FALSE
  OBVIOUS
<1>1. PICK U \in Bad : \A V \in Bad : ~ (V \subseteq U /\ V # U)
  <2>1. Bad \subseteq SUBSET D
    OBVIOUS
  <2> HIDE DEF Bad
  <2> QED BY <2>1, SmallestSubset
<1>2. SumOn(f, U) = IF U = {} THEN 0 ELSE f[Pick(U)] + SumOn(f, U \ {Pick(U)})
  BY SumOnEquation
<1>3. SumOn(g, U) = IF U = {} THEN 0 ELSE g[Pick(U)] + SumOn(g, U \ {Pick(U)})
  BY SumOnEquation
<1>4. U # {} /\ Pick(U) \in U
  BY <1>2, <1>3 DEF Pick
<1>5. /\ SumOn(f, U \ {Pick(U)}) \in Int
      /\ SumOn(g, U \ {Pick(U)}) \in Int
      /\ SumOn(f, U \ {Pick(U)}) <= SumOn(g, U \ {Pick(U)})
  <2>1. U \ {Pick(U)} \notin Bad
    BY <1>1, <1>4
  <2>2. SumOn(f, U \ {Pick(U)}) \in Int /\ SumOn(g, U \ {Pick(U)}) \in Int
    BY SumOnType
  <2> QED BY <2>1, <2>2
<1> QED
  BY <1>2, <1>3, <1>4, <1>5

\* A sum of terms none of which is negative is not negative.
LEMMA SumOnNonNegative ==
  ASSUME NEW D, IsFiniteSet(D), NEW f \in [D -> Int],
         NEW T \in SUBSET D, \A x \in T : f[x] >= 0
  PROVE  SumOn(f, T) >= 0
<1> DEFINE Bad == {U \in SUBSET T : ~ (SumOn(f, U) >= 0)}
<1> SUFFICES ASSUME Bad # {} PROVE FALSE
  OBVIOUS
<1>1. PICK U \in Bad : \A V \in Bad : ~ (V \subseteq U /\ V # U)
  <2>1. Bad \subseteq SUBSET D
    OBVIOUS
  <2> HIDE DEF Bad
  <2> QED BY <2>1, SmallestSubset
<1>2. SumOn(f, U) = IF U = {} THEN 0 ELSE f[Pick(U)] + SumOn(f, U \ {Pick(U)})
  BY SumOnEquation
<1>3. U # {} /\ Pick(U) \in U
  BY <1>2 DEF Pick
<1>4. SumOn(f, U \ {Pick(U)}) \in Int /\ SumOn(f, U \ {Pick(U)}) >= 0
  <2>1. U \ {Pick(U)} \notin Bad
    BY <1>1, <1>3
  <2>2. SumOn(f, U \ {Pick(U)}) \in Int
    BY SumOnType
  <2> QED BY <2>1, <2>2
<1> QED
  BY <1>2, <1>3, <1>4

\* A sum over T of terms that are at most M is at most M times the size of T.
LEMMA SumOnBounded ==
  ASSUME NEW D, IsFiniteSet(D), NEW f \in [D -> Int], NEW M \in Int,
         NEW T \in SUBSET D, \A x \in T : f[x] <= M
  PROVE  SumOn(f, T) <= Cardinality(T) * M
<1> DEFINE Bad == {U \in SUBSET T : ~ (SumOn(f, U) <= Cardinality(U) * M)}
<1> SUFFICES ASSUME Bad # {} PROVE FALSE
  OBVIOUS
<1>1. PICK U \in Bad : \A V \in Bad : ~ (V \subseteq U /\ V # U)
  <2>1. Bad \subseteq SUBSET D
    OBVIOUS
  <2> HIDE DEF Bad
  <2> QED BY <2>1, SmallestSubset
<1>2. SumOn(f, U) = IF U = {} THEN 0 ELSE f[Pick(U)] + SumOn(f, U \ {Pick(U)})
  BY SumOnEquation
<1>3. IsFiniteSet(U)
  BY FS_Subset
<1>4. U # {} /\ Pick(U) \in U
  <2>1. ASSUME U = {} PROVE FALSE
    <3>1. SumOn(f, U) = 0 /\ Cardinality(U) = 0
      BY <1>2, <2>1, FS_EmptySet
    <3>2. 0 <= 0 * M
      OBVIOUS
    <3>3. SumOn(f, U) <= Cardinality(U) * M
      BY <3>1, <3>2
    <3> QED BY <3>3
  <2> QED BY <2>1 DEF Pick
<1> DEFINE V == U \ {Pick(U)}
<1>5. V \notin Bad
  BY <1>1, <1>4
<1>6. SumOn(f, V) \in Int /\ f[Pick(U)] \in Int /\ f[Pick(U)] <= M
  BY <1>4, SumOnType
<1>7. Cardinality(V) = Cardinality(U) - 1 /\ Cardinality(U) \in Nat
  BY <1>3, <1>4, FS_RemoveElement, FS_CardinalityType
<1>8. SumOn(f, V) <= Cardinality(V) * M
  BY <1>5
<1>9. Cardinality(U) * M = Cardinality(V) * M + M
  <2>1. \A n \in Int : n * M = (n - 1) * M + M
    OBVIOUS
  <2> QED BY <1>7, <2>1
<1>10. Cardinality(V) * M \in Int
  BY <1>7
<1> HIDE DEF V
<1>11. SumOn(f, U) <= Cardinality(U) * M
  BY <1>2, <1>4, <1>6, <1>8, <1>9, <1>10 DEF V
<1> QED
  BY <1>11

(***************************************************************************)
(* Changing one term changes the total by the difference of that term.     *)
(***************************************************************************)
THEOREM TotalUpdate ==
  ASSUME NEW D, IsFiniteSet(D), NEW f \in [D -> Int], NEW g \in [D -> Int],
         NEW x \in D, \A y \in D \ {x} : g[y] = f[y]
  PROVE  Total(g) = Total(f) - f[x] + g[x]
<1>1. SumOn(f, D) = f[x] + SumOn(f, D \ {x})
  BY SumOnSplit
<1>2. SumOn(g, D) = g[x] + SumOn(g, D \ {x})
  BY SumOnSplit
<1>3. SumOn(f, D \ {x}) = SumOn(g, D \ {x})
  BY SumOnAgree
<1>4. SumOn(f, D \ {x}) \in Int /\ f[x] \in Int /\ g[x] \in Int
  BY SumOnType
<1> QED
  BY <1>1, <1>2, <1>3, <1>4 DEF Total

(***************************************************************************)
(* A total grows with its terms.                                           *)
(***************************************************************************)
THEOREM TotalMonotone ==
  ASSUME NEW D, IsFiniteSet(D), NEW f \in [D -> Int], NEW g \in [D -> Int],
         \A x \in D : f[x] <= g[x]
  PROVE  Total(f) <= Total(g)
BY SumOnMonotone DEF Total

(***************************************************************************)
(* A total of terms between 0 and M, one of which is 0, lies between 0 and *)
(* M times the number of the others.                                       *)
(***************************************************************************)
THEOREM TotalBounds ==
  ASSUME NEW D, IsFiniteSet(D), NEW M \in Int, NEW f \in [D -> Int],
         \A x \in D : 0 <= f[x] /\ f[x] <= M
  PROVE  /\ Total(f) \in Int
         /\ Total(f) >= 0
         /\ \A x \in D : f[x] = 0 => Total(f) <= (Cardinality(D) - 1) * M
<1>1. Total(f) \in Int /\ Total(f) >= 0
  BY SumOnType, SumOnNonNegative DEF Total
<1>2. ASSUME NEW x \in D, f[x] = 0
      PROVE  Total(f) <= (Cardinality(D) - 1) * M
  <2>1. SumOn(f, D) = f[x] + SumOn(f, D \ {x})
    BY SumOnSplit
  <2>2. SumOn(f, D \ {x}) <= Cardinality(D \ {x}) * M
    BY SumOnBounded
  <2>3. Cardinality(D \ {x}) = Cardinality(D) - 1
    BY FS_RemoveElement
  <2>4. SumOn(f, D \ {x}) \in Int
    BY SumOnType
  <2> QED
    BY <1>2, <2>1, <2>2, <2>3, <2>4 DEF Total
<1> QED
  BY <1>1, <1>2

\* A total of zeros.
LEMMA TotalZero ==
  ASSUME NEW D, IsFiniteSet(D), NEW f \in [D -> Int], \A x \in D : f[x] = 0
  PROVE  Total(f) = 0
<1>1. SumOn(f, D) >= 0
  BY SumOnNonNegative
<1>2. SumOn(f, D) <= Cardinality(D) * 0
  BY SumOnBounded
<1>3. Cardinality(D) * 0 = 0
  BY FS_CardinalityType
<1>4. SumOn(f, D) \in Int
  BY SumOnType
<1> QED
  BY <1>1, <1>2, <1>3, <1>4 DEF Total

\* A total with a single term that is not zero.
LEMMA TotalOne ==
  ASSUME NEW D, IsFiniteSet(D), NEW f \in [D -> Int], NEW x \in D,
         \A y \in D \ {x} : f[y] = 0
  PROVE  Total(f) = f[x]
<1> DEFINE zero == [y \in D |-> 0]
<1>1. zero \in [D -> Int] /\ Total(zero) = 0
  BY TotalZero
<1>2. \A y \in D \ {x} : f[y] = zero[y]
  OBVIOUS
<1>3. zero[x] = 0
  OBVIOUS
<1> HIDE DEF zero
<1>4. Total(f) = Total(zero) - zero[x] + f[x]
  BY <1>1, <1>2, TotalUpdate
<1> QED
  BY <1>1, <1>3, <1>4

-----------------------------------------------------------------------------
(* Ranks. *)

\* A finite set of numbers in order: each of its members, once.
LEMMA OrderedMembers ==
  ASSUME NEW S, S \subseteq Int, IsFiniteSet(S)
  PROVE  /\ Cardinality(S) \in Nat
         /\ Ordered(S) \in [1 .. Cardinality(S) -> S]
         /\ \A n \in S : \E k \in 1 .. Cardinality(S) : Ordered(S)[k] = n
         /\ \A j, k \in 1 .. Cardinality(S) : Ordered(S)[j] = Ordered(S)[k] => j = k
<1> DEFINE C == Cardinality(S)
           upTo(n) == {x \in S : x <= n}
           rank == [n \in S |-> Rank(S, n)]
<1>1. C \in Nat
  BY FS_CardinalityType
<1>2. IsFiniteSet(1 .. C) /\ Cardinality(1 .. C) = C
  BY <1>1, FS_Interval
<1>3. ASSUME NEW n \in S PROVE rank[n] \in 1 .. C
  <2>1. IsFiniteSet(upTo(n)) /\ Cardinality(upTo(n)) <= C
    BY FS_Subset
  <2>2. Cardinality(upTo(n)) \in Nat
    BY <2>1, FS_CardinalityType
  <2>3. n \in upTo(n)
    OBVIOUS
  <2>4. Cardinality(upTo(n)) # 0
    BY <2>1, <2>3, FS_EmptySet
  <2>5. rank[n] = Cardinality(upTo(n))
    BY DEF Rank
  <2> QED
    BY <1>1, <2>1, <2>2, <2>4, <2>5
<1>4. ASSUME NEW m \in S, NEW n \in S, m < n PROVE rank[m] # rank[n]
  <2>1. IsFiniteSet(upTo(n))
    BY FS_Subset
  <2>2. upTo(m) \in SUBSET upTo(n) /\ n \in upTo(n) /\ n \notin upTo(m)
    <3>1. m \in Int /\ n \in Int /\ ~ (n <= m) /\ n <= n
      BY <1>4
    <3>2. ASSUME NEW x \in upTo(m) PROVE x \in upTo(n)
      <4>1. x \in S /\ x \in Int /\ x <= m
        OBVIOUS
      <4> QED
        BY <1>4, <3>1, <4>1
    <3> QED
      BY <3>1, <3>2
  <2>3. Cardinality(upTo(m)) # Cardinality(upTo(n))
    BY <2>1, <2>2, FS_Subset
  <2> QED
    BY <2>3 DEF Rank
<1>5. \A m, n \in S : rank[m] = rank[n] => m = n
  BY <1>4
<1>6. rank \in Injection(S, 1 .. C)
  BY <1>3, <1>5 DEF Injection, IsInjective
<1>7. rank \in Surjection(S, 1 .. C)
  BY <1>2, <1>6, FS_Injection
<1>8. ASSUME NEW k \in 1 .. C
      PROVE  Nth(S, k) \in S /\ rank[Nth(S, k)] = k
  <2>1. \E n \in S : rank[n] = k
    BY <1>7 DEF Surjection
  <2>2. \A n \in S : rank[n] = Rank(S, n)
    OBVIOUS
  <2> HIDE DEF rank
  <2> QED
    BY <2>1, <2>2 DEF Nth
<1>9. \A n \in S : Nth(S, rank[n]) = n
  BY <1>3, <1>5, <1>8
<1> HIDE DEF rank
<1> QED
  BY <1>1, <1>3, <1>8, <1>9 DEF Ordered

-----------------------------------------------------------------------------
(***************************************************************************)
(* The calendar: every day is in one year, one month of it, and is one of  *)
(* the 28 to 31 days of that month.                                        *)
(***************************************************************************)
YearLength(y) == IF IsLeap(y) THEN 366 ELSE 365

LEMMA NextNewYear ==
  ASSUME NEW y \in Int
  PROVE  NewYear(y) \in Int /\ NewYear(y + 1) = NewYear(y) + YearLength(y)
BY DEF NewYear, LeapDaysBefore, IsLeap, YearLength

LEMMA NewYearBounds ==
  ASSUME NEW k \in Nat
  PROVE  365 * k <= NewYear(1970 + k) /\ NewYear(1970 + k) <= 366 * k
BY DEF NewYear, LeapDaysBefore

LEMMA NewYearMonotone ==
  ASSUME NEW y \in Nat, NEW z \in Nat, y <= z
  PROVE  NewYear(y) <= NewYear(z)
BY DEF NewYear, LeapDaysBefore

\* Year finds the year of a day, and it is the only one the day is in.
LEMMA YearOfDay ==
  ASSUME NEW d \in Nat
  PROVE  /\ Year(d) \in Nat /\ Year(d) >= 1970
         /\ NewYear(Year(d)) <= d /\ d < NewYear(Year(d) + 1)
<1> DEFINE Later == {k \in Nat : d < NewYear(1970 + k + 1)}
           InYear(y) == NewYear(y) <= d /\ d < NewYear(y + 1)
<1>1. PICK k \in Later : \A j \in Later : k <= j
  <2>1. 365 * (d + 1) <= NewYear(1970 + (d + 1))
    BY NewYearBounds
  <2>2. 1970 + (d + 1) = 1970 + d + 1 /\ NewYear(1970 + (d + 1)) \in Int
    BY NextNewYear
  <2>3. d \in Later
    BY <2>1, <2>2
  <2>4. Later \subseteq Nat
    OBVIOUS
  <2> HIDE DEF Later
  <2> QED
    BY <2>3, <2>4, LeastNatural
<1>2. k \in Nat /\ 1970 + k \in Nat /\ d < NewYear(1970 + k + 1)
  BY <1>1
<1>3. NewYear(1970 + k) <= d
  <2>1. CASE k = 0
    <3>1. NewYear(1970 + k) <= 366 * k /\ NewYear(1970 + k) \in Int
      BY <1>2, NewYearBounds, NextNewYear
    <3> QED
      BY <2>1, <3>1
  <2>2. CASE k # 0
    <3>1. k - 1 \in Nat /\ 1970 + (k - 1) + 1 = 1970 + k
      BY <1>2, <2>2
    <3>2. k - 1 \notin Later
      BY <1>1, <3>1
    <3> QED
      BY <1>2, <3>1, <3>2, NextNewYear
  <2> QED
    BY <2>1, <2>2
<1>4. 1970 + k \in 1970 + (d \div 366) .. 1970 + (d \div 365)
  <2>1. 365 * k <= d
    BY <1>2, <1>3, NewYearBounds, NextNewYear
  <2>2. NewYear(1970 + (k + 1)) <= 366 * (k + 1)
    BY <1>2, NewYearBounds
  <2>3. 1970 + (k + 1) = 1970 + k + 1 /\ NewYear(1970 + k + 1) \in Int
    BY <1>2, NextNewYear
  <2>4. d < 366 * (k + 1)
    BY <1>2, <2>2, <2>3
  <2> QED
    BY <1>2, <2>1, <2>4
<1>5. Year(d) \in 1970 + (d \div 366) .. 1970 + (d \div 365) /\ InYear(Year(d))
  <2>1. InYear(1970 + k)
    BY <1>2, <1>3
  <2>2. \E y \in 1970 + (d \div 366) .. 1970 + (d \div 365) : InYear(y)
    BY <1>4, <2>1
  <2> QED
    BY <2>2 DEF Year
<1> QED
  BY <1>5

LEMMA YearUnique ==
  ASSUME NEW d \in Nat, NEW y \in Nat, NewYear(y) <= d, d < NewYear(y + 1)
  PROVE  Year(d) = y
<1> DEFINE z == Year(d)
<1>1. z \in Nat /\ NewYear(z) <= d /\ d < NewYear(z + 1)
  BY YearOfDay
<1> HIDE DEF z
<1>2. NewYear(y) \in Int /\ NewYear(z) \in Int /\ NewYear(y + 1) \in Int /\ NewYear(z + 1) \in Int
  BY <1>1, NextNewYear
<1>3. ASSUME y < z PROVE FALSE
  <2>1. NewYear(y + 1) <= NewYear(z)
    BY <1>1, <1>3, NewYearMonotone
  <2> QED
    BY <1>1, <1>2, <2>1
<1>4. ASSUME z < y PROVE FALSE
  <2>1. NewYear(z + 1) <= NewYear(y)
    BY <1>1, <1>4, NewYearMonotone
  <2> QED
    BY <1>1, <1>2, <2>1
<1>5. z = y
  BY <1>1, <1>3, <1>4
<1> QED
  BY <1>5 DEF z

\* The first day of the month after month m.
NextFirst(y, m) == IF m = 12 THEN NewYear(y + 1) ELSE FirstOfMonth(y, m + 1)

LEMMA DateTimeNextMonth ==
  ASSUME NEW y \in Int, NEW m \in 1 .. 12, NEW n \in Int
  PROVE  DateTime(y, m + 1, n) = NextFirst(y, m) + n - 1
<1>1. CASE m = 12
  <2>1. y + ((m + 1 - 1) \div 12) = y + 1 /\ ((m + 1 - 1) % 12) + 1 = 1
    BY <1>1
  <2>2. DateTime(y, m + 1, n) = FirstOfMonth(y + 1, 1) + n - 1
    BY <2>1 DEF DateTime
  <2>3. FirstOfMonth(y + 1, 1) = NewYear(y + 1)
    BY NextNewYear DEF FirstOfMonth
  <2> QED
    BY <1>1, <2>2, <2>3 DEF NextFirst
<1>2. CASE m # 12
  <2>1. y + ((m + 1 - 1) \div 12) = y /\ ((m + 1 - 1) % 12) + 1 = m + 1
    BY <1>2
  <2> QED
    BY <1>2, <2>1 DEF DateTime, NextFirst
<1> QED
  BY <1>1, <1>2

\* How far into its year a month begins.
LEMMA MonthStarts ==
  ASSUME NEW y \in Int
  PROVE  /\ NewYear(y) \in Int
         /\ FirstOfMonth(y, 1) = NewYear(y)
         /\ FirstOfMonth(y, 2) = NewYear(y) + 31
         /\ \E leap \in {0, 1} :
              /\ FirstOfMonth(y, 3) = NewYear(y) + 59 + leap
              /\ FirstOfMonth(y, 4) = NewYear(y) + 90 + leap
              /\ FirstOfMonth(y, 5) = NewYear(y) + 120 + leap
              /\ FirstOfMonth(y, 6) = NewYear(y) + 151 + leap
              /\ FirstOfMonth(y, 7) = NewYear(y) + 181 + leap
              /\ FirstOfMonth(y, 8) = NewYear(y) + 212 + leap
              /\ FirstOfMonth(y, 9) = NewYear(y) + 243 + leap
              /\ FirstOfMonth(y, 10) = NewYear(y) + 273 + leap
              /\ FirstOfMonth(y, 11) = NewYear(y) + 304 + leap
              /\ FirstOfMonth(y, 12) = NewYear(y) + 334 + leap
              /\ NewYear(y + 1) = NewYear(y) + 365 + leap
<1>1. NewYear(y) \in Int /\ NewYear(y + 1) = NewYear(y) + YearLength(y)
  BY NextNewYear
<1>2. CASE IsLeap(y)
  BY <1>1, <1>2 DEF FirstOfMonth, YearLength
<1>3. CASE ~ IsLeap(y)
  BY <1>1, <1>3 DEF FirstOfMonth, YearLength
<1> QED
  BY <1>2, <1>3

LEMMA MonthLength ==
  ASSUME NEW y \in Int, NEW m \in 1 .. 12
  PROVE  /\ FirstOfMonth(y, m) \in Int
         /\ NextFirst(y, m) \in Int
         /\ NextFirst(y, m) - FirstOfMonth(y, m) \in 28 .. 31
BY MonthStarts DEF NextFirst

\* The months of a year come one after the other.
LEMMA MonthsInOrder ==
  ASSUME NEW y \in Int, NEW m \in 1 .. 12, NEW k \in 1 .. 12, m < k
  PROVE  NextFirst(y, m) <= FirstOfMonth(y, k)
<1>1. NextFirst(y, m) = FirstOfMonth(y, m + 1) /\ m + 1 \in 2 .. 12
  BY DEF NextFirst
<1>2. FirstOfMonth(y, m + 1) <= FirstOfMonth(y, k)
  BY <1>1, MonthStarts
<1> QED
  BY <1>1, <1>2

\* Day d is in month m of year y.
InMonth(d, y, m) == FirstOfMonth(y, m) <= d /\ d < NextFirst(y, m)

LEMMA MonthExists ==
  ASSUME NEW y \in Int, NEW d \in Int, NewYear(y) <= d, d < NewYear(y + 1)
  PROVE  \E m \in 1 .. 12 : InMonth(d, y, m)
BY MonthStarts DEF NextFirst, InMonth

LEMMA MonthOfDay ==
  ASSUME NEW d \in Nat
  PROVE  Month(d) \in 1 .. 12 /\ InMonth(d, Year(d), Month(d))
<1>1. /\ Year(d) \in Int
      /\ NewYear(Year(d)) <= d /\ d < NewYear(Year(d) + 1)
  BY YearOfDay
<1>2. \E m \in 1 .. 12 : InMonth(d, Year(d), m)
  BY <1>1, MonthExists
<1>3. ASSUME NEW m \in 1 .. 12 PROVE NextFirst(Year(d), m) = DateTime(Year(d), m + 1, 1)
  <2>1. NextFirst(Year(d), m) \in Int
    BY <1>1, MonthLength
  <2>2. DateTime(Year(d), m + 1, 1) = NextFirst(Year(d), m) + 1 - 1
    BY <1>1, DateTimeNextMonth
  <2> QED
    BY <2>1, <2>2
<1>4. \E m \in 1 .. 12 : FirstOfMonth(Year(d), m) <= d /\ d < DateTime(Year(d), m + 1, 1)
  BY <1>2, <1>3 DEF InMonth
<1>5. /\ Month(d) \in 1 .. 12
      /\ FirstOfMonth(Year(d), Month(d)) <= d
      /\ d < DateTime(Year(d), Month(d) + 1, 1)
  BY <1>4 DEF Month
<1> QED
  BY <1>3, <1>5 DEF InMonth

LEMMA MonthUnique ==
  ASSUME NEW d \in Nat, NEW y \in Nat, NEW m \in 1 .. 12, InMonth(d, y, m)
  PROVE  Year(d) = y /\ Month(d) = m
<1> y \in Int /\ y + 1 \in Int
  OBVIOUS
<1>1. /\ NewYear(y) \in Int /\ NewYear(y + 1) \in Int
      /\ FirstOfMonth(y, m) \in Int /\ NextFirst(y, m) \in Int
  BY MonthLength, NextNewYear
<1>2. NewYear(y) <= FirstOfMonth(y, m) /\ NextFirst(y, m) <= NewYear(y + 1)
  <2>1. NewYear(y) <= FirstOfMonth(y, m)
    BY MonthStarts
  <2>2. NextFirst(y, m) <= NewYear(y + 1)
    BY MonthStarts DEF NextFirst
  <2> QED
    BY <2>1, <2>2
<1>3. Year(d) = y
  BY <1>1, <1>2, YearUnique DEF InMonth
<1>4. Month(d) \in 1 .. 12 /\ InMonth(d, y, Month(d))
  BY <1>3, MonthOfDay
<1>5. ASSUME NEW j \in 1 .. 12, NEW k \in 1 .. 12, j < k, InMonth(d, y, j), InMonth(d, y, k)
      PROVE  FALSE
  <2>1. NextFirst(y, j) <= FirstOfMonth(y, k)
    BY <1>5, MonthsInOrder
  <2>2. NextFirst(y, j) \in Int /\ FirstOfMonth(y, k) \in Int
    BY MonthLength
  <2> QED
    BY <1>5, <2>1, <2>2 DEF InMonth
<1>6. ~ (m < Month(d)) /\ ~ (Month(d) < m)
  BY <1>4, <1>5
<1> QED
  BY <1>3, <1>4, <1>6

\* The day of the month counts the days of the only month a day is in.
LEMMA DayInMonth ==
  ASSUME NEW d \in Nat, NEW y \in Nat, NEW m \in 1 .. 12, InMonth(d, y, m)
  PROVE  DayOfMonth(d) = d - FirstOfMonth(y, m) + 1
BY MonthUnique DEF DayOfMonth

\* A month on is 28 to 31 days on.
LEMMA MonthlyStep ==
  ASSUME NEW d \in Nat
  PROVE  /\ Step("monthly", d) = d + NextFirst(Year(d), Month(d)) - FirstOfMonth(Year(d), Month(d))
         /\ Step("monthly", d) \in d + 28 .. d + 31
<1> DEFINE y == Year(d)
           m == Month(d)
<1>1. y \in Int /\ m \in 1 .. 12
  BY YearOfDay, MonthOfDay
<1>2. Step("monthly", d) = DateTime(y, m + 1, d - FirstOfMonth(y, m) + 1)
  BY DEF Step, DayOfMonth
<1> HIDE DEF y, m
<1>3. /\ FirstOfMonth(y, m) \in Int /\ NextFirst(y, m) \in Int
      /\ NextFirst(y, m) - FirstOfMonth(y, m) \in 28 .. 31
  BY <1>1, MonthLength
<1>4. DateTime(y, m + 1, d - FirstOfMonth(y, m) + 1)
        = NextFirst(y, m) + (d - FirstOfMonth(y, m) + 1) - 1
  <2>1. d - FirstOfMonth(y, m) + 1 \in Int
    BY <1>3
  <2> QED
    BY <1>1, <2>1, DateTimeNextMonth
<1>5. Step("monthly", d) = d + NextFirst(y, m) - FirstOfMonth(y, m)
  BY <1>2, <1>3, <1>4
<1>6. Step("monthly", d) \in d + 28 .. d + 31
  BY <1>3, <1>5
<1> QED
  BY <1>5, <1>6 DEF y, m

\* The day after a month is the first of another.
LEMMA MonthAfter ==
  ASSUME NEW y \in Nat, NEW m \in 1 .. 12
  PROVE  \E z \in Nat, k \in 1 .. 12 : FirstOfMonth(z, k) = NextFirst(y, m)
<1>1. CASE m = 12
  <2>1. y + 1 \in Nat /\ y + 1 \in Int
    OBVIOUS
  <2>2. FirstOfMonth(y + 1, 1) = NextFirst(y, m)
    BY <1>1, <2>1, MonthStarts DEF NextFirst
  <2> QED
    BY <2>1, <2>2
<1>2. CASE m # 12
  <2>1. FirstOfMonth(y, m + 1) = NextFirst(y, m) /\ m + 1 \in 1 .. 12
    BY <1>2 DEF NextFirst
  <2> QED
    BY <2>1
<1> QED
  BY <1>1, <1>2

\* A day that every month has comes again in the next month, and not before.
LEMMA MonthlyAgain ==
  ASSUME NEW d \in Nat, DayOfMonth(d) <= 28
  PROVE  /\ DayOfMonth(Step("monthly", d)) = DayOfMonth(d)
         /\ \A e \in d + 1 .. Step("monthly", d) - 1 : DayOfMonth(e) # DayOfMonth(d)
<1> DEFINE y == Year(d)
           m == Month(d)
           s == Step("monthly", d)
<1>1. y \in Nat /\ m \in 1 .. 12 /\ InMonth(d, y, m)
  BY YearOfDay, MonthOfDay
<1>2. DayOfMonth(d) = d - FirstOfMonth(y, m) + 1
  BY DEF DayOfMonth
<1>3. s = d + NextFirst(y, m) - FirstOfMonth(y, m) /\ s \in d + 28 .. d + 31
  BY MonthlyStep
<1> HIDE DEF y, m, s
<1>4. PICK z \in Nat, k \in 1 .. 12 : FirstOfMonth(z, k) = NextFirst(y, m)
  BY <1>1, MonthAfter
<1>5. /\ FirstOfMonth(y, m) \in Int /\ NextFirst(y, m) \in Int
      /\ FirstOfMonth(z, k) \in Int /\ NextFirst(z, k) \in Int
      /\ NextFirst(z, k) - FirstOfMonth(z, k) >= 28
  <2>1. y \in Int /\ z \in Int
    BY <1>1
  <2>2. FirstOfMonth(y, m) \in Int /\ NextFirst(y, m) \in Int
    BY <1>1, <2>1, MonthLength
  <2>3. /\ FirstOfMonth(z, k) \in Int /\ NextFirst(z, k) \in Int
        /\ NextFirst(z, k) - FirstOfMonth(z, k) \in 28 .. 31
    BY <2>1, MonthLength
  <2> QED
    BY <2>2, <2>3
<1>6. s \in Nat /\ InMonth(s, z, k)
  BY <1>1, <1>2, <1>3, <1>4, <1>5 DEF InMonth
<1>7. DayOfMonth(s) = s - FirstOfMonth(z, k) + 1
  BY <1>6, DayInMonth
<1>8. DayOfMonth(s) = DayOfMonth(d)
  BY <1>2, <1>3, <1>4, <1>5, <1>7
<1>9. ASSUME NEW e \in d + 1 .. s - 1 PROVE DayOfMonth(e) # DayOfMonth(d)
  <2>1. e \in Nat /\ d < e /\ e < s
    BY <1>6
  <2>2. CASE e < NextFirst(y, m)
    <3>1. InMonth(e, y, m)
      BY <1>1, <1>5, <2>1, <2>2 DEF InMonth
    <3>2. DayOfMonth(e) = e - FirstOfMonth(y, m) + 1
      BY <1>1, <2>1, <3>1, DayInMonth
    <3> QED
      BY <1>2, <1>5, <2>1, <3>2
  <2>3. CASE e >= NextFirst(y, m)
    <3>1. InMonth(e, z, k)
      BY <1>4, <1>5, <1>6, <2>1, <2>3 DEF InMonth
    <3>2. DayOfMonth(e) = e - FirstOfMonth(z, k) + 1
      BY <1>4, <2>1, <3>1, DayInMonth
    <3> QED
      BY <1>3, <1>2, <1>4, <1>5, <1>6, <2>1, <3>2
  <2> QED
    BY <1>5, <2>1, <2>2, <2>3
<1> QED
  BY <1>8, <1>9 DEF s

\* A day from the 29th to the 31st comes again a month on, or the next month is too
\* short for it and the day slides into the month after that.
LEMMA MonthlySlides ==
  ASSUME NEW d \in Nat, DayOfMonth(d) > 28
  PROVE  /\ DayOfMonth(d) \in 29 .. 31
         /\ \/ DayOfMonth(Step("monthly", d)) = DayOfMonth(d)
            \/ DayOfMonth(Step("monthly", d)) \in 1 .. DayOfMonth(d) - 28
<1> DEFINE y == Year(d)
           m == Month(d)
           s == Step("monthly", d)
<1>1. y \in Nat /\ m \in 1 .. 12 /\ InMonth(d, y, m)
  BY YearOfDay, MonthOfDay
<1>2. DayOfMonth(d) = d - FirstOfMonth(y, m) + 1
  BY DEF DayOfMonth
<1>3. s = d + NextFirst(y, m) - FirstOfMonth(y, m) /\ s \in Nat
  BY MonthlyStep
<1> HIDE DEF y, m, s
<1>4. PICK z \in Nat, k \in 1 .. 12 : FirstOfMonth(z, k) = NextFirst(y, m)
  BY <1>1, MonthAfter
<1>5. PICK x \in Nat, j \in 1 .. 12 : FirstOfMonth(x, j) = NextFirst(z, k)
  BY <1>4, MonthAfter
<1>6. /\ FirstOfMonth(y, m) \in Int /\ NextFirst(y, m) \in Int
      /\ NextFirst(y, m) - FirstOfMonth(y, m) \in 28 .. 31
  <2>1. y \in Int
    BY <1>1
  <2> QED
    BY <1>1, <2>1, MonthLength
<1>7. /\ FirstOfMonth(z, k) \in Int /\ NextFirst(z, k) \in Int
      /\ NextFirst(z, k) - FirstOfMonth(z, k) \in 28 .. 31
  <2>1. z \in Int
    OBVIOUS
  <2> QED
    BY <2>1, MonthLength
<1>8. /\ FirstOfMonth(x, j) \in Int /\ NextFirst(x, j) \in Int
      /\ NextFirst(x, j) - FirstOfMonth(x, j) \in 28 .. 31
  <2>1. x \in Int
    OBVIOUS
  <2> QED
    BY <2>1, MonthLength
<1>9. DayOfMonth(d) \in 29 .. 31
  BY <1>1, <1>2, <1>6 DEF InMonth
<1>10. s = NextFirst(y, m) + DayOfMonth(d) - 1
  BY <1>2, <1>3, <1>6
<1>11. CASE s < NextFirst(z, k)
  <2>1. InMonth(s, z, k)
    BY <1>4, <1>6, <1>7, <1>9, <1>10, <1>11 DEF InMonth
  <2>2. DayOfMonth(s) = s - FirstOfMonth(z, k) + 1
    BY <1>3, <2>1, DayInMonth
  <2>3. DayOfMonth(s) = DayOfMonth(d)
    BY <1>4, <1>6, <1>9, <1>10, <2>2
  <2> QED
    BY <1>9, <2>3 DEF s
<1>12. CASE ~ (s < NextFirst(z, k))
  <2>1. s >= FirstOfMonth(x, j) /\ s - FirstOfMonth(x, j) + 1 \in 1 .. DayOfMonth(d) - 28
    BY <1>3, <1>4, <1>5, <1>6, <1>7, <1>9, <1>10, <1>12
  <2>2. InMonth(s, x, j)
    BY <1>3, <1>8, <1>9, <2>1 DEF InMonth
  <2>3. DayOfMonth(s) = s - FirstOfMonth(x, j) + 1
    BY <1>3, <2>2, DayInMonth
  <2> QED
    BY <1>9, <2>1, <2>3 DEF s
<1> QED
  BY <1>11, <1>12

-----------------------------------------------------------------------------
(***************************************************************************)
(* The loops.  Every turn moves on by at least a day, so the recursion is  *)
(* well founded: the function it defines exists, and a set of days that    *)
(* the turns do not leave contains the day a loop ends with.               *)
(***************************************************************************)
Repetitions == {"daily", "weekdays", "weekends", "weekly", "monthly"}

LEMMA WeekdayType ==
  ASSUME NEW d \in Nat
  PROVE  Weekday(d) \in 1 .. 7
BY DEF Weekday

LEMMA StepAdvances ==
  ASSUME NEW r \in Repetitions, NEW d \in Nat
  PROVE  Step(r, d) \in Nat /\ Step(r, d) \in d + 1 .. d + 31
<1>1. CASE r = "monthly"
  BY <1>1, MonthlyStep
<1>2. CASE r # "monthly"
  BY <1>2, WeekdayType DEF Repetitions, Step, NextWeekday, Monday, Friday, Saturday
<1> QED
  BY <1>1, <1>2

\* What one turn makes of what the later turns give.
Turn(r, limit, f, d) == IF d > limit THEN d ELSE f[Step(r, d)]

Walk(r, limit) == CHOOSE f : f = [d \in Nat |-> Turn(r, limit, f, d)]

\* A function that satisfies the recursion equation exists: it is built downwards from
\* the limit, one day at a time.
LEMMA WalkExists ==
  ASSUME NEW r \in Repetitions, NEW limit \in Nat
  PROVE  \E f : f = [d \in Nat |-> Turn(r, limit, f, d)]
<1> DEFINE Below(k, f) == \A d \in Nat : d + k > limit => f[d] = Turn(r, limit, f, d)
           Bad == {k \in Nat : ~ \E f \in [Nat -> Nat] : Below(k, f)}
<1>1. Bad = {}
  <2> SUFFICES ASSUME Bad # {} PROVE FALSE
    OBVIOUS
  <2>1. PICK k \in Bad : \A j \in Bad : k <= j
    <3>1. Bad \subseteq Nat
      OBVIOUS
    <3> HIDE DEF Bad
    <3> QED
      BY <3>1, LeastNatural
  <2>2. k \in Nat /\ ~ \E f \in [Nat -> Nat] : Below(k, f)
    OBVIOUS
  <2>3. k # 0
    <3>1. Below(0, [d \in Nat |-> d]) /\ [d \in Nat |-> d] \in [Nat -> Nat]
      BY DEF Turn
    <3> QED
      BY <2>2, <3>1
  <2>4. k - 1 \in Nat /\ k - 1 \notin Bad
    BY <2>1, <2>2, <2>3
  <2>5. PICK f \in [Nat -> Nat] : Below(k - 1, f)
    BY <2>4
  <2> DEFINE edge == limit - (k - 1)
             g == [d \in Nat |-> IF d = edge THEN f[Step(r, d)] ELSE f[d]]
  <2>6. g \in [Nat -> Nat]
    BY StepAdvances
  <2>7. ASSUME NEW d \in Nat, d + k > limit PROVE g[d] = Turn(r, limit, g, d)
    <3>1. Step(r, d) \in Nat /\ Step(r, d) > d
      BY StepAdvances
    <3>2. d >= edge /\ (d <= limit => Step(r, d) # edge /\ g[Step(r, d)] = f[Step(r, d)])
      BY <2>2, <2>7, <3>1
    <3>3. CASE d = edge
      BY <2>2, <2>3, <3>1, <3>2, <3>3 DEF Turn
    <3>4. CASE d # edge
      <4>1. d + (k - 1) > limit
        BY <2>2, <3>2, <3>4
      <4>2. f[d] = Turn(r, limit, f, d)
        BY <2>5, <4>1
      <4> QED
        BY <3>1, <3>2, <3>4, <4>2 DEF Turn
    <3> QED
      BY <3>3, <3>4
  <2> QED
    BY <2>2, <2>6, <2>7
<1>2. limit + 1 \notin Bad
  BY <1>1
<1>3. PICK f \in [Nat -> Nat] : Below(limit + 1, f)
  BY <1>2
<1>4. \A d \in Nat : f[d] = Turn(r, limit, f, d)
  BY <1>3
<1>5. f = [d \in Nat |-> Turn(r, limit, f, d)]
  BY <1>4
<1> QED
  BY <1>5

LEMMA FirstAfterIsWalk ==
  ASSUME NEW r, NEW start, NEW limit
  PROVE  FirstAfter(r, start, limit) = Walk(r, limit)[start]
BY DEF FirstAfter, Walk, Turn

\* The rule for the loops: an invariant set of days contains the day a loop ends with.
LEMMA FirstAfterIn ==
  ASSUME NEW r \in Repetitions, NEW limit \in Nat,
         NEW P, P \subseteq Nat, NEW start \in P,
         \A d \in P : d <= limit => Step(r, d) \in P
  PROVE  FirstAfter(r, start, limit) \in P /\ FirstAfter(r, start, limit) > limit
<1> DEFINE w == Walk(r, limit)
           Ends(d) == w[d] \in P /\ w[d] > limit
           Bad == {k \in Nat : \E d \in P : d + k = limit /\ ~ Ends(d)}
<1>1. w = [d \in Nat |-> Turn(r, limit, w, d)]
  BY WalkExists DEF Walk
<1> HIDE DEF w
<1>2. ASSUME NEW d \in P, d > limit PROVE Ends(d)
  BY <1>1, <1>2 DEF Turn
<1>3. Bad = {}
  <2> SUFFICES ASSUME Bad # {} PROVE FALSE
    OBVIOUS
  <2>1. PICK k \in Bad : \A j \in Bad : k <= j
    <3>1. Bad \subseteq Nat
      OBVIOUS
    <3> HIDE DEF Bad
    <3> QED
      BY <3>1, LeastNatural
  <2>2. PICK d \in P : d + k = limit /\ ~ Ends(d)
    OBVIOUS
  <2>3. k \in Nat /\ d \in Nat
    OBVIOUS
  <2> DEFINE e == Step(r, d)
  <2>4. e \in P /\ e \in Nat /\ e > d
    BY <2>2, <2>3, StepAdvances
  <2>5. w[d] = w[e]
    BY <1>1, <2>2, <2>3 DEF Turn
  <2> HIDE DEF e
  <2>6. ~ Ends(e)
    BY <2>2, <2>5
  <2>7. e <= limit
    BY <1>2, <2>4, <2>6
  <2>8. limit - e \in Nat /\ e + (limit - e) = limit
    BY <2>4, <2>7
  <2>9. limit - e \in Bad
    BY <2>4, <2>6, <2>8
  <2> QED
    BY <2>1, <2>2, <2>3, <2>4, <2>9
<1>4. Ends(start)
  <2>1. CASE start > limit
    BY <1>2, <2>1
  <2>2. CASE ~ (start > limit)
    <3>1. limit - start \in Nat /\ start + (limit - start) = limit
      BY <2>2
    <3>2. limit - start \notin Bad
      BY <1>3
    <3> QED
      BY <3>1, <3>2
  <2> QED
    BY <2>1, <2>2
<1> QED
  BY <1>4, FirstAfterIsWalk DEF w

-----------------------------------------------------------------------------
(***************************************************************************)
(* findNextTime.  A turn of a loop goes from a day to the first suitable   *)
(* day after it, so a loop that begins that way skips no suitable day.     *)
(***************************************************************************)
\* Every month has the day of the task's date.
EveryMonth(repeat, date) == repeat = "monthly" => DayOfMonth(date) <= 28

\* A turn of the loop leads to the first suitable day after a day (that suits itself,
\* when the interval is counted from it).
LEMMA StepFollows ==
  ASSUME NEW repeat \in Repetitions, NEW date \in Nat, NEW d \in Nat, EveryMonth(repeat, date),
         repeat \in {"weekly", "monthly"} => Suits(repeat, date, d)
  PROVE  /\ Suits(repeat, date, Step(repeat, d))
         /\ \A e \in Nat : d < e /\ e < Step(repeat, d) => ~ Suits(repeat, date, e)
<1>1. CASE repeat = "monthly"
  <2>1. DayOfMonth(d) = DayOfMonth(date)
    BY <1>1 DEF Suits
  <2>2. DayOfMonth(d) <= 28
    BY <1>1, <2>1 DEF EveryMonth
  <2>3. /\ DayOfMonth(Step("monthly", d)) = DayOfMonth(d)
        /\ \A e \in d + 1 .. Step("monthly", d) - 1 : DayOfMonth(e) # DayOfMonth(d)
    BY <2>2, MonthlyAgain
  <2>4. Step("monthly", d) \in Nat
    BY StepAdvances DEF Repetitions
  <2> QED
    BY <1>1, <2>1, <2>3, <2>4 DEF Suits
<1>2. CASE repeat = "daily"
  BY <1>2 DEF Suits, Step
<1>3. CASE repeat = "weekdays"
  BY <1>3 DEF Suits, Step, NextWeekday, Weekday, Monday, Friday
<1>4. CASE repeat = "weekends"
  <2> DEFINE w == Weekday(d)
  <2>1. w \in 1 .. 7 /\ \A e \in Nat : Suits(repeat, date, e) <=> Weekday(e) \notin 1 .. 5
    BY <1>4, WeekdayType DEF Suits, Monday, Friday
  <2>2. Step(repeat, d) = d + (IF w = 6 THEN 1 ELSE IF w = 7 THEN 6 ELSE 6 - w)
    <3>1. w = 6 => Step(repeat, d) = d + 1
      BY <1>4 DEF Step, Saturday
    <3>2. w # 6 => Step(repeat, d) = d + ((6 - w) % 7)
      BY <1>4 DEF Step, NextWeekday, Saturday
    <3> HIDE DEF w
    <3> QED
      BY <2>1, <3>1, <3>2
  <2>3. ASSUME NEW e \in Nat, d <= e, e <= d + 7
        PROVE  Weekday(e) = IF w + (e - d) <= 7 THEN w + (e - d) ELSE w + (e - d) - 7
    BY <2>3 DEF Weekday
  <2> HIDE DEF w
  <2> QED
    BY <2>1, <2>2, <2>3
<1>5. CASE repeat = "weekly"
  BY <1>5 DEF Suits, Step
<1> QED
  BY <1>1, <1>2, <1>3, <1>4, <1>5 DEF Repetitions

\* The loop from the turn after day a on, until day b is passed.
LEMMA LoopFollows ==
  ASSUME NEW repeat \in Repetitions, NEW date \in Nat, EveryMonth(repeat, date),
         NEW a \in Nat, NEW b \in Nat,
         repeat \in {"weekly", "monthly"} => Suits(repeat, date, a),
         NEW n, n = FirstAfter(repeat, Step(repeat, a), b)
  PROVE  /\ n \in Nat /\ n > a /\ n > b
         /\ Suits(repeat, date, n)
         /\ \A e \in Nat : a < e /\ b < e /\ e < n => ~ Suits(repeat, date, e)
<1> DEFINE P == {d \in Nat : /\ d > a /\ Suits(repeat, date, d)
                             /\ \A e \in Nat : a < e /\ b < e /\ e < d => ~ Suits(repeat, date, e)}
<1>2. Step(repeat, a) \in P
  <2>1. Step(repeat, a) \in Nat /\ Step(repeat, a) > a
    BY StepAdvances
  <2> QED
    BY <2>1, StepFollows
<1>3. ASSUME NEW d \in P, d <= b PROVE Step(repeat, d) \in P
  <2>1. d \in Nat /\ d > a /\ Suits(repeat, date, d)
    OBVIOUS
  <2>2. Step(repeat, d) \in Nat /\ Step(repeat, d) > d
    BY <2>1, StepAdvances
  <2>3. /\ Suits(repeat, date, Step(repeat, d))
        /\ \A e \in Nat : d < e /\ e < Step(repeat, d) => ~ Suits(repeat, date, e)
    BY <2>1, StepFollows
  <2>4. \A e \in Nat : a < e /\ b < e /\ e < Step(repeat, d) => ~ Suits(repeat, date, e)
    BY <1>3, <2>1, <2>3
  <2> QED
    BY <2>1, <2>2, <2>3, <2>4
<1>4. P \subseteq Nat
  OBVIOUS
<1> HIDE DEF P
<1>5. n \in P /\ n > b
  BY <1>2, <1>3, <1>4, FirstAfterIn
<1> QED
  BY <1>5 DEF P

\* Whatever the day of the month, the loop ends at most 31 days after both days.
LEMMA LoopBounded ==
  ASSUME NEW r \in Repetitions, NEW a \in Nat, NEW b \in Nat
  PROVE  /\ FirstAfter(r, Step(r, a), b) \in Nat
         /\ FirstAfter(r, Step(r, a), b) > a
         /\ FirstAfter(r, Step(r, a), b) > b
         /\ FirstAfter(r, Step(r, a), b) <= (IF a > b THEN a ELSE b) + 31
<1> DEFINE P == {d \in Nat : d > a /\ d <= (IF a > b THEN a ELSE b) + 31}
           n == FirstAfter(r, Step(r, a), b)
<1>1. Step(r, a) \in P
  <2>1. Step(r, a) \in Nat /\ Step(r, a) \in a + 1 .. a + 31
    BY StepAdvances
  <2> QED
    BY <2>1
<1>2. ASSUME NEW d \in P, d <= b PROVE Step(r, d) \in P
  <2>1. Step(r, d) \in Nat /\ Step(r, d) \in d + 1 .. d + 31
    BY StepAdvances
  <2> QED
    BY <1>2, <2>1
<1>3. P \subseteq Nat
  OBVIOUS
<1> HIDE DEF P
<1>4. n \in P /\ n > b
  BY <1>1, <1>2, <1>3, FirstAfterIn
<1> QED
  BY <1>4 DEF P

\* The monthly loop keeps to the date's day, or to the one that it slid to.
LEMMA LoopSlides ==
  ASSUME NEW date \in Nat, DayOfMonth(date) > 28, NEW b \in Nat,
         NEW n, n = FirstAfter("monthly", Step("monthly", date), b)
  PROVE  DayOfMonth(n) = DayOfMonth(date) \/ DayOfMonth(n) \in 1 .. DayOfMonth(date) - 28
<1> DEFINE Day(d) == DayOfMonth(d) = DayOfMonth(date)
                     \/ DayOfMonth(d) \in 1 .. DayOfMonth(date) - 28
           P == {d \in Nat : Day(d)}
<1>1. DayOfMonth(date) \in 29 .. 31
  BY MonthlySlides
<1>2. "monthly" \in Repetitions
  BY DEF Repetitions
<1>3. Step("monthly", date) \in P
  <2>1. Step("monthly", date) \in Nat
    BY <1>2, StepAdvances
  <2> QED
    BY <2>1, MonthlySlides
<1>4. ASSUME NEW d \in P, d <= b PROVE Step("monthly", d) \in P
  <2>1. d \in Nat /\ Day(d)
    OBVIOUS
  <2>2. Step("monthly", d) \in Nat
    BY <1>2, <2>1, StepAdvances
  <2>3. CASE DayOfMonth(d) = DayOfMonth(date)
    <3>1. DayOfMonth(d) > 28
      BY <2>3
    <3>2. \/ DayOfMonth(Step("monthly", d)) = DayOfMonth(d)
          \/ DayOfMonth(Step("monthly", d)) \in 1 .. DayOfMonth(d) - 28
      BY <2>1, <3>1, MonthlySlides
    <3> QED
      BY <2>2, <2>3, <3>2
  <2>4. CASE DayOfMonth(d) \in 1 .. DayOfMonth(date) - 28
    <3>1. DayOfMonth(d) <= 28
      BY <1>1, <2>4
    <3>2. DayOfMonth(Step("monthly", d)) = DayOfMonth(d)
      BY <2>1, <3>1, MonthlyAgain
    <3> QED
      BY <2>2, <2>4, <3>2
  <2> QED
    BY <2>1, <2>3, <2>4
<1>5. P \subseteq Nat
  OBVIOUS
<1> HIDE DEF P
<1>6. n \in P
  BY <1>2, <1>3, <1>4, <1>5, FirstAfterIn
<1> QED
  BY <1>6 DEF P

\* findNextTime is one of the two loops.
LEMMA FindNextTimeLoops ==
  ASSUME NEW r \in Repetitions, NEW d, NEW timed, NEW t
  PROVE  FindNextTime(r, d, timed, t) = IF r \in {"weekly", "monthly"}
                                        THEN FirstAfter(r, Step(r, d), Passed(r, timed, t))
                                        ELSE FirstAfter(r, Step(r, t), d)
BY DEF FindNextTime, Repetitions

\* The day that a loop has to pass.
LEMMA PassedType ==
  ASSUME NEW r, NEW timed \in BOOLEAN, NEW t \in Nat \ {0}
  PROVE  /\ Passed(r, timed, t) \in Nat
         /\ Passed(r, timed, t) = t \/ (r = "weekly" /\ timed /\ Passed(r, timed, t) = t - 1)
BY DEF Passed

\* The next date of a task is a day after its date and not before today, which it may
\* only be if the task is weekly and timed: more than TaskCompletion assumes of NextDate.
THEOREM NextDateIsLater ==
  \A r \in {"daily", "weekdays", "weekends", "weekly", "monthly"} :
  \A d \in Nat, timed \in BOOLEAN, t \in Nat \ {0} :
    /\ FindNextTime(r, d, timed, t) \in Nat
    /\ FindNextTime(r, d, timed, t) > d
    /\ FindNextTime(r, d, timed, t) >= t
    /\ FindNextTime(r, d, timed, t) = t => r = "weekly" /\ timed
<1> SUFFICES ASSUME NEW r \in Repetitions, NEW d \in Nat, NEW timed \in BOOLEAN,
                    NEW t \in Nat \ {0}
             PROVE  /\ FindNextTime(r, d, timed, t) \in Nat
                    /\ FindNextTime(r, d, timed, t) > d
                    /\ FindNextTime(r, d, timed, t) >= t
                    /\ FindNextTime(r, d, timed, t) = t => r = "weekly" /\ timed
  BY DEF Repetitions
<1> DEFINE n == FindNextTime(r, d, timed, t)
           p == Passed(r, timed, t)
<1>p. p \in Nat /\ (p = t \/ (r = "weekly" /\ timed /\ p = t - 1))
  BY PassedType
<1>1. CASE r \in {"weekly", "monthly"}
  <2>1. n = FirstAfter(r, Step(r, d), p)
    BY <1>1, FindNextTimeLoops
  <2> HIDE DEF n, p
  <2>2. n \in Nat /\ n > d /\ n > p
    BY <1>p, <2>1, LoopBounded
  <2>3. n >= t /\ (n = t => r = "weekly" /\ timed)
    BY <1>p, <2>2
  <2> QED
    BY <2>2, <2>3 DEF n
<1>2. CASE r \notin {"weekly", "monthly"}
  <2>1. n = FirstAfter(r, Step(r, t), d) /\ t \in Nat
    BY <1>2, FindNextTimeLoops
  <2> HIDE DEF n, p
  <2>2. n \in Nat /\ n > t /\ n > d
    BY <2>1, LoopBounded
  <2> QED
    BY <2>2 DEF n
<1> QED
  BY <1>1, <1>2

\* findNextTime answers the first suitable day.
LEMMA FirstSuitableDay ==
  ASSUME NEW repeat \in Repetitions, NEW date \in Nat, NEW timed \in BOOLEAN,
         NEW today \in Nat \ {0}
  PROVE  FirstSuitable(repeat, date, timed, today, FindNextTime(repeat, date, timed, today))
<1> DEFINE n == FindNextTime(repeat, date, timed, today)
           since == Passed(repeat, timed, today)
           after == IF date > since THEN date ELSE since
<1>1. since \in Nat /\ today \in Nat
  BY PassedType
<1> HIDE DEF since
<1>a. after \in Nat
  BY <1>1
<1>2. CASE repeat = "monthly" /\ DayOfMonth(date) > 28
  <2>1. n = FirstAfter(repeat, Step(repeat, date), since)
    BY <1>2, FindNextTimeLoops DEF since
  <2>2. n \in after + 1 .. after + 31
    <3> HIDE DEF n
    <3>1. n \in Nat /\ n > date /\ n > since /\ n <= after + 31
      BY <1>1, <2>1, LoopBounded
    <3> QED
      BY <1>1, <3>1
  <2>3. DayOfMonth(n) = DayOfMonth(date) \/ DayOfMonth(n) \in 1 .. DayOfMonth(date) - 28
    <3> HIDE DEF n
    <3> QED
      BY <1>1, <1>2, <2>1, LoopSlides
  <2>4. Suits(repeat, date, n) \/ DayOfMonth(n) \in 1 .. DayOfMonth(date) - 28
    BY <1>2, <2>3 DEF Suits
  <2> HIDE DEF n
  <2> QED
    BY <1>2, <2>2, <2>4 DEF FirstSuitable, n, since
<1>3. CASE ~ (repeat = "monthly" /\ DayOfMonth(date) > 28)
  <2>1. EveryMonth(repeat, date)
    <3>1. ASSUME repeat = "monthly" PROVE DayOfMonth(date) \in Int
      <4>1. Year(date) \in Int /\ Month(date) \in 1 .. 12
        BY YearOfDay, MonthOfDay
      <4>2. FirstOfMonth(Year(date), Month(date)) \in Int
        BY <4>1, MonthLength
      <4> QED
        BY <4>2 DEF DayOfMonth
    <3> QED
      BY <1>3, <3>1 DEF EveryMonth
  <2>2. repeat \in {"weekly", "monthly"} => Suits(repeat, date, date)
    <3>1. (date - date) % 7 = 0
      OBVIOUS
    <3> QED
      BY <3>1 DEF Suits
  <2>3. /\ n \in Nat /\ n > date /\ n > since
        /\ Suits(repeat, date, n)
        /\ \A e \in Nat : date < e /\ since < e /\ e < n => ~ Suits(repeat, date, e)
    <3>1. CASE repeat \in {"weekly", "monthly"}
      <4>1. n = FirstAfter(repeat, Step(repeat, date), since)
        BY <3>1, FindNextTimeLoops DEF since
      <4> HIDE DEF n
      <4> QED
        BY <1>1, <2>1, <2>2, <4>1, LoopFollows
    <3>2. CASE repeat \notin {"weekly", "monthly"}
      <4>1. n = FirstAfter(repeat, Step(repeat, today), date)
        BY <3>2, FindNextTimeLoops
      <4>2. since = today
        BY <3>2 DEF since, Passed
      <4> HIDE DEF n
      <4> QED
        BY <1>1, <2>1, <3>2, <4>1, <4>2, LoopFollows
    <3> QED
      BY <3>1, <3>2
  <2> HIDE DEF n
  <2>4. n > after /\ Suits(repeat, date, n) /\ \A d \in after + 1 .. n - 1 : ~ Suits(repeat, date, d)
    BY <1>1, <2>3
  <2> QED
    BY <1>3, <2>4 DEF FirstSuitable, n, since
<1> QED
  BY <1>2, <1>3

\* giveMoney rewards a period once.
LEMMA OneRewardAPeriod ==
  ASSUME NEW repeat \in Repetitions, NEW today \in Nat, NEW prev \in 0 .. today
  PROVE  OncePerPeriod(repeat, prev, today, GiveMoney(repeat, prev, today))
<1>1. CASE repeat \in {"daily", "weekdays", "weekends"}
  BY <1>1 DEF OncePerPeriod, GiveMoney, Period
<1>2. CASE repeat = "weekly"
  BY <1>2 DEF OncePerPeriod, GiveMoney, Period, Weekday
<1>3. CASE repeat = "monthly"
  BY <1>3 DEF OncePerPeriod, GiveMoney, Period
<1> QED
  BY <1>1, <1>2, <1>3 DEF Repetitions
=============================================================================
