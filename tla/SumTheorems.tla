---------------------------- MODULE SumTheorems ----------------------------
(***************************************************************************)
(* Lemmas about the sums of the community module Functions, and the two    *)
(* forms of induction that the proofs of this project use.                 *)
(*                                                                         *)
(* Induction is on sets, not on formulas: a set of numbers that contains 0 *)
(* and every successor is all of Nat, and a nonempty family of subsets of  *)
(* a finite set has a smallest member.  Both follow from the library's     *)
(* theorem that a nonempty set has a minimal element under a well-founded  *)
(* relation.                                                               *)
(***************************************************************************)
EXTENDS Integers, FiniteSets, Functions, FiniteSetTheorems, WellFoundedInduction, TLAPS

-----------------------------------------------------------------------------
(* Induction. *)

\* A nonempty set of naturals has a least element.
LEMMA LeastNumber ==
  ASSUME NEW T, T \subseteq Nat, T # {}
  PROVE  \E m \in T : \A k \in T : m <= k
<1>1. PICK x \in T : \A y \in T : ~ (<<y, x>> \in OpToRel(<, Nat))
  BY WFMin, NatLessThanWellFounded
<1>2. \A y \in T : ~ (y < x)
  BY <1>1 DEF OpToRel
<1>. QED
  BY <1>2

\* Induction on the naturals, for a set.
LEMMA SetInduction ==
  ASSUME NEW T, 0 \in T, \A n \in Nat : n \in T => n + 1 \in T
  PROVE  Nat \subseteq T
<1>1. SUFFICES ASSUME Nat \ T # {} PROVE FALSE
  OBVIOUS
<1>2. PICK m \in Nat \ T : \A k \in Nat \ T : m <= k
  BY <1>1, LeastNumber
<1>3. m - 1 \in Nat /\ m - 1 \notin Nat \ T
  BY <1>2
<1>4. (m - 1) + 1 \in T
  BY <1>3
<1>. QED
  BY <1>2, <1>4

\* A nonempty family of subsets of a finite set has a member that contains no
\* other member.
LEMMA SmallestSet ==
  ASSUME NEW S, IsFiniteSet(S), NEW T, T \subseteq SUBSET S, T # {}
  PROVE  \E x \in T : \A y \in T : y \subseteq x => y = x
<1>1. T \subseteq FiniteSubsetsOf(S)
  BY FS_FiniteSubsetsOfFinite
<1>2. PICK x \in T : \A y \in T : ~ (<<y, x>> \in StrictSubsetOrdering(S))
  BY <1>1, WFMin, FS_StrictSubsetOrderingWellFounded
<1>. QED
  BY <1>2 DEF StrictSubsetOrdering

\* Induction on a finite set, one element at a time.
LEMMA FiniteInduction ==
  ASSUME NEW S, IsFiniteSet(S), NEW T, {} \in T,
         \A s \in SUBSET S : \A x \in S \ s : s \in T => s \cup {x} \in T
  PROVE  S \in T
<1> DEFINE Bad == (SUBSET S) \ T
<1>1. SUFFICES ASSUME S \notin T PROVE FALSE
  OBVIOUS
<1>2. PICK s \in Bad : \A y \in Bad : y \subseteq s => y = s
  <2>1. Bad \subseteq SUBSET S /\ Bad # {}
    BY <1>1
  <2> HIDE DEF Bad
  <2>. QED
    BY <2>1, SmallestSet
<1>3. PICK x : x \in s
  <2>1. s # {}
    BY <1>2
  <2>. QED
    BY <2>1
<1>4. s \ {x} \in T /\ (s \ {x}) \cup {x} = s
  BY <1>2, <1>3
<1>. QED
  BY <1>2, <1>3, <1>4

-----------------------------------------------------------------------------
(* What SumFunctionOnSet computes. *)

\* The element that the fold takes first, and the function that it iterates.
Pick(s) == CHOOSE x \in s : TRUE
IsSum(g, f, S) ==
  g = [s \in SUBSET S |-> IF s = {} THEN 0 ELSE f[Pick(s)] + g[s \ {Pick(s)}]]

LEMMA PickIn == ASSUME NEW s, s # {} PROVE Pick(s) \in s
  BY DEF Pick

LEMMA SumUnfold ==
  ASSUME NEW f, NEW S
  PROVE  SumFunctionOnSet(f, S) = (CHOOSE g : IsSum(g, f, S))[S]
  BY DEF SumFunctionOnSet, FoldFunctionOnSet, MapThenFoldSet, IsSum, Pick

\* There is such a function: approximations that are right up to cardinality n
\* exist for every n.
LEMMA SumExists ==
  ASSUME NEW f, NEW S, IsFiniteSet(S)
  PROVE  \E g : IsSum(g, f, S)
<1> DEFINE Step(g, s) == IF s = {} THEN 0 ELSE f[Pick(s)] + g[s \ {Pick(s)}]
           UpTo(g, n) == \A s \in SUBSET S : Cardinality(s) <= n => g[s] = Step(g, s)
           T == {n \in Nat : \E g : g = [s \in SUBSET S |-> g[s]] /\ UpTo(g, n)}
<1>0. \A s \in SUBSET S : /\ IsFiniteSet(s) /\ Cardinality(s) \in Nat
                          /\ s = {} <=> Cardinality(s) = 0
                          /\ s # {} => /\ s \ {Pick(s)} \in SUBSET S
                                       /\ Cardinality(s \ {Pick(s)}) = Cardinality(s) - 1
  BY FS_Subset, FS_CardinalityType, FS_EmptySet, FS_RemoveElement, PickIn
<1>1. 0 \in T
  <2> DEFINE g == [s \in SUBSET S |-> 0]
  <2>0. ASSUME NEW s \in SUBSET S, Cardinality(s) <= 0
        PROVE  s = {}
    <3>1. Cardinality(s) \in Nat
      BY <1>0
    <3>2. Cardinality(s) = 0
      BY <2>0, <3>1
    <3>. QED
      BY <1>0, <3>2
  <2>1. UpTo(g, 0)
    BY <2>0
  <2>2. g = [s \in SUBSET S |-> g[s]]
    OBVIOUS
  <2>. QED
    BY <2>1, <2>2
<1>2. ASSUME NEW n \in Nat, n \in T
      PROVE  n + 1 \in T
  <2>1. PICK g : UpTo(g, n)
    BY <1>2
  <2> DEFINE h == [s \in SUBSET S |-> IF Cardinality(s) <= n THEN g[s] ELSE Step(g, s)]
  <2>2. ASSUME NEW s \in SUBSET S, Cardinality(s) <= n + 1
        PROVE  h[s] = Step(h, s)
    <3>1. CASE s = {}
      <4>1. Cardinality(s) = 0
        BY <1>0, <3>1
      <4>. QED
        BY <2>1, <3>1, <4>1
    <3>2. CASE s # {}
      <4>1. h[s \ {Pick(s)}] = g[s \ {Pick(s)}]
        BY <1>0, <2>2, <3>2
      <4>2. h[s] = Step(g, s)
        BY <2>1
      <4>. QED
        BY <3>2, <4>1, <4>2
    <3>. QED
      BY <3>1, <3>2
  <2>3. UpTo(h, n + 1)
    BY <2>2
  <2>4. h = [s \in SUBSET S |-> h[s]]
    OBVIOUS
  <2>5. \E k : k = [s \in SUBSET S |-> k[s]] /\ UpTo(k, n + 1)
    <3> HIDE DEF h, UpTo
    <3>. QED
      BY <2>3, <2>4
  <2>6. n + 1 \in Nat
    OBVIOUS
  <2> HIDE DEF UpTo
  <2>. QED
    BY <2>5, <2>6
<1>3. Cardinality(S) \in T
  <2> HIDE DEF T
  <2>. QED
    BY <1>0, <1>1, <1>2, SetInduction
<1>4. PICK g : g = [s \in SUBSET S |-> g[s]] /\ UpTo(g, Cardinality(S))
  BY <1>3
<1>5. \A s \in SUBSET S : g[s] = Step(g, s)
  BY <1>4, FS_Subset
<1>6. g = [s \in SUBSET S |-> Step(g, s)]
  BY <1>4, <1>5
<1>. QED
  BY <1>6 DEF IsSum

\* Two such functions agree on a set on which the summands agree.
LEMMA SumAgree ==
  ASSUME NEW f1, NEW f2, NEW S1, NEW S2, NEW g1, NEW g2, IsSum(g1, f1, S1), IsSum(g2, f2, S2),
         NEW U, IsFiniteSet(U), U \subseteq S1, U \subseteq S2, \A x \in U : f1[x] = f2[x]
  PROVE  g1[U] = g2[U]
<1> DEFINE T == {s \in SUBSET U : g1[s] # g2[s]}
<1>1. SUFFICES ASSUME T # {} PROVE FALSE
  OBVIOUS
<1>2. PICK s \in T : \A y \in T : y \subseteq s => y = s
  <2>1. T \subseteq SUBSET U
    OBVIOUS
  <2> HIDE DEF T
  <2>. QED
    BY <1>1, <2>1, SmallestSet
<1>3. \A t \in SUBSET U : /\ g1[t] = IF t = {} THEN 0 ELSE f1[Pick(t)] + g1[t \ {Pick(t)}]
                          /\ g2[t] = IF t = {} THEN 0 ELSE f2[Pick(t)] + g2[t \ {Pick(t)}]
  BY DEF IsSum
<1>4. s # {}
  BY <1>2, <1>3
<1>5. Pick(s) \in s
  BY <1>4, PickIn
<1>6. s \ {Pick(s)} \notin T
  BY <1>2, <1>5
<1>. QED
  BY <1>2, <1>3, <1>4, <1>5, <1>6

-----------------------------------------------------------------------------
(* Facts about sums. *)

\* A sum over the empty set, and over a set with the first element apart.
LEMMA SumEmpty == ASSUME NEW f PROVE SumFunctionOnSet(f, {}) = 0
<1>1. PICK g : IsSum(g, f, {})
  BY SumExists, FS_EmptySet
<1>2. IsSum(CHOOSE h : IsSum(h, f, {}), f, {})
  BY <1>1
<1>. QED
  BY <1>2, SumUnfold DEF IsSum

LEMMA SumPick ==
  ASSUME NEW f, NEW S, IsFiniteSet(S), S # {}
  PROVE  SumFunctionOnSet(f, S) = f[Pick(S)] + SumFunctionOnSet(f, S \ {Pick(S)})
<1> DEFINE R == S \ {Pick(S)}
           g == CHOOSE h : IsSum(h, f, S)
           r == CHOOSE h : IsSum(h, f, R)
<1>1. IsFiniteSet(R) /\ R \subseteq S
  BY FS_RemoveElement
<1>2. IsSum(g, f, S)
  BY SumExists
<1>3. IsSum(r, f, R)
  BY <1>1, SumExists
<1>4. g[R] = r[R]
  <2> HIDE DEF g, r, R
  <2>. QED
    BY <1>1, <1>2, <1>3, SumAgree
<1>5. g[S] = f[Pick(S)] + g[R]
  <2> HIDE DEF g
  <2>. QED
    BY <1>2 DEF IsSum
<1>6. SumFunctionOnSet(f, S) = g[S] /\ SumFunctionOnSet(f, R) = r[R]
  BY SumUnfold
<1>. QED
  BY <1>4, <1>5, <1>6

\* A sum depends only on the values that it adds.
LEMMA SumSame ==
  ASSUME NEW f1, NEW f2, NEW S, IsFiniteSet(S), \A x \in S : f1[x] = f2[x]
  PROVE  SumFunctionOnSet(f1, S) = SumFunctionOnSet(f2, S)
<1>1. /\ IsSum(CHOOSE h : IsSum(h, f1, S), f1, S)
      /\ IsSum(CHOOSE h : IsSum(h, f2, S), f2, S)
  BY SumExists
<1>2. (CHOOSE h : IsSum(h, f1, S))[S] = (CHOOSE h : IsSum(h, f2, S))[S]
  BY <1>1, SumAgree
<1>. QED
  BY <1>2, SumUnfold

\* The type of a sum.
LEMMA SumInt ==
  ASSUME NEW f, NEW S, IsFiniteSet(S), \A x \in S : f[x] \in Int
  PROVE  SumFunctionOnSet(f, S) \in Int
<1> DEFINE T == {s \in SUBSET S : SumFunctionOnSet(f, s) \notin Int}
<1>1. SUFFICES ASSUME T # {} PROVE FALSE
  OBVIOUS
<1>2. PICK s \in T : \A y \in T : y \subseteq s => y = s
  <2>1. T \subseteq SUBSET S
    OBVIOUS
  <2> HIDE DEF T
  <2>. QED
    BY <1>1, <2>1, SmallestSet
<1>3. s # {} /\ IsFiniteSet(s)
  <2>1. SumFunctionOnSet(f, {}) \in Int
    BY SumEmpty
  <2>. QED
    BY <1>2, <2>1, FS_Subset
<1>4. Pick(s) \in s /\ s \ {Pick(s)} \notin T
  BY <1>2, <1>3, PickIn
<1>5. SumFunctionOnSet(f, s) = f[Pick(s)] + SumFunctionOnSet(f, s \ {Pick(s)})
  BY <1>3, SumPick
<1>6. f[Pick(s)] \in Int /\ SumFunctionOnSet(f, s \ {Pick(s)}) \in Int
  BY <1>4
<1>. QED
  BY <1>2, <1>5, <1>6

\* The elements can be taken in any order.
LEMMA SumRemove ==
  ASSUME NEW f, NEW S, IsFiniteSet(S), \A x \in S : f[x] \in Int, NEW x \in S
  PROVE  SumFunctionOnSet(f, S) = f[x] + SumFunctionOnSet(f, S \ {x})
<1> DEFINE Good(s) == \A y \in s : SumFunctionOnSet(f, s) = f[y] + SumFunctionOnSet(f, s \ {y})
           T == {s \in SUBSET S : ~ Good(s)}
<1>1. SUFFICES ASSUME T # {} PROVE FALSE
  OBVIOUS
<1>2. PICK s \in T : \A y \in T : y \subseteq s => y = s
  <2>1. T \subseteq SUBSET S
    OBVIOUS
  <2> HIDE DEF T
  <2>. QED
    BY <1>1, <2>1, SmallestSet
<1>3. PICK y \in s : SumFunctionOnSet(f, s) # f[y] + SumFunctionOnSet(f, s \ {y})
  BY <1>2
<1> DEFINE p == Pick(s)
<1>4. p \in s /\ IsFiniteSet(s)
  BY <1>3, PickIn, FS_Subset
<1>5. SumFunctionOnSet(f, s) = f[p] + SumFunctionOnSet(f, s \ {p})
  BY <1>3, <1>4, SumPick
<1> HIDE DEF p
<1>6. p # y
  BY <1>3, <1>5
<1>7. s \ {p} \notin T /\ s \ {y} \notin T
  BY <1>2, <1>3, <1>4
<1>8. Good(s \ {p}) /\ Good(s \ {y})
  BY <1>7
<1>9. /\ SumFunctionOnSet(f, s \ {p}) = f[y] + SumFunctionOnSet(f, (s \ {p}) \ {y})
      /\ SumFunctionOnSet(f, s \ {y}) = f[p] + SumFunctionOnSet(f, (s \ {y}) \ {p})
  BY <1>3, <1>4, <1>6, <1>8
<1>10. (s \ {p}) \ {y} = (s \ {y}) \ {p}
  OBVIOUS
<1>11. f[p] \in Int /\ f[y] \in Int /\ SumFunctionOnSet(f, (s \ {p}) \ {y}) \in Int
  <2>1. IsFiniteSet((s \ {p}) \ {y}) /\ \A z \in (s \ {p}) \ {y} : f[z] \in Int
    BY <1>4, FS_RemoveElement
  <2>. QED
    BY <1>3, <1>4, <2>1, SumInt
<1>12. f[p] + (f[y] + SumFunctionOnSet(f, (s \ {p}) \ {y}))
         = f[y] + (f[p] + SumFunctionOnSet(f, (s \ {p}) \ {y}))
  BY <1>11
<1>. QED
  BY <1>3, <1>5, <1>9, <1>10, <1>12

\* A sum with one element more.
LEMMA SumAdd ==
  ASSUME NEW f, NEW S, IsFiniteSet(S), \A y \in S : f[y] \in Int, NEW x, x \notin S, f[x] \in Int
  PROVE  SumFunctionOnSet(f, S \cup {x}) = SumFunctionOnSet(f, S) + f[x]
<1>1. IsFiniteSet(S \cup {x}) /\ \A y \in S \cup {x} : f[y] \in Int
  BY FS_AddElement
<1>2. SumFunctionOnSet(f, S \cup {x}) = f[x] + SumFunctionOnSet(f, (S \cup {x}) \ {x})
  BY <1>1, SumRemove
<1>3. (S \cup {x}) \ {x} = S
  OBVIOUS
<1>4. SumFunctionOnSet(f, S) \in Int
  BY SumInt
<1>5. f[x] + SumFunctionOnSet(f, S) = SumFunctionOnSet(f, S) + f[x]
  BY <1>4
<1>. QED
  BY <1>2, <1>3, <1>5

\* The larger summands have the larger sum.
LEMMA SumLeq ==
  ASSUME NEW f1, NEW f2, NEW S, IsFiniteSet(S),
         \A x \in S : f1[x] \in Int /\ f2[x] \in Int /\ f1[x] <= f2[x]
  PROVE  SumFunctionOnSet(f1, S) <= SumFunctionOnSet(f2, S)
<1> DEFINE T == {s \in SUBSET S : SumFunctionOnSet(f1, s) <= SumFunctionOnSet(f2, s)}
<1>1. {} \in T
  BY SumEmpty
<1>2. ASSUME NEW s \in SUBSET S, NEW x \in S \ s, s \in T
      PROVE  s \cup {x} \in T
  <2>1. IsFiniteSet(s)
    BY FS_Subset
  <2>2. /\ SumFunctionOnSet(f1, s \cup {x}) = SumFunctionOnSet(f1, s) + f1[x]
        /\ SumFunctionOnSet(f2, s \cup {x}) = SumFunctionOnSet(f2, s) + f2[x]
    BY <2>1, SumAdd
  <2>3. SumFunctionOnSet(f1, s) \in Int /\ SumFunctionOnSet(f2, s) \in Int
    BY <2>1, SumInt
  <2>. QED
    BY <1>2, <2>2, <2>3
<1>3. S \in T
  <2> HIDE DEF T
  <2>. QED
    BY <1>1, <1>2, FiniteInduction
<1>. QED
  BY <1>3

\* Summands of 0 have the sum 0, naturals a natural, which is at least every
\* summand.
LEMMA SumZero ==
  ASSUME NEW f, NEW S, IsFiniteSet(S), \A x \in S : f[x] = 0
  PROVE  SumFunctionOnSet(f, S) = 0
<1> DEFINE T == {s \in SUBSET S : SumFunctionOnSet(f, s) = 0}
<1>1. {} \in T
  BY SumEmpty
<1>2. ASSUME NEW s \in SUBSET S, NEW x \in S \ s, s \in T
      PROVE  s \cup {x} \in T
  <2>1. IsFiniteSet(s)
    BY FS_Subset
  <2>2. SumFunctionOnSet(f, s \cup {x}) = SumFunctionOnSet(f, s) + f[x]
    BY <2>1, SumAdd
  <2>. QED
    BY <1>2, <2>2
<1>3. S \in T
  <2> HIDE DEF T
  <2>. QED
    BY <1>1, <1>2, FiniteInduction
<1>. QED
  BY <1>3

LEMMA SumNat ==
  ASSUME NEW f, NEW S, IsFiniteSet(S), \A x \in S : f[x] \in Nat
  PROVE  SumFunctionOnSet(f, S) \in Nat
<1> DEFINE z == [x \in S |-> 0]
<1>1. SumFunctionOnSet(z, S) = 0
  BY SumZero
<1>2. SumFunctionOnSet(z, S) <= SumFunctionOnSet(f, S)
  <2>1. \A x \in S : z[x] \in Int /\ f[x] \in Int /\ z[x] <= f[x]
    OBVIOUS
  <2> HIDE DEF z
  <2>. QED
    BY <2>1, SumLeq
<1>3. SumFunctionOnSet(f, S) \in Int
  BY SumInt
<1>. QED
  BY <1>1, <1>2, <1>3

LEMMA SumMember ==
  ASSUME NEW f, NEW S, IsFiniteSet(S), \A x \in S : f[x] \in Nat, NEW x \in S
  PROVE  f[x] <= SumFunctionOnSet(f, S)
<1>1. SumFunctionOnSet(f, S) = f[x] + SumFunctionOnSet(f, S \ {x})
  BY SumRemove
<1>2. SumFunctionOnSet(f, S \ {x}) \in Nat
  BY SumNat, FS_RemoveElement
<1>. QED
  BY <1>1, <1>2

\* One summand changes.
LEMMA SumChange ==
  ASSUME NEW f1, NEW f2, NEW S, IsFiniteSet(S), NEW x \in S,
         \A y \in S : f1[y] \in Int /\ f2[y] \in Int,
         \A y \in S \ {x} : f1[y] = f2[y]
  PROVE  SumFunctionOnSet(f2, S) = SumFunctionOnSet(f1, S) + (f2[x] - f1[x])
<1>1. IsFiniteSet(S \ {x})
  BY FS_RemoveElement
<1>2. /\ SumFunctionOnSet(f1, S) = f1[x] + SumFunctionOnSet(f1, S \ {x})
      /\ SumFunctionOnSet(f2, S) = f2[x] + SumFunctionOnSet(f2, S \ {x})
  BY SumRemove
<1>3. SumFunctionOnSet(f1, S \ {x}) = SumFunctionOnSet(f2, S \ {x})
  BY <1>1, SumSame
<1>4. SumFunctionOnSet(f1, S \ {x}) \in Int
  BY <1>1, SumInt
<1>. QED
  BY <1>2, <1>3, <1>4

\* Every element counts once.
LEMMA SumOnes ==
  ASSUME NEW f, NEW S, IsFiniteSet(S), \A x \in S : f[x] = 1
  PROVE  SumFunctionOnSet(f, S) = Cardinality(S)
<1> DEFINE T == {s \in SUBSET S : SumFunctionOnSet(f, s) = Cardinality(s)}
<1>1. {} \in T
  BY SumEmpty, FS_EmptySet
<1>2. ASSUME NEW s \in SUBSET S, NEW x \in S \ s, s \in T
      PROVE  s \cup {x} \in T
  <2>1. IsFiniteSet(s)
    BY FS_Subset
  <2>2. SumFunctionOnSet(f, s \cup {x}) = SumFunctionOnSet(f, s) + f[x]
    BY <2>1, SumAdd
  <2>3. Cardinality(s \cup {x}) = Cardinality(s) + 1
    BY <2>1, FS_AddElement
  <2>. QED
    BY <1>2, <2>2, <2>3
<1>3. S \in T
  <2> HIDE DEF T
  <2>. QED
    BY <1>1, <1>2, FiniteInduction
<1>. QED
  BY <1>3

\* The sum of two functions.
LEMMA SumPlus ==
  ASSUME NEW f, NEW g, NEW h, NEW S, IsFiniteSet(S),
         \A x \in S : f[x] \in Int /\ g[x] \in Int /\ h[x] = f[x] + g[x]
  PROVE  SumFunctionOnSet(h, S) = SumFunctionOnSet(f, S) + SumFunctionOnSet(g, S)
<1> DEFINE T == {s \in SUBSET S :
             SumFunctionOnSet(h, s) = SumFunctionOnSet(f, s) + SumFunctionOnSet(g, s)}
<1>1. {} \in T
  BY SumEmpty
<1>2. ASSUME NEW s \in SUBSET S, NEW x \in S \ s, s \in T
      PROVE  s \cup {x} \in T
  <2>1. IsFiniteSet(s) /\ \A y \in s : f[y] \in Int /\ g[y] \in Int /\ h[y] \in Int
    BY FS_Subset
  <2>2. /\ SumFunctionOnSet(f, s \cup {x}) = SumFunctionOnSet(f, s) + f[x]
        /\ SumFunctionOnSet(g, s \cup {x}) = SumFunctionOnSet(g, s) + g[x]
        /\ SumFunctionOnSet(h, s \cup {x}) = SumFunctionOnSet(h, s) + h[x]
    BY <2>1, SumAdd
  <2>3. SumFunctionOnSet(f, s) \in Int /\ SumFunctionOnSet(g, s) \in Int
    BY <2>1, SumInt
  <2>4. SumFunctionOnSet(h, s \cup {x}) = SumFunctionOnSet(f, s \cup {x}) + SumFunctionOnSet(g, s \cup {x})
    BY <1>2, <2>2, <2>3
  <2>. QED
    BY <2>4
<1>3. S \in T
  <2> HIDE DEF T
  <2>. QED
    BY <1>1, <1>2, FiniteInduction
<1>. QED
  BY <1>3

\* A table adds up to the same by rows and by columns.
LEMMA SumSwap ==
  ASSUME NEW S, IsFiniteSet(S), NEW T, IsFiniteSet(T), NEW h,
         \A x \in S, y \in T : h[x][y] \in Int
  PROVE  SumFunctionOnSet([x \in S |-> SumFunctionOnSet(h[x], T)], S)
           = SumFunctionOnSet([y \in T |-> SumFunctionOnSet([x \in S |-> h[x][y]], S)], T)
<1> DEFINE row == [x \in S |-> SumFunctionOnSet(h[x], T)]
           col(y) == [x \in S |-> h[x][y]]
           cols(s) == [y \in T |-> SumFunctionOnSet(col(y), s)]
           Good == {s \in SUBSET S : SumFunctionOnSet(row, s) = SumFunctionOnSet(cols(s), T)}
<1>1. {} \in Good
  <2>1. \A y \in T : cols({})[y] = 0
    BY SumEmpty
  <2>2. SumFunctionOnSet(cols({}), T) = 0
    <3> HIDE DEF cols
    <3>. QED
      BY <2>1, SumZero
  <2>3. SumFunctionOnSet(row, {}) = 0
    BY SumEmpty
  <2>. QED
    BY <2>2, <2>3
<1>2. ASSUME NEW s \in SUBSET S, NEW x \in S \ s, s \in Good
      PROVE  s \cup {x} \in Good
  <2>1. IsFiniteSet(s)
    BY FS_Subset
  <2>2. \A z \in S : row[z] \in Int /\ row[z] = SumFunctionOnSet(h[z], T)
    BY SumInt
  <2>3. SumFunctionOnSet(row, s \cup {x}) = SumFunctionOnSet(row, s) + SumFunctionOnSet(h[x], T)
    <3> HIDE DEF row
    <3>. QED
      BY <2>1, <2>2, SumAdd
  <2>4. ASSUME NEW y \in T
        PROVE  /\ cols(s)[y] \in Int
               /\ cols(s \cup {x})[y] = cols(s)[y] + h[x][y]
    <3>1. \A z \in S : col(y)[z] \in Int /\ col(y)[z] = h[z][y]
      OBVIOUS
    <3> HIDE DEF col
    <3>2. SumFunctionOnSet(col(y), s) \in Int
      BY <2>1, <3>1, SumInt
    <3>3. SumFunctionOnSet(col(y), s \cup {x}) = SumFunctionOnSet(col(y), s) + col(y)[x]
      BY <2>1, <3>1, SumAdd
    <3>. QED
      BY <3>1, <3>2, <3>3
  <2>5. SumFunctionOnSet(cols(s \cup {x}), T) = SumFunctionOnSet(cols(s), T) + SumFunctionOnSet(h[x], T)
    <3> DEFINE old == cols(s)
               new == cols(s \cup {x})
               row_x == h[x]
    <3>1. \A y \in T : old[y] \in Int /\ row_x[y] \in Int /\ new[y] = old[y] + row_x[y]
      BY <2>4
    <3> HIDE DEF old, new, row_x
    <3>2. SumFunctionOnSet(new, T) = SumFunctionOnSet(old, T) + SumFunctionOnSet(row_x, T)
      BY <3>1, SumPlus
    <3>. QED
      BY <3>2 DEF old, new, row_x
  <2>. QED
    BY <1>2, <2>3, <2>5
<1>3. S \in Good
  <2> HIDE DEF Good
  <2>. QED
    BY <1>1, <1>2, FiniteInduction
<1>. QED
  BY <1>3

\* The elements of a set, counted by the values of a function on it.
Preimage(g, S, T) == {s \in S : g[s] \in T}

LEMMA SumFibers ==
  ASSUME NEW S, IsFiniteSet(S), NEW T, IsFiniteSet(T), NEW g, NEW c,
         \A x \in T : c[x] = Cardinality(Preimage(g, S, {x}))
  PROVE  SumFunctionOnSet(c, T) = Cardinality(Preimage(g, S, T))
<1> DEFINE Into(u) == Preimage(g, S, u)
           Good == {u \in SUBSET T : SumFunctionOnSet(c, u) = Cardinality(Into(u))}
<1>0. \A u : IsFiniteSet(Into(u)) /\ Cardinality(Into(u)) \in Nat
  BY FS_Subset, FS_CardinalityType DEF Preimage
<1>1. {} \in Good
  <2>1. Into({}) = {}
    BY DEF Preimage
  <2>. QED
    BY <2>1, SumEmpty, FS_EmptySet
<1>2. ASSUME NEW u \in SUBSET T, NEW x \in T \ u, u \in Good
      PROVE  u \cup {x} \in Good
  <2>1. Into(u \cup {x}) = Into(u) \cup Into({x}) /\ Into(u) \cap Into({x}) = {}
    BY DEF Preimage
  <2>2. \A y \in T : c[y] = Cardinality(Into({y}))
    OBVIOUS
  <2> HIDE DEF Into
  <2>3. IsFiniteSet(u) /\ \A y \in T : c[y] \in Int
    <3>1. \A y \in T : c[y] \in Nat
      BY <1>0, <2>2, Zenon
    <3>. QED
      BY <3>1, FS_Subset
  <2>4. Cardinality(Into(u \cup {x})) = Cardinality(Into(u)) + Cardinality(Into({x}))
    <3>1. Cardinality(Into(u) \cup Into({x}))
            = Cardinality(Into(u)) + Cardinality(Into({x})) - Cardinality(Into(u) \cap Into({x}))
      BY <1>0, FS_Union
    <3>2. Cardinality(Into(u) \cap Into({x})) = 0
      BY <2>1, FS_EmptySet
    <3>3. Cardinality(Into(u)) \in Nat /\ Cardinality(Into({x})) \in Nat
      BY <1>0, Zenon
    <3>4. Cardinality(Into(u \cup {x}))
            = Cardinality(Into(u)) + Cardinality(Into({x})) - Cardinality(Into(u) \cap Into({x}))
      BY <2>1, <3>1, Zenon
    <3>. QED
      BY <3>2, <3>3, <3>4
  <2>5. SumFunctionOnSet(c, u \cup {x}) = SumFunctionOnSet(c, u) + c[x]
    BY <2>3, SumAdd
  <2>. QED
    BY <1>2, <2>2, <2>4, <2>5
<1>3. T \in Good
  <2> HIDE DEF Good
  <2>. QED
    BY <1>1, <1>2, FiniteInduction
<1>. QED
  BY <1>3

\* A sum from 0 and the same sum from 1.
LEMMA SumShift ==
  ASSUME NEW n \in Nat, NEW f, NEW h, \A k \in 0 .. n - 1 : f[k + 1] \in Int /\ h[k] = f[k + 1]
  PROVE  SumFunctionOnSet(h, 0 .. n - 1) = SumFunctionOnSet(f, 1 .. n)
<1> DEFINE T == {m \in Nat : m <= n => SumFunctionOnSet(h, 0 .. m - 1) = SumFunctionOnSet(f, 1 .. m)}
<1>1. 0 \in T
  <2>1. 0 .. 0 - 1 = {} /\ 1 .. 0 = {}
    OBVIOUS
  <2>. QED
    BY <2>1, SumEmpty
<1>2. ASSUME NEW m \in Nat, m \in T
      PROVE  m + 1 \in T
  <2>1. SUFFICES ASSUME m + 1 <= n
                 PROVE  SumFunctionOnSet(h, 0 .. (m + 1) - 1) = SumFunctionOnSet(f, 1 .. m + 1)
    OBVIOUS
  <2> DEFINE lo == 0 .. m - 1
             hi == 1 .. m
  <2>2. 0 .. (m + 1) - 1 = lo \cup {m} /\ 1 .. m + 1 = hi \cup {m + 1}
    OBVIOUS
  <2>3. /\ m \notin lo /\ \A k \in lo : h[k] \in Int
        /\ m + 1 \notin hi
        /\ h[m] \in Int /\ f[m + 1] \in Int /\ h[m] = f[m + 1]
    BY <2>1
  <2>7. IsFiniteSet(lo) /\ IsFiniteSet(hi)
    BY FS_Interval
  <2>4. ASSUME NEW k \in hi
        PROVE  f[k] \in Int
    <3>1. k - 1 \in 0 .. n - 1 /\ (k - 1) + 1 = k
      BY <2>1
    <3>. QED
      BY <3>1
  <2>5. SumFunctionOnSet(h, lo) = SumFunctionOnSet(f, hi)
    BY <1>2, <2>1
  <2> HIDE DEF lo, hi
  <2>6. /\ SumFunctionOnSet(h, lo \cup {m}) = SumFunctionOnSet(h, lo) + h[m]
        /\ SumFunctionOnSet(f, hi \cup {m + 1}) = SumFunctionOnSet(f, hi) + f[m + 1]
    BY <2>3, <2>4, <2>7, SumAdd
  <2>. QED
    BY <2>2, <2>3, <2>5, <2>6
<1>3. n \in T
  <2> HIDE DEF T
  <2>. QED
    BY <1>1, <1>2, SetInduction
<1>. QED
  BY <1>3

=============================================================================
