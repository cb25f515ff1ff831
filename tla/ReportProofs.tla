---------------------------- MODULE ReportProofs ----------------------------
(***************************************************************************)
(* Proofs about Campaign and Report, for every configuration, any number   *)
(* of applications, units, runs and plots, and any machine.                *)
(***************************************************************************)
EXTENDS Report, SumTheorems, SequenceTheorems, TLAPS

(* Pairs. *)

LEMMA PairIs ==
  ASSUME NEW x, NEW y, NEW S, NEW z \in Seq(S), Len(z) = 2, z[1] = x, z[2] = y
  PROVE  z = <<x, y>>
OBVIOUS

LEMMA AppendPair ==
  ASSUME NEW x, NEW y
  PROVE  Append(<<x>>, y) = <<x, y>>
<1> DEFINE S == {x, y}
           l == <<x>>
           z == Append(l, y)
<1>1. l \in Seq(S) /\ y \in S /\ Len(l) = 1 /\ l[1] = x
  OBVIOUS
<1> HIDE DEF S, l
<1>2. z \in Seq(S) /\ Len(z) = Len(l) + 1
  BY <1>1, AppendProperties
<1>3. z[Len(l) + 1] = y
  BY <1>1, AppendProperties
<1>4. \A i \in 1 .. Len(l) : z[i] = l[i]
  BY <1>1, AppendProperties
<1> HIDE DEF z
<1>5. Len(z) = 2 /\ z[1] = x /\ z[2] = y
  BY <1>1, <1>2, <1>3, <1>4
<1>6. z = <<x, y>>
  BY <1>2, <1>5, PairIs
<1>. QED
  BY <1>6 DEF z, l

USE CampaignAssumption

-----------------------------------------------------------------------------
(* Sorted lists. *)

\* A finite set of numbers has a largest element.
LEMMA LargestNumber ==
  ASSUME NEW S \in SUBSET Int, IsFiniteSet(S), S # {}
  PROVE  \E m \in S : \A y \in S : y <= m
<1> DEFINE T == {s \in SUBSET S : s = {} \/ \E m \in s : \A y \in s : y <= m}
<1>1. {} \in T
  OBVIOUS
<1>2. ASSUME NEW s \in SUBSET S, NEW x \in S \ s, s \in T
      PROVE  s \cup {x} \in T
  <2>1. CASE s = {}
    BY <2>1
  <2>2. CASE s # {}
    <3>1. PICK m \in s : \A y \in s : y <= m
      BY <1>2, <2>2
    <3>2. CASE m <= x
      <4>1. \A y \in s \cup {x} : y <= x
        BY <3>1, <3>2
      <4>. QED
        BY <4>1
    <3>3. CASE ~ (m <= x)
      <4>1. \A y \in s \cup {x} : y <= m
        BY <3>1, <3>3
      <4>. QED
        BY <4>1
    <3>. QED
      BY <3>2, <3>3
  <2>. QED
    BY <2>1, <2>2
<1>3. S \in T
  <2> HIDE DEF T
  <2>. QED
    BY <1>1, <1>2, FiniteInduction
<1>. QED
  BY <1>3

\* Max of a nonempty finite set of numbers.
LEMMA MaxShape ==
  ASSUME NEW S \in SUBSET Int, IsFiniteSet(S), S # {}
  PROVE  Max(S) \in S /\ \A y \in S : y <= Max(S)
<1>1. PICK m \in S : \A y \in S : y <= m
  BY LargestNumber
<1>2. \E x \in S : \A y \in S : x >= y
  BY <1>1
<1>3. Max(S) \in S /\ \A y \in S : Max(S) >= y
  BY <1>2 DEF Max
<1>. QED
  BY <1>3

\* The numbers of a finite set can be sorted: the largest comes last.
Increasing(s) == \A m, n \in DOMAIN s : m < n => s[m] < s[n]

LEMMA AscendingExists ==
  ASSUME NEW S \in SUBSET Int, IsFiniteSet(S)
  PROVE  \E s \in [1 .. Cardinality(S) -> S] : Increasing(s)
<1> DEFINE Sortable(R) == \E s \in [1 .. Cardinality(R) -> R] : Increasing(s)
           T == {n \in Nat : \A R \in SUBSET Int :
                   IsFiniteSet(R) /\ Cardinality(R) = n => Sortable(R)}
<1>1. 0 \in T
  <2>1. ASSUME NEW R \in SUBSET Int, IsFiniteSet(R), Cardinality(R) = 0
        PROVE  Sortable(R)
    <3> DEFINE s == [m \in {} |-> 0]
    <3>1. 1 .. Cardinality(R) = {}
      BY <2>1
    <3>2. s \in [1 .. Cardinality(R) -> R] /\ Increasing(s)
      BY <3>1 DEF Increasing
    <3>. QED
      BY <3>2
  <2>. QED
    BY <2>1
<1>2. ASSUME NEW n \in Nat, n \in T
      PROVE  n + 1 \in T
  <2>1. ASSUME NEW R \in SUBSET Int, IsFiniteSet(R), Cardinality(R) = n + 1
        PROVE  Sortable(R)
    <3>1. R # {}
      BY <2>1, FS_EmptySet
    <3>2. PICK m \in R : \A y \in R : y <= m
      BY <2>1, <3>1, LargestNumber
    <3>3. R \ {m} \in SUBSET Int /\ IsFiniteSet(R \ {m}) /\ Cardinality(R \ {m}) = n
      <4>1. IsFiniteSet(R \ {m}) /\ Cardinality(R \ {m}) = Cardinality(R) - 1
        BY <2>1, FS_RemoveElement
      <4>. QED
        BY <2>1, <4>1
    <3>4. PICK s \in [1 .. n -> R \ {m}] : Increasing(s)
      BY <1>2, <3>3
    <3> DEFINE t == [j \in 1 .. n + 1 |-> IF j = n + 1 THEN m ELSE s[j]]
    <3>5. \A j \in 1 .. n : s[j] \in R /\ s[j] # m /\ s[j] < m
      <4>1. \A y \in R \ {m} : y < m
        BY <3>2
      <4>. QED
        BY <3>4, <4>1
    <3>6. t \in [1 .. n + 1 -> R]
      BY <3>5
    <3>7. Increasing(t)
      <4>1. ASSUME NEW a \in 1 .. n + 1, NEW b \in 1 .. n + 1, a < b
            PROVE  t[a] < t[b]
        <5>1. a \in 1 .. n /\ t[a] = s[a]
          BY <4>1
        <5>2. CASE b = n + 1
          BY <3>5, <5>1, <5>2
        <5>3. CASE b # n + 1
          <6>1. b \in 1 .. n /\ t[b] = s[b]
            BY <5>3
          <6>. QED
            BY <3>4, <4>1, <5>1, <6>1 DEF Increasing
        <5>. QED
          BY <5>2, <5>3
      <4>. QED
        BY <4>1 DEF Increasing
    <3> HIDE DEF t
    <3>. QED
      BY <2>1, <3>6, <3>7
  <2> HIDE DEF Sortable
  <2>. QED
    BY <2>1
<1>3. Cardinality(S) \in Nat /\ Nat \subseteq T
  <2> HIDE DEF T
  <2>. QED
    BY <1>1, <1>2, SetInduction, FS_CardinalityType
<1>. QED
  BY <1>3

\* What Ascending returns.
LEMMA AscendingShape ==
  ASSUME NEW S \in SUBSET Int, IsFiniteSet(S)
  PROVE  /\ Ascending(S) \in [1 .. Cardinality(S) -> S]
         /\ Increasing(Ascending(S))
         /\ \A x \in S : \E n \in 1 .. Cardinality(S) : Ascending(S)[n] = x
<1> DEFINE s == Ascending(S)
           c == Cardinality(S)
<1>1. s \in [1 .. c -> S] /\ Increasing(s)
  BY AscendingExists DEF Ascending, Increasing
<1>2. c \in Nat /\ IsFiniteSet(1 .. c) /\ Cardinality(1 .. c) = c
  <2>1. c \in Nat
    BY FS_CardinalityType
  <2> HIDE DEF c
  <2>2. 1 \in Int /\ c \in Int
    BY <2>1
  <2>3. IsFiniteSet(1 .. c) /\ Cardinality(1 .. c) = IF 1 > c THEN 0 ELSE c - 1 + 1
    BY <2>2, FS_Interval, Zenon
  <2>. QED
    BY <2>1, <2>3
<1> HIDE DEF s
<1>3. \A m, n \in 1 .. c : m # n => s[m] # s[n]
  <2>1. ASSUME NEW m \in 1 .. c, NEW n \in 1 .. c, m # n
        PROVE  s[m] # s[n]
    <3>1. s[m] \in Int /\ s[n] \in Int
      BY <1>1
    <3>2. m < n \/ n < m
      BY <1>2, <2>1
    <3>3. s[m] < s[n] \/ s[n] < s[m]
      BY <1>1, <3>2 DEF Increasing
    <3>. QED
      BY <3>1, <3>3
  <2>. QED
    BY <2>1
<1>4. s \in Injection(1 .. c, S)
  BY <1>1, <1>3 DEF Injection, IsInjective
<1>5. s \in Surjection(1 .. c, S)
  BY <1>2, <1>4, FS_Injection
<1>. QED
  BY <1>1, <1>5 DEF Surjection, s

\* The numbers from 1 to n are sorted.
LEMMA AscendingInterval ==
  ASSUME NEW n \in Nat
  PROVE  Ascending(1 .. n) = [m \in 1 .. n |-> m]
<1> DEFINE s == Ascending(1 .. n)
<1>1. IsFiniteSet(1 .. n) /\ Cardinality(1 .. n) = n
  <2>1. 1 \in Int /\ n \in Int
    OBVIOUS
  <2>2. IsFiniteSet(1 .. n) /\ Cardinality(1 .. n) = IF 1 > n THEN 0 ELSE n - 1 + 1
    BY <2>1, FS_Interval, Zenon
  <2>. QED
    BY <2>2
<1>2. s \in [1 .. n -> 1 .. n] /\ Increasing(s)
  <2>1. 1 .. n \in SUBSET Int
    OBVIOUS
  <2>. QED
    BY <1>1, <2>1, AscendingShape
<1> HIDE DEF s
<1> DEFINE Low == {m \in Nat : m \in 1 .. n => m <= s[m]}
           High == {m \in Nat : n - m \in 1 .. n => s[n - m] <= n - m}
<1>3. Nat \subseteq Low
  <2>1. 0 \in Low
    OBVIOUS
  <2>2. ASSUME NEW m \in Nat, m \in Low
        PROVE  m + 1 \in Low
    <3>1. SUFFICES ASSUME m + 1 \in 1 .. n PROVE m + 1 <= s[m + 1]
      OBVIOUS
    <3>2. s[m + 1] \in 1 .. n
      BY <1>2, <3>1
    <3>3. CASE m = 0
      BY <3>2, <3>3
    <3>4. CASE m # 0
      <4>1. m \in 1 .. n /\ m < m + 1
        BY <3>1, <3>4
      <4>2. s[m] < s[m + 1] /\ s[m] \in 1 .. n
        BY <1>2, <3>1, <4>1 DEF Increasing
      <4>. QED
        BY <2>2, <3>2, <4>1, <4>2
    <3>. QED
      BY <3>3, <3>4
  <2> HIDE DEF Low
  <2>. QED
    BY <2>1, <2>2, SetInduction
<1>4. Nat \subseteq High
  <2>1. 0 \in High
    BY <1>2
  <2>2. ASSUME NEW m \in Nat, m \in High
        PROVE  m + 1 \in High
    <3>1. SUFFICES ASSUME n - (m + 1) \in 1 .. n PROVE s[n - (m + 1)] <= n - (m + 1)
      OBVIOUS
    <3>2. n - m \in 1 .. n /\ n - (m + 1) < n - m
      BY <3>1
    <3>3. s[n - (m + 1)] < s[n - m] /\ s[n - m] \in 1 .. n /\ s[n - (m + 1)] \in 1 .. n
      BY <1>2, <3>1, <3>2 DEF Increasing
    <3>4. s[n - m] <= n - m
      BY <2>2, <3>2
    <3>. QED
      BY <3>1, <3>2, <3>3, <3>4
  <2> HIDE DEF High
  <2>. QED
    BY <2>1, <2>2, SetInduction
<1>5. ASSUME NEW m \in 1 .. n
      PROVE  s[m] = m
  <2>0. m \in Nat /\ n - m \in Nat /\ n - (n - m) = m
    OBVIOUS
  <2>1. m \in Low /\ n - m \in High /\ n - (n - m) = m /\ s[m] \in 1 .. n
    <3> HIDE DEF Low, High
    <3>. QED
      BY <1>2, <1>3, <1>4, <2>0
  <2>2. m <= s[m]
    BY <2>1
  <2>3. s[m] <= m
    BY <2>1
  <2>. QED
    BY <2>1, <2>2, <2>3
<1>. QED
  BY <1>2, <1>5 DEF s

\* The elements of a list are finitely many.
LEMMA ElementsFinite ==
  ASSUME NEW S, NEW list \in Seq(S)
  PROVE  /\ IsFiniteSet(ToSet(list)) /\ ToSet(list) \subseteq S
         /\ list \in Seq(ToSet(list)) /\ DOMAIN list = 1 .. Len(list)
<1>1. Len(list) \in Nat /\ DOMAIN list = 1 .. Len(list) /\ list \in [1 .. Len(list) -> S]
  OBVIOUS
<1>2. list \in [1 .. Len(list) -> ToSet(list)]
  BY <1>1 DEF ToSet
<1>3. list \in Surjection(1 .. Len(list), ToSet(list))
  BY <1>1, <1>2 DEF Surjection, ToSet
<1>4. IsFiniteSet(1 .. Len(list))
  BY <1>1, FS_Interval
<1>5. IsFiniteSet(ToSet(list))
  BY <1>3, <1>4, FS_Surjection
<1>6. ToSet(list) \subseteq S
  BY <1>1 DEF ToSet
<1>7. list \in Seq(ToSet(list))
  BY <1>1, <1>2
<1>. QED
  BY <1>1, <1>5, <1>6, <1>7

\* A list of numbers is sorted by get_list: the same numbers, each once.
LEMMA ListShape ==
  ASSUME NEW S \in SUBSET Int, NEW list \in Seq(S)
  PROVE  /\ get_list(list) \in Seq(S)
         /\ Len(list) > 0 => Len(get_list(list)) > 0
         /\ Increasing(get_list(list))
<1>1. IsFiniteSet(ToSet(list)) /\ ToSet(list) \in SUBSET Int /\ ToSet(list) \subseteq S
  BY ElementsFinite
<1> DEFINE s == get_list(list)
           c == Cardinality(ToSet(list))
<1>2. s \in [1 .. c -> ToSet(list)] /\ Increasing(s)
  BY <1>1, AscendingShape DEF get_list
<1>3. c \in Nat /\ (Len(list) > 0 => c # 0)
  <2>1. Len(list) > 0 => list[1] \in ToSet(list)
    BY DEF ToSet
  <2>2. Len(list) > 0 => ToSet(list) # {}
    BY <2>1
  <2>. QED
    BY <1>1, <2>2, FS_CardinalityType, FS_EmptySet
<1> HIDE DEF s, c
<1>4. s \in Seq(S) /\ Len(s) = c
  BY <1>1, <1>2, <1>3
<1>. QED
  BY <1>2, <1>3, <1>4 DEF s

-----------------------------------------------------------------------------
(* Products of lists. *)

\* Quotient and remainder, and the number that has them.
LEMMA Division ==
  ASSUME NEW c \in Nat, c > 0
  PROVE  /\ \A m \in Nat : /\ m \div c \in Nat /\ m % c \in 0 .. c - 1
                           /\ m = c * (m \div c) + (m % c)
         /\ \A q \in Nat, r \in 0 .. c - 1 : (c * q + r) \div c = q /\ (c * q + r) % c = r
<1>1. ASSUME NEW m \in Nat
      PROVE  m \div c \in Int /\ m % c \in 0 .. c - 1 /\ m = c * (m \div c) + (m % c)
  OBVIOUS
<1>2. ASSUME NEW m \in Nat
      PROVE  m \div c \in Nat
  <2> DEFINE q == m \div c
             r == m % c
  <2>1. q \in Int /\ r \in 0 .. c - 1 /\ m = c * q + r
    BY <1>1
  <2> HIDE DEF q, r
  <2>2. q <= -1 => c * q <= -c
    BY <2>1
  <2>3. q \in Nat
    BY <2>1, <2>2
  <2>. QED
    BY <2>3 DEF q
<1>3. ASSUME NEW q \in Nat, NEW r \in 0 .. c - 1
      PROVE  (c * q + r) \div c = q /\ (c * q + r) % c = r
  <2> DEFINE m == c * q + r
             q1 == m \div c
             r1 == m % c
  <2>1. c * q \in Nat /\ m \in Nat /\ m = c * q + r
    OBVIOUS
  <2>2. q1 \in Int /\ r1 \in 0 .. c - 1 /\ m = c * q1 + r1
    BY <1>1, <2>1
  <2> HIDE DEF q1, r1, m
  <2>3. c * (q1 - q) = c * q1 - c * q
    BY <2>2
  <2> DEFINE e == q1 - q
  <2>4. e \in Int /\ c * e = r - r1 /\ c * e < c /\ c * e > -c
    <3> DEFINE a == c * q
               b == c * q1
               d == c * e
    <3>1. a \in Int /\ b \in Int /\ m = a + r /\ m = b + r1 /\ d = b - a /\ e \in Int
      BY <2>1, <2>2, <2>3
    <3> HIDE DEF a, b, d, e
    <3>2. d = r - r1 /\ d < c /\ d > -c
      BY <2>2, <3>1
    <3>. QED
      BY <3>1, <3>2 DEF d
  <2> HIDE DEF e
  <2>5. e >= 1 => c * e >= c
    BY <2>4
  <2>6. e <= -1 => c * e <= -c
    BY <2>4
  <2>7. e = 0
    BY <2>4, <2>5, <2>6
  <2>8. q1 = q /\ r1 = r
    BY <2>2, <2>4, <2>7 DEF e
  <2>. QED
    BY <2>8 DEF q1, r1, m
<1>. QED
  BY <1>1, <1>2, <1>3

\* The length of a product, its elements, and the place of each pair.
IsProduct(P, s, t) ==
  /\ Len(P) \in Nat /\ DOMAIN P = 1 .. Len(P)
  /\ \A m \in 1 .. Len(P) : \E a \in 1 .. Len(s), b \in 1 .. Len(t) : P[m][1] = s[a] /\ P[m][2] = t[b]
  /\ \A a \in 1 .. Len(s), b \in 1 .. Len(t) : \E m \in 1 .. Len(P) : P[m][1] = s[a] /\ P[m][2] = t[b]
  /\ Len(s) > 0 => Len(P) > 0 /\ P[1][1] = s[1] /\ P[1][2] = t[1]

LEMMA ProductShape ==
  ASSUME NEW A, NEW B, NEW s \in Seq(A), NEW t \in Seq(B), Len(t) > 0
  PROVE  Product(s, t) \in Seq(A \X B) /\ IsProduct(Product(s, t), s, t)
<1> DEFINE u == Len(s)
           c == Len(t)
           P == Product(s, t)
<1>1. u \in Nat /\ c \in Nat /\ c > 0 /\ u * c \in Nat
  OBVIOUS
<1>2. P = [m \in 1 .. u * c |-> <<s[((m - 1) \div c) + 1], t[((m - 1) % c) + 1]>>]
  BY DEF Product
<1>3. /\ \A a \in 1 .. u : s[a] \in A
      /\ \A b \in 1 .. c : t[b] \in B
  OBVIOUS
<1> HIDE DEF u, c, P
<1>4. ASSUME NEW m \in 1 .. u * c
      PROVE  ((m - 1) \div c) + 1 \in 1 .. u /\ ((m - 1) % c) + 1 \in 1 .. c
  <2> DEFINE q == (m - 1) \div c
             r == (m - 1) % c
  <2>1. q \in Nat /\ r \in 0 .. c - 1 /\ m - 1 = c * q + r
    <3>1. m - 1 \in Nat
      BY <1>1
    <3>. QED
      BY <1>1, <3>1, Division
  <2> HIDE DEF q, r
  <2>2. q >= u => c * q >= c * u
    BY <1>1, <2>1
  <2>3. c * u = u * c /\ c * q \in Nat
    BY <1>1, <2>1
  <2>4. q < u
    BY <1>1, <2>1, <2>2, <2>3
  <2>5. q + 1 \in 1 .. u /\ r + 1 \in 1 .. c
    BY <1>1, <2>1, <2>4
  <2>. QED
    BY <2>5 DEF q, r
<1>5. \A m \in 1 .. u * c : \E a \in 1 .. u, b \in 1 .. c : P[m] = <<s[a], t[b]>>
  BY <1>2, <1>4
<1>6. ASSUME NEW a \in 1 .. u, NEW b \in 1 .. c
      PROVE  c * (a - 1) + b \in 1 .. u * c /\ P[c * (a - 1) + b] = <<s[a], t[b]>>
  <2> DEFINE q == a - 1
             r == b - 1
             m == c * q + b
  <2>1. q \in Nat /\ r \in 0 .. c - 1 /\ c * q \in Nat /\ q + 1 = a /\ r + 1 = b
    BY <1>1
  <2>2. c * q + c = c * (q + 1) /\ c * (q + 1) <= c * u /\ c * u = u * c
    BY <1>1, <2>1
  <2>3. m \in 1 .. u * c
    <3> DEFINE x == c * q
               y == u * c
    <3>1. x \in Nat /\ y \in Nat /\ x + c <= y /\ b \in 1 .. c
      BY <1>1, <2>1, <2>2
    <3> HIDE DEF x, y
    <3>2. x + b \in 1 .. y
      BY <1>1, <3>1
    <3>. QED
      BY <3>2 DEF x, y
  <2>4. (m - 1) \div c = q /\ (m - 1) % c = r
    <3>1. m - 1 = c * q + r
      BY <1>1, <2>1
    <3>2. (c * q + r) \div c = q /\ (c * q + r) % c = r
      BY <1>1, <2>1, Division
    <3>. QED
      BY <3>1, <3>2
  <2>5. P[m] = <<s[q + 1], t[r + 1]>>
    BY <1>2, <2>3, <2>4
  <2>. QED
    BY <2>1, <2>3, <2>5
<1>7. P \in Seq(A \X B) /\ Len(P) = u * c
  BY <1>1, <1>2, <1>3, <1>4
<1>8. ASSUME u > 0
      PROVE  u * c > 0 /\ P[1] = <<s[1], t[1]>>
  <2>1. c * (1 - 1) + 1 = 1 /\ 1 \in 1 .. u /\ 1 \in 1 .. c
    BY <1>1, <1>8
  <2>2. 1 \in 1 .. u * c /\ P[1] = <<s[1], t[1]>>
    BY <1>6, <2>1
  <2>. QED
    BY <1>1, <2>2
<1>9. /\ \A m \in 1 .. u * c : \E a \in 1 .. u, b \in 1 .. c : P[m][1] = s[a] /\ P[m][2] = t[b]
      /\ \A a \in 1 .. u, b \in 1 .. c : \E m \in 1 .. u * c : P[m][1] = s[a] /\ P[m][2] = t[b]
      /\ u > 0 => P[1][1] = s[1] /\ P[1][2] = t[1]
  <2>1. \A m \in 1 .. u * c : \E a \in 1 .. u, b \in 1 .. c : P[m][1] = s[a] /\ P[m][2] = t[b]
    <3>1. ASSUME NEW m \in 1 .. u * c
          PROVE  \E a \in 1 .. u, b \in 1 .. c : P[m][1] = s[a] /\ P[m][2] = t[b]
      <4>1. PICK a \in 1 .. u, b \in 1 .. c : P[m] = <<s[a], t[b]>>
        BY <1>5
      <4>2. P[m][1] = s[a] /\ P[m][2] = t[b]
        BY <4>1
      <4>. QED
        BY <4>2
    <3>. QED
      BY <3>1
  <2>2. \A a \in 1 .. u, b \in 1 .. c : \E m \in 1 .. u * c : P[m][1] = s[a] /\ P[m][2] = t[b]
    <3>1. ASSUME NEW a \in 1 .. u, NEW b \in 1 .. c
          PROVE  \E m \in 1 .. u * c : P[m][1] = s[a] /\ P[m][2] = t[b]
      <4> DEFINE m == c * (a - 1) + b
      <4>1. m \in 1 .. u * c /\ P[m] = <<s[a], t[b]>>
        BY <1>6
      <4> HIDE DEF m
      <4>2. P[m][1] = s[a] /\ P[m][2] = t[b]
        BY <4>1
      <4>. QED
        BY <4>1, <4>2
    <3>. QED
      BY <3>1
  <2>. QED
    BY <1>8, <2>1, <2>2
<1>10. IsProduct(P, s, t)
  <2>1. DOMAIN P = 1 .. u * c
    BY <1>2
  <2>. QED
    BY <1>1, <1>7, <1>8, <1>9, <2>1 DEF IsProduct, u, c
<1>. QED
  BY <1>7, <1>10 DEF P

\* The combinations of a campaign.
LEMMA PointsShape ==
  ASSUME NEW counts \in Seq(Nat \ {0}), Len(counts) > 0
  PROVE  /\ PointsOf(counts) \in Seq([threads: ToSet(Threads), noise: ToSet(Noises), count: Nat \ {0}])
         /\ Len(PointsOf(counts)) \in Nat \ {0}
         /\ \A n \in 1 .. Len(PointsOf(counts)) : \E c \in 1 .. Len(counts) :
              PointsOf(counts)[n].count = counts[c]
         /\ PointsOf(counts)[1].count = counts[1]
         /\ \A t \in ToSet(Threads), x \in ToSet(Noises) : \E n \in 1 .. Len(PointsOf(counts)) :
              PointsOf(counts)[n].threads = t /\ PointsOf(counts)[n].noise = x
<1> DEFINE N == Nat \ {0}
           TS == ToSet(Threads)
           NS == ToSet(Noises)
           inner == Product(Noises, counts)
           all == Product(Threads, inner)
           P == PointsOf(counts)
<1>1. /\ Threads \in Seq(TS) /\ DOMAIN Threads = 1 .. Len(Threads)
      /\ Noises \in Seq(NS) /\ DOMAIN Noises = 1 .. Len(Noises)
      /\ Len(Threads) > 0 /\ Len(Noises) > 0 /\ Len(Threads) \in Nat /\ Len(Noises) \in Nat
  BY ElementsFinite
<1>2. counts \in Seq(N) /\ Len(counts) > 0 /\ Len(counts) \in Nat
  OBVIOUS
<1>a. /\ \A t \in TS : \E a \in 1 .. Len(Threads) : Threads[a] = t
      /\ \A x \in NS : \E b \in 1 .. Len(Noises) : Noises[b] = x
  BY <1>1 DEF ToSet
<1>b. /\ \A a \in 1 .. Len(Threads) : Threads[a] \in TS
      /\ \A b \in 1 .. Len(Noises) : Noises[b] \in NS
      /\ \A c \in 1 .. Len(counts) : counts[c] \in N
  BY <1>1, <1>2
<1> HIDE DEF N, TS, NS
<1> DEFINE W == NS \X N
           M == Len(all)
           J == Len(inner)
<1>3. inner \in Seq(W) /\ IsProduct(inner, Noises, counts)
  BY <1>1, <1>2, ProductShape
<1>c. J > 0
  BY <1>1, <1>3 DEF IsProduct
<1> HIDE DEF inner, W
<1>4. IsProduct(all, Threads, inner)
  BY <1>1, <1>3, <1>c, ProductShape
<1>5. P = [m \in DOMAIN all |-> [threads |-> all[m][1], noise |-> all[m][2][1], count |-> all[m][2][2]]]
  BY DEF PointsOf, inner
<1> HIDE DEF P, all
<1>6. M \in Nat \ {0} /\ DOMAIN all = 1 .. M
  BY <1>1, <1>4 DEF IsProduct
<1> HIDE DEF M, J
<1>7. ASSUME NEW m \in 1 .. M
      PROVE  P[m].threads = all[m][1] /\ P[m].noise = all[m][2][1] /\ P[m].count = all[m][2][2]
  <2>1. P[m] = [threads |-> all[m][1], noise |-> all[m][2][1], count |-> all[m][2][2]]
    BY <1>5, <1>6
  <2>. QED
    BY <2>1
<1>8. ASSUME NEW m \in 1 .. M
      PROVE  /\ P[m] = [threads |-> P[m].threads, noise |-> P[m].noise, count |-> P[m].count]
             /\ P[m].threads \in TS /\ P[m].noise \in NS
             /\ \E c \in 1 .. Len(counts) : P[m].count = counts[c]
  <2>1. PICK a \in 1 .. Len(Threads), d \in 1 .. J : all[m][1] = Threads[a] /\ all[m][2] = inner[d]
    BY <1>4 DEF IsProduct, M, J
  <2>2. PICK b \in 1 .. Len(Noises), c \in 1 .. Len(counts) :
          inner[d][1] = Noises[b] /\ inner[d][2] = counts[c]
    BY <1>3 DEF IsProduct, J
  <2>a. P[m].threads = all[m][1] /\ P[m].noise = all[m][2][1] /\ P[m].count = all[m][2][2]
    BY <1>7
  <2>3. P[m].threads = Threads[a] /\ P[m].noise = Noises[b] /\ P[m].count = counts[c]
    BY <2>1, <2>2, <2>a
  <2>4. P[m] = [threads |-> P[m].threads, noise |-> P[m].noise, count |-> P[m].count]
    BY <1>5, <1>6
  <2>. QED
    BY <1>b, <2>3, <2>4
<1>9. P \in Seq([threads: TS, noise: NS, count: N]) /\ Len(P) = M
  <2>1. \A m \in 1 .. M : P[m].count \in N
    BY <1>b, <1>8
  <2>2. ASSUME NEW m \in 1 .. M
        PROVE  P[m] \in [threads: TS, noise: NS, count: N]
    <3> DEFINE a == P[m].threads
               b == P[m].noise
               c == P[m].count
    <3>1. P[m] = [threads |-> a, noise |-> b, count |-> c] /\ a \in TS /\ b \in NS /\ c \in N
      BY <1>8, <2>1
    <3> HIDE DEF a, b, c
    <3>. QED
      BY <3>1
  <2>3. P \in [1 .. M -> [threads: TS, noise: NS, count: N]]
    BY <1>5, <1>6, <2>2
  <2> DEFINE E == [threads: TS, noise: NS, count: N]
  <2> HIDE DEF E
  <2>4. P \in Seq(E) /\ Len(P) = M
    <3>1. P \in [1 .. M -> E]
      BY <2>3 DEF E
    <3>. QED
      BY <1>6, <3>1
  <2>. QED
    BY <2>4 DEF E
<1>10. P[1].count = counts[1]
  <2>1. 1 \in 1 .. M
    BY <1>6
  <2>2. /\ all[1][1] = Threads[1] /\ all[1][2] = inner[1]
        /\ inner[1][1] = Noises[1] /\ inner[1][2] = counts[1]
    BY <1>1, <1>3, <1>4 DEF IsProduct
  <2>3. P[1].count = all[1][2][2]
    BY <1>7, <2>1
  <2>4. all[1][2][2] = counts[1]
    BY <2>2
  <2>. QED
    BY <2>3, <2>4
<1>11. ASSUME NEW t \in TS, NEW x \in NS
       PROVE  \E n \in 1 .. M : P[n].threads = t /\ P[n].noise = x
  <2>1. PICK a \in 1 .. Len(Threads), b \in 1 .. Len(Noises) : Threads[a] = t /\ Noises[b] = x
    BY <1>a
  <2>2. 1 \in 1 .. Len(counts)
    BY <1>2
  <2>3. PICK d \in 1 .. J : inner[d][1] = Noises[b] /\ inner[d][2] = counts[1]
    BY <1>3, <2>2 DEF IsProduct, J
  <2>4. PICK m \in 1 .. M : all[m][1] = Threads[a] /\ all[m][2] = inner[d]
    BY <1>4 DEF IsProduct, M, J
  <2>5. P[m].threads = all[m][1] /\ P[m].noise = all[m][2][1]
    BY <1>7
  <2>6. P[m].threads = Threads[a] /\ P[m].noise = Noises[b]
    BY <2>3, <2>4, <2>5
  <2>. QED
    BY <2>1, <2>6
<1>12. Len(P) \in Nat \ {0}
  BY <1>6, <1>9
<1>. QED
  BY <1>8, <1>9, <1>10, <1>11, <1>12 DEF P, N, TS, NS

-----------------------------------------------------------------------------
(* The campaign. *)

\* The number of units of a run is between those of the first and of the last.
LEMMA CountsShape ==
  ASSUME Loaded
  PROVE  /\ Points \in Seq([threads: ToSet(Threads), noise: ToSet(Noises), count: Nat \ {0}])
         /\ Len(Points) \in Nat \ {0}
         /\ \A n \in 1 .. Len(Points) :
              /\ Points[n].count \in Nat \ {0}
              /\ Points[1].count <= Points[n].count
              /\ Points[n].count <= Last(container_list)
         /\ Last(container_list) \in Nat \ {0}
<1> DEFINE c == container_list
           P == Points
           l == Len(c)
<1>1. /\ c \in Seq(Nat \ {0}) /\ l > 0 /\ l \in Nat
      /\ \A m, n \in 1 .. l : m < n => c[m] < c[n]
      /\ \A m \in 1 .. l : c[m] \in Nat \ {0}
  <2>1. /\ c \in Seq(Nat \ {0}) /\ l > 0
        /\ \A m, n \in DOMAIN c : m < n => c[m] < c[n]
    BY DEF Loaded
  <2>2. l \in Nat /\ DOMAIN c = 1 .. l
    BY <2>1
  <2>3. \A m \in 1 .. l : c[m] \in Nat \ {0}
    BY <2>1, <2>2
  <2>. QED
    BY <2>1, <2>2, <2>3
<1>2. /\ P \in Seq([threads: ToSet(Threads), noise: ToSet(Noises), count: Nat \ {0}])
      /\ Len(P) \in Nat \ {0}
      /\ \A n \in 1 .. Len(P) : \E m \in 1 .. l : P[n].count = c[m]
      /\ P[1].count = c[1]
  BY <1>1, PointsShape DEF Points
<1>3. Last(c) = c[l] /\ c[l] \in Nat \ {0} /\ c[1] \in Nat \ {0}
  BY <1>1 DEF Last
<1> HIDE DEF c, P, l
<1>4. ASSUME NEW n \in 1 .. Len(P)
      PROVE  P[n].count \in Nat \ {0} /\ P[1].count <= P[n].count /\ P[n].count <= c[l]
  <2>1. PICK m \in 1 .. l : P[n].count = c[m]
    BY <1>2
  <2>2. c[m] \in Nat \ {0}
    BY <1>1
  <2>3. c[1] <= c[m]
    <3>1. m = 1 \/ 1 < m
      BY <1>1
    <3>2. 1 < m => c[1] < c[m]
      BY <1>1
    <3>. QED
      BY <1>3, <2>2, <3>1, <3>2
  <2>4. c[m] <= c[l]
    <3>1. m = l \/ m < l
      BY <1>1
    <3>2. m < l => c[m] < c[l]
      BY <1>1
    <3>. QED
      BY <1>3, <2>2, <3>1, <3>2
  <2>. QED
    BY <1>2, <2>1, <2>2, <2>3, <2>4
<1>. QED
  BY <1>2, <1>3, <1>4 DEF c, P, l

\* A number of units that is large enough for one run is for all.
LEMMA NeverTooFewLater ==
  ASSUME Loaded, applications \in AppLists, k > 1, k <= Len(Points)
  PROVE  ~ TooFewUnits(Points[k].count)
<1>1. k \in 1 .. Len(Points) /\ 1 \in 1 .. k - 1
  BY CountsShape DEF Loaded
<1>2. ~ TooFewUnits(Points[1].count)
  BY <1>1 DEF Loaded
<1>3. /\ Points[1].count <= Points[k].count /\ Points[1].count \in Nat /\ Points[k].count \in Nat
      /\ Len(applications) \in Nat
  <2>1. Len(applications) \in Nat
    OBVIOUS
  <2>2. Points[1].count <= Points[k].count /\ Points[k].count \in Nat
    BY <1>1, CountsShape
  <2>3. 1 \in 1 .. Len(Points)
    BY CountsShape
  <2>4. Points[1].count \in Nat
    BY <2>3, CountsShape
  <2>. QED
    BY <2>1, <2>2, <2>4
<1>. QED
  BY <1>2, <1>3 DEF TooFewUnits

LEMMA SameConfig ==
  ASSUME UNCHANGED config
  PROVE  /\ Points' = Points /\ multi_app' = multi_app
         /\ \A c : TooFewUnits(c)' = TooFewUnits(c)
         /\ \A u : AppOf(u)' = AppOf(u)
         /\ \A c : UnitsOf(c)' = UnitsOf(c)
BY DEF config, Points, multi_app, TooFewUnits, different_apps, UnitsOf, AppOf

LEMMA CampaignInit == ReportInit => CampaignInv
BY DEF ReportInit, Init, CampaignInv

LEMMA CampaignInvStep ==
  ASSUME CampaignInv, [Next]_vars
  PROVE  CampaignInv'
<1>1. CASE LoadFails
  BY <1>1 DEF LoadFails, CampaignInv, config
<1>2. CASE LoadConfig
  <2>1. /\ container_list \in CountLists \ {None} /\ offsets \in OffsetLists /\ k = 1 /\ csv = <<>>
        /\ applications \in AppLists /\ pc' = "run" /\ UNCHANGED <<applications, k, units, csv>>
        /\ container_list' = get_list(container_list)
        /\ offsets' = IF offsets = None THEN DefaultOffsets(container_list') ELSE get_list(offsets)
    BY <1>2 DEF LoadConfig, CampaignInv
  <2>2. container_list \in Seq(Nat \ {0}) /\ Len(container_list) > 0
    BY <2>1
  <2>3. /\ container_list' \in Seq(Nat \ {0}) /\ Len(container_list') > 0 /\ Increasing(container_list')
    <3>1. Nat \ {0} \in SUBSET Int
      OBVIOUS
    <3>. QED
      BY <2>1, <2>2, <3>1, ListShape
  <2>4. offsets' \in Seq(Int)
    <3>1. CASE offsets = None
      <4>1. Last(container_list') \in Nat
        BY <2>3 DEF Last
      <4>2. offsets' = [n \in 1 .. Last(container_list') |-> CoreCount * (n - 1)]
        BY <2>1, <3>1 DEF DefaultOffsets
      <4>3. \A n \in 1 .. Last(container_list') : CoreCount * (n - 1) \in Int
        BY <4>1
      <4>. QED
        BY <4>1, <4>2, <4>3
    <3>2. CASE offsets # None
      <4>1. offsets \in Seq(Nat) /\ Nat \in SUBSET Int
        BY <2>1, <3>2
      <4>2. get_list(offsets) \in Seq(Nat)
        BY <4>1, ListShape
      <4>. QED
        BY <2>1, <3>2, <4>2
    <3>. QED
      BY <3>1, <3>2
  <2>5. Len(Points') \in Nat \ {0}
    BY <2>3, PointsShape DEF Points
  <2>6. Loaded'
    <3>1. k' = 1 /\ 1 .. k' - 1 = {} /\ k' \in 1 .. Len(Points') + 1
      BY <2>1, <2>5
    <3>. QED
      BY <2>3, <2>4, <3>1 DEF Loaded, Increasing
  <2>. QED
    BY <2>1, <2>5, <2>6 DEF CampaignInv
<1>3. CASE RefuseRun
  <2>1. pc = "run" /\ TooFewUnits(Points[k].count) /\ Loaded /\ k <= Len(Points) /\ applications \in AppLists
    BY <1>3 DEF RefuseRun, CampaignInv
  <2>2. k \in Nat /\ ~ (k > 1)
    BY <2>1, NeverTooFewLater DEF Loaded
  <2>3. k = 1
    BY <2>1, <2>2 DEF Loaded
  <2>4. csv = <<>>
    BY <2>3 DEF CampaignInv
  <2>. QED
    BY <1>3, <2>1, <2>4 DEF RefuseRun, CampaignInv, config
<1>4. CASE NoOffset \/ CreateUnits \/ exec_all
  <2>1. UNCHANGED config /\ UNCHANGED <<k, csv>>
    BY <1>4 DEF NoOffset, CreateUnits, exec_all
  <2>2. /\ Points' = Points /\ UnitsOf(Points[k].count)' = UnitsOf(Points[k].count)
        /\ \A c : TooFewUnits(c)' = TooFewUnits(c)
    BY <2>1, SameConfig
  <2>3. Loaded => Loaded'
    BY <2>1, <2>2 DEF Loaded, config
  <2>. QED
    BY <1>4, <2>1, <2>2, <2>3 DEF NoOffset, CreateUnits, exec_all, CampaignInv, config
<1>5. CASE parse_output_to_results
  <2>1. /\ pc = "parse" /\ Loaded /\ k <= Len(Points) /\ ~ TooFewUnits(Points[k].count)
        /\ k' = k + 1 /\ UNCHANGED config /\ applications \in AppLists
        /\ pc' = IF k = Len(Points) THEN "visualize" ELSE "run"
    BY <1>5 DEF parse_output_to_results, CampaignInv
  <2>2. Points' = Points /\ \A c : TooFewUnits(c)' = TooFewUnits(c)
    BY <2>1, SameConfig
  <2>3. Len(Points) \in Nat /\ k \in 1 .. Len(Points)
    BY <2>1, CountsShape DEF Loaded
  <2>4. Loaded'
    <3>1. k' \in 1 .. Len(Points) + 1
      BY <2>1, <2>3
    <3>2. ASSUME NEW n \in 1 .. k' - 1
          PROVE  ~ TooFewUnits(Points[n].count)
      <4>1. n = k \/ n \in 1 .. k - 1
        BY <2>1, <2>3
      <4>. QED
        BY <2>1, <4>1 DEF Loaded
    <3>. QED
      BY <2>1, <2>2, <3>1, <3>2 DEF Loaded, config
  <2>5. k' # 1 /\ (pc' = "run" => k' <= Len(Points)) /\ (pc' = "visualize" => k' = Len(Points) + 1)
        /\ pc' \in {"run", "visualize"}
    BY <2>1, <2>3
  <2>. QED
    BY <2>1, <2>2, <2>4, <2>5 DEF CampaignInv, config
<1>6. ASSUME UNCHANGED <<config, k, csv>>,
             \/ UNCHANGED <<pc, units>>
             \/ pc \notin {"load", "exited"} /\ pc' \in {"plot", "written", "aborted"}
      PROVE  CampaignInv'
  <2>1. UNCHANGED config /\ UNCHANGED <<k, csv>>
    BY <1>6
  <2>2. /\ Points' = Points /\ UnitsOf(Points[k].count)' = UnitsOf(Points[k].count)
        /\ \A c : TooFewUnits(c)' = TooFewUnits(c)
    BY <2>1, SameConfig
  <2>3. Loaded => Loaded'
    BY <2>1, <2>2 DEF Loaded, config
  <2>. QED
    BY <1>6, <2>1, <2>2, <2>3 DEF CampaignInv, config
<1>7. CASE visualize_in_html
  <2>1. pc # "exited"
    BY <1>7 DEF visualize_in_html, CampaignInv
  <2>2. pc \notin {"load", "exited"} /\ pc' = "plot" /\ UNCHANGED <<config, k, csv>>
    BY <1>7, <2>1 DEF visualize_in_html, Stopped
  <2>. QED
    BY <1>6, <2>2
<1>8. CASE NormalPlot \/ create_min_max_avg_plot \/ create_success_rate_plot
             \/ create_histogram_plot \/ LinearitySkipped \/ create_linearity_plot \/ NextFrame
  BY <1>6, <1>8 DEF NormalPlot, create_min_max_avg_plot, create_success_rate_plot,
       create_histogram_plot, LinearitySkipped, create_linearity_plot, NextFrame, Draw, Skip, campaignVars
<1>9. CASE ReportFails
  <2>1. pc = "plot" /\ pc' = "aborted" /\ UNCHANGED <<config, k, csv>>
    BY <1>9 DEF ReportFails, NormalFails, MinMaxAvgFails, SuccessRateFails, HistogramFails,
         LinearityFails, Drawing
  <2>. QED
    BY <1>6, <2>1
<1>10. CASE WriteReport
  BY <1>6, <1>10 DEF WriteReport
<1>11. CASE UNCHANGED vars
  BY <1>6, <1>11 DEF vars, campaignVars
<1>. QED
  BY <1>1, <1>2, <1>3, <1>4, <1>5, <1>7, <1>8, <1>9, <1>10, <1>11 DEF Next, CampaignStep, Over

-----------------------------------------------------------------------------
(* The rows of a run. *)

EU == <<"execution_unit">>
AllColumns == {EU, <<"app">>} \cup UNION {a.keys : a \in ToSet(applications)}

LEMMA MaxIs ==
  ASSUME NEW S \in SUBSET Int, NEW e \in S, \A y \in S : y <= e
  PROVE  Max(S) = e
<1>1. \A y \in S : e >= y
  OBVIOUS
<1>2. \A x \in S : (\A y \in S : x >= y) => x = e
  OBVIOUS
<1>. QED
  BY <1>1, <1>2 DEF Max

\* The units of a run.
LEMMA UnitsShape ==
  ASSUME CampaignInv, pc \in {"exec", "parse"}
  PROVE  /\ Points[k].count \in Nat \ {0}
         /\ Len(units) = Points[k].count /\ DOMAIN units = 1 .. Points[k].count
         /\ \A u \in 1 .. Points[k].count :
              /\ units[u].app = applications[((u - 1) % Len(applications)) + 1]
              /\ units[u].app = AppOf(u)
              /\ ((u - 1) % Len(applications)) + 1 \in 1 .. Len(applications)
              /\ units[u].app \in ToSet(applications)
              /\ units[u].cores = get_cpu_set(offsets[u], CoreCount)
<1> DEFINE c == Points[k].count
           l == Len(applications)
<1>1. c \in Nat \ {0}
  <2>1. Loaded /\ k <= Len(Points)
    BY DEF CampaignInv
  <2>2. k \in 1 .. Len(Points)
    BY <2>1, CountsShape DEF Loaded
  <2>. QED
    BY <2>1, <2>2, CountsShape
<1>2. applications \in Seq(Applications) /\ l > 0 /\ l \in Nat
  BY DEF CampaignInv
<1>3. units = UnitsOf(c)
  BY DEF CampaignInv
<1> HIDE DEF c
<1>4. units \in [1 .. c -> {units[u] : u \in 1 .. c}]
  BY <1>3 DEF UnitsOf
<1>5. Len(units) = c /\ DOMAIN units = 1 .. c
  BY <1>1, <1>4
<1>6. ASSUME NEW u \in 1 .. c
      PROVE  /\ units[u].app = applications[((u - 1) % l) + 1]
             /\ units[u].app = AppOf(u)
             /\ units[u].cores = get_cpu_set(offsets[u], CoreCount)
             /\ ((u - 1) % l) + 1 \in 1 .. l
  <2>1. /\ units[u] = [app   |-> applications[((u - 1) % l) + 1],
                       cores |-> get_cpu_set(offsets[u], CoreCount)]
        /\ AppOf(u) = applications[((u - 1) % l) + 1]
    BY <1>3 DEF UnitsOf, AppOf
  <2>2. u - 1 \in Nat
    BY <1>1
  <2> HIDE DEF l
  <2>3. (u - 1) % l \in 0 .. l - 1
    BY <1>2, <2>2
  <2>4. ((u - 1) % l) + 1 \in 1 .. l
    BY <1>2, <2>3
  <2>. QED
    BY <2>1, <2>4
<1>7. ASSUME NEW u \in 1 .. c
      PROVE  units[u].app \in ToSet(applications)
  <2> DEFINE n == ((u - 1) % l) + 1
  <2>1. units[u].app = applications[n] /\ n \in 1 .. l
    BY <1>6
  <2>2. DOMAIN applications = 1 .. l
    BY <1>2
  <2> HIDE DEF n, l
  <2>. QED
    BY <2>1, <2>2 DEF ToSet
<1>. QED
  BY <1>1, <1>5, <1>6, <1>7 DEF c

\* The lines of the text, and the dictionary of one of them.
LEMMA LineShape ==
  ASSUME CampaignInv, pc = "parse"
  PROVE  /\ LineEnds \subseteq 1 .. Points[k].count /\ Points[k].count \in LineEnds
         /\ \A u \in 1 .. Points[k].count : AppOf(u).newline => u \in LineEnds
         /\ \A e \in LineEnds :
              /\ EU \in DOMAIN LineDict(e) /\ LineDict(e)[EU] = e
              /\ DOMAIN LineDict(e) \subseteq AllColumns
<1> DEFINE c == Points[k].count
<1>1. /\ c \in Nat \ {0} /\ Len(units) = c /\ DOMAIN units = 1 .. c
      /\ \A u \in 1 .. c : units[u].app \in ToSet(applications) /\ units[u].app = AppOf(u)
  BY UnitsShape
<1> HIDE DEF c
<1>2. LineEnds \subseteq 1 .. c /\ c \in LineEnds /\ \A u \in 1 .. c : AppOf(u).newline => u \in LineEnds
  BY <1>1 DEF LineEnds
<1>3. ASSUME NEW e \in LineEnds
      PROVE  /\ EU \in DOMAIN LineDict(e) /\ LineDict(e)[EU] = e
             /\ DOMAIN LineDict(e) \subseteq AllColumns
  <2> DEFINE before == {0} \cup {u \in LineEnds : u < e}
             line == (Max(before) + 1) .. e
             mine(key) == {u \in line : key \in OutputKeys(u)}
  <2>1. e \in 1 .. c
    BY <1>2
  <2>2. Max(before) \in 0 .. e - 1
    <3>1. before \subseteq 0 .. e - 1 /\ 0 \in before
      <4>1. e \in Nat /\ e >= 1
        BY <1>1, <2>1
      <4>2. \A u \in LineEnds : u \in Nat
        BY <1>1, <1>2
      <4>3. ASSUME NEW x \in before
            PROVE  x \in 0 .. e - 1
        <5>1. CASE x = 0
          BY <4>1, <5>1
        <5>2. CASE x # 0
          <6>1. x \in Nat /\ x < e
            BY <4>2, <4>3, <5>2
          <6>. QED
            BY <4>1, <6>1
        <5>. QED
          BY <5>1, <5>2
      <4>. QED
        BY <4>3
    <3>2. IsFiniteSet(before) /\ before \in SUBSET Int
      <4>1. IsFiniteSet(0 .. e - 1) /\ 0 .. e - 1 \subseteq Int
        BY <2>1, FS_Interval
      <4>. QED
        BY <3>1, <4>1, FS_Subset
    <3> HIDE DEF before
    <3>3. Max(before) \in before
      BY <3>1, <3>2, MaxShape
    <3>. QED
      BY <3>1, <3>3
  <2>3. line \subseteq 1 .. e /\ e \in line
    <3> HIDE DEF before
    <3>. QED
      BY <2>1, <2>2
  <2>4. \A u \in line : EU \in OutputKeys(u)
    BY DEF OutputKeys, EU
  <2>5. \A u \in line : OutputKeys(u) \subseteq AllColumns
    <3>1. \A u \in 1 .. e : units[u].app \in ToSet(applications)
      BY <1>1, <2>1
    <3> HIDE DEF line
    <3>2. ASSUME NEW u \in line PROVE OutputKeys(u) \subseteq AllColumns
      <4>1. PICK a \in ToSet(applications) : units[u].app = a
        BY <2>3, <3>1
      <4>2. OutputKeys(u) = {<<"execution_unit">>, <<"app">>} \cup a.keys
        BY <4>1 DEF OutputKeys
      <4>. QED
        BY <4>2 DEF AllColumns, EU
    <3>. QED
      BY <3>2
  <2>6. LineDict(e) = [key \in UNION {OutputKeys(u) : u \in line} |-> Max(mine(key))]
    BY DEF LineDict
  <2>7. mine(EU) = line
    BY <2>4
  <2> HIDE DEF line, mine
  <2>8. Max(line) = e
    <3>1. line \in SUBSET Int /\ \A y \in line : y <= e
      BY <2>1, <2>3
    <3>. QED
      BY <2>3, <3>1, MaxIs
  <2>9. EU \in UNION {OutputKeys(u) : u \in line}
    BY <2>3, <2>4
  <2>. QED
    BY <2>5, <2>6, <2>7, <2>8, <2>9
<1>. QED
  BY <1>2, <1>3 DEF c

\* When outputs end with a newline, a line is the output of one unit.
LEMMA WholeLineShape ==
  ASSUME CampaignInv, pc = "parse", WholeLines
  PROVE  /\ LineEnds = 1 .. Points[k].count
         /\ \A e \in LineEnds : LineDict(e) = [key \in OutputKeys(e) |-> e]
<1> DEFINE c == Points[k].count
<1>1. /\ c \in Nat \ {0} /\ Len(units) = c /\ DOMAIN units = 1 .. c
      /\ \A u \in 1 .. c : units[u].app \in ToSet(applications)
  BY UnitsShape
<1> HIDE DEF c
<1>2. LineEnds = 1 .. c
  BY <1>1 DEF LineEnds, WholeLines
<1>3. ASSUME NEW e \in 1 .. c
      PROVE  LineDict(e) = [key \in OutputKeys(e) |-> e]
  <2> DEFINE before == {0} \cup {u \in LineEnds : u < e}
             line == (Max(before) + 1) .. e
             mine(key) == {u \in line : key \in OutputKeys(u)}
  <2>1. Max(before) = e - 1
    <3>1. before \in SUBSET Int /\ e - 1 \in before /\ \A y \in before : y <= e - 1
      BY <1>1, <1>2
    <3> HIDE DEF before
    <3>. QED
      BY <3>1, MaxIs
  <2>2. line = {e}
    <3> HIDE DEF before
    <3>. QED
      BY <2>1
  <2>3. LineDict(e) = [key \in UNION {OutputKeys(u) : u \in line} |-> Max(mine(key))]
    BY DEF LineDict
  <2>4. UNION {OutputKeys(u) : u \in line} = OutputKeys(e)
    BY <2>2
  <2>5. \A key \in OutputKeys(e) : Max(mine(key)) = e
    <3>1. \A key \in OutputKeys(e) : mine(key) = {e}
      BY <2>2
    <3>2. Max({e}) = e
      <4>1. {e} \in SUBSET Int /\ e \in {e} /\ \A y \in {e} : y <= e
        BY <1>1
      <4>. QED
        BY <4>1, MaxIs
    <3> HIDE DEF mine
    <3>. QED
      BY <3>1, <3>2
  <2> HIDE DEF line, mine
  <2>. QED
    BY <2>3, <2>4, <2>5
<1>. QED
  BY <1>2, <1>3 DEF c

\* The rows that a run adds: the last unit and those that end a line have one.
RowsFrom(c, R) ==
  /\ R \in Seq(ToSet(R)) /\ Len(R) \in Nat \ {0}
  /\ \A n \in 1 .. Len(R) :
       R[n].point = Points[k] /\ EU \in DOMAIN R[n].val /\ DOMAIN R[n].val \subseteq AllColumns
  /\ \A u \in 1 .. c : AppOf(u).newline \/ u = c => \E n \in 1 .. Len(R) : R[n].val[EU] = u

LEMMA RowsShape ==
  ASSUME CampaignInv, pc = "parse"
  PROVE  RowsFrom(Points[k].count, Rows)
<1> DEFINE c == Points[k].count
           ends == Ascending(LineEnds)
           l == Cardinality(LineEnds)
           dicts == [n \in DOMAIN ends |-> LineDict(ends[n])]
           rows == IF multi_app THEN dict_intersect(dicts) ELSE dicts
           R == Rows
<1>1. /\ c \in Nat \ {0} /\ LineEnds \subseteq 1 .. c /\ c \in LineEnds
      /\ \A u \in 1 .. c : AppOf(u).newline => u \in LineEnds
      /\ \A e \in LineEnds : /\ EU \in DOMAIN LineDict(e) /\ LineDict(e)[EU] = e
                             /\ DOMAIN LineDict(e) \subseteq AllColumns
  BY UnitsShape, LineShape
<1> HIDE DEF c
<1>2. IsFiniteSet(LineEnds) /\ LineEnds \in SUBSET Int /\ l \in Nat /\ l # 0
  <2>1. IsFiniteSet(1 .. c) /\ 1 .. c \subseteq Int
    BY <1>1, FS_Interval
  <2>. QED
    BY <1>1, <2>1, FS_Subset, FS_CardinalityType, FS_EmptySet
<1>3. /\ ends \in [1 .. l -> LineEnds] /\ Increasing(ends)
      /\ \A x \in LineEnds : \E n \in 1 .. l : ends[n] = x
  BY <1>2, AscendingShape
<1>4. R = [n \in DOMAIN rows |-> [point |-> Points[k], val |-> rows[n]]]
  BY DEF Rows
<1> HIDE DEF ends, l, R
<1>6. /\ DOMAIN dicts = 1 .. l
      /\ \A n \in 1 .. l : /\ EU \in DOMAIN dicts[n] /\ dicts[n][EU] = ends[n]
                           /\ DOMAIN dicts[n] \subseteq AllColumns
  BY <1>1, <1>3
<1> HIDE DEF dicts
<1>7. EU \in CommonKeys(dicts) /\ CommonKeys(dicts) \subseteq AllColumns
  <2>1. 1 \in 1 .. l
    BY <1>2
  <2>2. \A d \in ToSet(dicts) : EU \in DOMAIN d
    BY <1>6 DEF ToSet
  <2>. QED
    BY <1>6, <2>1, <2>2 DEF CommonKeys
<1>8. /\ DOMAIN rows = 1 .. l
      /\ \A n \in 1 .. l : /\ EU \in DOMAIN rows[n] /\ rows[n][EU] = ends[n]
                           /\ DOMAIN rows[n] \subseteq AllColumns
  <2>1. CASE multi_app
    <3>1. rows = [n \in 1 .. l |-> [key \in CommonKeys(dicts) |-> dicts[n][key]]]
      BY <1>6, <2>1 DEF dict_intersect
    <3> HIDE DEF rows
    <3>. QED
      BY <1>6, <1>7, <3>1
  <2>2. CASE ~ multi_app
    BY <1>6, <2>2
  <2>. QED
    BY <2>1, <2>2
<1> HIDE DEF rows
<1>9. DOMAIN R = 1 .. l /\ \A n \in 1 .. l : R[n].point = Points[k] /\ R[n].val = rows[n]
  BY <1>4, <1>8
<1>10. R \in Seq(ToSet(R)) /\ Len(R) = l
  <2>1. R \in [1 .. l -> ToSet(R)]
    BY <1>4, <1>8, <1>9 DEF ToSet
  <2>. QED
    BY <1>2, <2>1
<1>11. ASSUME NEW u \in 1 .. c, AppOf(u).newline \/ u = c
       PROVE  \E n \in 1 .. l : R[n].val[EU] = u
  <2>1. PICK n \in 1 .. l : ends[n] = u
    BY <1>1, <1>3, <1>11
  <2>. QED
    BY <1>8, <1>9, <2>1
<1>12. RowsFrom(c, R)
  BY <1>2, <1>8, <1>9, <1>10, <1>11 DEF RowsFrom
<1>. QED
  BY <1>12 DEF c, R

\* The columns of the units of a run that was not refused are those of all
\* applications.
LEMMA ColumnsOfRun ==
  ASSUME CampaignInv, pc = "parse"
  PROVE  /\ ~ multi_app => OutputKeys(1) = CommonColumns
         /\ multi_app =>
              {key \in OutputKeys(1) : \A u \in 1 .. Points[k].count : key \in OutputKeys(u)}
                = CommonColumns
<1> DEFINE c == Points[k].count
           l == Len(applications)
           apps == ToSet(applications)
<1>1. /\ c \in Nat \ {0}
      /\ \A u \in 1 .. c : units[u].app = applications[((u - 1) % l) + 1] /\ units[u].app \in apps
  BY UnitsShape
<1>2. /\ applications \in Seq(Applications) /\ l > 0 /\ l \in Nat
      /\ \A a, b \in apps : a.name = b.name => a.keys = b.keys
      /\ ~ TooFewUnits(c)
  BY DEF CampaignInv
<1>3. /\ \A a \in apps : \E n \in 1 .. l : a = applications[n]
      /\ applications[1] \in apps
  BY <1>2 DEF ToSet
<1> HIDE DEF c
<1>4. \A u \in 1 .. l : u <= c => units[u].app = applications[u]
  <2>1. ASSUME NEW u \in 1 .. l, u <= c
        PROVE  units[u].app = applications[u]
    <3> HIDE DEF l
    <3>1. (u - 1) % l = u - 1
      <4>1. u - 1 \in 0 .. l - 1 /\ 0 \in Nat
        BY <1>2
      <4>2. (l * 0 + (u - 1)) % l = u - 1
        BY <1>2, <4>1, Division
      <4>3. l * 0 + (u - 1) = u - 1
        BY <1>2
      <4>. QED
        BY <4>2, <4>3
    <3>2. ((u - 1) % l) + 1 = u /\ u \in 1 .. c
      BY <1>1, <1>2, <2>1, <3>1
    <3>. QED
      BY <1>1, <3>2 DEF l
  <2>. QED
    BY <2>1
<1>5. units[1].app = applications[1]
  BY <1>1, <1>2, <1>4
<1>6. \A u \in 1 .. c : OutputKeys(u) = {EU, <<"app">>} \cup units[u].app.keys
  BY DEF OutputKeys, EU
<1>7. CommonColumns = {EU, <<"app">>} \cup {key \in applications[1].keys : \A a \in apps : key \in a.keys}
  BY DEF CommonColumns, EU
<1>8. ASSUME ~ multi_app
      PROVE  OutputKeys(1) = CommonColumns
  <2>1. l = 1
    <3>1. ~ (l > 1)
      BY <1>8 DEF multi_app
    <3> HIDE DEF l
    <3>. QED
      BY <1>2, <3>1
  <2>2. \A a \in apps : a = applications[1]
    BY <1>3, <2>1
  <2>3. 1 \in 1 .. c
    BY <1>1
  <2>4. OutputKeys(1) = {EU, <<"app">>} \cup applications[1].keys
    BY <1>5, <1>6, <2>3
  <2> HIDE DEF apps
  <2>5. {key \in applications[1].keys : \A a \in apps : key \in a.keys} = applications[1].keys
    BY <2>2
  <2>. QED
    BY <1>7, <2>4, <2>5
<1>9. ASSUME multi_app
      PROVE  {key \in OutputKeys(1) : \A u \in 1 .. c : key \in OutputKeys(u)} = CommonColumns
  <2>1. CASE c < l
    <3>1. ~ different_apps
      BY <1>2, <1>9, <2>1 DEF TooFewUnits
    <3>2. \A a \in apps : a.keys = applications[1].keys
      BY <1>2, <1>3, <3>1 DEF different_apps
    <3> HIDE DEF apps
    <3>3. \A u \in 1 .. c : OutputKeys(u) = {EU, <<"app">>} \cup applications[1].keys
      BY <1>1, <1>6, <3>2
    <3>4. CommonColumns = {EU, <<"app">>} \cup applications[1].keys
      BY <1>7, <3>2
    <3>5. 1 \in 1 .. c
      BY <1>1
    <3>. QED
      BY <3>3, <3>4, <3>5
  <2>2. CASE ~ (c < l)
    <3>1. \A a \in apps : \E u \in 1 .. c : units[u].app = a
      <4>1. ASSUME NEW a \in apps
            PROVE  \E u \in 1 .. c : units[u].app = a
        <5>1. PICK u \in 1 .. l : a = applications[u]
          BY <1>3
        <5>2. u <= c /\ u \in 1 .. c
          BY <1>1, <1>2, <2>2
        <5>. QED
          BY <1>4, <5>1, <5>2
      <4>. QED
        BY <4>1
    <3>2. 1 \in 1 .. c
      BY <1>1
    <3> HIDE DEF apps
    <3>3. ASSUME NEW key
          PROVE  (\A u \in 1 .. c : key \in units[u].app.keys) <=> (\A a \in apps : key \in a.keys)
      BY <1>1, <3>1
    <3>4. OutputKeys(1) = {EU, <<"app">>} \cup applications[1].keys
      BY <1>5, <1>6, <3>2
    <3>5. ASSUME NEW key
          PROVE  (\A u \in 1 .. c : key \in OutputKeys(u))
                   <=> key \in {EU, <<"app">>} \/ (\A a \in apps : key \in a.keys)
      <4>1. \A u \in 1 .. c :
              key \in OutputKeys(u) <=> key \in {EU, <<"app">>} \/ key \in units[u].app.keys
        BY <1>6
      <4>. QED
        BY <3>3, <4>1
    <3>6. {key \in OutputKeys(1) : \A u \in 1 .. c : key \in OutputKeys(u)}
            = {key \in OutputKeys(1) : key \in {EU, <<"app">>} \/ (\A a \in apps : key \in a.keys)}
      BY <3>5
    <3>7. {key \in OutputKeys(1) : key \in {EU, <<"app">>} \/ (\A a \in apps : key \in a.keys)}
            = {EU, <<"app">>} \cup {key \in applications[1].keys : \A a \in apps : key \in a.keys}
      BY <1>3, <3>4
    <3>. QED
      BY <1>7, <3>6, <3>7
  <2>. QED
    BY <2>1, <2>2
<1>. QED
  BY <1>8, <1>9 DEF c

LEMMA WholeRowsShape ==
  ASSUME CampaignInv, pc = "parse", WholeLines
  PROVE  /\ Len(Rows) = Points[k].count
         /\ \A n \in 1 .. Points[k].count : Rows[n].val = [key \in CommonColumns |-> n]
<1> DEFINE c == Points[k].count
           ends == Ascending(LineEnds)
           dicts == [n \in DOMAIN ends |-> LineDict(ends[n])]
           rows == IF multi_app THEN dict_intersect(dicts) ELSE dicts
           R == Rows
<1>1. c \in Nat \ {0} /\ LineEnds = 1 .. c /\ \A e \in 1 .. c : LineDict(e) = [key \in OutputKeys(e) |-> e]
  BY UnitsShape, WholeLineShape
<1>2. /\ ~ multi_app => OutputKeys(1) = CommonColumns
      /\ multi_app =>
           {key \in OutputKeys(1) : \A u \in 1 .. c : key \in OutputKeys(u)} = CommonColumns
  BY ColumnsOfRun
<1>a. ASSUME ~ multi_app, NEW u \in 1 .. c
      PROVE  OutputKeys(u) = OutputKeys(1)
  <2>1. Len(applications) = 1
    <3> DEFINE l == Len(applications)
    <3>1. ~ (l > 1) /\ l > 0 /\ l \in Nat
      BY <1>a DEF multi_app, CampaignInv
    <3> HIDE DEF l
    <3>2. l = 1
      BY <3>1
    <3>. QED
      BY <3>2 DEF l
  <2>2. 1 \in 1 .. c /\ units[u].app = applications[1] /\ units[1].app = applications[1]
    BY <1>1, <2>1, UnitsShape
  <2>. QED
    BY <2>2 DEF OutputKeys
<1>3. R = [n \in DOMAIN rows |-> [point |-> Points[k], val |-> rows[n]]]
  BY DEF Rows
<1> HIDE DEF c, R
<1>4. ends = [n \in 1 .. c |-> n]
  BY <1>1, AscendingInterval
<1> HIDE DEF ends
<1>5. dicts = [n \in 1 .. c |-> [key \in OutputKeys(n) |-> n]]
  BY <1>1, <1>4
<1> HIDE DEF dicts
<1>6. rows = [n \in 1 .. c |-> [key \in CommonColumns |-> n]]
  <2>1. CASE ~ multi_app
    BY <1>2, <1>5, <1>a, <2>1
  <2>2. CASE multi_app
    <3>1. CommonKeys(dicts) = CommonColumns
      <4>1. dicts[1] = [key \in OutputKeys(1) |-> 1]
        BY <1>1, <1>5
      <4>2. ToSet(dicts) = {dicts[n] : n \in 1 .. c}
        BY <1>5 DEF ToSet
      <4>3. \A n \in 1 .. c : DOMAIN dicts[n] = OutputKeys(n)
        BY <1>5
      <4>4. \A key : (\A d \in ToSet(dicts) : key \in DOMAIN d) <=> (\A u \in 1 .. c : key \in OutputKeys(u))
        BY <4>2, <4>3
      <4>5. CommonKeys(dicts) = {key \in OutputKeys(1) : \A u \in 1 .. c : key \in OutputKeys(u)}
        BY <4>1, <4>4 DEF CommonKeys
      <4>. QED
        BY <1>2, <2>2, <4>5
    <3>2. \A n \in 1 .. c : \A key \in CommonColumns : dicts[n][key] = n
      <4>1. \A n \in 1 .. c : CommonColumns \subseteq OutputKeys(n)
        BY <1>2, <2>2
      <4>. QED
        BY <1>5, <4>1
    <3>3. rows = [n \in 1 .. c |-> [key \in CommonColumns |-> dicts[n][key]]]
      BY <1>5, <2>2, <3>1 DEF dict_intersect
    <3> HIDE DEF rows
    <3>. QED
      BY <3>2, <3>3
  <2>. QED
    BY <2>1, <2>2
<1> HIDE DEF rows
<1>7. /\ DOMAIN R = 1 .. c
      /\ \A n \in 1 .. c : R[n].val = [key \in CommonColumns |-> n]
  BY <1>3, <1>6
<1>8. Len(R) = c
  BY <1>1, <1>7, RowsShape DEF RowsFrom, R
<1>. QED
  BY <1>7, <1>8 DEF c, R

-----------------------------------------------------------------------------
(* The results file. *)

LEMMA RowsBeforeNext ==
  ASSUME Loaded, NEW n \in 1 .. Len(Points)
  PROVE  /\ RowsBefore(n) \in Nat
         /\ RowsBefore(n + 1) = RowsBefore(n) + Points[n].count
<1> DEFINE g == [m \in DOMAIN Points |-> Points[m].count]
           S == 1 .. n - 1
<1>1. n \in Nat /\ S \cup {n} = 1 .. (n + 1) - 1 /\ n \notin S /\ IsFiniteSet(S)
  <2>1. Len(Points) \in Nat
    BY CountsShape
  <2>2. n \in Nat /\ n >= 1
    BY <2>1
  <2>3. n \in Nat /\ S \cup {n} = 1 .. (n + 1) - 1 /\ n \notin S
    BY <2>2
  <2>4. 1 \in Int /\ n - 1 \in Int
    BY <2>2
  <2>5. IsFiniteSet(S)
    BY <2>4, FS_Interval, Zenon
  <2>. QED
    BY <2>3, <2>5
<1>2. DOMAIN Points = 1 .. Len(Points) /\ n \in DOMAIN Points /\ S \subseteq DOMAIN Points
  BY CountsShape
<1>3. \A m \in DOMAIN Points : g[m] \in Nat
  BY <1>2, CountsShape
<1>4. g[n] = Points[n].count
  BY <1>2
<1>5. RowsBefore(n) = SumFunctionOnSet(g, S) /\ RowsBefore(n + 1) = SumFunctionOnSet(g, S \cup {n})
  BY <1>1 DEF RowsBefore
<1> HIDE DEF g, S
<1>6. SumFunctionOnSet(g, S) \in Nat
  BY <1>1, <1>2, <1>3, SumNat
<1>7. SumFunctionOnSet(g, S \cup {n}) = SumFunctionOnSet(g, S) + g[n]
  <2>1. (\A m \in S : g[m] \in Int) /\ g[n] \in Int
    BY <1>2, <1>3
  <2>. QED
    BY <1>1, <2>1, SumAdd
<1>. QED
  BY <1>4, <1>5, <1>6, <1>7

\* A results file without rows, before the first run.
LEMMA EmptyFile ==
  ASSUME NEW c
  PROVE  SumFunctionOnSet(c, 1 .. 1 - 1) = 0
<1>1. 1 .. 1 - 1 = {}
  OBVIOUS
<1>. QED
  BY <1>1, SumEmpty

LEMMA CsvInit == ReportInit => CsvInv
<1> SUFFICES ASSUME ReportInit PROVE CsvInv
  OBVIOUS
<1>1. csv = <<>> /\ k = 1
  BY DEF ReportInit, Init
<1>2. RowsBefore(k) = 0
  BY <1>1, EmptyFile DEF RowsBefore
<1>3. ToSet(csv) = {} /\ 1 .. k - 1 = {} /\ Len(csv) = 0 /\ csv \in Seq(ToSet(csv))
  BY <1>1 DEF ToSet
<1>. QED
  BY <1>2, <1>3 DEF CsvInv, EveryUnitRecorded

\* The step that appends the rows of a run.
LEMMA AppendRows ==
  ASSUME CampaignInv, CsvInv, parse_output_to_results
  PROVE  CsvInv'
<1> DEFINE R == Rows
           c == Points[k].count
           A == ToSet(csv)
           B == ToSet(R)
           N == Len(csv)
<1>1. /\ pc = "parse" /\ csv' = csv \o R /\ k' = k + 1 /\ UNCHANGED config /\ Loaded
  BY DEF parse_output_to_results, CampaignInv
<1>2. Points' = Points /\ UNCHANGED applications
  BY <1>1, SameConfig DEF config
<1>3. k \in 1 .. Len(Points) /\ k \in Nat /\ c \in Nat \ {0}
  <2>1. k <= Len(Points)
    BY <1>1 DEF CampaignInv
  <2>2. k \in 1 .. Len(Points) /\ Len(Points) \in Nat
    BY <1>1, <2>1, CountsShape DEF Loaded
  <2>. QED
    BY <1>1, <2>2, UnitsShape
<1>4. RowsFrom(c, R)
  BY <1>1, RowsShape
<1>5. WholeLines => Len(R) = c /\ \A n \in 1 .. c : R[n].val = [key \in CommonColumns |-> n]
  BY <1>1, WholeRowsShape
<1> HIDE DEF R, c
<1>6. /\ csv \in Seq(A) /\ R \in Seq(B) /\ N \in Nat /\ Len(R) \in Nat \ {0}
      /\ \A n \in 1 .. N : csv[n] \in A
      /\ \A n \in 1 .. Len(R) : R[n] \in B
      /\ \A r \in B : \E n \in 1 .. Len(R) : r = R[n]
  <2>1. csv \in Seq(A)
    BY DEF CsvInv
  <2>2. N \in Nat /\ \A n \in 1 .. N : csv[n] \in A
    BY <2>1
  <2>3. Len(R) \in Nat \ {0} /\ DOMAIN R = 1 .. Len(R) /\ R \in Seq(B)
    BY <1>4 DEF RowsFrom
  <2>4. \A n \in 1 .. Len(R) : R[n] \in B
    BY <2>3 DEF ToSet
  <2>5. \A r \in B : \E n \in 1 .. Len(R) : r = R[n]
    BY <2>3 DEF ToSet
  <2>. QED
    BY <2>1, <2>2, <2>3, <2>4, <2>5
<1> DEFINE U == A \cup B
<1>7. /\ csv' \in Seq(U) /\ Len(csv') = N + Len(R)
      /\ \A n \in 1 .. N : csv'[n] = csv[n]
      /\ \A n \in 1 .. Len(R) : csv'[N + n] = R[n]
  <2>1. csv \in Seq(U) /\ R \in Seq(U)
    BY <1>6
  <2> HIDE DEF U
  <2>2. /\ csv \o R \in Seq(U) /\ Len(csv \o R) = Len(csv) + Len(R)
        /\ \A n \in 1 .. Len(csv) + Len(R) :
             (csv \o R)[n] = IF n <= Len(csv) THEN csv[n] ELSE R[n - Len(csv)]
    BY <2>1, ConcatProperties
  <2>3. \A n \in 1 .. N : csv'[n] = csv[n]
    BY <1>1, <1>6, <2>2
  <2>4. ASSUME NEW n \in 1 .. Len(R)
        PROVE  csv'[N + n] = R[n]
    <3> HIDE DEF N
    <3>1. N + n \in 1 .. N + Len(R) /\ ~ (N + n <= N) /\ (N + n) - N = n
      BY <1>6
    <3>. QED
      BY <1>1, <2>2, <3>1 DEF N
  <2>. QED
    BY <1>1, <2>2, <2>3, <2>4
<1>8. csv' \in Seq(ToSet(csv')) /\ ToSet(csv') \subseteq U
  <2> HIDE DEF U
  <2>. QED
    BY <1>7, ElementsFinite
<1>9. \A n \in 1 .. Len(R) : R[n] \in ToSet(csv')
  <2> DEFINE l == Len(R)
  <2>1. l \in Nat \ {0} /\ N \in Nat
    BY <1>6
  <2>2. DOMAIN csv' = 1 .. N + l
    BY <1>7
  <2> SUFFICES ASSUME NEW n \in 1 .. l PROVE R[n] \in ToSet(csv')
    OBVIOUS
  <2>3. csv'[N + n] = R[n]
    BY <1>7
  <2> HIDE DEF N, l
  <2>4. N + n \in 1 .. N + l
    BY <2>1
  <2>. QED
    BY <2>2, <2>3, <2>4 DEF ToSet
<1>10. A \subseteq ToSet(csv')
  <2>1. ASSUME NEW r \in A PROVE r \in ToSet(csv')
    <3>1. PICK n \in 1 .. N : r = csv[n]
      BY <1>6 DEF ToSet
    <3>2. n \in DOMAIN csv' /\ csv'[n] = r
      BY <1>6, <1>7, <3>1
    <3>. QED
      BY <3>2 DEF ToSet
  <2>. QED
    BY <2>1
<1> HIDE DEF A, B, N
<1>11. ASSUME NEW r \in ToSet(csv')
       PROVE  /\ r.point \in ToSet(Points)
              /\ EU \in DOMAIN r.val
              /\ DOMAIN r.val \subseteq AllColumns
              /\ WholeLines => DOMAIN r.val = CommonColumns
  <2>1. CASE r \in A
    BY <2>1 DEF A, CsvInv, EU, AllColumns
  <2>2. CASE r \in B
    <3>1. PICK n \in 1 .. Len(R) : r = R[n]
      BY <1>6, <2>2
    <3>2. Points[k] \in ToSet(Points)
      <4>1. DOMAIN Points = 1 .. Len(Points)
        BY <1>1, CountsShape, ElementsFinite
      <4>. QED
        BY <1>3, <4>1 DEF ToSet
    <3>. QED
      BY <1>4, <1>5, <3>1, <3>2 DEF RowsFrom
  <2>. QED
    BY <1>8, <2>1, <2>2
<1>12. /\ RowsBefore(k) \in Nat
       /\ RowsBefore(k + 1) = RowsBefore(k) + c
       /\ \A n \in 1 .. Len(Points) : RowsBefore(n) \in Nat /\ Points[n].count \in Nat
  BY <1>1, <1>3, RowsBeforeNext, CountsShape DEF c
<1>13. /\ RowsBefore(k)' = RowsBefore(k + 1)
       /\ \A n : RowsBefore(n)' = RowsBefore(n)
  BY <1>1, <1>2 DEF RowsBefore
<1>14. 1 .. k' - 1 = (1 .. k - 1) \cup {k} /\ \A n \in 1 .. k - 1 : n \in 1 .. Len(Points)
  BY <1>1, <1>3, CountsShape
<1>15. ASSUME WholeLines
       PROVE  /\ Len(csv') = RowsBefore(k + 1)
              /\ \A n \in 1 .. k' - 1 : RowsBefore(n) + Points[n].count <= Len(csv')
              /\ \A n \in 1 .. k' - 1 : \A u \in 1 .. Points[n].count :
                   IsRowOf(csv'[RowsBefore(n) + u], Points[n], u)
  <2>1. /\ N = RowsBefore(k) /\ Len(R) = c
        /\ \A n \in 1 .. k - 1 :
             /\ RowsBefore(n) + Points[n].count <= N
             /\ \A u \in 1 .. Points[n].count : IsRowOf(csv[RowsBefore(n) + u], Points[n], u)
    BY <1>5, <1>15 DEF CsvInv, EveryUnitRecorded, N
  <2>2. Len(csv') = RowsBefore(k + 1)
    BY <1>7, <1>12, <2>1
  <2>3. ASSUME NEW n \in 1 .. k - 1
        PROVE  /\ RowsBefore(n) + Points[n].count <= Len(csv')
               /\ \A u \in 1 .. Points[n].count : IsRowOf(csv'[RowsBefore(n) + u], Points[n], u)
    <3> DEFINE a == RowsBefore(n)
               b == Points[n].count
    <3>1. a \in Nat /\ b \in Nat /\ a + b <= N
      BY <1>12, <1>14, <2>1
    <3>2. \A u \in 1 .. b : IsRowOf(csv[a + u], Points[n], u)
      BY <2>1
    <3> HIDE DEF a, b
    <3>3. a + b <= Len(csv')
      BY <1>6, <1>7, <3>1
    <3>4. \A u \in 1 .. b : a + u \in 1 .. N
      BY <1>6, <3>1
    <3>5. \A u \in 1 .. b : csv'[a + u] = csv[a + u]
      BY <1>7, <3>4
    <3>6. \A u \in 1 .. b : IsRowOf(csv'[a + u], Points[n], u)
      BY <3>2, <3>5
    <3>. QED
      BY <3>3, <3>6 DEF a, b
  <2>4. /\ RowsBefore(k) + c <= Len(csv')
        /\ \A u \in 1 .. c : IsRowOf(csv'[RowsBefore(k) + u], Points[k], u)
    <3>1. RowsBefore(k) + c <= Len(csv')
      BY <1>3, <1>12, <2>2
    <3>2. ASSUME NEW u \in 1 .. c
          PROVE  IsRowOf(csv'[RowsBefore(k) + u], Points[k], u)
      <4>1. csv'[RowsBefore(k) + u] = R[u]
        BY <1>7, <2>1
      <4>2. R[u].point = Points[k] /\ EU \in DOMAIN R[u].val
        BY <1>4, <2>1 DEF RowsFrom
      <4>3. R[u].val = [key \in CommonColumns |-> u]
        BY <1>5, <1>15
      <4>. QED
        BY <4>1, <4>2, <4>3 DEF IsRowOf, EU
    <3>. QED
      BY <3>1, <3>2
  <2>. QED
    BY <1>14, <2>2, <2>3, <2>4 DEF c
<1>16. ASSUME NEW n \in 1 .. k' - 1, NEW u \in 1 .. Points[n].count,
              AppOf(u).newline \/ u = Points[n].count
       PROVE  \E r \in ToSet(csv') : r.point = Points[n] /\ r.val[EU] = u
  <2>1. CASE n = k
    <3>1. u \in 1 .. c /\ (AppOf(u).newline \/ u = c)
      BY <1>16, <2>1 DEF c
    <3>2. PICK m \in 1 .. Len(R) : R[m].val[EU] = u
      BY <1>4, <3>1 DEF RowsFrom
    <3>3. R[m].point = Points[n]
      BY <1>4, <2>1 DEF RowsFrom
    <3>. QED
      BY <1>9, <3>2, <3>3
  <2>2. CASE n # k
    <3>1. n \in 1 .. k - 1
      BY <1>14, <2>2
    <3>2. PICK r \in A : r.point = Points[n] /\ r.val[EU] = u
      BY <1>16, <3>1 DEF CsvInv, EveryUnitRecorded, A, EU
    <3>. QED
      BY <1>10, <3>2
  <2>. QED
    BY <2>1, <2>2
<1>17. /\ WholeLines' = WholeLines /\ CommonColumns' = CommonColumns /\ AllColumns' = AllColumns
       /\ \A u : AppOf(u)' = AppOf(u)
  BY <1>2 DEF WholeLines, CommonColumns, AllColumns, AppOf
<1>18. EveryUnitRecorded'
  <2>1. ASSUME WholeLines', NEW n \in 1 .. k' - 1, NEW u \in 1 .. Points'[n].count
        PROVE  /\ csv'[RowsBefore(n)' + u].point = Points'[n]
               /\ csv'[RowsBefore(n)' + u].val = [key \in CommonColumns' |-> u]
    <3>1. IsRowOf(csv'[RowsBefore(n) + u], Points[n], u)
      BY <1>2, <1>15, <1>17, <2>1
    <3>. QED
      BY <1>2, <1>13, <1>17, <3>1 DEF IsRowOf
  <2>2. WholeLines' => Len(csv') = RowsBefore(k)'
    BY <1>13, <1>15, <1>17
  <2>3. \A n \in 1 .. k' - 1 : \A u \in 1 .. Points'[n].count :
          AppOf(u)'.newline \/ u = Points'[n].count =>
            \E r \in ToSet(csv') : r.point = Points'[n] /\ r.val[<<"execution_unit">>] = u
    BY <1>2, <1>16, <1>17 DEF EU
  <2>. QED
    BY <2>1, <2>2, <2>3 DEF EveryUnitRecorded, IsRowOf
<1>. QED
  BY <1>2, <1>8, <1>11, <1>13, <1>15, <1>17, <1>18 DEF CsvInv, EU, AllColumns

LEMMA CsvStep ==
  ASSUME CampaignInv, CsvInv, [Next]_vars
  PROVE  CsvInv'
<1>1. CASE LoadConfig
  <2>1. csv' = <<>> /\ k' = 1
    BY <1>1 DEF LoadConfig, CampaignInv
  <2>2. RowsBefore(k)' = 0
    BY <2>1, EmptyFile DEF RowsBefore
  <2>3. ToSet(csv') = {} /\ 1 .. k' - 1 = {} /\ Len(csv') = 0 /\ csv' \in Seq(ToSet(csv'))
    BY <2>1 DEF ToSet
  <2>. QED
    BY <2>2, <2>3 DEF CsvInv, EveryUnitRecorded
<1>2. CASE parse_output_to_results
  BY <1>2, AppendRows
<1>3. ASSUME UNCHANGED <<config, k, csv>>
      PROVE  CsvInv'
  <2>1. Points' = Points /\ UNCHANGED <<applications, k, csv>>
    BY <1>3, SameConfig DEF config
  <2>2. /\ WholeLines' = WholeLines /\ CommonColumns' = CommonColumns
        /\ RowsBefore(k)' = RowsBefore(k) /\ \A n : RowsBefore(n)' = RowsBefore(n)
        /\ \A u : AppOf(u)' = AppOf(u)
    BY <2>1 DEF WholeLines, CommonColumns, RowsBefore, AppOf
  <2>3. EveryUnitRecorded'
    <3>1. ASSUME WholeLines', NEW n \in 1 .. k' - 1, NEW u \in 1 .. Points'[n].count
          PROVE  /\ csv'[RowsBefore(n)' + u].point = Points'[n]
                 /\ csv'[RowsBefore(n)' + u].val = [key \in CommonColumns' |-> u]
      <4>1. IsRowOf(csv[RowsBefore(n) + u], Points[n], u)
        BY <2>1, <2>2, <3>1 DEF CsvInv, EveryUnitRecorded
      <4>. QED
        BY <2>1, <2>2, <4>1 DEF IsRowOf
    <3>2. WholeLines' => Len(csv') = RowsBefore(k)'
      BY <2>1, <2>2 DEF CsvInv, EveryUnitRecorded
    <3>3. \A n \in 1 .. k' - 1 : \A u \in 1 .. Points'[n].count :
            AppOf(u)'.newline \/ u = Points'[n].count =>
              \E r \in ToSet(csv') : r.point = Points'[n] /\ r.val[<<"execution_unit">>] = u
      BY <2>1, <2>2 DEF CsvInv, EveryUnitRecorded
    <3>. QED
      BY <3>1, <3>2, <3>3 DEF EveryUnitRecorded, IsRowOf
  <2>. QED
    BY <2>1, <2>2, <2>3 DEF CsvInv
<1>4. CASE UNCHANGED vars
  BY <1>3, <1>4 DEF vars, campaignVars
<1>5. CASE LoadFails \/ RefuseRun \/ NoOffset \/ CreateUnits \/ exec_all
  BY <1>3, <1>5 DEF LoadFails, RefuseRun, NoOffset, CreateUnits, exec_all
<1>6. CASE visualize_in_html \/ ReportFails \/ WriteReport
  BY <1>3, <1>6 DEF visualize_in_html, ReportFails, WriteReport
<1>7. CASE NormalPlot \/ create_min_max_avg_plot \/ create_success_rate_plot
             \/ create_histogram_plot \/ LinearitySkipped \/ create_linearity_plot \/ NextFrame
  BY <1>3, <1>7 DEF NormalPlot, create_min_max_avg_plot, create_success_rate_plot,
       create_histogram_plot, LinearitySkipped, create_linearity_plot, NextFrame, Draw, Skip, campaignVars
<1>. QED
  BY <1>1, <1>2, <1>4, <1>5, <1>6, <1>7 DEF Next, CampaignStep, Over

-----------------------------------------------------------------------------
(* Theorems about the campaign. *)

\* The inductive invariant of the campaign and of its results file.
THEOREM CampaignInvariant == Spec => [](CampaignInv /\ CsvInv)
<1>1. ReportInit => CampaignInv /\ CsvInv
  BY CampaignInit, CsvInit
<1>2. (CampaignInv /\ CsvInv) /\ [Next]_vars => (CampaignInv /\ CsvInv)'
  BY CampaignInvStep, CsvStep
<1>. QED
  BY <1>1, <1>2, PTL DEF Spec

\* Every unit of every finished run has its row, in the order of runs and
\* units, and the last unit has one whatever the outputs end with.
THEOREM RowsSafe == Spec => []EveryUnitRecorded
<1>1. CsvInv => EveryUnitRecorded
  BY DEF CsvInv
<1>. QED
  BY <1>1, CampaignInvariant, PTL

\* Runs with different numbers of units have the same columns.
THEOREM ColumnsSafe == Spec => []ColumnsStable
<1>1. CsvInv => ColumnsStable
  BY DEF CsvInv, ColumnsStable
<1>. QED
  BY <1>1, CampaignInvariant, PTL

\* A configuration is refused before the first run or never, and the default
\* offsets are never too few.
THEOREM RefusalSafe == Spec => []RefusedBeforeFirstRun
<1>1. CampaignInv => RefusedBeforeFirstRun
  <2> SUFFICES ASSUME CampaignInv PROVE RefusedBeforeFirstRun
    OBVIOUS
  <2>1. pc = "exited" => csv = <<>>
    BY DEF CampaignInv
  <2>2. ASSUME pc = "raised", offsets = DefaultOffsets(container_list)
        PROVE  FALSE
    <3>1. Loaded /\ k <= Len(Points) /\ Points[k].count > Len(offsets)
      BY <2>2 DEF CampaignInv
    <3>a. Len(Points) \in Nat /\ k \in 1 .. Len(Points) + 1
      BY <3>1, CountsShape DEF Loaded
    <3>b. k \in 1 .. Len(Points)
      BY <3>1, <3>a
    <3>2. /\ Points[k].count \in Nat
          /\ Points[k].count <= Last(container_list) /\ Last(container_list) \in Nat
      BY <3>1, <3>b, CountsShape
    <3>3. Len(offsets) = Last(container_list)
      BY <2>2, <3>2 DEF DefaultOffsets
    <3>. QED
      BY <3>1, <3>2, <3>3
  <2>. QED
    BY <2>1, <2>2 DEF RefusedBeforeFirstRun
<1>. QED
  BY <1>1, CampaignInvariant, PTL

\* The cores of a unit with a default offset, when there are enough for all.
LEMMA CoresOfUnit ==
  ASSUME NEW n \in Nat \ {0}, CoreCount * n <= CpuCount, NEW u \in 1 .. n
  PROVE  get_cpu_set(CoreCount * (u - 1), CoreCount)
           = CoreCount * (u - 1) .. CoreCount * (u - 1) + (CoreCount - 1)
<1> DEFINE C == CoreCount
           D == CpuCount
           a == C * (u - 1)
<1>1. C \in Nat \ {0} /\ D \in Nat \ {0} /\ C * n <= D /\ C * n \in Nat
  OBVIOUS
<1> HIDE DEF C, D
<1>2. a \in Nat /\ a + C = C * u
  BY <1>1
<1>3. C * u <= C * n
  <2>1. n - u \in Nat
    OBVIOUS
  <2>2. C * (n - u) \in Nat
    BY <1>1, <2>1
  <2>3. C * n = C * u + C * (n - u)
    BY <1>1, <2>1
  <2>4. C * u \in Nat
    BY <1>1
  <2>. QED
    BY <1>1, <2>2, <2>3, <2>4
<1> HIDE DEF a
<1>4. a + C <= D
  BY <1>1, <1>2, <1>3
<1>5. C <= D
  BY <1>1, <1>2, <1>4
<1>6. Min({C, D}) = C
  <2>1. \A x \in {C, D} : (\A y \in {C, D} : x <= y) => x = C
    BY <1>1, <1>5
  <2>2. \A y \in {C, D} : C <= y
    BY <1>1, <1>5
  <2>. QED
    BY <2>1, <2>2 DEF Min
<1>7. \A c \in 0 .. C - 1 : (a + c) % D = a + c
  <2>1. ASSUME NEW c \in 0 .. C - 1
        PROVE  (a + c) % D = a + c
    <3> DEFINE r == a + c
    <3>1. r \in 0 .. D - 1 /\ 0 \in Nat /\ D > 0
      BY <1>1, <1>2, <1>4
    <3> HIDE DEF r
    <3>2. (D * 0 + r) % D = r
      BY <1>1, <3>1, Division
    <3>3. D * 0 + r = r
      BY <1>1, <3>1
    <3>. QED
      BY <3>2, <3>3 DEF r
  <2>. QED
    BY <2>1
<1>8. get_cpu_set(a, C) = {(a + c) % D : c \in 0 .. C - 1}
  BY <1>6 DEF get_cpu_set, C, D
<1>9. {(a + c) % D : c \in 0 .. C - 1} = {a + c : c \in 0 .. C - 1}
  BY <1>7
<1>10. {a + c : c \in 0 .. C - 1} = a .. a + (C - 1)
  <2>1. ASSUME NEW x \in a .. a + (C - 1)
        PROVE  \E c \in 0 .. C - 1 : x = a + c
    <3>1. x - a \in 0 .. C - 1 /\ x = a + (x - a)
      BY <1>1, <1>2
    <3>. QED
      BY <3>1
  <2>2. \A c \in 0 .. C - 1 : a + c \in a .. a + (C - 1)
    BY <1>1, <1>2
  <2>. QED
    BY <2>1, <2>2
<1>. QED
  BY <1>8, <1>9, <1>10 DEF a, C

\* Without explicit offsets no two units of a run share a core, and each has
\* as many as configured, on every machine that has enough of them.
THEOREM CoresSafe == Spec => []CoresDisjoint
<1>1. CampaignInv => CoresDisjoint
  <2> SUFFICES ASSUME CampaignInv, pc = "exec", offsets = DefaultOffsets(container_list),
                      CoreCount * Len(units) <= CpuCount
               PROVE  /\ \A u, v \in DOMAIN units : u # v => units[u].cores \cap units[v].cores = {}
                      /\ \A u \in DOMAIN units : Cardinality(units[u].cores) = CoreCount
    BY DEF CoresDisjoint
  <2> DEFINE n == Len(units)
             C == CoreCount
  <2>1. /\ n \in Nat \ {0} /\ DOMAIN units = 1 .. n /\ C * n <= CpuCount /\ C \in Nat \ {0}
        /\ \A u \in 1 .. n : units[u].cores = get_cpu_set(offsets[u], CoreCount)
    BY UnitsShape
  <2>2. \A u \in 1 .. n : offsets[u] = C * (u - 1)
    <3>1. Loaded /\ k <= Len(Points) /\ Points[k].count <= Len(offsets) /\ n = Points[k].count
      BY UnitsShape DEF CampaignInv
    <3>a. Len(Points) \in Nat /\ k \in 1 .. Len(Points) + 1
      BY <3>1, CountsShape DEF Loaded
    <3>b. k \in 1 .. Len(Points)
      BY <3>1, <3>a
    <3>2. Last(container_list) \in Nat /\ n <= Last(container_list)
      BY <3>1, <3>b, CountsShape
    <3>3. \A u \in 1 .. n : u \in 1 .. Last(container_list)
      BY <2>1, <3>2
    <3>. QED
      BY <3>3 DEF DefaultOffsets
  <2> HIDE DEF n
  <2>3. ASSUME NEW u \in 1 .. n
        PROVE  /\ units[u].cores = C * (u - 1) .. C * (u - 1) + (C - 1)
               /\ C * (u - 1) \in Nat
    <3>1. get_cpu_set(C * (u - 1), C) = C * (u - 1) .. C * (u - 1) + (C - 1)
      BY <2>1, CoresOfUnit
    <3>2. units[u].cores = get_cpu_set(C * (u - 1), C)
      BY <2>1, <2>2
    <3>3. C * (u - 1) \in Nat
      BY <2>1
    <3>. QED
      BY <3>1, <3>2, <3>3
  <2>4. ASSUME NEW u \in 1 .. n
        PROVE  Cardinality(units[u].cores) = C
    <3> DEFINE a == C * (u - 1)
               b == a + (C - 1)
    <3>1. a \in Int /\ b \in Int /\ units[u].cores = a .. b /\ ~ (a > b) /\ b - a + 1 = C
      BY <2>1, <2>3
    <3> HIDE DEF a, b
    <3>2. Cardinality(a .. b) = IF a > b THEN 0 ELSE b - a + 1
      BY <3>1, FS_Interval, Zenon
    <3>. QED
      BY <3>1, <3>2
  <2>5. ASSUME NEW u \in 1 .. n, NEW v \in 1 .. n, u < v
        PROVE  units[u].cores \cap units[v].cores = {}
    <3> DEFINE a == C * (u - 1)
               b == C * (v - 1)
    <3>1. a \in Nat /\ b \in Nat /\ a + C <= b
      <4>1. v - 1 - u \in Nat
        BY <2>1, <2>5
      <4>2. C * (v - 1 - u) \in Nat
        BY <2>1, <4>1
      <4>3. C * (v - 1) = C * (u - 1) + C + C * (v - 1 - u)
        BY <2>1
      <4>4. a \in Nat /\ b \in Nat
        BY <2>3
      <4>. QED
        BY <2>1, <4>2, <4>3, <4>4
    <3>2. units[u].cores = a .. a + (C - 1) /\ units[v].cores = b .. b + (C - 1)
      BY <2>3
    <3> HIDE DEF a, b, C
    <3>3. \A x \in a .. a + (C - 1) : x \notin b .. b + (C - 1)
      BY <2>1, <3>1
    <3>. QED
      BY <3>2, <3>3
  <2>6. ASSUME NEW u \in 1 .. n, NEW v \in 1 .. n, u # v
        PROVE  units[u].cores \cap units[v].cores = {}
    <3>1. u < v \/ v < u
      BY <2>6
    <3>2. u < v => units[u].cores \cap units[v].cores = {}
      BY <2>5
    <3>3. v < u => units[v].cores \cap units[u].cores = {}
      BY <2>5
    <3>. QED
      BY <3>1, <3>2, <3>3
  <2>. QED
    BY <2>1, <2>4, <2>6
<1>. QED
  BY <1>1, CampaignInvariant, PTL

-----------------------------------------------------------------------------
(* The data frames of a report. *)

\* What occurs in a list is a list of some of its members.
LEMMA OccurringShape ==
  ASSUME NEW list, list \in Seq(Int), NEW S
  PROVE  /\ Occurring(list, S) \in Seq(ToSet(list))
         /\ (\E x \in ToSet(list) : x \in S) => Len(Occurring(list, S)) > 0
<1> DEFINE F == {n \in DOMAIN list : list[n] \in S /\ \A m \in 1 .. n - 1 : list[m] # list[n]}
           first == Ascending(F)
           c == Cardinality(F)
           O == Occurring(list, S)
           l == Len(list)
<1>1. l \in Nat /\ DOMAIN list = 1 .. l
  OBVIOUS
<1>2. \A n \in DOMAIN list : list[n] \in ToSet(list)
  BY DEF ToSet
<1>3. \A x \in ToSet(list) : \E n \in DOMAIN list : x = list[n]
  BY DEF ToSet
<1>4. O = [n \in DOMAIN first |-> list[first[n]]]
  BY DEF Occurring
<1> HIDE DEF l, O
<1>5. F \in SUBSET Int /\ IsFiniteSet(F) /\ F \subseteq DOMAIN list
  <2>1. 1 \in Int /\ l \in Int
    BY <1>1
  <2>2. IsFiniteSet(1 .. l)
    BY <2>1, FS_Interval, Zenon
  <2>3. F \subseteq 1 .. l
    BY <1>1
  <2> HIDE DEF F
  <2>4. IsFiniteSet(F)
    BY <2>2, <2>3, FS_Subset
  <2>. QED
    BY <1>1, <2>3, <2>4
<1>6. ASSUME NEW x \in ToSet(list), x \in S
      PROVE  F # {}
  <2> DEFINE T == {n \in DOMAIN list : list[n] \in S}
  <2>1. T \subseteq Nat /\ T # {}
    BY <1>1, <1>3, <1>6
  <2>2. PICK n \in T : \A m \in T : n <= m
    <3> HIDE DEF T
    <3>. QED
      BY <2>1, LeastNumber
  <2>3. \A m \in 1 .. n - 1 : m \in DOMAIN list /\ ~ (n <= m)
    BY <1>1, <2>2
  <2>4. \A m \in 1 .. n - 1 : list[m] \notin S
    BY <2>2, <2>3
  <2>5. n \in F
    BY <2>2, <2>4
  <2>. QED
    BY <2>5
<1> HIDE DEF F
<1>7. first \in [1 .. c -> F] /\ c \in Nat /\ (F # {} => c # 0)
  BY <1>5, AscendingShape, FS_CardinalityType, FS_EmptySet
<1> HIDE DEF first, c
<1>8. O \in [1 .. c -> ToSet(list)]
  BY <1>2, <1>4, <1>5, <1>7
<1>9. O \in Seq(ToSet(list)) /\ Len(O) = c
  BY <1>7, <1>8
<1>. QED
  BY <1>6, <1>7, <1>9 DEF O

\* The lists are loaded and rows have points of the campaign, if there are rows.
LEMMA RowsOfCampaign ==
  ASSUME CampaignInv, CsvInv, csv # <<>>
  PROVE  /\ Loaded /\ csv[1] \in ToSet(csv)
         /\ \A r \in ToSet(csv) : r.point.noise \in ToSet(Noises) /\ r.point.threads \in ToSet(Threads)
<1>1. Loaded
  BY DEF CampaignInv
<1>2. csv \in Seq(ToSet(csv))
  BY DEF CsvInv
<1>3. Len(csv) \in Nat /\ Len(csv) # 0 /\ DOMAIN csv = 1 .. Len(csv)
  BY <1>2
<1>4. 1 \in DOMAIN csv
  BY <1>3
<1>5. csv[1] \in ToSet(csv)
  BY <1>4 DEF ToSet
<1>6. ToSet(Points) \subseteq [threads: ToSet(Threads), noise: ToSet(Noises), count: Nat \ {0}]
  BY <1>1, CountsShape, ElementsFinite
<1>. QED
  BY <1>1, <1>5, <1>6 DEF CsvInv

\* There is a data frame, and its noise and number of threads are configured.
LEMMA FramesShape ==
  ASSUME CampaignInv, CsvInv, csv # <<>>
  PROVE  /\ Len(Frames) \in Nat \ {0} /\ DOMAIN Frames = 1 .. Len(Frames)
         /\ \A fr \in 1 .. Len(Frames) :
              Frames[fr].noise \in ToSet(Noises) /\ Frames[fr].threads \in ToSet(Threads)
<1> DEFINE NS == {r.point.noise : r \in ToSet(csv)}
           TS == {r.point.threads : r \in ToSet(csv)}
           s == Occurring(Noises, NS)
           t == Occurring(Threads, TS)
           A == ToSet(Noises)
           B == ToSet(Threads)
           all == Product(s, t)
           F == Frames
<1>1. F = [m \in DOMAIN all |-> [noise |-> all[m][1], threads |-> all[m][2]]]
  BY DEF Frames
<1>2. (\E x \in A : x \in NS) /\ (\E x \in B : x \in TS)
  BY RowsOfCampaign
<1> HIDE DEF NS, TS
<1>3. s \in Seq(A) /\ Len(s) > 0 /\ t \in Seq(B) /\ Len(t) > 0
  BY <1>2, OccurringShape
<1> HIDE DEF s, t, A, B
<1>4. all \in Seq(A \X B) /\ Len(all) > 0
  BY <1>3, ProductShape DEF IsProduct
<1> HIDE DEF all
<1>5. /\ Len(all) \in Nat \ {0} /\ DOMAIN all = 1 .. Len(all)
      /\ \A m \in 1 .. Len(all) : all[m][1] \in A /\ all[m][2] \in B
  BY <1>4
<1> DEFINE l == Len(all)
<1>6. l \in Nat \ {0} /\ DOMAIN all = 1 .. l
  BY <1>5
<1> HIDE DEF l, F
<1>7. DOMAIN F = 1 .. l /\ \A m \in 1 .. l : F[m].noise = all[m][1] /\ F[m].threads = all[m][2]
  BY <1>1, <1>6
<1>8. Len(F) = l
  BY <1>1, <1>6
<1>. QED
  BY <1>5, <1>6, <1>7, <1>8 DEF l, F, A, B

\* After a complete campaign no data frame is empty: each is of a combination
\* that was run.
LEMMA CompleteFrames ==
  ASSUME CampaignInv, CsvInv, csv # <<>>, NEW fr \in 1 .. Len(Frames), FrameRows(Frames[fr]) = {}
  PROVE  k <= Len(Points)
<1>1. SUFFICES ASSUME ~ (k <= Len(Points)) PROVE FALSE
  OBVIOUS
<1>2. Loaded /\ container_list \in Seq(Nat \ {0}) /\ Len(container_list) > 0
  BY RowsOfCampaign DEF Loaded
<1>3. k = Len(Points) + 1 /\ Len(Points) \in Nat
  BY <1>1, <1>2, CountsShape DEF Loaded
<1>4. PICK n \in 1 .. Len(Points) :
        Points[n].threads = Frames[fr].threads /\ Points[n].noise = Frames[fr].noise
  <2>1. Frames[fr].threads \in ToSet(Threads) /\ Frames[fr].noise \in ToSet(Noises)
    BY FramesShape
  <2>2. \A t \in ToSet(Threads), x \in ToSet(Noises) : \E n \in 1 .. Len(Points) :
          Points[n].threads = t /\ Points[n].noise = x
    BY <1>2, PointsShape DEF Points
  <2> DEFINE t == Frames[fr].threads
             x == Frames[fr].noise
             l == Len(Points)
  <2>3. t \in ToSet(Threads) /\ x \in ToSet(Noises)
    BY <2>1
  <2> HIDE DEF t, x, l
  <2>4. \E n \in 1 .. l : Points[n].threads = t /\ Points[n].noise = x
    BY <2>2, <2>3 DEF l
  <2>. QED
    BY <2>4 DEF t, x, l
<1>5. n \in 1 .. k - 1
  BY <1>3
<1>6. PICK r \in ToSet(csv) : r.point = Points[n]
  <2> DEFINE c == Points[n].count
  <2>a. c \in Nat \ {0}
    BY <1>2, CountsShape
  <2> HIDE DEF c
  <2>b. c \in 1 .. c
    BY <2>a
  <2>1. Points[n].count \in 1 .. Points[n].count
    BY <2>b DEF c
  <2>. QED
    BY <1>5, <2>1 DEF CsvInv, EveryUnitRecorded
<1>. QED
  BY <1>4, <1>6 DEF FrameRows

\* The columns that plots make up are not in the results file.
LEMMA DerivedColumns ==
  ASSUME CampaignInv, CsvInv, csv # <<>>, NEW y \in Seq(Parts)
  PROVE  /\ <<"linearity">> \notin Columns
         /\ Append(<<"latency">>, "histogram") \notin Columns
         /\ Append(Append(y, "succ_percent"), "count") \notin Columns
<1> DEFINE one == {<<"container_cnt">>, <<"execution_type">>, <<"execution_unit">>, <<"app">>}
           printed == UNION {a.keys : a \in ToSet(applications)}
<1>1. Columns \subseteq one \cup printed
  BY RowsOfCampaign DEF Columns, CsvInv
<1>2. \A key \in one : Len(key) = 1
  OBVIOUS
<1>3. \A key \in printed :
        /\ key # <<"latency", "histogram">> /\ key # <<"linearity">>
        /\ Len(key) > 1 => key[Len(key) - 1] # "succ_percent"
  BY ReportAssumption DEF CampaignInv
<1>a. <<"linearity">> \notin Columns
  <2>1. <<"linearity">> \notin one
    OBVIOUS
  <2> HIDE DEF one, printed
  <2>. QED
    BY <1>1, <1>3, <2>1
<1> HIDE DEF one, printed
<1>4. PICK h : h = <<"latency", "histogram">> /\ h = Append(<<"latency">>, "histogram")
  BY AppendPair
<1>5. Len(h) = 2
  BY <1>4
<1>6. h \notin Columns
  <2>2. h \notin printed
    BY <1>3, <1>4
  <2>3. ASSUME h \in one PROVE FALSE
    <3>1. Len(h) = 1
      BY <1>2, <2>3
    <3>2. 1 # 2
      OBVIOUS
    <3>. QED
      BY <1>5, <3>1, <3>2, Zenon
  <2>. QED
    BY <1>1, <2>2, <2>3
<1> DEFINE z == Append(y, "succ_percent")
           x == Append(z, "count")
           l == Len(y)
<1>7. l \in Nat /\ z \in Seq(Parts) /\ Len(z) = l + 1 /\ z[l + 1] = "succ_percent"
  <2>1. "succ_percent" \in Parts
    BY DEF Parts
  <2>. QED
    BY <2>1, AppendProperties
<1> HIDE DEF z, l
<1>8. Len(x) = (l + 1) + 1 /\ \A n \in 1 .. l + 1 : x[n] = z[n]
  <2>1. "count" \in Parts
    BY DEF Parts
  <2>. QED
    BY <1>7, <2>1, AppendProperties
<1> HIDE DEF x
<1>9. Len(x) > 1 /\ Len(x) # 1 /\ Len(x) - 1 = l + 1 /\ l + 1 \in 1 .. l + 1
  BY <1>7, <1>8
<1>10. x[Len(x) - 1] = "succ_percent"
  BY <1>7, <1>8, <1>9
<1>11. x \notin Columns
  BY <1>1, <1>2, <1>3, <1>9, <1>10
<1>. QED
  BY <1>a, <1>4, <1>6, <1>11 DEF x, z

-----------------------------------------------------------------------------
(* The report. *)

USE ReportAssumption

LEMMA ReportInvInit == ReportInit => ReportInv
BY DEF ReportInit, Init, ReportInv, ReportAborts, Plotting

\* What a report is made of does not change while it is made.
LEMMA SameFile ==
  ASSUME UNCHANGED <<config, k, csv>>
  PROVE  /\ Points' = Points /\ Columns' = Columns /\ Frames' = Frames
         /\ \A fr : FrameRows(fr)' = FrameRows(fr)
         /\ \A rows, hue : HasBaseline(rows, hue)' = HasBaseline(rows, hue)
         /\ \A y : ZeroBaseline(y)' = ZeroBaseline(y)
         /\ \A rows, y : NothingCounted(rows, y)' = NothingCounted(rows, y)
<1>1. Points' = Points /\ csv' = csv /\ applications' = applications
  BY SameConfig DEF config
<1>. QED
  BY <1>1 DEF Columns, Frames, FrameRows, HasBaseline, HueOf, ZeroBaseline, NothingCounted, AppOf

\* The plots and their number.
LEMMA PlotsShape ==
  ASSUME ReportInv, pc \in Plotting
  PROVE  /\ Len(asked) \in Nat /\ Len(plots) = Len(asked)
         /\ DOMAIN asked = 1 .. Len(asked) /\ DOMAIN plots = 1 .. Len(asked)
         /\ \A q \in 1 .. Len(asked) :
              /\ asked[q] \in Plots /\ plots[q] \in Plots
              /\ plots[q].type = asked[q].type /\ plots[q].hue = asked[q].hue
              /\ \/ plots[q].y = asked[q].y
                 \/ /\ asked[q].type \notin {"normal", "min_max_avg"}
                    /\ asked[q].type = "linearity" => plots[q].y = <<"linearity">>
                    /\ \E fr \in DOMAIN Frames : <<fr, q>> \in figures
<1>1. PlotsInv
  BY DEF ReportInv
<1>2. asked \in Seq(Plots) /\ plots \in Seq(Plots) /\ Len(plots) = Len(asked)
  BY <1>1 DEF PlotsInv
<1>3. Len(asked) \in Nat /\ DOMAIN asked = 1 .. Len(asked) /\ DOMAIN plots = 1 .. Len(asked)
  BY <1>2
<1>4. \A q \in 1 .. Len(asked) : asked[q] \in Plots /\ plots[q] \in Plots
  BY <1>2, <1>3
<1>. QED
  BY <1>1, <1>2, <1>3, <1>4 DEF PlotsInv

\* A report starts with what is asked for.
LEMMA StartReport ==
  ASSUME CampaignInv, CsvInv, ReportInv, visualize_in_html
  PROVE  ReportInv'
<1>1. /\ pc \notin Plotting /\ f = 1 /\ p = 1 /\ f' = 1 /\ p' = 1 /\ UNCHANGED <<config, k, csv>>
      /\ figures' = {}
  BY DEF visualize_in_html, Stopped, ReportInv, Plotting
<1>2. csv # <<>>
  <2>1. CASE pc = "visualize"
    <3>1. k = Len(Points) + 1 /\ Len(Points) \in Nat \ {0} /\ Loaded
      BY <2>1, CountsShape DEF CampaignInv
    <3>2. 1 \in 1 .. k - 1 /\ 1 \in 1 .. Len(Points)
      BY <3>1
    <3>a. Points[1].count \in 1 .. Points[1].count
      BY <3>1, <3>2, CountsShape
    <3> DEFINE u == Points[1].count
    <3>b. u \in 1 .. Points[1].count /\ u = Points[1].count
      BY <3>a
    <3> HIDE DEF u
    <3>c. \A w \in 1 .. Points[1].count : w = Points[1].count =>
            \E r \in ToSet(csv) : r.point = Points[1]
      <4>1. EveryUnitRecorded
        BY DEF CsvInv
      <4>2. \A m \in 1 .. k - 1 : \A w \in 1 .. Points[m].count :
              AppOf(w).newline \/ w = Points[m].count =>
                \E r \in ToSet(csv) : r.point = Points[m] /\ r.val[<<"execution_unit">>] = w
        BY <4>1, Zenon DEF EveryUnitRecorded
      <4>. QED
        BY <3>2, <4>2
    <3>3. \E r \in ToSet(csv) : r.point = Points[1]
      BY <3>b, <3>c
    <3>. QED
      BY <3>3 DEF ToSet
  <2>2. CASE pc # "visualize"
    BY <2>2 DEF visualize_in_html
  <2>. QED
    BY <2>1, <2>2
<1>3. /\ pc' = "plot" /\ asked' \in Seq(Plots) /\ plots' = asked'
  BY DEF visualize_in_html
<1>4. Frames' = Frames /\ Len(Frames) \in Nat \ {0} /\ DOMAIN Frames = 1 .. Len(Frames)
  BY <1>1, <1>2, SameFile, FramesShape
<1>5. Len(asked') \in Nat /\ DOMAIN asked' = 1 .. Len(asked')
  BY <1>3
<1>6. f' \in 1 .. Len(Frames) + 1 /\ p' \in 1 .. Len(asked') + 1
  BY <1>1, <1>4, <1>5
<1>7. \A fr \in DOMAIN Frames, q \in DOMAIN asked' : ~ (fr < f' \/ (fr = f' /\ q < p'))
  BY <1>1, <1>4, <1>5
<1>8. PlotsInv'
  BY <1>3 DEF PlotsInv
<1>9. DrawnOnce'
  <2>1. \A q \in DOMAIN asked' : ~ (p' > q)
    BY <1>1, <1>5
  <2>. QED
    BY <1>1, <2>1 DEF DrawnOnce
<1>. QED
  BY <1>1, <1>2, <1>3, <1>4, <1>6, <1>7, <1>8, <1>9 DEF ReportInv, ReportAborts, Plotting

\* The plot that is drawn next is passed: in what it may change the plots.
PlotStep ==
  /\ pc = "plot" /\ f <= Len(Frames) /\ p <= Len(plots)
  /\ p' = p + 1 /\ UNCHANGED <<campaignVars, asked, f>>
  /\ figures' \in {figures, figures \cup {<<f, p>>}}
  /\ \/ <<f, p>> \in figures'
     \/ asked[p].type = "normal" /\ asked[p].y \notin Columns
     \/ /\ asked[p].type = "linearity"
        /\ ~ HasBaseline(FrameRows(Frames[f]), asked[p].hue) \/ ZeroBaseline(asked[p].y)
  /\ \E y \in Seq(Parts) :
       /\ plots' = [plots EXCEPT ![p].y = y]
       /\ \/ y = plots[p].y
          \/ /\ plots[p].type \notin {"normal", "min_max_avg"}
             /\ plots[p].type = "linearity" => y = <<"linearity">>
             /\ <<f, p>> \in figures'
       /\ plots[p].type \in {"success_percent", "histogram"} =>
            /\ f = 1
            /\ y = IF plots[p].type = "histogram" THEN <<"latency">> ELSE Append(asked[p].y, "succ_percent")

LEMMA PassPlot ==
  ASSUME CampaignInv, CsvInv, ReportInv, PlotStep
  PROVE  ReportInv'
<1>1. /\ pc = "plot" /\ pc' = "plot" /\ pc \in Plotting /\ UNCHANGED <<config, k, csv>>
      /\ UNCHANGED <<asked, f>> /\ p' = p + 1 /\ csv # <<>>
  BY DEF PlotStep, campaignVars, Plotting, ReportInv
<1>2. /\ Frames' = Frames /\ Columns' = Columns
      /\ Len(Frames) \in Nat \ {0} /\ DOMAIN Frames = 1 .. Len(Frames)
      /\ \A fr : FrameRows(fr)' = FrameRows(fr)
      /\ \A rows, hue : HasBaseline(rows, hue)' = HasBaseline(rows, hue)
      /\ \A y : ZeroBaseline(y)' = ZeroBaseline(y)
  BY <1>1, SameFile, FramesShape
<1>3. /\ f \in 1 .. Len(Frames) /\ p \in 1 .. Len(asked) /\ Len(asked) \in Nat
      /\ DOMAIN asked = 1 .. Len(asked) /\ DOMAIN plots = 1 .. Len(asked) /\ Len(plots) = Len(asked)
  <2>1. f <= Len(Frames) /\ p <= Len(plots)
    BY DEF PlotStep
  <2>2. f \in 1 .. Len(Frames) + 1 /\ p \in 1 .. Len(asked) + 1
    BY <1>1 DEF ReportInv
  <2>3. /\ Len(asked) \in Nat /\ Len(plots) = Len(asked)
        /\ DOMAIN asked = 1 .. Len(asked) /\ DOMAIN plots = 1 .. Len(asked)
    BY <1>1, PlotsShape
  <2>. QED
    BY <1>2, <2>1, <2>2, <2>3
<1>4. PICK y \in Seq(Parts) :
        /\ plots' = [plots EXCEPT ![p].y = y]
        /\ \/ y = plots[p].y
           \/ /\ plots[p].type \notin {"normal", "min_max_avg"}
              /\ plots[p].type = "linearity" => y = <<"linearity">>
              /\ <<f, p>> \in figures'
        /\ plots[p].type \in {"success_percent", "histogram"} =>
             /\ f = 1
             /\ y = IF plots[p].type = "histogram" THEN <<"latency">> ELSE Append(asked[p].y, "succ_percent")
  BY DEF PlotStep
<1>5. /\ plots[p] \in Plots /\ plots \in Seq(Plots)
      /\ plots[p].type = asked[p].type /\ plots[p].hue = asked[p].hue
  BY <1>1, <1>3, PlotsShape DEF ReportInv, PlotsInv
<1>6. /\ plots' \in Seq(Plots) /\ Len(plots') = Len(asked)
      /\ \A q \in 1 .. Len(asked) : q # p => plots'[q] = plots[q]
      /\ plots'[p].type = plots[p].type /\ plots'[p].hue = plots[p].hue /\ plots'[p].y = y
  <2> DEFINE new == [type |-> plots[p].type, y |-> y, hue |-> plots[p].hue]
  <2>1. new \in Plots /\ [plots[p] EXCEPT !.y = y] = new
    <3> DEFINE r == plots[p]
    <3>1. r = [type |-> r.type, y |-> r.y, hue |-> r.hue]
      BY <1>5 DEF Plots
    <3>2. new \in Plots
      BY <1>5 DEF Plots
    <3> HIDE DEF r
    <3>3. PICK a, b, c : r = [type |-> a, y |-> b, hue |-> c]
      BY <3>1
    <3>4. [[type |-> a, y |-> b, hue |-> c] EXCEPT !.y = y] = [type |-> a, y |-> y, hue |-> c]
      OBVIOUS
    <3>5. r.type = a /\ r.hue = c
      BY <3>3
    <3>6. [r EXCEPT !.y = y] = [type |-> r.type, y |-> y, hue |-> r.hue]
      BY <3>3, <3>4, <3>5
    <3>. QED
      BY <3>2, <3>6 DEF r
  <2>2. plots' = [plots EXCEPT ![p] = new]
    BY <1>4, <2>1
  <2>3. new.type = plots[p].type /\ new.hue = plots[p].hue /\ new.y = y
    OBVIOUS
  <2> HIDE DEF new
  <2>4. plots' \in Seq(Plots) /\ Len(plots') = Len(plots)
    BY <1>3, <1>5, <2>1, <2>2
  <2>5. plots'[p] = new /\ \A q \in 1 .. Len(asked) : q # p => plots'[q] = plots[q]
    BY <1>3, <2>2
  <2>. QED
    BY <1>3, <2>3, <2>4, <2>5
<1>7. PlotsInv'
  <2>1. asked \in Seq(Plots)
    BY <1>1 DEF ReportInv, PlotsInv
  <2>2. ASSUME NEW q \in 1 .. Len(asked)
        PROVE  /\ plots'[q].type = asked[q].type /\ plots'[q].hue = asked[q].hue
               /\ \/ plots'[q].y = asked[q].y
                  \/ /\ asked[q].type \notin {"normal", "min_max_avg"}
                     /\ asked[q].type = "linearity" => plots'[q].y = <<"linearity">>
                     /\ \E fr \in DOMAIN Frames : <<fr, q>> \in figures'
    <3>0. figures \subseteq figures'
      BY DEF PlotStep
    <3>a. /\ plots[q].type = asked[q].type /\ plots[q].hue = asked[q].hue
          /\ \/ plots[q].y = asked[q].y
             \/ /\ asked[q].type \notin {"normal", "min_max_avg"}
                /\ asked[q].type = "linearity" => plots[q].y = <<"linearity">>
                /\ \E fr \in DOMAIN Frames : <<fr, q>> \in figures
      BY <1>1, PlotsShape
    <3>1. CASE q = p
      <4>1. CASE y = plots[p].y
        BY <1>6, <3>0, <3>a, <3>1, <4>1
      <4>2. CASE y # plots[p].y
        <5>1. f \in DOMAIN Frames
          BY <1>2, <1>3
        <5>. QED
          BY <1>4, <1>5, <1>6, <3>1, <4>2, <5>1
      <4>. QED
        BY <4>1, <4>2
    <3>2. CASE q # p
      <4>1. plots'[q] = plots[q]
        BY <1>3, <1>6, <3>2
      <4>. QED
        BY <3>0, <3>a, <4>1
    <3>. QED
      BY <3>1, <3>2
  <2>. QED
    BY <1>1, <1>2, <1>3, <1>6, <2>1, <2>2 DEF PlotsInv
<1>8. DrawnOnce'
  <2>1. ASSUME NEW q \in 1 .. Len(asked), asked[q].type \in {"success_percent", "histogram"}
        PROVE  /\ f <= 2
               /\ f = 2 => p + 1 <= q
               /\ f = 2 \/ p + 1 > q =>
                    plots'[q].y = IF asked[q].type = "histogram" THEN <<"latency">>
                                  ELSE Append(asked[q].y, "succ_percent")
    <3>1. CASE q = p
      <4>1. f = 1 /\ ~ (f = 2) /\ f <= 2
        BY <1>4, <1>5, <2>1, <3>1
      <4>2. plots'[p].y = IF asked[p].type = "histogram" THEN <<"latency">>
                          ELSE Append(asked[p].y, "succ_percent")
        BY <1>4, <1>5, <1>6, <2>1, <3>1
      <4>. QED
        BY <3>1, <4>1, <4>2
    <3>2. CASE q # p
      <4>1. plots'[q] = plots[q] /\ (p <= q => p + 1 <= q) /\ (p + 1 > q => p > q)
        BY <1>3, <1>6, <3>2
      <4>2. /\ f <= 2
            /\ f = 2 => p <= q
            /\ f = 2 \/ p > q =>
                 plots[q].y = IF asked[q].type = "histogram" THEN <<"latency">>
                              ELSE Append(asked[q].y, "succ_percent")
        BY <1>1, <1>3, <2>1 DEF ReportInv, DrawnOnce
      <4>. QED
        BY <4>1, <4>2
    <3>. QED
      BY <3>1, <3>2
  <2>. QED
    BY <1>1, <1>3, <2>1 DEF DrawnOnce
<1>9. ASSUME NEW fr \in 1 .. Len(Frames), NEW q \in 1 .. Len(asked), fr < f \/ (fr = f /\ q < p + 1)
      PROVE  Passed(fr, q)'
  <2>1. Passed(fr, q) => Passed(fr, q)'
    BY <1>1, <1>2 DEF Passed, PlotStep
  <2>2. CASE fr < f \/ (fr = f /\ q < p)
    BY <1>1, <1>2, <1>3, <2>1, <2>2 DEF ReportInv
  <2>3. CASE fr = f /\ q = p
    BY <1>1, <1>2, <2>3 DEF PlotStep, Passed
  <2>. QED
    BY <1>3, <1>9, <2>2, <2>3
<1>10. f \in 1 .. Len(Frames) + 1 /\ p + 1 \in 1 .. Len(asked) + 1
  <2> DEFINE m == Len(Frames)
             n == Len(asked)
  <2>1. m \in Nat /\ n \in Nat /\ f \in 1 .. m /\ p \in 1 .. n
    BY <1>2, <1>3
  <2> HIDE DEF m, n
  <2>2. f \in 1 .. m + 1 /\ p + 1 \in 1 .. n + 1
    BY <2>1
  <2>. QED
    BY <2>2 DEF m, n
<1>11. ASSUME NEW fr \in 1 .. Len(Frames), NEW q \in 1 .. Len(asked), <<fr, q>> \in figures'
       PROVE  fr < f \/ (fr = f /\ q < p + 1)
  <2>a. figures' \in {figures, figures \cup {<<f, p>>}}
    BY DEF PlotStep
  <2>b. <<fr, q>> \in figures \/ <<fr, q>> = <<f, p>>
    BY <1>11, <2>a
  <2>1. <<fr, q>> \in figures \/ (fr = f /\ q = p)
    BY <2>b
  <2>2. fr \in DOMAIN Frames /\ q \in DOMAIN asked
    BY <1>2, <1>3
  <2>3. <<fr, q>> \in figures => fr < f \/ (fr = f /\ q < p)
    BY <1>1, <2>2 DEF ReportInv
  <2>. QED
    BY <1>3, <2>1, <2>3
<1>. QED
  BY <1>1, <1>2, <1>3, <1>7, <1>8, <1>9, <1>10, <1>11 DEF ReportInv, ReportAborts, Plotting

\* What a plot that is drawn or skipped has in common with the others.
LEMMA DrawingShape ==
  ASSUME CampaignInv, CsvInv, ReportInv, pc = "plot", f <= Len(Frames), p <= Len(plots)
  PROVE  /\ p \in DOMAIN plots /\ plots[p] \in Plots /\ asked[p] \in Plots
         /\ csv # <<>> /\ f \in 1 .. Len(Frames)
         /\ plots[p].type = asked[p].type /\ plots[p].hue = asked[p].hue
         /\ f = 1 => plots[p].y = asked[p].y
         /\ \/ plots[p].y = asked[p].y
            \/ /\ asked[p].type \notin {"normal", "min_max_avg"}
               /\ asked[p].type = "linearity" => plots[p].y = <<"linearity">>
               /\ \E fr \in DOMAIN Frames : <<fr, p>> \in figures
         /\ plots[p].y \in Seq(Parts)
         /\ [plots EXCEPT ![p].y = plots[p].y] = plots
<1>1. pc \in Plotting
  BY DEF Plotting
<1>2. /\ csv # <<>> /\ f \in 1 .. Len(Frames) + 1 /\ p \in 1 .. Len(asked) + 1 /\ plots \in Seq(Plots)
      /\ Len(plots) = Len(asked)
  BY <1>1 DEF ReportInv, PlotsInv
<1>3. Len(asked) \in Nat /\ Len(Frames) \in Nat \ {0}
  BY <1>1, <1>2, PlotsShape, FramesShape
<1>4. p \in 1 .. Len(asked) /\ f \in 1 .. Len(Frames) /\ p <= p
  BY <1>2, <1>3
<1>5. p \in DOMAIN plots /\ plots[p] \in Plots /\ asked[p] \in Plots
  BY <1>1, <1>4, PlotsShape
<1>6. plots[p].y \in Seq(Parts)
  BY <1>5 DEF Plots
<1>7. [plots EXCEPT ![p].y = plots[p].y] = plots
  <2> DEFINE r == plots[p]
  <2>1. r = [type |-> r.type, y |-> r.y, hue |-> r.hue]
    BY <1>5 DEF Plots
  <2> HIDE DEF r
  <2>2. PICK a, b, c : r = [type |-> a, y |-> b, hue |-> c]
    BY <2>1
  <2>3. r.y = b
    BY <2>2
  <2>4. [r EXCEPT !.y = r.y] = r
    BY <2>2, <2>3
  <2>5. [plots EXCEPT ![p] = r] = plots
    BY <1>2, <1>5 DEF r
  <2>. QED
    BY <2>4, <2>5 DEF r
<1>8. f = 1 => ~ \E fr \in DOMAIN Frames : <<fr, p>> \in figures
  <2> SUFFICES ASSUME f = 1, NEW fr \in DOMAIN Frames, <<fr, p>> \in figures PROVE FALSE
    OBVIOUS
  <2>1. p \in DOMAIN asked /\ DOMAIN Frames = 1 .. Len(Frames)
    BY <1>1, <1>2, <1>4, PlotsShape, FramesShape
  <2>2. fr < f \/ (fr = f /\ p < p)
    BY <1>1, <2>1 DEF ReportInv
  <2>. QED
    BY <1>3, <1>4, <2>1, <2>2
<1>. QED
  BY <1>1, <1>2, <1>4, <1>5, <1>6, <1>7, <1>8, PlotsShape

LEMMA PlotActions ==
  ASSUME CampaignInv, CsvInv, ReportInv,
         \/ NormalPlot \/ create_min_max_avg_plot \/ create_success_rate_plot
         \/ create_histogram_plot \/ LinearitySkipped \/ create_linearity_plot
  PROVE  PlotStep
<1>1. /\ pc = "plot" /\ f <= Len(Frames) /\ p <= Len(plots)
      /\ p' = p + 1 /\ UNCHANGED <<campaignVars, asked, f>>
      /\ figures' \in {figures, figures \cup {<<f, p>>}}
  BY DEF NormalPlot, create_min_max_avg_plot, create_success_rate_plot, create_histogram_plot,
       LinearitySkipped, create_linearity_plot, Drawing, Draw, Skip
<1>2. /\ plots[p].type = asked[p].type /\ plots[p].hue = asked[p].hue /\ plots[p].y \in Seq(Parts)
      /\ asked[p].type \in {"normal", "min_max_avg"} => plots[p].y = asked[p].y
      /\ plots[p].y = asked[p].y \/ (asked[p].type = "linearity" => plots[p].y = <<"linearity">>)
      /\ f = 1 => plots[p].y = asked[p].y
      /\ [plots EXCEPT ![p].y = plots[p].y] = plots
      /\ csv # <<>> /\ f \in 1 .. Len(Frames) /\ p \in DOMAIN plots
  BY <1>1, DrawingShape
<1>3. /\ Len(Frames) \in Nat
      /\ p \in DOMAIN asked
  <2>1. pc \in Plotting
    BY <1>1 DEF Plotting
  <2>. QED
    BY <1>2, <2>1, FramesShape, PlotsShape
<1>4. asked[p].type \in {"success_percent", "histogram"} =>
        /\ f <= 2
        /\ f = 2 =>
           plots[p].y = IF asked[p].type = "histogram" THEN <<"latency">> ELSE Append(asked[p].y, "succ_percent")
  BY <1>1, <1>3 DEF ReportInv, DrawnOnce, Plotting
<1>5. CASE NormalPlot
  <2>1. plots' = plots /\ plots[p].type = "normal"
    BY <1>5 DEF NormalPlot, Drawing, Draw, Skip
  <2>2. <<f, p>> \in figures' \/ asked[p].y \notin Columns
    BY <1>2, <1>5, <2>1 DEF NormalPlot, Draw, Y
  <2>. QED
    BY <1>1, <1>2, <2>1, <2>2 DEF PlotStep
<1>6. CASE create_min_max_avg_plot
  <2>1. plots' = plots /\ plots[p].type = "min_max_avg" /\ <<f, p>> \in figures'
    BY <1>6 DEF create_min_max_avg_plot, Drawing, Draw
  <2>. QED
    BY <1>1, <1>2, <2>1 DEF PlotStep
<1>7. CASE create_success_rate_plot
  <2>1. /\ plots[p].type = "success_percent" /\ <<f, p>> \in figures'
        /\ plots' = [plots EXCEPT ![p].y = Append(plots[p].y, "succ_percent")]
        /\ Append(plots[p].y, "count") \in Columns
    BY <1>2, <1>7 DEF create_success_rate_plot, Drawing, Draw, Has, Y
  <2>2. asked[p].y \in Seq(Parts)
    BY <1>1, DrawingShape DEF Plots
  <2>3. f = 1
    <3>1. f # 2
      BY <1>2, <1>4, <2>1, <2>2, DerivedColumns
    <3>2. f <= 2
      BY <1>2, <1>4, <2>1
    <3>. QED
      BY <1>2, <1>3, <3>1, <3>2
  <2>4. plots[p].y = asked[p].y
    BY <1>2, <2>3
  <2>5. Append(asked[p].y, "succ_percent") \in Seq(Parts)
    <3>1. "succ_percent" \in Parts
      BY DEF Parts
    <3>. QED
      BY <2>2, <3>1, AppendProperties
  <2>. QED
    BY <1>1, <1>2, <2>1, <2>3, <2>4, <2>5 DEF PlotStep
<1>8. CASE create_histogram_plot
  <2>1. /\ plots[p].type = "histogram" /\ <<f, p>> \in figures'
        /\ plots' = [plots EXCEPT ![p].y = <<"latency">>]
        /\ Append(plots[p].y, "histogram") \in Columns
    BY <1>2, <1>8 DEF create_histogram_plot, HistogramReadable, Drawing, Draw, Has, Y
  <2>2. f = 1
    <3>1. f # 2
      BY <1>2, <1>4, <2>1, DerivedColumns
    <3>2. f <= 2
      BY <1>2, <1>4, <2>1
    <3>. QED
      BY <1>2, <1>3, <3>1, <3>2
  <2>3. <<"latency">> \in Seq(Parts)
    <3>1. "latency" \in Parts
      BY DEF Parts
    <3>. QED
      BY <3>1
  <2>. QED
    BY <1>1, <1>2, <2>1, <2>2, <2>3 DEF PlotStep
<1>9. CASE LinearitySkipped
  <2>1. /\ plots' = plots /\ plots[p].type = "linearity" /\ plots[p].y \in Columns
        /\ ~ HasBaseline(FrameRows(Frames[f]), plots[p].hue) \/ ZeroBaseline(plots[p].y)
    BY <1>9 DEF LinearitySkipped, Drawing, Skip, Comparable, Y, Hue
  <2>2. plots[p].y = asked[p].y
    BY <1>2, <2>1, DerivedColumns
  <2>. QED
    BY <1>1, <1>2, <2>1, <2>2 DEF PlotStep
<1>10. CASE create_linearity_plot
  <2>1. /\ plots' = [plots EXCEPT ![p].y = <<"linearity">>] /\ plots[p].type = "linearity"
        /\ <<f, p>> \in figures'
    BY <1>10 DEF create_linearity_plot, Drawing, Draw
  <2>2. <<"linearity">> \in Seq(Parts)
    <3>1. "linearity" \in Parts
      BY DEF Parts
    <3>. QED
      BY <3>1
  <2>. QED
    BY <1>1, <1>2, <2>1, <2>2 DEF PlotStep
<1>. QED
  BY <1>5, <1>6, <1>7, <1>8, <1>9, <1>10

\* A plot with the column it was configured with fails for the results' sake.
LEMMA FailingPlot ==
  ASSUME CampaignInv, CsvInv, ReportInv, ReportFails, plots[p].y = asked[p].y
  PROVE  Hopeless
<1>1. /\ pc = "plot" /\ f <= Len(Frames) /\ p <= Len(plots)
  BY DEF ReportFails, NormalFails, MinMaxAvgFails, SuccessRateFails, HistogramFails,
       LinearityFails, Drawing
<1>2. /\ plots[p].type = asked[p].type /\ plots[p].hue = asked[p].hue
      /\ csv # <<>> /\ f \in 1 .. Len(Frames)
  BY <1>1, DrawingShape
<1>3. Nothing => Hopeless
  BY <1>2, CompleteFrames DEF Nothing, Hopeless
<1>4. Y = asked[p].y /\ Hue = asked[p].hue
  BY <1>2 DEF Y, Hue
<1>5. Hue \notin Columns => ~ Needed(asked[p]) \subseteq Columns
  BY <1>4 DEF Needed
<1>6. ChartFails \/ ~ Needed(asked[p]) \subseteq Columns => Hopeless
  BY <1>3, <1>5 DEF ChartFails, Hopeless
<1>7. CASE NormalFails
  BY <1>3, <1>5, <1>6, <1>7 DEF NormalFails
<1>8. CASE MinMaxAvgFails
  <2>1. plots[p].type = "min_max_avg" /\ (~ Has(Y, {"min", "max"}) \/ ChartFails)
    BY <1>8 DEF MinMaxAvgFails, Drawing
  <2>2. {Append(asked[p].y, "min"), Append(asked[p].y, "max")} \subseteq Needed(asked[p])
    BY <1>2, <2>1 DEF Needed
  <2>3. ~ Has(Y, {"min", "max"}) => ~ Needed(asked[p]) \subseteq Columns
    BY <1>4, <2>2 DEF Has
  <2>. QED
    BY <1>6, <2>1, <2>3
<1>9. CASE SuccessRateFails
  <2>1. plots[p].type = "success_percent" /\ (~ Has(Y, {"count", "succ_count"}) \/ ChartFails)
    BY <1>9 DEF SuccessRateFails, Drawing
  <2>2. {Append(asked[p].y, "count"), Append(asked[p].y, "succ_count")} \subseteq Needed(asked[p])
    BY <1>2, <2>1 DEF Needed
  <2>3. ~ Has(Y, {"count", "succ_count"}) => ~ Needed(asked[p]) \subseteq Columns
    BY <1>4, <2>2 DEF Has
  <2>. QED
    BY <1>6, <2>1, <2>3
<1>10. CASE HistogramFails
  <2>1. /\ plots[p].type = "histogram"
        /\ ~ Has(Y, {"histogram"}) \/ ChartFails \/ NothingCounted(FrameRows(Frames[f]), Y)
    BY <1>10 DEF HistogramFails, HistogramReadable, Drawing
  <2>2. Append(asked[p].y, "histogram") \in Needed(asked[p])
    BY <1>2, <2>1 DEF Needed
  <2>3. ~ Has(Y, {"histogram"}) => ~ Needed(asked[p]) \subseteq Columns
    BY <1>4, <2>2 DEF Has
  <2>4. NothingCounted(FrameRows(Frames[f]), Y) => Hopeless
    BY <1>2, <1>4, <2>1 DEF Hopeless
  <2>. QED
    BY <1>6, <2>1, <2>3, <2>4
<1>11. CASE LinearityFails
  <2>1. plots[p].type = "linearity" /\ (~ {Y, Hue} \subseteq Columns \/ Nothing)
    BY <1>11 DEF LinearityFails, Drawing
  <2>2. asked[p].y \in Needed(asked[p])
    BY <1>2, <2>1 DEF Needed
  <2>. QED
    BY <1>3, <1>4, <1>5, <1>6, <2>1, <2>2
<1>. QED
  BY <1>7, <1>8, <1>9, <1>10, <1>11 DEF ReportFails

LEMMA ReportInvStep ==
  ASSUME CampaignInv, CsvInv, ReportInv, [Next]_vars
  PROVE  ReportInv'
<1>1. CASE CampaignStep /\ UNCHANGED reportVars
  <2>1. pc \notin Plotting /\ pc' \notin Plotting
    BY <1>1 DEF CampaignStep, LoadFails, LoadConfig, RefuseRun, NoOffset, CreateUnits, exec_all,
         parse_output_to_results, Plotting
  <2>2. f' = 1 /\ p' = 1 /\ figures' = {}
    BY <1>1, <2>1 DEF ReportInv, reportVars
  <2>. QED
    BY <2>1, <2>2 DEF ReportInv, ReportAborts, Plotting
<1>2. CASE visualize_in_html
  BY <1>2, StartReport
<1>3. CASE \/ NormalPlot \/ create_min_max_avg_plot \/ create_success_rate_plot
           \/ create_histogram_plot \/ LinearitySkipped \/ create_linearity_plot
  BY <1>3, PlotActions, PassPlot
<1>4. ASSUME UNCHANGED <<config, k, csv, reportVars>>
      PROVE  /\ Points' = Points /\ Columns' = Columns /\ Frames' = Frames /\ Nothing' = Nothing
             /\ PlotsInv' = PlotsInv /\ DrawnOnce' = DrawnOnce
             /\ \A fr, q : Passed(fr, q)' = Passed(fr, q)
             /\ Hopeless' = Hopeless
  <2>1. /\ Points' = Points /\ Columns' = Columns /\ Frames' = Frames
        /\ \A fr : FrameRows(fr)' = FrameRows(fr)
        /\ \A rows, hue : HasBaseline(rows, hue)' = HasBaseline(rows, hue)
        /\ \A y : ZeroBaseline(y)' = ZeroBaseline(y)
        /\ \A rows, y : NothingCounted(rows, y)' = NothingCounted(rows, y)
    BY <1>4, SameFile
  <2>2. UNCHANGED <<plots, asked, f, p, figures>>
    BY <1>4 DEF reportVars
  <2>3. Nothing' = Nothing
    BY <1>4, <2>1, <2>2 DEF Nothing, FrameRows
  <2>4. \A fr, q : Passed(fr, q)' = Passed(fr, q)
    BY <2>1, <2>2 DEF Passed
  <2>5. Hopeless' = Hopeless
    BY <1>4, <2>1, <2>2, <2>3 DEF Hopeless, Needed
  <2>6. PlotsInv' = PlotsInv /\ DrawnOnce' = DrawnOnce
    BY <2>1, <2>2 DEF PlotsInv, DrawnOnce
  <2>. QED
    BY <2>1, <2>3, <2>4, <2>5, <2>6
<1>5. CASE ReportFails
  <2>1. pc = "plot" /\ pc' = "aborted" /\ UNCHANGED <<config, k, csv, reportVars>>
    BY <1>5 DEF ReportFails, NormalFails, MinMaxAvgFails, SuccessRateFails, HistogramFails,
         LinearityFails, Drawing
  <2>2. UNCHANGED <<plots, asked, f, p, figures, k, csv>>
    BY <2>1 DEF reportVars
  <2>3. \/ plots[p].y = asked[p].y
        \/ /\ asked[p].type \notin {"normal", "min_max_avg"}
           /\ \E fr \in DOMAIN Frames : <<fr, p>> \in figures
    <3>1. f <= Len(Frames) /\ p <= Len(plots)
      BY <1>5 DEF ReportFails, NormalFails, MinMaxAvgFails, SuccessRateFails, HistogramFails,
           LinearityFails, Drawing
    <3>. QED
      BY <2>1, <3>1, DrawingShape
  <2>4. ReportAborts'
    <3>1. CASE plots[p].y = asked[p].y
      BY <1>4, <1>5, <2>1, <3>1, FailingPlot DEF ReportAborts
    <3>2. CASE plots[p].y # asked[p].y
      BY <1>4, <2>1, <2>2, <2>3, <3>2 DEF ReportAborts
    <3>. QED
      BY <3>1, <3>2
  <2>. QED
    BY <1>4, <2>1, <2>2, <2>4 DEF ReportInv, Plotting
<1>6. CASE NextFrame
  <2>1. /\ pc = "plot" /\ pc' = "plot" /\ f <= Len(Frames) /\ p > Len(plots) /\ f' = f + 1 /\ p' = 1
        /\ UNCHANGED <<config, k, csv>> /\ UNCHANGED <<plots, asked, figures>> /\ csv # <<>> /\ pc \in Plotting
    BY <1>6 DEF NextFrame, campaignVars, ReportInv, Plotting
  <2>2. /\ Frames' = Frames /\ Columns' = Columns
        /\ Len(Frames) \in Nat \ {0} /\ DOMAIN Frames = 1 .. Len(Frames)
        /\ \A fr : FrameRows(fr)' = FrameRows(fr)
        /\ \A rows, hue : HasBaseline(rows, hue)' = HasBaseline(rows, hue)
        /\ \A y : ZeroBaseline(y)' = ZeroBaseline(y)
    BY <2>1, SameFile, FramesShape
  <2>3. /\ Len(asked) \in Nat /\ DOMAIN asked = 1 .. Len(asked) /\ p \in 1 .. Len(asked) + 1
        /\ f \in 1 .. Len(Frames) + 1 /\ Len(plots) = Len(asked)
    BY <2>1, PlotsShape DEF ReportInv
  <2>4. f \in 1 .. Len(Frames) /\ p = Len(asked) + 1 /\ \A q \in DOMAIN asked : q < p
    <3> DEFINE m == Len(Frames)
               n == Len(asked)
    <3>1. /\ m \in Nat /\ n \in Nat /\ f \in 1 .. m + 1 /\ f <= m
          /\ p \in 1 .. n + 1 /\ p > n /\ DOMAIN asked = 1 .. n
      BY <2>1, <2>2, <2>3
    <3> HIDE DEF m, n
    <3>2. f \in 1 .. m /\ p = n + 1 /\ \A q \in DOMAIN asked : q < p
      BY <3>1
    <3>. QED
      BY <3>2 DEF m, n
  <2>5. f + 1 \in 1 .. Len(Frames) + 1 /\ 1 \in 1 .. Len(asked) + 1 /\ f + 1 # 1
    BY <2>2, <2>3, <2>4
  <2>6. PlotsInv'
    BY <2>1, <2>2 DEF ReportInv, PlotsInv
  <2>7. DrawnOnce'
    <3>1. ASSUME NEW q \in DOMAIN asked, asked[q].type \in {"success_percent", "histogram"}
          PROVE  /\ f + 1 <= 2
                 /\ 1 <= q
                 /\ plots[q].y = IF asked[q].type = "histogram" THEN <<"latency">>
                                 ELSE Append(asked[q].y, "succ_percent")
      <4>1. /\ f <= 2
            /\ f = 2 => p <= q
            /\ f = 2 \/ p > q =>
                 plots[q].y = IF asked[q].type = "histogram" THEN <<"latency">>
                              ELSE Append(asked[q].y, "succ_percent")
        BY <2>1, <3>1 DEF ReportInv, DrawnOnce
      <4>2. p > q /\ ~ (p <= q) /\ q >= 1
        BY <2>3, <2>4
      <4>3. f # 2
        BY <4>1, <4>2
      <4>4. f + 1 <= 2
        BY <2>2, <2>4, <4>1, <4>3
      <4>. QED
        BY <4>1, <4>2, <4>4
    <3>. QED
      BY <2>1, <3>1 DEF DrawnOnce
  <2>8. ASSUME NEW fr \in DOMAIN Frames, NEW q \in DOMAIN asked, fr < f + 1 \/ (fr = f + 1 /\ q < 1)
        PROVE  Passed(fr, q)'
    <3>1. fr < f \/ (fr = f /\ q < p)
      BY <2>2, <2>3, <2>4, <2>8
    <3>2. Passed(fr, q)
      BY <2>1, <3>1 DEF ReportInv
    <3>. QED
      BY <2>1, <2>2, <3>2 DEF Passed
  <2>9. ASSUME NEW fr \in DOMAIN Frames, NEW q \in DOMAIN asked, <<fr, q>> \in figures
        PROVE  fr < f + 1
    <3>1. fr < f \/ fr = f
      BY <2>1, <2>9 DEF ReportInv
    <3>. QED
      BY <2>2, <2>4, <3>1
  <2>. QED
    BY <2>1, <2>2, <2>5, <2>6, <2>7, <2>8, <2>9 DEF ReportInv, ReportAborts, Plotting
<1>7. CASE WriteReport
  <2>1. pc = "plot" /\ pc' = "written" /\ f > Len(Frames) /\ UNCHANGED <<config, k, csv, reportVars>>
    BY <1>7 DEF WriteReport
  <2>2. UNCHANGED <<plots, asked, f, p, figures, k, csv>>
    BY <2>1 DEF reportVars
  <2>3. f \in 1 .. Len(Frames) + 1 /\ csv # <<>> /\ DrawnOnce /\ pc \in Plotting
    BY <2>1 DEF ReportInv, Plotting
  <2>4. Len(Frames) \in Nat \ {0}
    BY <2>3, FramesShape
  <2>5. f = Len(Frames) + 1
    BY <2>1, <2>3, <2>4
  <2>6. ReportAborts'
    BY <2>1 DEF ReportAborts
  <2>. QED
    BY <1>4, <2>1, <2>2, <2>5, <2>6 DEF ReportInv, Plotting
<1>8. CASE UNCHANGED vars
  <2>1. UNCHANGED <<config, k, csv, reportVars>> /\ UNCHANGED <<pc, k, csv>>
        /\ UNCHANGED <<plots, asked, f, p, figures>>
    BY <1>8 DEF vars, campaignVars, reportVars
  <2>2. ReportAborts'
    BY <1>4, <2>1 DEF ReportInv, ReportAborts
  <2>. QED
    BY <1>4, <2>1, <2>2 DEF ReportInv
<1>. QED
  BY <1>1, <1>2, <1>3, <1>5, <1>6, <1>7, <1>8 DEF Next, Over

\* The inductive invariant of the campaign with its report.
THEOREM ReportInvariant == Spec => []IInv
<1>1. ReportInit => IInv
  BY CampaignInit, CsvInit, ReportInvInit DEF IInv
<1>2. IInv /\ [Next]_vars => IInv'
  BY CampaignInvStep, CsvStep, ReportInvStep DEF IInv
<1>. QED
  BY <1>1, <1>2, PTL DEF Spec

\* A report that is written has every plot of every data frame, but for those
\* that have no column or nothing to compare with.
THEOREM CompleteReportSafe == Spec => []ReportComplete
<1>1. IInv => ReportComplete
  <2> SUFFICES ASSUME IInv, pc = "written",
                      NEW fr \in DOMAIN Frames, NEW q \in DOMAIN asked
               PROVE  Passed(fr, q)
    BY DEF ReportComplete
  <2>1. /\ f = Len(Frames) + 1 /\ csv # <<>>
        /\ fr < f => Passed(fr, q)
    BY DEF IInv, ReportInv, Plotting
  <2>2. Len(Frames) \in Nat /\ DOMAIN Frames = 1 .. Len(Frames)
    BY <2>1, FramesShape DEF IInv
  <2>3. fr < f
    BY <2>1, <2>2
  <2>. QED
    BY <2>1, <2>3
<1>. QED
  BY <1>1, ReportInvariant, PTL

\* A report is given up at a plot that keeps its column, or that has not been
\* drawn before, only when the results are to blame: plots do not spoil each
\* other's columns.
THEOREM AbortsSafe == Spec => []ReportAborts
<1>1. IInv => ReportAborts
  BY DEF IInv, ReportInv
<1>. QED
  BY <1>1, ReportInvariant, PTL

\* A success rate or a histogram cannot be drawn for a second frame, whatever
\* the results are: a report that is written and has one has a single frame.
THEOREM OneFrameOnly ==
  Spec => [](pc = "written"
               /\ (\E q \in DOMAIN asked : asked[q].type \in {"success_percent", "histogram"})
             => Len(Frames) = 1)
<1>1. ASSUME IInv, pc = "written",
             NEW q \in DOMAIN asked, asked[q].type \in {"success_percent", "histogram"}
      PROVE  Len(Frames) = 1
  <2>1. f = Len(Frames) + 1 /\ csv # <<>> /\ DrawnOnce
    BY <1>1 DEF IInv, ReportInv, Plotting
  <2>2. f <= 2
    BY <1>1, <2>1 DEF DrawnOnce
  <2> DEFINE n == Len(Frames)
  <2>3. n \in Nat \ {0} /\ n + 1 <= 2
    BY <1>1, <2>1, <2>2, FramesShape DEF IInv
  <2> HIDE DEF n
  <2>4. n = 1
    BY <2>3
  <2>. QED
    BY <2>4 DEF n
<1>2. IInv => (pc = "written"
                 /\ (\E q \in DOMAIN asked : asked[q].type \in {"success_percent", "histogram"})
               => Len(Frames) = 1)
  BY <1>1
<1>. QED
  BY <1>2, ReportInvariant, PTL

=============================================================================
