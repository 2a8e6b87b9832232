---------------------------- MODULE NumberLemmas ----------------------------
(***************************************************************************)
(* Facts about natural numbers that the proofs of several components need. *)
(***************************************************************************)
EXTENDS Integers, FiniteSetTheorems, WellFoundedInduction, TLAPS

\* A set of numbers has a least one: what fails for some turn of a loop fails
\* for a first one.
LEMMA LeastNumber ==
  ASSUME NEW T \in SUBSET Nat, T # {}
  PROVE  \E n \in T : \A m \in T : n <= m
<1> DEFINE R == {ss \in Nat \X Nat : ss[1] < ss[2]}
<1>1. IsWellFoundedOn(R, Nat)
  BY NatLessThanWellFounded DEF OpToRel
<1>2. PICK n \in T : \A m \in T : ~(<<m, n>> \in R)
  <2> HIDE DEF R
  <2> QED  BY <1>1, WFMin
<1>3. \A m \in T : m \in Nat /\ n \in Nat /\ ~(m < n)
  BY <1>2
<1> QED  BY <1>3

\* What holds for 0, and for k + 1 if it does for k, holds for every number: the
\* numbers for which it does are all of them.
LEMMA AllNumbers ==
  ASSUME NEW S, 0 \in S, \A k \in Nat : k \in S => k + 1 \in S
  PROVE  Nat \subseteq S
<1> SUFFICES ASSUME Nat \ S # {} PROVE FALSE
  OBVIOUS
<1>1. PICK k \in Nat \ S : \A m \in Nat \ S : k <= m
  BY LeastNumber
<1>2. k # 0
  BY <1>1
<1>3. k - 1 \in Nat /\ (k - 1) + 1 = k /\ ~(k <= k - 1)
  BY <1>1, <1>2
<1> QED  BY <1>1, <1>3

\* The place of a pair in a table of rows of k, and the pair from the place.
LEMMA RowAndColumn ==
  ASSUME NEW k \in Nat \ {0}, NEW x \in 0 .. k - 1, NEW y \in Nat
  PROVE  /\ x + k * y \in Nat
         /\ (x + k * y) % k = x
         /\ (x + k * y) \div k = y
<1> DEFINE q == (x + k * y) \div k
           r == (x + k * y) % k
<1>1. k * y \in Nat
  OBVIOUS
<1>2. /\ q \in Int /\ r \in 0 .. k - 1
      /\ x + k * y = k * q + r
  BY <1>1
<1> HIDE DEF q, r
<1>3. k * (q - y) = x - r
  <2>1. k * (q - y) = k * q - k * y
    BY <1>2
  <2> QED  BY <1>1, <1>2, <2>1
<1>4. q - y = 0
  <2>1. CASE q - y >= 1
    <3>1. k * (q - y) >= k
      <4>1. (q - y) - 1 \in Nat
        BY <1>2, <2>1
      <4>2. k * ((q - y) - 1) \in Nat
        BY <4>1
      <4>3. k * (q - y) = k * ((q - y) - 1) + k
        BY <1>2
      <4> QED  BY <4>2, <4>3
    <3> QED  BY <1>2, <1>3, <3>1
  <2>2. CASE q - y <= -1
    <3>1. k * (q - y) <= -k
      <4>1. (y - q) - 1 \in Nat
        BY <1>2, <2>2
      <4>2. k * ((y - q) - 1) \in Nat
        BY <4>1
      <4>3. k * (q - y) = -(k * ((y - q) - 1)) - k
        BY <1>2
      <4> QED  BY <4>2, <4>3
    <3> QED  BY <1>2, <1>3, <3>1
  <2> QED  BY <1>2, <2>1, <2>2
<1>5. q = y
  BY <1>2, <1>4
<1>6. r = x
  BY <1>1, <1>2, <1>5
<1> QED  BY <1>1, <1>5, <1>6 DEF q, r

\* Quotients and remainders.
LEMMA Division ==
  ASSUME NEW a \in Int, NEW b \in Nat \ {0}
  PROVE  /\ a \div b \in Int /\ a % b \in 0 .. b - 1
         /\ a = b * (a \div b) + (a % b)
  OBVIOUS

\* A factor of one or more; of two factors, one made greater.
LEMMA ProductGrows ==
  ASSUME NEW a \in Nat, NEW b \in Nat, NEW c \in Nat, b <= c
  PROVE  a * b \in Nat /\ a * c \in Nat /\ a * b <= a * c
<1>1. c - b \in Nat
  OBVIOUS
<1>2. a * (c - b) \in Nat /\ a * b \in Nat
  BY <1>1
<1>3. a * c = a * b + a * (c - b)
  OBVIOUS
<1> QED  BY <1>2, <1>3

LEMMA Quotient ==
  ASSUME NEW a \in Nat, NEW b \in Nat \ {0}
  PROVE  a \div b \in Nat /\ a \div b <= a /\ b * (a \div b) <= a
<1> DEFINE q == a \div b
<1>1. q \in Int /\ a % b \in 0 .. b - 1 /\ a = b * q + (a % b)
  BY Division
<1> HIDE DEF q
<1>2. q \in Nat
  <2> SUFFICES ASSUME q <= -1 PROVE FALSE
    BY <1>1
  <2>1. -q - 1 \in Nat
    BY <1>1
  <2>2. b * (-q - 1) \in Nat
    BY <2>1
  <2>3. b * q = -(b * (-q - 1)) - b
    BY <1>1
  <2> QED  BY <1>1, <2>2, <2>3
<1>3. q * 1 <= q * b
  BY <1>2, ProductGrows
<1>4. q * b = b * q /\ b * q \in Nat
  BY <1>2
<1>5. b * q <= a
  BY <1>1, <1>4
<1> QED  BY <1>2, <1>3, <1>4, <1>5 DEF q

-----------------------------------------------------------------------------
(* Powers of two.  The provers know no power but of given numbers; that    *)
(* they double is read off the subsets of 1 .. n, of which there are 2^n.  *)

LEMMA PowerIsCount ==
  ASSUME NEW n \in Nat
  PROVE  /\ IsFiniteSet(SUBSET (1 .. n))
         /\ Cardinality(SUBSET (1 .. n)) = 2^n
<1>1. IsFiniteSet(1 .. n) /\ Cardinality(1 .. n) = n
  <2>1. IsFiniteSet(1 .. n) /\ Cardinality(1 .. n) = IF 1 > n THEN 0 ELSE n - 1 + 1
    BY FS_Interval
  <2> QED  BY <2>1
<1> QED  BY <1>1, FS_SUBSET

LEMMA PowerPositive ==
  ASSUME NEW n \in Nat
  PROVE  2^n \in Nat /\ 2^n # 0
<1>1. IsFiniteSet(SUBSET (1 .. n)) /\ Cardinality(SUBSET (1 .. n)) = 2^n
  BY PowerIsCount
<1>2. {} \in SUBSET (1 .. n)
  OBVIOUS
<1> QED  BY <1>1, <1>2, FS_CardinalityType, FS_EmptySet

LEMMA PowerNext ==
  ASSUME NEW n \in Nat
  PROVE  2^(n + 1) = 2 * 2^n
<1> DEFINE S == SUBSET (1 .. n)
           T == {A \cup {n + 1} : A \in S}
           f == [A \in S |-> A \cup {n + 1}]
<1>1. IsFiniteSet(S) /\ Cardinality(S) = 2^n
  BY PowerIsCount
<1>2. f \in Bijection(S, T)
  <2>1. f \in [S -> T]
    OBVIOUS
  <2>2. \A A \in S : n + 1 \notin A
    OBVIOUS
  <2>3. \A A, B \in S : f[A] = f[B] => A = B
    <3> TAKE A, B \in S
    <3>1. A = f[A] \ {n + 1} /\ B = f[B] \ {n + 1}
      BY <2>2
    <3> QED  BY <3>1
  <2>4. \A t \in T : \E A \in S : f[A] = t
    OBVIOUS
  <2> HIDE DEF f, S, T
  <2> QED  BY <2>1, <2>3, <2>4 DEF Bijection, Injection, Surjection, IsInjective
<1>3. IsFiniteSet(T) /\ Cardinality(T) = 2^n
  <2>1. ExistsBijection(S, T)
    BY <1>2 DEF ExistsBijection
  <2> HIDE DEF S, T, f
  <2> QED  BY <1>1, <2>1, FS_Bijection
<1>4. SUBSET (1 .. n + 1) = S \cup T
  <2>1. ASSUME NEW A \in SUBSET (1 .. n + 1)
        PROVE  A \in S \cup T
    <3>1. CASE n + 1 \in A
      <4>1. A \ {n + 1} \in S /\ A = (A \ {n + 1}) \cup {n + 1}
        BY <3>1
      <4> QED  BY <4>1
    <3>2. CASE n + 1 \notin A
      BY <3>2
    <3> QED  BY <3>1, <3>2
  <2>2. ASSUME NEW A \in S \cup T
        PROVE  A \in SUBSET (1 .. n + 1)
    OBVIOUS
  <2> QED  BY <2>1, <2>2
<1>5. S \cap T = {}
  OBVIOUS
<1>6. Cardinality(S \cup T) = 2^n + 2^n - Cardinality({})
  <2> HIDE DEF S, T, f
  <2> QED  BY <1>1, <1>3, <1>5, FS_Union
<1>7. Cardinality(SUBSET (1 .. n + 1)) = 2^(n + 1)
  BY PowerIsCount
<1>8. 2^n \in Nat
  BY PowerPositive
<1>9. 2^(n + 1) = 2^n + 2^n - 0
  BY <1>4, <1>6, <1>7, FS_EmptySet
<1> HIDE DEF S, T, f
<1> QED  BY <1>8, <1>9

LEMMA PowerSum ==
  ASSUME NEW m \in Nat, NEW n \in Nat
  PROVE  2^(m + n) = 2^m * 2^n
<1> DEFINE S == {k \in Nat : 2^(m + k) = 2^m * 2^k}
<1>1. 0 \in S
  <2>1. 2^m \in Nat /\ m + 0 = m /\ 2^0 = 1
    BY PowerPositive
  <2> QED  BY <2>1
<1>2. ASSUME NEW k \in Nat, k \in S
      PROVE  k + 1 \in S
  <2>1. 2^((m + k) + 1) = 2 * 2^(m + k) /\ 2^(k + 1) = 2 * 2^k
    BY PowerNext
  <2>2. m + (k + 1) = (m + k) + 1
    OBVIOUS
  <2>3. 2^m \in Nat /\ 2^k \in Nat
    BY PowerPositive
  <2>4. 2 * (2^m * 2^k) = 2^m * (2 * 2^k)
    BY <2>3
  <2>5. 2^(m + (k + 1)) = 2^m * 2^(k + 1)
    BY <1>2, <2>1, <2>2, <2>4
  <2> QED  BY <2>5
<1> HIDE DEF S
<1>3. n \in S
  BY <1>1, <1>2, AllNumbers
<1> QED  BY <1>3 DEF S

LEMMA PowerGrows ==
  ASSUME NEW m \in Nat, NEW n \in Nat, m <= n
  PROVE  2^m <= 2^n
<1>1. n - m \in Nat /\ m + (n - m) = n
  OBVIOUS
<1>2. 2^n = 2^m * 2^(n - m)
  BY <1>1, PowerSum
<1>3. 2^m \in Nat /\ 2^(n - m) \in Nat /\ 2^(n - m) # 0
  BY <1>1, PowerPositive
<1>4. \A a, b \in Nat : b # 0 => a <= a * b
  <2> TAKE a, b \in Nat
  <2>1. b # 0 => b - 1 \in Nat
    OBVIOUS
  <2>2. b # 0 => a * (b - 1) \in Nat /\ a * b = a * (b - 1) + a
    BY <2>1
  <2> QED  BY <2>2
<1> QED  BY <1>2, <1>3, <1>4

\* Less, measured in a common unit.
LEMMA Cancels ==
    ASSUME NEW a \in Int, NEW b \in Int, NEW d \in Nat \ {0}
    PROVE  /\ a * d <= b * d => a <= b
           /\ a * d < b * d => a < b
           /\ a <= b => a * d <= b * d
           /\ a < b => a * d < b * d
<1>1. ASSUME NEW u \in Int, NEW v \in Int, u < v PROVE u * d < v * d
  <2>1. v - u - 1 \in Nat
    BY <1>1
  <2>2. (v - u - 1) * d \in Nat
    BY <2>1
  <2>3. v * d = u * d + (v - u - 1) * d + d
    OBVIOUS
  <2> QED  BY <2>2, <2>3
<1>2. a * d \in Int /\ b * d \in Int
  OBVIOUS
<1>3. a < b => a * d < b * d
  BY <1>1
<1>4. b < a => b * d < a * d
  BY <1>1
<1> QED  BY <1>2, <1>3, <1>4

\* One power of two measured in another.
LEMMA PowerRatio ==
    ASSUME NEW p \in Nat, NEW q \in Nat, q <= p
    PROVE  \E r \in Nat \ {0} : /\ r = 2^(p - q) /\ 2^p = r * 2^q
                                /\ q = p => r = 1
                                /\ q + 1 = p => r = 2
                                /\ q < p => 2 <= r
                                /\ q + 1 < p => 4 <= r
<1> DEFINE n == p - q
<1>1. n \in Nat /\ q + n = p
  OBVIOUS
<1>2. 2^n \in Nat \ {0} /\ 2^q \in Nat \ {0}
  BY <1>1, PowerPositive
<1>3. 2^p = 2^n * 2^q
  <2>1. 2^(q + n) = 2^q * 2^n
    BY <1>1, PowerSum
  <2>2. \A u, v \in Nat : u * v = v * u
    OBVIOUS
  <2> QED  BY <1>1, <1>2, <2>1, <2>2
<1>4. 2^0 = 1 /\ 2^1 = 2 /\ 2^2 = 4
  OBVIOUS
<1>5. 1 <= n => 2^1 <= 2^n
  BY <1>1, PowerGrows
<1>6. 2 <= n => 2^2 <= 2^n
  BY <1>1, PowerGrows
<1>7. /\ q = p => n = 0
      /\ q + 1 = p => n = 1
      /\ q < p => 1 <= n
      /\ q + 1 < p => 2 <= n
  BY <1>1
<1> HIDE DEF n
<1>8. /\ q = p => 2^n = 1
      /\ q + 1 = p => 2^n = 2
      /\ q < p => 2 <= 2^n
      /\ q + 1 < p => 4 <= 2^n
  BY <1>4, <1>5, <1>6, <1>7
<1> QED  BY <1>2, <1>3, <1>8 DEF n

\* The smallest powers.
LEMMA SmallPowers ==
    ASSUME NEW k \in Nat
    PROVE  /\ k = 0 => 2^k = 1
           /\ k = 1 => 2^k = 2
           /\ k # 0 => 2 <= 2^k
           /\ 2 <= k => 4 <= 2^k
<1>1. 2^0 = 1 /\ 2^1 = 2 /\ 2^2 = 4
  OBVIOUS
<1>2. 1 <= k => 2^1 <= 2^k
  BY PowerGrows
<1>3. 2 <= k => 2^2 <= 2^k
  BY PowerGrows
<1>4. ASSUME k = 0 PROVE 2^k = 1
  BY <1>1, <1>4
<1>5. ASSUME k = 1 PROVE 2^k = 2
  BY <1>1, <1>5
<1> QED  BY <1>1, <1>2, <1>3, <1>4, <1>5

\* A remainder is known by any quotient.
LEMMA RemainderIs ==
    ASSUME NEW b \in Nat \ {0}, NEW q \in Int, NEW c \in 0 .. b - 1
    PROVE  (b * q + c) % b = c
<1> DEFINE a == b * q + c
           u == a \div b
           v == a % b
<1>1. a \in Int
  OBVIOUS
<1>2. u \in Int /\ v \in 0 .. b - 1 /\ a = b * u + v
  BY <1>1, Division
<1>3. b * q + c = b * u + v
  BY <1>2
<1> HIDE DEF a, u, v
<1>4. (u - q) * b < 1 * b /\ (-1) * b < (u - q) * b /\ u - q \in Int
  BY <1>2, <1>3
<1>5. u - q < 1 /\ -1 < u - q
  BY <1>4, Cancels
<1>6. u = q
  BY <1>2, <1>5
<1>7. v = c
  BY <1>2, <1>3, <1>6
<1> QED  BY <1>7 DEF v, a

\* Multiples of the divisor do not change the remainder.
LEMMA Congruent ==
    ASSUME NEW b \in Nat \ {0}, NEW q \in Int, NEW a \in Int
    PROVE  (a + b * q) % b = a % b
<1> DEFINE u == a \div b
           v == a % b
<1>1. u \in Int /\ v \in 0 .. b - 1 /\ a = b * u + v
  BY Division
<1> HIDE DEF u, v
<1>2. a + b * q = b * (u + q) + v /\ u + q \in Int
  BY <1>1
<1>3. (b * (u + q) + v) % b = v
  BY <1>1, <1>2, RemainderIs
<1> QED  BY <1>2, <1>3 DEF v

=============================================================================
