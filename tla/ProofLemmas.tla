---------------------------- MODULE ProofLemmas ----------------------------
(***************************************************************************)
(* What the proofs share: remainders, induction over the natural numbers   *)
(* and the functions it defines, powers of two, and sequences.             *)
(***************************************************************************)
EXTENDS Integers, Sequences, FiniteSets, Powers, Ordered, WellFoundedInduction, FiniteSetTheorems, TLAPS

(* Division and remainder. *)
LEMMA DivMod ==
    ASSUME NEW x \in Int, NEW n \in Nat \ {0}
    PROVE  /\ x \div n \in Int
           /\ x % n \in 0 .. n - 1
           /\ x = n * (x \div n) + (x % n)
<1>1. x \div n \in Int
  OBVIOUS
<1>2. x % n \in 0 .. n - 1
  OBVIOUS
<1>3. x = n * (x \div n) + (x % n)
  OBVIOUS
<1>. QED
  BY <1>1, <1>2, <1>3

LEMMA DivModUnique ==
    ASSUME NEW n \in Nat \ {0}, NEW q \in Int, NEW r \in 0 .. n - 1,
           NEW x \in Int, x = n * q + r
    PROVE  x % n = r /\ x \div n = q
<1>1. x \div n \in Int /\ x % n \in 0 .. n - 1 /\ x = n * (x \div n) + (x % n)
  <2>1. x \in Int
    OBVIOUS
  <2>. QED
    BY <2>1, DivMod
<1>2. PICK p \in Int, s \in 0 .. n - 1 : p = x \div n /\ s = x % n /\ n * p + s = n * q + r
  BY <1>1
<1>3. n * (p - q) = r - s
  BY <1>2
<1>4. PICK d \in Int : d = p - q
  OBVIOUS
<1>5. n * d = r - s
  BY <1>3, <1>4
<1>6. d >= 1 => n * d >= n
  OBVIOUS
<1>7. d <= -1 => n * d <= -n
  OBVIOUS
<1>8. d = 0
  BY <1>4, <1>5, <1>6, <1>7
<1>. QED
  BY <1>2, <1>4, <1>5, <1>8

LEMMA MultipleMod ==
    ASSUME NEW n \in Nat \ {0}, NEW q \in Int
    PROVE  (n * q) % n = 0
<1>1. PICK x \in Int : x = n * q
  OBVIOUS
<1>2. x = n * q + 0 /\ 0 \in 0 .. n - 1
  BY <1>1
<1>3. x % n = 0
  BY <1>2, DivModUnique
<1>. QED
  BY <1>1, <1>3

LEMMA SmallMod ==
    ASSUME NEW n \in Nat \ {0}
    PROVE  (-1) % n = n - 1 /\ \A x \in 0 .. n - 1 : x % n = x
<1>1. -1 = n * (-1) + (n - 1) /\ n - 1 \in 0 .. n - 1
  OBVIOUS
<1>2. \A x \in 0 .. n - 1 : x = n * 0 + x
  OBVIOUS
<1>3. (-1) % n = n - 1
  BY <1>1, DivModUnique
<1>. QED
  BY <1>2, <1>3, DivModUnique
-----------------------------------------------------------------------------
LEMMA LeastElement ==
    ASSUME NEW T \in SUBSET Nat, T # {}
    PROVE  \E x \in T : \A y \in T : x <= y
<1>. DEFINE R == OpToRel(<, Nat)
<1>1. IsWellFoundedOn(R, Nat)
  BY NatLessThanWellFounded
<1>. HIDE DEF R
<1>2. PICK x \in T : \A y \in T : ~ (<<y, x>> \in R)
  BY <1>1, WFMin
<1>3. \A y \in T : y < x => <<y, x>> \in R
  BY <1>2 DEF R, OpToRel
<1>4. \A y \in T : ~(y < x)
  BY <1>2, <1>3
<1>5. \A y \in T : x <= y
  <2>1. x \in Int /\ \A y \in T : y \in Int
    OBVIOUS
  <2>. QED
    BY <1>4, <2>1
<1>. QED
  BY <1>5

LEMMA SetInduction ==
    ASSUME NEW S, 0 \in S, \A n \in Nat : n \in S => n + 1 \in S
    PROVE  Nat \subseteq S
<1>. SUFFICES ASSUME Nat \ S # {} PROVE FALSE
  OBVIOUS
<1>1. PICK x \in Nat \ S : \A y \in Nat \ S : x <= y
  BY LeastElement
<1>2. x # 0 
  OBVIOUS
<1>3. x - 1 \in Nat /\ x - 1 \in S
  BY <1>1, <1>2
<1>4. x - 1 + 1 = x
  OBVIOUS
<1>. QED
  BY <1>3, <1>4

LEMMA IntervalInduction ==
    ASSUME NEW N \in Nat, NEW S, 0 \in S, \A n \in 0 .. N - 1 : n \in S => n + 1 \in S
    PROVE  0 .. N \subseteq S
<1>. DEFINE T == {n \in Nat : n <= N => n \in S}
<1>1. 0 \in T
  OBVIOUS
<1>2. ASSUME NEW n \in Nat, n \in T PROVE n + 1 \in T
  BY <1>2
<1>3. Nat \subseteq T
  <2>. HIDE DEF T
  <2>. QED BY <1>1, <1>2, SetInduction
<1>. QED
  BY <1>3

(* f is defined by primitive recursion from v0 and step. *)
Iterates(f, V, v0, step) ==
    /\ f \in [Nat -> V]
    /\ f[0] = v0
    /\ \A n \in Nat : f[n + 1] = step[n][f[n]]

LEMMA PrimitiveRecursion ==
    ASSUME NEW V, NEW v0 \in V, NEW step \in [Nat -> [V -> V]]
    PROVE  \E f : Iterates(f, V, v0, step)
<1>. DEFINE Good(n, f) == f[0] = v0 /\ \A k \in 0 .. n - 1 : f[k + 1] = step[k][f[k]]
            S == {n \in Nat : \E f \in [0 .. n -> V] : Good(n, f)}
            F(n) == CHOOSE f \in [0 .. n -> V] : Good(n, f)
            g == [n \in Nat |-> F(n)[n]]
<1>1. 0 \in S
  <2>. DEFINE f == [k \in 0 .. 0 |-> v0]
  <2>1. f \in [0 .. 0 -> V] /\ Good(0, f)
    OBVIOUS
  <2>. QED
    BY <2>1
<1>2. ASSUME NEW n \in Nat, n \in S PROVE n + 1 \in S
  <2>1. PICK f \in [0 .. n -> V] : Good(n, f)
    BY <1>2
  <2>. DEFINE h == [k \in 0 .. n + 1 |-> IF k <= n THEN f[k] ELSE step[n][f[n]]]
  <2>2. f[n] \in V /\ step[n] \in [V -> V]
    OBVIOUS
  <2>3. step[n][f[n]] \in V
    BY <2>2
  <2>4. h \in [0 .. n + 1 -> V]
    BY <2>3
  <2>5. h[0] = v0
    BY <2>1
  <2>6. ASSUME NEW k \in 0 .. (n + 1) - 1 PROVE h[k + 1] = step[k][h[k]]
    <3>1. k \in 0 .. n /\ h[k] = f[k] /\ k + 1 \in 0 .. n + 1
      OBVIOUS
    <3>2. CASE k = n
      <4>1. ~(k + 1 <= n)
        BY <3>2
      <4>2. h[k + 1] = step[n][f[n]]
        BY <3>1, <4>1
      <4>. QED
        BY <3>1, <3>2, <4>2
    <3>3. CASE k # n
      <4>1. k \in 0 .. n - 1 /\ k + 1 <= n
        BY <3>1, <3>3
      <4>2. h[k + 1] = f[k + 1]
        BY <3>1, <4>1
      <4>. QED
        BY <2>1, <3>1, <4>1, <4>2
    <3>. QED
      BY <3>2, <3>3
  <2>7. Good(n + 1, h)
    BY <2>5, <2>6
  <2>. HIDE DEF h
  <2>. QED
    BY <2>4, <2>7
<1>3. \A n \in Nat : F(n) \in [0 .. n -> V] /\ Good(n, F(n))
  <2>1. Nat \subseteq S
    <3>. HIDE DEF S
    <3>. QED BY <1>1, <1>2, SetInduction
  <2>. QED
    BY <2>1
<1>. HIDE DEF F
<1>4. ASSUME NEW n \in Nat PROVE F(n + 1)[n] = F(n)[n]
  <2>. DEFINE E == {k \in 0 .. n : F(n + 1)[k] = F(n)[k]}
  <2>1. Good(n, F(n)) /\ Good(n + 1, F(n + 1))
    BY <1>3
  <2>2. 0 \in E
    BY <2>1
  <2>3. ASSUME NEW k \in 0 .. n - 1, k \in E PROVE k + 1 \in E
    <3>1. k \in 0 .. (n + 1) - 1 /\ k + 1 \in 0 .. n
      OBVIOUS
    <3>. QED
      BY <2>1, <2>3, <3>1
  <2>4. 0 .. n \subseteq E
    <3>. HIDE DEF E
    <3>. QED BY <2>2, <2>3, IntervalInduction
  <2>. QED
    BY <2>4
<1>5. g \in [Nat -> V]
  BY <1>3
<1>6. g[0] = v0
  BY <1>3
<1>7. ASSUME NEW n \in Nat PROVE g[n + 1] = step[n][g[n]]
  <2>1. F(n + 1)[n + 1] = step[n][F(n + 1)[n]]
    <3>1. n \in 0 .. (n + 1) - 1
      OBVIOUS
    <3>2. Good(n + 1, F(n + 1))
      BY <1>3
    <3>. QED BY <3>1, <3>2
  <2>. QED
    BY <1>4, <2>1
<1>8. Iterates(g, V, v0, step)
  BY <1>5, <1>6, <1>7 DEF Iterates
<1>. QED
  BY <1>8
-----------------------------------------------------------------------------
(* Powers of two. *)
LEMMA Pow2Def ==
    /\ Pow2 \in [Nat -> Nat \ {0}]
    /\ Pow2[0] = 1
    /\ \A k \in Nat : Pow2[k + 1] = 2 * Pow2[k]
<1>. DEFINE V == Nat \ {0}
            step == [n \in Nat |-> [v \in V |-> 2 * v]]
            Def(g) == [k \in Nat |-> IF k = 0 THEN 1 ELSE 2 * g[k - 1]]
<1>1. step \in [Nat -> [V -> V]]
  OBVIOUS
<1>2. PICK f : Iterates(f, V, 1, step)
  <2>1. 1 \in V
    OBVIOUS
  <2>. HIDE DEF step, V
  <2>. QED
    BY <1>1, <2>1, PrimitiveRecursion
<1>3. f[0] = 1 /\ \A n \in Nat : f[n + 1] = 2 * f[n]
  BY <1>2 DEF Iterates
<1>4. f = Def(f)
  <2>1. \A k \in Nat : f[k] = IF k = 0 THEN 1 ELSE 2 * f[k - 1]
    <3>1. ASSUME NEW k \in Nat, k # 0 PROVE f[k] = 2 * f[k - 1]
      <4>1. k - 1 \in Nat /\ (k - 1) + 1 = k
        BY <3>1
      <4>. QED
        BY <1>3, <4>1
    <3>. QED
      BY <1>3, <3>1
  <2>2. f = [k \in Nat |-> f[k]]
    BY <1>2 DEF Iterates
  <2>. QED
    BY <2>1, <2>2
<1>5. Pow2 = Def(Pow2)
  BY <1>4 DEF Pow2
<1>6. Pow2[0] = 1 /\ \A k \in Nat : Pow2[k + 1] = 2 * Pow2[k]
  <2>1. \A k \in Nat : Pow2[k] = IF k = 0 THEN 1 ELSE 2 * Pow2[k - 1]
    BY <1>5
  <2>. QED
    BY <2>1
<1>7. Nat \subseteq {k \in Nat : Pow2[k] \in Nat \ {0}}
  <2>. DEFINE S == {k \in Nat : Pow2[k] \in Nat \ {0}}
  <2>1. 0 \in S
    BY <1>6
  <2>2. ASSUME NEW n \in Nat, n \in S PROVE n + 1 \in S
    BY <1>6, <2>2
  <2>3. Nat \subseteq S
    <3>. HIDE DEF S
    <3>. QED
      BY <2>1, <2>2, SetInduction
  <2>. QED
    BY <2>3
<1>8. DOMAIN Pow2 = Nat /\ Pow2 = [k \in Nat |-> Pow2[k]]
  BY <1>5
<1>. QED
  BY <1>6, <1>7, <1>8
LEMMA Pow2Divides ==
    ASSUME NEW j \in Nat, NEW d \in Nat
    PROVE  \E q \in Nat \ {0} : Pow2[j + d] = q * Pow2[j]
<1>. DEFINE S == {e \in Nat : \E q \in Nat \ {0} : Pow2[j + e] = q * Pow2[j]}
<1>1. 0 \in S
  <2>1. Pow2[j] \in Nat /\ j + 0 = j
    BY Pow2Def
  <2>2. Pow2[j + 0] = 1 * Pow2[j]
    BY <2>1
  <2>. QED
    BY <2>2
<1>2. ASSUME NEW e \in Nat, e \in S PROVE e + 1 \in S
  <2>1. PICK q \in Nat \ {0} : Pow2[j + e] = q * Pow2[j]
    BY <1>2
  <2>2. j + e \in Nat /\ j + (e + 1) = (j + e) + 1
    OBVIOUS
  <2>3. PICK x \in Nat : x = Pow2[j]
    BY Pow2Def
  <2>4. Pow2[j + (e + 1)] = 2 * (q * x)
    BY <2>1, <2>2, <2>3, Pow2Def
  <2>5. 2 * (q * x) = (2 * q) * x /\ 2 * q \in Nat \ {0}
    OBVIOUS
  <2>. QED
    BY <2>3, <2>4, <2>5
<1>3. Nat \subseteq S
  <2>. HIDE DEF S
  <2>. QED
    BY <1>1, <1>2, SetInduction
<1>. QED
  BY <1>3

LEMMA Pow2Above ==
    ASSUME NEW n \in Nat
    PROVE  n < Pow2[n]
<1>. DEFINE S == {k \in Nat : k < Pow2[k]}
<1>1. 0 \in S
  BY Pow2Def
<1>2. ASSUME NEW k \in Nat, k \in S PROVE k + 1 \in S
  <2>1. PICK x \in Nat : x = Pow2[k]
    BY Pow2Def
  <2>. QED
    BY <1>2, <2>1, Pow2Def
<1>3. Nat \subseteq S
  <2>. HIDE DEF S
  <2>. QED
    BY <1>1, <1>2, SetInduction
<1>. QED
  BY <1>3

LEMMA ModZero ==
    ASSUME NEW n \in Nat \ {0}, NEW x \in Int
    PROVE  x % n = 0 <=> \E q \in Int : x = n * q
<1>1. ASSUME x % n = 0 PROVE \E q \in Int : x = n * q
  <2>1. PICK q \in Int : q = x \div n
    BY DivMod
  <2>2. x = n * q + (x % n)
    BY <2>1, DivMod
  <2>3. n * q \in Int
    OBVIOUS
  <2>4. x = n * q
    BY <1>1, <2>2, <2>3
  <2>. QED
    BY <2>4
<1>2. ASSUME NEW q \in Int, x = n * q PROVE x % n = 0
  BY <1>2, MultipleMod
<1>. QED
  BY <1>1, <1>2

LEMMA ModSum ==
    ASSUME NEW n \in Nat \ {0}, NEW x \in Int, NEW y \in Int, x % n = 0, y % n = 0
    PROVE  (x + y) % n = 0 /\ (x - y) % n = 0
<1>1. PICK p \in Int : x = n * p
  BY ModZero
<1>2. PICK q \in Int : y = n * q
  BY ModZero
<1>3. x + y = n * (p + q) /\ p + q \in Int
  BY <1>1, <1>2
<1>4. x - y = n * (p - q) /\ p - q \in Int
  BY <1>1, <1>2
<1>5. \A z \in Int : (\E r \in Int : z = n * r) => z % n = 0
  BY ModZero
<1>6. x + y \in Int /\ x - y \in Int
  OBVIOUS
<1>. QED
  BY <1>3, <1>4, <1>5, <1>6

LEMMA ModDivisor ==
    ASSUME NEW n \in Nat \ {0}, NEW q \in Nat \ {0}, NEW x \in Int, x % (q * n) = 0
    PROVE  x % n = 0
<1>1. q * n \in Nat \ {0}
  OBVIOUS
<1>2. PICK p \in Int : x = (q * n) * p
  BY <1>1, ModZero
<1>3. x = n * (q * p) /\ q * p \in Int
  BY <1>2
<1>. QED
  BY <1>3, ModZero

LEMMA ModSelf ==
    ASSUME NEW n \in Nat \ {0}
    PROVE  n % n = 0 /\ 0 % n = 0
<1>1. n = n * 1 /\ 0 = n * 0
  OBVIOUS
<1>. QED
  BY <1>1, ModZero

(* Multiples of n that differ, differ by n at least. *)
LEMMA ModGap ==
    ASSUME NEW n \in Nat \ {0}, NEW x \in Int, NEW y \in Int, x % n = 0, y % n = 0, x < y
    PROVE  x + n <= y
<1>1. PICK p \in Int : x = n * p
  BY ModZero
<1>2. PICK q \in Int : y = n * q
  BY ModZero
<1>3. PICK d \in Int : d = q - p
  OBVIOUS
<1>4. y - x = n * d
  BY <1>1, <1>2, <1>3
<1>5. d <= 0 => n * d <= 0
  OBVIOUS
<1>6. d >= 1 => n * d >= n
  OBVIOUS
<1>7. n * d \in Int
  OBVIOUS
<1>. QED
  BY <1>4, <1>5, <1>6, <1>7

LEMMA MultipleAtLeast ==
    ASSUME NEW n \in Nat \ {0}, NEW x \in Nat \ {0}, x % n = 0
    PROVE  n <= x
<1>1. 0 % n = 0
  BY ModSelf
<1>2. 0 + n <= x
  BY <1>1, ModGap
<1>. QED
  BY <1>2

LEMMA IsPow2Facts ==
    ASSUME NEW p \in Nat, IsPow2(p)
    PROVE  p \in Nat \ {0} /\ \E k \in Nat : p = Pow2[k]
BY Pow2Def DEF IsPow2

(* Of two powers of two the smaller one divides the larger one. *)
LEMMA Pow2Order ==
    ASSUME NEW p \in Nat, NEW r \in Nat, IsPow2(p), IsPow2(r), p <= r
    PROVE  \E q \in Nat \ {0} : r = q * p
<1>1. PICK j \in Nat : p = Pow2[j]
  BY IsPow2Facts
<1>2. PICK k \in Nat : r = Pow2[k]
  BY IsPow2Facts
<1>3. CASE j <= k
  <2>1. PICK d \in Nat : k = j + d
    BY <1>3
  <2>. QED
    BY <1>1, <1>2, <2>1, Pow2Divides
<1>4. CASE k < j
  <2>1. PICK d \in Nat : j = k + d
    BY <1>4
  <2>2. PICK q \in Nat \ {0} : p = q * r
    BY <1>1, <1>2, <2>1, Pow2Divides
  <2>3. r \in Nat \ {0}
    BY IsPow2Facts
  <2>4. q > 1 => q * r > r
    BY <2>3
  <2>5. q = 1
    BY <2>2, <2>4
  <2>6. r = 1 * p
    BY <2>2, <2>5
  <2>. QED
    BY <2>6
<1>. QED
  BY <1>3, <1>4

LEMMA Pow2Half ==
    ASSUME NEW p \in Nat, IsPow2(p), p > 1
    PROVE  p \div 2 \in Nat \ {0} /\ p = 2 * (p \div 2) /\ IsPow2(p \div 2)
<1>1. PICK k \in Nat : p = Pow2[k]
  BY IsPow2Facts
<1>2. k # 0
  BY <1>1, Pow2Def
<1>3. PICK j \in Nat : k = j + 1
  <2>1. k - 1 \in Nat /\ k = (k - 1) + 1
    BY <1>2
  <2>. QED
    BY <2>1
<1>4. PICK h \in Nat \ {0} : h = Pow2[j]
  BY Pow2Def
<1>5. p = 2 * h
  BY <1>1, <1>3, <1>4, Pow2Def
<1>6. p \div 2 = h
  BY <1>5
<1>7. j \in 0 .. h
  BY <1>4, Pow2Above
<1>. QED
  BY <1>4, <1>5, <1>6, <1>7 DEF IsPow2

(* Every positive number has a largest power of two that divides it. *)
LEMMA LowBitExists ==
    ASSUME NEW n \in Nat \ {0}
    PROVE  \E p \in 1 .. n : n % p = 0 /\ n % (2 * p) # 0 /\ IsPow2(p)
<1>. DEFINE T == {k \in Nat : n % Pow2[k + 1] # 0}
<1>1. n \in T
  <2>1. PICK x \in Nat \ {0} : x = Pow2[n + 1] /\ n < x
    <3>1. n + 1 < Pow2[n + 1] /\ Pow2[n + 1] \in Nat \ {0}
      BY Pow2Above, Pow2Def
    <3>. QED
      BY <3>1
  <2>2. n \in 0 .. x - 1
    BY <2>1
  <2>3. n % x = n
    BY <2>2, SmallMod
  <2>. QED
    BY <2>1, <2>3
<1>2. PICK k \in T : \A j \in T : k <= j
  <2>. HIDE DEF T
  <2>1. T \in SUBSET Nat
    BY DEF T
  <2>. QED
    BY <1>1, <2>1, LeastElement
<1>3. PICK p \in Nat \ {0} : p = Pow2[k] /\ Pow2[k + 1] = 2 * p
  BY Pow2Def
<1>4. n % p = 0
  <2>1. CASE k = 0
    <3>1. p = 1
      BY <1>3, <2>1, Pow2Def
    <3>2. n = 1 * n
      OBVIOUS
    <3>3. n % 1 = 0
      BY <3>2, ModZero
    <3>. QED
      BY <3>1, <3>3
  <2>2. CASE k # 0
    <3>1. k - 1 \in Nat /\ (k - 1) + 1 = k
      BY <2>2
    <3>2. k - 1 \notin T
      BY <1>2, <3>1
    <3>. QED
      BY <1>3, <3>1, <3>2
  <2>. QED
    BY <2>1, <2>2
<1>5. p <= n
  BY <1>4, MultipleAtLeast
<1>6. IsPow2(p)
  <2>1. k \in 0 .. p
    BY <1>3, Pow2Above
  <2>. QED
    BY <1>3, <2>1 DEF IsPow2
<1>7. n % (2 * p) # 0
  BY <1>2, <1>3
<1>. QED
  BY <1>4, <1>5, <1>6, <1>7

(* Two aligned blocks of which one begins and ends before the other. *)
LEMMA AlignedBlocks ==
    ASSUME NEW a \in Nat, NEW s \in Nat, NEW b \in Nat, NEW t \in Nat,
           IsPow2(s), IsPow2(t), a % s = 0, b % t = 0, a < b, a + s < b + t
    PROVE  a + s <= b
<1>0. s \in Nat \ {0} /\ t \in Nat \ {0}
  BY IsPow2Facts
<1>i. a \in Int /\ b \in Int /\ a + s \in Int /\ b + t \in Int /\ s \in Int /\ t \in Int
  OBVIOUS
<1>1. CASE s <= t
  <2>1. PICK q \in Nat \ {0} : t = q * s
    BY <1>1, Pow2Order
  <2>2. b % (q * s) = 0
    BY <2>1
  <2>3. b % s = 0
    BY <1>0, <1>i, <2>2, ModDivisor, Zenon
  <2>. QED
    BY <1>0, <1>i, <2>3, ModGap, Zenon
<1>2. CASE t < s
  <2>1. PICK q \in Nat \ {0} : s = q * t
    BY <1>2, Pow2Order
  <2>2. s % s = 0 /\ t % t = 0
    BY <1>0, ModSelf
  <2>3. (a + s) % s = 0 /\ (b + t) % t = 0
    BY <1>0, <1>i, <2>2, ModSum, Zenon
  <2>4. (a + s) % (q * t) = 0
    BY <2>1, <2>3
  <2>5. (a + s) % t = 0
    BY <1>0, <1>i, <2>4, ModDivisor, Zenon
  <2>6. (a + s) + t <= b + t
    BY <1>0, <1>i, <2>3, <2>5, ModGap, Zenon
  <2>. QED
    BY <2>6
<1>. QED
  BY <1>1, <1>2
-----------------------------------------------------------------------------
(* A set of positions that has, with a position, all before it, is the     *)
(* positions up to its size.                                               *)
LEMMA InitialSegment ==
    ASSUME NEW n \in Nat, NEW D \in SUBSET (1 .. n),
           \A k \in D : \A j \in 1 .. k : j \in D
    PROVE  Cardinality(D) \in 0 .. n /\ D = 1 .. Cardinality(D)
<1>. DEFINE T == {k \in Nat : k + 1 \notin D}
<1>1. n \in T
  OBVIOUS
<1>2. PICK c \in T : \A j \in T : c <= j
  <2>. HIDE DEF T
  <2>1. T \in SUBSET Nat
    BY DEF T
  <2>. QED
    BY <1>1, <2>1, LeastElement
<1>3. c \in 0 .. n
  BY <1>1, <1>2
<1>4. D \subseteq 1 .. c
  <2>1. ASSUME NEW k \in D, k > c PROVE FALSE
    <3>1. c + 1 \in 1 .. k
      BY <2>1
    <3>. QED
      BY <1>2, <3>1
  <2>. QED
    BY <2>1
<1>5. 1 .. c \subseteq D
  <2>1. ASSUME NEW k \in 1 .. c PROVE k \in D
    <3>1. k - 1 \in Nat /\ (k - 1) + 1 = k /\ ~(c <= k - 1)
      OBVIOUS
    <3>. QED
      BY <1>2, <3>1
  <2>. QED
    BY <2>1
<1>6. D = 1 .. c
  BY <1>4, <1>5
<1>7. Cardinality(1 .. c) = c
  BY FS_Interval
<1>. QED
  BY <1>3, <1>6, <1>7

(* What is where in a list that is joined from two. *)
LEMMA JoinedFacts ==
    ASSUME NEW E, NEW s \in Seq(E), NEW t \in Seq(E)
    PROVE  /\ s \o t \in Seq(E)
           /\ Len(s \o t) = Len(s) + Len(t)
           /\ \A k \in 1 .. Len(s) : (s \o t)[k] = s[k]
           /\ \A k \in 1 .. Len(t) : (s \o t)[Len(s) + k] = t[k]
<1>1. s \o t \in Seq(E) /\ Len(s \o t) = Len(s) + Len(t)
  OBVIOUS
<1>2. \A k \in 1 .. Len(s) : (s \o t)[k] = s[k]
  OBVIOUS
<1>3. \A k \in 1 .. Len(t) : (s \o t)[Len(s) + k] = t[k]
  OBVIOUS
<1>. QED
  BY <1>1, <1>2, <1>3
LEMMA FiniteImage ==
    ASSUME NEW S, IsFiniteSet(S), NEW f, DOMAIN f = S
    PROVE  IsFiniteSet({f[x] : x \in S})
<1>. DEFINE T == {f[x] : x \in S}
            g == [x \in S |-> f[x]]
<1>1. g \in [S -> T] /\ \A t \in T : \E x \in S : g[x] = t
  OBVIOUS
<1>2. g \in Surjection(S, T)
  <2>. HIDE DEF g, T
  <2>. QED
    BY <1>1 DEF Surjection
<1>3. IsFiniteSet(T)
  <2>. HIDE DEF g, T
  <2>. QED
    BY <1>2, FS_Surjection
<1>. QED
  BY <1>3

-----------------------------------------------------------------------------
(* A set of numbers in ascending order. *)

Elements(s) == {s[k] : k \in DOMAIN s}

LEMMA InOrderFacts ==
    ASSUME NEW S, IsFiniteSet(S), S \subseteq Nat
    PROVE  /\ InOrder(S) \in Seq(S) /\ Elements(InOrder(S)) = S
           /\ \A j, k \in 1 .. Len(InOrder(S)) : j < k => InOrder(S)[j] < InOrder(S)[k]
<1>. DEFINE Below(x) == {y \in S : y <= x}
            n == Cardinality(S)
            f == [x \in S |-> Cardinality(Below(x))]
<1>1. n \in Nat
  BY FS_CardinalityType
<1>2. ASSUME NEW x \in S
      PROVE  Cardinality(Below(x)) \in 1 .. n
  <2>1. IsFiniteSet(Below(x)) /\ Cardinality(Below(x)) <= n
    BY FS_Subset
  <2>2. Cardinality(Below(x)) \in Nat
    BY <2>1, FS_CardinalityType
  <2>3. x \in Below(x)
    OBVIOUS
  <2>4. Cardinality(Below(x)) # 0
    BY <2>1, <2>3, FS_EmptySet
  <2>. QED
    BY <1>1, <2>1, <2>2, <2>4
<1>3. ASSUME NEW x \in S, NEW y \in S, x < y
      PROVE  Cardinality(Below(x)) # Cardinality(Below(y))
  <2>1. x \in Nat /\ y \in Nat
    OBVIOUS
  <2>2. \A z \in S : z \in Nat
    OBVIOUS
  <2>3. Below(x) \in SUBSET Below(y)
    <3>1. ASSUME NEW z \in Nat, z <= x PROVE z <= y
      BY <1>3, <2>1, <3>1
    <3>. QED
      BY <2>2, <3>1
  <2>4. y \in Below(y) /\ y \notin Below(x)
    BY <1>3, <2>1
  <2>5. IsFiniteSet(Below(y))
    BY FS_Subset
  <2>. HIDE DEF Below
  <2>. QED
    BY <2>3, <2>4, <2>5, FS_Subset
<1>4. f \in [S -> 1 .. n]
  BY <1>2
<1>5. \A x, y \in S : x # y => f[x] # f[y]
  <2>1. ASSUME NEW x \in S, NEW y \in S, x # y PROVE f[x] # f[y]
    <3>1. x \in Nat /\ y \in Nat
      OBVIOUS
    <3>2. x < y \/ y < x
      BY <2>1, <3>1
    <3>. QED
      BY <1>3, <3>2
  <2>. QED
    BY <2>1
<1>6. f \in Injection(S, 1 .. n)
  <2>. HIDE DEF f
  <2>. QED
    BY <1>4, <1>5 DEF Injection, IsInjective
<1>7. IsFiniteSet(1 .. n) /\ Cardinality(1 .. n) = n
  BY <1>1, FS_Interval
<1>8. f \in Surjection(S, 1 .. n)
  <2>. HIDE DEF f
  <2>. QED
    BY <1>6, <1>7, FS_Injection
<1>9. \A k \in 1 .. n : \E x \in S : f[x] = k
  BY <1>8 DEF Surjection
<1>10. ASSUME NEW k \in 1 .. n
       PROVE  InOrder(S)[k] \in S /\ Cardinality(Below(InOrder(S)[k])) = k
  <2>1. \E x \in S : Cardinality(Below(x)) = k
    BY <1>9
  <2>2. InOrder(S)[k] = CHOOSE x \in S : Cardinality(Below(x)) = k
    BY DEF InOrder
  <2>. QED
    BY <2>1, <2>2
<1>11. DOMAIN InOrder(S) = 1 .. n /\ InOrder(S) \in [1 .. n -> S]
  BY <1>10 DEF InOrder
<1>12. InOrder(S) \in Seq(S)
  BY <1>1, <1>11
<1>13. ASSUME NEW x \in S PROVE \E k \in 1 .. n : InOrder(S)[k] = x
  <2>1. f[x] \in 1 .. n
    BY <1>4
  <2>2. InOrder(S)[f[x]] \in S /\ f[InOrder(S)[f[x]]] = f[x]
    BY <1>10, <2>1
  <2>. QED
    BY <1>5, <2>1, <2>2
<1>14. ASSUME NEW j \in 1 .. n, NEW k \in 1 .. n, j < k
       PROVE  InOrder(S)[j] < InOrder(S)[k]
  <2>1. PICK x \in Nat, y \in Nat : x = InOrder(S)[j] /\ y = InOrder(S)[k] /\ x \in S /\ y \in S
    BY <1>10
  <2>2. Cardinality(Below(x)) = j /\ Cardinality(Below(y)) = k
    BY <1>10, <2>1
  <2>3. CASE y <= x
    <3>1. Below(y) \subseteq Below(x)
      <4>1. ASSUME NEW z \in Nat, z <= y PROVE z <= x
        BY <2>1, <2>3, <4>1
      <4>. QED
        BY <4>1
    <3>2. IsFiniteSet(Below(x))
      BY FS_Subset
    <3>3. Cardinality(Below(y)) <= Cardinality(Below(x))
      <4>. HIDE DEF Below
      <4>. QED
        BY <3>1, <3>2, FS_Subset
    <3>. QED
      BY <1>14, <2>2, <3>3
  <2>. QED
    BY <2>1, <2>3
<1>15. Len(InOrder(S)) = n
  BY <1>1, <1>11, <1>12
<1>16. Elements(InOrder(S)) = S
  BY <1>11, <1>13 DEF Elements
<1>17. \A j, k \in 1 .. n : j < k => InOrder(S)[j] < InOrder(S)[k]
  BY <1>14
<1>. QED
  BY <1>12, <1>15, <1>16, <1>17
=============================================================================
