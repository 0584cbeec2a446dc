---------------------------- MODULE NumberLemmas ----------------------------
(***************************************************************************)
(* What the other proofs need of natural numbers: least elements and       *)
(* induction as facts about sets, that functions defined by recursion      *)
(* exist and are unique, remainders, and the parts of a number cut at a    *)
(* bit.                                                                    *)
(***************************************************************************)
EXTENDS Bits, Integers, TLAPS, WellFoundedInduction

----------------------------------------------------------------------------
(* Least elements and induction *)

\* What every induction rests on: a set of naturals has a least element.
LEMMA LeastElement ==
    ASSUME NEW S \in SUBSET Nat, S # {}
    PROVE  \E m \in S : \A k \in S : m <= k
<1> DEFINE Less == { ss \in Nat \X Nat : ss[1] < ss[2] }
<1>1. IsWellFoundedOn(Less, Nat)
  BY NatLessThanWellFounded DEF OpToRel
<1> HIDE DEF Less
<1>2. PICK m \in S : \A k \in S : <<k, m>> \notin Less
  BY <1>1, WFMin
<1>3. \A k \in S : ~(k < m)
  BY <1>2 DEF Less
<1> QED
  BY <1>3

\* ...and, if it is bounded, a greatest.
LEMMA GreatestElement ==
    ASSUME NEW N \in Nat, NEW S \in SUBSET (0 .. N), S # {}
    PROVE  \E m \in S : \A k \in S : k <= m
<1> DEFINE T == { n \in Nat : n <= N /\ N - n \in S }
<1>1. T # {}
  <2>1. PICK k \in S : TRUE
    OBVIOUS
  <2>2. N - k \in T
    OBVIOUS
  <2> QED
    BY <2>2
<1>2. PICK n \in T : \A k \in T : n <= k
  BY <1>1, LeastElement
<1>3. ASSUME NEW k \in S PROVE k <= N - n
  <2>1. N - k \in T
    OBVIOUS
  <2> QED
    BY <1>2, <2>1
<1> QED
  BY <1>3

\* Induction, for the numbers up to some n or for all of them.
LEMMA InductionUpTo ==
    ASSUME NEW n \in Nat, NEW S, 0 \in S, \A k \in 0 .. n - 1 : k \in S => k + 1 \in S
    PROVE  0 .. n \subseteq S
<1> DEFINE Out == (0 .. n) \ S
<1>0. Out \in SUBSET Nat
  OBVIOUS
<1>1. ASSUME Out # {} PROVE FALSE
  <2> HIDE DEF Out
  <2>1. PICK m \in Out : \A k \in Out : m <= k
    BY <1>0, <1>1, LeastElement
  <2>2. m \in 0 .. n /\ m \notin S /\ m # 0 /\ m - 1 \in 0 .. n - 1
    BY <2>1 DEF Out
  <2>3. m - 1 \in S
    BY <2>1, <2>2 DEF Out
  <2> QED
    BY <2>2, <2>3
<1> QED
  BY <1>1

LEMMA InductionOnNat ==
    ASSUME NEW S, 0 \in S, \A k \in Nat : k \in S => k + 1 \in S
    PROVE  Nat \subseteq S
<1> SUFFICES ASSUME NEW n \in Nat PROVE n \in S
  OBVIOUS
<1> QED
  BY InductionUpTo

----------------------------------------------------------------------------
(* Recursion *)

\* h begins with v and goes on by F, up to n.
Follows(h, v, F, n) ==
    h[0] = v /\ \A k \in 0 .. n - 1 : h[k + 1] = F[<<k, h[k]>>]

LEMMA FiniteRecursion ==
    ASSUME NEW V, NEW v \in V, NEW n \in Nat, NEW F \in [(0 .. n - 1) \X V -> V]
    PROVE  \E h \in [0 .. n -> V] : Follows(h, v, F, n)
<1> DEFINE S == { k \in 0 .. n : \E h \in [0 .. k -> V] : Follows(h, v, F, k) }
<1>1. 0 \in S
  <2>1. [j \in 0 .. 0 |-> v] \in [0 .. 0 -> V] /\ Follows([j \in 0 .. 0 |-> v], v, F, 0)
    BY DEF Follows
  <2> QED
    BY <2>1
<1>2. ASSUME NEW k \in 0 .. n - 1, k \in S PROVE k + 1 \in S
  <2>1. PICK h \in [0 .. k -> V] : Follows(h, v, F, k)
    BY <1>2
  <2> DEFINE g == [j \in 0 .. k + 1 |-> IF j = k + 1 THEN F[<<k, h[k]>>] ELSE h[j]]
  <2>2. F[<<k, h[k]>>] \in V /\ \A j \in 0 .. k : h[j] \in V
    OBVIOUS
  <2>3. g \in [0 .. k + 1 -> V] 
    BY <2>2
  <2>4. /\ \A j \in 0 .. k : g[j] = h[j]
        /\ g[k + 1] = F[<<k, h[k]>>]
    OBVIOUS
  <2> HIDE DEF g
  <2>5. ASSUME NEW j \in 0 .. k PROVE g[j + 1] = F[<<j, g[j]>>]
    <3>1. CASE j = k
      BY <2>4, <3>1
    <3>2. CASE j # k
      <4>1. j \in 0 .. k - 1 /\ j + 1 \in 0 .. k
        BY <3>2
      <4>2. h[j + 1] = F[<<j, h[j]>>]
        BY <2>1, <4>1 DEF Follows
      <4>3. g[j + 1] = h[j + 1] /\ g[j] = h[j]
        BY <2>4, <4>1
      <4> QED
        BY <4>2, <4>3
    <3> QED
      BY <3>1, <3>2
  <2>6. (k + 1) - 1 = k /\ g[0] = v
    BY <2>1, <2>4 DEF Follows
  <2>7. Follows(g, v, F, k + 1)
    BY <2>5, <2>6 DEF Follows
  <2> QED
    BY <2>3, <2>7
<1> HIDE DEF S
<1>3. n \in S
  BY <1>1, <1>2, InductionUpTo
<1> QED
  BY <1>3 DEF S

LEMMA OneRecursion ==
    ASSUME NEW V, NEW v \in V, NEW n \in Nat, NEW F,
           NEW g, NEW h, Follows(g, v, F, n), Follows(h, v, F, n)
    PROVE  \A k \in 0 .. n : g[k] = h[k]
<1> DEFINE S == { k \in 0 .. n : g[k] = h[k] }
<1>1. 0 \in S
  BY DEF Follows
<1>2. ASSUME NEW k \in 0 .. n - 1, k \in S PROVE k + 1 \in S
  <2>1. g[k + 1] = F[<<k, g[k]>>] /\ h[k + 1] = F[<<k, h[k]>>]
    BY DEF Follows
  <2>2. g[k] = h[k]
    BY <1>2
  <2>3. g[k + 1] = h[k + 1]
    BY <2>1, <2>2
  <2> QED
    BY <2>3
<1> HIDE DEF S
<1>3. 0 .. n \subseteq S
  BY <1>1, <1>2, InductionUpTo
<1> QED
  BY <1>3 DEF S

LEMMA Recursion ==
    ASSUME NEW V, NEW v \in V, NEW F \in [Nat \X V -> V]
    PROVE  \E h \in [Nat -> V] : \A n \in Nat : Follows(h, v, F, n)
<1> DEFINE upto(n) == CHOOSE h \in [0 .. n -> V] : Follows(h, v, F, n)
           h == [n \in Nat |-> upto(n)[n]]
<1>1. ASSUME NEW n \in Nat PROVE upto(n) \in [0 .. n -> V] /\ Follows(upto(n), v, F, n)
  <2> DEFINE G == [kx \in (0 .. n - 1) \X V |-> F[kx]]
  <2>1. G \in [(0 .. n - 1) \X V -> V]
    OBVIOUS
  <2>2. \A g \in [0 .. n -> V] : Follows(g, v, F, n) <=> Follows(g, v, G, n)
    <3>1. \A g \in [0 .. n -> V] : \A k \in 0 .. n - 1 : G[<<k, g[k]>>] = F[<<k, g[k]>>]
      <4> SUFFICES ASSUME NEW g \in [0 .. n -> V], NEW k \in 0 .. n - 1
                   PROVE  G[<<k, g[k]>>] = F[<<k, g[k]>>]
        OBVIOUS
      <4>1. <<k, g[k]>> \in (0 .. n - 1) \X V
        OBVIOUS
      <4> QED
        BY <4>1
    <3> HIDE DEF G
    <3> QED
      BY <3>1 DEF Follows
  <2> HIDE DEF G
  <2>3. \E g \in [0 .. n -> V] : Follows(g, v, F, n)
    BY <2>1, <2>2, FiniteRecursion
  <2> QED
    BY <2>3
<1> HIDE DEF upto
<1>2. ASSUME NEW n \in Nat, NEW k \in 0 .. n PROVE upto(n)[k] = upto(k)[k]
  <2>1. Follows(upto(n), v, F, k)
    BY <1>1 DEF Follows
  <2>2. Follows(upto(k), v, F, k)
    BY <1>1
  <2> QED
    BY <2>1, <2>2, OneRecursion
<1>3. h \in [Nat -> V]
  BY <1>1
<1>4. ASSUME NEW n \in Nat PROVE Follows(h, v, F, n)
  <2>1. h[0] = v
    BY <1>1 DEF Follows
  <2>2. ASSUME NEW k \in 0 .. n - 1 PROVE h[k + 1] = F[<<k, h[k]>>]
    <3>1. upto(k + 1)[k + 1] = F[<<k, upto(k + 1)[k]>>]
      BY <1>1 DEF Follows
    <3>2. upto(k + 1)[k] = upto(k)[k]
      BY <1>2
    <3> QED
      BY <3>1, <3>2
  <2> QED
    BY <2>1, <2>2 DEF Follows
<1> QED
  BY <1>3, <1>4

----------------------------------------------------------------------------
(* Quotients and remainders *)

LEMMA DivMod ==
    ASSUME NEW a \in Nat, NEW b \in Nat \ {0}
    PROVE  /\ a \div b \in Nat /\ a % b \in Nat /\ a % b < b
           /\ a = (a \div b) * b + (a % b)
OBVIOUS

\* The quotient and the remainder are the only numbers that fit.
LEMMA OnlyQuotient ==
    ASSUME NEW b \in Nat \ {0}, NEW q \in Nat, NEW r \in Nat,
           NEW s \in Nat, NEW t \in Nat, r < b, t < b, q * b + r = s * b + t
    PROVE  q = s /\ r = t
<1>1. ASSUME NEW x \in Nat, NEW y \in Nat, x > y PROVE x * b >= y * b + b
  <2>1. PICK d \in Nat : x = y + 1 + d
    BY <1>1
  <2>2. x * b = y * b + b + d * b /\ d * b \in Nat /\ y * b \in Nat
    BY <2>1
  <2> QED
    BY <2>2
<1>2. q * b \in Nat /\ s * b \in Nat
  OBVIOUS
<1>3. ~(q > s) /\ ~(s > q)
  BY <1>1, <1>2
<1> QED
  BY <1>2, <1>3

LEMMA DivUnique ==
    ASSUME NEW b \in Nat \ {0}, NEW q \in Nat, NEW r \in Nat, r < b
    PROVE  (q * b + r) \div b = q /\ (q * b + r) % b = r
<1>1. q * b + r \in Nat
  OBVIOUS
<1> QED
  BY <1>1, DivMod, OnlyQuotient

\* Dropping the low part of a number written in two parts.
LEMMA DivOfSum ==
    ASSUME NEW x \in Nat, NEW p \in Nat \ {0}, NEW v \in Nat, v < p,
           NEW j \in Nat \ {0}
    PROVE  (x * p + v) \div (p * j) = x \div j
<1> DEFINE q == x \div j   r == x % j
<1>1. q \in Nat /\ r \in Nat /\ r < j /\ x = q * j + r
  BY DivMod
<1> HIDE DEF q, r
<1>2. x * p + v = q * (p * j) + (r * p + v)
  BY <1>1
<1>3. r * p + v \in Nat /\ r * p + v < p * j
  <2>1. PICK d \in Nat : j = r + 1 + d
    BY <1>1
  <2>2. p * j = r * p + p + d * p /\ d * p \in Nat
    BY <1>1, <2>1
  <2> QED
    BY <1>1, <2>2
<1>4. p * j \in Nat \ {0}
  OBVIOUS
<1>5. (x * p + v) \div (p * j) = q
  BY <1>1, <1>2, <1>3, <1>4, DivUnique
<1> QED
  BY <1>5 DEF q

LEMMA DivDiv ==
    ASSUME NEW x \in Nat, NEW a \in Nat \ {0}, NEW b \in Nat \ {0}
    PROVE  (x \div a) \div b = x \div (a * b)
<1>1. x \div a \in Nat /\ x % a \in Nat /\ x % a < a /\ x = (x \div a) * a + (x % a)
  BY DivMod
<1> QED
  BY <1>1, DivOfSum

LEMMA ModOfSum ==
    ASSUME NEW m \in Nat \ {0}, NEW q \in Nat, NEW r \in Nat
    PROVE  (q * m + r) % m = r % m
<1> DEFINE k == r \div m   y == r % m
<1>1. k \in Nat /\ y \in Nat /\ y < m /\ r = k * m + y
  BY DivMod
<1> HIDE DEF k, y
<1>2. PICK j \in Nat : j = q + k
  BY <1>1
<1>3. q * m + r = j * m + y
  BY <1>1, <1>2
<1>4. (j * m + y) % m = y
  BY <1>1, DivUnique
<1> QED
  BY <1>3, <1>4 DEF y

LEMMA ModMod ==
    ASSUME NEW x \in Nat, NEW m \in Nat \ {0}, NEW r \in Nat \ {0}
    PROVE  (x % (m * r)) % m = x % m
<1> DEFINE k == x \div (m * r)   y == x % (m * r)
<1>1. m * r \in Nat \ {0}
  OBVIOUS
<1>2. k \in Nat /\ y \in Nat /\ x = k * (m * r) + y
  BY <1>1, DivMod
<1> HIDE DEF k, y
<1>3. PICK j \in Nat : j = k * r
  BY <1>2
<1>4. x = j * m + y
  BY <1>2, <1>3
<1>5. x % m = y % m
  BY <1>2, <1>4, ModOfSum
<1> QED
  BY <1>5 DEF y

LEMMA ModAdd ==
    ASSUME NEW x \in Nat, NEW v \in Nat, NEW m \in Nat \ {0}
    PROVE  (x + v) % m = ((x % m) + v) % m
<1> DEFINE k == x \div m   y == x % m
<1>1. k \in Nat /\ y \in Nat /\ x = k * m + y
  BY DivMod
<1> HIDE DEF k, y
<1>2. PICK z \in Nat : z = y + v
  BY <1>1
<1>3. x + v = k * m + z
  BY <1>1, <1>2
<1>4. (k * m + z) % m = z % m
  BY <1>1, ModOfSum
<1> QED
  BY <1>2, <1>3, <1>4 DEF y

LEMMA ModScale ==
    ASSUME NEW x \in Nat, NEW t \in Nat \ {0}, NEW p \in Nat \ {0}
    PROVE  (x * p) % (t * p) = (x % t) * p
<1> DEFINE k == x \div t   y == x % t
<1>1. k \in Nat /\ y \in Nat /\ y < t /\ x = k * t + y
  BY DivMod
<1> HIDE DEF k, y
<1>2. PICK m \in Nat \ {0}, z \in Nat : m = t * p /\ z = y * p
  BY <1>1
<1>3. z < m
  <2>1. PICK d \in Nat : t = y + 1 + d
    BY <1>1
  <2>2. t * p = y * p + p + d * p /\ d * p \in Nat
    BY <1>1, <2>1
  <2> QED
    BY <1>1, <1>2, <2>2
<1>4. x * p = k * m + z
  BY <1>1, <1>2
<1>5. (x * p) % m = z
  BY <1>1, <1>3, <1>4, DivUnique
<1> QED
  BY <1>2, <1>5 DEF y

LEMMA DivOfMod ==
    ASSUME NEW x \in Nat, NEW s \in Nat \ {0}, NEW c \in Nat \ {0}
    PROVE  (x % (s * c)) \div s = (x \div s) % c
<1> DEFINE m == s * c
           k == x \div m   y == x % m   u == y \div s   v == y % s
<1>1. m \in Nat \ {0}
  OBVIOUS
<1>2. k \in Nat /\ y \in Nat /\ y < m /\ x = k * m + y
  BY <1>1, DivMod
<1> HIDE DEF y, k
<1>3. u \in Nat /\ v \in Nat /\ v < s /\ y = u * s + v
  BY <1>2, DivMod
<1> HIDE DEF u, v
<1>4. PICK z \in Nat : z = k * c + u
  BY <1>2, <1>3
<1>5. x = z * s + v
  BY <1>2, <1>3, <1>4
<1>6. x \div s = z
  BY <1>3, <1>5, DivUnique
<1>7. u < c
  <2>1. ASSUME u >= c PROVE FALSE
    <3>1. PICK d \in Nat : u = c + d
      BY <1>3, <2>1
    <3>2. u * s = s * c + d * s /\ d * s \in Nat
      BY <3>1
    <3> QED
      BY <1>2, <1>3, <3>2
  <2> QED
    BY <1>3, <2>1
<1>8. z % c = u
  BY <1>2, <1>3, <1>4, <1>7, DivUnique
<1> QED
  BY <1>6, <1>8 DEF u, y

\* One step of a remainder of any modulus: it goes on, or it wraps.
LEMMA ModStep ==
    ASSUME NEW M \in Nat \ {0}, NEW a \in Nat, NEW d \in 0 .. M - 1
    PROVE  /\ a % M \in 0 .. M - 1
           /\ (a + d) % M = IF (a % M) + d < M THEN (a % M) + d ELSE (a % M) + d - M
<1> DEFINE q == a \div M   r == a % M
           k == (a + d) \div M   s == (a + d) % M
<1>1. q \in Nat /\ r \in 0 .. M - 1 /\ a = M * q + r
  OBVIOUS
<1>2. k \in Nat /\ s \in 0 .. M - 1 /\ a + d = M * k + s
  OBVIOUS
<1> HIDE DEF q, r, k, s
<1>3. M * k = M * q + (r + d - s)
  BY <1>1, <1>2
<1>4. CASE k < q
  <2>1. M * (k + 1) <= M * q /\ M * (k + 1) = M * k + M
    BY <1>1, <1>2, <1>4
  <2> QED
    BY <1>1, <1>2, <1>3, <2>1
<1>5. CASE k > q + 1
  <2>1. M * k >= M * (q + 2) /\ M * (q + 2) = M * q + 2 * M
    BY <1>1, <1>2, <1>5
  <2> QED
    BY <1>1, <1>2, <1>3, <2>1
<1>6. CASE k = q
  BY <1>1, <1>2, <1>3, <1>6 DEF r, s
<1>7. CASE k = q + 1
  <2>1. M * k = M * q + M
    BY <1>1, <1>7
  <2> QED
    BY <1>1, <1>2, <1>3, <2>1 DEF r, s
<1> QED
  BY <1>1, <1>2, <1>4, <1>5, <1>6, <1>7

----------------------------------------------------------------------------
(* Powers of two, and the parts of a number *)

LEMMA Pow2Def == Pow2 = [n \in Nat |-> IF n = 0 THEN 1 ELSE 2 * Pow2[n - 1]]
<1> DEFINE F == [kx \in Nat \X Nat |-> 2 * kx[2]]
<1>1. F \in [Nat \X Nat -> Nat]
  OBVIOUS
<1> HIDE DEF F
<1>2. PICK h \in [Nat -> Nat] : \A n \in Nat : Follows(h, 1, F, n)
  BY <1>1, Recursion
<1>3. h[0] = 1
  BY <1>2 DEF Follows
<1>4. \A n \in Nat : h[n + 1] = 2 * h[n]
  <2> SUFFICES ASSUME NEW n \in Nat PROVE h[n + 1] = 2 * h[n]
    OBVIOUS
  <2>1. h[n + 1] = F[<<n, h[n]>>]
    BY <1>2 DEF Follows
  <2> QED
    BY <2>1 DEF F
<1>5. h = [n \in Nat |-> IF n = 0 THEN 1 ELSE 2 * h[n - 1]]
  BY <1>3, <1>4
<1> QED
  BY <1>5 DEF Pow2

LEMMA Pow2Facts ==
    /\ Pow2[0] = 1
    /\ \A n \in Nat : Pow2[n] \in Nat \ {0} /\ Pow2[n + 1] = 2 * Pow2[n]
<1>1. Pow2[0] = 1
  BY Pow2Def
<1>2. \A n \in Nat : Pow2[n + 1] = 2 * Pow2[n]
  <2> SUFFICES ASSUME NEW n \in Nat PROVE Pow2[n + 1] = 2 * Pow2[n]
    OBVIOUS
  <2>1. n + 1 \in Nat /\ n + 1 # 0 /\ (n + 1) - 1 = n
    OBVIOUS
  <2> QED
    BY <2>1, Pow2Def
<1> DEFINE S == { n \in Nat : Pow2[n] \in Nat \ {0} }
<1>3. 0 \in S
  BY <1>1
<1>4. ASSUME NEW k \in Nat, k \in S PROVE k + 1 \in S
  BY <1>2, <1>4
<1> HIDE DEF S
<1>5. Nat \subseteq S
  BY <1>3, <1>4, InductionOnNat
<1> QED
  BY <1>1, <1>2, <1>5 DEF S

LEMMA Pow2Sum ==
    ASSUME NEW a \in Nat, NEW b \in Nat
    PROVE  Pow2[a + b] = Pow2[a] * Pow2[b]
<1> DEFINE S == { n \in Nat : Pow2[a + n] = Pow2[a] * Pow2[n] }
<1>1. 0 \in S
  BY Pow2Facts
<1>2. ASSUME NEW k \in Nat, k \in S PROVE k + 1 \in S
  <2>1. a + (k + 1) = (a + k) + 1 /\ a + k \in Nat
    OBVIOUS
  <2>2. Pow2[a + (k + 1)] = 2 * Pow2[a + k] /\ Pow2[k + 1] = 2 * Pow2[k]
    BY <2>1, Pow2Facts
  <2>3. Pow2[a + k] = Pow2[a] * Pow2[k]
    BY <1>2
  <2>4. Pow2[a] \in Nat /\ Pow2[k] \in Nat
    BY Pow2Facts
  <2>5. Pow2[a + (k + 1)] = Pow2[a] * Pow2[k + 1]
    BY <2>2, <2>3, <2>4
  <2> QED
    BY <2>5
<1> HIDE DEF S
<1>3. Nat \subseteq S
  BY <1>1, <1>2, InductionOnNat
<1> QED
  BY <1>3 DEF S

LEMMA PartsType ==
    ASSUME NEW x \in Nat, NEW k \in Nat
    PROVE  High(x, k) \in Nat /\ Low(x, k) \in Nat /\ Shifted(x, k) \in Nat
           /\ Low(x, k) < Pow2[k] /\ x = Shifted(High(x, k), k) + Low(x, k)
<1>1. Pow2[k] \in Nat \ {0}
  BY Pow2Facts
<1>2. /\ x \div Pow2[k] \in Nat /\ x % Pow2[k] \in Nat /\ x % Pow2[k] < Pow2[k]
      /\ x = (x \div Pow2[k]) * Pow2[k] + (x % Pow2[k])
  BY <1>1, DivMod, Zenon
<1>3. x * Pow2[k] \in Nat
  BY <1>1
<1> QED
  BY <1>2, <1>3 DEF High, Low, Shifted

LEMMA HighHigh ==
    ASSUME NEW x \in Nat, NEW a \in Nat, NEW b \in Nat
    PROVE  High(High(x, a), b) = High(x, a + b)
<1>1. Pow2[a] \in Nat \ {0} /\ Pow2[b] \in Nat \ {0} /\ Pow2[a + b] = Pow2[a] * Pow2[b]
  BY Pow2Facts, Pow2Sum
<1>2. (x \div Pow2[a]) \div Pow2[b] = x \div (Pow2[a] * Pow2[b])
  BY <1>1, DivDiv, Zenon
<1> QED
  BY <1>1, <1>2 DEF High

LEMMA LowLow ==
    ASSUME NEW x \in Nat, NEW a \in Nat, NEW b \in Nat
    PROVE  Low(Low(x, a + b), a) = Low(x, a)
<1>1. Pow2[a] \in Nat \ {0} /\ Pow2[b] \in Nat \ {0} /\ Pow2[a + b] = Pow2[a] * Pow2[b]
  BY Pow2Facts, Pow2Sum
<1>2. (x % (Pow2[a] * Pow2[b])) % Pow2[a] = x % Pow2[a]
  BY <1>1, ModMod, Zenon
<1> QED
  BY <1>1, <1>2 DEF Low

LEMMA HighOfLow ==
    ASSUME NEW x \in Nat, NEW s \in Nat, NEW c \in Nat
    PROVE  High(Low(x, s + c), s) = Low(High(x, s), c)
<1>1. Pow2[s] \in Nat \ {0} /\ Pow2[c] \in Nat \ {0} /\ Pow2[s + c] = Pow2[s] * Pow2[c]
  BY Pow2Facts, Pow2Sum
<1>2. (x % (Pow2[s] * Pow2[c])) \div Pow2[s] = (x \div Pow2[s]) % Pow2[c]
  BY <1>1, DivOfMod, Zenon
<1> QED
  BY <1>1, <1>2 DEF Low, High

LEMMA HighOfShifted ==
    ASSUME NEW x \in Nat, NEW b \in Nat, NEW j \in Nat, NEW v \in Nat, v < Pow2[b]
    PROVE  High(Shifted(x, b) + v, b + j) = High(x, j)
<1>1. Pow2[b] \in Nat \ {0} /\ Pow2[j] \in Nat \ {0} /\ Pow2[b + j] = Pow2[b] * Pow2[j]
  BY Pow2Facts, Pow2Sum
<1>2. PICK p \in Nat \ {0}, d \in Nat \ {0} : p = Pow2[b] /\ d = Pow2[j]
  BY <1>1
<1>3. (x * p + v) \div (p * d) = x \div d
  <2>1. v < p
    BY <1>2
  <2> QED
    BY <2>1, DivOfSum
<1> QED
  BY <1>1, <1>2, <1>3 DEF High, Shifted

LEMMA LowOfSum ==
    ASSUME NEW x \in Nat, NEW v \in Nat, NEW k \in Nat
    PROVE  Low(x + v, k) = Low(Low(x, k) + v, k)
<1>1. Pow2[k] \in Nat \ {0}
  BY Pow2Facts
<1> QED
  BY <1>1, ModAdd, Zenon DEF Low

LEMMA LowOfShifted ==
    ASSUME NEW x \in Nat, NEW t \in Nat, NEW b \in Nat
    PROVE  Low(Shifted(x, b), t + b) = Shifted(Low(x, t), b)
<1>1. Pow2[t] \in Nat \ {0} /\ Pow2[b] \in Nat \ {0} /\ Pow2[t + b] = Pow2[t] * Pow2[b]
  BY Pow2Facts, Pow2Sum
<1>2. (x * Pow2[b]) % (Pow2[t] * Pow2[b]) = (x % Pow2[t]) * Pow2[b]
  BY <1>1, ModScale, Zenon
<1> QED
  BY <1>1, <1>2 DEF Low, Shifted

LEMMA SmallIsLow ==
    ASSUME NEW k \in Nat, NEW v \in Nat, v < Pow2[k]
    PROVE  Low(v, k) = v /\ High(v, k) = 0
<1>1. Pow2[k] \in Nat \ {0} /\ 0 * Pow2[k] + v = v
  BY Pow2Facts
<1>2. (0 * Pow2[k] + v) % Pow2[k] = v /\ (0 * Pow2[k] + v) \div Pow2[k] = 0
  BY <1>1, DivUnique
<1> QED
  BY <1>1, <1>2 DEF Low, High

LEMMA AtZero ==
    ASSUME NEW x \in Nat
    PROVE  High(x, 0) = x /\ Low(x, 0) = 0 /\ Shifted(x, 0) = x
<1>1. Pow2[0] = 1 /\ x * 1 + 0 = x
  BY Pow2Facts
<1>2. (x * 1 + 0) \div 1 = x /\ (x * 1 + 0) % 1 = 0
  BY DivUnique
<1> QED
  BY <1>1, <1>2 DEF Low, High, Shifted
=============================================================================
