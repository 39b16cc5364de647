--------------------------- MODULE WordArithmetic ---------------------------
(***************************************************************************)
(* Facts about \div and % by a fixed positive number, which is how the     *)
(* 32-bit addresses and the 512-byte sectors of the transfer loops are     *)
(* written in this development.                                            *)
(***************************************************************************)
EXTENDS Integers, TLAPS

(* Division with remainder. *)
LEMMA DivMod ==
  ASSUME NEW a \in Int, NEW u \in Nat \ {0}
  PROVE  /\ a = u * (a \div u) + (a % u)
         /\ a % u \in 0..u-1 /\ a \div u \in Int
  BY SMT

(* ... is unique. *)
LEMMA DivModUnique ==
  ASSUME NEW u \in Nat \ {0}, NEW q \in Int, NEW r \in 0..u-1
  PROVE  (u * q + r) \div u = q /\ (u * q + r) % u = r
  BY SMT

(* Adding to a whole number of units: quotients add up. *)
LEMMA DivAdd ==
  ASSUME NEW u \in Nat \ {0}, NEW a \in Int, NEW b \in Int, a % u = 0
  PROVE  /\ (a + b) \div u = a \div u + b \div u
         /\ (a + b) % u = b % u
<1> DEFINE p == a \div u
           q == b \div u
           r == b % u
<1>1. a = u * p /\ p \in Int
  BY DivMod
<1>2. b = u * q + r /\ q \in Int /\ r \in 0..u-1
  BY DivMod
<1>3. a + b = u * (p + q) + r /\ p + q \in Int
  <2> HIDE DEF p, q, r
  <2> QED BY <1>1, <1>2, SMT
<1>4. (u * (p + q) + r) \div u = p + q /\ (u * (p + q) + r) % u = r
  <2> HIDE DEF p, q, r
  <2> QED BY <1>2, <1>3, DivModUnique
<1> QED BY <1>3, <1>4

(* Reducing a summand first does not change the reduced sum. *)
LEMMA ModAdd ==
  ASSUME NEW w \in Nat \ {0}, NEW x \in Int, NEW y \in Int
  PROVE  ((x % w) + y) % w = (x + y) % w
<1> DEFINE z == (x % w) + y
           p == x \div w
           q == z \div w
           r == z % w
<1>1. x = w * p + (x % w) /\ p \in Int /\ x % w \in Int
  BY DivMod
<1>2. z \in Int
  BY <1>1
<1>3. z = w * q + r /\ q \in Int /\ r \in 0..w-1
  <2> HIDE DEF z
  <2> QED BY <1>2, DivMod
<1>4. x + y = w * (p + q) + r /\ p + q \in Int
  <2>1. x + y = w * p + z
    BY <1>1
  <2> HIDE DEF p, q, r, z
  <2> QED BY <2>1, <1>1, <1>3, SMT
<1>5. (w * (p + q) + r) % w = r
  <2> HIDE DEF p, q, r
  <2> QED BY <1>3, <1>4, DivModUnique
<1> QED BY <1>4, <1>5

(* Adding the advance of one chunk to a reduced address gives the reduced  *)
(* address of the next offset, when the chunk starts on a unit.            *)
LEMMA PlaceStep ==
  ASSUME NEW w \in Nat \ {0}, NEW u \in Nat \ {0},
         NEW b \in Int, NEW o \in Int, NEW n \in Int, o % u = 0
  PROVE  (((b + o \div u) % w) + n \div u) % w = (b + (o + n) \div u) % w
<1>1. o \div u \in Int /\ n \div u \in Int
  BY DivMod
<1>2. (((b + o \div u) % w) + n \div u) % w = ((b + o \div u) + n \div u) % w
  <2> DEFINE x == b + o \div u
             y == n \div u
  <2>1. x \in Int /\ y \in Int
    BY <1>1
  <2> HIDE DEF x, y
  <2>2. ((x % w) + y) % w = (x + y) % w
    BY <2>1, ModAdd
  <2> USE DEF x, y
  <2> QED BY <2>2
<1>3. (b + o \div u) + n \div u = b + (o + n) \div u
  <2>1. (o + n) \div u = o \div u + n \div u
    BY DivAdd
  <2> QED BY <2>1, <1>1
<1> QED BY <1>2, <1>3

(* Zero divided, and division by one. *)
LEMMA DivTrivial ==
  ASSUME NEW u \in Nat \ {0}, NEW a \in Int
  PROVE  0 \div u = 0 /\ 0 % u = 0 /\ a \div 1 = a /\ a % 1 = 0
  BY SMT

(* Numbers less than w apart have different remainders. *)
LEMMA ModInjective ==
  ASSUME NEW w \in Nat \ {0}, NEW x \in Int, NEW y \in Int, x < y, y - x < w
  PROVE  x % w # y % w
<1> SUFFICES ASSUME x % w = y % w PROVE FALSE
  OBVIOUS
<1> DEFINE p == x \div w
           q == y \div w
           r == x % w
<1>1. x = w * p + r /\ y = w * q + r /\ p \in Int /\ q \in Int /\ r \in Int
  BY DivMod
<1> HIDE DEF p, q, r
<1>2. y - x = w * (q - p)
  BY <1>1, SMT
<1>3. CASE q - p >= 1
  <2>1. w * (q - p) >= w
    BY <1>1, <1>3, SMT
  <2> QED BY <1>2, <2>1
<1>4. CASE q - p <= 0
  <2>1. w * (q - p) <= 0
    BY <1>1, <1>4, SMT
  <2> QED BY <1>2, <2>1
<1> QED BY <1>1, <1>3, <1>4

(* Quotients of numbers on two sides of a multiple of the divisor differ,  *)
(* and a number below a product is below it in quotients.                  *)
LEMMA DivSeparates ==
  ASSUME NEW u \in Nat \ {0}, NEW i \in Nat, NEW j \in Nat, NEW m \in Nat, NEW w \in Nat,
         m % u = 0, i < m, m <= j, j < w * u
  PROVE  /\ i \div u \in Nat /\ j \div u \in Nat
         /\ i \div u < j \div u /\ j \div u < w
<1> DEFINE p == i \div u
           q == j \div u
           n == m \div u
           r == i % u
           s == j % u
<1>1. /\ i = u * p + r /\ p \in Int /\ r \in 0..u-1
      /\ j = u * q + s /\ q \in Int /\ s \in 0..u-1
      /\ m = u * n /\ n \in Int
  <2>1. \A a \in Int : a = u * (a \div u) + (a % u) /\ a % u \in 0..u-1 /\ a \div u \in Int
    BY DivMod
  <2>2. i \in Int /\ j \in Int /\ m \in Int
    OBVIOUS
  <2> QED BY <2>1, <2>2
<1> HIDE DEF p, q, n, r, s
<1>2. p >= 0 /\ q >= 0
  <2>1. p <= -1 => u * p <= -u
    BY <1>1, SMT
  <2>2. q <= -1 => u * q <= -u
    BY <1>1, SMT
  <2> QED BY <1>1, <2>1, <2>2
<1>3. p < n
  <2>1. p >= n => u * p >= u * n
    BY <1>1, SMT
  <2> QED BY <1>1, <2>1
<1>4. n <= q
  <2>1. n >= q + 1 => u * n >= u * q + u
    BY <1>1, SMT
  <2> QED BY <1>1, <2>1
<1>5. q < w
  <2>1. q >= w => u * q >= w * u
    BY <1>1, SMT
  <2> QED BY <1>1, <2>1
<1> USE DEF p, q
<1> QED BY <1>1, <1>2, <1>3, <1>4, <1>5
=============================================================================
