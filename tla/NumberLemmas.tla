---------------------------- MODULE NumberLemmas ----------------------------
(***************************************************************************)
(* Quotients and remainders, for the proofs about divisions and about      *)
(* numbers that are split and put together.                                *)
(***************************************************************************)
EXTENDS Integers, WellFoundedInduction, TLAPS

\* What \div and % are.
LEMMA DivMod ==
  ASSUME NEW a \in Int, NEW b \in Nat \ {0}
  PROVE  /\ a \div b \in Int /\ a % b \in 0 .. (b - 1)
         /\ a = b * (a \div b) + (a % b)
OBVIOUS

\* A product is at least as large as its other factor.
LEMMA ProductGrows ==
  ASSUME NEW k \in Nat \ {0}, NEW b \in Nat
  PROVE  k * b >= b
OBVIOUS

\* There is one quotient and one remainder only.
LEMMA DivUnique ==
  ASSUME NEW a \in Int, NEW b \in Nat \ {0}, NEW q \in Int, NEW r \in 0 .. (b - 1),
         a = b * q + r
  PROVE  a \div b = q /\ a % b = r
<1> DEFINE Q == a \div b
           R == a % b
<1>1. /\ Q \in Int /\ R \in 0 .. (b - 1)
      /\ b * (Q - q) = r - R
  BY DivMod
<1>2. CASE Q > q
  <2>1. (Q - q) * b >= b
    BY <1>1, <1>2, ProductGrows
  <2> QED
    BY <1>1, <2>1
<1>3. CASE Q < q
  <2>1. (q - Q) * b >= b
    BY <1>1, <1>3, ProductGrows
  <2> QED
    BY <1>1, <2>1
<1>4. Q = q
  BY <1>1, <1>2, <1>3
<1> QED
  BY <1>1, <1>4

\* Whole multiples of the modulus do not change a remainder.
LEMMA ModShift ==
  ASSUME NEW a \in Int, NEW b \in Nat \ {0}, NEW k \in Int
  PROVE  (a + b * k) % b = a % b
<1> DEFINE n == a + b * k
           q == (a \div b) + k
           r == a % b
<1>1. a \div b \in Int /\ r \in 0 .. (b - 1) /\ a = b * (a \div b) + r
  BY DivMod
<1>2. n \in Int /\ q \in Int /\ n = b * q + r
  BY <1>1
<1>3. n % b = r
  <2> HIDE DEF n, q, r
  <2> QED
    BY <1>1, <1>2, DivUnique
<1> QED
  BY <1>3

\* Nor does one modulus less.
LEMMA ModTurn ==
  ASSUME NEW a \in Int, NEW b \in Nat \ {0}
  PROVE  (a - b) % b = a % b
<1>1. (a + b * (0 - 1)) % b = a % b
  <2> DEFINE k == 0 - 1
  <2>1. k \in Int
    OBVIOUS
  <2>2. (a + b * k) % b = a % b
    <3> HIDE DEF k
    <3> QED
      BY <2>1, ModShift
  <2> QED
    BY <2>2
<1>2. a + b * (0 - 1) = a - b
  OBVIOUS
<1> QED
  BY <1>1, <1>2

\* A modulus divides what is not below it at least once.
LEMMA QuotientOfLarger ==
  ASSUME NEW a \in Nat, NEW b \in Nat \ {0}, b <= a
  PROVE  a \div b \in Nat \ {0}
<1> DEFINE q == a \div b
<1>1. q \in Int /\ a % b \in 0 .. (b - 1) /\ a = b * q + (a % b)
  BY DivMod
<1>2. ASSUME q <= 0 PROVE FALSE
  <2>1. b * q <= 0
    BY <1>1, <1>2
  <2> QED
    BY <1>1, <2>1
<1> QED
  BY <1>1, <1>2

\* What is left when a number smaller than the modulus is taken from a word is
\* not the word.
LEMMA OtherWord ==
  ASSUME NEW M \in Nat \ {0}, NEW x \in 0 .. (M - 1), NEW e \in 1 .. (M - 1)
  PROVE  (x - e) % M # x
<1> DEFINE y == x - e
           d == y \div M
<1>1. y \in Int /\ d \in Int /\ y = M * d + (y % M)
  BY DivMod
<1>2. ASSUME y % M = x PROVE FALSE
  <2>1. M * d = -e
    BY <1>1, <1>2
  <2> HIDE DEF d
  <2>2. CASE d >= 0
    <3>1. M * d >= 0
      BY <2>2, <1>1
    <3> QED
      BY <2>1, <3>1
  <2>3. CASE d < 0
    <3>1. (-d) * M >= M
      BY <2>3, <1>1, ProductGrows
    <3> QED
      BY <2>1, <3>1, <1>1
  <2> QED
    BY <2>2, <2>3, <1>1
<1> QED
  BY <1>2

\* The bits of a number are the remainders of its halves.
LEMMA Halves ==
  ASSUME NEW a \in Nat, NEW w \in Nat \ {0}
  PROVE  /\ a \div w \in Nat /\ a \div w <= a
         /\ (a \div w) % 2 \in 0 .. 1
         /\ a \div w = 2 * (a \div (2 * w)) + ((a \div w) % 2)
<1> DEFINE v == a \div w
           s == a % w
           u == v \div 2
           c == v % 2
<1>1. v \in Int /\ s \in 0 .. (w - 1) /\ a = w * v + s
  BY DivMod
<1>2. v >= 0
  <2>1. ASSUME v < 0 PROVE FALSE
    <3>1. (-v) * w >= w
      BY <1>1, <2>1, ProductGrows
    <3> QED
      BY <1>1, <3>1
  <2> QED
    BY <1>1, <2>1
<1>3. v <= a
  <2>1. w * v >= v
    BY <1>1, <1>2, ProductGrows
  <2> QED
    BY <1>1, <2>1
<1>4. u \in Int /\ c \in 0 .. 1 /\ v = 2 * u + c
  <2> HIDE DEF v
  <2>1. 2 \in Nat \ {0}
    OBVIOUS
  <2> QED
    BY <1>1, <2>1, DivMod
<1>5. a \div (2 * w) = u
  <2> DEFINE x == 2 * w
             y == w * c + s
  <2>1. x \in Nat \ {0} /\ y \in 0 .. (x - 1)
    <3>1. CASE c = 0
      BY <1>1, <3>1
    <3>2. CASE c = 1
      BY <1>1, <3>2
    <3> QED
      BY <1>4, <3>1, <3>2
  <2>2. a = x * u + y
    <3> HIDE DEF v, u, c, s
    <3>1. w * (2 * u + c) = (2 * w) * u + w * c
      BY <1>4
    <3> QED
      BY <1>1, <1>4, <3>1
  <2> HIDE DEF x, y, u
  <2>3. a \div x = u
    BY <1>4, <2>1, <2>2, DivUnique
  <2> QED
    BY <2>3 DEF x
<1>6. v = 2 * (a \div (2 * w)) + c
  <2> HIDE DEF v, u, c
  <2> QED
    BY <1>4, <1>5
<1>7. v \in Nat
  <2> HIDE DEF v
  <2> QED
    BY <1>1, <1>2
<1> QED
  BY <1>3, <1>4, <1>6, <1>7, Zenon

\* What one more bit of a does to the remainder: shifted in, it stays below
\* twice the divisor and below a itself.
LEMMA Shifted ==
  ASSUME NEW a \in Nat, NEW b \in Nat \ {0}, NEW w \in Nat \ {0},
         NEW k \in Nat, NEW r \in Nat, r < b,
         a \div (2 * w) = k * b + r
  PROVE  LET t == 2 * r + ((a \div w) % 2)
         IN  /\ t \in Nat /\ t < 2 * b /\ t <= a /\ 2 * r <= a
             /\ a \div w = (2 * k) * b + t
<1> DEFINE v == a \div w
           c == v % 2
           p == k * b
<1>1. /\ v \in Nat /\ v <= a /\ c \in 0 .. 1
      /\ v = 2 * (a \div (2 * w)) + c
  BY Halves
<1>2. p \in Nat /\ (2 * k) * b = 2 * p
  OBVIOUS
<1>3. v = 2 * (p + r) + c
  BY <1>1
<1> HIDE DEF v, c, p
<1>4. v = 2 * p + (2 * r + c)
  BY <1>1, <1>2, <1>3
<1> QED
  BY <1>1, <1>2, <1>4 DEF v, c

\* A quotient of full words has its next bit clear, and setting it adds one to
\* twice of them.
LEMMA QuotientBit ==
  ASSUME NEW q \in Nat, NEW w \in Nat \ {0}, q % (2 * w) = 0
  PROVE  LET k == q \div (2 * w)
         IN  /\ k \in Nat /\ q \div w = 2 * k /\ q % w = 0
             /\ (q \div w) % 2 = 0
             /\ (q + w) \div w = 2 * k + 1 /\ (q + w) % w = 0
<1> DEFINE x == 2 * w
           k == q \div x
<1>1. x \in Nat \ {0}
  OBVIOUS
<1>2. k \in Int /\ q = x * k + (q % x)
  <2> HIDE DEF x
  <2> QED
    BY <1>1, DivMod
<1>3. q = x * k
  BY <1>1, <1>2
<1>4. k \in Nat
  <2> HIDE DEF k
  <2>1. ASSUME k < 0 PROVE FALSE
    <3>1. (-k) * w >= w
      BY <1>2, <2>1, ProductGrows
    <3> QED
      BY <1>2, <1>3, <3>1
  <2> QED
    BY <1>2, <2>1
<1> DEFINE h == 2 * k
           i == 2 * k + 1
<1>5. /\ h \in Nat /\ i \in Nat /\ 0 \in 0 .. (w - 1)
      /\ q = w * h + 0 /\ q + w = w * i + 0
  <2> HIDE DEF k
  <2> QED
    BY <1>3, <1>4
<1>6. q \div w = h /\ q % w = 0 /\ (q + w) \div w = i /\ (q + w) % w = 0
  <2> HIDE DEF h, i
  <2>1. q \div w = h /\ q % w = 0
    BY <1>5, DivUnique
  <2> DEFINE z == q + w
  <2>2. z \in Int /\ z = w * i + 0
    BY <1>5
  <2>3. z \div w = i /\ z % w = 0
    <3> HIDE DEF z
    <3> QED
      BY <1>5, <2>2, DivUnique
  <2> QED
    BY <2>1, <2>3
<1>7. h % 2 = 0
  <2> HIDE DEF k
  <2> QED
    BY <1>4
<1> QED
  BY <1>4, <1>6, <1>7

\* One round in numbers: the remainder t after the next bit of a, and the
\* quotient with or without its next bit.
RoundFinds(a, b, q, r, w) ==
  LET t == 2 * r + ((a \div w) % 2)
  IN  /\ t \in Nat /\ 2 * r <= a /\ t <= a /\ (q \div w) % 2 = 0
      /\ t < b => /\ q % w = 0
                 /\ a \div w = (q \div w) * b + t
      /\ t >= b => /\ t - b \in Nat /\ t - b < b
                  /\ q + w \in Nat /\ q + w <= a /\ (q + w) % w = 0
                  /\ a \div w = ((q + w) \div w) * b + (t - b)

\* If the bits above w have been divided, the bit at w is, too: the quotient has
\* its bit exactly where the divisor fits.
LEMMA Round ==
  ASSUME NEW a \in Nat, NEW b \in Nat \ {0}, NEW q \in Nat, NEW r \in Nat,
         NEW w \in Nat \ {0}, r < b, q % (2 * w) = 0,
         a \div (2 * w) = (q \div (2 * w)) * b + r
  PROVE  RoundFinds(a, b, q, r, w)
<1> DEFINE k == q \div (2 * w)
           v == a \div w
           t == 2 * r + (v % 2)
<1>1. /\ k \in Nat /\ q \div w = 2 * k /\ q % w = 0 /\ (q \div w) % 2 = 0
      /\ (q + w) \div w = 2 * k + 1 /\ (q + w) % w = 0
  BY QuotientBit
<1>2. /\ t \in Nat /\ t < 2 * b /\ t <= a /\ 2 * r <= a
      /\ v = (2 * k) * b + t
  <2>1. k \in Nat
    BY <1>1
  <2> QED
    BY <2>1, Shifted
<1>3. ASSUME t >= b
      PROVE  /\ t - b \in Nat /\ t - b < b /\ q + w \in Nat /\ q + w <= a
             /\ v = (2 * k + 1) * b + (t - b)
  <2> DEFINE j == 2 * k + 1
  <2> HIDE DEF t, k
  <2>1. t - b \in Nat /\ t - b < b
    BY <1>2, <1>3
  <2>2. j \in Nat \ {0} /\ (2 * k) * b + b = j * b
    BY <1>1
  <2>3. v \in Int /\ a % w \in 0 .. (w - 1) /\ a = w * v + (a % w)
    BY DivMod
  <2>4. v = j * b + (t - b)
    <3> HIDE DEF j, v
    <3>1. (2 * k) * b \in Int /\ j * b \in Int
      BY <1>1, <2>2
    <3> QED
      BY <1>2, <2>2, <3>1
  <2>5. v >= j
    <3> HIDE DEF j, v
    <3>1. b * j >= j
      BY <2>2, ProductGrows
    <3> QED
      BY <2>1, <2>2, <2>3, <2>4, <3>1
  <2>6. q + w = w * j
    <3> DEFINE x == q + w
    <3>1. x \in Int /\ x \div w = j /\ x % w = 0
      BY <1>1
    <3>2. x = w * j
      <4> HIDE DEF x, j
      <4>1. x = w * (x \div w) + (x % w)
        BY <3>1, DivMod
      <4> QED
        BY <2>2, <3>1, <4>1
    <3> QED
      BY <3>2
  <2>7. q + w <= a
    <3> HIDE DEF j, v
    <3>1. w * v >= w * j
      BY <2>2, <2>3, <2>5
    <3> QED
      BY <2>2, <2>3, <2>6, <3>1
  <2> QED
    BY <2>1, <2>4, <2>7
<1> HIDE DEF k, v, t
<1>4. /\ t < b => v = (q \div w) * b + t
      /\ t >= b => v = ((q + w) \div w) * b + (t - b)
  BY <1>1, <1>2, <1>3
<1> QED
  BY <1>1, <1>2, <1>3, <1>4 DEF v, t, RoundFinds

\* There is a least number in a set.
LEMMA Least ==
  ASSUME NEW T, T \subseteq Nat, T # {}
  PROVE  \E x \in T : \A y \in T : x <= y
<1>1. PICK x \in T : \A y \in T : <<y, x>> \notin OpToRel(<, Nat)
  BY WFMin, NatLessThanWellFounded, Zenon
<1>2. \A y \in T : ~(y < x)
  BY <1>1, Zenon DEF OpToRel
<1> QED
  BY <1>2

\* Induction up to a bound, on the set of the numbers of which something holds.
LEMMA Induction ==
  ASSUME NEW N \in Nat, NEW T, 0 \in T,
         \A n \in 0 .. (N - 1) : n \in T => n + 1 \in T
  PROVE  \A n \in 0 .. N : n \in T
<1> DEFINE U == {n \in 0 .. N : n \notin T}
<1>1. ASSUME U # {} PROVE FALSE
  <2>1. PICK x \in U : \A y \in U : x <= y
    <3>1. U \subseteq Nat
      OBVIOUS
    <3> HIDE DEF U
    <3> QED
      BY <1>1, <3>1, Least
  <2>2. x - 1 \in 0 .. (N - 1) /\ x - 1 \notin U /\ (x - 1) + 1 = x
    BY <2>1
  <2> QED
    BY <2>1, <2>2
<1> QED
  BY <1>1

\* The values of f start with c, and each is what G gives for the one before.
Iterates(f, N, S, c, G) ==
  /\ f \in [0 .. N -> S]
  /\ f[0] = c
  /\ \A n \in 1 .. N : f[n] = G[<<n, f[n - 1]>>]

\* A function may be defined by its value at 0 and a step G from one value to the
\* next.
LEMMA Recursion ==
  ASSUME NEW N \in Nat, NEW S, NEW c \in S, NEW G \in [(1 .. N) \X S -> S]
  PROVE  \E f : Iterates(f, N, S, c, G)
<1> DEFINE Good(k, f) == f[0] = c /\ \A n \in 1 .. k : f[n] = G[<<n, f[n - 1]>>]
           T == {k \in 0 .. N : \E f \in [0 .. k -> S] : Good(k, f)}
<1>1. 0 \in T
  <2> DEFINE g == [n \in 0 .. 0 |-> c]
  <2>1. g \in [0 .. 0 -> S] /\ Good(0, g) /\ 0 \in 0 .. N
    OBVIOUS
  <2> HIDE DEF g, Good
  <2> QED
    BY <2>1
<1>2. ASSUME NEW k \in 0 .. (N - 1), k \in T PROVE k + 1 \in T
  <2>1. PICK f \in [0 .. k -> S] : Good(k, f)
    BY <1>2
  <2> DEFINE v == G[<<k + 1, f[k]>>]
             g == [n \in 0 .. (k + 1) |-> IF n = k + 1 THEN v ELSE f[n]]
  <2>2. v \in S
    BY <2>1
  <2>3. g \in [0 .. (k + 1) -> S]
    <3> HIDE DEF v
    <3> QED
      BY <2>1, <2>2
  <2>4. /\ k + 1 \in 0 .. N /\ g[k + 1] = v
        /\ \A n \in 0 .. k : g[n] = f[n]
    <3> HIDE DEF v
    <3> QED
      BY <1>2
  <2>5. Good(k + 1, g)
    <3> HIDE DEF g
    <3>1. \A n \in 1 .. (k + 1) : n = k + 1 \/ n \in 1 .. k
      BY <1>2
    <3>2. \A n \in 1 .. k : n - 1 \in 0 .. k /\ n \in 0 .. k
      BY <1>2
    <3>3. g[0] = c
      BY <1>2, <2>1, <2>4
    <3>4. g[k + 1] = G[<<k + 1, g[(k + 1) - 1]>>]
      BY <1>2, <2>4, (k + 1) - 1 = k, k \in 0 .. k
    <3>5. \A n \in 1 .. k : g[n] = G[<<n, g[n - 1]>>]
      BY <2>1, <2>4, <3>2
    <3> QED
      BY <3>1, <3>3, <3>4, <3>5
  <2> QED
    BY <2>3, <2>4, <2>5
<1>3. N \in T
  <2>1. N \in 0 .. N
    OBVIOUS
  <2> HIDE DEF T
  <2> QED
    BY <1>1, <1>2, <2>1, Induction
<1> QED
  BY <1>3 DEF Iterates
=============================================================================
