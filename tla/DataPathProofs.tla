--------------------------- MODULE DataPathProofs ---------------------------
(***************************************************************************)
(* The data path of both cores, proved for every width: what the           *)
(* instructions compute, that both cores compute the same, and that their  *)
(* data memories are one memory of bytes.                                  *)
(***************************************************************************)
EXTENDS Arithmetic, DataMemory, RiscvLemmas, NumberLemmas

-----------------------------------------------------------------------------
(* Powers of two, and the bits of a number.                                *)

\* The sizes are powers of two, the first of them 1.
LEMMA Weights ==
  /\ DivBits \in Nat \ {0} /\ Weight[0] = 1 /\ Weight[DivBits] = Modulus
  /\ \A n \in 0 .. DivBits : Weight[n] \in Nat \ {0}
  /\ \A n \in 0 .. (DivBits - 1) : Weight[n + 1] = 2 * Weight[n]
BY WeightAssumption

\* Powers of two are multiplied by adding their exponents.
LEMMA WeightSum ==
  ASSUME NEW m \in 0 .. DivBits, NEW n \in 0 .. DivBits, m + n <= DivBits
  PROVE  Weight[m + n] = Weight[m] * Weight[n]
<1> DEFINE N == DivBits - m
           T == {k \in 0 .. N : Weight[m + k] = Weight[m] * Weight[k]}
<1>1. DivBits \in Nat /\ N \in Nat /\ m \in Nat /\ n \in 0 .. N
  BY Weights
<1>2. 0 \in T
  <2>1. m + 0 = m /\ Weight[m] * 1 = Weight[m]
    BY Weights, <1>1
  <2> QED
    BY <1>1, <2>1, Weights
<1>3. ASSUME NEW k \in 0 .. (N - 1), k \in T PROVE k + 1 \in T
  <2>1. /\ m + k \in 0 .. (DivBits - 1) /\ k \in 0 .. (DivBits - 1)
        /\ m + (k + 1) = (m + k) + 1 /\ k + 1 \in 0 .. N
    BY <1>1
  <2>2. Weight[(m + k) + 1] = 2 * Weight[m + k] /\ Weight[k + 1] = 2 * Weight[k]
    BY <2>1, Weights
  <2>3. Weight[m + k] = Weight[m] * Weight[k]
    BY <1>3
  <2>4. ASSUME NEW a \in Nat, NEW b \in Nat PROVE 2 * (a * b) = a * (2 * b)
    OBVIOUS
  <2>5. Weight[m] \in Nat /\ Weight[k] \in Nat
    BY <2>1, Weights
  <2>6. 2 * (Weight[m] * Weight[k]) = Weight[m] * (2 * Weight[k])
    BY <2>4, <2>5
  <2> QED
    BY <2>1, <2>2, <2>3, <2>6
<1>4. n \in T
  <2> HIDE DEF T, N
  <2> QED
    BY <1>1, <1>2, <1>3, Induction
<1> QED
  BY <1>4

\* A larger exponent gives a larger power.
LEMMA WeightMonotone ==
  ASSUME NEW m \in 0 .. DivBits, NEW n \in 0 .. DivBits, m <= n
  PROVE  /\ Weight[n] = Weight[m] * Weight[n - m] /\ Weight[m] <= Weight[n]
         /\ m < n => 2 * Weight[m] <= Weight[n]
                     /\ \E h \in Nat \ {0} : Weight[n] = Weight[m] * (2 * h)
<1> DEFINE k == n - m
<1>1. k \in 0 .. DivBits /\ m + k = n /\ k \in Nat
  BY Weights
<1>2. Weight[n] = Weight[m] * Weight[k]
  <2> HIDE DEF k
  <2> QED
    BY <1>1, WeightSum
<1>3. Weight[m] \in Nat \ {0} /\ Weight[k] \in Nat \ {0}
  <2> HIDE DEF k
  <2> QED
    BY <1>1, Weights
<1>4. ASSUME NEW a \in Nat \ {0}, NEW b \in Nat \ {0} PROVE a <= a * b
  BY <1>4, ProductGrows
<1>5. ASSUME m < n
      PROVE  \E h \in Nat \ {0} : Weight[k] = 2 * h
  <2>1. k - 1 \in 0 .. (DivBits - 1) /\ (k - 1) + 1 = k /\ k - 1 \in 0 .. DivBits
    BY <1>1, <1>5, Weights
  <2>2. Weight[k] = 2 * Weight[k - 1] /\ Weight[k - 1] \in Nat \ {0}
    <3> HIDE DEF k
    <3> QED
      BY <2>1, Weights
  <2> QED
    BY <2>2
<1>6. ASSUME NEW a \in Nat \ {0}, NEW h \in Nat \ {0}
      PROVE  2 * a <= a * (2 * h)
  <2>1. (2 * a) * h = a * (2 * h) /\ 2 * a \in Nat \ {0}
    OBVIOUS
  <2> QED
    BY <1>4, <2>1
<1> HIDE DEF k
<1>7. Weight[m] <= Weight[n]
  BY <1>2, <1>3, <1>4
<1>8. ASSUME m < n
      PROVE  /\ 2 * Weight[m] <= Weight[n]
             /\ \E h \in Nat \ {0} : Weight[n] = Weight[m] * (2 * h)
  <2>1. PICK h \in Nat \ {0} : Weight[k] = 2 * h
    BY <1>5, <1>8
  <2>2. 2 * Weight[m] <= Weight[m] * (2 * h)
    BY <1>3, <1>6
  <2> QED
    BY <1>2, <2>1, <2>2
<1> QED
  BY <1>2, <1>7, <1>8 DEF k

-----------------------------------------------------------------------------
(* Quotients of quotients, of multiples and of sums.                       *)

\* Dividing twice is dividing by the product.
LEMMA DivDiv ==
  ASSUME NEW x \in Int, NEW a \in Nat \ {0}, NEW b \in Nat \ {0}
  PROVE  (x \div a) \div b = x \div (a * b)
<1> DEFINE q == x \div a
           r == x % a
           p == q \div b
           s == q % b
           c == a * b
           e == a * s + r
<1>1. q \in Int /\ r \in 0 .. (a - 1) /\ x = a * q + r
  BY DivMod
<1>2. p \in Int /\ s \in 0 .. (b - 1) /\ q = b * p + s
  <2> HIDE DEF q
  <2> QED
    BY <1>1, DivMod
<1> HIDE DEF q, r, p, s
<1>3. c \in Nat \ {0} /\ e \in 0 .. (c - 1)
  <2>1. ASSUME NEW y \in 0 .. (b - 1) PROVE 0 <= a * y /\ a * y <= a * b - a
    <3>1. a * y <= a * (b - 1)
      OBVIOUS
    <3> QED
      BY <3>1
  <2>2. 0 <= a * s /\ a * s <= a * b - a
    BY <1>2, <2>1
  <2> QED
    BY <1>1, <1>2, <2>2
<1>4. x = c * p + e
  <2>1. a * (b * p + s) = c * p + a * s
    BY <1>2
  <2> QED
    BY <1>1, <1>2, <2>1
<1>5. x \div c = p
  <2> HIDE DEF c, e
  <2> QED
    BY <1>2, <1>3, <1>4, DivUnique
<1> QED
  BY <1>5 DEF p, q

\* A factor of both is cancelled.
LEMMA DivCommon ==
  ASSUME NEW x \in Int, NEW a \in Nat \ {0}, NEW b \in Nat \ {0}
  PROVE  (x * a) \div (a * b) = x \div b
<1> DEFINE q == x \div b
           r == x % b
           c == a * b
           y == x * a
           e == r * a
<1>1. q \in Int /\ r \in 0 .. (b - 1) /\ x = b * q + r
  BY DivMod
<1> HIDE DEF q, r
<1>2. c \in Nat \ {0} /\ y \in Int /\ e \in 0 .. (c - 1)
  <2>1. ASSUME NEW z \in 0 .. (b - 1) PROVE 0 <= z * a /\ z * a <= a * b - a
    <3>1. z * a <= (b - 1) * a
      OBVIOUS
    <3> QED
      BY <3>1
  <2>2. 0 <= r * a /\ r * a <= a * b - a
    BY <1>1, <2>1
  <2> QED
    BY <1>1, <2>2
<1>3. y = c * q + e
  BY <1>1
<1>4. y \div c = q
  <2> HIDE DEF c, e, y
  <2> QED
    BY <1>1, <1>2, <1>3, DivUnique
<1> QED
  BY <1>4 DEF q

\* Multiples of the divisor come out of the quotient.
LEMMA DivAdd ==
  ASSUME NEW x \in Int, NEW b \in Nat \ {0}, NEW k \in Int
  PROVE  (x + b * k) \div b = x \div b + k
<1> DEFINE q == x \div b
           r == x % b
           y == x + b * k
           p == q + k
<1>1. q \in Int /\ r \in 0 .. (b - 1) /\ x = b * q + r
  BY DivMod
<1>2. y \in Int /\ p \in Int /\ y = b * p + r
  <2> HIDE DEF q, r
  <2> QED
    BY <1>1
<1>3. y \div b = p
  <2> HIDE DEF p, r, y
  <2> QED
    BY <1>1, <1>2, DivUnique
<1> QED
  BY <1>3

\* A quotient is between those of the bounds of its dividend.
LEMMA DivBounds ==
  ASSUME NEW x \in Int, NEW b \in Nat \ {0}, NEW lo \in Int, NEW hi \in Int,
         b * lo <= x, x < b * hi
  PROVE  lo <= x \div b /\ x \div b < hi
<1> DEFINE q == x \div b
<1>1. q \in Int /\ x % b \in 0 .. (b - 1) /\ x = b * q + (x % b)
  BY DivMod
<1> HIDE DEF q
<1>2. ASSUME q < lo PROVE FALSE
  <2>1. b * (lo - q) >= b
    BY <1>1, <1>2, ProductGrows
  <2>2. b * (lo - q) = b * lo - b * q
    BY <1>1
  <2> QED
    BY <1>1, <2>1, <2>2
<1>3. ASSUME q >= hi PROVE FALSE
  <2>1. b * (q - hi) >= 0
    BY <1>1, <1>3
  <2>2. b * (q - hi) = b * q - b * hi
    BY <1>1
  <2> QED
    BY <1>1, <2>1, <2>2
<1> QED
  BY <1>1, <1>2, <1>3 DEF q

\* A number below the divisor is its own remainder.
LEMMA DivSmall ==
  ASSUME NEW b \in Nat \ {0}, NEW y \in 0 .. (b - 1)
  PROVE  y \div b = 0 /\ y % b = y
<1>1. y \in Int /\ 0 \in Int /\ y = b * 0 + y
  OBVIOUS
<1> QED
  BY <1>1, DivUnique

\* Even numbers more or less do not change whether a number is odd.
LEMMA Parity ==
  ASSUME NEW x \in Int, NEW k \in Int
  PROVE  (x + 2 * k) % 2 = x % 2 /\ (2 * k) % 2 = 0 /\ (2 * k + 1) % 2 = 1
OBVIOUS

-----------------------------------------------------------------------------
(* Words, and their signed values.                                         *)

\* A word has a number of bits that is a multiple of 4, and their count fits in
\* ShiftBits bits.
LEMMA Widths ==
  /\ Width = DivBits /\ Width \in Nat /\ Width >= 4 /\ ShiftBits \in 2 .. Width
  /\ Weight[ShiftBits] = Width
  /\ ByteBits \in 1 .. Width /\ HalfBits = 2 * ByteBits /\ Width = 4 * ByteBits
<1>1. /\ ShiftBits \in 2 .. DivBits /\ Weight[ShiftBits] = DivBits
      /\ DivBits \in Nat \ {0}
  BY WidthAssumption, Weights DEF Width
<1>2. 0 \in 0 .. (DivBits - 1) /\ 1 \in 0 .. (DivBits - 1) /\ 2 \in 0 .. DivBits
  BY <1>1
<1>3. Weight[0 + 1] = 2 * Weight[0] /\ Weight[1 + 1] = 2 * Weight[1]
  BY <1>2, Weights
<1>4. Weight[2] = 4
  BY <1>3, Weights, 0 + 1 = 1, 1 + 1 = 2
<1>5. ShiftBits \in 0 .. DivBits /\ 2 <= ShiftBits /\ ShiftBits - 2 \in 0 .. DivBits
  BY <1>1
<1>6. Weight[ShiftBits] = 4 * Weight[ShiftBits - 2]
  BY <1>2, <1>4, <1>5, WeightMonotone
<1>7. PICK k \in Nat \ {0} : Width = 4 * k
  BY <1>1, <1>5, <1>6, Weights DEF Width
<1>8. ByteBits = k /\ HalfBits = 2 * k
  BY <1>7 DEF ByteBits, HalfBits
<1> QED
  BY <1>1, <1>7, <1>8 DEF Width

\* The least negative word is the power of two of the sign bit, half of the
\* modulus.
LEMMA Sign ==
  /\ Modulus \in Nat \ {0} /\ Modulus >= 8 /\ MinInt \in Nat \ {0}
  /\ MinInt = Weight[Width - 1] /\ Modulus = 2 * MinInt
<1>1. Width - 1 \in 0 .. (DivBits - 1) /\ (Width - 1) + 1 = DivBits
  BY Widths
<1>2. Modulus = 2 * Weight[Width - 1] /\ Weight[Width - 1] \in Nat \ {0}
  BY <1>1, Weights
<1> QED
  BY <1>2, SizesAssumption DEF MinInt

\* The signed value of a word is the word or the modulus below it, and lies
\* around zero.
LEMMA SignedValue ==
  ASSUME NEW a \in Word
  PROVE  /\ Signed(a) \in (-MinInt) .. (MinInt - 1)
         /\ IsNeg(a) <=> Signed(a) < 0
         /\ IsNeg(a) => Signed(a) = a - Modulus /\ Mag(a) = Modulus - a
                        /\ Mag(a) \in 1 .. MinInt
         /\ ~IsNeg(a) => Signed(a) = a /\ Mag(a) = a /\ Mag(a) \in 0 .. (MinInt - 1)
         /\ Wrap(Signed(a)) = a
<1>1. a \in 0 .. (2 * MinInt - 1)
  BY Sign DEF Word
<1>2. IsNeg(a) <=> a >= MinInt
  BY <1>1, Sign DEF IsNeg
<1>3. a % Modulus = a
  BY <1>1, Sign
<1>4. (a - Modulus) % Modulus = a
  BY <1>1, <1>3, Sign, ModTurn
<1>5. ASSUME IsNeg(a) PROVE Mag(a) = Modulus - a
  <2>1. Modulus - a \in 0 .. (Modulus - 1)
    BY <1>1, <1>2, <1>5, Sign
  <2>2. (Modulus - a) % Modulus = Modulus - a
    BY <2>1, Sign
  <2> QED
    BY <1>5, <2>2 DEF Mag, Neg, Wrap
<1>6. ASSUME IsNeg(a)
      PROVE  /\ Signed(a) = a - Modulus /\ Mag(a) = Modulus - a
             /\ Wrap(Signed(a)) = a
  BY <1>4, <1>5, <1>6 DEF Signed, Wrap
<1>7. ASSUME ~IsNeg(a)
      PROVE  Signed(a) = a /\ Mag(a) = a /\ Wrap(Signed(a)) = a
  BY <1>3, <1>7 DEF Signed, Mag, Wrap
<1> QED
  BY <1>1, <1>2, <1>6, <1>7, Sign

\* A number around zero is the signed value of its word.
LEMMA SignedOfWrap ==
  ASSUME NEW z \in (-MinInt) .. (MinInt - 1)
  PROVE  /\ Signed(Wrap(z)) = z /\ Wrap(z) \in Word
         /\ z >= 0 => Wrap(z) = z
         /\ z < 0 => Wrap(z) = z + Modulus
<1>1. CASE z >= 0
  <2>1. Wrap(z) = z
    BY <1>1, Sign DEF Wrap
  <2> QED
    BY <1>1, <2>1, Sign DEF Signed, IsNeg, Word
<1>2. CASE z < 0
  <2> DEFINE y == z + Modulus
  <2>1. y \in MinInt .. (Modulus - 1) /\ y - Modulus = z
    BY <1>2, Sign
  <2>2. y % Modulus = y
    <3> HIDE DEF y
    <3> QED
      BY <2>1, Sign
  <2>3. (y - Modulus) % Modulus = y % Modulus
    BY <2>1, Sign, ModTurn
  <2>4. Wrap(z) = y
    BY <2>1, <2>2, <2>3 DEF Wrap
  <2> QED
    BY <1>2, <2>1, <2>4, Sign DEF Signed, IsNeg, Word
<1> QED
  BY <1>1, <1>2

\* The signed value of the word of any number differs from it by a multiple of
\* the modulus.
LEMMA SignedModulo ==
  ASSUME NEW z \in Int
  PROVE  \E k \in Int : Signed(Wrap(z)) = z + Modulus * k
<1> DEFINE q == z \div Modulus
           r == z % Modulus
<1>1. q \in Int /\ r \in 0 .. (Modulus - 1) /\ z = Modulus * q + r
  BY Sign, DivMod
<1> HIDE DEF q, r
<1>2. Wrap(z) = r
  BY DEF Wrap, r
<1>3. CASE IsNeg(r)
  <2>1. Signed(r) = z + Modulus * (-q - 1)
    BY <1>1, <1>3, Sign DEF Signed
  <2> QED
    BY <1>1, <1>2, <2>1
<1>4. CASE ~IsNeg(r)
  <2>1. Signed(r) = z + Modulus * (-q)
    BY <1>1, <1>4, Sign DEF Signed
  <2> QED
    BY <1>1, <1>2, <2>1
<1> QED
  BY <1>3, <1>4

\* The words of a sum, a difference and a product do not depend on whether the
\* operands are read as signed.
LEMMA WordOfSigned ==
  ASSUME NEW a \in Word, NEW b \in Word
  PROVE  /\ Wrap(Signed(a) + Signed(b)) = Wrap(a + b)
         /\ Wrap(Signed(a) - Signed(b)) = Wrap(a - b)
         /\ Wrap(Signed(a) * Signed(b)) = Wrap(a * b)
         /\ Wrap(Signed(a) * b) = Wrap(a * b)
<1>1. a \in Int /\ b \in Int /\ Modulus \in Nat \ {0}
  BY Sign DEF Word
<1>2. PICK k \in Int : Signed(a) = a + Modulus * k
  <2>1. \A x \in Int : x - Modulus = x + Modulus * (-1) /\ x = x + Modulus * 0
    BY <1>1
  <2> QED
    BY <1>1, <2>1, -1 \in Int, 0 \in Int DEF Signed
<1>3. PICK l \in Int : Signed(b) = b + Modulus * l
  <2>1. \A x \in Int : x - Modulus = x + Modulus * (-1) /\ x = x + Modulus * 0
    BY <1>1
  <2> QED
    BY <1>1, <2>1, -1 \in Int, 0 \in Int DEF Signed
<1>4. ASSUME NEW x \in Int, NEW y \in Int, NEW z \in Int, x = y + Modulus * z
      PROVE  Wrap(x) = Wrap(y)
  BY <1>1, <1>4, ModShift DEF Wrap
<1>5. ASSUME NEW M \in Int
      PROVE  /\ (a + M * k) + (b + M * l) = (a + b) + M * (k + l)
             /\ (a + M * k) - (b + M * l) = (a - b) + M * (k - l)
             /\ (a + M * k) * (b + M * l) = a * b + M * (a * l + k * b + M * k * l)
  BY <1>1
<1>6. Wrap(Signed(a) + Signed(b)) = Wrap(a + b)
  <2>1. Signed(a) + Signed(b) = (a + b) + Modulus * (k + l)
    BY <1>1, <1>2, <1>3, <1>5
  <2>2. Signed(a) + Signed(b) \in Int /\ a + b \in Int /\ k + l \in Int
    BY <1>1, <1>2, <1>3
  <2> QED
    BY <1>4, <2>1, <2>2
<1>7. Wrap(Signed(a) - Signed(b)) = Wrap(a - b)
  <2>1. Signed(a) - Signed(b) = (a - b) + Modulus * (k - l)
    BY <1>1, <1>2, <1>3, <1>5
  <2>2. Signed(a) - Signed(b) \in Int /\ a - b \in Int /\ k - l \in Int
    BY <1>1, <1>2, <1>3
  <2> QED
    BY <1>4, <2>1, <2>2
<1>8. Wrap(Signed(a) * Signed(b)) = Wrap(a * b)
  <2> DEFINE m == a * l + k * b + Modulus * k * l
  <2>1. Signed(a) * Signed(b) = a * b + Modulus * m
    BY <1>1, <1>2, <1>3, <1>5
  <2>2. Signed(a) * Signed(b) \in Int /\ a * b \in Int /\ m \in Int
    BY <1>1, <1>2, <1>3
  <2> HIDE DEF m
  <2> QED
    BY <1>4, <2>1, <2>2
<1>9. Wrap(Signed(a) * b) = Wrap(a * b)
  <2> DEFINE m == k * b
  <2>1. ASSUME NEW M \in Int PROVE (a + M * k) * b = a * b + M * (k * b)
    BY <1>1
  <2>2. Signed(a) * b = a * b + Modulus * m
    BY <1>1, <1>2, <2>1
  <2>3. Signed(a) * b \in Int /\ a * b \in Int /\ m \in Int
    BY <1>1, <1>2
  <2> HIDE DEF m
  <2> QED
    BY <1>4, <2>2, <2>3
<1> QED
  BY <1>6, <1>7, <1>8, <1>9

-----------------------------------------------------------------------------
(* The division loop of the scalar core.                                   *)

\* The states of a division of a by b.
Rounds(a, b) ==
  {d \in [state : 0 .. DivBits, dataA : {a}, dataB : {b},
          quotient : Word, remainder : Word] : Invariant(d)}

\* A round keeps the invariant and counts down by one.
LEMMA ScalarRound ==
  ASSUME NEW a \in Word, NEW b \in Word \ {0}, NEW d \in Rounds(a, b),
         d.state # 0
  PROVE  OneBit(d) \in Rounds(a, b) /\ OneBit(d).state = d.state - 1
<1> DEFINE n == d.state - 1
           w == Weight[n]
           q == d.quotient
           r == d.remainder
           t == 2 * r + ((a \div w) % 2)
<1>1. /\ d \in [state : 0 .. DivBits, dataA : {a}, dataB : {b},
                quotient : Word, remainder : Word]
      /\ Invariant(d) /\ d.dataA = a /\ d.dataB = b /\ d.state \in 0 .. DivBits
      /\ q \in Word /\ r \in Word
  BY DEF Rounds
<1>2. n \in 0 .. (DivBits - 1) /\ n + 1 = d.state /\ n \in 0 .. DivBits
  BY <1>1, Weights
<1>3. w \in Nat \ {0} /\ Weight[d.state] = 2 * w
  <2> HIDE DEF n
  <2> QED
    BY <1>2, Weights
<1>4. q % (2 * w) = 0 /\ a \div (2 * w) = (q \div (2 * w)) * b + r /\ r < b
  BY <1>1, <1>3 DEF Invariant
<1>5. /\ a \in Nat /\ b \in Nat \ {0} /\ q \in Nat /\ r \in Nat
      /\ a < Modulus /\ b < Modulus /\ Modulus \in Nat \ {0}
  BY <1>1, Sign DEF Word
<1>6. /\ t \in Nat /\ 2 * r <= a /\ t <= a /\ (q \div w) % 2 = 0
      /\ t < b => /\ q % w = 0 /\ a \div w = (q \div w) * b + t
      /\ t >= b => /\ t - b \in Nat /\ t - b < b
                  /\ q + w \in Nat /\ q + w <= a /\ (q + w) % w = 0
                  /\ a \div w = ((q + w) \div w) * b + (t - b)
  <2>1. RoundFinds(a, b, q, r, w)
    <3> HIDE DEF q, r, w
    <3> QED
      BY <1>3, <1>4, <1>5, Round
  <2> QED
    BY <2>1 DEF RoundFinds
<1>7. ShiftIn(r, BitOf(a, n)) = t /\ SetBit(q, n) = q + w
  <2>1. Wrap(2 * r) = 2 * r
    <3> DEFINE x == 2 * r
    <3>1. x \in 0 .. (Modulus - 1)
      BY <1>5, <1>6
    <3> HIDE DEF x
    <3>2. Wrap(x) = x
      BY <3>1, <1>5 DEF Wrap
    <3> QED
      BY <3>2 DEF x
  <2> QED
    BY <1>6, <2>1 DEF ShiftIn, SetBit, BitOf
<1>8. OneBit(d) = IF t >= b
                  THEN [d EXCEPT !.state = n, !.remainder = t - b, !.quotient = q + w]
                  ELSE [d EXCEPT !.state = n, !.remainder = t]
  BY <1>1, <1>7 DEF OneBit
<1>9. ASSUME NEW u \in Word, NEW p \in Word, NEW e,
             e = [state |-> n, dataA |-> a, dataB |-> b, quotient |-> p,
                  remainder |-> u],
             u < b, p % w = 0, a \div w = (p \div w) * b + u
      PROVE  e \in Rounds(a, b) /\ e.state = n
  <2>1. /\ e \in [state : 0 .. DivBits, dataA : {a}, dataB : {b},
                  quotient : Word, remainder : Word]
        /\ e.state = n /\ e.dataA = a /\ e.dataB = b /\ e.quotient = p
        /\ e.remainder = u
    <3> HIDE DEF n
    <3> QED
      BY <1>2, <1>9
  <2>2. Invariant(e)
    BY <1>9, <2>1 DEF Invariant
  <2> QED
    BY <2>1, <2>2 DEF Rounds
<1>10. CASE t >= b
  <2> DEFINE u == t - b
             p == q + w
             e == OneBit(d)
  <2>1. u \in Word /\ p \in Word
    BY <1>5, <1>6, <1>10 DEF Word
  <2>2. e = [state |-> n, dataA |-> a, dataB |-> b, quotient |-> p, remainder |-> u]
    <3>1. e = [d EXCEPT !.state = n, !.remainder = u, !.quotient = p]
      BY <1>8, <1>10
    <3> HIDE DEF e, n, u, p
    <3> QED
      BY <1>1, <3>1
  <2>3. u < b /\ p % w = 0 /\ a \div w = (p \div w) * b + u
    BY <1>6, <1>10
  <2>4. e \in Rounds(a, b) /\ e.state = n
    <3> HIDE DEF e, n, u, p, w
    <3> QED
      BY <1>9, <2>1, <2>2, <2>3
  <2> QED
    BY <2>4
<1>11. CASE t < b
  <2> DEFINE e == OneBit(d)
  <2>1. t \in Word
    BY <1>5, <1>6 DEF Word
  <2>2. e = [state |-> n, dataA |-> a, dataB |-> b, quotient |-> q, remainder |-> t]
    <3>1. e = [d EXCEPT !.state = n, !.remainder = t]
      BY <1>5, <1>6, <1>8, <1>11
    <3> HIDE DEF e, n, t
    <3> QED
      BY <1>1, <3>1
  <2>3. q % w = 0 /\ a \div w = (q \div w) * b + t
    BY <1>6, <1>11
  <2>4. e \in Rounds(a, b) /\ e.state = n
    <3> HIDE DEF e, n, t, q, w
    <3> QED
      BY <1>1, <1>9, <1>11, <2>1, <2>2, <2>3
  <2> QED
    BY <2>4
<1> QED
  BY <1>5, <1>6, <1>10, <1>11

\* The loop of the scalar core finds the quotient and the remainder.
LEMMA DividedIsDivision ==
  ASSUME NEW a \in Word, NEW b \in Word \ {0}
  PROVE  /\ Divided(a, b).quotient = a \div b
         /\ Divided(a, b).remainder = a % b
<1> DEFINE c == [state |-> DivBits, dataA |-> a, dataB |-> b,
                 quotient |-> 0, remainder |-> 0]
           S == Rounds(a, b)
           Solves(g) == g = [n \in 0 .. DivBits |-> IF n = 0 THEN c
                                                    ELSE OneBit(g[n - 1])]
<1>0. DivBits \in Nat \ {0} /\ Modulus \in Nat \ {0} /\ Weight[DivBits] = Modulus
      /\ a \in 0 .. (Modulus - 1) /\ b \in 1 .. (Modulus - 1) /\ 0 \in Word
  BY Weights, Sign DEF Word
<1>1. c \in S /\ c.state = DivBits
  <2>1. c \in [state : 0 .. DivBits, dataA : {a}, dataB : {b},
               quotient : Word, remainder : Word]
    BY <1>0
  <2>2. a \div Modulus = 0 /\ 0 \div Modulus = 0 /\ 0 % Modulus = 0
    <3>1. \A x \in 0 .. (Modulus - 1) : x \div Modulus = 0 /\ x % Modulus = x
      BY <1>0, DivSmall
    <3> QED
      BY <1>0, <3>1
  <2>3. Invariant(c)
    BY <1>0, <2>2 DEF Invariant
  <2> QED
    BY <2>1, <2>3 DEF Rounds
<1>2. ASSUME NEW d \in S, d.state # 0
      PROVE  OneBit(d) \in S /\ OneBit(d).state = d.state - 1
  BY <1>2, ScalarRound
<1>3. ASSUME NEW d \in S
      PROVE  d.state \in 0 .. DivBits
  BY DEF Rounds
<1> HIDE DEF c, S
<1>4. \E g : Solves(g)
  <2> DEFINE G == [p \in (1 .. DivBits) \X S |->
                     IF p[2].state = 0 THEN p[2] ELSE OneBit(p[2])]
  <2>1. G \in [(1 .. DivBits) \X S -> S]
    BY <1>2
  <2>2. PICK f : Iterates(f, DivBits, S, c, G)
    <3>1. DivBits \in Nat /\ c \in S
      BY <1>0, <1>1
    <3> HIDE DEF G
    <3> QED
      BY <2>1, <3>1, Recursion
  <2>3. ASSUME NEW n \in 1 .. DivBits
        PROVE  f[n - 1] \in S /\ f[n] = IF f[n - 1].state = 0 THEN f[n - 1]
                                        ELSE OneBit(f[n - 1])
    <3>1. n - 1 \in 0 .. DivBits
      BY <1>0
    <3> QED
      BY <2>2, <3>1 DEF Iterates
  <2> DEFINE T == {n \in 0 .. DivBits : f[n].state = DivBits - n}
  <2>4. \A n \in 0 .. DivBits : n \in T
    <3>1. 0 \in T
      BY <1>0, <1>1, <2>2 DEF Iterates
    <3>2. ASSUME NEW n \in 0 .. (DivBits - 1), n \in T PROVE n + 1 \in T
      <4>1. n + 1 \in 1 .. DivBits /\ (n + 1) - 1 = n /\ n + 1 \in 0 .. DivBits
        BY <1>0
      <4>2. f[n].state = DivBits - n /\ DivBits - n # 0 /\ f[n] \in S
        BY <1>0, <2>3, <3>2, <4>1
      <4>3. f[n + 1] = OneBit(f[n])
        BY <2>3, <4>1, <4>2
      <4>4. f[n + 1].state = (DivBits - n) - 1
        BY <1>2, <4>2, <4>3
      <4>5. (DivBits - n) - 1 = DivBits - (n + 1)
        BY <1>0
      <4> QED
        BY <4>1, <4>4, <4>5
    <3> HIDE DEF T
    <3> QED
      BY <1>0, <3>1, <3>2, Induction
  <2>5. ASSUME NEW n \in 1 .. DivBits PROVE f[n] = OneBit(f[n - 1])
    <3>1. n - 1 \in 0 .. DivBits /\ DivBits - (n - 1) # 0
      BY <1>0
    <3>2. f[n - 1].state # 0
      BY <2>4, <3>1
    <3> QED
      BY <2>3, <3>2
  <2>6. f = [n \in 0 .. DivBits |-> IF n = 0 THEN c ELSE OneBit(f[n - 1])]
    <3>1. \A n \in 0 .. DivBits : n = 0 \/ n \in 1 .. DivBits
      BY <1>0
    <3>2. \A n \in 0 .. DivBits : f[n] = IF n = 0 THEN c ELSE OneBit(f[n - 1])
      BY <2>2, <2>5, <3>1 DEF Iterates
    <3> QED
      BY <2>2, <3>2 DEF Iterates
  <2> QED
    BY <2>6
<1>5. PICK g : Solves(g) /\ Divided(a, b) = g[DivBits]
  <2> DEFINE h == CHOOSE g : Solves(g)
  <2>1. Solves(h)
    BY <1>4
  <2>2. Divided(a, b) = h[DivBits]
    BY DEF Divided, c
  <2> HIDE DEF h, Solves
  <2> QED
    BY <2>1, <2>2
<1>6. /\ g[0] = c
      /\ \A n \in 1 .. DivBits : g[n] = OneBit(g[n - 1])
  <2>1. \A n \in 0 .. DivBits : g[n] = IF n = 0 THEN c ELSE OneBit(g[n - 1])
    BY <1>5
  <2>2. 0 \in 0 .. DivBits /\ \A n \in 1 .. DivBits : n \in 0 .. DivBits /\ n # 0
    BY <1>0
  <2> QED
    BY <2>1, <2>2
<1> HIDE DEF Solves
<1> DEFINE T == {n \in 0 .. DivBits : g[n] \in S /\ g[n].state = DivBits - n}
<1>7. 0 \in T
  BY <1>0, <1>1, <1>6
<1>8. ASSUME NEW n \in 0 .. (DivBits - 1), n \in T PROVE n + 1 \in T
  <2>1. n + 1 \in 1 .. DivBits /\ (n + 1) - 1 = n /\ n + 1 \in 0 .. DivBits
        /\ DivBits - n # 0 /\ (DivBits - n) - 1 = DivBits - (n + 1)
    BY <1>0
  <2>2. g[n + 1] = OneBit(g[n]) /\ g[n] \in S /\ g[n].state = DivBits - n
    BY <1>6, <1>8, <2>1
  <2> QED
    BY <1>2, <2>1, <2>2
<1>9. g[DivBits] \in S /\ g[DivBits].state = 0
  <2>1. DivBits \in T
    <3> HIDE DEF T
    <3> QED
      BY <1>0, <1>7, <1>8, Induction
  <2> QED
    BY <1>0, <2>1
<1> DEFINE d == Divided(a, b)
           q == d.quotient
           r == d.remainder
<1>10. /\ q \in Word /\ r \in Word /\ d.state = 0
       /\ a \div 1 = (q \div 1) * b + r /\ r < b
  BY <1>5, <1>9, Weights DEF S, Rounds, Invariant
<1>11. /\ q \in Int /\ r \in 0 .. (b - 1) /\ a = b * q + r
       /\ a \in Int /\ b \in Nat \ {0}
  <2> HIDE DEF q, r
  <2>1. q \in Nat /\ r \in Nat /\ a \in Nat /\ b \in Nat \ {0}
    BY <1>0, <1>10 DEF Word
  <2>2. a = q * b + r
    BY <1>10, <2>1
  <2> QED
    BY <1>10, <2>1, <2>2
<1>12. a \div b = q /\ a % b = r
  <2> HIDE DEF q, r
  <2> QED
    BY <1>11, DivUnique
<1> QED
  BY <1>12

\* So its divisions are those of mult.
LEMMA DivisionsAgree ==
  ASSUME NEW c \in Funct3, IsDivision(c), NEW a \in Word, NEW b \in Word
  PROVE  core_DIV(c, a, b) = Division(c, a, b)
<1>1. CASE b = 0
  BY <1>1 DEF core_DIV, Division
<1>2. CASE b # 0
  <2>1. /\ Mag(a) \in Word /\ Mag(b) \in Word \ {0} /\ b \in Word \ {0}
    BY <1>2, Magnitude
  <2>2. /\ Divided(a, b).quotient = a \div b
        /\ Divided(a, b).remainder = a % b
    BY <2>1, DividedIsDivision
  <2>3. /\ Divided(Mag(a), Mag(b)).quotient = Mag(a) \div Mag(b)
        /\ Divided(Mag(a), Mag(b)).remainder = Mag(a) % Mag(b)
    BY <2>1, DividedIsDivision
  <2>4. M_DIV # M_DIVU /\ M_DIV # M_REM /\ M_DIVU # M_REM
    BY DEF M_DIV, M_DIVU, M_REM
  <2>5. CASE c = M_DIV
    BY <1>2, <2>3, <2>4, <2>5 DEF core_DIV, Division, IsSignedDivision
  <2>6. CASE c = M_REM
    BY <1>2, <2>3, <2>4, <2>6 DEF core_DIV, Division, IsSignedDivision
  <2>7. CASE ~IsSignedDivision(c)
    BY <1>2, <2>2, <2>7 DEF core_DIV, Division, IsSignedDivision
  <2> QED
    BY <2>5, <2>6, <2>7 DEF IsSignedDivision
<1> QED
  BY <1>1, <1>2

-----------------------------------------------------------------------------
(* Both cores compute the same.                                            *)

\* The inputs are an instruction that exists and two words.
InputsOK ==
  /\ format \in {"OPI", "OP", "M", "BR"} /\ f3 \in Funct3 /\ f7 \in Funct7
  /\ Legal(format, f3, f7)
  /\ lhs \in Word /\ rhs \in Word

\* The inputs drive no other instruction than these.
LEMMA InputsInvariant == ASpec => []InputsOK
<1>1. AInit => InputsOK
  BY ParametersInWord DEF AInit, InputsOK, Legal, Funct3, Funct7
<1>2. InputsOK /\ [ANext]_inputs => InputsOK'
  <2> SUFFICES ASSUME InputsOK, [ANext]_inputs PROVE InputsOK'
    OBVIOUS
  <2>1. CASE DriveInstruction
    BY <2>1 DEF DriveInstruction, InputsOK
  <2>2. CASE DriveLhs
    BY <2>2, OperandsAssumption DEF DriveLhs, InputsOK
  <2>3. CASE DriveRhs
    BY <2>3, OperandsAssumption DEF DriveRhs, InputsOK
  <2>4. CASE UNCHANGED inputs
    BY <2>4 DEF inputs, InputsOK
  <2> QED
    BY <2>1, <2>2, <2>3, <2>4 DEF ANext
<1> QED
  BY <1>1, <1>2, PTL DEF ASpec

\* The immediate instructions are the same on both cores.
LEMMA OpisAgree ==
  ASSUME NEW c, NEW d, NEW a, NEW b
  PROVE  core_OPI(c, d, a, b) = exe_OPI(c, d, a, b)
BY DEF core_OPI, exe_OPI

\* So are those of two registers, although one core adds them as unsigned.
LEMMA OpsAgree ==
  ASSUME NEW c, NEW d, NEW a \in Word, NEW b \in Word
  PROVE  core_OP(c, d, a, b) = exe_OP(c, d, a, b)
<1>1. CASE c # 0
  BY <1>1, OpisAgree DEF core_OP, exe_OP
<1>2. CASE c = 0
  BY <1>2, WordOfSigned DEF core_OP, exe_OP, exe_OPI
<1> QED
  BY <1>1, <1>2

\* A branch that exists is taken on both cores or on none.
LEMMA BranchesAgree ==
  ASSUME NEW c \in Funct3 \ {2, 3}, NEW a \in Word, NEW b \in Word
  PROVE  core_BR(c, a, b) <=> exe_BR(c, a, b)
<1>1. (Signed(a) = Signed(b)) <=> (a = b)
  BY SignedValue
<1>2. c \in {0, 1, 4, 5, 6, 7}
  BY DEF Funct3
<1> QED
  BY <1>1, <1>2 DEF core_BR, exe_BR

\* The products agree where mult reads no negative operand, and the scalar core
\* answers as mult does to MULHU where it reads one.
LEMMA ProductsAgree ==
  ASSUME NEW c \in 0 .. 3, NEW a \in Word, NEW b \in Word
  PROVE  core_MUL(c, a, b) =
           IF c \in {1, 2} /\ (IsNeg(a) \/ (c = 1 /\ IsNeg(b)))
           THEN mult_MUL(3, a, b) ELSE mult_MUL(c, a, b)
<1>1. CASE c = 0
  BY <1>1, WordOfSigned DEF core_MUL, mult_MUL
<1>2. CASE c = 1
  BY <1>2, SignedValue DEF core_MUL, mult_MUL
<1>3. CASE c = 2
  BY <1>3, SignedValue DEF core_MUL, mult_MUL
<1>4. CASE c = 3
  BY <1>4 DEF core_MUL, mult_MUL
<1> QED
  BY <1>1, <1>2, <1>3, <1>4

\* Both cores give the same result for every instruction, for words of every
\* width: the additions, shifts and comparisons of signed and of unsigned
\* registers, and the divisions by two different loops. Only the upper words
\* of products of negative operands differ (exe_wecomb and mult in
\* scriscv_core.cpp, core in scriscv_scalar.cpp).
THEOREM CoresAgree == ASpec => []CoresAgreeButProducts
<1>1. InputsOK => CoresAgreeButProducts
  <2> SUFFICES ASSUME InputsOK PROVE CoresAgreeButProducts
    OBVIOUS
  <2>1. CASE format = "OPI"
    BY <2>1, OpisAgree DEF CoresAgreeButProducts, ReadsNegative, result_scalar,
         result_pipeline, ScalarResult, PipelineResult
  <2>2. CASE format = "OP"
    BY <2>2, OpsAgree DEF CoresAgreeButProducts, ReadsNegative, result_scalar,
         result_pipeline, ScalarResult, PipelineResult, InputsOK
  <2>3. CASE format = "BR"
    <3>1. core_BR(f3, lhs, rhs) <=> exe_BR(f3, lhs, rhs)
      BY <2>3, BranchesAgree DEF InputsOK, Legal
    <3> QED
      BY <2>3, <3>1 DEF CoresAgreeButProducts, ReadsNegative, result_scalar,
           result_pipeline, ScalarResult, PipelineResult, Flag
  <2>4. CASE format = "M" /\ IsDivision(f3)
    <3>1. core_DIV(f3, lhs, rhs) = Division(f3, lhs, rhs)
      BY <2>4, DivisionsAgree DEF InputsOK
    <3>2. f3 \notin {1, 2}
      BY <2>4 DEF IsDivision, M_DIV, M_DIVU, M_REM, M_REMU
    <3> QED
      BY <2>4, <3>1, <3>2 DEF CoresAgreeButProducts, ReadsNegative,
           result_scalar, result_pipeline, ScalarResult, PipelineResult
  <2>5. CASE format = "M" /\ ~IsDivision(f3)
    <3>1. f3 \in 0 .. 3 /\ ~IsDivision(3)
      BY <2>5 DEF InputsOK, Funct3, IsDivision, M_DIV, M_DIVU, M_REM, M_REMU
    <3>2. core_MUL(f3, lhs, rhs) =
            IF f3 \in {1, 2} /\ (IsNeg(lhs) \/ (f3 = 1 /\ IsNeg(rhs)))
            THEN mult_MUL(3, lhs, rhs) ELSE mult_MUL(f3, lhs, rhs)
      BY <3>1, ProductsAgree DEF InputsOK
    <3> QED
      BY <2>5, <3>1, <3>2 DEF CoresAgreeButProducts, ReadsNegative,
           result_scalar, result_pipeline, ScalarResult, PipelineResult
  <2> QED
    BY <2>1, <2>2, <2>3, <2>4, <2>5 DEF InputsOK
<1> QED
  BY <1>1, InputsInvariant, PTL

-----------------------------------------------------------------------------
(* Quotient and remainder are those of one division.                       *)

\* With an unsigned divisor the loop divides exactly.
LEMMA UnsignedIsExact ==
  ASSUME NEW a \in Word, NEW b \in Word \ {0}
  PROVE  Wrap(b * (a \div b) + (a % b)) = a /\ a % b \in 0 .. (b - 1)
         /\ Wrap(a % b) = a % b
<1>1. /\ a \in Int /\ b \in Nat \ {0} /\ a \in 0 .. (Modulus - 1)
      /\ b \in 0 .. (Modulus - 1) /\ Modulus \in Nat \ {0}
  BY Sign DEF Word
<1>2. a % b \in 0 .. (b - 1) /\ a = b * (a \div b) + (a % b)
  BY <1>1, DivMod
<1>3. \A x \in 0 .. (Modulus - 1) : x % Modulus = x
  BY <1>1
<1>4. a % b \in 0 .. (Modulus - 1)
  BY <1>1, <1>2
<1> QED
  BY <1>1, <1>2, <1>3, <1>4 DEF Wrap

\* With signed operands the magnitudes are divided; the quotient is negated when
\* the signs differ, the remainder with the dividend, each in a word.
LEMMA SignedIsExact ==
  ASSUME NEW a \in Word, NEW b \in Word \ {0}, NEW q, NEW r,
         q = Signed(SignedIf(IsNeg(a) # IsNeg(b), Mag(a) \div Mag(b))),
         r = Signed(SignedIf(IsNeg(a), Mag(a) % Mag(b)))
  PROVE  /\ Wrap(Signed(b) * q + r) = a
         /\ Mag(Wrap(r)) < Mag(b)
         /\ r # 0 => (r < 0 <=> Signed(a) < 0)
<1> DEFINE A == Mag(a)
           B == Mag(b)
           Q == A \div B
           R == A % B
           M == Modulus
<1>1. /\ A \in 0 .. MinInt /\ B \in 1 .. MinInt /\ M = 2 * MinInt
      /\ MinInt \in Nat \ {0} /\ M \in Nat \ {0}
      /\ Signed(a) = IF IsNeg(a) THEN -A ELSE A
      /\ Signed(b) = IF IsNeg(b) THEN -B ELSE B
      /\ Signed(a) < 0 <=> IsNeg(a)
  <2>1. /\ A \in 0 .. MinInt /\ Signed(a) = IF IsNeg(a) THEN -A ELSE A
        /\ Signed(a) < 0 <=> IsNeg(a)
    BY SignedValue, Sign DEF Word
  <2>2. /\ B \in 1 .. MinInt /\ Signed(b) = IF IsNeg(b) THEN -B ELSE B
    BY SignedValue, Sign DEF Word
  <2> QED
    BY <2>1, <2>2, Sign
<1>2. Q \in Int /\ R \in 0 .. (B - 1) /\ A = B * Q + R
  <2> HIDE DEF A, B
  <2>1. A \in Int /\ B \in Nat \ {0}
    BY <1>1
  <2> QED
    BY <2>1, DivMod
<1>3. Q \in 0 .. A
  <2> HIDE DEF A, B
  <2>1. B * 0 <= A /\ A < B * (A + 1)
    <3>1. B * (A + 1) >= A + 1
      BY <1>1, ProductGrows
    <3> QED
      BY <1>1, <3>1
  <2> QED
    BY <1>1, <1>2, <2>1, DivBounds
<1>4. ASSUME NEW x \in 0 .. MinInt
      PROVE  Neg(x) = Wrap(-x) /\ Wrap(x) = x
  <2>1. M - x \in Int /\ (M - x) - M = -x /\ x \in 0 .. (M - 1)
    BY <1>1
  <2>2. ((M - x) - M) % M = (M - x) % M
    BY <1>1, <2>1, ModTurn
  <2> QED
    BY <1>1, <2>1, <2>2 DEF Neg, Wrap
<1> DEFINE u == IF IsNeg(a) THEN -R ELSE R
           v == IF IsNeg(a) # IsNeg(b) THEN -Q ELSE Q
<1> HIDE DEF A, B, Q, R
<1>5. r = u /\ u \in (-(MinInt - 1)) .. (MinInt - 1) /\ Wrap(u) \in Word
  <2>1. R \in 0 .. (MinInt - 1)
    BY <1>1, <1>2
  <2>2. SignedIf(IsNeg(a), R) = Wrap(u)
    <3>1. R \in 0 .. MinInt
      BY <1>1, <2>1
    <3>2. Neg(R) = Wrap(-R) /\ Wrap(R) = R
      BY <1>4, <3>1
    <3> QED
      BY <3>2 DEF SignedIf
  <2>3. u \in (-(MinInt - 1)) .. (MinInt - 1) /\ u \in (-MinInt) .. (MinInt - 1)
    BY <1>1, <2>1
  <2>4. Signed(Wrap(u)) = u /\ Wrap(u) \in Word
    BY <2>3, SignedOfWrap
  <2> QED
    BY <2>2, <2>3, <2>4 DEF R, A, B
<1>6. PICK k \in Int : q = v + M * k
  <2>1. SignedIf(IsNeg(a) # IsNeg(b), Q) = Wrap(v)
    BY <1>1, <1>3, <1>4 DEF SignedIf
  <2>2. v \in Int
    BY <1>2
  <2>3. \E k \in Int : Signed(Wrap(v)) = v + M * k
    <3> HIDE DEF v
    <3> QED
      BY <2>2, SignedModulo
  <2> QED
    BY <2>1, <2>3 DEF Q, A, B
<1>7. Wrap(Signed(b) * q + r) = a
  <2> DEFINE s == Signed(b)
  <2>1. s * v + u = Signed(a)
    <3>1. /\ (-B) * (-Q) = B * Q /\ B * (-Q) = -(B * Q) /\ (-B) * Q = -(B * Q)
          /\ B * Q \in Int
      BY <1>1, <1>2
    <3>2. CASE IsNeg(a) /\ IsNeg(b)
      <4>1. s = -B /\ v = Q /\ u = -R /\ Signed(a) = -A
        BY <1>1, <3>2
      <4> HIDE DEF s, v, u
      <4> QED
        BY <1>1, <1>2, <3>1, <4>1
    <3>3. CASE IsNeg(a) /\ ~IsNeg(b)
      <4>1. s = B /\ v = -Q /\ u = -R /\ Signed(a) = -A
        BY <1>1, <3>3
      <4> HIDE DEF s, v, u
      <4> QED
        BY <1>1, <1>2, <3>1, <4>1
    <3>4. CASE ~IsNeg(a) /\ IsNeg(b)
      <4>1. s = -B /\ v = -Q /\ u = R /\ Signed(a) = A
        BY <1>1, <3>4
      <4> HIDE DEF s, v, u
      <4> QED
        BY <1>1, <1>2, <3>1, <4>1
    <3>5. CASE ~IsNeg(a) /\ ~IsNeg(b)
      <4>0. ~(IsNeg(a) # IsNeg(b))
        BY <3>5 DEF IsNeg
      <4>1. s = B /\ v = Q /\ u = R /\ Signed(a) = A
        BY <1>1, <3>5, <4>0
      <4> HIDE DEF s, v, u
      <4> QED
        BY <1>1, <1>2, <3>1, <4>1
    <3> QED
      BY <3>2, <3>3, <3>4, <3>5
  <2>2. s \in Int /\ v \in Int /\ u \in Int
    BY <1>1, <1>2
  <2>3. s * q + r = Signed(a) + M * (s * k)
    <3> HIDE DEF s, v, u
    <3>1. s * (v + M * k) + u = (s * v + u) + M * (s * k)
      BY <1>1, <2>2
    <3> QED
      BY <1>5, <1>6, <2>1, <3>1
  <2>4. Signed(a) \in Int /\ s * k \in Int
    <3> HIDE DEF s
    <3> QED
      BY <1>1, <2>2
  <2>5. Wrap(Signed(a) + M * (s * k)) = Wrap(Signed(a))
    <3> DEFINE m == s * k
    <3>1. m \in Int
      BY <2>4
    <3> HIDE DEF m
    <3>2. (Signed(a) + M * m) % M = Signed(a) % M
      BY <1>1, <2>4, <3>1, ModShift
    <3> QED
      BY <3>2 DEF m, Wrap
  <2>6. Wrap(Signed(a)) = a
    BY SignedValue
  <2> QED
    BY <2>3, <2>5, <2>6
<1>8. Mag(Wrap(r)) < B
  <2> DEFINE y == Wrap(u)
  <2>1. y \in Word /\ Signed(y) = u
    <3>1. u \in (-MinInt) .. (MinInt - 1)
      BY <1>1, <1>5
    <3> HIDE DEF u
    <3> QED
      BY <3>1, SignedOfWrap
  <2>2. Mag(y) = IF u < 0 THEN -u ELSE u
    <3> HIDE DEF y, u
    <3>1. (IsNeg(y) <=> u < 0) /\ (IsNeg(y) => Mag(y) = Modulus - y /\ u = y - Modulus)
          /\ (~IsNeg(y) => Mag(y) = y /\ u = y)
      BY <2>1, SignedValue
    <3>2. y \in Int /\ Modulus \in Int
      BY <1>1, <2>1 DEF Word
    <3> QED
      BY <3>1, <3>2
  <2>3. u < B /\ -u < B
    BY <1>1, <1>2
  <2> QED
    BY <1>5, <2>2, <2>3
<1>9. r # 0 => (r < 0 <=> Signed(a) < 0)
  BY <1>1, <1>2, <1>5
<1> QED
  BY <1>7, <1>8, <1>9 DEF B

\* DIV and REM, DIVU and REMU divide exactly, with a remainder that is smaller
\* than the divisor and has the sign of the dividend, for every pair of words
\* but the one that mult answers as an overflow (mult, "ret = 0x80000000").
THEOREM DividesButOne == ASpec => []EuclideanButOne
<1>1. InputsOK => EuclideanButOne
  <2> SUFFICES ASSUME InputsOK, format = "M", f3 \in {M_DIV, M_DIVU}, rhs # 0
               PROVE  IsExact <=> ~TakenForOverflow
    <3>1. IsExact \in BOOLEAN /\ TakenForOverflow \in BOOLEAN
      BY DEF IsExact, TakenForOverflow
    <3> QED
      BY <3>1 DEF EuclideanButOne
  <2>1. lhs \in Word /\ rhs \in Word \ {0} /\ M_DIV = 4 /\ M_DIVU = 5
        /\ M_REM = 6 /\ M_REMU = 7
    BY DEF InputsOK, M_DIV, M_DIVU, M_REM, M_REMU
  <2>2. /\ result_pipeline = Division(f3, lhs, rhs)
        /\ PipelineResult("M", f3 + 2, 1, lhs, rhs) = Division(f3 + 2, lhs, rhs)
    BY <2>1 DEF result_pipeline, PipelineResult, IsDivision
  <2>3. CASE f3 = M_DIVU
    <3>1. Division(f3, lhs, rhs) = lhs \div rhs
          /\ Division(f3 + 2, lhs, rhs) = lhs % rhs
      BY <2>1, <2>3 DEF Division, IsSignedDivision
    <3>2. /\ Wrap(rhs * (lhs \div rhs) + (lhs % rhs)) = lhs
          /\ lhs % rhs \in 0 .. (rhs - 1) /\ Wrap(lhs % rhs) = lhs % rhs
      BY <2>1, UnsignedIsExact
    <3>3. rhs \in Int /\ lhs \in Nat
      BY <2>1, Sign DEF Word
    <3>4. /\ f3 # M_DIV /\ result_pipeline = lhs \div rhs
          /\ PipelineResult("M", f3 + 2, 1, lhs, rhs) = lhs % rhs
          /\ lhs % rhs < rhs /\ ~(lhs % rhs < 0) /\ ~(lhs < 0)
      BY <2>1, <2>2, <2>3, <3>1, <3>2, <3>3
    <3>5. IsExact
      BY <3>2, <3>4 DEF IsExact
    <3> QED
      BY <3>4, <3>5 DEF TakenForOverflow
  <2>4. CASE f3 = M_DIV /\ ~TakenForOverflow
    <3> DEFINE q == Signed(SignedIf(IsNeg(lhs) # IsNeg(rhs), Mag(lhs) \div Mag(rhs)))
               r == Signed(SignedIf(IsNeg(lhs), Mag(lhs) % Mag(rhs)))
    <3>1. /\ Signed(Division(f3, lhs, rhs)) = q
          /\ Signed(Division(f3 + 2, lhs, rhs)) = r
      BY <2>1, <2>4 DEF Division, IsSignedDivision, TakenForOverflow
    <3>2. /\ Wrap(Signed(rhs) * q + r) = lhs /\ Mag(Wrap(r)) < Mag(rhs)
          /\ r # 0 => (r < 0 <=> Signed(lhs) < 0)
      <4> HIDE DEF q, r
      <4>1. /\ q = Signed(SignedIf(IsNeg(lhs) # IsNeg(rhs), Mag(lhs) \div Mag(rhs)))
            /\ r = Signed(SignedIf(IsNeg(lhs), Mag(lhs) % Mag(rhs)))
        BY DEF q, r
      <4> QED
        BY <2>1, <4>1, SignedIsExact
    <3>3. IsExact
      <4> HIDE DEF q, r
      <4> QED
        BY <2>2, <2>4, <3>1, <3>2 DEF IsExact
    <3> QED
      BY <2>4, <3>3
  <2>5. CASE TakenForOverflow
    <3>1. Division(f3, lhs, rhs) = MinInt /\ Division(f3 + 2, lhs, rhs) = 0
      BY <2>1, <2>5 DEF Division, IsSignedDivision, TakenForOverflow
    <3>2. /\ Signed(rhs) = -4 /\ Signed(MinInt) = -MinInt /\ Signed(0) = 0
      BY <2>5, Sign DEF TakenForOverflow, OverflowDivisor, Signed, IsNeg
    <3>3. (-4) * (-MinInt) + 0 = 0 + Modulus * 2 /\ 0 % Modulus = 0
      BY Sign
    <3>4. Wrap((-4) * (-MinInt) + 0) = 0
      BY <3>3, Sign, ModShift, 0 \in Int, 2 \in Int DEF Wrap
    <3>5. lhs # 0 /\ f3 = M_DIV
      BY <2>5, Sign DEF TakenForOverflow
    <3>6. ~IsExact
      BY <2>2, <3>1, <3>2, <3>4, <3>5 DEF IsExact
    <3> QED
      BY <2>5, <3>6
  <2> QED
    BY <2>1, <2>3, <2>4, <2>5
<1> QED
  BY <1>1, InputsInvariant, PTL

-----------------------------------------------------------------------------
(* The two words of a product.                                             *)

\* A product whose upper word is within the words read as signed is put together
\* again from its two words.
LEMMA TwoWords ==
  ASSUME NEW p \in Int
  PROVE  /\ p = (p \div Modulus) * Modulus + Wrap(p)
         /\ 0 <= p /\ p < Modulus * Modulus => Upper(p) = p \div Modulus
         /\ Modulus * (-MinInt) <= p /\ p < Modulus * MinInt
              => Signed(Upper(p)) = p \div Modulus
<1> DEFINE h == p \div Modulus
<1>1. Modulus \in Nat \ {0} /\ MinInt \in Nat \ {0} /\ Modulus = 2 * MinInt
  BY Sign
<1>2. h \in Int /\ p = Modulus * h + Wrap(p) /\ Wrap(p) \in Int
  <2>1. /\ h \in Int /\ p % Modulus \in 0 .. (Modulus - 1)
        /\ p = Modulus * h + (p % Modulus)
    BY <1>1, DivMod
  <2> QED
    BY <1>1, <2>1 DEF Wrap
<1>3. ASSUME 0 <= p, p < Modulus * Modulus PROVE Wrap(h) = h
  <2>1. 0 <= h /\ h < Modulus
    BY <1>1, <1>3, DivBounds, Modulus * 0 = 0
  <2> HIDE DEF h
  <2> QED
    BY <1>1, <1>2, <2>1 DEF Wrap
<1>4. ASSUME Modulus * (-MinInt) <= p, p < Modulus * MinInt
      PROVE  Signed(Wrap(h)) = h
  <2>1. -MinInt <= h /\ h < MinInt
    <3> DEFINE m == -MinInt
    <3>1. m \in Int /\ Modulus * m <= p
      BY <1>1, <1>4
    <3> HIDE DEF m
    <3>2. m <= h /\ h < MinInt
      BY <1>1, <1>4, <3>1, DivBounds
    <3> QED
      BY <3>2 DEF m
  <2> HIDE DEF h
  <2>2. h \in (-MinInt) .. (MinInt - 1)
    BY <1>1, <1>2, <2>1
  <2> QED
    BY <2>2, SignedOfWrap
<1> HIDE DEF h
<1>5. p = h * Modulus + Wrap(p)
  BY <1>1, <1>2
<1> QED
  BY <1>3, <1>4, <1>5 DEF h, Upper

\* The bounds of the products of words.
LEMMA ProductBounds ==
  ASSUME NEW x \in (-MinInt) .. (MinInt - 1),
         NEW z \in Word \cup (-MinInt) .. (MinInt - 1)
  PROVE  Modulus * (-MinInt) <= x * z /\ x * z < Modulus * MinInt
<1>1. MinInt \in Nat \ {0} /\ Modulus = 2 * MinInt
  BY Sign
<1>2. ASSUME NEW m \in Nat \ {0}, NEW u \in (-m) .. (m - 1), NEW v \in 0 .. (2 * m)
      PROVE  (2 * m) * (-m) <= u * v /\ u * v < (2 * m) * m
  <2>1. (u + m) * v >= 0 /\ (m - 1 - u) * v >= 0
    OBVIOUS
  <2>2. m * (2 * m - v) >= 0
    OBVIOUS
  <2>3. (u + m) * v = u * v + m * v /\ (m - 1 - u) * v = m * v - v - u * v
        /\ m * (2 * m - v) = (2 * m) * m - m * v /\ (2 * m) * (-m) = -((2 * m) * m)
    OBVIOUS
  <2>4. v > 0 \/ u * v = 0
    OBVIOUS
  <2>5. (2 * m) * m > 0 /\ u * v \in Int /\ m * v \in Int /\ (2 * m) * m \in Int
    OBVIOUS
  <2> QED
    BY <2>1, <2>2, <2>3, <2>4, <2>5
<1>3. ASSUME NEW y \in Word
      PROVE  Modulus * (-MinInt) <= x * y /\ x * y < Modulus * MinInt
  <2>1. y \in 0 .. (2 * MinInt)
    BY <1>1 DEF Word
  <2> QED
    BY <1>1, <1>2, <2>1
<1>4. ASSUME NEW y \in (-MinInt) .. (MinInt - 1)
      PROVE  Modulus * (-MinInt) <= x * y /\ x * y < Modulus * MinInt
  <2>1. CASE y >= 0
    <3>1. y \in Word
      BY <1>1, <2>1 DEF Word
    <3> QED
      BY <1>3, <3>1
  <2>2. CASE y < 0
    <3>1. ASSUME NEW m \in Nat \ {0}, NEW u \in (-m) .. (m - 1), NEW v \in 1 .. m
          PROVE  (2 * m) * (-m) <= u * (-v) /\ u * (-v) < (2 * m) * m
      <4>1. (u + m) * v >= 0 /\ (m - 1 - u) * v >= 0 /\ m * (m - v) >= 0
        OBVIOUS
      <4>2. (u + m) * v = u * v + m * v /\ (m - 1 - u) * v = m * v - v - u * v
            /\ m * (m - v) = m * m - m * v /\ (2 * m) * (-m) = -(2 * (m * m))
            /\ (2 * m) * m = 2 * (m * m) /\ u * (-v) = -(u * v) /\ m * m > 0
        OBVIOUS
      <4>3. u * v \in Int /\ m * v \in Int /\ m * m \in Int
        OBVIOUS
      <4> QED
        BY <4>1, <4>2, <4>3
    <3>2. -y \in 1 .. MinInt /\ -(-y) = y
      BY <1>1, <2>2
    <3> QED
      BY <1>1, <3>1, <3>2
  <2> QED
    BY <1>1, <2>1, <2>2
<1> QED
  BY <1>3, <1>4

\* The upper word that MULH, MULHSU and MULHU answer and the lower one of MUL are
\* the product of the operands as these instructions read them (mult, "dataA *
\* dataB" in 64 bits).
THEOREM ProductsAreRiscv == ASpec => []ProductIsRiscv
<1>1. InputsOK => ProductIsRiscv
  <2> SUFFICES ASSUME InputsOK, UpperProduct PROVE ProductIsRiscv
    BY DEF ProductIsRiscv
  <2>1. /\ lhs \in Word /\ rhs \in Word /\ format = "M" /\ f3 \in {1, 2, 3}
        /\ lhs \in 0 .. (Modulus - 1) /\ rhs \in 0 .. (Modulus - 1)
        /\ Modulus \in Nat \ {0}
    BY Sign DEF InputsOK, UpperProduct, Word
  <2> DEFINE a == IF f3 = 3 THEN lhs ELSE Signed(lhs)
             b == IF f3 = 1 THEN Signed(rhs) ELSE rhs
             p == a * b
             lower == PipelineResult("M", 0, 1, lhs, rhs)
             upper == IF f3 = 3 THEN result_pipeline ELSE Signed(result_pipeline)
  <2>2. /\ Signed(lhs) \in (-MinInt) .. (MinInt - 1)
        /\ Signed(rhs) \in (-MinInt) .. (MinInt - 1)
    BY <2>1, SignedValue
  <2>3. p \in Int
    BY <2>1, <2>2
  <2>4. result_pipeline = Upper(p)
    BY <2>1 DEF result_pipeline, PipelineResult, IsDivision, M_DIV, M_DIVU,
         M_REM, M_REMU, mult_MUL
  <2>5. lower = Wrap(p)
    <3>1. lower = Wrap(Signed(lhs) * Signed(rhs))
      BY DEF PipelineResult, IsDivision, M_DIV, M_DIVU, M_REM, M_REMU, mult_MUL
    <3> HIDE DEF lower
    <3> QED
      BY <2>1, <3>1, WordOfSigned
  <2>6. upper = p \div Modulus
    <3>1. CASE f3 = 3
      <4>1. ASSUME NEW M \in Nat \ {0}, NEW x \in 0 .. (M - 1), NEW y \in 0 .. (M - 1)
            PROVE  0 <= x * y /\ x * y < M * M
        <5>1. x * y <= x * M /\ x * M <= (M - 1) * M /\ (M - 1) * M < M * M
          OBVIOUS
        <5> QED
          BY <5>1
      <4>2. 0 <= p /\ p < Modulus * Modulus
        BY <2>1, <3>1, <4>1
      <4>3. Upper(p) = p \div Modulus
        <5> HIDE DEF p
        <5> QED
          BY <2>3, <4>2, TwoWords
      <4> QED
        BY <2>4, <3>1, <4>3
    <3>2. CASE f3 # 3
      <4>1. /\ a \in (-MinInt) .. (MinInt - 1)
            /\ b \in Word \cup (-MinInt) .. (MinInt - 1)
        BY <2>1, <2>2, <3>2
      <4>2. Modulus * (-MinInt) <= p /\ p < Modulus * MinInt
        <5> HIDE DEF a, b
        <5> QED
          BY <4>1, ProductBounds
      <4>3. Signed(Upper(p)) = p \div Modulus
        <5> HIDE DEF p
        <5> QED
          BY <2>3, <4>2, TwoWords
      <4> QED
        BY <2>4, <3>2, <4>3
    <3> QED
      BY <3>1, <3>2
  <2>7. p = (p \div Modulus) * Modulus + Wrap(p)
    <3> HIDE DEF p
    <3> QED
      BY <2>3, TwoWords
  <2>8. a * b = upper * Modulus + lower
    <3> HIDE DEF upper, lower
    <3> QED
      BY <2>5, <2>6, <2>7
  <2> QED
    BY <2>8 DEF ProductIsRiscv
<1> QED
  BY <1>1, InputsInvariant, PTL

-----------------------------------------------------------------------------
(* Shifts move bits.                                                       *)

\* The bits of a number are its remainders', as far as these reach.
LEMMA LowBits ==
  ASSUME NEW x \in Int, NEW k \in 0 .. DivBits, NEW n \in 0 .. (k - 1)
  PROVE  BitOf(x % Weight[k], n) = BitOf(x, n)
<1> DEFINE K == Weight[k]
           w == Weight[n]
           q == x \div K
           r == x % K
<1>1. n \in 0 .. DivBits /\ n <= k /\ n < k /\ k \in Nat
  BY Weights
<1>2. PICK h \in Nat \ {0} : K = w * (2 * h)
  BY <1>1, WeightMonotone
<1>3. K \in Nat \ {0} /\ w \in Nat \ {0}
  BY <1>1, Weights
<1> HIDE DEF K, w
<1>4. q \in Int /\ r \in Int /\ x = K * q + r
  BY <1>3, DivMod
<1> HIDE DEF q, r
<1>5. x \div w = r \div w + 2 * (h * q)
  <2> DEFINE m == 2 * (h * q)
  <2>1. m \in Int /\ x = r + w * m
    <3>1. (w * (2 * h)) * q = w * (2 * (h * q))
      BY <1>3, <1>4
    <3> QED
      BY <1>2, <1>3, <1>4, <3>1
  <2> HIDE DEF m
  <2>2. (r + w * m) \div w = r \div w + m
    BY <1>3, <1>4, <2>1, DivAdd
  <2> QED
    BY <2>1, <2>2 DEF m
<1>6. (x \div w) % 2 = (r \div w) % 2
  <2> DEFINE u == r \div w
             i == h * q
  <2>1. u \in Int /\ i \in Int
    BY <1>2, <1>3, <1>4, DivMod
  <2> HIDE DEF u, i
  <2>2. (u + 2 * i) % 2 = u % 2
    BY <2>1, Parity
  <2> QED
    BY <1>5, <2>2 DEF u, i
<1> QED
  BY <1>6 DEF BitOf, r, K, w

\* Beyond them a number has no bits.
LEMMA HighBits ==
  ASSUME NEW k \in 0 .. DivBits, NEW n \in k .. DivBits,
         NEW y \in 0 .. (Weight[k] - 1)
  PROVE  BitOf(y, n) = 0
<1>1. n \in 0 .. DivBits /\ k <= n
  BY Weights
<1>2. Weight[k] <= Weight[n] /\ Weight[n] \in Nat \ {0} /\ Weight[k] \in Nat \ {0}
  BY <1>1, Weights, WeightMonotone
<1>3. y \in 0 .. (Weight[n] - 1)
  BY <1>2
<1>4. y \div Weight[n] = 0
  BY <1>2, <1>3, DivSmall
<1> QED
  BY <1>4 DEF BitOf

\* A word has the bits of every number it is the word of, its signed value too.
LEMMA WordBits ==
  ASSUME NEW n \in Position
  PROVE  /\ \A x \in Int : BitOf(Wrap(x), n) = BitOf(x, n)
         /\ \A a \in Word : BitOf(Signed(a), n) = BitOf(a, n)
<1>1. DivBits \in 0 .. DivBits /\ n \in 0 .. (DivBits - 1)
      /\ Weight[DivBits] = Modulus
  BY Weights, Widths DEF Position
<1>2. ASSUME NEW x \in Int PROVE BitOf(Wrap(x), n) = BitOf(x, n)
  BY <1>1, LowBits DEF Wrap
<1>3. ASSUME NEW a \in Word PROVE BitOf(Signed(a), n) = BitOf(a, n)
  <2>1. Signed(a) \in Int /\ Wrap(Signed(a)) = a
    BY SignedValue, Sign
  <2> QED
    BY <1>2, <2>1
<1> QED
  BY <1>2, <1>3

\* Multiplied by a power of two, the bits are that much higher.
LEMMA LeftBits ==
  ASSUME NEW x \in Int, NEW s \in Position, NEW n \in Position
  PROVE  /\ n >= s => BitOf(x * Weight[s], n) = BitOf(x, n - s)
         /\ n < s => BitOf(x * Weight[s], n) = 0
<1>1. s \in 0 .. DivBits /\ n \in 0 .. DivBits /\ s \in Nat /\ n \in Nat
  BY Weights, Widths DEF Position
<1>2. Weight[s] \in Nat \ {0} /\ Weight[n] \in Nat \ {0}
  BY <1>1, Weights
<1>3. ASSUME n >= s PROVE BitOf(x * Weight[s], n) = BitOf(x, n - s)
  <2>1. n - s \in 0 .. DivBits /\ s <= n
    BY <1>1, <1>3, Weights
  <2>2. Weight[n] = Weight[s] * Weight[n - s] /\ Weight[n - s] \in Nat \ {0}
    BY <1>1, <2>1, Weights, WeightMonotone
  <2>3. (x * Weight[s]) \div (Weight[s] * Weight[n - s]) = x \div Weight[n - s]
    BY <1>2, <2>2, DivCommon
  <2> QED
    BY <2>2, <2>3 DEF BitOf
<1>4. ASSUME n < s PROVE BitOf(x * Weight[s], n) = 0
  <2>1. PICK h \in Nat \ {0} : Weight[s] = Weight[n] * (2 * h)
    BY <1>1, <1>4, WeightMonotone
  <2> DEFINE m == 2 * (x * h)
  <2>2. m \in Int /\ x * Weight[s] = Weight[n] * m + 0
    <3>1. x * (Weight[n] * (2 * h)) = Weight[n] * (2 * (x * h))
      BY <1>2
    <3> QED
      BY <1>2, <2>1, <3>1
  <2>3. (x * Weight[s]) \div Weight[n] = m
    <3> DEFINE y == x * Weight[s]
    <3>1. y \in Int /\ y = Weight[n] * m + 0 /\ 0 \in 0 .. (Weight[n] - 1)
      BY <1>2, <2>2
    <3> HIDE DEF y, m
    <3>2. y \div Weight[n] = m
      BY <1>2, <2>2, <3>1, DivUnique
    <3> QED
      BY <3>2 DEF y
  <2>4. m % 2 = 0
    <3> DEFINE i == x * h
    <3>1. i \in Int
      BY <2>1
    <3> HIDE DEF i
    <3>2. (2 * i) % 2 = 0
      BY <3>1, Parity
    <3> QED
      BY <3>2 DEF i
  <2> QED
    BY <2>3, <2>4 DEF BitOf
<1> QED
  BY <1>3, <1>4

\* Divided by one, they are that much lower, and copies of the sign follow them.
LEMMA RightBits ==
  ASSUME NEW x \in (-Modulus) .. (Modulus - 1), NEW s \in Position,
         NEW n \in Position
  PROVE  /\ n + s \in Position => BitOf(x \div Weight[s], n) = BitOf(x, n + s)
         /\ n + s \notin Position
              => BitOf(x \div Weight[s], n) = IF x < 0 THEN 1 ELSE 0
<1>1. /\ s \in 0 .. DivBits /\ n \in 0 .. DivBits /\ s \in Nat /\ n \in Nat
      /\ Width = DivBits /\ DivBits \in Nat
  BY Weights, Widths DEF Position
<1>2. /\ Weight[s] \in Nat \ {0} /\ Weight[n] \in Nat \ {0} /\ x \in Int
      /\ Modulus \in Nat \ {0}
  BY <1>1, Weights, Sign
<1>3. ASSUME n + s \in Position
      PROVE  BitOf(x \div Weight[s], n) = BitOf(x, n + s)
  <2>1. s + n <= DivBits /\ s + n = n + s
    BY <1>1, <1>3 DEF Position
  <2>2. Weight[n + s] = Weight[s] * Weight[n]
    BY <1>1, <2>1, WeightSum
  <2>3. (x \div Weight[s]) \div Weight[n] = x \div Weight[n + s]
    BY <1>2, <2>2, DivDiv
  <2> QED
    BY <2>3 DEF BitOf
<1>4. ASSUME n + s \notin Position
      PROVE  BitOf(x \div Weight[s], n) = IF x < 0 THEN 1 ELSE 0
  <2> DEFINE k == DivBits - s
             H == Weight[k]
             y == x \div Weight[s]
  <2>1. /\ k \in 0 .. DivBits /\ k <= n /\ s <= DivBits /\ DivBits \in 0 .. DivBits
    BY <1>1, <1>4 DEF Position
  <2>2. Modulus = Weight[s] * H
    BY <1>1, <2>1, Weights, WeightMonotone
  <2>3. H <= Weight[n] /\ H \in Nat \ {0}
    <3> HIDE DEF k
    <3> QED
      BY <1>1, <2>1, Weights, WeightMonotone
  <2>4. /\ y \in Int /\ -H <= y /\ y < H
        /\ x < 0 => y < 0
        /\ x >= 0 => y >= 0
    <3> HIDE DEF H
    <3> DEFINE l == -H
    <3>1. /\ l \in Int /\ 0 \in Int /\ Weight[s] * l <= x /\ x < Weight[s] * H
          /\ Weight[s] * 0 = 0
      BY <1>2, <2>2, <2>3
    <3> HIDE DEF l
    <3>2. l <= y /\ y < H
      BY <1>2, <2>3, <3>1, DivBounds
    <3>3. ASSUME x < 0 PROVE y < 0
      BY <1>2, <3>1, <3>3, DivBounds
    <3>4. ASSUME x >= 0 PROVE 0 <= y
      BY <1>2, <2>3, <3>1, <3>4, DivBounds
    <3>5. y \in Int
      BY <1>2, DivMod
    <3> QED
      BY <1>2, <3>2, <3>3, <3>4, <3>5 DEF l
  <2> HIDE DEF y, H
  <2>5. CASE x < 0
    <3>1. y \in Int /\ y = Weight[n] * (-1) + (y + Weight[n])
          /\ y + Weight[n] \in 0 .. (Weight[n] - 1) /\ -1 \in Int
      BY <1>2, <2>3, <2>4, <2>5
    <3>2. y \div Weight[n] = -1
      BY <1>2, <3>1, DivUnique
    <3>3. (-1) % 2 = 1
      BY Parity, 2 * (-1) + 1 = -1, -1 \in Int
    <3> QED
      BY <2>5, <3>2, <3>3 DEF BitOf, y
  <2>6. CASE x >= 0
    <3>1. y \in 0 .. (Weight[n] - 1)
      BY <1>2, <2>3, <2>4, <2>6
    <3>2. y \div Weight[n] = 0
      BY <1>2, <3>1, DivSmall
    <3> QED
      BY <1>2, <2>6, <3>2 DEF BitOf, y
  <2> QED
    BY <1>2, <2>5, <2>6
<1> QED
  BY <1>3, <1>4

\* The highest bit of a word is its sign.
LEMMA SignBit ==
  ASSUME NEW a \in Word
  PROVE  Width - 1 \in Bits(a) <=> IsNeg(a)
<1>1. /\ Width - 1 \in Position /\ Weight[Width - 1] = MinInt /\ MinInt \in Nat \ {0}
      /\ a \in 0 .. (2 * MinInt - 1) /\ Modulus = 2 * MinInt
  BY Widths, Sign DEF Position, Word
<1>2. CASE IsNeg(a)
  <2>1. a = MinInt * 1 + (a - MinInt) /\ a - MinInt \in 0 .. (MinInt - 1)
    BY <1>1, <1>2 DEF IsNeg
  <2>2. a \div MinInt = 1
    BY <1>1, <2>1, DivUnique, 1 \in Int
  <2> QED
    BY <1>1, <1>2, <2>2 DEF Bits, BitOf
<1>3. CASE ~IsNeg(a)
  <2>1. a \in 0 .. (MinInt - 1)
    BY <1>1, <1>3 DEF IsNeg
  <2>2. a \div MinInt = 0
    BY <1>1, <2>1, DivSmall
  <2> QED
    BY <1>1, <1>3, <2>2 DEF Bits, BitOf
<1> QED
  BY <1>2, <1>3

\* The low ShiftBits bits of a word, as the number they are, are its remainder by
\* the width.
LEMMA ShiftCount ==
  ASSUME NEW b \in Word
  PROVE  /\ Shamt(b) \in Position
         /\ Bits(Shamt(b)) = Bits(b) \cap 0 .. (ShiftBits - 1)
<1> DEFINE s == Shamt(b)
<1>1. /\ ShiftBits \in 0 .. DivBits /\ Weight[ShiftBits] = Width /\ Width \in Nat \ {0}
      /\ Width = DivBits /\ b \in Int /\ s = b % Weight[ShiftBits]
      /\ DivBits \in Nat /\ ShiftBits \in Nat
  BY Widths, Sign DEF Word, Shamt
<1>2. s \in 0 .. (Weight[ShiftBits] - 1) /\ s \in Position
  BY <1>1 DEF Position
<1> HIDE DEF s
<1>3. ASSUME NEW n \in Position
      PROVE  BitOf(s, n) = IF n < ShiftBits THEN BitOf(b, n) ELSE 0
  <2>1. CASE n < ShiftBits
    <3>1. n \in 0 .. (ShiftBits - 1)
      BY <1>1, <2>1 DEF Position
    <3> QED
      BY <1>1, <2>1, <3>1, LowBits
  <2>2. CASE n >= ShiftBits
    <3>1. n \in ShiftBits .. DivBits
      BY <1>1, <2>2 DEF Position
    <3>2. BitOf(s, n) = 0
      BY <1>1, <1>2, <3>1, HighBits
    <3> QED
      BY <1>1, <2>2, <3>1, <3>2
  <2> QED
    BY <1>1, <2>1, <2>2 DEF Position
<1>4. Bits(s) = Bits(b) \cap 0 .. (ShiftBits - 1)
  <2>1. \A n \in Position : n < ShiftBits <=> n \in 0 .. (ShiftBits - 1)
    BY <1>1 DEF Position
  <2> QED
    BY <1>3, <2>1 DEF Bits
<1> QED
  BY <1>2, <1>4 DEF s

-----------------------------------------------------------------------------
(* Gates combine bits.                                                     *)

\* Above a number that fits below it, a power of two adds the bit at its exponent
\* and no other.
LEMMA BitAdded ==
  ASSUME NEW n \in Position, NEW y \in 0 .. (Weight[n] - 1)
  PROVE  /\ BitOf(y + Weight[n], n) = 1 /\ BitOf(y, n) = 0
         /\ \A k \in 0 .. (n - 1) : BitOf(y + Weight[n], k) = BitOf(y, k)
         /\ y + Weight[n] \in 0 .. (Weight[n + 1] - 1)
         /\ y \in 0 .. (Weight[n + 1] - 1)
<1>1. /\ n \in 0 .. (DivBits - 1) /\ n \in 0 .. DivBits /\ n \in n .. DivBits
      /\ n \in Nat
  BY Widths DEF Position
<1>2. Weight[n] \in Nat \ {0} /\ Weight[n + 1] = 2 * Weight[n]
  BY <1>1, Weights
<1>3. BitOf(y, n) = 0
  BY <1>1, HighBits
<1>4. BitOf(y + Weight[n], n) = 1
  <2> DEFINE w == Weight[n]
             z == y + w
  <2>1. z \in Int /\ z = w * 1 + y /\ 1 \in Int
    BY <1>2
  <2>2. z \div w = 1
    <3> HIDE DEF z, w
    <3>1. w \in Nat \ {0} /\ y \in 0 .. (w - 1)
      BY <1>2 DEF w
    <3> QED
      BY <2>1, <3>1, DivUnique
  <2> QED
    BY <2>2 DEF BitOf
<1>5. ASSUME NEW k \in 0 .. (n - 1) PROVE BitOf(y + Weight[n], k) = BitOf(y, k)
  <2>1. y + Weight[n] \in Int /\ (y + Weight[n]) % Weight[n] = y
    <3> DEFINE w == Weight[n]
    <3>1. w \in Nat \ {0} /\ y \in Int /\ 1 \in Int
      BY <1>2
    <3> HIDE DEF w
    <3>2. (y + w * 1) % w = y % w /\ y % w = y
      BY <3>1, ModShift, DivSmall DEF w
    <3>3. y + w * 1 = y + w
      BY <3>1
    <3> QED
      BY <3>1, <3>2, <3>3 DEF w
  <2> DEFINE z == y + Weight[n]
  <2>2. BitOf(z % Weight[n], k) = BitOf(z, k)
    <3>1. z \in Int
      BY <2>1
    <3> HIDE DEF z
    <3> QED
      BY <1>1, <3>1, LowBits
  <2> QED
    BY <2>1, <2>2
<1> QED
  BY <1>2, <1>3, <1>4, <1>5

\* A gate makes a word, and its bits are those at which the pair of its inputs'
\* bits is in its table.
LEMMA GateBits ==
  ASSUME NEW table, NEW a, NEW b
  PROVE  /\ Gate(table, a, b) \in Word
         /\ Bits(Gate(table, a, b)) =
              {n \in Position : <<BitOf(a, n), BitOf(b, n)>> \in table}
<1> DEFINE On(n) == <<BitOf(a, n), BitOf(b, n)>> \in table
           Solves(g) ==
             g = [n \in 0 .. Width |->
                    IF n = 0 THEN 0
                    ELSE g[n - 1] + IF On(n - 1) THEN Weight[n - 1] ELSE 0]
<1>0. Width \in Nat /\ Width = DivBits /\ 0 \in Nat
  BY Widths
<1>1. \A n \in 0 .. Width : Weight[n] \in Nat \ {0}
  BY <1>0, Weights
<1>2. \E g : Solves(g)
  <2> DEFINE G == [p \in (1 .. Width) \X Nat |->
                     p[2] + IF On(p[1] - 1) THEN Weight[p[1] - 1] ELSE 0]
  <2>1. G \in [(1 .. Width) \X Nat -> Nat]
    <3>1. ASSUME NEW p \in (1 .. Width) \X Nat
          PROVE  p[2] + (IF On(p[1] - 1) THEN Weight[p[1] - 1] ELSE 0) \in Nat
      <4>1. p[2] \in Nat /\ p[1] - 1 \in 0 .. Width
        BY <1>0
      <4>2. Weight[p[1] - 1] \in Nat
        BY <1>1, <4>1
      <4> HIDE DEF On
      <4> QED
        BY <4>1, <4>2
    <3> HIDE DEF On
    <3> QED
      BY <3>1
  <2>2. PICK f : Iterates(f, Width, Nat, 0, G)
    <3> HIDE DEF G
    <3> QED
      BY <1>0, <2>1, Recursion
  <2>3. ASSUME NEW n \in 0 .. Width
        PROVE  f[n] = IF n = 0 THEN 0
                      ELSE f[n - 1] + IF On(n - 1) THEN Weight[n - 1] ELSE 0
    <3> HIDE DEF On
    <3>1. CASE n = 0
      BY <2>2, <3>1 DEF Iterates
    <3>2. CASE n # 0
      <4>1. n \in 1 .. Width /\ n - 1 \in 0 .. Width
        BY <1>0, <3>2
      <4>2. f[n - 1] \in Nat /\ f[n] = G[<<n, f[n - 1]>>]
        BY <2>2, <4>1 DEF Iterates
      <4>3. <<n, f[n - 1]>> \in (1 .. Width) \X Nat
        BY <4>1, <4>2
      <4>4. G[<<n, f[n - 1]>>] =
              f[n - 1] + IF On(n - 1) THEN Weight[n - 1] ELSE 0
        BY <4>3
      <4> QED
        BY <3>2, <4>2, <4>4
    <3> QED
      BY <3>1, <3>2
  <2>4. Solves(f)
    <3> HIDE DEF On
    <3>1. f \in [0 .. Width -> Nat]
      BY <2>2 DEF Iterates
    <3> QED
      BY <2>3, <3>1
  <2> QED
    BY <2>4
<1>3. PICK g : Solves(g) /\ Gate(table, a, b) = g[Width]
  <2> DEFINE h == CHOOSE g : Solves(g)
  <2>1. Solves(h)
    BY <1>2
  <2>2. Gate(table, a, b) = h[Width]
    BY DEF Gate
  <2> HIDE DEF h, Solves
  <2> QED
    BY <2>1, <2>2
<1>4. /\ g[0] = 0
      /\ \A n \in 1 .. Width :
           g[n] = g[n - 1] + IF On(n - 1) THEN Weight[n - 1] ELSE 0
  <2> HIDE DEF On
  <2>1. \A n \in 0 .. Width :
          g[n] = IF n = 0 THEN 0
                 ELSE g[n - 1] + IF On(n - 1) THEN Weight[n - 1] ELSE 0
    BY <1>3
  <2>2. 0 \in 0 .. Width /\ \A n \in 1 .. Width : n \in 0 .. Width /\ n # 0
    BY <1>0
  <2> QED
    BY <2>1, <2>2
<1> HIDE DEF Solves
<1> DEFINE Right(n) == /\ g[n] \in 0 .. (Weight[n] - 1)
                       /\ \A k \in 0 .. (n - 1) : BitOf(g[n], k) = IF On(k) THEN 1 ELSE 0
           T == {n \in 0 .. Width : Right(n)}
<1> HIDE DEF On
<1>5. 0 \in T
  <2>1. Weight[0] = 1 /\ 0 .. (0 - 1) = {} /\ 0 \in 0 .. Width
    BY <1>0, Weights
  <2> QED
    BY <1>4, <2>1
<1>6. ASSUME NEW n \in 0 .. (Width - 1), n \in T PROVE n + 1 \in T
  <2>1. /\ n + 1 \in 1 .. Width /\ (n + 1) - 1 = n /\ n + 1 \in 0 .. Width
        /\ n \in Position /\ n \in Nat
        /\ \A k \in 0 .. n : k = n \/ k \in 0 .. (n - 1)
    BY <1>0 DEF Position
  <2>2. Right(n)
    BY <1>6
  <2>3. g[n + 1] = g[n] + IF On(n) THEN Weight[n] ELSE 0
    BY <1>4, <2>1
  <2> DEFINE y == g[n]
             z == g[n + 1]
             w == Weight[n]
  <2>4. /\ BitOf(y + w, n) = 1 /\ BitOf(y, n) = 0
        /\ \A k \in 0 .. (n - 1) : BitOf(y + w, k) = BitOf(y, k)
        /\ y + w \in 0 .. (Weight[n + 1] - 1) /\ y \in 0 .. (Weight[n + 1] - 1)
    BY <2>1, <2>2, BitAdded
  <2>5. CASE On(n)
    <3>1. z = y + w
      BY <2>3, <2>5
    <3>2. \A k \in 0 .. n : BitOf(z, k) = IF On(k) THEN 1 ELSE 0
      BY <2>1, <2>2, <2>4, <2>5, <3>1
    <3> QED
      BY <2>1, <2>4, <3>1, <3>2
  <2>6. CASE ~On(n)
    <3>1. z = y
      <4>1. y \in Int
        BY <2>2, <2>4
      <4> HIDE DEF y
      <4>2. z = y + 0
        BY <2>3, <2>6 DEF y
      <4> QED
        BY <4>1, <4>2
    <3>2. \A k \in 0 .. n : BitOf(z, k) = IF On(k) THEN 1 ELSE 0
      BY <2>1, <2>2, <2>4, <2>6, <3>1
    <3> QED
      BY <2>1, <2>4, <3>1, <3>2
  <2> QED
    BY <2>5, <2>6
<1>7. Right(Width)
  <2>1. Width \in T
    <3>1. \A n \in 0 .. Width : n \in T
      <4> HIDE DEF T
      <4> QED
        BY <1>0, <1>5, <1>6, Induction
    <3> QED
      BY <1>0, <3>1
  <2> QED
    BY <2>1
<1>8. \A n \in Position : BitOf(Gate(table, a, b), n) = IF On(n) THEN 1 ELSE 0
  BY <1>3, <1>7 DEF Position
<1>9. Gate(table, a, b) \in Word
  BY <1>0, <1>3, <1>7, Weights DEF Word
<1> QED
  BY <1>8, <1>9 DEF Bits, On

\* A bit is 0 or 1.
LEMMA BitValues ==
  ASSUME NEW x \in Int, NEW n \in Position
  PROVE  BitOf(x, n) \in {0, 1}
<1>1. Weight[n] \in Nat \ {0}
  BY Weights, Widths DEF Position
<1>2. x \div Weight[n] \in Int
  BY <1>1, DivMod
<1> QED
  BY <1>2 DEF BitOf

\* The shifts of a word, as sets of bits.
LEMMA ShiftsMoveBits ==
  ASSUME NEW a \in Word, NEW s \in Position
  PROVE  /\ Bits(Wrap(Signed(a) * Weight[s])) = {n \in Position : n - s \in Bits(a)}
         /\ Bits(Wrap(a \div Weight[s])) =
              {n \in Position : n + s \in Position /\ n + s \in Bits(a)}
         /\ Bits(Wrap(Signed(a) \div Weight[s])) =
              {n \in Position : IF n + s \in Position THEN n + s \in Bits(a)
                                ELSE Width - 1 \in Bits(a)}
<1>1. /\ Weight[s] \in Nat \ {0} /\ s \in Nat /\ Width \in Nat /\ Position \subseteq Nat
      /\ Modulus \in Nat \ {0} /\ MinInt \in Nat \ {0} /\ Modulus = 2 * MinInt
  BY Weights, Widths, Sign DEF Position
<1>2. /\ Signed(a) \in Int /\ a \in Int
      /\ Signed(a) \in (-Modulus) .. (Modulus - 1)
      /\ a \in (-Modulus) .. (Modulus - 1) /\ a >= 0
      /\ Signed(a) < 0 <=> IsNeg(a)
  BY <1>1, SignedValue DEF Word
<1>3. ASSUME NEW n \in Position
      PROVE  BitOf(Wrap(Signed(a) * Weight[s]), n) = 1 <=> n - s \in Bits(a)
  <2> DEFINE x == Signed(a)
             y == x * Weight[s]
  <2>1. y \in Int
    BY <1>1, <1>2
  <2>2. BitOf(Wrap(y), n) = BitOf(y, n)
    <3> HIDE DEF y
    <3> QED
      BY <2>1, WordBits
  <2>3. CASE n >= s
    <3>1. n - s \in Position
      BY <1>1, <2>3 DEF Position
    <3>2. BitOf(y, n) = BitOf(x, n - s) /\ BitOf(x, n - s) = BitOf(a, n - s)
      BY <1>2, <2>3, <3>1, LeftBits, WordBits
    <3> QED
      BY <2>2, <3>1, <3>2 DEF Bits
  <2>4. CASE n < s
    <3>1. n - s \notin Position
      BY <1>1, <2>4 DEF Position
    <3>2. BitOf(y, n) = 0
      BY <1>2, <2>4, LeftBits
    <3> QED
      BY <2>2, <3>1, <3>2 DEF Bits
  <2> QED
    BY <1>1, <2>3, <2>4
<1>4. ASSUME NEW n \in Position, NEW x \in {a, Signed(a)}
      PROVE  BitOf(Wrap(x \div Weight[s]), n) =
               IF n + s \in Position THEN BitOf(a, n + s)
               ELSE IF x < 0 THEN 1 ELSE 0
  <2> DEFINE y == x \div Weight[s]
  <2>1. y \in Int /\ x \in (-Modulus) .. (Modulus - 1)
    BY <1>1, <1>2, DivMod
  <2>2. BitOf(Wrap(y), n) = BitOf(y, n)
    <3> HIDE DEF y
    <3> QED
      BY <2>1, WordBits
  <2>3. BitOf(y, n) = IF n + s \in Position THEN BitOf(x, n + s)
                      ELSE IF x < 0 THEN 1 ELSE 0
    BY <2>1, RightBits
  <2>4. ASSUME n + s \in Position PROVE BitOf(x, n + s) = BitOf(a, n + s)
    BY <2>4, WordBits
  <2> QED
    BY <2>2, <2>3, <2>4
<1>5. Width - 1 \in Bits(a) <=> IsNeg(a)
  BY SignBit
<1>6. Bits(Wrap(Signed(a) * Weight[s])) = {n \in Position : n - s \in Bits(a)}
  BY <1>3 DEF Bits
<1>7. Bits(Wrap(a \div Weight[s])) =
        {n \in Position : n + s \in Position /\ n + s \in Bits(a)}
  BY <1>2, <1>4 DEF Bits
<1>8. Bits(Wrap(Signed(a) \div Weight[s])) =
        {n \in Position : IF n + s \in Position THEN n + s \in Bits(a)
                          ELSE Width - 1 \in Bits(a)}
  <2>1. ASSUME NEW n \in Position
        PROVE  BitOf(Wrap(Signed(a) \div Weight[s]), n) = 1 <=>
                 IF n + s \in Position THEN BitOf(a, n + s) = 1 ELSE IsNeg(a)
    BY <1>2, <1>4
  <2> HIDE DEF Position
  <2> QED
    BY <1>5, <2>1 DEF Bits
<1> QED
  BY <1>6, <1>7, <1>8

\* The shifts and the logical instructions are those of RISC-V for words of every
\* width, whatever the casts between signed and unsigned in exe_wecomb do.
THEOREM BitsAreRiscv == ASpec => []BitwiseIsRiscv
<1>1. InputsOK => BitwiseIsRiscv
  <2> SUFFICES ASSUME InputsOK PROVE BitwiseIsRiscv
    OBVIOUS
  <2>1. lhs \in Word /\ rhs \in Word /\ f3 \in Funct3
    BY DEF InputsOK
  <2>2. ASSUME IsShift \/ IsLogical
        PROVE  result_pipeline = exe_OPI(f3, f7, lhs, rhs)
    BY <2>2 DEF IsShift, IsLogical, result_pipeline, PipelineResult, exe_OP
  <2>3. ASSUME IsShift
        PROVE  \E s \in Position : /\ Bits(s) = Bits(rhs) \cap 0 .. (ShiftBits - 1)
                                   /\ Bits(result_pipeline) = ShiftedBits(s)
    <3> DEFINE s == Shamt(rhs)
    <3>1. s \in Position /\ Bits(s) = Bits(rhs) \cap 0 .. (ShiftBits - 1)
      BY <2>1, ShiftCount
    <3>2. /\ Bits(Wrap(Signed(lhs) * Weight[s])) = {n \in Position : n - s \in Bits(lhs)}
          /\ Bits(Wrap(lhs \div Weight[s])) =
               {n \in Position : n + s \in Position /\ n + s \in Bits(lhs)}
          /\ Bits(Wrap(Signed(lhs) \div Weight[s])) =
               {n \in Position : IF n + s \in Position THEN n + s \in Bits(lhs)
                                 ELSE Width - 1 \in Bits(lhs)}
      <4> HIDE DEF s
      <4> QED
        BY <2>1, <3>1, ShiftsMoveBits
    <3>3. f3 \in {1, 5}
      BY <2>3 DEF IsShift
    <3>4. Bits(result_pipeline) = ShiftedBits(s)
      <4>1. CASE f3 = 1
        <5>1. result_pipeline = Wrap(Signed(lhs) * Weight[s])
          BY <2>2, <2>3, <4>1 DEF exe_OPI
        <5> HIDE DEF s
        <5> QED
          BY <3>2, <4>1, <5>1 DEF ShiftedBits
      <4>2. CASE f3 = 5 /\ f7 = 32
        <5>1. result_pipeline = Wrap(Signed(lhs) \div Weight[s])
          BY <2>2, <2>3, <4>2 DEF exe_OPI, IsAlternate
        <5>2. ShiftedBits(s) =
                {n \in Position : IF n + s \in Position THEN n + s \in Bits(lhs)
                                  ELSE Width - 1 \in Bits(lhs)}
          <6> HIDE DEF s
          <6>1. f3 # 1 /\ f7 = 32
            BY <4>2
          <6> QED
            BY <6>1, Zenon DEF ShiftedBits
        <5> HIDE DEF s
        <5> QED
          BY <3>2, <5>1, <5>2
      <4>3. CASE f3 = 5 /\ f7 # 32
        <5>1. result_pipeline = Wrap(lhs \div Weight[s])
          BY <2>2, <2>3, <4>3 DEF exe_OPI, IsAlternate
        <5>2. ShiftedBits(s) =
                {n \in Position : n + s \in Position /\ n + s \in Bits(lhs)}
          <6> HIDE DEF s
          <6>1. f3 # 1 /\ ~(f7 = 32)
            BY <4>3
          <6> QED
            BY <6>1, Zenon DEF ShiftedBits
        <5> HIDE DEF s
        <5> QED
          BY <3>2, <5>1, <5>2
      <4> QED
        BY <3>3, <4>1, <4>2, <4>3
    <3> HIDE DEF s
    <3> QED
      BY <3>1, <3>4
  <2>4. ASSUME IsLogical PROVE Bits(result_pipeline) = LogicalBits
    <3>1. ASSUME NEW n \in Position
          PROVE  /\ BitOf(lhs, n) \in {0, 1} /\ BitOf(rhs, n) \in {0, 1}
                 /\ n \in Bits(lhs) <=> BitOf(lhs, n) = 1
                 /\ n \in Bits(rhs) <=> BitOf(rhs, n) = 1
      <4>1. lhs \in Int /\ rhs \in Int
        BY <2>1, Sign DEF Word
      <4> QED
        BY <4>1, BitValues DEF Bits
    <3>2. Bits(lhs) \subseteq Position /\ Bits(rhs) \subseteq Position
      BY DEF Bits
    <3>3. ASSUME NEW table, result_pipeline = Gate(table, lhs, rhs)
          PROVE  \A n : n \in Bits(result_pipeline) <=>
                   n \in Position /\ <<BitOf(lhs, n), BitOf(rhs, n)>> \in table
      <4>1. Bits(Gate(table, lhs, rhs)) =
              {n \in Position : <<BitOf(lhs, n), BitOf(rhs, n)>> \in table}
        BY GateBits
      <4> QED
        BY <3>3, <4>1
    <3>4. CASE f3 = 4
      <4>1. result_pipeline = Gate({<<0, 1>>, <<1, 0>>}, lhs, rhs)
        BY <2>2, <2>4, <3>4 DEF exe_OPI, Xor
      <4>2. \A n : n \in Bits(result_pipeline) <=>
              n \in Position /\ <<BitOf(lhs, n), BitOf(rhs, n)>> \in {<<0, 1>>, <<1, 0>>}
        BY <3>3, <4>1, Zenon
      <4>3. ASSUME NEW n \in Position
            PROVE  n \in Bits(result_pipeline) <=>
                     n \in (Bits(lhs) \cup Bits(rhs)) \ (Bits(lhs) \cap Bits(rhs))
        BY <3>1, <4>2
      <4> QED
        BY <3>2, <3>4, <4>2, <4>3 DEF LogicalBits
    <3>5. CASE f3 = 6
      <4>1. result_pipeline = Gate({<<0, 1>>, <<1, 0>>, <<1, 1>>}, lhs, rhs)
        BY <2>2, <2>4, <3>5 DEF exe_OPI, Or
      <4>2. \A n : n \in Bits(result_pipeline) <=>
              n \in Position /\ <<BitOf(lhs, n), BitOf(rhs, n)>>
                                  \in {<<0, 1>>, <<1, 0>>, <<1, 1>>}
        BY <3>3, <4>1, Zenon
      <4>3. ASSUME NEW n \in Position
            PROVE  n \in Bits(result_pipeline) <=> n \in Bits(lhs) \cup Bits(rhs)
        BY <3>1, <4>2
      <4> QED
        BY <3>2, <3>5, <4>2, <4>3 DEF LogicalBits
    <3>6. CASE f3 = 7
      <4>1. result_pipeline = Gate({<<1, 1>>}, lhs, rhs)
        BY <2>2, <2>4, <3>6 DEF exe_OPI, And
      <4>2. \A n : n \in Bits(result_pipeline) <=>
              n \in Position /\ <<BitOf(lhs, n), BitOf(rhs, n)>> \in {<<1, 1>>}
        BY <3>3, <4>1, Zenon
      <4>3. ASSUME NEW n \in Position
            PROVE  n \in Bits(result_pipeline) <=> n \in Bits(lhs) \cap Bits(rhs)
        BY <3>1, <4>2
      <4> QED
        BY <3>2, <3>6, <4>2, <4>3 DEF LogicalBits
    <3> QED
      BY <2>4, <3>4, <3>5, <3>6 DEF IsLogical
  <2> QED
    BY <2>3, <2>4 DEF BitwiseIsRiscv
<1> QED
  BY <1>1, InputsInvariant, PTL

-----------------------------------------------------------------------------
(* The data memories of the two cores.                                     *)

\* The two data memories answer and store alike, one with a mask, one with
\* funct3: they hold the same words after any requests (dcache in
\* scriscv_core.cpp and in scriscv_scalar.cpp).
THEOREM BothMemoriesAgree == MSpec => []MemoriesAgree
<1>1. MInit => MemoriesAgree
  BY DEF MInit, MemoriesAgree
<1>2. ASSUME NEW c \in Loads, NEW a, NEW w
      PROVE  scalar_LOAD(c, a, w) = dcache_LOAD(MaskOf(c), a, w)
  <2>1. c \in {0, 1, 2, 4, 5}
    BY DEF Loads
  <2>2. MaskOf(c) = IF c = 0 THEN "BYTE" ELSE IF c = 1 THEN "HALF"
                    ELSE IF c = 4 THEN "BYTE_U" ELSE IF c = 5 THEN "HALF_U"
                    ELSE "WORD"
    BY DEF MaskOf
  <2> QED
    BY <2>1, <2>2 DEF scalar_LOAD, dcache_LOAD
<1>3. ASSUME NEW c \in Stores, NEW a, NEW w, NEW d
      PROVE  scalar_STORE(c, a, w, d) = dcache_STORE(MaskOf(c), a, w, d)
  <2>1. c \in {0, 1, 2}
    BY DEF Stores
  <2>2. MaskOf(c) = IF c = 0 THEN "BYTE" ELSE IF c = 1 THEN "HALF" ELSE "WORD"
    BY <2>1 DEF MaskOf
  <2> QED
    BY <2>1, <2>2 DEF scalar_STORE, dcache_STORE
<1>4. MemoriesAgree /\ [MNext]_mvars => MemoriesAgree'
  <2> SUFFICES ASSUME MemoriesAgree, [MNext]_mvars PROVE MemoriesAgree'
    OBVIOUS
  <2>1. ASSUME NEW c \in Loads, NEW a \in DramAddress, Load(c, a)
        PROVE  MemoriesAgree'
    BY <1>2, <2>1 DEF Load, MemoriesAgree
  <2>2. ASSUME NEW c \in Stores, NEW a \in DramAddress, NEW d \in DataWords,
               Store(c, a, d)
        PROVE  MemoriesAgree'
    BY <1>3, <2>2 DEF Store, MemoriesAgree
  <2>3. CASE UNCHANGED mvars
    BY <2>3 DEF mvars, MemoriesAgree
  <2> QED
    BY <2>1, <2>2, <2>3 DEF MNext
<1> QED
  BY <1>1, <1>4, PTL DEF MSpec

-----------------------------------------------------------------------------
(* Words and their four bytes.                                             *)

\* d is the last digit of x to the base B, y the number without it.
Splits(B, x, y, d) ==
  x \in Nat /\ y \in Nat /\ d \in 0 .. (B - 1) /\ x = B * y + d

\* Quotient and remainder split a number.
LEMMA SplitFinds ==
  ASSUME NEW B \in Nat \ {0}, NEW x, NEW y, NEW d, Splits(B, x, y, d)
  PROVE  x \div B = y /\ x % B = d
BY DivUnique DEF Splits

\* Two digits are one digit to the base of the square.
LEMMA TwoDigits ==
  ASSUME NEW B \in Nat \ {0}, NEW x, NEW y, NEW z, NEW d, NEW e,
         Splits(B, x, y, d), Splits(B, y, z, e)
  PROVE  B * B \in Nat \ {0} /\ Splits(B * B, x, z, d + B * e)
<1>1. /\ x \in Nat /\ y \in Nat /\ z \in Nat /\ d \in 0 .. (B - 1)
      /\ e \in 0 .. (B - 1) /\ x = B * y + d /\ y = B * z + e
  BY DEF Splits
<1>2. ASSUME NEW u \in 0 .. (B - 1), NEW v \in 0 .. (B - 1)
      PROVE  u + B * v \in 0 .. (B * B - 1)
  <2>1. B * v <= B * (B - 1) /\ B * (B - 1) = B * B - B /\ B * v \in Nat
    OBVIOUS
  <2> QED
    BY <2>1
<1>3. ASSUME NEW u \in Nat, NEW v \in Nat, NEW w \in Nat
      PROVE  B * (B * u + v) + w = (B * B) * u + (w + B * v)
  OBVIOUS
<1>4. x = (B * B) * z + (d + B * e)
  BY <1>1, <1>3
<1>5. B * B \in Nat \ {0}
  OBVIOUS
<1> QED
  BY <1>1, <1>2, <1>4, <1>5 DEF Splits

\* The number of four digits to the base B, the last of them first.
OfDigits(B, b1, b2, b3, b4) == b1 + B * (b2 + B * (b3 + B * b4))

\* The digits of n, and its two digits to the base of the square.
HasDigits(n, B, b1, b2, b3, b4) ==
  /\ n \in Nat
  /\ n % B = b1 /\ (n \div B) % B = b2
  /\ (n \div (B * B)) % B = b3 /\ (n \div (B * B * B)) % B = b4
  /\ n % (B * B) = b1 + B * b2
  /\ (n \div (B * B)) % (B * B) = b3 + B * b4

\* The quotients and remainders of a number of four digits are its digits.
LEMMA DigitsOfNumber ==
  ASSUME NEW B \in Nat \ {0}, NEW b1 \in 0 .. (B - 1), NEW b2 \in 0 .. (B - 1),
         NEW b3 \in 0 .. (B - 1), NEW b4 \in 0 .. (B - 1)
  PROVE  HasDigits(OfDigits(B, b1, b2, b3, b4), B, b1, b2, b3, b4)
<1> DEFINE n2 == b3 + B * b4
           n1 == b2 + B * n2
           n == b1 + B * n1
           C == B * B
<1>1. ASSUME NEW x \in Nat, NEW d \in 0 .. (B - 1)
      PROVE  Splits(B, d + B * x, x, d) /\ d + B * x \in Nat
  <2>1. d + B * x \in Nat /\ d + B * x = B * x + d
    OBVIOUS
  <2> QED
    BY <2>1 DEF Splits
<1>2. Splits(B, n2, b4, b3) /\ n2 \in Nat
  BY <1>1
<1>3. Splits(B, n1, n2, b2) /\ n1 \in Nat
  <2> HIDE DEF n2
  <2> QED
    BY <1>1, <1>2
<1>4. Splits(B, n, n1, b1) /\ n \in Nat
  <2> HIDE DEF n1
  <2> QED
    BY <1>1, <1>3
<1>5. Splits(B, b4, 0, b4)
  BY B * 0 = 0 DEF Splits
<1> HIDE DEF n, n1, n2
<1>6. C \in Nat \ {0} /\ Splits(C, n, n2, b1 + B * b2)
      /\ Splits(C, n2, 0, b3 + B * b4)
  BY <1>2, <1>3, <1>4, <1>5, TwoDigits
<1>7. C \in Nat \ {0} /\ n \in Int
  BY <1>4, <1>6
<1>8. /\ n % B = b1 /\ n \div B = n1 /\ n1 % B = b2 /\ n2 % B = b3
      /\ n2 \div B = b4 /\ b4 % B = b4
  BY <1>2, <1>3, <1>4, <1>5, SplitFinds
<1>9. n \div C = n2 /\ n % C = b1 + B * b2 /\ n2 % C = b3 + B * b4
  <2> HIDE DEF C
  <2> QED
    BY <1>6, SplitFinds
<1>10. n \div (C * B) = b4
  <2>1. (n \div C) \div B = n \div (C * B)
    <3> HIDE DEF C
    <3> QED
      BY <1>7, DivDiv
  <2> QED
    BY <1>8, <1>9, <2>1
<1>11. /\ n \in Nat /\ n % B = b1 /\ (n \div B) % B = b2
       /\ (n \div (B * B)) % B = b3 /\ (n \div (B * B * B)) % B = b4
       /\ n % (B * B) = b1 + B * b2
       /\ (n \div (B * B)) % (B * B) = b3 + B * b4
  BY <1>4, <1>8, <1>9, <1>10
<1> QED
  BY <1>11 DEF n, n1, n2, OfDigits, HasDigits

\* Every number below the fourth power is one of four digits.
LEMMA NumberOfDigits ==
  ASSUME NEW B \in Nat \ {0}, NEW n \in 0 .. (B * B * B * B - 1)
  PROVE  /\ n % B \in 0 .. (B - 1) /\ (n \div B) % B \in 0 .. (B - 1)
         /\ (n \div (B * B)) % B \in 0 .. (B - 1)
         /\ (n \div (B * B * B)) % B \in 0 .. (B - 1)
         /\ n = (n % B) + B * (((n \div B) % B)
                  + B * (((n \div (B * B)) % B) + B * ((n \div (B * B * B)) % B)))
<1> DEFINE C == B * B
           D == B * B * B
           n1 == n \div B
           n2 == n \div C
           n3 == n \div D
<1>1. C \in Nat \ {0} /\ D \in Nat \ {0} /\ D = C * B /\ n \in Int
  OBVIOUS
<1>2. n1 \div B = n2
  BY <1>1, DivDiv
<1>3. n2 \div B = n3
  <2> HIDE DEF C, D
  <2> QED
    BY <1>1, DivDiv
<1>4. n3 \in 0 .. (B - 1)
  <2>1. D * 0 <= n /\ n < D * B
    OBVIOUS
  <2> HIDE DEF D
  <2>2. 0 <= n3 /\ n3 < B /\ n3 \in Int
    BY <1>1, <2>1, DivBounds, DivMod
  <2> QED
    BY <2>2
<1>5. n3 % B = n3
  <2> HIDE DEF n3
  <2> QED
    BY <1>4, DivSmall
<1>6. n1 \in Int /\ n2 \in Int /\ n3 \in Int
  <2> HIDE DEF C, D
  <2> QED
    BY <1>1, DivMod
<1>7. /\ n % B \in 0 .. (B - 1) /\ n = B * n1 + (n % B)
  BY <1>1, DivMod
<1> HIDE DEF n1, n2, n3
<1>8. /\ n1 % B \in 0 .. (B - 1) /\ n1 = B * n2 + (n1 % B)
      /\ n2 % B \in 0 .. (B - 1) /\ n2 = B * n3 + (n2 % B)
  BY <1>2, <1>3, <1>6, DivMod
<1>9. n = (n % B) + B * ((n1 % B) + B * ((n2 % B) + B * (n3 % B)))
  <2> DEFINE x == n % B
             y == n1 % B
             z == n2 % B
  <2>1. /\ n = B * n1 + x /\ n1 = B * n2 + y /\ n2 = B * n3 + z
        /\ x \in Int /\ y \in Int /\ z \in Int
    BY <1>7, <1>8
  <2> HIDE DEF x, y, z
  <2>2. n2 = z + B * n3
    BY <1>6, <2>1
  <2>3. n1 = y + B * n2
    BY <1>6, <2>1
  <2>4. n = x + B * n1
    BY <1>6, <2>1
  <2>5. n = x + B * (y + B * (z + B * n3))
    BY <2>2, <2>3, <2>4
  <2> QED
    BY <1>5, <2>5 DEF x, y, z
<1> QED
  BY <1>4, <1>5, <1>7, <1>8, <1>9 DEF n1, n2, n3

\* The sizes of bytes, half words and words are powers of that of a byte.
LEMMA Lanes ==
  LET B == Weight[ByteBits]
  IN  /\ B \in Nat \ {0}
      /\ Weight[ByteBits * 0] = 1 /\ Weight[ByteBits * 1] = B
      /\ Weight[ByteBits * 2] = B * B /\ Weight[ByteBits * 3] = B * B * B
      /\ Weight[HalfBits * 0] = 1 /\ Weight[HalfBits * 1] = B * B
      /\ Weight[HalfBits] = B * B /\ Modulus = B * B * B * B
      /\ B = 2 * Weight[ByteBits - 1] /\ B * B = 2 * Weight[HalfBits - 1]
<1> DEFINE B == Weight[ByteBits]
           k == ByteBits
<1>1. /\ k \in 1 .. Width /\ Width = 4 * k /\ HalfBits = 2 * k /\ Width = DivBits
      /\ DivBits \in Nat
  BY Widths
<1>2. /\ k \in 0 .. DivBits /\ 2 * k \in 0 .. DivBits /\ 3 * k \in 0 .. DivBits
      /\ k + k = 2 * k /\ 2 * k + k = 3 * k /\ 2 * k + 2 * k = DivBits
      /\ k * 0 = 0 /\ k * 1 = k /\ k * 2 = 2 * k /\ k * 3 = 3 * k
      /\ (2 * k) * 0 = 0 /\ (2 * k) * 1 = 2 * k
      /\ k - 1 \in 0 .. (DivBits - 1) /\ (k - 1) + 1 = k
      /\ 2 * k - 1 \in 0 .. (DivBits - 1) /\ (2 * k - 1) + 1 = 2 * k
  BY <1>1
<1> HIDE DEF k
<1>3. B \in Nat \ {0}
  BY <1>2, Weights DEF k
<1>4. Weight[2 * k] = B * B
  BY <1>2, WeightSum DEF k
<1>5. Weight[3 * k] = (B * B) * B
  <2>1. Weight[2 * k + k] = Weight[2 * k] * Weight[k]
    BY <1>2, WeightSum
  <2> QED
    BY <1>2, <1>4, <2>1 DEF k
<1>6. Modulus = (B * B) * (B * B)
  <2>1. Weight[2 * k + 2 * k] = Weight[2 * k] * Weight[2 * k]
    BY <1>2, WeightSum
  <2> QED
    BY <1>2, <1>4, <2>1, Weights DEF k
<1>7. (B * B) * (B * B) = B * B * B * B
  <2> HIDE DEF B
  <2> QED
    BY <1>3
<1>8. B = 2 * Weight[k - 1] /\ B * B = 2 * Weight[2 * k - 1]
  BY <1>2, <1>4, Weights DEF k
<1> QED
  BY <1>1, <1>2, <1>3, <1>4, <1>5, <1>6, <1>7, <1>8, Weights DEF k

\* The four digits of a word, and the word of four digits.
ByteSize == Weight[ByteBits]
Digit == 0 .. (ByteSize - 1)
Number(b) == OfDigits(ByteSize, b[1], b[2], b[3], b[4])
ByteOf(w, k) == LaneOf(w, ByteBits * k, ByteBits)
HalfOf(w, h) == LaneOf(w, HalfBits * h, HalfBits)

\* The bytes and half words of a word are made of its digits.
LEMMA WordOfDigits ==
  ASSUME NEW b \in [1 .. 4 -> Digit]
  PROVE  /\ Number(b) \in Word
         /\ \A k \in 0 .. 3 : ByteOf(Number(b), k) = b[k + 1]
         /\ HalfOf(Number(b), 0) = b[1] + ByteSize * b[2]
         /\ HalfOf(Number(b), 1) = b[3] + ByteSize * b[4]
<1> DEFINE B == ByteSize
           n == Number(b)
           C == B * B
<1>1. /\ B \in Nat \ {0}
      /\ Weight[ByteBits] = B /\ Weight[HalfBits] = B * B
      /\ Weight[ByteBits * 0] = 1 /\ Weight[ByteBits * 1] = B
      /\ Weight[ByteBits * 2] = B * B /\ Weight[ByteBits * 3] = B * B * B
      /\ Weight[HalfBits * 0] = 1 /\ Weight[HalfBits * 1] = B * B
      /\ Modulus = B * B * B * B
  BY Lanes DEF ByteSize
<1>2. /\ b[1] \in 0 .. (B - 1) /\ b[2] \in 0 .. (B - 1) /\ b[3] \in 0 .. (B - 1)
      /\ b[4] \in 0 .. (B - 1)
  BY DEF Digit
<1>3. n = OfDigits(B, b[1], b[2], b[3], b[4])
  BY DEF Number
<1> HIDE DEF B, n
<1>4. /\ n \in Nat /\ n % B = b[1] /\ (n \div B) % B = b[2]
      /\ (n \div (B * B)) % B = b[3] /\ (n \div (B * B * B)) % B = b[4]
      /\ n % (B * B) = b[1] + B * b[2]
      /\ (n \div (B * B)) % (B * B) = b[3] + B * b[4]
  <2>1. B \in Nat \ {0}
    BY <1>1
  <2>2. HasDigits(OfDigits(B, b[1], b[2], b[3], b[4]), B, b[1], b[2], b[3], b[4])
    BY <2>1, <1>2, DigitsOfNumber
  <2> QED
    BY <1>3, <2>2 DEF HasDigits
<1>5. n < B * B * B * B
  <2>1. ASSUME NEW A \in Nat \ {0}, NEW u \in 0 .. (A - 1), NEW v \in 0 .. (A - 1)
        PROVE  u + A * v \in 0 .. (A * A - 1)
    <3>1. A * v <= A * (A - 1) /\ A * (A - 1) = A * A - A /\ A * v \in Nat
      OBVIOUS
    <3> QED
      BY <3>1
  <2> DEFINE u == b[1] + B * b[2]
             v == b[3] + B * b[4]
  <2>2. C \in Nat \ {0} /\ u \in 0 .. (C - 1) /\ v \in 0 .. (C - 1)
    BY <1>1, <1>2, <2>1
  <2>3. u + C * v < C * C
    <3> HIDE DEF C, u, v
    <3> QED
      BY <2>1, <2>2
  <2>4. ASSUME NEW x1 \in Nat, NEW x2 \in Nat, NEW x3 \in Nat, NEW x4 \in Nat
        PROVE  x1 + B * (x2 + B * (x3 + B * x4)) = (x1 + B * x2) + (B * B) * (x3 + B * x4)
    BY <1>1
  <2>5. n = u + C * v
    BY <1>1, <1>2, <1>3, <2>4 DEF OfDigits
  <2>6. C * C = B * B * B * B
    BY <1>1
  <2> QED
    BY <2>3, <2>5, <2>6
<1>6. n \in Word
  BY <1>1, <1>4, <1>5, Sign DEF Word
<1>7. \A x \in Nat : x \div 1 = x
  OBVIOUS
<1>8. n \div 1 = n
  BY <1>4, <1>7
<1>9. /\ ByteOf(n, 0) = b[1] /\ ByteOf(n, 1) = b[2] /\ ByteOf(n, 2) = b[3]
      /\ ByteOf(n, 3) = b[4]
  BY <1>1, <1>4, <1>8 DEF ByteOf, LaneOf
<1>10. HalfOf(n, 0) = b[1] + B * b[2] /\ HalfOf(n, 1) = b[3] + B * b[4]
  BY <1>1, <1>4, <1>8 DEF HalfOf, LaneOf
<1>11. \A k \in 0 .. 3 : ByteOf(n, k) = b[k + 1]
  BY <1>9, 0 + 1 = 1, 1 + 1 = 2, 2 + 1 = 3, 3 + 1 = 4
<1> QED
  BY <1>6, <1>10, <1>11 DEF n, B

\* Every word has four digits: its bytes.
LEMMA DigitsOfWord ==
  ASSUME NEW w \in Word
  PROVE  \E b \in [1 .. 4 -> Digit] :
           /\ w = Number(b)
           /\ b[1] = w % ByteSize /\ b[2] = (w \div ByteSize) % ByteSize
           /\ b[3] = (w \div (ByteSize * ByteSize)) % ByteSize
           /\ b[4] = (w \div (ByteSize * ByteSize * ByteSize)) % ByteSize
<1> DEFINE B == ByteSize
           d1 == w % B
           d2 == (w \div B) % B
           d3 == (w \div (B * B)) % B
           d4 == (w \div (B * B * B)) % B
           b == [k \in 1 .. 4 |-> IF k = 1 THEN d1 ELSE IF k = 2 THEN d2
                                  ELSE IF k = 3 THEN d3 ELSE d4]
<1>1. B \in Nat \ {0} /\ w \in 0 .. (B * B * B * B - 1)
  BY Lanes DEF ByteSize, Word
<1> HIDE DEF B
<1>2. /\ d1 \in 0 .. (B - 1) /\ d2 \in 0 .. (B - 1) /\ d3 \in 0 .. (B - 1)
      /\ d4 \in 0 .. (B - 1)
      /\ w = d1 + B * (d2 + B * (d3 + B * d4))
  BY <1>1, NumberOfDigits
<1> HIDE DEF d1, d2, d3, d4
<1>3. b \in [1 .. 4 -> 0 .. (B - 1)]
  BY <1>2
<1>4. b[1] = d1 /\ b[2] = d2 /\ b[3] = d3 /\ b[4] = d4
  OBVIOUS
<1> HIDE DEF b
<1>5. b \in [1 .. 4 -> Digit] /\ w = Number(b)
  BY <1>2, <1>3, <1>4 DEF Digit, Number, OfDigits, B
<1> QED
  BY <1>4, <1>5 DEF d1, d2, d3, d4, B

\* A store of a byte or of a half word replaces one or two digits.
LEMMA StoredDigits ==
  ASSUME NEW b \in [1 .. 4 -> Digit], NEW e \in [1 .. 4 -> Digit]
  PROVE  LET w == Number(b)  d == Number(e)
         IN  /\ \A k \in 0 .. 3 : SetLane(w, ByteBits * k, ByteBits, d)
                                    = Number([b EXCEPT ![k + 1] = e[1]])
             /\ \A h \in 0 .. 1 : SetLane(w, HalfBits * h, HalfBits, d)
                  = Number([b EXCEPT ![2 * h + 1] = e[1], ![2 * h + 2] = e[2]])
<1> DEFINE B == ByteSize
           w == Number(b)
           d == Number(e)
<1>1. /\ B \in Nat \ {0}
      /\ Weight[ByteBits] = B /\ Weight[HalfBits] = B * B
      /\ Weight[ByteBits * 0] = 1 /\ Weight[ByteBits * 1] = B
      /\ Weight[ByteBits * 2] = B * B /\ Weight[ByteBits * 3] = B * B * B
      /\ Weight[HalfBits * 0] = 1 /\ Weight[HalfBits * 1] = B * B
  BY Lanes DEF ByteSize
<1>2. /\ \A k \in 1 .. 4 : b[k] \in Nat /\ e[k] \in Nat
      /\ w = b[1] + B * (b[2] + B * (b[3] + B * b[4])) /\ w \in Nat
  <2>1. \A k \in 1 .. 4 : b[k] \in Nat /\ e[k] \in Nat
    BY <1>1 DEF Digit
  <2>2. w \in Nat
    BY WordOfDigits, Sign DEF Word
  <2> QED
    BY <2>1, <2>2 DEF Number, OfDigits
<1>3. /\ \A k \in 0 .. 3 : LaneOf(w, ByteBits * k, ByteBits) = b[k + 1]
      /\ LaneOf(w, HalfBits * 0, HalfBits) = b[1] + B * b[2]
      /\ LaneOf(w, HalfBits * 1, HalfBits) = b[3] + B * b[4]
  BY WordOfDigits DEF ByteOf, HalfOf
<1>4. d % B = e[1] /\ d % (B * B) = e[1] + B * e[2]
  <2>1. /\ LaneOf(d, ByteBits * 0, ByteBits) = e[0 + 1]
        /\ LaneOf(d, HalfBits * 0, HalfBits) = e[1] + B * e[2] /\ d \in Nat
    BY WordOfDigits, Sign DEF ByteOf, HalfOf, Word
  <2>2. d \div 1 = d
    BY <2>1
  <2> QED
    BY <1>1, <2>1, <2>2, 0 + 1 = 1 DEF LaneOf
<1> HIDE DEF B, w, d
<1> DEFINE x == e[1]
           y == e[2]
           b1 == b[1]
           b2 == b[2]
           b3 == b[3]
           b4 == b[4]
<1>5. ASSUME NEW c \in [1 .. 4 -> Nat]
      PROVE  Number(c) = c[1] + B * (c[2] + B * (c[3] + B * c[4]))
  BY DEF Number, OfDigits, B
<1>6. /\ x \in Nat /\ y \in Nat /\ b1 \in Nat /\ b2 \in Nat /\ b3 \in Nat /\ b4 \in Nat
      /\ b \in [1 .. 4 -> Nat]
  BY <1>2
<1>7. /\ SetLane(w, ByteBits * 0, ByteBits, d) = w + (x - b1) * 1
      /\ SetLane(w, ByteBits * 1, ByteBits, d) = w + (x - b2) * B
      /\ SetLane(w, ByteBits * 2, ByteBits, d) = w + (x - b3) * (B * B)
      /\ SetLane(w, ByteBits * 3, ByteBits, d) = w + (x - b4) * (B * B * B)
      /\ SetLane(w, HalfBits * 0, HalfBits, d) = w + ((x + B * y) - (b1 + B * b2)) * 1
      /\ SetLane(w, HalfBits * 1, HalfBits, d)
           = w + ((x + B * y) - (b3 + B * b4)) * (B * B)
  BY <1>1, <1>3, <1>4, 0 + 1 = 1, 1 + 1 = 2, 2 + 1 = 3, 3 + 1 = 4 DEF SetLane
<1>8. /\ Number([b EXCEPT ![1] = x]) = x + B * (b2 + B * (b3 + B * b4))
      /\ Number([b EXCEPT ![2] = x]) = b1 + B * (x + B * (b3 + B * b4))
      /\ Number([b EXCEPT ![3] = x]) = b1 + B * (b2 + B * (x + B * b4))
      /\ Number([b EXCEPT ![4] = x]) = b1 + B * (b2 + B * (b3 + B * x))
      /\ Number([b EXCEPT ![1] = x, ![2] = y]) = x + B * (y + B * (b3 + B * b4))
      /\ Number([b EXCEPT ![3] = x, ![4] = y]) = b1 + B * (b2 + B * (x + B * y))
  BY <1>6 DEF Number, OfDigits, B
<1>9. w = b1 + B * (b2 + B * (b3 + B * b4))
  BY <1>2
<1> HIDE DEF x, y, b1, b2, b3, b4
<1>10. /\ w + (x - b1) * 1 = x + B * (b2 + B * (b3 + B * b4))
       /\ w + (x - b2) * B = b1 + B * (x + B * (b3 + B * b4))
       /\ w + (x - b3) * (B * B) = b1 + B * (b2 + B * (x + B * b4))
       /\ w + (x - b4) * (B * B * B) = b1 + B * (b2 + B * (b3 + B * x))
       /\ w + ((x + B * y) - (b1 + B * b2)) * 1 = x + B * (y + B * (b3 + B * b4))
       /\ w + ((x + B * y) - (b3 + B * b4)) * (B * B) = b1 + B * (b2 + B * (x + B * y))
  BY <1>1, <1>6, <1>9
<1>11. ASSUME NEW k \in 0 .. 3
       PROVE  SetLane(w, ByteBits * k, ByteBits, d) = Number([b EXCEPT ![k + 1] = x])
  <2>1. CASE k = 0
    BY <2>1, <1>7, <1>8, <1>10, 0 + 1 = 1
  <2>2. CASE k = 1
    BY <2>2, <1>7, <1>8, <1>10, 1 + 1 = 2
  <2>3. CASE k = 2
    BY <2>3, <1>7, <1>8, <1>10, 2 + 1 = 3
  <2>4. CASE k = 3
    BY <2>4, <1>7, <1>8, <1>10, 3 + 1 = 4
  <2> QED
    BY <2>1, <2>2, <2>3, <2>4
<1>12. ASSUME NEW h \in 0 .. 1
       PROVE  SetLane(w, HalfBits * h, HalfBits, d)
                = Number([b EXCEPT ![2 * h + 1] = x, ![2 * h + 2] = y])
  <2>1. CASE h = 0
    BY <2>1, <1>7, <1>8, <1>10, 2 * 0 + 1 = 1, 2 * 0 + 2 = 2
  <2>2. CASE h = 1
    BY <2>2, <1>7, <1>8, <1>10, 2 * 1 + 1 = 3, 2 * 1 + 2 = 4
  <2> QED
    BY <2>1, <2>2
<1> QED
  BY <1>11, <1>12 DEF w, d, x, y

-----------------------------------------------------------------------------
(* A data memory of words is one of bytes.                                 *)

\* An address is a word of the memory and one of its four bytes.
LEMMA AddressParts ==
  ASSUME NEW i \in 0 .. (Cells - 1), NEW j \in 0 .. 3
  PROVE  /\ 4 * i + j \in DramAddress
         /\ Cell(4 * i + j) = i /\ (4 * i + j) % 4 = j
         /\ ByteLane(4 * i + j) = ByteBits * j
         /\ HalfLane(4 * i + j) = HalfBits * (IF j < 2 THEN 0 ELSE 1)
         /\ \A m \in [0 .. (Cells - 1) -> Word] :
              BytesOf(m)[4 * i + j] = ByteOf(m[i], j)
<1> DEFINE x == 4 * i + j
<1>1. Cells \in Nat /\ DataBytes = 4 /\ i \in Nat /\ j \in Nat
  BY CellsAssumption, Sign
<1>2. x \in DramAddress /\ x \div 4 = i /\ x % 4 = j
  BY <1>1 DEF DramAddress
<1>3. (x \div 2) % 2 = IF j < 2 THEN 0 ELSE 1
  BY <1>1
<1> HIDE DEF x
<1>4. Cell(x) = i
  BY <1>1, <1>2 DEF Cell
<1>5. ByteLane(x) = ByteBits * j /\ HalfLane(x) = HalfBits * (IF j < 2 THEN 0 ELSE 1)
  BY <1>2, <1>3 DEF ByteLane, HalfLane
<1>6. ASSUME NEW m \in [0 .. (Cells - 1) -> Word]
      PROVE  BytesOf(m)[x] = ByteOf(m[i], j)
  BY <1>2, <1>4, <1>5 DEF BytesOf, ByteOf
<1> QED
  BY <1>2, <1>4, <1>5, <1>6 DEF x

\* Every address has these parts.
LEMMA PartsOfAddress ==
  ASSUME NEW a \in DramAddress
  PROVE  \E i \in 0 .. (Cells - 1), j \in 0 .. 3 : a = 4 * i + j
<1>1. Cells \in Nat /\ a \in 0 .. (4 * Cells - 1)
  BY CellsAssumption, Sign DEF DramAddress
<1>2. a \div 4 \in 0 .. (Cells - 1) /\ a % 4 \in 0 .. 3 /\ a = 4 * (a \div 4) + (a % 4)
  BY <1>1
<1> QED
  BY <1>2

\* Which bytes an access is about.
LEMMA AccessedBytes ==
  ASSUME NEW i \in Nat, NEW j \in 0 .. 3
  PROVE  /\ \A c \in {0, 4} : InBytes!Size(c) = 1
                              /\ InBytes!First(c, 4 * i + j) = 4 * i + j
         /\ \A c \in {1, 5} : InBytes!Size(c) = 2
                              /\ InBytes!First(c, 4 * i + j)
                                   = 4 * i + (IF j < 2 THEN 0 ELSE 2)
         /\ InBytes!Size(2) = 4 /\ InBytes!First(2, 4 * i + j) = 4 * i
<1> DEFINE x == 4 * i + j
<1>1. /\ x % 1 = 0 /\ x % 2 = (IF j \in {0, 2} THEN 0 ELSE 1) /\ x % 4 = j
      /\ x \in Nat
  OBVIOUS
<1> HIDE DEF x
<1>2. /\ \A c \in {0, 4} : InBytes!Size(c) = 1
      /\ \A c \in {1, 5} : InBytes!Size(c) = 2
      /\ InBytes!Size(2) = 4
  BY DEF InBytes!Size
<1>3. /\ \A c \in {0, 4} : InBytes!First(c, x) = x
      /\ \A c \in {1, 5} : InBytes!First(c, x) = x - (x % 2)
      /\ InBytes!First(2, x) = x - (x % 4)
  BY <1>1, <1>2 DEF InBytes!First
<1>4. x - (x % 2) = 4 * i + (IF j < 2 THEN 0 ELSE 2) /\ x - (x % 4) = 4 * i
  BY <1>1 DEF x
<1> QED
  BY <1>2, <1>3, <1>4 DEF x

\* The values of one, two and four bytes.
LEMMA PlaceValues ==
  LET B == ByteSize
  IN  /\ B \in Nat \ {0} /\ InBytes!Place[1] = 1 /\ InBytes!Place[2] = B
      /\ InBytes!Place[3] = B * B /\ InBytes!Place[4] = B * B * B
      /\ InBytes!Values(1) = B /\ InBytes!Values(2) = B * B
      /\ InBytes!Values(4) = Modulus
      /\ Weight[ByteBits] = B /\ Weight[HalfBits] = B * B
      /\ B = 2 * Weight[ByteBits - 1] /\ B * B = 2 * Weight[HalfBits - 1]
      /\ Weight[ByteBits - 1] \in Nat /\ Weight[HalfBits - 1] \in Nat
<1>1. /\ InBytes!Place[1] = 1 /\ InBytes!Place[2] = ByteSize
      /\ InBytes!Place[3] = ByteSize * ByteSize
      /\ InBytes!Place[4] = ByteSize * ByteSize * ByteSize
  BY DEF InBytes!Place, ByteSize
<1>2. /\ ByteSize \in Nat \ {0} /\ Weight[ByteBits] = ByteSize
      /\ Weight[HalfBits] = ByteSize * ByteSize
      /\ Modulus = ByteSize * ByteSize * ByteSize * ByteSize
      /\ ByteSize = 2 * Weight[ByteBits - 1]
      /\ ByteSize * ByteSize = 2 * Weight[HalfBits - 1]
  BY Lanes DEF ByteSize
<1>3. /\ InBytes!Values(1) = InBytes!Place[2] /\ InBytes!Values(2) = InBytes!Place[3]
      /\ InBytes!Values(4) = InBytes!Place[4] * ByteSize
  BY 1 + 1 = 2, 2 + 1 = 3 DEF InBytes!Values, ByteSize
<1>4. ByteBits - 1 \in 0 .. DivBits /\ HalfBits - 1 \in 0 .. DivBits
  BY Widths
<1>5. Weight[ByteBits - 1] \in Nat /\ Weight[HalfBits - 1] \in Nat
  BY <1>4, Weights
<1> QED
  BY <1>1, <1>2, <1>3, <1>5

\* A number of k bits is filled with copies of its sign when it is at least half of
\* its power of two.
LEMMA SignExtended ==
  ASSUME NEW k, NEW v \in Nat, Weight[k - 1] \in Nat, Weight[k] = 2 * Weight[k - 1]
  PROVE  SignExtend(v, k) = IF 2 * v >= Weight[k] THEN v + Modulus - Weight[k] ELSE v
<1>1. v >= Weight[k - 1] <=> 2 * v >= Weight[k]
  OBVIOUS
<1> QED
  BY <1>1 DEF SignExtend

\* What a load of the words answers is what the bytes say.
LEMMA LoadsBytes ==
  ASSUME data \in [0 .. (Cells - 1) -> Word], NEW c \in Loads, NEW a \in DramAddress
  PROVE  dcache_LOAD(MaskOf(c), a, data[Cell(a)]) =
           LET v == InBytes!Read(InBytes!First(c, a), InBytes!Size(c))
           IN  IF InBytes!IsSignedLoad(c)
                    /\ 2 * v >= InBytes!Values(InBytes!Size(c))
               THEN v + InBytes!Values(4) - InBytes!Values(InBytes!Size(c)) ELSE v
<1>1. PICK i \in 0 .. (Cells - 1), j \in 0 .. 3 : a = 4 * i + j
  BY PartsOfAddress
<1> DEFINE w == data[i]
           B == ByteSize
           m == BytesOf(data)
<1>2. /\ Cell(a) = i /\ ByteLane(a) = ByteBits * j
      /\ HalfLane(a) = HalfBits * (IF j < 2 THEN 0 ELSE 1)
      /\ i \in Nat /\ w \in Word
  <2>1. /\ Cell(4 * i + j) = i /\ ByteLane(4 * i + j) = ByteBits * j
        /\ HalfLane(4 * i + j) = HalfBits * (IF j < 2 THEN 0 ELSE 1)
    BY AddressParts, Zenon
  <2>2. i \in Nat /\ w \in Word
    BY CellsAssumption, Sign
  <2> QED
    BY <1>1, <2>1, <2>2
<1>3. \A k \in 0 .. 3 : m[4 * i + k] = ByteOf(w, k)
  BY <1>1, AddressParts
<1>4. PICK b \in [1 .. 4 -> Digit] : w = Number(b)
  BY <1>2, DigitsOfWord
<1>5. /\ \A k \in 0 .. 3 : ByteOf(w, k) = b[k + 1]
      /\ HalfOf(w, 0) = b[1] + B * b[2] /\ HalfOf(w, 1) = b[3] + B * b[4]
  BY <1>4, WordOfDigits
<1>6. /\ InBytes!Place[1] = 1 /\ InBytes!Place[2] = B
      /\ InBytes!Place[3] = B * B /\ InBytes!Place[4] = B * B * B
  BY PlaceValues
<1> DEFINE C == B * B
<1>7. B \in Nat \ {0} /\ C \in Nat
  <2>1. B \in Nat \ {0}
    BY PlaceValues
  <2> HIDE DEF B
  <2> QED
    BY <2>1
<1>8. /\ InBytes!Values(1) = B /\ Weight[ByteBits] = B
      /\ B = 2 * Weight[ByteBits - 1] /\ Weight[ByteBits - 1] \in Nat
      /\ InBytes!Values(4) = Modulus /\ Modulus \in Nat
  BY PlaceValues, Sign
<1>9. /\ InBytes!Values(2) = C /\ Weight[HalfBits] = C
      /\ C = 2 * Weight[HalfBits - 1] /\ Weight[HalfBits - 1] \in Nat
  BY PlaceValues
<1>10. \A k \in 1 .. 4 : b[k] \in Nat
  BY <1>7 DEF Digit
<1>11. m[4 * i] = b[1] /\ m[4 * i + 1] = b[2] /\ m[4 * i + 2] = b[3] /\ m[4 * i + 3] = b[4]
  BY <1>2, <1>3, <1>5, 4 * i = 4 * i + 0, 0 + 1 = 1, 1 + 1 = 2, 2 + 1 = 3, 3 + 1 = 4
<1>12. /\ c \in {0, 1, 2, 4, 5}
       /\ InBytes!IsSignedLoad(c) <=> c \in {0, 1}
  BY DEF Loads, InBytes!IsSignedLoad
<1> HIDE DEF w, m, B, C
<1>13. \A x \in Nat :
         /\ InBytes!Read(x, 1) = m[x] * 1
         /\ InBytes!Read(x, 2) = m[x] * 1 + m[x + 1] * B
         /\ InBytes!Read(x, 4) = m[x] * 1 + m[x + 1] * B + m[x + 2] * (B * B)
                                   + m[x + 3] * (B * B * B)
  <2>1. \A x \in Nat : /\ (x + 1) - 1 = x /\ (x + 2) - 1 = x + 1
                       /\ (x + 3) - 1 = x + 2 /\ (x + 4) - 1 = x + 3
    OBVIOUS
  <2> QED
    BY <1>6, <2>1 DEF InBytes!Read, m
<1>14. CASE c \in {0, 4}
  <2> DEFINE v == b[j + 1]
  <2>1. InBytes!Size(c) = 1 /\ InBytes!First(c, a) = a
    BY <1>1, <1>2, <1>14, AccessedBytes
  <2>2. InBytes!Read(a, 1) = v /\ v \in Nat
    <3>1. m[a] = v /\ j + 1 \in 1 .. 4 /\ a \in Nat
      BY <1>1, <1>2, <1>3, <1>5
    <3> HIDE DEF v
    <3>2. v \in Nat
      BY <1>10, <3>1 DEF v
    <3>3. InBytes!Read(a, 1) = m[a] * 1
      BY <1>13, <3>1, Zenon
    <3> QED
      BY <3>1, <3>2, <3>3
  <2>3. LaneOf(w, ByteLane(a), ByteBits) = v
    BY <1>1, <1>2, <1>5 DEF ByteOf
  <2>4. dcache_LOAD(MaskOf(c), a, w) = IF c = 0 THEN SignExtend(v, ByteBits) ELSE v
    BY <1>14, <2>3 DEF dcache_LOAD, MaskOf
  <2>5. SignExtend(v, ByteBits) = IF 2 * v >= B THEN v + Modulus - B ELSE v
    <3> HIDE DEF v
    <3> QED
      BY <1>8, <2>2, SignExtended
  <2> HIDE DEF v
  <2> QED
    BY <1>2, <1>12, <1>14, <1>8, <2>1, <2>2, <2>4, <2>5 DEF w
<1>15. CASE c \in {1, 5}
  <2> DEFINE h == IF j < 2 THEN 0 ELSE 1
             v == IF j < 2 THEN b[1] + B * b[2] ELSE b[3] + B * b[4]
             x == 4 * i + (IF j < 2 THEN 0 ELSE 2)
  <2>1. InBytes!Size(c) = 2 /\ InBytes!First(c, a) = x
    BY <1>1, <1>2, <1>15, AccessedBytes
  <2>2. InBytes!Read(x, 2) = v /\ v \in Nat
    <3>1. ASSUME NEW y \in Nat, NEW z \in Nat
          PROVE  y * 1 + z * B = y + B * z /\ y + B * z \in Nat
      BY <1>7
    <3>2. CASE j < 2
      <4>1. x = 4 * i /\ x \in Nat
        BY <1>2, <3>2
      <4>2. InBytes!Read(x, 2) = m[x] * 1 + m[x + 1] * B
        BY <1>13, <4>1
      <4>3. m[x] = b[1] /\ m[x + 1] = b[2]
        BY <1>11, <4>1
      <4>4. InBytes!Read(x, 2) = b[1] * 1 + b[2] * B
        BY <4>2, <4>3
      <4>5. b[1] * 1 + b[2] * B = b[1] + B * b[2] /\ b[1] + B * b[2] \in Nat
        <5>1. b[1] \in Nat /\ b[2] \in Nat
          BY <1>10
        <5> QED
          BY <3>1, <5>1, Zenon
      <4> QED
        BY <3>2, <4>4, <4>5
    <3>3. CASE ~(j < 2)
      <4>1. x = 4 * i + 2 /\ x + 1 = 4 * i + 3 /\ x \in Nat
        BY <1>2, <3>3
      <4>2. InBytes!Read(x, 2) = m[x] * 1 + m[x + 1] * B
        BY <1>13, <4>1
      <4>3. m[x] = b[3] /\ m[x + 1] = b[4]
        BY <1>11, <4>1
      <4>4. InBytes!Read(x, 2) = b[3] * 1 + b[4] * B
        BY <4>2, <4>3
      <4>5. b[3] * 1 + b[4] * B = b[3] + B * b[4] /\ b[3] + B * b[4] \in Nat
        <5>1. b[3] \in Nat /\ b[4] \in Nat
          BY <1>10
        <5> QED
          BY <3>1, <5>1, Zenon
      <4> QED
        BY <3>3, <4>4, <4>5
    <3> QED
      BY <3>2, <3>3
  <2>3. LaneOf(w, HalfLane(a), HalfBits) = v
    BY <1>2, <1>5 DEF HalfOf
  <2>4. dcache_LOAD(MaskOf(c), a, w) = IF c = 1 THEN SignExtend(v, HalfBits) ELSE v
    BY <1>15, <2>3 DEF dcache_LOAD, MaskOf
  <2>5. SignExtend(v, HalfBits) = IF 2 * v >= C THEN v + Modulus - C ELSE v
    <3> HIDE DEF v
    <3> QED
      BY <1>9, <2>2, SignExtended
  <2> HIDE DEF v, x
  <2> QED
    BY <1>2, <1>12, <1>15, <1>8, <1>9, <2>1, <2>2, <2>4, <2>5 DEF w
<1>16. CASE c = 2
  <2>1. InBytes!Size(c) = 4 /\ InBytes!First(c, a) = 4 * i /\ ~InBytes!IsSignedLoad(c)
    BY <1>1, <1>2, <1>12, <1>16, AccessedBytes
  <2>2. InBytes!Read(4 * i, 4) = b[1] * 1 + b[2] * B + b[3] * (B * B) + b[4] * (B * B * B)
    <3>1. 4 * i \in Nat
      BY <1>2
    <3>2. InBytes!Read(4 * i, 4) =
            m[4 * i] * 1 + m[4 * i + 1] * B + m[4 * i + 2] * (B * B)
              + m[4 * i + 3] * (B * B * B)
      BY <1>13, <3>1
    <3> QED
      BY <1>11, <3>2
  <2>3. w = b[1] * 1 + b[2] * B + b[3] * (B * B) + b[4] * (B * B * B)
    <3>1. ASSUME NEW x1 \in Nat, NEW x2 \in Nat, NEW x3 \in Nat, NEW x4 \in Nat
          PROVE  x1 + B * (x2 + B * (x3 + B * x4))
                   = x1 * 1 + x2 * B + x3 * (B * B) + x4 * (B * B * B)
      BY <1>7
    <3> QED
      BY <1>4, <1>10, <3>1 DEF Number, OfDigits, B
  <2>4. dcache_LOAD(MaskOf(c), a, w) = w
    BY <1>16 DEF dcache_LOAD, MaskOf
  <2> QED
    BY <1>2, <2>1, <2>2, <2>3, <2>4 DEF w
<1>17. c \in {0, 4} \/ c \in {1, 5} \/ c = 2
  BY <1>12
<1> QED
  BY <1>14, <1>15, <1>16, <1>17

\* The word the store (c, a, data of digits e) leaves in cell i, which held the
\* digits b: those of the data where the access lies, its own elsewhere.
StoredIn(i, c, a, b, e) ==
  \E n \in [1 .. 4 -> Digit] :
    /\ dcache_STORE(MaskOf(c), a, Number(b), Number(e)) = Number(n)
    /\ \A l \in 0 .. 3 :
         LET k == (4 * i + l) - InBytes!First(c, a) + 1
         IN  n[l + 1] = IF k \in 1 .. InBytes!Size(c) THEN e[k] ELSE b[l + 1]

\* Storing replaces the digits of the access and no other.
LEMMA StoredWord ==
  ASSUME NEW i \in 0 .. (Cells - 1), NEW j \in 0 .. 3, NEW c \in Stores,
         NEW b \in [1 .. 4 -> Digit], NEW e \in [1 .. 4 -> Digit]
  PROVE  StoredIn(i, c, 4 * i + j, b, e)
<1> SUFFICES \E n \in [1 .. 4 -> Digit] :
       /\ dcache_STORE(MaskOf(c), 4 * i + j, Number(b), Number(e)) = Number(n)
       /\ \A l \in 0 .. 3 :
            LET k == (4 * i + l) - InBytes!First(c, 4 * i + j) + 1
            IN  n[l + 1] = IF k \in 1 .. InBytes!Size(c) THEN e[k] ELSE b[l + 1]
  BY DEF StoredIn
<1> DEFINE x == 4 * i + j
           h == IF j < 2 THEN 0 ELSE 1
           w == Number(b)
           d == Number(e)
<1>1. /\ ByteLane(x) = ByteBits * j /\ HalfLane(x) = HalfBits * h
  BY AddressParts, Zenon
<1>2. i \in Nat /\ j \in Nat /\ c \in {0, 1, 2}
  BY CellsAssumption, Sign DEF Stores
<1>3. /\ \A k \in 0 .. 3 : SetLane(w, ByteBits * k, ByteBits, d)
                             = Number([b EXCEPT ![k + 1] = e[1]])
      /\ \A g \in 0 .. 1 : SetLane(w, HalfBits * g, HalfBits, d)
           = Number([b EXCEPT ![2 * g + 1] = e[1], ![2 * g + 2] = e[2]])
  BY StoredDigits
<1>4. \A k \in 1 .. 4 : b[k] \in Digit /\ e[k] \in Digit
  OBVIOUS
<1> HIDE DEF w, d
<1>5. CASE c = 0
  <2> DEFINE n == [b EXCEPT ![j + 1] = e[1]]
  <2>1. dcache_STORE(MaskOf(c), x, w, d) = Number(n)
    <3>1. dcache_STORE(MaskOf(c), x, w, d) = SetLane(w, ByteLane(x), ByteBits, d)
      BY <1>5 DEF dcache_STORE, MaskOf
    <3> QED
      BY <1>1, <1>3, <3>1
  <2>2. n \in [1 .. 4 -> Digit]
    BY <1>4
  <2>3. InBytes!Size(c) = 1 /\ InBytes!First(c, x) = x
    BY <1>2, <1>5, AccessedBytes
  <2>4. ASSUME NEW l \in 0 .. 3
        PROVE  LET k == (4 * i + l) - x + 1
               IN  n[l + 1] = IF k \in 1 .. 1 THEN e[k] ELSE b[l + 1]
    <3>1. (4 * i + l) - x + 1 = l - j + 1
      BY <1>2
    <3>2. l - j + 1 \in 1 .. 1 <=> l = j
      BY <1>2
    <3>3. CASE l = j
      BY <1>2, <3>1, <3>3
    <3>4. CASE l # j
      BY <1>2, <3>1, <3>2, <3>4
    <3> QED
      BY <3>3, <3>4
  <2> HIDE DEF n, x
  <2> QED
    BY <2>1, <2>2, <2>3, <2>4 DEF w, d, x
<1>6. CASE c = 1
  <2> DEFINE n == [b EXCEPT ![2 * h + 1] = e[1], ![2 * h + 2] = e[2]]
             f == 4 * i + (IF j < 2 THEN 0 ELSE 2)
  <2>0. h \in 0 .. 1 /\ f = 4 * i + 2 * h
    OBVIOUS
  <2>1. dcache_STORE(MaskOf(c), x, w, d) = Number(n)
    <3>1. dcache_STORE(MaskOf(c), x, w, d) = SetLane(w, HalfLane(x), HalfBits, d)
      BY <1>6 DEF dcache_STORE, MaskOf
    <3> HIDE DEF h
    <3> QED
      BY <1>1, <1>3, <2>0, <3>1
  <2>2. n \in [1 .. 4 -> Digit]
    BY <1>4, <2>0
  <2>3. InBytes!Size(c) = 2 /\ InBytes!First(c, x) = f
    BY <1>2, <1>6, AccessedBytes
  <2> HIDE DEF h, f
  <2>4. ASSUME NEW l \in 0 .. 3
        PROVE  LET k == (4 * i + l) - f + 1
               IN  n[l + 1] = IF k \in 1 .. 2 THEN e[k] ELSE b[l + 1]
    <3>1. (4 * i + l) - f + 1 = l - 2 * h + 1
      BY <1>2, <2>0
    <3>2. /\ l + 1 \in 1 .. 4 /\ 2 * h + 1 \in 1 .. 4 /\ 2 * h + 2 \in 1 .. 4
          /\ 2 * h + 1 # 2 * h + 2
      BY <2>0
    <3>3. CASE l = 2 * h
      <4>1. l - 2 * h + 1 = 1 /\ l + 1 = 2 * h + 1
        BY <2>0, <3>3
      <4>2. n[2 * h + 1] = e[1]
        BY <3>2
      <4> QED
        BY <3>1, <4>1, <4>2
    <3>4. CASE l = 2 * h + 1
      <4>1. l - 2 * h + 1 = 2 /\ l + 1 = 2 * h + 2
        BY <2>0, <3>4
      <4>2. n[2 * h + 2] = e[2]
        BY <3>2
      <4> QED
        BY <3>1, <4>1, <4>2
    <3>5. CASE l # 2 * h /\ l # 2 * h + 1
      <4>1. l - 2 * h + 1 \notin 1 .. 2 /\ l + 1 # 2 * h + 1 /\ l + 1 # 2 * h + 2
        BY <2>0, <3>5
      <4>2. n[l + 1] = b[l + 1]
        BY <3>2, <4>1
      <4> QED
        BY <3>1, <4>1, <4>2
    <3> QED
      BY <3>3, <3>4, <3>5
  <2> HIDE DEF n, x
  <2> QED
    BY <2>1, <2>2, <2>3, <2>4 DEF w, d, x
<1>7. CASE c = 2
  <2>1. dcache_STORE(MaskOf(c), x, w, d) = Number(e)
    BY <1>7 DEF dcache_STORE, MaskOf, d
  <2>2. InBytes!Size(c) = 4 /\ InBytes!First(c, x) = 4 * i
    BY <1>2, <1>7, AccessedBytes
  <2>3. ASSUME NEW l \in 0 .. 3
        PROVE  LET k == (4 * i + l) - 4 * i + 1
               IN  e[l + 1] = IF k \in 1 .. 4 THEN e[k] ELSE b[l + 1]
    <3>1. (4 * i + l) - 4 * i + 1 = l + 1 /\ l + 1 \in 1 .. 4
      BY <1>2
    <3> QED
      BY <3>1
  <2> HIDE DEF x
  <2> QED
    BY <2>1, <2>2, <2>3 DEF w, d, x
<1> QED
  BY <1>2, <1>5, <1>6, <1>7

\* Words m become words p as the store (c, a, d) changes their bytes.
BytesStored(m, p, c, a, d) ==
  \A x \in DramAddress :
    LET k == x - InBytes!First(c, a) + 1
    IN  BytesOf(p)[x] = IF k \in 1 .. InBytes!Size(c)
                        THEN (d \div InBytes!Place[k]) % ByteSize
                        ELSE BytesOf(m)[x]

\* A store into the words is one into the bytes.
LEMMA StoresBytes ==
  ASSUME NEW m \in [0 .. (Cells - 1) -> Word], NEW c \in Stores,
         NEW a \in DramAddress, NEW d \in Word, NEW p,
         p = [m EXCEPT ![Cell(a)] = dcache_STORE(MaskOf(c), a, @, d)]
  PROVE  p \in [0 .. (Cells - 1) -> Word] /\ BytesStored(m, p, c, a, d)
<1>1. PICK i \in 0 .. (Cells - 1), j \in 0 .. 3 : a = 4 * i + j
  BY PartsOfAddress
<1>2. Cell(a) = i /\ i \in Nat /\ j \in Nat
  <2>1. Cell(4 * i + j) = i
    BY AddressParts, Zenon
  <2> QED
    BY <1>1, <2>1, CellsAssumption, Sign
<1>3. PICK b \in [1 .. 4 -> Digit] : m[i] = Number(b)
  BY DigitsOfWord
<1>4. PICK e \in [1 .. 4 -> Digit] :
        /\ d = Number(e)
        /\ e[1] = d % ByteSize /\ e[2] = (d \div ByteSize) % ByteSize
        /\ e[3] = (d \div (ByteSize * ByteSize)) % ByteSize
        /\ e[4] = (d \div (ByteSize * ByteSize * ByteSize)) % ByteSize
  BY DigitsOfWord
<1>5. \A k \in 1 .. 4 : e[k] = (d \div InBytes!Place[k]) % ByteSize
  <2>1. /\ InBytes!Place[1] = 1 /\ InBytes!Place[2] = ByteSize
        /\ InBytes!Place[3] = ByteSize * ByteSize
        /\ InBytes!Place[4] = ByteSize * ByteSize * ByteSize
    BY PlaceValues
  <2>2. d \div 1 = d
    <3>1. d \in Nat
      BY Sign DEF Word
    <3> QED
      BY <3>1
  <2>3. /\ e[1] = (d \div InBytes!Place[1]) % ByteSize
        /\ e[2] = (d \div InBytes!Place[2]) % ByteSize
        /\ e[3] = (d \div InBytes!Place[3]) % ByteSize
        /\ e[4] = (d \div InBytes!Place[4]) % ByteSize
    BY <1>4, <2>1, <2>2, Zenon
  <2>4. ASSUME NEW k \in 1 .. 4 PROVE k = 1 \/ k = 2 \/ k = 3 \/ k = 4
    OBVIOUS
  <2> QED
    BY <2>3, <2>4, Zenon
<1>6. PICK n \in [1 .. 4 -> Digit] :
        /\ dcache_STORE(MaskOf(c), a, m[i], d) = Number(n)
        /\ \A l \in 0 .. 3 :
             LET k == (4 * i + l) - InBytes!First(c, a) + 1
             IN  n[l + 1] = IF k \in 1 .. InBytes!Size(c) THEN e[k] ELSE b[l + 1]
  <2>1. StoredIn(i, c, a, b, e)
    BY <1>1, StoredWord
  <2>2. m[i] = Number(b) /\ d = Number(e)
    BY <1>3, <1>4
  <2> QED
    BY <2>1, <2>2, Zenon DEF StoredIn
<1>7. p = [m EXCEPT ![i] = Number(n)] /\ Number(n) \in Word
  BY <1>2, <1>6, WordOfDigits
<1>8. p \in [0 .. (Cells - 1) -> Word]
  BY <1>7
<1>9. /\ InBytes!First(c, a) \in Nat /\ InBytes!First(c, a) >= 4 * i
      /\ InBytes!Size(c) \in 1 .. 4
      /\ InBytes!First(c, a) + InBytes!Size(c) <= 4 * i + 4
  <2>1. c \in {0, 1, 2}
    BY DEF Stores
  <2>2. CASE c = 0
    <3>1. InBytes!Size(c) = 1 /\ InBytes!First(c, a) = 4 * i + j
      BY <1>1, <1>2, <2>2, AccessedBytes
    <3> QED
      BY <1>2, <3>1
  <2>3. CASE c = 1
    <3>1. InBytes!Size(c) = 2 /\ InBytes!First(c, a) = 4 * i + (IF j < 2 THEN 0 ELSE 2)
      BY <1>1, <1>2, <2>3, AccessedBytes
    <3> QED
      BY <1>2, <3>1
  <2>4. CASE c = 2
    <3>1. InBytes!Size(c) = 4 /\ InBytes!First(c, a) = 4 * i
      BY <1>1, <1>2, <2>4, AccessedBytes
    <3> QED
      BY <1>2, <3>1
  <2> QED
    BY <2>1, <2>2, <2>3, <2>4
<1>10. ASSUME NEW x \in DramAddress
       PROVE  LET k == x - InBytes!First(c, a) + 1
              IN  BytesOf(p)[x] = IF k \in 1 .. InBytes!Size(c)
                                  THEN (d \div InBytes!Place[k]) % ByteSize
                                  ELSE BytesOf(m)[x]
  <2>1. PICK o \in 0 .. (Cells - 1), l \in 0 .. 3 : x = 4 * o + l
    BY PartsOfAddress
  <2>2. BytesOf(p)[x] = ByteOf(p[o], l) /\ BytesOf(m)[x] = ByteOf(m[o], l)
    <3>1. \A y \in [0 .. (Cells - 1) -> Word] : BytesOf(y)[4 * o + l] = ByteOf(y[o], l)
      BY AddressParts, Zenon
    <3> QED
      BY <1>8, <2>1, <3>1
  <2> DEFINE k == x - InBytes!First(c, a) + 1
  <2>3. CASE o = i
    <3>1. p[o] = Number(n) /\ m[o] = Number(b)
      BY <1>3, <1>7, <2>3
    <3>2. BytesOf(p)[x] = n[l + 1] /\ BytesOf(m)[x] = b[l + 1]
      BY <2>2, <3>1, WordOfDigits
    <3>3. n[l + 1] = IF k \in 1 .. InBytes!Size(c) THEN e[k] ELSE b[l + 1]
      BY <1>6, <2>1, <2>3
    <3>4. k \in 1 .. InBytes!Size(c) => k \in 1 .. 4
      BY <1>9
    <3> HIDE DEF k
    <3>5. k \in 1 .. InBytes!Size(c) => e[k] = (d \div InBytes!Place[k]) % ByteSize
      BY <1>5, <3>4
    <3>6. BytesOf(p)[x] = IF k \in 1 .. InBytes!Size(c)
                          THEN (d \div InBytes!Place[k]) % ByteSize
                          ELSE BytesOf(m)[x]
      BY <3>2, <3>3, <3>5, Zenon
    <3> QED
      BY <3>6 DEF k
  <2>4. CASE o # i
    <3>1. p[o] = m[o]
      BY <1>7, <2>4
    <3>2. k \notin 1 .. InBytes!Size(c)
      BY <1>2, <1>9, <2>1, <2>4
    <3> QED
      BY <2>2, <3>1, <3>2
  <2> QED
    BY <2>3, <2>4
<1> QED
  BY <1>8, <1>10 DEF BytesStored

\* What the two data memories keep: words in all cells.
DataOK == data \in [0 .. (Cells - 1) -> Word]

\* No store leaves anything but words.
LEMMA DataInvariant == MSpec => []DataOK
<1>1. MInit => DataOK
  <2>1. ASSUME NEW c \in 0 .. (Cells - 1) PROVE DMEM_INIT[c] \in Word
    <3>1. c \in Word
      BY CellsAssumption, Sign DEF Word
    <3>2. DMEM_INIT \in [Word -> Word]
      BY MemoryAssumption
    <3> QED
      BY <3>1, <3>2
  <2> QED
    BY <2>1 DEF MInit, DataOK
<1>2. DataOK /\ [MNext]_mvars => DataOK'
  <2> SUFFICES ASSUME DataOK, [MNext]_mvars PROVE DataOK'
    OBVIOUS
  <2>1. ASSUME NEW c \in Loads, NEW a \in DramAddress, Load(c, a) PROVE DataOK'
    BY <2>1 DEF Load, DataOK
  <2>2. ASSUME NEW c \in Stores, NEW a \in DramAddress, NEW d \in DataWords,
               Store(c, a, d)
        PROVE  DataOK'
    <3>1. d \in Word /\ data \in [0 .. (Cells - 1) -> Word]
      BY CellsAssumption DEF DataOK
    <3>2. data' = [data EXCEPT ![Cell(a)] = dcache_STORE(MaskOf(c), a, @, d)]
      BY <2>2 DEF Store
    <3>3. data' \in [0 .. (Cells - 1) -> Word]
      BY <3>1, <3>2, StoresBytes
    <3> QED
      BY <3>3 DEF DataOK
  <2>3. CASE UNCHANGED mvars
    BY <2>3 DEF mvars, DataOK
  <2> QED
    BY <2>1, <2>2, <2>3 DEF MNext
<1> QED
  BY <1>1, <1>2, PTL DEF MSpec

\* The data memory of words, in which a store replaces the bits of a lane and a
\* load picks and extends them, implements a memory of bytes: any sequence of
\* requests answers as if each byte were kept by itself (dcache in
\* scriscv_core.cpp and in scriscv_scalar.cpp).
THEOREM DataIsByteMemory == MSpec => IsByteMemory
<1>1. MInit => InBytes!Init
  <2> SUFFICES ASSUME MInit PROVE InBytes!Init
    OBVIOUS
  <2>1. \A a \in DramAddress : data[Cell(a)] = DMEM_INIT[Cell(a)]
    <3>1. ASSUME NEW a \in DramAddress PROVE Cell(a) \in 0 .. (Cells - 1)
      <4>1. PICK i \in 0 .. (Cells - 1), j \in 0 .. 3 : a = 4 * i + j
        BY PartsOfAddress
      <4>2. Cell(4 * i + j) = i
        BY AddressParts, Zenon
      <4> QED
        BY <4>1, <4>2
    <3> QED
      BY <3>1 DEF MInit
  <2>2. BytesOf(data) = BytesOf(DMEM_INIT)
    BY <2>1 DEF BytesOf
  <2> QED
    BY <2>2 DEF MInit, InBytes!Init
<1>2. DataOK /\ [MNext]_mvars
        => [InBytes!Next]_<<request, BytesOf(data), dataOut>>
  <2> SUFFICES ASSUME DataOK, [MNext]_mvars
               PROVE  InBytes!Next \/ UNCHANGED <<request, BytesOf(data), dataOut>>
    OBVIOUS
  <2>0. InBytes!Address = DramAddress
    BY DEF InBytes!Address, DramAddress
  <2>1. ASSUME NEW c \in Loads, NEW a \in DramAddress, Load(c, a)
        PROVE  InBytes!Next
    <3>1. /\ request' = <<"load", c, a>> /\ data' = data
          /\ dataOut' = dcache_LOAD(MaskOf(c), a, data[Cell(a)])
      BY <2>1 DEF Load
    <3>2. dcache_LOAD(MaskOf(c), a, data[Cell(a)]) =
            LET v == InBytes!Read(InBytes!First(c, a), InBytes!Size(c))
            IN  IF InBytes!IsSignedLoad(c)
                     /\ 2 * v >= InBytes!Values(InBytes!Size(c))
                THEN v + InBytes!Values(4) - InBytes!Values(InBytes!Size(c)) ELSE v
      <4>1. data \in [0 .. (Cells - 1) -> Word]
        BY DEF DataOK
      <4> QED
        BY <4>1, LoadsBytes, Zenon
    <3>3. BytesOf(data)' = BytesOf(data)
      BY <3>1 DEF BytesOf
    <3>4. InBytes!Load(c, a)
      BY <3>1, <3>2, <3>3, Zenon DEF InBytes!Load
    <3> QED
      BY <2>0, <3>4, Zenon DEF InBytes!Next, Loads
  <2>2. ASSUME NEW c \in Stores, NEW a \in DramAddress, NEW d \in DataWords,
               Store(c, a, d)
        PROVE  InBytes!Next
    <3>1. /\ request' = <<"store", c, a>> /\ dataOut' = dataOut
          /\ data' = [data EXCEPT ![Cell(a)] = dcache_STORE(MaskOf(c), a, @, d)]
      BY <2>2 DEF Store
    <3>2. d \in Word /\ data \in [0 .. (Cells - 1) -> Word]
      BY CellsAssumption DEF DataOK
    <3>3. \A x \in DramAddress :
            LET k == x - InBytes!First(c, a) + 1
            IN  BytesOf(data')[x] = IF k \in 1 .. InBytes!Size(c)
                                    THEN (d \div InBytes!Place[k]) % ByteSize
                                    ELSE BytesOf(data)[x]
      <4>1. BytesStored(data, data', c, a, d)
        BY <3>1, <3>2, StoresBytes
      <4> QED
        BY <4>1, Zenon DEF BytesStored
    <3>4. BytesOf(data)' = BytesOf(data')
      BY DEF BytesOf
    <3>5. BytesOf(data') =
            [x \in InBytes!Address |->
               LET k == x - InBytes!First(c, a) + 1
               IN  IF k \in 1 .. InBytes!Size(c)
                   THEN (d \div InBytes!Place[k]) % Weight[ByteBits]
                   ELSE BytesOf(data)[x]]
      <4> DEFINE q == BytesOf(data')
                 r(x) == LET k == x - InBytes!First(c, a) + 1
                         IN  IF k \in 1 .. InBytes!Size(c)
                             THEN (d \div InBytes!Place[k]) % Weight[ByteBits]
                             ELSE BytesOf(data)[x]
      <4>1. q = [x \in DramAddress |-> q[x]]
        BY DEF BytesOf
      <4>2. \A x \in DramAddress : q[x] = r(x)
        BY <3>3 DEF ByteSize
      <4> HIDE DEF q, r
      <4>3. q = [x \in InBytes!Address |-> r(x)]
        BY <2>0, <4>1, <4>2
      <4> QED
        BY <4>3 DEF q, r
    <3>6. InBytes!Store(c, a, d)
      BY <3>1, <3>4, <3>5, Zenon DEF InBytes!Store
    <3> QED
      BY <2>0, <3>6, Zenon DEF InBytes!Next, Stores
  <2>3. CASE UNCHANGED mvars
    BY <2>3 DEF mvars, BytesOf
  <2> QED
    BY <2>1, <2>2, <2>3 DEF MNext
<1> QED
  BY <1>1, <1>2, DataInvariant, PTL DEF MSpec, IsByteMemory, InBytes!Spec

-----------------------------------------------------------------------------
(* The data path as the parameters of the two cores.                       *)

\* Whatever exe_wecomb and mult compute is a word again.
LEMMA ResultsFit ==
  ASSUME NEW c \in Funct3, NEW d \in Funct7, NEW a \in Word, NEW b \in Word
  PROVE  /\ exe_OPI(c, d, a, b) \in Word /\ exe_OP(c, d, a, b) \in Word
         /\ exe_BR(c, a, b) \in BOOLEAN /\ mult_MUL(c, a, b) \in Word
<1>1. /\ Signed(a) \in Int /\ Signed(b) \in Int /\ a \in Int /\ b \in Int
      /\ Modulus \in Nat \ {0} /\ Modulus >= 8
  BY SignedValue, Sign DEF Word
<1>2. Weight[Shamt(b)] \in Nat \ {0}
  <2>1. Shamt(b) \in 0 .. DivBits
    BY ShiftCount, Widths DEF Position
  <2> QED
    BY <2>1, Weights
<1>3. \A x \in Int : Wrap(x * Weight[Shamt(b)]) \in Word
                  /\ Wrap(x \div Weight[Shamt(b)]) \in Word
  BY <1>2, WrapInWord, DivMod
<1>4. /\ Xor(a, b) \in Word /\ Or(a, b) \in Word /\ And(a, b) \in Word
  BY GateBits DEF Xor, Or, And
<1>5. /\ Wrap(Signed(a) + Signed(b)) \in Word /\ Wrap(Signed(a) - Signed(b)) \in Word
  BY <1>1, WrapInWord
<1>6. exe_OPI(c, d, a, b) \in Word
  <2>1. /\ Flag(Signed(a) < Signed(b)) \in Word /\ Flag(a < b) \in Word
        /\ Wrap(Signed(a) * Weight[Shamt(b)]) \in Word
    <3>1. /\ Flag(Signed(a) < Signed(b)) \in Word /\ Flag(a < b) \in Word
      BY <1>1 DEF Flag, Word
    <3> QED
      BY <1>1, <1>3, <3>1
  <2>2. Wrap((IF IsAlternate(d) THEN Signed(a) ELSE a) \div Weight[Shamt(b)]) \in Word
    <3>1. (IF IsAlternate(d) THEN Signed(a) ELSE a) \in Int
      BY <1>1
    <3> QED
      BY <1>3, <3>1
  <2> QED
    BY <1>4, <1>5, <2>1, <2>2, Zenon DEF exe_OPI
<1>7. exe_OP(c, d, a, b) \in Word
  BY <1>5, <1>6 DEF exe_OP
<1>8. exe_BR(c, a, b) \in BOOLEAN
  BY DEF exe_BR
<1>9. \A x, y \in Int : Upper(x * y) \in Word /\ Wrap(x * y) \in Word
  <2> SUFFICES ASSUME NEW x \in Int, NEW y \in Int
               PROVE  Upper(x * y) \in Word /\ Wrap(x * y) \in Word
    OBVIOUS
  <2>1. x * y \in Int
    OBVIOUS
  <2>2. \A z \in Int : z \div Modulus \in Int
    BY <1>1, DivMod
  <2> QED
    BY <2>1, <2>2, WrapInWord DEF Upper
<1>10. mult_MUL(c, a, b) \in Word
  BY <1>1, <1>9 DEF mult_MUL
<1> QED
  BY <1>6, <1>7, <1>8, <1>10

\* Whatever dcache reads from a word, or makes of one, is a word again.
LEMMA LanesFit ==
  ASSUME NEW k \in MemMask, NEW l \in 0 .. (DataBytes - 1), NEW w \in Word
  PROVE  /\ dcache_LOAD(k, l, w) \in Word
         /\ \A d \in Word : dcache_STORE(k, l, w, d) \in Word
<1>1. l \in 0 .. 3
  BY CellsAssumption
<1> DEFINE h == (l \div 2) % 2
<1>2. h \in 0 .. 1 /\ ByteLane(l) = ByteBits * l /\ HalfLane(l) = HalfBits * h
  BY <1>1 DEF ByteLane, HalfLane
<1>3. /\ ByteBits \in 1 .. DivBits /\ HalfBits \in 1 .. DivBits
      /\ ByteLane(l) \in 0 .. DivBits /\ HalfLane(l) \in 0 .. DivBits
  <2> HIDE DEF h
  <2>1. /\ ByteBits \in Nat /\ ByteBits >= 1 /\ HalfBits = 2 * ByteBits
        /\ DivBits = 4 * ByteBits
    BY Widths
  <2>2. l = 0 \/ l = 1 \/ l = 2 \/ l = 3
    BY <1>1
  <2>3. h = 0 \/ h = 1
    BY <1>2
  <2> QED
    BY <1>2, <2>1, <2>2, <2>3
<1>4. ASSUME NEW low \in 0 .. DivBits, NEW width \in 1 .. DivBits
      PROVE  /\ LaneOf(w, low, width) \in Word
             /\ SignExtend(LaneOf(w, low, width), width) \in Word
  <2> DEFINE v == LaneOf(w, low, width)
  <2>1. /\ Weight[low] \in Nat \ {0} /\ Weight[width] \in Nat \ {0}
        /\ Weight[DivBits] = Modulus /\ Modulus \in Nat
        /\ w \in Int /\ DivBits \in Nat /\ width \in 0 .. DivBits
    BY Weights, Sign DEF Word
  <2>2. v \in 0 .. (Weight[width] - 1)
    BY <2>1, DivMod DEF LaneOf
  <2>3. Weight[width] <= Modulus
    BY <2>1, WeightMonotone
  <2> HIDE DEF v
  <2>4. v \in Word /\ v + Modulus - Weight[width] \in Word
    BY <2>1, <2>2, <2>3 DEF Word
  <2>5. SignExtend(v, width) \in Word
    BY <2>4 DEF SignExtend
  <2> QED
    BY <2>4, <2>5 DEF v
<1>5. dcache_LOAD(k, l, w) \in Word
  <2>1. /\ LaneOf(w, ByteLane(l), ByteBits) \in Word
        /\ SignExtend(LaneOf(w, ByteLane(l), ByteBits), ByteBits) \in Word
        /\ LaneOf(w, HalfLane(l), HalfBits) \in Word
        /\ SignExtend(LaneOf(w, HalfLane(l), HalfBits), HalfBits) \in Word
    BY <1>3, <1>4
  <2> QED
    BY <2>1, Zenon DEF dcache_LOAD
<1>6. ASSUME NEW d \in Word PROVE dcache_STORE(k, l, w, d) \in Word
  <2>1. PICK b \in [1 .. 4 -> Digit] : w = Number(b)
    BY DigitsOfWord
  <2>2. PICK e \in [1 .. 4 -> Digit] : d = Number(e)
    BY DigitsOfWord
  <2>3. /\ SetLane(w, ByteLane(l), ByteBits, d) = Number([b EXCEPT ![l + 1] = e[1]])
        /\ SetLane(w, HalfLane(l), HalfBits, d)
             = Number([b EXCEPT ![2 * h + 1] = e[1], ![2 * h + 2] = e[2]])
    <3> HIDE DEF h
    <3>1. /\ \A i \in 0 .. 3 : SetLane(Number(b), ByteBits * i, ByteBits, Number(e))
                               = Number([b EXCEPT ![i + 1] = e[1]])
          /\ \A g \in 0 .. 1 : SetLane(Number(b), HalfBits * g, HalfBits, Number(e))
               = Number([b EXCEPT ![2 * g + 1] = e[1], ![2 * g + 2] = e[2]])
      BY StoredDigits
    <3> QED
      BY <1>1, <1>2, <2>1, <2>2, <3>1, Zenon
  <2>4. /\ [b EXCEPT ![l + 1] = e[1]] \in [1 .. 4 -> Digit]
        /\ [b EXCEPT ![2 * h + 1] = e[1], ![2 * h + 2] = e[2]] \in [1 .. 4 -> Digit]
    <3>1. e[1] \in Digit /\ e[2] \in Digit
      OBVIOUS
    <3> HIDE DEF h
    <3> QED
      BY <3>1
  <2>5. \A c \in [1 .. 4 -> Digit] : Number(c) \in Word
    BY WordOfDigits
  <2>6. /\ SetLane(w, ByteLane(l), ByteBits, d) \in Word
        /\ SetLane(w, HalfLane(l), HalfBits, d) \in Word
    BY <2>3, <2>4, <2>5
  <2> QED
    BY <2>6 DEF dcache_STORE
<1> QED
  BY <1>5, <1>6

\* What the theorems about the pipeline and the scalar core assume of their
\* parameters holds of the data path that the code has: every result, every lane
\* read and every word stored is a word again.
THEOREM DataPathFits ==
  /\ \A c \in Funct3, a, b \in Word :
       /\ \A d \in Funct7 : exe_OPI(c, d, a, b) \in Word /\ exe_OP(c, d, a, b) \in Word
       /\ exe_BR(c, a, b) \in BOOLEAN /\ mult_MUL(c, a, b) \in Word
  /\ \A k \in MemMask, l \in 0 .. (DataBytes - 1), w \in Word :
       /\ dcache_LOAD(k, l, w) \in Word
       /\ \A d \in Word : dcache_STORE(k, l, w, d) \in Word
<1>1. ASSUME NEW c \in Funct3, NEW a \in Word, NEW b \in Word
      PROVE  /\ \A d \in Funct7 : /\ exe_OPI(c, d, a, b) \in Word
                                /\ exe_OP(c, d, a, b) \in Word
             /\ exe_BR(c, a, b) \in BOOLEAN /\ mult_MUL(c, a, b) \in Word
  <2>1. 0 \in Funct7
    BY DEF Funct7
  <2> QED
    BY <2>1, ResultsFit
<1> QED
  BY <1>1, LanesFit

\* What CallsCopy assumes of the instructions the library is made of holds of that
\* data path too: ADDI, SLT, BEQ and BNE, and a word loaded and stored, are those
\* of RISC-V.
THEOREM DataPathServesLibrary ==
  \A a, b \in Word :
    /\ exe_OPI(0, 0, a, b) = Add(a, b)
    /\ exe_OP(2, 0, a, b) = IF Signed(a) < Signed(b) THEN 1 ELSE 0
    /\ exe_BR(0, a, b) <=> a = b
    /\ exe_BR(1, a, b) <=> a # b
    /\ dcache_LOAD("WORD", 0, a) = a /\ dcache_STORE("WORD", 0, a, b) = b
<1> TAKE a \in Word, b \in Word
<1>1. exe_OPI(0, 0, a, b) = Add(a, b)
  BY WordOfSigned DEF exe_OPI, Add
<1>2. exe_OP(2, 0, a, b) = IF Signed(a) < Signed(b) THEN 1 ELSE 0
  BY DEF exe_OP, exe_OPI, Flag
<1>3. Signed(a) = Signed(b) <=> a = b
  <2>1. Wrap(Signed(a)) = a /\ Wrap(Signed(b)) = b
    BY SignedValue
  <2> QED
    BY <2>1, Zenon
<1>4. (exe_BR(0, a, b) <=> a = b) /\ (exe_BR(1, a, b) <=> a # b)
  BY <1>3 DEF exe_BR
<1>5. dcache_LOAD("WORD", 0, a) = a /\ dcache_STORE("WORD", 0, a, b) = b
  BY DEF dcache_LOAD, dcache_STORE
<1> QED
  BY <1>1, <1>2, <1>4, <1>5
=============================================================================
