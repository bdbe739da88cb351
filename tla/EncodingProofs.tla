--------------------------- MODULE EncodingProofs ---------------------------
(***************************************************************************)
(* From a line to the decoders, proved for all registers and all           *)
(* immediates: the cores decode what the line says. A word is taken apart  *)
(* at the bits where its fields were put together.                         *)
(***************************************************************************)
EXTENDS Encoding, NumberLemmas

-----------------------------------------------------------------------------
(* Numbers and their bits.                                                 *)

\* The powers of two that the formats speak of.
LEMMA Powers ==
  /\ \A n \in 0 .. 30 : Weight[n] \in Nat \ {0}
  /\ \A n \in 0 .. 29 : Weight[n + 1] = 2 * Weight[n]
  /\ Weight[0] = 1 /\ Weight[1] = 2 /\ Weight[2] = 4 /\ Weight[3] = 8
  /\ Weight[4] = 16 /\ Weight[5] = 32 /\ Weight[6] = 64 /\ Weight[7] = 128
  /\ Weight[8] = 256 /\ Weight[9] = 512 /\ Weight[10] = 1024 /\ Weight[11] = 2048
  /\ Weight[12] = 4096
<1>1. /\ \A n \in 0 .. 30 : Weight[n] \in Nat \ {0}
      /\ \A n \in 0 .. 29 : Weight[n + 1] = 2 * Weight[n]
      /\ Weight[0] = 1
  BY WeightAssumption
<1>2. /\ Weight[0 + 1] = 2 * Weight[0] /\ Weight[1 + 1] = 2 * Weight[1]
      /\ Weight[2 + 1] = 2 * Weight[2] /\ Weight[3 + 1] = 2 * Weight[3]
      /\ Weight[4 + 1] = 2 * Weight[4] /\ Weight[5 + 1] = 2 * Weight[5]
  BY <1>1
<1>3. /\ Weight[6 + 1] = 2 * Weight[6] /\ Weight[7 + 1] = 2 * Weight[7]
      /\ Weight[8 + 1] = 2 * Weight[8] /\ Weight[9 + 1] = 2 * Weight[9]
      /\ Weight[10 + 1] = 2 * Weight[10] /\ Weight[11 + 1] = 2 * Weight[11]
  BY <1>1
<1>4. /\ Weight[1] = 2 /\ Weight[2] = 4 /\ Weight[3] = 8
      /\ Weight[4] = 16 /\ Weight[5] = 32 /\ Weight[6] = 64
  BY <1>1, <1>2
<1>5. /\ Weight[7] = 128 /\ Weight[8] = 256 /\ Weight[9] = 512
      /\ Weight[10] = 1024 /\ Weight[11] = 2048 /\ Weight[12] = 4096
  BY <1>3, <1>4
<1> QED
  BY <1>1, <1>4, <1>5

\* A larger exponent gives no smaller power.
LEMMA PowersGrow ==
  ASSUME NEW s \in 0 .. 30, NEW n \in 0 .. 30, s <= n
  PROVE  Weight[s] <= Weight[n]
<1>1. PICK T : T = {d \in 0 .. (30 - s) : Weight[s] <= Weight[s + d]}
  OBVIOUS
<1>2. 0 \in T
  <2>1. s + 0 = s /\ 30 - s \in Nat /\ Weight[s] \in Nat
    BY Powers
  <2> QED
    BY <1>1, <2>1
<1>3. ASSUME NEW d \in 0 .. (30 - s - 1), d \in T
      PROVE  d + 1 \in T
  <2>1. s + d \in 0 .. 29 /\ s + d \in 0 .. 30 /\ (s + d) + 1 = s + (d + 1) /\ d + 1 \in 0 .. (30 - s)
    OBVIOUS
  <2>2. Weight[(s + d) + 1] = 2 * Weight[s + d] /\ Weight[s + d] \in Nat /\ Weight[s] \in Nat
    BY <2>1, Powers
  <2>3. Weight[s] <= Weight[s + d]
    BY <1>1, <1>3
  <2>4. Weight[s] <= Weight[s + (d + 1)]
    BY <2>1, <2>2, <2>3
  <2> QED
    BY <1>1, <2>1, <2>4
<1>4. \A d \in 0 .. (30 - s) : d \in T
  <2>1. 30 - s \in Nat
    OBVIOUS
  <2> QED
    BY <1>2, <1>3, <2>1, Induction
<1>5. PICK d \in 0 .. (30 - s) : s + d = n
  <2>1. n - s \in 0 .. (30 - s) /\ s + (n - s) = n
    OBVIOUS
  <2> QED
    BY <2>1
<1> QED
  BY <1>1, <1>4, <1>5

\* Bits from the sign on are the sign.
LEMMA SignBits ==
  ASSUME NEW s \in 0 .. 30, NEW k \in Int, -Weight[s] <= k, k < Weight[s],
         NEW n \in 0 .. 30, s <= n
  PROVE  ((k \div Weight[n]) % 2 = 1) <=> k < 0
<1>1. PICK w : w = Weight[n]
  OBVIOUS
<1>2. w \in Nat \ {0} /\ -w <= k /\ k < w
  <2>1. Weight[s] <= Weight[n]
    BY PowersGrow
  <2>2. Weight[s] \in Nat /\ Weight[n] \in Nat \ {0}
    BY Powers
  <2> QED
    BY <1>1, <2>1, <2>2
<1>3. ASSUME k >= 0 PROVE k \div w = 0
  <2>1. k \in 0 .. (w - 1)
    BY <1>2, <1>3
  <2>2. PICK q : q = 0
    OBVIOUS
  <2>3. q \in Int /\ k = w * q + k
    BY <1>2, <2>2
  <2>4. k \div w = q
    BY <1>2, <2>1, <2>3, DivUnique
  <2> QED
    BY <2>2, <2>4
<1>4. ASSUME k < 0 PROVE k \div w = -1
  <2>1. k = w * (-1) + (k + w) /\ k + w \in 0 .. (w - 1)
    BY <1>2, <1>4
  <2>2. -1 \in Int
    OBVIOUS
  <2> QED
    BY <1>2, <2>1, <2>2, DivUnique
<1>5. (-1) % 2 = 1 /\ 0 % 2 = 0
  <2>1. PICK a, b : a = -1 /\ b = 2
    OBVIOUS
  <2>2. a \in Int /\ b \in Nat \ {0} /\ a = b * a + 1 /\ 1 \in 0 .. (b - 1)
    BY <2>1
  <2>3. a % b = 1
    BY <2>2, DivUnique
  <2> QED
    BY <2>1, <2>3
<1>6. CASE k >= 0
  BY <1>1, <1>3, <1>5, <1>6
<1>7. CASE k < 0
  BY <1>1, <1>4, <1>5, <1>7
<1> QED
  BY <1>6, <1>7

\* So a number within a field, extended by its sign, is the number.
LEMMA Extends ==
  ASSUME NEW s \in 0 .. 30, NEW k \in Int, -Weight[s] <= k, k < Weight[s]
  PROVE  SignExtended(Bits(k, s + 1), s) = Word32(k)
<1>1. ASSUME NEW n \in 0 .. 30
      PROVE  n \in SignExtended(Bits(k, s + 1), s) <=> n \in Word32(k)
  <2>1. CASE n <= s
    BY <2>1 DEF SignExtended, Bits, Word32
  <2>2. CASE n > s
    <3>1. n \in Word32(k) <=> k < 0
      BY <2>2, SignBits DEF Word32
    <3>2. s \in Bits(k, s + 1) <=> k < 0
      BY SignBits DEF Bits
    <3>3. n \notin Bits(k, s + 1) /\ n \in s .. 31
      BY <2>2 DEF Bits
    <3> QED
      BY <3>1, <3>2, <3>3 DEF SignExtended
  <2> QED
    BY <2>1, <2>2
<1>2. 31 \in SignExtended(Bits(k, s + 1), s) <=> 31 \in Word32(k)
  <2>1. s \in Bits(k, s + 1) <=> k < 0
    BY SignBits DEF Bits
  <2>2. 31 \notin Bits(k, s + 1) /\ 31 \in s .. 31
    BY DEF Bits
  <2> QED
    BY <2>1, <2>2 DEF SignExtended, Word32
<1>3. SignExtended(Bits(k, s + 1), s) \subseteq 0 .. 31 /\ Word32(k) \subseteq 0 .. 31
  BY DEF SignExtended, Bits, Word32
<1> QED
  BY <1>1, <1>2, <1>3

\* The low twelve bits of a number do not tell a negative one.
LEMMA TwelveBits ==
  ASSUME NEW k \in Int, NEW j \in Int, k >= Weight[11], k < Weight[12], j = k - Weight[12]
  PROVE  Bits(k, 12) = Bits(j, 12)
<1>0. k \in 2048 .. 4095 /\ j = k - 4096
  BY Powers
<1>1. ASSUME NEW n \in 0 .. 11
      PROVE  (k \div Weight[n]) % 2 = (j \div Weight[n]) % 2
  <2>1. CASE n = 0
    <3>1. (k \div 1) % 2 = (j \div 1) % 2
      BY <1>0
    <3> QED
      BY <1>0, <2>1, <3>1, Powers
  <2>2. CASE n = 1
    <3>1. (k \div 2) % 2 = (j \div 2) % 2
      <4>1. PICK q \in Int : q = j \div 2
        OBVIOUS
      <4>2. k \div 2 = q + 2048
        BY <1>0, <4>1
      <4>3. (q + 2048) % 2 = q % 2
        OBVIOUS
      <4> QED
        BY <4>1, <4>2, <4>3
    <3> QED
      BY <1>0, <2>2, <3>1, Powers
  <2>3. CASE n = 2
    <3>1. (k \div 4) % 2 = (j \div 4) % 2
      BY <1>0
    <3> QED
      BY <1>0, <2>3, <3>1, Powers
  <2>4. CASE n = 3
    <3>1. (k \div 8) % 2 = (j \div 8) % 2
      BY <1>0
    <3> QED
      BY <1>0, <2>4, <3>1, Powers
  <2>5. CASE n = 4
    <3>1. (k \div 16) % 2 = (j \div 16) % 2
      BY <1>0
    <3> QED
      BY <1>0, <2>5, <3>1, Powers
  <2>6. CASE n = 5
    <3>1. (k \div 32) % 2 = (j \div 32) % 2
      BY <1>0
    <3> QED
      BY <1>0, <2>6, <3>1, Powers
  <2>7. CASE n = 6
    <3>1. (k \div 64) % 2 = (j \div 64) % 2
      BY <1>0
    <3> QED
      BY <1>0, <2>7, <3>1, Powers
  <2>8. CASE n = 7
    <3>1. (k \div 128) % 2 = (j \div 128) % 2
      BY <1>0
    <3> QED
      BY <1>0, <2>8, <3>1, Powers
  <2>9. CASE n = 8
    <3>1. (k \div 256) % 2 = (j \div 256) % 2
      BY <1>0
    <3> QED
      BY <1>0, <2>9, <3>1, Powers
  <2>10. CASE n = 9
    <3>1. (k \div 512) % 2 = (j \div 512) % 2
      BY <1>0
    <3> QED
      BY <1>0, <2>10, <3>1, Powers
  <2>11. CASE n = 10
    <3>1. (k \div 1024) % 2 = (j \div 1024) % 2
      BY <1>0
    <3> QED
      BY <1>0, <2>11, <3>1, Powers
  <2>12. CASE n = 11
    <3>1. (k \div 2048) % 2 = (j \div 2048) % 2
      BY <1>0
    <3> QED
      BY <1>0, <2>12, <3>1, Powers
  <2> QED
    BY <2>1, <2>2, <2>3, <2>4, <2>5, <2>6, <2>7, <2>8, <2>9, <2>10, <2>11, <2>12
<1> QED
  BY <1>1 DEF Bits

\* Numbers of seven bits that have the same bits are the same.
LEMMA SevenBits ==
  ASSUME NEW x \in 0 .. 127, NEW y \in 0 .. 127, Bits(x, 7) = Bits(y, 7)
  PROVE  x = y
<1>1. ASSUME NEW n \in 0 .. 6
      PROVE  (x \div Weight[n]) % 2 = (y \div Weight[n]) % 2
  <2>1. n \in Bits(x, 7) <=> n \in Bits(y, 7)
    OBVIOUS
  <2>2. ((x \div Weight[n]) % 2 = 1) <=> ((y \div Weight[n]) % 2 = 1)
    BY <2>1 DEF Bits
  <2>3. Weight[n] \in Nat \ {0}
    BY Powers
  <2>4. PICK a, b : a = x \div Weight[n] /\ b = y \div Weight[n]
    OBVIOUS
  <2>5. a \in Int
    BY <2>3, <2>4, DivMod
  <2>6. b \in Int
    BY <2>3, <2>4, DivMod
  <2>7. (a % 2 = 1) <=> (b % 2 = 1)
    BY <2>2, <2>4
  <2>8. a % 2 = b % 2
    BY <2>5, <2>6, <2>7
  <2> QED
    BY <2>4, <2>8
<1>2. x % 2 = y % 2
  <2>1. x \div 1 = x /\ y \div 1 = y /\ 0 \in 0 .. 6
    OBVIOUS
  <2> QED
    BY <1>1, <2>1, Powers
<1>3. (x \div 2) % 2 = (y \div 2) % 2
  <2>1. 1 \in 0 .. 6
    OBVIOUS
  <2> QED
    BY <1>1, <2>1, Powers
<1>4. (x \div 4) % 2 = (y \div 4) % 2
  <2>1. 2 \in 0 .. 6
    OBVIOUS
  <2> QED
    BY <1>1, <2>1, Powers
<1>5. (x \div 8) % 2 = (y \div 8) % 2
  <2>1. 3 \in 0 .. 6
    OBVIOUS
  <2> QED
    BY <1>1, <2>1, Powers
<1>6. (x \div 16) % 2 = (y \div 16) % 2
  <2>1. 4 \in 0 .. 6
    OBVIOUS
  <2> QED
    BY <1>1, <2>1, Powers
<1>7. (x \div 32) % 2 = (y \div 32) % 2
  <2>1. 5 \in 0 .. 6
    OBVIOUS
  <2> QED
    BY <1>1, <2>1, Powers
<1>8. (x \div 64) % 2 = (y \div 64) % 2
  <2>1. 6 \in 0 .. 6
    OBVIOUS
  <2> QED
    BY <1>1, <2>1, Powers
<1>9. /\ x \div 4 = (x \div 2) \div 2 /\ x \div 8 = (x \div 4) \div 2
      /\ x \div 16 = (x \div 8) \div 2 /\ x \div 32 = (x \div 16) \div 2
      /\ x \div 64 = (x \div 32) \div 2 /\ x \div 64 \in 0 .. 1
  OBVIOUS
<1>10. /\ y \div 4 = (y \div 2) \div 2 /\ y \div 8 = (y \div 4) \div 2
       /\ y \div 16 = (y \div 8) \div 2 /\ y \div 32 = (y \div 16) \div 2
       /\ y \div 64 = (y \div 32) \div 2 /\ y \div 64 \in 0 .. 1
  OBVIOUS
<1> QED
  BY <1>2, <1>3, <1>4, <1>5, <1>6, <1>7, <1>8, <1>9, <1>10

-----------------------------------------------------------------------------
(* Sets of bits, moved.                                                    *)

\* What is in a set of bits that is moved up.
LEMMA InPut ==
  ASSUME NEW b, b \subseteq Int, NEW low \in Int, NEW n \in Int
  PROVE  n \in Put(b, low) <=> n - low \in b
BY DEF Put

\* And in a slice.
LEMMA InSlice ==
  ASSUME NEW w, w \subseteq Int, NEW high \in Int, NEW low \in Int, NEW n \in Int
  PROVE  n \in Slice(w, high, low) <=> n + low \in w /\ n \in 0 .. (high - low)
BY DEF Slice

\* A slice is what is between its ends.
LEMMA SameSlice ==
  ASSUME NEW w, w \subseteq Int, NEW high \in Int, NEW low \in Int,
         NEW b, b \subseteq 0 .. (high - low),
         \A n \in 0 .. (high - low) : n + low \in w <=> n \in b
  PROVE  Slice(w, high, low) = b
<1>1. ASSUME NEW n \in Slice(w, high, low)
      PROVE  n \in b
  <2>1. PICK x \in w \cap low .. high : n = x - low
    BY DEF Slice
  <2>2. n \in 0 .. (high - low) /\ n + low = x
    BY <2>1
  <2> QED
    BY <2>1, <2>2
<1>2. ASSUME NEW n \in b
      PROVE  n \in Slice(w, high, low)
  <2>1. n \in 0 .. (high - low) /\ n + low \in w /\ n \in Int
    OBVIOUS
  <2> QED
    BY <2>1, InSlice
<1> QED
  BY <1>1, <1>2

\* The fields that every word is made of.
Fields(a, b, c, d, e, o) ==
  Put(a, 25) \cup Put(b, 20) \cup Put(c, 15) \cup Put(d, 12) \cup Put(e, 7) \cup o

\* A bit of a word is in one of its fields.
LEMMA InFields ==
  ASSUME NEW a, a \subseteq 0 .. 6, NEW b, b \subseteq 0 .. 4, NEW c, c \subseteq 0 .. 4,
         NEW d, d \subseteq 0 .. 2, NEW e, e \subseteq 0 .. 4, NEW o, o \subseteq 0 .. 6
  PROVE  /\ Fields(a, b, c, d, e, o) \subseteq 0 .. 31
         /\ \A n \in 0 .. 31 :
              n \in Fields(a, b, c, d, e, o) <=>
                \/ n - 25 \in a \/ n - 20 \in b \/ n - 15 \in c
                \/ n - 12 \in d \/ n - 7 \in e \/ n \in o
<1>1. /\ a \subseteq Int /\ b \subseteq Int /\ c \subseteq Int
      /\ d \subseteq Int /\ e \subseteq Int
  OBVIOUS
<1>2. Put(a, 25) \subseteq 25 .. 31 /\ \A n \in Int : n \in Put(a, 25) <=> n - 25 \in a
  BY <1>1 DEF Put
<1>3. Put(b, 20) \subseteq 20 .. 24 /\ \A n \in Int : n \in Put(b, 20) <=> n - 20 \in b
  BY <1>1 DEF Put
<1>4. Put(c, 15) \subseteq 15 .. 19 /\ \A n \in Int : n \in Put(c, 15) <=> n - 15 \in c
  BY <1>1 DEF Put
<1>5. Put(d, 12) \subseteq 12 .. 14 /\ \A n \in Int : n \in Put(d, 12) <=> n - 12 \in d
  BY <1>1 DEF Put
<1>6. Put(e, 7) \subseteq 7 .. 11 /\ \A n \in Int : n \in Put(e, 7) <=> n - 7 \in e
  BY <1>1 DEF Put
<1>7. Fields(a, b, c, d, e, o) \subseteq 0 .. 31
  <2> SUFFICES ASSUME NEW n \in Fields(a, b, c, d, e, o) PROVE n \in 0 .. 31
    OBVIOUS
  <2>1. \/ n \in Put(a, 25) \/ n \in Put(b, 20) \/ n \in Put(c, 15)
        \/ n \in Put(d, 12) \/ n \in Put(e, 7) \/ n \in o
    BY DEF Fields
  <2>2. n \in Put(a, 25) => n \in 25 .. 31
    BY <1>2
  <2>3. n \in Put(b, 20) => n \in 20 .. 24
    BY <1>3
  <2>4. n \in Put(c, 15) => n \in 15 .. 19
    BY <1>4
  <2>5. n \in Put(d, 12) => n \in 12 .. 14
    BY <1>5
  <2>6. n \in Put(e, 7) => n \in 7 .. 11
    BY <1>6
  <2>7. n \in o => n \in 0 .. 6
    OBVIOUS
  <2> QED
    BY <2>1, <2>2, <2>3, <2>4, <2>5, <2>6, <2>7
<1>8. \A n \in 0 .. 31 :
        n \in Fields(a, b, c, d, e, o) <=>
          \/ n - 25 \in a \/ n - 20 \in b \/ n - 15 \in c
          \/ n - 12 \in d \/ n - 7 \in e \/ n \in o
  BY <1>2, <1>3, <1>4, <1>5, <1>6 DEF Fields
<1> QED
  BY <1>7, <1>8

\* What the cores find in such a word.
Apart(w, a, b, c, d, e, o) ==
  /\ w \subseteq 0 .. 31
  /\ Slice(w, 31, 25) = a /\ Slice(w, 24, 20) = b /\ Slice(w, 19, 15) = c
  /\ Slice(w, 14, 12) = d /\ Slice(w, 11, 7) = e /\ Slice(w, 6, 0) = o

\* The fields come apart again.
LEMMA FieldsApart ==
  ASSUME NEW a, a \subseteq 0 .. 6, NEW b, b \subseteq 0 .. 4, NEW c, c \subseteq 0 .. 4,
         NEW d, d \subseteq 0 .. 2, NEW e, e \subseteq 0 .. 4, NEW o, o \subseteq 0 .. 6,
         NEW w, w = Fields(a, b, c, d, e, o)
  PROVE  Apart(w, a, b, c, d, e, o)
<1>1. w \subseteq 0 .. 31
  BY InFields
<1>2. \A n \in 0 .. 31 :
        n \in w <=> \/ n - 25 \in a \/ n - 20 \in b \/ n - 15 \in c
                    \/ n - 12 \in d \/ n - 7 \in e \/ n \in o
  BY InFields
<1>3. Slice(w, 31, 25) = a
  <2>1. ASSUME NEW n \in 0 .. (31 - 25)
        PROVE  n + 25 \in w <=> n \in a
    <3>1. PICK x : x = n + 25
      OBVIOUS
    <3>2. x \in 0 .. 31 /\ x - 25 = n
      BY <3>1
    <3> QED
      BY <1>2, <3>1, <3>2
  <2>2. w \subseteq Int /\ 31 \in Int /\ 25 \in Int /\ a \subseteq 0 .. (31 - 25)
    BY <1>1
  <2> QED
    BY <2>1, <2>2, SameSlice, Zenon
<1>4. Slice(w, 24, 20) = b
  <2>1. ASSUME NEW n \in 0 .. (24 - 20)
        PROVE  n + 20 \in w <=> n \in b
    <3>1. PICK x : x = n + 20
      OBVIOUS
    <3>2. x \in 0 .. 31 /\ x - 20 = n
      BY <3>1
    <3> QED
      BY <1>2, <3>1, <3>2
  <2>2. w \subseteq Int /\ 24 \in Int /\ 20 \in Int /\ b \subseteq 0 .. (24 - 20)
    BY <1>1
  <2> QED
    BY <2>1, <2>2, SameSlice, Zenon
<1>5. Slice(w, 19, 15) = c
  <2>1. ASSUME NEW n \in 0 .. (19 - 15)
        PROVE  n + 15 \in w <=> n \in c
    <3>1. PICK x : x = n + 15
      OBVIOUS
    <3>2. x \in 0 .. 31 /\ x - 15 = n
      BY <3>1
    <3> QED
      BY <1>2, <3>1, <3>2
  <2>2. w \subseteq Int /\ 19 \in Int /\ 15 \in Int /\ c \subseteq 0 .. (19 - 15)
    BY <1>1
  <2> QED
    BY <2>1, <2>2, SameSlice, Zenon
<1>6. Slice(w, 14, 12) = d
  <2>1. ASSUME NEW n \in 0 .. (14 - 12)
        PROVE  n + 12 \in w <=> n \in d
    <3>1. PICK x : x = n + 12
      OBVIOUS
    <3>2. x \in 0 .. 31 /\ x - 12 = n
      BY <3>1
    <3> QED
      BY <1>2, <3>1, <3>2
  <2>2. w \subseteq Int /\ 14 \in Int /\ 12 \in Int /\ d \subseteq 0 .. (14 - 12)
    BY <1>1
  <2> QED
    BY <2>1, <2>2, SameSlice, Zenon
<1>7. Slice(w, 11, 7) = e
  <2>1. ASSUME NEW n \in 0 .. (11 - 7)
        PROVE  n + 7 \in w <=> n \in e
    <3>1. PICK x : x = n + 7
      OBVIOUS
    <3>2. x \in 0 .. 31 /\ x - 7 = n
      BY <3>1
    <3> QED
      BY <1>2, <3>1, <3>2
  <2>2. w \subseteq Int /\ 11 \in Int /\ 7 \in Int
    BY <1>1
  <2>3. e \subseteq 0 .. (11 - 7)
    OBVIOUS
  <2>4. \A f \in SUBSET (0 .. (11 - 7)) :
          (\A n \in 0 .. (11 - 7) : n + 7 \in w <=> n \in f) => Slice(w, 11, 7) = f
    BY <2>2, SameSlice, Zenon
  <2> QED
    BY <2>1, <2>3, <2>4, Zenon
<1>8. Slice(w, 6, 0) = o
  <2>1. ASSUME NEW n \in 0 .. (6 - 0)
        PROVE  n + 0 \in w <=> n \in o
    <3>1. PICK x : x = n + 0
      OBVIOUS
    <3>2. x \in 0 .. 31 /\ x - 0 = n
      BY <3>1
    <3> QED
      BY <1>2, <3>1, <3>2
  <2>2. w \subseteq Int /\ 6 \in Int /\ 0 \in Int
    BY <1>1
  <2>3. 6 - 0 = 6
    OBVIOUS
  <2>4. o \subseteq 0 .. (6 - 0)
    BY <2>3
  <2> QED
    BY <2>1, <2>2, <2>4, SameSlice, Zenon
<1> QED
  BY <1>1, <1>3, <1>4, <1>5, <1>6, <1>7, <1>8 DEF Apart

-----------------------------------------------------------------------------
(* The immediates of the formats, put together again.                      *)

\* The bits of w from first + s to last + s, where they are moved to.
Window(w, first, last, s) == {n \in first .. last : n + s \in w}

\* Where the bits of a moved slice come from.
LEMMA Moved ==
  ASSUME NEW w, w \subseteq Int, NEW high \in Int, NEW low \in Int, NEW to \in Int
  PROVE  Put(Slice(w, high, low), to) = Window(w, to, (to + high) - low, low - to)
<1> DEFINE last == (to + high) - low
           s == low - to
<1>1. ASSUME NEW n \in Put(Slice(w, high, low), to)
      PROVE  n \in to .. last /\ n + s \in w
  <2>1. PICK y \in Slice(w, high, low) : n = y + to
    BY DEF Put
  <2>2. PICK x \in w \cap low .. high : y = x - low
    BY DEF Slice
  <2>3. x \in Int /\ n = (x - low) + to /\ low <= x /\ x <= high
    BY <2>1, <2>2
  <2>4. n + s = x /\ n \in to .. last
    BY <2>3
  <2> QED
    BY <2>2, <2>4
<1>2. ASSUME NEW n \in to .. last, n + s \in w
      PROVE  n \in Put(Slice(w, high, low), to)
  <2>1. PICK x : x = n + s
    OBVIOUS
  <2>2. x \in w \cap low .. high /\ n = (x - low) + to
    BY <1>2, <2>1
  <2>3. x - low \in Slice(w, high, low)
    BY <2>2 DEF Slice
  <2> QED
    BY <2>2, <2>3 DEF Put
<1> QED
  BY <1>1, <1>2 DEF Window

\* Where the cores put the pieces of an immediate.
LEMMA MovedTo ==
  ASSUME NEW w, w \subseteq 0 .. 31
  PROVE  /\ Put(Slice(w, 30, 25), 5) = Window(w, 5, 10, 20)
         /\ Put(Slice(w, 11, 8), 1) = Window(w, 1, 4, 7)
         /\ Put(Slice(w, 30, 21), 1) = Window(w, 1, 10, 20)
         /\ Put(Slice(w, 19, 12), 12) = Window(w, 12, 19, 0)
         /\ Put(Slice(w, 31, 25), 5) = Window(w, 5, 11, 20)
<1>0. w \subseteq Int
  OBVIOUS
<1>1. Put(Slice(w, 30, 25), 5) = Window(w, 5, 10, 20)
  <2>1. PICK high \in Int, low \in Int, to \in Int : high = 30 /\ low = 25 /\ to = 5
    OBVIOUS
  <2>2. Put(Slice(w, high, low), to) = Window(w, to, (to + high) - low, low - to)
    BY <1>0, Moved, Zenon
  <2>3. (to + high) - low = 10 /\ low - to = 20
    BY <2>1
  <2> QED
    BY <2>1, <2>2, <2>3
<1>2. Put(Slice(w, 11, 8), 1) = Window(w, 1, 4, 7)
  <2>1. PICK high \in Int, low \in Int, to \in Int : high = 11 /\ low = 8 /\ to = 1
    OBVIOUS
  <2>2. Put(Slice(w, high, low), to) = Window(w, to, (to + high) - low, low - to)
    BY <1>0, Moved, Zenon
  <2>3. (to + high) - low = 4 /\ low - to = 7
    BY <2>1
  <2> QED
    BY <2>1, <2>2, <2>3
<1>3. Put(Slice(w, 30, 21), 1) = Window(w, 1, 10, 20)
  <2>1. PICK high \in Int, low \in Int, to \in Int : high = 30 /\ low = 21 /\ to = 1
    OBVIOUS
  <2>2. Put(Slice(w, high, low), to) = Window(w, to, (to + high) - low, low - to)
    BY <1>0, Moved, Zenon
  <2>3. (to + high) - low = 10 /\ low - to = 20
    BY <2>1
  <2> QED
    BY <2>1, <2>2, <2>3
<1>4. Put(Slice(w, 19, 12), 12) = Window(w, 12, 19, 0)
  <2>1. PICK high \in Int, low \in Int, to \in Int : high = 19 /\ low = 12 /\ to = 12
    OBVIOUS
  <2>2. Put(Slice(w, high, low), to) = Window(w, to, (to + high) - low, low - to)
    BY <1>0, Moved, Zenon
  <2>3. (to + high) - low = 19 /\ low - to = 0
    BY <2>1
  <2> QED
    BY <2>1, <2>2, <2>3
<1>5. Put(Slice(w, 31, 25), 5) = Window(w, 5, 11, 20)
  <2>1. PICK high \in Int, low \in Int, to \in Int : high = 31 /\ low = 25 /\ to = 5
    OBVIOUS
  <2>2. Put(Slice(w, high, low), to) = Window(w, to, (to + high) - low, low - to)
    BY <1>0, Moved, Zenon
  <2>3. (to + high) - low = 11 /\ low - to = 20
    BY <2>1
  <2> QED
    BY <2>1, <2>2, <2>3
<1> QED
  BY <1>1, <1>2, <1>3, <1>4, <1>5

\* The immediate of a branch.
LEMMA BranchBits ==
  ASSUME NEW b, b \subseteq 1 .. 12, NEW w, w \subseteq 0 .. 31,
         31 \in w <=> 12 \in b, \A n \in 5 .. 10 : n + 20 \in w <=> n \in b,
         \A n \in 1 .. 4 : n + 7 \in w <=> n \in b, 7 \in w <=> 11 \in b
  PROVE  Put(Slice(w, 31, 31), 12) \cup Put(Slice(w, 30, 25), 5)
           \cup Put(Slice(w, 11, 8), 1) \cup Put(Slice(w, 7, 7), 11) = b
<1>1. \A n : n \in Put(Slice(w, 31, 31), 12) <=> n = 12 /\ 31 \in w
  BY DEF Put, Slice
<1>2. Put(Slice(w, 30, 25), 5) = Window(w, 5, 10, 20)
  BY MovedTo
<1>3. Put(Slice(w, 11, 8), 1) = Window(w, 1, 4, 7)
  BY MovedTo
<1>4. \A n : n \in Put(Slice(w, 7, 7), 11) <=> n = 11 /\ 7 \in w
  BY DEF Put, Slice
<1>5. \A n \in b : n \in 5 .. 10 \/ n \in 1 .. 4 \/ n = 11 \/ n = 12
  OBVIOUS
<1> QED
  BY <1>1, <1>2, <1>3, <1>4, <1>5 DEF Window

\* That of a jump.
LEMMA JumpBits ==
  ASSUME NEW b, b \subseteq 1 .. 20, NEW w, w \subseteq 0 .. 31,
         31 \in w <=> 20 \in b, \A n \in 1 .. 10 : n + 20 \in w <=> n \in b,
         20 \in w <=> 11 \in b, \A n \in 12 .. 19 : n \in w <=> n \in b
  PROVE  Put(Slice(w, 19, 12), 12) \cup Put(Slice(w, 20, 20), 11)
           \cup Put(Slice(w, 30, 21), 1) \cup Put(Slice(w, 31, 31), 20) = b
<1>1. \A n : n \in Put(Slice(w, 31, 31), 20) <=> n = 20 /\ 31 \in w
  BY DEF Put, Slice
<1>2. Put(Slice(w, 30, 21), 1) = Window(w, 1, 10, 20)
  BY MovedTo
<1>3. \A n : n \in Put(Slice(w, 20, 20), 11) <=> n = 11 /\ 20 \in w
  BY DEF Put, Slice
<1>4. Put(Slice(w, 19, 12), 12) = Window(w, 12, 19, 0)
  BY MovedTo
<1>5. \A n \in b : n \in 1 .. 10 \/ n = 11 \/ n \in 12 .. 19 \/ n = 20
  OBVIOUS
<1>6. \A n : n \in Window(w, 12, 19, 0) <=> n \in 12 .. 19 /\ n \in w
  <2>1. \A n \in 12 .. 19 : n + 0 = n
    OBVIOUS
  <2> QED
    BY <2>1 DEF Window
<1>7. \A n : n \in Window(w, 1, 10, 20) <=> n \in 1 .. 10 /\ n + 20 \in w
  BY DEF Window
<1>8. PICK f : f = Put(Slice(w, 19, 12), 12) \cup Put(Slice(w, 20, 20), 11)
                   \cup Put(Slice(w, 30, 21), 1) \cup Put(Slice(w, 31, 31), 20)
  OBVIOUS
<1>9. \A n : n \in f <=> \/ n \in Window(w, 12, 19, 0) \/ n \in Put(Slice(w, 20, 20), 11)
                         \/ n \in Window(w, 1, 10, 20) \/ n \in Put(Slice(w, 31, 31), 20)
  BY <1>2, <1>4, <1>8
<1>10. ASSUME NEW n \in b
       PROVE  n \in f
  <2>1. CASE n \in 1 .. 10
    <3>1. n \in Window(w, 1, 10, 20)
      BY <1>7, <2>1
    <3> QED
      BY <1>9, <3>1, Zenon
  <2>2. CASE n \in 12 .. 19
    <3>1. n \in Window(w, 12, 19, 0)
      BY <1>6, <2>2
    <3> QED
      BY <1>9, <3>1, Zenon
  <2>3. CASE n = 11
    <3>1. n \in Put(Slice(w, 20, 20), 11)
      BY <1>3, <2>3
    <3> QED
      BY <1>9, <3>1, Zenon
  <2>4. CASE n = 20
    <3>1. n \in Put(Slice(w, 31, 31), 20)
      BY <1>1, <2>4
    <3> QED
      BY <1>9, <3>1, Zenon
  <2> QED
    BY <1>5, <2>1, <2>2, <2>3, <2>4, Zenon
<1>11. ASSUME NEW n \in f
       PROVE  n \in b
  <2>1. CASE n \in Window(w, 1, 10, 20)
    BY <1>7, <2>1
  <2>2. CASE n \in Window(w, 12, 19, 0)
    BY <1>6, <2>2
  <2>3. CASE n \in Put(Slice(w, 20, 20), 11)
    BY <1>3, <2>3
  <2>4. CASE n \in Put(Slice(w, 31, 31), 20)
    BY <1>1, <2>4
  <2> QED
    BY <1>9, <2>1, <2>2, <2>3, <2>4, Zenon
<1> QED
  BY <1>8, <1>10, <1>11

\* That of a store.
LEMMA StoreBits ==
  ASSUME NEW b, b \subseteq 0 .. 11, NEW w, w \subseteq 0 .. 31,
         \A n \in 5 .. 11 : n + 20 \in w <=> n \in b,
         \A n \in 0 .. 4 : n + 7 \in w <=> n \in b
  PROVE  Put(Slice(w, 31, 25), 5) \cup Slice(w, 11, 7) = b
<1>1. Put(Slice(w, 31, 25), 5) = Window(w, 5, 11, 20)
  BY MovedTo
<1>2. \A n : n \in Slice(w, 11, 7) <=> n \in 0 .. 4 /\ n + 7 \in w
  BY DEF Slice
<1>3. \A n \in b : n \in 5 .. 11 \/ n \in 0 .. 4
  OBVIOUS
<1> QED
  BY <1>1, <1>2, <1>3 DEF Window

-----------------------------------------------------------------------------
(* The codes of the mnemonics.                                             *)

\* The names of the funct7 that the cores tell apart.
Funct7Of(m) == IF IsMultiplication(m) THEN 1 ELSE IF IsAlternative(m) THEN 32 ELSE 0

\* The table's codes of the register operations are those of the cores.
LEMMA CodesR ==
  ASSUME NEW m \in R_instr
  PROVE  /\ instr_data[m][1] = 51 /\ instr_data[m][2] = Funct3Of(m)
         /\ instr_data[m][3] = Funct7Of(m) /\ Operation(m) = "OP"
<1>1. instr_data[m][1] = 51
  BY SMTT(30) DEF R_instr, instr_data
<1>2. instr_data[m][2] = Funct3Of(m)
  BY SMTT(30) DEF R_instr, instr_data, Funct3Of
<1>3. instr_data[m][3] = Funct7Of(m)
  BY SMTT(30) DEF R_instr, instr_data, Funct7Of, IsMultiplication, IsAlternative
<1> QED
  BY <1>1, <1>2, <1>3 DEF Operation

\* So are those of the operations with an immediate, the loads and jalr.
LEMMA CodesI ==
  ASSUME NEW m \in I_instr
  PROVE  /\ instr_data[m][2] = Funct3Of(m)
         /\ m \in non_imm_ins => instr_data[m][3] = Funct7Of(m)
         /\ \/ Operation(m) = "JALR" /\ instr_data[m][1] = 103
            \/ Operation(m) = "LD" /\ instr_data[m][1] = 3
            \/ Operation(m) = "OPI" /\ instr_data[m][1] = 19
         /\ m \in non_imm_ins \cup {"addi"} => Operation(m) = "OPI"
         /\ m \notin R_instr
<1>1. instr_data[m][2] = Funct3Of(m)
  BY SMTT(30) DEF I_instr, non_imm_ins, instr_data, Funct3Of
<1>2. m \in non_imm_ins => instr_data[m][3] = Funct7Of(m)
  BY SMTT(30) DEF non_imm_ins, instr_data, Funct7Of, IsMultiplication, IsAlternative
<1>3. m \notin R_instr
  BY SMTT(30) DEF I_instr, non_imm_ins, R_instr
<1>4. m \in non_imm_ins \cup {"addi"} => m # "jalr" /\ m \notin Loads
  BY SMTT(30) DEF non_imm_ins, Loads
<1>5. CASE m = "jalr"
  <2>1. instr_data[m][1] = 103
    BY <1>5 DEF instr_data
  <2>2. Operation(m) = "JALR"
    BY <1>3, <1>5 DEF Operation
  <2> QED
    BY <1>1, <1>2, <1>3, <1>4, <1>5, <2>1, <2>2
<1>6. CASE m # "jalr" /\ m \in Loads
  <2>1. instr_data[m][1] = 3
    BY <1>6, SMTT(30) DEF Loads, instr_data
  <2>2. Operation(m) = "LD"
    BY <1>3, <1>6 DEF Operation
  <2> QED
    BY <1>1, <1>2, <1>3, <1>4, <1>6, <2>1, <2>2
<1>7. CASE m # "jalr" /\ m \notin Loads
  <2>1. instr_data[m][1] = 19
    BY <1>7, SMTT(30) DEF Loads, I_instr, non_imm_ins, instr_data
  <2>2. Operation(m) = "OPI"
    BY <1>3, <1>7 DEF Operation
  <2> QED
    BY <1>1, <1>2, <1>3, <1>4, <1>7, <2>1, <2>2
<1> QED
  BY <1>5, <1>6, <1>7

\* And of the rest.
LEMMA CodesRest ==
  ASSUME NEW m \in S_instr \cup SB_instr \cup U_instr \cup UJ_instr
  PROVE  /\ m \notin R_instr /\ m \notin I_instr /\ m \notin handled_pseudo
         /\ m \in S_instr => /\ Operation(m) = "ST" /\ instr_data[m][1] = 35
                             /\ instr_data[m][2] = Funct3Of(m)
         /\ m \in SB_instr => /\ Operation(m) = "BR" /\ instr_data[m][1] = 99
                              /\ instr_data[m][2] = Funct3Of(m) /\ m \notin S_instr
         /\ m \in U_instr => /\ \/ Operation(m) = "LUI" /\ instr_data[m][1] = 55
                                \/ Operation(m) = "AUIPC" /\ instr_data[m][1] = 23
                             /\ m \notin S_instr /\ m \notin SB_instr
         /\ m \in UJ_instr => /\ Operation(m) = "JAL" /\ instr_data[m][1] = 111
                              /\ m \notin S_instr /\ m \notin SB_instr /\ m \notin U_instr
<1>1. m \notin R_instr /\ m \notin I_instr /\ m \notin Loads /\ m # "jalr"
  BY SMTT(30) DEF S_instr, SB_instr, U_instr, UJ_instr, R_instr, I_instr, non_imm_ins, Loads
<1>2. m \notin handled_pseudo
  BY SMTT(30) DEF S_instr, SB_instr, U_instr, UJ_instr, handled_pseudo
<1>3. ASSUME m \in S_instr
      PROVE  instr_data[m][1] = 35 /\ instr_data[m][2] = Funct3Of(m)
  <2>1. instr_data[m][1] = 35
    BY <1>3, SMTT(30) DEF S_instr, instr_data
  <2>2. instr_data[m][2] = Funct3Of(m)
    BY <1>3, SMTT(30) DEF S_instr, instr_data, Funct3Of
  <2> QED
    BY <2>1, <2>2
<1>4. ASSUME m \in SB_instr
      PROVE  instr_data[m][1] = 99 /\ instr_data[m][2] = Funct3Of(m) /\ m \notin S_instr
  <2>1. instr_data[m][1] = 99
    BY <1>4, SMTT(30) DEF SB_instr, instr_data
  <2>2. instr_data[m][2] = Funct3Of(m)
    BY <1>4, SMTT(30) DEF SB_instr, instr_data, Funct3Of
  <2>3. m \notin S_instr
    BY <1>4, SMTT(30) DEF SB_instr, S_instr
  <2> QED
    BY <2>1, <2>2, <2>3
<1>5. ASSUME m \in U_instr
      PROVE  /\ \/ m = "lui" /\ instr_data[m][1] = 55
                \/ m = "auipc" /\ instr_data[m][1] = 23
             /\ m \notin S_instr /\ m \notin SB_instr
  <2>1. \/ m = "lui" /\ instr_data[m][1] = 55
        \/ m = "auipc" /\ instr_data[m][1] = 23
    BY <1>5, SMTT(30) DEF U_instr, instr_data
  <2>2. m \notin S_instr /\ m \notin SB_instr
    BY <1>5, SMTT(30) DEF U_instr, SB_instr, S_instr
  <2> QED
    BY <2>1, <2>2
<1>6. ASSUME m \in UJ_instr
      PROVE  /\ m = "jal" /\ instr_data[m][1] = 111
             /\ m \notin S_instr /\ m \notin SB_instr /\ m \notin U_instr
  BY <1>6, SMTT(30) DEF UJ_instr, U_instr, SB_instr, S_instr, instr_data
<1>7. m \in S_instr => Operation(m) = "ST"
  BY <1>1 DEF Operation
<1>8. m \in SB_instr => Operation(m) = "BR"
  BY <1>1, <1>4 DEF Operation
<1>9. m \in U_instr => IF m = "lui" THEN Operation(m) = "LUI" ELSE Operation(m) = "AUIPC"
  BY <1>1, <1>5 DEF Operation
<1>10. m \in UJ_instr => Operation(m) = "JAL"
  BY <1>1, <1>6 DEF Operation
<1> QED
  BY <1>1, <1>2, <1>3, <1>4, <1>5, <1>6, <1>7, <1>8, <1>9, <1>10

-----------------------------------------------------------------------------
(* The words of the formats.                                               *)

\* A field of some bits.
LEMMA FieldTypes ==
  ASSUME NEW x
  PROVE  /\ Bits(x, 3) \subseteq 0 .. 2 /\ Bits(x, 5) \subseteq 0 .. 4
         /\ Bits(x, 7) \subseteq 0 .. 6 /\ Bits(x, 12) \subseteq 0 .. 11
         /\ Bits(x, 13) \subseteq 0 .. 12 /\ Bits(x, 20) \subseteq 0 .. 19
         /\ Bits(x, 21) \subseteq 0 .. 20
BY DEF Bits

\* The opcode that a word is decoded to.
LEMMA OpCodes ==
  ASSUME NEW w, NEW c \in {55, 23, 111, 103, 99, 3, 35, 19, 51}, Slice(w, 6, 0) = Bits(c, 7)
  PROVE  OpCodeOf(w) = IF c = 55 THEN "LUI" ELSE IF c = 23 THEN "AUIPC"
                       ELSE IF c = 111 THEN "JAL" ELSE IF c = 103 THEN "JALR"
                       ELSE IF c = 99 THEN "BR" ELSE IF c = 3 THEN "LD"
                       ELSE IF c = 35 THEN "ST" ELSE IF c = 19 THEN "OPI" ELSE "OP"
<1>1. c \in 0 .. 127
  OBVIOUS
<1>2. ASSUME NEW d \in {55, 23, 111, 103, 99, 3, 35, 19, 51}
      PROVE  Slice(w, 6, 0) = Bits(d, 7) <=> c = d
  <2>1. d \in 0 .. 127
    OBVIOUS
  <2>2. Bits(c, 7) = Bits(d, 7) => c = d
    BY <1>1, <2>1, SevenBits
  <2> QED
    BY <2>2
<1>3. /\ Slice(w, 6, 0) = Bits(55, 7) <=> c = 55
      /\ Slice(w, 6, 0) = Bits(23, 7) <=> c = 23
      /\ Slice(w, 6, 0) = Bits(111, 7) <=> c = 111
      /\ Slice(w, 6, 0) = Bits(103, 7) <=> c = 103
      /\ Slice(w, 6, 0) = Bits(99, 7) <=> c = 99
  BY <1>2
<1>4. /\ Slice(w, 6, 0) = Bits(3, 7) <=> c = 3
      /\ Slice(w, 6, 0) = Bits(35, 7) <=> c = 35
      /\ Slice(w, 6, 0) = Bits(19, 7) <=> c = 19
      /\ Slice(w, 6, 0) = Bits(51, 7) <=> c = 51
  BY <1>2
<1> QED
  BY <1>3, <1>4 DEF OpCodeOf

\* A register operation is written field by field.
LEMMA WrittenR ==
  ASSUME NEW l
  PROVE  R_type(l) = Fields(Bits(instr_data[l.m][3], 7), Bits(l.rs2, 5), Bits(l.rs1, 5),
                            Bits(instr_data[l.m][2], 3), Bits(l.rd, 5),
                            Bits(instr_data[l.m][1], 7))
BY DEF R_type, Fields, F7, Rs2, Rs1, F3, Rd, Opcode

\* A shift is written so too, with its amount for rs2.
LEMMA WrittenShift ==
  ASSUME NEW l, l.m \in non_imm_ins
  PROVE  I_type(l) = Fields(Bits(instr_data[l.m][3], 7), Bits(l.imm, 5), Bits(l.rs1, 5),
                            Bits(instr_data[l.m][2], 3), Bits(l.rd, 5),
                            Bits(instr_data[l.m][1], 7))
BY DEF I_type, Fields, F7, Rs1, F3, Rd, Opcode

\* Twelve bits in two fields that are next to each other.
LEMMA TwelveSplit ==
  ASSUME NEW b, b \subseteq 0 .. 11
  PROVE  /\ Put(b, 20) = Put(Slice(b, 11, 5), 25) \cup Put(Slice(b, 4, 0), 20)
         /\ Slice(b, 11, 5) \subseteq 0 .. 6 /\ Slice(b, 4, 0) \subseteq 0 .. 4
<1>1. \A n : n \in Put(b, 20) <=> n - 20 \in b /\ n \in 20 .. 31
  BY DEF Put
<1>2. \A n : n \in Slice(b, 11, 5) <=> n \in 0 .. 6 /\ n + 5 \in b
  BY DEF Slice
<1>3. \A n : n \in Slice(b, 4, 0) <=> n \in 0 .. 4 /\ n \in b
  BY DEF Slice
<1>4. b \subseteq Int
  OBVIOUS
<1>5. Put(Slice(b, 11, 5), 25) = Window(b, 25, 31, -20)
  <2>1. PICK high \in Int, low \in Int, to \in Int : high = 11 /\ low = 5 /\ to = 25
    OBVIOUS
  <2>2. Put(Slice(b, high, low), to) = Window(b, to, (to + high) - low, low - to)
    BY <1>4, Moved, Zenon
  <2>3. (to + high) - low = 31 /\ low - to = -20
    BY <2>1
  <2> QED
    BY <2>1, <2>2, <2>3
<1>6. Put(Slice(b, 4, 0), 20) = Window(b, 20, 24, -20)
  <2>1. PICK high \in Int, low \in Int, to \in Int : high = 4 /\ low = 0 /\ to = 20
    OBVIOUS
  <2>2. Put(Slice(b, high, low), to) = Window(b, to, (to + high) - low, low - to)
    BY <1>4, Moved, Zenon
  <2>3. (to + high) - low = 24 /\ low - to = -20
    BY <2>1
  <2> QED
    BY <2>1, <2>2, <2>3
<1>7. ASSUME NEW n
      PROVE  n \in Put(b, 20) <=> n \in Window(b, 25, 31, -20) \/ n \in Window(b, 20, 24, -20)
  <2>1. CASE n \in 20 .. 24
    <3>1. n + (-20) = n - 20 /\ n \notin 25 .. 31 /\ n \in 20 .. 31
      BY <2>1
    <3> QED
      BY <1>1, <2>1, <3>1 DEF Window
  <2>2. CASE n \in 25 .. 31
    <3>1. n + (-20) = n - 20 /\ n \notin 20 .. 24 /\ n \in 20 .. 31
      BY <2>2
    <3> QED
      BY <1>1, <2>2, <3>1 DEF Window
  <2>3. CASE n \notin 20 .. 24 /\ n \notin 25 .. 31
    <3>1. n \notin 20 .. 31
      BY <2>3
    <3> QED
      BY <1>1, <2>3, <3>1 DEF Window
  <2> QED
    BY <2>1, <2>2, <2>3
<1>8. Slice(b, 11, 5) \subseteq 0 .. 6 /\ Slice(b, 4, 0) \subseteq 0 .. 4
  BY <1>2, <1>3
<1>9. Put(b, 20) = Window(b, 25, 31, -20) \cup Window(b, 20, 24, -20)
  BY <1>7
<1> QED
  BY <1>5, <1>6, <1>8, <1>9

\* A set of bits put where it was taken from.
LEMMA PutBack ==
  ASSUME NEW high \in Int, NEW low \in Int, NEW x, x \subseteq low .. high
  PROVE  Put(Slice(x, high, low), low) = x /\ Slice(x, high, low) \subseteq 0 .. (high - low)
<1>1. x \subseteq Int
  OBVIOUS
<1>2. Put(Slice(x, high, low), low) = Window(x, low, (low + high) - low, low - low)
  BY <1>1, Moved, Zenon
<1>3. (low + high) - low = high /\ low - low = 0
  OBVIOUS
<1>4. ASSUME NEW n \in low .. high
      PROVE  n + 0 = n
  OBVIOUS
<1>5. Window(x, low, high, 0) = x
  BY <1>4 DEF Window
<1>6. Slice(x, high, low) \subseteq 0 .. (high - low)
  BY DEF Slice
<1> QED
  BY <1>2, <1>3, <1>5, <1>6

\* A word whose immediate is in the places of funct7 and rd.
Split(x, b, c, d, y, o) == x \cup Put(b, 20) \cup Put(c, 15) \cup Put(d, 12) \cup y \cup o
SplitApart(w, x, b, c, d, y, o) ==
  /\ w \subseteq 0 .. 31
  /\ Slice(w, 24, 20) = b /\ Slice(w, 19, 15) = c
  /\ Slice(w, 14, 12) = d /\ Slice(w, 6, 0) = o
  /\ \A n \in 25 .. 31 : n \in w <=> n \in x
  /\ \A n \in 7 .. 11 : n \in w <=> n \in y

\* It comes apart, and its immediate is found at its places.
LEMMA SplitWord ==
  ASSUME NEW x, x \subseteq 25 .. 31, NEW b, b \subseteq 0 .. 4, NEW c, c \subseteq 0 .. 4,
         NEW d, d \subseteq 0 .. 2, NEW y, y \subseteq 7 .. 11, NEW o, o \subseteq 0 .. 6,
         NEW w, w = Split(x, b, c, d, y, o)
  PROVE  SplitApart(w, x, b, c, d, y, o)
<1>1. PICK a : a = Slice(x, 31, 25)
  OBVIOUS
<1>2. PICK e : e = Slice(y, 11, 7)
  OBVIOUS
<1>3. Put(a, 25) = x /\ a \subseteq 0 .. 6
  <2>1. PICK high \in Int, low \in Int : high = 31 /\ low = 25
    OBVIOUS
  <2>2. x \subseteq low .. high
    BY <2>1
  <2>3. Put(Slice(x, high, low), low) = x /\ Slice(x, high, low) \subseteq 0 .. (high - low)
    BY <2>2, PutBack, Zenon
  <2>4. high - low = 6
    BY <2>1
  <2> QED
    BY <1>1, <2>1, <2>3, <2>4
<1>4. Put(e, 7) = y /\ e \subseteq 0 .. 4
  <2>1. PICK high \in Int, low \in Int : high = 11 /\ low = 7
    OBVIOUS
  <2>2. y \subseteq low .. high
    BY <2>1
  <2>3. Put(Slice(y, high, low), low) = y /\ Slice(y, high, low) \subseteq 0 .. (high - low)
    BY <2>2, PutBack, Zenon
  <2>4. high - low = 4
    BY <2>1
  <2> QED
    BY <1>2, <2>1, <2>3, <2>4
<1>5. w = Fields(a, b, c, d, e, o)
  BY <1>3, <1>4 DEF Fields, Split
<1>6. /\ w \subseteq 0 .. 31
      /\ Slice(w, 24, 20) = b /\ Slice(w, 19, 15) = c
      /\ Slice(w, 14, 12) = d /\ Slice(w, 6, 0) = o
  <2>1. a \subseteq 0 .. 6
    BY <1>3
  <2>2. e \subseteq 0 .. 4
    BY <1>4
  <2>3. Apart(w, a, b, c, d, e, o)
    BY <1>5, <2>1, <2>2, FieldsApart
  <2> QED
    BY <2>3 DEF Apart
<1>7. Put(b, 20) \subseteq 20 .. 24 /\ Put(c, 15) \subseteq 15 .. 19 /\ Put(d, 12) \subseteq 12 .. 14
  <2>1. Put(b, 20) \subseteq 20 .. 24
    BY DEF Put
  <2>2. Put(c, 15) \subseteq 15 .. 19
    BY DEF Put
  <2>3. Put(d, 12) \subseteq 12 .. 14
    BY DEF Put
  <2> QED
    BY <2>1, <2>2, <2>3
<1>8. ASSUME NEW n \in 25 .. 31
      PROVE  n \in w <=> n \in x
  <2>1. n \notin Put(b, 20) /\ n \notin Put(c, 15) /\ n \notin Put(d, 12) /\ n \notin y /\ n \notin o
    <3>1. n \notin 20 .. 24 /\ n \notin 15 .. 19 /\ n \notin 12 .. 14 /\ n \notin 7 .. 11 /\ n \notin 0 .. 6
      OBVIOUS
    <3> QED
      BY <1>7, <3>1, Zenon
  <2> QED
    BY <2>1, Zenon DEF Split
<1>9. ASSUME NEW n \in 7 .. 11
      PROVE  n \in w <=> n \in y
  <2>1. n \notin Put(b, 20) /\ n \notin Put(c, 15) /\ n \notin Put(d, 12) /\ n \notin x /\ n \notin o
    <3>1. n \notin 20 .. 24 /\ n \notin 15 .. 19 /\ n \notin 12 .. 14 /\ n \notin 25 .. 31 /\ n \notin 0 .. 6
      OBVIOUS
    <3> QED
      BY <1>7, <3>1, Zenon
  <2> QED
    BY <2>1, Zenon DEF Split
<1> QED
  BY <1>6, <1>8, <1>9 DEF SplitApart

\* A word of an upper immediate or a jump.
WideApart(w, x, e, o) ==
  /\ w \subseteq 0 .. 31
  /\ Slice(w, 11, 7) = e /\ Slice(w, 6, 0) = o
  /\ \A n \in 12 .. 31 : n \in w <=> n \in x

\* So does it.
LEMMA WideWord ==
  ASSUME NEW x, x \subseteq 12 .. 31, NEW e, e \subseteq 0 .. 4, NEW o, o \subseteq 0 .. 6,
         NEW w, w = x \cup Put(e, 7) \cup o
  PROVE  WideApart(w, x, e, o)
<1>1. Put(e, 7) \subseteq 7 .. 11 /\ \A n \in Int : n \in Put(e, 7) <=> n - 7 \in e
  BY DEF Put
<1>2. w \subseteq 0 .. 31
  <2> SUFFICES ASSUME NEW n \in w PROVE n \in 0 .. 31
    OBVIOUS
  <2>1. n \in x => n \in 12 .. 31
    OBVIOUS
  <2>2. n \in Put(e, 7) => n \in 7 .. 11
    BY <1>1
  <2>3. n \in o => n \in 0 .. 6
    OBVIOUS
  <2>4. n \in x \/ n \in Put(e, 7) \/ n \in o
    OBVIOUS
  <2> QED
    BY <2>1, <2>2, <2>3, <2>4
<1>3. ASSUME NEW n \in 12 .. 31
      PROVE  n \in w <=> n \in x
  <2>1. n \notin 7 .. 11 /\ n \notin 0 .. 6
    OBVIOUS
  <2>2. n \notin Put(e, 7) /\ n \notin o
    BY <1>1, <2>1, Zenon
  <2> QED
    BY <2>2, Zenon
<1>4. Slice(w, 11, 7) = e
  <2>1. ASSUME NEW n \in 0 .. (11 - 7)
        PROVE  n + 7 \in w <=> n \in e
    <3>1. PICK z : z = n + 7
      OBVIOUS
    <3>2. z \in Int /\ z - 7 = n /\ z \notin 12 .. 31 /\ z \notin 0 .. 6
      BY <3>1
    <3>3. z \notin x /\ z \notin o
      BY <3>2, Zenon
    <3>4. z \in w <=> z \in Put(e, 7)
      BY <3>3, Zenon
    <3>5. z \in Put(e, 7) <=> n \in e
      BY <1>1, <3>2
    <3> QED
      BY <3>1, <3>4, <3>5
  <2>2. PICK v : v = w
    OBVIOUS
  <2>3. v \subseteq Int /\ 11 \in Int /\ 7 \in Int /\ e \subseteq 0 .. (11 - 7)
    BY <1>2, <2>2
  <2>4. \A n \in 0 .. (11 - 7) : n + 7 \in v <=> n \in e
    BY <2>1, <2>2
  <2>5. Slice(v, 11, 7) = e
    BY <2>3, <2>4, SameSlice, Zenon
  <2> QED
    BY <2>2, <2>5
<1>5. Slice(w, 6, 0) = o
  <2>1. ASSUME NEW n \in 0 .. (6 - 0)
        PROVE  n + 0 \in w <=> n \in o
    <3>1. n + 0 = n /\ n \notin 12 .. 31 /\ n \notin 7 .. 11
      OBVIOUS
    <3>2. n \notin x /\ n \notin Put(e, 7)
      BY <1>1, <3>1, Zenon
    <3>3. n \in w <=> n \in o
      BY <3>2, Zenon
    <3> QED
      BY <3>1, <3>3
  <2>2. PICK v : v = w
    OBVIOUS
  <2>3. v \subseteq Int /\ 6 \in Int /\ 0 \in Int
    BY <1>2, <2>2
  <2>4. 6 - 0 = 6
    OBVIOUS
  <2>5. o \subseteq 0 .. (6 - 0)
    BY <2>4
  <2>6. \A n \in 0 .. (6 - 0) : n + 0 \in v <=> n \in o
    BY <2>1, <2>2
  <2>7. Slice(v, 6, 0) = o
    BY <2>3, <2>5, <2>6, SameSlice, Zenon
  <2> QED
    BY <2>2, <2>7
<1> QED
  BY <1>2, <1>3, <1>4, <1>5 DEF WideApart

-----------------------------------------------------------------------------
(* Decoding.                                                               *)

\* Of a line l, what the cores shall decode: DecodesAsWritten of any line.
Says(i, l) ==
  LET m == l.m
      op == Operation(m)
  IN  /\ i.op = op
      /\ op \notin {"LUI", "AUIPC", "JAL"} => i.f3 = Bits(Funct3Of(m), 3)
      /\ op = "OP" \/ m \in non_imm_ins =>
           i.f7 = IF IsMultiplication(m) THEN {0}
                  ELSE IF IsAlternative(m) THEN {5} ELSE {}
      /\ op \notin {"ST", "BR"} => i.rd = Bits(l.rd, 5)
      /\ op \notin {"LUI", "AUIPC", "JAL"} => i.rs1 = Bits(l.rs1, 5)
      /\ op \in {"OP", "ST", "BR"} => i.rs2 = Bits(l.rs2, 5)
      /\ m \in non_imm_ins => i.rs2 = Bits(l.imm, 5)
      /\ op \in {"LUI", "AUIPC"} => i.imm = Put(Bits(l.imm, 20), 12)
      /\ op \in {"JAL", "JALR", "BR", "LD", "ST"} => i.imm = Word32(l.imm)
      /\ op = "OPI" /\ m \notin non_imm_ins =>
           i.imm = Word32(IF l.imm >= Weight[11] THEN l.imm - Weight[12] ELSE l.imm)

\* What decode takes from a word.
LEMMA Decoded ==
  ASSUME NEW w
  PROVE  /\ Decode(w).op = OpCodeOf(w)
         /\ Decode(w).f3 = Slice(w, 14, 12) /\ Decode(w).f7 = Slice(w, 31, 25)
         /\ Decode(w).rd = Slice(w, 11, 7) /\ Decode(w).rs1 = Slice(w, 19, 15)
         /\ Decode(w).rs2 = Slice(w, 24, 20)
         /\ Decode(w).imm = Immediate(OpCodeOf(w), w)
BY DEF Decode

\* The three values of funct7, as bits.
LEMMA Funct7Bits ==
  ASSUME NEW m
  PROVE  Bits(Funct7Of(m), 7) = IF IsMultiplication(m) THEN {0}
                                ELSE IF IsAlternative(m) THEN {5} ELSE {}
<1>1. Bits(0, 7) = {}
  <2>1. ASSUME NEW n \in 0 .. 6
        PROVE  ((0 \div Weight[n]) % 2 = 1) <=> FALSE
    <3>1. CASE n = 0
      <4>1. 0 \div 1 = 0 /\ 0 % 2 = 0
        OBVIOUS
      <4> QED
        BY <3>1, <4>1, Powers
    <3>2. CASE n = 1
      <4>1. 0 \div 2 = 0 /\ 0 % 2 = 0
        OBVIOUS
      <4> QED
        BY <3>2, <4>1, Powers
    <3>3. CASE n = 2
      <4>1. 0 \div 4 = 0 /\ 0 % 2 = 0
        OBVIOUS
      <4> QED
        BY <3>3, <4>1, Powers
    <3>4. CASE n = 3
      <4>1. 0 \div 8 = 0 /\ 0 % 2 = 0
        OBVIOUS
      <4> QED
        BY <3>4, <4>1, Powers
    <3>5. CASE n = 4
      <4>1. 0 \div 16 = 0 /\ 0 % 2 = 0
        OBVIOUS
      <4> QED
        BY <3>5, <4>1, Powers
    <3>6. CASE n = 5
      <4>1. 0 \div 32 = 0 /\ 0 % 2 = 0
        OBVIOUS
      <4> QED
        BY <3>6, <4>1, Powers
    <3>7. CASE n = 6
      <4>1. 0 \div 64 = 0 /\ 0 % 2 = 0
        OBVIOUS
      <4> QED
        BY <3>7, <4>1, Powers
    <3> QED
      BY <3>1, <3>2, <3>3, <3>4, <3>5, <3>6, <3>7
  <2> QED
    BY <2>1 DEF Bits
<1>2. Bits(1, 7) = {0}
  <2>1. ASSUME NEW n \in 0 .. 6
        PROVE  ((1 \div Weight[n]) % 2 = 1) <=> n = 0
    <3>1. CASE n = 0
      <4>1. 1 \div 1 = 1 /\ 1 % 2 = 1
        OBVIOUS
      <4> QED
        BY <3>1, <4>1, Powers
    <3>2. CASE n = 1
      <4>1. 1 \div 2 = 0 /\ 0 % 2 = 0
        OBVIOUS
      <4> QED
        BY <3>2, <4>1, Powers
    <3>3. CASE n = 2
      <4>1. 1 \div 4 = 0 /\ 0 % 2 = 0
        OBVIOUS
      <4> QED
        BY <3>3, <4>1, Powers
    <3>4. CASE n = 3
      <4>1. 1 \div 8 = 0 /\ 0 % 2 = 0
        OBVIOUS
      <4> QED
        BY <3>4, <4>1, Powers
    <3>5. CASE n = 4
      <4>1. 1 \div 16 = 0 /\ 0 % 2 = 0
        OBVIOUS
      <4> QED
        BY <3>5, <4>1, Powers
    <3>6. CASE n = 5
      <4>1. 1 \div 32 = 0 /\ 0 % 2 = 0
        OBVIOUS
      <4> QED
        BY <3>6, <4>1, Powers
    <3>7. CASE n = 6
      <4>1. 1 \div 64 = 0 /\ 0 % 2 = 0
        OBVIOUS
      <4> QED
        BY <3>7, <4>1, Powers
    <3> QED
      BY <3>1, <3>2, <3>3, <3>4, <3>5, <3>6, <3>7
  <2> QED
    BY <2>1 DEF Bits
<1>3. Bits(32, 7) = {5}
  <2>1. ASSUME NEW n \in 0 .. 6
        PROVE  ((32 \div Weight[n]) % 2 = 1) <=> n = 5
    <3>1. CASE n = 0
      <4>1. 32 \div 1 = 32 /\ 32 % 2 = 0
        OBVIOUS
      <4> QED
        BY <3>1, <4>1, Powers
    <3>2. CASE n = 1
      <4>1. 32 \div 2 = 16 /\ 16 % 2 = 0
        OBVIOUS
      <4> QED
        BY <3>2, <4>1, Powers
    <3>3. CASE n = 2
      <4>1. 32 \div 4 = 8 /\ 8 % 2 = 0
        OBVIOUS
      <4> QED
        BY <3>3, <4>1, Powers
    <3>4. CASE n = 3
      <4>1. 32 \div 8 = 4 /\ 4 % 2 = 0
        OBVIOUS
      <4> QED
        BY <3>4, <4>1, Powers
    <3>5. CASE n = 4
      <4>1. 32 \div 16 = 2 /\ 2 % 2 = 0
        OBVIOUS
      <4> QED
        BY <3>5, <4>1, Powers
    <3>6. CASE n = 5
      <4>1. 32 \div 32 = 1 /\ 1 % 2 = 1
        OBVIOUS
      <4> QED
        BY <3>6, <4>1, Powers
    <3>7. CASE n = 6
      <4>1. 32 \div 64 = 0 /\ 0 % 2 = 0
        OBVIOUS
      <4> QED
        BY <3>7, <4>1, Powers
    <3> QED
      BY <3>1, <3>2, <3>3, <3>4, <3>5, <3>6, <3>7
  <2> QED
    BY <2>1 DEF Bits
<1> QED
  BY <1>1, <1>2, <1>3 DEF Funct7Of

\* The format of a mnemonic.
LEMMA Formats ==
  ASSUME NEW l, l.m \in Known
  PROVE  /\ l.m \in R_instr => Interpret(l) = R_type(l)
         /\ l.m \in I_instr => Interpret(l) = I_type(l)
         /\ l.m \in S_instr => Interpret(l) = S_type(l)
         /\ l.m \in SB_instr => Interpret(l) = SB_type(l)
         /\ l.m \in U_instr => Interpret(l) = U_type(l)
         /\ l.m \in UJ_instr => Interpret(l) = UJ_type(l)
<1>1. PICK m : m = l.m
  OBVIOUS
<1>2. m \in R_instr => m \notin handled_pseudo
  BY SMTT(30) DEF R_instr, handled_pseudo
<1>3. m \in I_instr => m \notin handled_pseudo /\ m \notin R_instr
  BY SMTT(30) DEF R_instr, I_instr, non_imm_ins, handled_pseudo
<1>4. m \notin handled_pseudo
  BY <1>1, <1>2, <1>3, CodesRest DEF Known
<1>5. Interpret(l) = InterpretReal(l)
  BY <1>1, <1>4 DEF Interpret
<1>6. m \in R_instr => InterpretReal(l) = R_type(l)
  BY <1>1 DEF InterpretReal
<1>7. m \in I_instr => InterpretReal(l) = I_type(l)
  BY <1>1, <1>3 DEF InterpretReal
<1>8. m \in S_instr => InterpretReal(l) = S_type(l)
  BY <1>1, CodesRest DEF InterpretReal
<1>9. m \in SB_instr => InterpretReal(l) = SB_type(l)
  BY <1>1, CodesRest DEF InterpretReal
<1>10. m \in U_instr => InterpretReal(l) = U_type(l)
  BY <1>1, CodesRest DEF InterpretReal
<1>11. m \in UJ_instr => InterpretReal(l) = UJ_type(l)
  BY <1>1, CodesRest DEF InterpretReal
<1> QED
  BY <1>1, <1>5, <1>6, <1>7, <1>8, <1>9, <1>10, <1>11

\* Register operations.
LEMMA SaysR ==
  ASSUME NEW l, l.m \in R_instr
  PROVE  Says(Decode(Interpret(l)), l)
<1>1. PICK m \in R_instr : m = l.m
  OBVIOUS
<1>2. PICK w : w = Interpret(l)
  OBVIOUS
<1>3. PICK a : a = Bits(Funct7Of(m), 7)
  OBVIOUS
<1>4. PICK b : b = Bits(l.rs2, 5)
  OBVIOUS
<1>5. PICK c : c = Bits(l.rs1, 5)
  OBVIOUS
<1>6. PICK d : d = Bits(Funct3Of(m), 3)
  OBVIOUS
<1>7. PICK e : e = Bits(l.rd, 5)
  OBVIOUS
<1>8. PICK o : o = Bits(51, 7)
  OBVIOUS
<1>9. w = Fields(a, b, c, d, e, o)
  <2>1. Interpret(l) = R_type(l)
    BY Formats DEF Known
  <2>2. /\ instr_data[m][1] = 51 /\ instr_data[m][2] = Funct3Of(m)
        /\ instr_data[m][3] = Funct7Of(m)
    BY CodesR
  <2> QED
    BY <1>1, <1>2, <1>3, <1>4, <1>5, <1>6, <1>7, <1>8, <2>1, <2>2, WrittenR
<1>10. /\ a \subseteq 0 .. 6 /\ b \subseteq 0 .. 4 /\ c \subseteq 0 .. 4
       /\ d \subseteq 0 .. 2 /\ e \subseteq 0 .. 4 /\ o \subseteq 0 .. 6
  BY <1>3, <1>4, <1>5, <1>6, <1>7, <1>8, FieldTypes
<1>11. Apart(w, a, b, c, d, e, o)
  BY <1>9, <1>10, FieldsApart
<1>12. OpCodeOf(w) = "OP"
  <2>1. Slice(w, 6, 0) = Bits(51, 7)
    BY <1>8, <1>11 DEF Apart
  <2>2. PICK code \in {55, 23, 111, 103, 99, 3, 35, 19, 51} : code = 51
    OBVIOUS
  <2> QED
    BY <2>1, <2>2, OpCodes
<1>13. Operation(m) = "OP"
  BY CodesR
<1>14. m \notin non_imm_ins
  BY CodesI DEF I_instr
<1>15. PICK i : i = Decode(w)
  OBVIOUS
<1>16. /\ i.op = "OP" /\ i.f3 = d /\ i.f7 = a /\ i.rd = e /\ i.rs1 = c /\ i.rs2 = b
  BY <1>11, <1>12, <1>15, Decoded DEF Apart
<1>17. i.f7 = IF IsMultiplication(m) THEN {0} ELSE IF IsAlternative(m) THEN {5} ELSE {}
  BY <1>3, <1>16, Funct7Bits
<1>18. Says(i, l)
  BY <1>1, <1>4, <1>5, <1>6, <1>7, <1>13, <1>14, <1>16, <1>17 DEF Says
<1> QED
  BY <1>2, <1>15, <1>18

\* Shifts by an immediate.
LEMMA SaysShift ==
  ASSUME NEW l, l.m \in non_imm_ins
  PROVE  Says(Decode(Interpret(l)), l)
<1>1. PICK m \in non_imm_ins : m = l.m
  OBVIOUS
<1>2. PICK w : w = Interpret(l)
  OBVIOUS
<1>3. PICK a : a = Bits(Funct7Of(m), 7)
  OBVIOUS
<1>4. PICK b : b = Bits(l.imm, 5)
  OBVIOUS
<1>5. PICK c : c = Bits(l.rs1, 5)
  OBVIOUS
<1>6. PICK d : d = Bits(Funct3Of(m), 3)
  OBVIOUS
<1>7. PICK e : e = Bits(l.rd, 5)
  OBVIOUS
<1>8. PICK o : o = Bits(19, 7)
  OBVIOUS
<1>0. /\ m \in I_instr /\ m \in non_imm_ins \cup {"addi"} /\ Operation(m) = "OPI"
      /\ instr_data[m][1] = 19 /\ instr_data[m][2] = Funct3Of(m)
      /\ instr_data[m][3] = Funct7Of(m)
  <2>1. m \in I_instr /\ m \in non_imm_ins \cup {"addi"}
    BY DEF I_instr
  <2>2. Operation(m) = "OPI"
    BY <2>1, CodesI
  <2>3. instr_data[m][1] = 19
    BY <2>1, <2>2, CodesI
  <2> QED
    BY <2>1, <2>2, <2>3, CodesI
<1>9. w = Fields(a, b, c, d, e, o)
  <2>1. Interpret(l) = I_type(l)
    BY <1>0, <1>1, Formats DEF Known
  <2> QED
    BY <1>0, <1>1, <1>2, <1>3, <1>4, <1>5, <1>6, <1>7, <1>8, <2>1, WrittenShift
<1>10. /\ a \subseteq 0 .. 6 /\ b \subseteq 0 .. 4 /\ c \subseteq 0 .. 4
       /\ d \subseteq 0 .. 2 /\ e \subseteq 0 .. 4 /\ o \subseteq 0 .. 6
  BY <1>3, <1>4, <1>5, <1>6, <1>7, <1>8, FieldTypes
<1>11. Apart(w, a, b, c, d, e, o)
  BY <1>9, <1>10, FieldsApart
<1>12. OpCodeOf(w) = "OPI"
  <2>1. Slice(w, 6, 0) = Bits(19, 7)
    BY <1>8, <1>11 DEF Apart
  <2>2. PICK code \in {55, 23, 111, 103, 99, 3, 35, 19, 51} : code = 19
    OBVIOUS
  <2> QED
    BY <2>1, <2>2, OpCodes
<1>13. PICK i : i = Decode(w)
  OBVIOUS
<1>14. /\ i.op = "OPI" /\ i.f3 = d /\ i.f7 = a /\ i.rd = e /\ i.rs1 = c /\ i.rs2 = b
  BY <1>11, <1>12, <1>13, Decoded DEF Apart
<1>15. i.f7 = IF IsMultiplication(m) THEN {0} ELSE IF IsAlternative(m) THEN {5} ELSE {}
  BY <1>3, <1>14, Funct7Bits
<1>16. Says(i, l)
  BY <1>0, <1>1, <1>4, <1>5, <1>6, <1>7, <1>14, <1>15 DEF Says
<1> QED
  BY <1>2, <1>13, <1>16

\* The immediate of twelve bits, as the cores extend it.
LEMMA ImmediateI ==
  ASSUME NEW w, NEW b, b \subseteq 0 .. 11, NEW c, NEW d, NEW e, NEW o,
         Apart(w, Slice(b, 11, 5), Slice(b, 4, 0), c, d, e, o)
  PROVE  imm12_I(w) = SignExtended(b, 11)
<1>1. w \subseteq Int
  BY DEF Apart
<1>2. \A n : n \in Slice(w, 31, 25) <=> n \in 0 .. 6 /\ n + 25 \in w
  BY <1>1 DEF Slice
<1>3. \A n : n \in Slice(w, 24, 20) <=> n \in 0 .. 4 /\ n + 20 \in w
  BY <1>1 DEF Slice
<1>4. \A n : n \in Slice(b, 11, 5) <=> n \in 0 .. 6 /\ n + 5 \in b
  BY DEF Slice
<1>5. \A n : n \in Slice(b, 4, 0) <=> n \in 0 .. 4 /\ n \in b
  BY DEF Slice
<1>6. Slice(w, 31, 25) = Slice(b, 11, 5) /\ Slice(w, 24, 20) = Slice(b, 4, 0)
  BY DEF Apart
<1>7. ASSUME NEW n \in 0 .. (31 - 20)
      PROVE  n + 20 \in w <=> n \in b
  <2>1. CASE n <= 4
    <3>1. n \in 0 .. 4
      BY <2>1
    <3> QED
      BY <1>3, <1>5, <1>6, <3>1
  <2>2. CASE n > 4
    <3>1. PICK z : z = n - 5
      OBVIOUS
    <3>2. z \in 0 .. 6 /\ z + 5 = n /\ z + 25 = n + 20
      BY <2>2, <3>1
    <3>3. z + 25 \in w <=> z + 5 \in b
      BY <1>2, <1>4, <1>6, <3>2
    <3> QED
      BY <3>2, <3>3
  <2> QED
    BY <2>1, <2>2
<1>8. Slice(w, 31, 20) = b
  <2>1. 31 \in Int /\ 20 \in Int /\ b \subseteq 0 .. (31 - 20)
    OBVIOUS
  <2> QED
    BY <1>1, <1>7, <2>1, SameSlice, Zenon
<1> QED
  BY <1>8 DEF imm12_I

\* Operations with an immediate, loads and jalr.
LEMMA SaysI ==
  ASSUME NEW l, l.m \in I_instr, l.m \notin non_imm_ins, l.imm \in Int, InRange(l.m, l.imm)
  PROVE  Says(Decode(Interpret(l)), l)
<1>1. PICK m \in I_instr : m = l.m
  OBVIOUS
<1>2. PICK k \in Int : k = l.imm
  OBVIOUS
<1>3. m \notin non_imm_ins /\ InRange(m, k)
  BY <1>1, <1>2
<1>4. m \notin SB_instr /\ m \notin UJ_instr /\ m \notin U_instr
  BY CodesRest
<1>5. /\ -Weight[11] <= k /\ k < Weight[12]
      /\ m # "addi" => k < Weight[11]
  <2>1. Weight[11] = 2048 /\ Weight[12] = 4096
    BY Powers
  <2>2. CASE m = "addi"
    <3>1. k \in -Weight[11] .. (Weight[12] - 1)
      BY <1>3, <1>4, <2>2 DEF InRange
    <3> QED
      BY <2>1, <2>2, <3>1
  <2>3. CASE m # "addi"
    <3>1. k \in -Weight[11] .. (Weight[11] - 1)
      BY <1>3, <1>4, <2>3 DEF InRange
    <3>2. -Weight[11] <= k /\ k < Weight[12]
      BY <2>1, <3>1
    <3>3. k < Weight[11]
      BY <2>1, <3>1
    <3> QED
      BY <3>2, <3>3
  <2> QED
    BY <2>2, <2>3
<1>6. PICK v \in Int : v = IF k >= Weight[11] THEN k - Weight[12] ELSE k
  BY Powers
<1>7. PICK b : b = Bits(k, 12)
  OBVIOUS
<1>8. b \subseteq 0 .. 11 /\ SignExtended(b, 11) = Word32(v)
  <2>1. b = Bits(v, 12)
    <3>1. CASE k >= Weight[11]
      BY <1>5, <1>6, <1>7, <3>1, TwelveBits
    <3>2. CASE ~(k >= Weight[11])
      BY <1>6, <1>7, <3>2
    <3> QED
      BY <3>1, <3>2
  <2>2. PICK s \in 0 .. 30 : s = 11
    OBVIOUS
  <2>3. -Weight[s] <= v /\ v < Weight[s] /\ s + 1 = 12
    <3>1. Weight[11] = 2048 /\ Weight[12] = 4096
      BY Powers
    <3> QED
      BY <1>5, <1>6, <2>2, <3>1
  <2>4. SignExtended(Bits(v, s + 1), s) = Word32(v)
    BY <2>3, Extends
  <2> QED
    BY <1>7, <2>1, <2>2, <2>3, <2>4, FieldTypes
<1>9. PICK w : w = Interpret(l)
  OBVIOUS
<1>10. PICK x : x = Slice(b, 11, 5)
  OBVIOUS
<1>11. PICK y : y = Slice(b, 4, 0)
  OBVIOUS
<1>12. PICK c : c = Bits(l.rs1, 5)
  OBVIOUS
<1>13. PICK d : d = Bits(Funct3Of(m), 3)
  OBVIOUS
<1>14. PICK e : e = Bits(l.rd, 5)
  OBVIOUS
<1>15. PICK o : o = Bits(instr_data[m][1], 7)
  OBVIOUS
<1>16. Put(b, 20) = Put(x, 25) \cup Put(y, 20) /\ x \subseteq 0 .. 6 /\ y \subseteq 0 .. 4
  BY <1>8, <1>10, <1>11, TwelveSplit
<1>17. w = Fields(x, y, c, d, e, o)
  <2>1. Interpret(l) = I_type(l)
    BY <1>1, Formats DEF Known
  <2>2. I_type(l) = Put(b, 20) \cup Put(c, 15) \cup Put(d, 12) \cup Put(e, 7) \cup o
    <3>1. instr_data[m][2] = Funct3Of(m)
      BY CodesI
    <3>2. I_type(l) = Put(Bits(l.imm, 12), 20) \cup Rs1(l) \cup F3(l.m) \cup Rd(l) \cup Opcode(l.m)
      BY DEF I_type
    <3>3. Put(Bits(l.imm, 12), 20) = Put(b, 20) /\ Rs1(l) = Put(c, 15) /\ Rd(l) = Put(e, 7)
      BY <1>2, <1>7, <1>12, <1>14 DEF Rs1, Rd
    <3>4. F3(l.m) = Put(d, 12) /\ Opcode(l.m) = o
      BY <1>1, <1>13, <1>15, <3>1 DEF F3, Opcode
    <3> QED
      BY <3>2, <3>3, <3>4
  <2> QED
    BY <1>9, <1>16, <2>1, <2>2 DEF Fields
<1>18. c \subseteq 0 .. 4 /\ d \subseteq 0 .. 2 /\ e \subseteq 0 .. 4 /\ o \subseteq 0 .. 6
  BY <1>12, <1>13, <1>14, <1>15, FieldTypes
<1>19. Apart(w, x, y, c, d, e, o)
  BY <1>16, <1>17, <1>18, FieldsApart
<1>20. OpCodeOf(w) = Operation(m) /\ Operation(m) \in {"JALR", "LD", "OPI"}
  <2>1. PICK code : code = instr_data[m][1]
    OBVIOUS
  <2>2. \/ Operation(m) = "JALR" /\ code = 103
        \/ Operation(m) = "LD" /\ code = 3
        \/ Operation(m) = "OPI" /\ code = 19
    BY <2>1, CodesI
  <2>3. Slice(w, 6, 0) = Bits(code, 7)
    BY <1>15, <1>19, <2>1 DEF Apart
  <2>4. code \in {55, 23, 111, 103, 99, 3, 35, 19, 51}
    BY <2>2
  <2>5. OpCodeOf(w) = IF code = 55 THEN "LUI" ELSE IF code = 23 THEN "AUIPC"
                      ELSE IF code = 111 THEN "JAL" ELSE IF code = 103 THEN "JALR"
                      ELSE IF code = 99 THEN "BR" ELSE IF code = 3 THEN "LD"
                      ELSE IF code = 35 THEN "ST" ELSE IF code = 19 THEN "OPI" ELSE "OP"
    BY <2>3, <2>4, OpCodes
  <2> QED
    BY <2>2, <2>5
<1>21. imm12_I(w) = Word32(v)
  <2>1. imm12_I(w) = SignExtended(b, 11)
    BY <1>8, <1>10, <1>11, <1>19, ImmediateI
  <2> QED
    BY <1>8, <2>1
<1>22. PICK i : i = Decode(w)
  OBVIOUS
<1>23. i.op = Operation(m) /\ i.f3 = d /\ i.rd = e /\ i.rs1 = c /\ i.imm = Word32(v)
  <2>1. Immediate(OpCodeOf(w), w) = imm12_I(w)
    BY <1>20 DEF Immediate
  <2> QED
    BY <1>19, <1>20, <1>21, <1>22, <2>1, Decoded DEF Apart
<1>24. m = "addi" => Operation(m) = "OPI"
  BY CodesI
<1>25. Operation(m) # "OPI" => v = k
  <2>1. k < Weight[11] => ~(k >= Weight[11])
    BY Powers
  <2> QED
    BY <1>5, <1>6, <1>24, <2>1
<1>26. Says(i, l)
  BY <1>1, <1>2, <1>3, <1>6, <1>12, <1>13, <1>14, <1>20, <1>23, <1>25 DEF Says
<1> QED
  BY <1>9, <1>22, <1>26

\* Where the assembler puts the pieces of an immediate.
LEMMA MovedFrom ==
  ASSUME NEW b, b \subseteq Int
  PROVE  /\ Put(Slice(b, 11, 5), 25) = Window(b, 25, 31, -20)
         /\ Put(Slice(b, 4, 0), 7) = Window(b, 7, 11, -7)
         /\ Put(Slice(b, 10, 5), 25) = Window(b, 25, 30, -20)
         /\ Put(Slice(b, 4, 1), 8) = Window(b, 8, 11, -7)
         /\ Put(Slice(b, 10, 1), 21) = Window(b, 21, 30, -20)
         /\ Put(Slice(b, 19, 12), 12) = Window(b, 12, 19, 0)
<1>1. Put(Slice(b, 11, 5), 25) = Window(b, 25, 31, -20)
  <2>1. PICK high \in Int, low \in Int, to \in Int : high = 11 /\ low = 5 /\ to = 25
    OBVIOUS
  <2>2. Put(Slice(b, high, low), to) = Window(b, to, (to + high) - low, low - to)
    BY Moved, Zenon
  <2>3. (to + high) - low = 31 /\ low - to = -20
    BY <2>1
  <2> QED
    BY <2>1, <2>2, <2>3
<1>2. Put(Slice(b, 4, 0), 7) = Window(b, 7, 11, -7)
  <2>1. PICK high \in Int, low \in Int, to \in Int : high = 4 /\ low = 0 /\ to = 7
    OBVIOUS
  <2>2. Put(Slice(b, high, low), to) = Window(b, to, (to + high) - low, low - to)
    BY Moved, Zenon
  <2>3. (to + high) - low = 11 /\ low - to = -7
    BY <2>1
  <2> QED
    BY <2>1, <2>2, <2>3
<1>3. Put(Slice(b, 10, 5), 25) = Window(b, 25, 30, -20)
  <2>1. PICK high \in Int, low \in Int, to \in Int : high = 10 /\ low = 5 /\ to = 25
    OBVIOUS
  <2>2. Put(Slice(b, high, low), to) = Window(b, to, (to + high) - low, low - to)
    BY Moved, Zenon
  <2>3. (to + high) - low = 30 /\ low - to = -20
    BY <2>1
  <2> QED
    BY <2>1, <2>2, <2>3
<1>4. Put(Slice(b, 4, 1), 8) = Window(b, 8, 11, -7)
  <2>1. PICK high \in Int, low \in Int, to \in Int : high = 4 /\ low = 1 /\ to = 8
    OBVIOUS
  <2>2. Put(Slice(b, high, low), to) = Window(b, to, (to + high) - low, low - to)
    BY Moved, Zenon
  <2>3. (to + high) - low = 11 /\ low - to = -7
    BY <2>1
  <2> QED
    BY <2>1, <2>2, <2>3
<1>5. Put(Slice(b, 10, 1), 21) = Window(b, 21, 30, -20)
  <2>1. PICK high \in Int, low \in Int, to \in Int : high = 10 /\ low = 1 /\ to = 21
    OBVIOUS
  <2>2. Put(Slice(b, high, low), to) = Window(b, to, (to + high) - low, low - to)
    BY Moved, Zenon
  <2>3. (to + high) - low = 30 /\ low - to = -20
    BY <2>1
  <2> QED
    BY <2>1, <2>2, <2>3
<1>6. Put(Slice(b, 19, 12), 12) = Window(b, 12, 19, 0)
  <2>1. PICK high \in Int, low \in Int, to \in Int : high = 19 /\ low = 12 /\ to = 12
    OBVIOUS
  <2>2. Put(Slice(b, high, low), to) = Window(b, to, (to + high) - low, low - to)
    BY Moved, Zenon
  <2>3. (to + high) - low = 19 /\ low - to = 0
    BY <2>1
  <2> QED
    BY <2>1, <2>2, <2>3
<1> QED
  BY <1>1, <1>2, <1>3, <1>4, <1>5, <1>6

\* A single bit.
OneBit(b, from, to) == {n \in {to} : from \in b}

\* Where a single bit is put.
LEMMA MovedBit ==
  ASSUME NEW b, b \subseteq Int, NEW from \in Int, NEW to \in Int
  PROVE  Put(Slice(b, from, from), to) = OneBit(b, from, to)
BY DEF Put, Slice, OneBit

\* Stores.
LEMMA SaysS ==
  ASSUME NEW l, l.m \in S_instr, l.imm \in Int, InRange(l.m, l.imm)
  PROVE  Says(Decode(Interpret(l)), l)
<1>1. PICK m \in S_instr : m = l.m
  OBVIOUS
<1>2. PICK k \in Int : k = l.imm
  OBVIOUS
<1>3. PICK b : b = Bits(k, 12)
  OBVIOUS
<1>4. PICK x : x = Put(Slice(b, 11, 5), 25)
  OBVIOUS
<1>5. PICK y : y = Put(Slice(b, 4, 0), 7)
  OBVIOUS
<1>6. PICK w : w = Interpret(l)
  OBVIOUS
<1>7. PICK r : r = Bits(l.rs2, 5)
  OBVIOUS
<1>8. PICK c : c = Bits(l.rs1, 5)
  OBVIOUS
<1>9. PICK d : d = Bits(Funct3Of(m), 3)
  OBVIOUS
<1>10. PICK o : o = Bits(35, 7)
  OBVIOUS
<1>11. /\ Operation(m) = "ST" /\ instr_data[m][1] = 35 /\ instr_data[m][2] = Funct3Of(m)
       /\ m \notin R_instr /\ m \notin I_instr
  BY CodesRest
<1>12. -Weight[11] <= k /\ k < Weight[11]
  <2>1. m \notin SB_instr /\ m \notin U_instr /\ m \notin UJ_instr /\ m \notin non_imm_ins /\ m # "addi"
    BY <1>11, CodesRest DEF I_instr
  <2>2. InRange(m, k)
    BY <1>1, <1>2
  <2>3. k \in -Weight[11] .. (Weight[11] - 1)
    BY <2>1, <2>2 DEF InRange
  <2>4. Weight[11] = 2048
    BY Powers
  <2> QED
    BY <2>3, <2>4
<1>13. b \subseteq 0 .. 11 /\ SignExtended(b, 11) = Word32(k)
  <2>1. PICK s \in 0 .. 30 : s = 11
    OBVIOUS
  <2>2. SignExtended(Bits(k, s + 1), s) = Word32(k)
    BY <1>12, <2>1, Extends
  <2>3. s + 1 = 12
    BY <2>1
  <2> QED
    BY <1>3, <2>1, <2>2, <2>3, FieldTypes
<1>14. x = Window(b, 25, 31, -20) /\ y = Window(b, 7, 11, -7)
  <2>1. b \subseteq Int
    BY <1>13
  <2> QED
    BY <1>4, <1>5, <2>1, MovedFrom
<1>15. x \subseteq 25 .. 31 /\ y \subseteq 7 .. 11
  BY <1>14 DEF Window
<1>16. w = Split(x, r, c, d, y, o)
  <2>1. Interpret(l) = S_type(l)
    BY <1>1, Formats DEF Known
  <2>2. Rs2(l) = Put(r, 20) /\ Rs1(l) = Put(c, 15)
    BY <1>7, <1>8 DEF Rs2, Rs1
  <2>3. F3(l.m) = Put(d, 12) /\ Opcode(l.m) = o
    BY <1>1, <1>9, <1>10, <1>11 DEF F3, Opcode
  <2>4. S_type(l) = x \cup Rs2(l) \cup Rs1(l) \cup F3(l.m) \cup y \cup Opcode(l.m)
    BY <1>2, <1>3, <1>4, <1>5 DEF S_type
  <2> QED
    BY <1>6, <2>1, <2>2, <2>3, <2>4 DEF Split
<1>17. r \subseteq 0 .. 4 /\ c \subseteq 0 .. 4 /\ d \subseteq 0 .. 2 /\ o \subseteq 0 .. 6
  BY <1>7, <1>8, <1>9, <1>10, FieldTypes
<1>18. SplitApart(w, x, r, c, d, y, o)
  BY <1>15, <1>16, <1>17, SplitWord
<1>19. OpCodeOf(w) = "ST"
  <2>1. Slice(w, 6, 0) = Bits(35, 7)
    BY <1>10, <1>18 DEF SplitApart
  <2>2. PICK code \in {55, 23, 111, 103, 99, 3, 35, 19, 51} : code = 35
    OBVIOUS
  <2> QED
    BY <2>1, <2>2, OpCodes
<1>20. \A n \in 5 .. 11 : n + 20 \in w <=> n \in b
  <2> SUFFICES ASSUME NEW n \in 5 .. 11 PROVE n + 20 \in w <=> n \in b
    OBVIOUS
  <2>1. PICK z \in 25 .. 31 : z = n + 20 /\ z + (-20) = n
    OBVIOUS
  <2>2. z \in w <=> z \in x
    BY <1>18 DEF SplitApart
  <2>3. z \in x <=> z + (-20) \in b
    BY <1>14 DEF Window
  <2> QED
    BY <2>1, <2>2, <2>3
<1>21. \A n \in 0 .. 4 : n + 7 \in w <=> n \in b
  <2> SUFFICES ASSUME NEW n \in 0 .. 4 PROVE n + 7 \in w <=> n \in b
    OBVIOUS
  <2>1. PICK z \in 7 .. 11 : z = n + 7 /\ z + (-7) = n
    OBVIOUS
  <2>2. z \in w <=> z \in y
    BY <1>18 DEF SplitApart
  <2>3. z \in y <=> z + (-7) \in b
    BY <1>14 DEF Window
  <2> QED
    BY <2>1, <2>2, <2>3
<1>22. imm12_S(w) = Word32(k)
  <2>1. w \subseteq 0 .. 31
    BY <1>18 DEF SplitApart
  <2>2. Put(Slice(w, 31, 25), 5) \cup Slice(w, 11, 7) = b
    BY <1>13, <1>20, <1>21, <2>1, StoreBits
  <2> QED
    BY <1>13, <2>2 DEF imm12_S
<1>23. PICK i : i = Decode(w)
  OBVIOUS
<1>24. i.op = "ST" /\ i.f3 = d /\ i.rs1 = c /\ i.rs2 = r /\ i.imm = Word32(k)
  <2>1. Immediate(OpCodeOf(w), w) = imm12_S(w)
    BY <1>19 DEF Immediate
  <2> QED
    BY <1>18, <1>19, <1>22, <1>23, <2>1, Decoded DEF SplitApart
<1>25. m \notin non_imm_ins
  BY <1>11 DEF I_instr
<1>26. Says(i, l)
  BY <1>1, <1>2, <1>7, <1>8, <1>9, <1>11, <1>24, <1>25 DEF Says
<1> QED
  BY <1>6, <1>23, <1>26

\* An even number has bit 0 clear.
LEMMA EvenBits ==
  ASSUME NEW k \in Int, k % 2 = 0, NEW size \in Nat
  PROVE  0 \notin Bits(k, size)
<1>1. k \div 1 = k
  OBVIOUS
<1>2. (k \div Weight[0]) % 2 = 0
  BY <1>1, WeightAssumption
<1> QED
  BY <1>2 DEF Bits

\* Branches.
LEMMA SaysSB ==
  ASSUME NEW l, l.m \in SB_instr, l.imm \in Int, InRange(l.m, l.imm)
  PROVE  Says(Decode(Interpret(l)), l)
<1>1. PICK m \in SB_instr : m = l.m
  OBVIOUS
<1>2. PICK k \in Int : k = l.imm
  OBVIOUS
<1>3. PICK b : b = Bits(k, 13)
  OBVIOUS
<1>4. PICK x : x = Put(Slice(b, 12, 12), 31) \cup Put(Slice(b, 10, 5), 25)
  OBVIOUS
<1>5. PICK y : y = Put(Slice(b, 4, 1), 8) \cup Put(Slice(b, 11, 11), 7)
  OBVIOUS
<1>6. PICK w : w = Interpret(l)
  OBVIOUS
<1>7. PICK r : r = Bits(l.rs2, 5)
  OBVIOUS
<1>8. PICK c : c = Bits(l.rs1, 5)
  OBVIOUS
<1>9. PICK d : d = Bits(Funct3Of(m), 3)
  OBVIOUS
<1>10. PICK o : o = Bits(99, 7)
  OBVIOUS
<1>11. /\ Operation(m) = "BR" /\ instr_data[m][1] = 99 /\ instr_data[m][2] = Funct3Of(m)
       /\ m \notin R_instr /\ m \notin I_instr
  BY CodesRest
<1>12. k % 2 = 0 /\ -Weight[12] <= k /\ k < Weight[12]
  <2>1. m \notin non_imm_ins
    BY <1>11 DEF I_instr
  <2>2. InRange(m, k)
    BY <1>1, <1>2
  <2>3. k % 2 = 0 /\ k \in -Weight[12] .. (Weight[12] - 1)
    BY <2>1, <2>2 DEF InRange
  <2>4. Weight[12] \in Nat
    BY Powers
  <2> QED
    BY <2>3, <2>4
<1>13. b \subseteq 0 .. 12 /\ SignExtended(b, 12) = Word32(k)
  <2>1. PICK s \in 0 .. 30 : s = 12
    OBVIOUS
  <2>2. SignExtended(Bits(k, s + 1), s) = Word32(k)
    BY <1>12, <2>1, Extends
  <2>3. s + 1 = 13
    BY <2>1
  <2> QED
    BY <1>3, <2>1, <2>2, <2>3, FieldTypes
<1>14. b \subseteq 1 .. 12
  <2>1. PICK size \in Nat : size = 13
    OBVIOUS
  <2>2. 0 \notin b
    BY <1>3, <1>12, <2>1, EvenBits
  <2> QED
    BY <1>13, <2>2
<1>15. /\ x = {n \in {31} : 12 \in b} \cup Window(b, 25, 30, -20)
       /\ y = Window(b, 8, 11, -7) \cup {n \in {7} : 11 \in b}
  <2>1. b \subseteq Int
    BY <1>13
  <2>2. Put(Slice(b, 10, 5), 25) = Window(b, 25, 30, -20) /\ Put(Slice(b, 4, 1), 8) = Window(b, 8, 11, -7)
    BY <2>1, MovedFrom
  <2>3. PICK p \in Int, q \in Int, t \in Int, u \in Int : p = 12 /\ q = 31 /\ t = 11 /\ u = 7
    OBVIOUS
  <2>4. Put(Slice(b, p, p), q) = OneBit(b, p, q)
    BY <2>1, MovedBit
  <2>5. Put(Slice(b, t, t), u) = OneBit(b, t, u)
    BY <2>1, MovedBit
  <2>6. Put(Slice(b, 12, 12), 31) = {n \in {31} : 12 \in b}
    BY <2>3, <2>4 DEF OneBit
  <2>7. Put(Slice(b, 11, 11), 7) = {n \in {7} : 11 \in b}
    BY <2>3, <2>5 DEF OneBit
  <2> QED
    BY <1>4, <1>5, <2>2, <2>6, <2>7
<1>16. x \subseteq 25 .. 31 /\ y \subseteq 7 .. 11
  BY <1>15 DEF Window
<1>17. w = Split(x, r, c, d, y, o)
  <2>1. Interpret(l) = SB_type(l)
    BY <1>1, Formats DEF Known
  <2>2. Rs2(l) = Put(r, 20) /\ Rs1(l) = Put(c, 15)
    BY <1>7, <1>8 DEF Rs2, Rs1
  <2>3. F3(l.m) = Put(d, 12) /\ Opcode(l.m) = o
    BY <1>1, <1>9, <1>10, <1>11 DEF F3, Opcode
  <2>4. SB_type(l) = x \cup Rs2(l) \cup Rs1(l) \cup F3(l.m) \cup y \cup Opcode(l.m)
    BY <1>2, <1>3, <1>4, <1>5 DEF SB_type
  <2> QED
    BY <1>6, <2>1, <2>2, <2>3, <2>4 DEF Split
<1>18. r \subseteq 0 .. 4 /\ c \subseteq 0 .. 4 /\ d \subseteq 0 .. 2 /\ o \subseteq 0 .. 6
  BY <1>7, <1>8, <1>9, <1>10, FieldTypes
<1>19. SplitApart(w, x, r, c, d, y, o)
  BY <1>16, <1>17, <1>18, SplitWord
<1>20. OpCodeOf(w) = "BR"
  <2>1. Slice(w, 6, 0) = Bits(99, 7)
    BY <1>10, <1>19 DEF SplitApart
  <2>2. PICK code \in {55, 23, 111, 103, 99, 3, 35, 19, 51} : code = 99
    OBVIOUS
  <2> QED
    BY <2>1, <2>2, OpCodes
<1>21. \A n \in 5 .. 10 : n + 20 \in w <=> n \in b
  <2> SUFFICES ASSUME NEW n \in 5 .. 10 PROVE n + 20 \in w <=> n \in b
    OBVIOUS
  <2>1. PICK z \in 25 .. 30 : z = n + 20 /\ z + (-20) = n
    OBVIOUS
  <2>2. z \in w <=> z \in x
    BY <1>19 DEF SplitApart
  <2>3. z \in x <=> z + (-20) \in b
    BY <1>15 DEF Window
  <2> QED
    BY <2>1, <2>2, <2>3
<1>22. \A n \in 1 .. 4 : n + 7 \in w <=> n \in b
  <2> SUFFICES ASSUME NEW n \in 1 .. 4 PROVE n + 7 \in w <=> n \in b
    OBVIOUS
  <2>1. PICK z \in 8 .. 11 : z = n + 7 /\ z + (-7) = n
    OBVIOUS
  <2>2. z \in w <=> z \in y
    BY <1>19 DEF SplitApart
  <2>3. z \in y <=> z + (-7) \in b
    BY <1>15 DEF Window
  <2> QED
    BY <2>1, <2>2, <2>3
<1>23. 31 \in w <=> 12 \in b
  <2>1. 31 \in w <=> 31 \in x
    BY <1>19 DEF SplitApart
  <2> QED
    BY <1>15, <2>1 DEF Window
<1>24. 7 \in w <=> 11 \in b
  <2>1. 7 \in w <=> 7 \in y
    BY <1>19 DEF SplitApart
  <2> QED
    BY <1>15, <2>1 DEF Window
<1>25. imm13(w) = Word32(k)
  <2>1. w \subseteq 0 .. 31
    BY <1>19 DEF SplitApart
  <2>2. Put(Slice(w, 31, 31), 12) \cup Put(Slice(w, 30, 25), 5)
          \cup Put(Slice(w, 11, 8), 1) \cup Put(Slice(w, 7, 7), 11) = b
    BY <1>14, <1>21, <1>22, <1>23, <1>24, <2>1, BranchBits
  <2> QED
    BY <1>13, <2>2 DEF imm13
<1>26. PICK i : i = Decode(w)
  OBVIOUS
<1>27. i.op = "BR" /\ i.f3 = d /\ i.rs1 = c /\ i.rs2 = r /\ i.imm = Word32(k)
  <2>1. Immediate(OpCodeOf(w), w) = imm13(w)
    BY <1>20 DEF Immediate
  <2> QED
    BY <1>19, <1>20, <1>25, <1>26, <2>1, Decoded DEF SplitApart
<1>28. m \notin non_imm_ins
  BY <1>11 DEF I_instr
<1>29. Says(i, l)
  BY <1>1, <1>2, <1>7, <1>8, <1>9, <1>11, <1>27, <1>28 DEF Says
<1> QED
  BY <1>6, <1>26, <1>29

\* Upper immediates.
LEMMA SaysU ==
  ASSUME NEW l, l.m \in U_instr
  PROVE  Says(Decode(Interpret(l)), l)
<1>1. PICK m \in U_instr : m = l.m
  OBVIOUS
<1>2. PICK b : b = Bits(l.imm, 20)
  OBVIOUS
<1>3. PICK x : x = Put(b, 12)
  OBVIOUS
<1>4. PICK e : e = Bits(l.rd, 5)
  OBVIOUS
<1>5. PICK code : code = instr_data[m][1]
  OBVIOUS
<1>6. PICK o : o = Bits(code, 7)
  OBVIOUS
<1>7. PICK w : w = Interpret(l)
  OBVIOUS
<1>8. /\ m \notin R_instr /\ m \notin I_instr
      /\ \/ Operation(m) = "LUI" /\ code = 55
         \/ Operation(m) = "AUIPC" /\ code = 23
  BY <1>5, CodesRest
<1>9. b \subseteq 0 .. 19 /\ e \subseteq 0 .. 4 /\ o \subseteq 0 .. 6
  BY <1>2, <1>4, <1>6, FieldTypes
<1>10. x \subseteq 12 .. 31
  BY <1>3, <1>9 DEF Put
<1>11. w = x \cup Put(e, 7) \cup o
  <2>1. Interpret(l) = U_type(l)
    BY <1>1, Formats DEF Known
  <2>2. Rd(l) = Put(e, 7) /\ Opcode(l.m) = o
    BY <1>1, <1>4, <1>5, <1>6 DEF Rd, Opcode
  <2> QED
    BY <1>2, <1>3, <1>7, <2>1, <2>2 DEF U_type
<1>12. WideApart(w, x, e, o)
  BY <1>9, <1>10, <1>11, WideWord
<1>13. OpCodeOf(w) = Operation(m)
  <2>1. Slice(w, 6, 0) = Bits(code, 7)
    BY <1>6, <1>12 DEF WideApart
  <2>2. code \in {55, 23, 111, 103, 99, 3, 35, 19, 51}
    BY <1>8
  <2>3. OpCodeOf(w) = IF code = 55 THEN "LUI" ELSE IF code = 23 THEN "AUIPC"
                      ELSE IF code = 111 THEN "JAL" ELSE IF code = 103 THEN "JALR"
                      ELSE IF code = 99 THEN "BR" ELSE IF code = 3 THEN "LD"
                      ELSE IF code = 35 THEN "ST" ELSE IF code = 19 THEN "OPI" ELSE "OP"
    BY <2>1, <2>2, OpCodes
  <2> QED
    BY <1>8, <2>3
<1>14. imm31_12(w) = x
  <2>1. w \subseteq Int
    BY <1>12 DEF WideApart
  <2>2. PICK high \in Int, low \in Int : high = 31 /\ low = 12
    OBVIOUS
  <2>3. Put(Slice(w, high, low), low) = Window(w, low, (low + high) - low, low - low)
    BY <2>1, Moved, Zenon
  <2>4. (low + high) - low = 31 /\ low - low = 0
    BY <2>2
  <2>5. imm31_12(w) = Window(w, 12, 31, 0)
    BY <2>2, <2>3, <2>4 DEF imm31_12
  <2>6. ASSUME NEW n \in 12 .. 31
        PROVE  n \in w <=> n \in x
    BY <1>12 DEF WideApart
  <2>7. ASSUME NEW n \in 12 .. 31
        PROVE  n + 0 = n
    OBVIOUS
  <2>8. Window(w, 12, 31, 0) = {n \in 12 .. 31 : n \in w}
    BY <2>7 DEF Window
  <2>9. {n \in 12 .. 31 : n \in w} = x
    BY <1>10, <2>6
  <2> QED
    BY <2>5, <2>8, <2>9
<1>15. PICK i : i = Decode(w)
  OBVIOUS
<1>16. i.op = Operation(m) /\ i.rd = e /\ i.imm = x
  <2>1. Immediate(OpCodeOf(w), w) = imm31_12(w)
    BY <1>8, <1>13 DEF Immediate
  <2> QED
    BY <1>12, <1>13, <1>14, <1>15, <2>1, Decoded DEF WideApart
<1>17. m \notin non_imm_ins
  BY <1>8 DEF I_instr
<1>18. Says(i, l)
  BY <1>1, <1>2, <1>3, <1>4, <1>8, <1>16, <1>17 DEF Says
<1> QED
  BY <1>7, <1>15, <1>18

\* Jumps.
LEMMA SaysUJ ==
  ASSUME NEW l, l.m \in UJ_instr, l.imm \in Int, InRange(l.m, l.imm)
  PROVE  Says(Decode(Interpret(l)), l)
<1>1. PICK m \in UJ_instr : m = l.m
  OBVIOUS
<1>2. PICK k \in Int : k = l.imm
  OBVIOUS
<1>3. PICK b : b = Bits(k, 21)
  OBVIOUS
<1>4. PICK x : x = Put(Slice(b, 20, 20), 31) \cup Put(Slice(b, 10, 1), 21)
                   \cup Put(Slice(b, 11, 11), 20) \cup Put(Slice(b, 19, 12), 12)
  OBVIOUS
<1>5. PICK e : e = Bits(l.rd, 5)
  OBVIOUS
<1>6. PICK o : o = Bits(111, 7)
  OBVIOUS
<1>7. PICK w : w = Interpret(l)
  OBVIOUS
<1>8. /\ Operation(m) = "JAL" /\ instr_data[m][1] = 111
      /\ m \notin R_instr /\ m \notin I_instr /\ m \notin SB_instr
  BY CodesRest
<1>9. k % 2 = 0 /\ -Weight[20] <= k /\ k < Weight[20]
  <2>1. m \notin non_imm_ins
    BY <1>8 DEF I_instr
  <2>2. InRange(m, k)
    BY <1>1, <1>2
  <2>3. k % 2 = 0 /\ k \in -Weight[20] .. (Weight[20] - 1)
    BY <1>8, <2>1, <2>2 DEF InRange
  <2>4. Weight[20] \in Nat
    BY Powers
  <2> QED
    BY <2>3, <2>4
<1>10. b \subseteq 0 .. 20 /\ SignExtended(b, 20) = Word32(k)
  <2>1. PICK s \in 0 .. 30 : s = 20
    OBVIOUS
  <2>2. SignExtended(Bits(k, s + 1), s) = Word32(k)
    BY <1>9, <2>1, Extends
  <2>3. s + 1 = 21
    BY <2>1
  <2> QED
    BY <1>3, <2>1, <2>2, <2>3, FieldTypes
<1>11. b \subseteq 1 .. 20
  <2>1. PICK size \in Nat : size = 21
    OBVIOUS
  <2>2. 0 \notin b
    BY <1>3, <1>9, <2>1, EvenBits
  <2> QED
    BY <1>10, <2>2
<1>12. x = OneBit(b, 20, 31) \cup Window(b, 21, 30, -20) \cup OneBit(b, 11, 20)
           \cup Window(b, 12, 19, 0)
  <2>1. b \subseteq Int
    BY <1>10
  <2>2. Put(Slice(b, 10, 1), 21) = Window(b, 21, 30, -20)
    BY <2>1, MovedFrom
  <2>3. Put(Slice(b, 19, 12), 12) = Window(b, 12, 19, 0)
    BY <2>1, MovedFrom
  <2>4. PICK p \in Int, q \in Int, t \in Int : p = 20 /\ q = 31 /\ t = 11
    OBVIOUS
  <2>5. Put(Slice(b, p, p), q) = OneBit(b, p, q)
    BY <2>1, MovedBit
  <2>6. Put(Slice(b, t, t), p) = OneBit(b, t, p)
    BY <2>1, MovedBit
  <2>7. Put(Slice(b, 20, 20), 31) = OneBit(b, 20, 31)
    BY <2>4, <2>5
  <2>8. Put(Slice(b, 11, 11), 20) = OneBit(b, 11, 20)
    BY <2>4, <2>6
  <2> QED
    BY <1>4, <2>2, <2>3, <2>7, <2>8
<1>13. /\ OneBit(b, 20, 31) \subseteq {31} /\ Window(b, 21, 30, -20) \subseteq 21 .. 30
       /\ OneBit(b, 11, 20) \subseteq {20} /\ Window(b, 12, 19, 0) \subseteq 12 .. 19
  BY DEF OneBit, Window
<1>14. x \subseteq 12 .. 31
  BY <1>12, <1>13
<1>15. w = x \cup Put(e, 7) \cup o
  <2>1. Interpret(l) = UJ_type(l)
    BY <1>1, Formats DEF Known
  <2>2. Rd(l) = Put(e, 7) /\ Opcode(l.m) = o
    BY <1>1, <1>5, <1>6, <1>8 DEF Rd, Opcode
  <2>3. UJ_type(l) = x \cup Rd(l) \cup Opcode(l.m)
    BY <1>2, <1>3, <1>4 DEF UJ_type
  <2> QED
    BY <1>7, <2>1, <2>2, <2>3
<1>16. e \subseteq 0 .. 4 /\ o \subseteq 0 .. 6
  BY <1>5, <1>6, FieldTypes
<1>17. WideApart(w, x, e, o)
  BY <1>14, <1>15, <1>16, WideWord
<1>18. OpCodeOf(w) = "JAL"
  <2>1. Slice(w, 6, 0) = Bits(111, 7)
    BY <1>6, <1>17 DEF WideApart
  <2>2. PICK code \in {55, 23, 111, 103, 99, 3, 35, 19, 51} : code = 111
    OBVIOUS
  <2> QED
    BY <2>1, <2>2, OpCodes
<1>19. \A n \in 1 .. 10 : n + 20 \in w <=> n \in b
  <2> SUFFICES ASSUME NEW n \in 1 .. 10 PROVE n + 20 \in w <=> n \in b
    OBVIOUS
  <2>1. PICK z \in 21 .. 30 : z = n + 20 /\ z + (-20) = n
    OBVIOUS
  <2>2. z \in w <=> z \in x
    BY <1>17 DEF WideApart
  <2>3. z \in x <=> z \in Window(b, 21, 30, -20)
    <3>1. z # 31 /\ z # 20 /\ z \notin 12 .. 19
      OBVIOUS
    <3> QED
      BY <1>12, <1>13, <3>1
  <2>4. z \in Window(b, 21, 30, -20) <=> z + (-20) \in b
    BY DEF Window
  <2> QED
    BY <2>1, <2>2, <2>3, <2>4
<1>20. 31 \in w <=> 20 \in b
  <2>1. 31 \in w <=> 31 \in x
    BY <1>17 DEF WideApart
  <2>2. 31 \in x <=> 31 \in OneBit(b, 20, 31)
    BY <1>12, <1>13
  <2> QED
    BY <2>1, <2>2 DEF OneBit
<1>21. 20 \in w <=> 11 \in b
  <2>1. 20 \in w <=> 20 \in x
    BY <1>17 DEF WideApart
  <2>2. 20 \in x <=> 20 \in OneBit(b, 11, 20)
    BY <1>12, <1>13
  <2> QED
    BY <2>1, <2>2 DEF OneBit
<1>22. \A n \in 12 .. 19 : n \in w <=> n \in b
  <2> SUFFICES ASSUME NEW n \in 12 .. 19 PROVE n \in w <=> n \in b
    OBVIOUS
  <2>1. n \in 12 .. 31 /\ n # 31 /\ n # 20 /\ n \notin 21 .. 30 /\ n + 0 = n
    OBVIOUS
  <2>2. n \in w <=> n \in x
    BY <1>17, <2>1 DEF WideApart
  <2>3. n \in x <=> n \in Window(b, 12, 19, 0)
    BY <1>12, <1>13, <2>1
  <2>4. n \in Window(b, 12, 19, 0) <=> n \in b
    BY <2>1 DEF Window
  <2> QED
    BY <2>2, <2>3, <2>4
<1>23. imm21_1(w) = Word32(k)
  <2>1. w \subseteq 0 .. 31
    BY <1>17 DEF WideApart
  <2>2. Put(Slice(w, 19, 12), 12) \cup Put(Slice(w, 20, 20), 11)
          \cup Put(Slice(w, 30, 21), 1) \cup Put(Slice(w, 31, 31), 20) = b
    BY <1>11, <1>19, <1>20, <1>21, <1>22, <2>1, JumpBits
  <2> QED
    BY <1>10, <2>2 DEF imm21_1
<1>24. PICK i : i = Decode(w)
  OBVIOUS
<1>25. i.op = "JAL" /\ i.rd = e /\ i.imm = Word32(k)
  <2>1. Immediate(OpCodeOf(w), w) = imm21_1(w)
    BY <1>18 DEF Immediate
  <2> QED
    BY <1>17, <1>18, <1>23, <1>24, <2>1, Decoded DEF WideApart
<1>26. m \notin non_imm_ins
  BY <1>8 DEF I_instr
<1>27. Says(i, l)
  BY <1>1, <1>2, <1>5, <1>8, <1>25, <1>26 DEF Says
<1> QED
  BY <1>7, <1>24, <1>27

-----------------------------------------------------------------------------
(* Every line.                                                             *)

\* A line is a record whose immediate is a number: what the lemmas above ask of
\* a line, and what every step of the assembler's input keeps.
LineShape == \E m, rd, rs1, rs2 : \E k \in Int : line = Real(m, rd, rs1, rs2, k)

\* It is so of every line that is tried.
LEMMA LineInvariant == Spec => []LineShape
<1>1. Init => LineShape
  <2>1. Init => line = Real("add", 0, 0, 0, 0)
    BY DEF Init, Real
  <2>2. 0 \in Int
    OBVIOUS
  <2> QED
    BY <2>1, <2>2 DEF LineShape
<1>2. LineShape /\ [Next]_line => LineShape'
  <2> SUFFICES ASSUME LineShape, [Next]_line PROVE LineShape'
    OBVIOUS
  <2>1. PICK m, rd, rs1, rs2 : \E k \in Int : line = Real(m, rd, rs1, rs2, k)
    BY DEF LineShape
  <2>2. PICK k \in Int : line = Real(m, rd, rs1, rs2, k)
    BY <2>1
  <2>3. CASE \E n \in Mnemonics : line' = [line EXCEPT !.m = n]
    <3>1. PICK n \in Mnemonics : line' = [line EXCEPT !.m = n]
      BY <2>3
    <3>2. line' = Real(n, rd, rs1, rs2, k)
      BY <2>2, <3>1 DEF Real
    <3> QED
      BY <3>2 DEF LineShape
  <2>4. CASE \E t \in RegisterTriples :
               line' = [line EXCEPT !.rd = t[1], !.rs1 = t[2], !.rs2 = t[3]]
    <3>1. PICK t \in RegisterTriples :
            line' = [line EXCEPT !.rd = t[1], !.rs1 = t[2], !.rs2 = t[3]]
      BY <2>4
    <3>2. line' = Real(m, t[1], t[2], t[3], k)
      BY <2>2, <3>1 DEF Real
    <3> QED
      BY <3>2 DEF LineShape
  <2>5. CASE \E j \in Immediates : line' = [line EXCEPT !.imm = j]
    <3>1. PICK j \in Immediates : line' = [line EXCEPT !.imm = j]
      BY <2>5
    <3>2. line' = Real(m, rd, rs1, rs2, j) /\ j \in Int
      BY <2>2, <3>1, ImmediatesAssumption DEF Real
    <3> QED
      BY <3>2 DEF LineShape
  <2>6. CASE UNCHANGED line
    BY <2>2, <2>6 DEF LineShape
  <2> QED
    BY <2>3, <2>4, <2>5, <2>6 DEF Next
<1> QED
  BY <1>1, <1>2, PTL DEF Spec

\* DecodesAsWritten: of every line of a known mnemonic whose immediate is within
\* its format, for all registers and all such immediates, the cores decode the
\* operation, the registers and the immediate that the line names.
THEOREM Decoding == Spec => []DecodesAsWritten
<1>1. LineShape => DecodesAsWritten
  <2> SUFFICES ASSUME LineShape, line.m \in Known, InRange(line.m, line.imm)
               PROVE  Says(Decode(Interpret(line)), line)
    BY DEF DecodesAsWritten, Says
  <2>1. line.imm \in Int
    BY DEF LineShape, Real
  <2>2. \/ line.m \in R_instr \/ line.m \in I_instr \/ line.m \in S_instr
        \/ line.m \in SB_instr \/ line.m \in U_instr \/ line.m \in UJ_instr
    BY DEF Known
  <2>3. CASE line.m \in R_instr
    BY <2>3, SaysR
  <2>4. CASE line.m \in non_imm_ins
    BY <2>4, SaysShift
  <2>5. CASE line.m \in I_instr /\ line.m \notin non_imm_ins
    BY <2>1, <2>5, SaysI
  <2>6. CASE line.m \in S_instr
    BY <2>1, <2>6, SaysS
  <2>7. CASE line.m \in SB_instr
    BY <2>1, <2>7, SaysSB
  <2>8. CASE line.m \in U_instr
    BY <2>8, SaysU
  <2>9. CASE line.m \in UJ_instr
    BY <2>1, <2>9, SaysUJ
  <2> QED
    BY <2>2, <2>3, <2>4, <2>5, <2>6, <2>7, <2>8, <2>9
<1> QED
  BY <1>1, LineInvariant, PTL

\* PseudoButUnsigned: a pseudo-instruction other than bgtu and bleu is assembled
\* as the instruction that the manual gives for it, whatever its operands.
THEOREM PseudoDecoding == Spec => []PseudoButUnsigned
<1>1. PseudoButUnsigned
  <2> SUFFICES ASSUME line.m \in handled_pseudo, line.m # "bgtu", line.m # "bleu"
               PROVE  Decode(Interpret(line)) = Decode(InterpretReal(Manual(line)))
    BY DEF PseudoButUnsigned, PseudoAsNamed
  <2>1. Interpret(line) = InterpretReal(Expanded(line))
    BY DEF Interpret
  <2>2. \/ line.m = "j" \/ line.m = "nop" \/ line.m = "mv" \/ line.m = "neg"
        \/ line.m = "jr" \/ line.m = "ret" \/ line.m = "bgt" \/ line.m = "ble"
    BY DEF handled_pseudo
  <2>3. Expanded(line) = Manual(line)
    BY <2>2 DEF Expanded, Manual
  <2> QED
    BY <2>1, <2>3
<1> QED
  BY <1>1, PTL
=============================================================================
