-------------------------- MODULE AssemblerProofs --------------------------
(***************************************************************************)
(* The passes of the assembler, proved for every source that a compiler    *)
(* writes: no instruction is lost, values arrive, and so do calls and the  *)
(* jumps whose fields hold the distance; data are where the program looks  *)
(* for them exactly if the counts of half words and bytes agree with that. *)
(***************************************************************************)
EXTENDS Assembler, NumberLemmas, SequenceTheorems, FiniteSetTheorems

-----------------------------------------------------------------------------
(* Addresses, for every width: what the assembler splits in two the cores  *)
(* put together again.                                                     *)

\* The sizes are those of words with an upper and a lower part.
LEMMA Sizes ==
  /\ Low \in Nat \ {0} /\ Modulus \in Nat \ {0}
  /\ Modulus = Low * Uppers
  /\ Uppers \in Nat \ {0} /\ HalfLow \in Nat \ {0} /\ HalfLow < Low
BY WidthsAssumption DEF Low

\* A word is its upper part and its lower part.
LEMMA Parts ==
  ASSUME NEW x \in Word
  PROVE  /\ Upper(x) \in 0 .. (Uppers - 1)
         /\ Lower(x) \in 0 .. (Low - 1)
         /\ x = Low * Upper(x) + Lower(x)
<1> DEFINE u == x \div Low
           l == x % Low
<1>1. /\ u \in Int /\ l \in 0 .. (Low - 1) /\ x = Low * u + l
      /\ x \in Nat /\ x < Low * Uppers
  BY Sizes, DivMod DEF Word
<1>2. u >= 0
  <2>1. ASSUME u < 0 PROVE FALSE
    <3>1. (-u) * Low >= Low
      BY <2>1, <1>1, Sizes, ProductGrows
    <3> QED
      BY <3>1, <1>1, Sizes
  <2> QED
    BY <2>1, <1>1
<1>3. u < Uppers
  <2>1. ASSUME u >= Uppers PROVE FALSE
    <3>1. Low * u >= Low * Uppers
      BY <2>1, <1>1, Sizes
    <3> QED
      BY <3>1, <1>1, Sizes
  <2> QED
    BY <2>1, <1>1, Sizes
<1> QED
  BY <1>1, <1>2, <1>3, Sizes DEF Upper, Lower

\* An upper part, and the next one if the lower part has its sign bit set, make
\* up the word again; the last upper part is followed by 0.
LEMMA PutTogether ==
  ASSUME NEW x \in Word, NEW from \in Int
  PROVE  LET upper == IF HasSign(x) THEN Carried(x) ELSE Upper(x)
         IN  (from + upper * Low + SignExtended(Lower(x))) % Modulus
               = (from + x) % Modulus
<1> DEFINE u == Upper(x)
           l == Lower(x)
<1>1. /\ u \in 0 .. (Uppers - 1) /\ l \in 0 .. (Low - 1)
      /\ x = Low * u + l
  BY Parts
<1>2. CASE ~HasSign(x)
  BY <1>1, <1>2, Sizes DEF HasSign, SignExtended
<1>3. CASE HasSign(x) /\ u + 1 < Uppers
  <2>1. Carried(x) = u + 1
    BY <1>1, <1>3, Sizes, DivUnique DEF Carried
  <2> QED
    BY <1>1, <1>3, <2>1, Sizes DEF HasSign, SignExtended
<1>4. CASE HasSign(x) /\ u + 1 = Uppers
  <2>1. Carried(x) = 0
    BY <1>1, <1>4, Sizes, DivUnique DEF Carried
  <2>2. SignExtended(l) = x - Modulus
    <3>1. Low * (u + 1) = Modulus
      BY <1>4, Sizes
    <3>2. Low * u + Low = Modulus
      BY <3>1, <1>1, Sizes
    <3> QED
      BY <1>1, <1>4, <3>2, Sizes DEF HasSign, SignExtended
  <2>3. from + Carried(x) * Low + SignExtended(l) = (from + x) - Modulus
    BY <1>1, <2>1, <2>2, Sizes DEF Word
  <2>4. ((from + x) - Modulus) % Modulus = (from + x) % Modulus
    <3> DEFINE n == from + x
    <3>1. n \in Int
      BY Sizes DEF Word
    <3>2. (n - Modulus) % Modulus = n % Modulus
      <4> HIDE DEF n
      <4> QED
        BY <3>1, Sizes, ModTurn
    <3> QED
      BY <3>2
  <2> QED
    BY <1>4, <2>3, <2>4
<1> QED
  BY <1>1, <1>2, <1>3, <1>4, Sizes

\* A word is its own remainder.
LEMMA WordMod == ASSUME NEW x \in Word PROVE x % Modulus = x
BY Sizes DEF Word

\* For every width: the instructions for a li leave its value, in each of the
\* four forms expand_ins chooses from; the sign of the lower part is made up for
\* by the upper, at both ends of the range too.
THEOREM LiExact ==
  ASSUME NEW x \in Word PROVE LuiAddi(LoadImmediate(x)) = x
<1> DEFINE u == Upper(x)
           l == Lower(x)
<1>1. /\ u \in 0 .. (Uppers - 1) /\ l \in 0 .. (Low - 1)
      /\ x = Low * u + l /\ x \in 0 .. (Modulus - 1)
  BY Parts DEF Word
<1>2. CASE x < HalfLow
  <2>1. x % Low = x
    BY <1>1, <1>2, Sizes
  <2>2. LoadImmediate(x) = <<0, x>>
    BY <1>2, <2>1 DEF LoadImmediate, FitsOne, Lower
  <2> QED
    BY <1>1, <1>2, <2>2, WordMod, Sizes DEF LuiAddi, SignExtended
<1>3. CASE x >= Modulus - HalfLow
  <2>1. CASE x < HalfLow
    BY <1>2, <2>1
  <2>2. CASE x >= HalfLow
    <3>1. x = Low * (Uppers - 1) + (x - Modulus + Low)
          /\ x - Modulus + Low \in HalfLow .. (Low - 1)
      BY <1>1, <1>3, Sizes DEF Low
    <3>2. l = x - Modulus + Low
      BY <1>1, <3>1, Sizes, DivUnique DEF Lower
    <3>3. LoadImmediate(x) = <<0, l>>
      BY <1>3 DEF LoadImmediate, FitsOne
    <3>4. SignExtended(l) = x - Modulus
      BY <1>1, <3>1, <3>2, Sizes DEF SignExtended
    <3>5. (x - Modulus) % Modulus = x % Modulus
      <4>1. x \in Int /\ Modulus \in Nat \ {0}
        BY <1>1, Sizes
      <4> QED
        BY <4>1, ModTurn
    <3> QED
      BY <1>1, <3>3, <3>4, <3>5, WordMod, Sizes DEF LuiAddi
  <2> QED
    BY <2>1, <2>2, <1>1, Sizes
<1>4. CASE ~FitsOne(x)
  <2> DEFINE upper == IF HasSign(x) THEN Carried(x) ELSE Upper(x)
  <2>1. LoadImmediate(x) = <<upper, l>>
    BY <1>4 DEF LoadImmediate
  <2>2. (0 + upper * Low + SignExtended(l)) % Modulus = (0 + x) % Modulus
    BY PutTogether
  <2>3. upper \in Int /\ SignExtended(l) \in Int
    BY <1>1, Sizes DEF Carried, SignExtended
  <2>4. 0 + upper * Low + SignExtended(l) = upper * Low + SignExtended(l)
    BY <2>3, Sizes
  <2> QED
    BY <1>1, <2>1, <2>2, <2>4, WordMod, Sizes DEF LuiAddi
<1> QED
  BY <1>2, <1>3, <1>4 DEF FitsOne

\* For every width: auipc and jalr lead from any address to any other by the two
\* parts that subsidmem makes of the distance, forwards or backwards.
THEOREM CallExact ==
  ASSUME NEW x \in Word, NEW from \in Word
  PROVE  AuipcJalr(from, CallParts((x - from) % Modulus)) = x
<1> DEFINE d == (x - from) % Modulus
           upper == IF HasSign(d) THEN Carried(d) ELSE Upper(d)
<1>1. d \in Word
  BY Sizes DEF Word
<1>2. AuipcJalr(from, CallParts(d)) = (from + d) % Modulus
  <2>1. CallParts(d) = <<upper, Lower(d)>>
    BY DEF CallParts
  <2>2. (from + upper * Low + SignExtended(Lower(d))) % Modulus = (from + d) % Modulus
    <3> HIDE DEF d
    <3> QED
      BY <1>1, PutTogether DEF Word
  <2> QED
    BY <2>1, <2>2 DEF AuipcJalr
<1>3. (from + d) % Modulus = x
  <2>1. /\ d = (x - from) % Modulus /\ from \in Nat /\ x \in 0 .. (Modulus - 1)
        /\ from < Modulus
    BY Sizes DEF Word
  <2>2. CASE x >= from
    <3>1. d = x - from
      <4>1. x - from \in Word
        BY <2>1, <2>2, Sizes DEF Word
      <4> QED
        BY <4>1, <2>1, WordMod
    <3> QED
      BY <2>1, <3>1, WordMod
  <2>3. CASE x < from
    <3>1. d = x - from + Modulus
      <4> DEFINE n == x - from + Modulus
      <4>1. n \in 0 .. (Modulus - 1)
        BY <2>1, <2>3, Sizes
      <4>2. (n - Modulus) % Modulus = n % Modulus /\ n % Modulus = n
        <5> HIDE DEF n
        <5> QED
          <6>1. n \in Int /\ n \in Word
            BY <4>1, Sizes DEF Word
          <6>2. (n - Modulus) % Modulus = n % Modulus
            BY <6>1, Sizes, ModTurn
          <6> QED
            BY <6>1, <6>2, WordMod
      <4>3. n - Modulus = x - from
        BY <2>1, Sizes
      <4> QED
        BY <4>2, <4>3, <2>1
    <3>2. from + d = x + Modulus
      BY <2>1, <3>1, Sizes
    <3>3. x + Modulus = Modulus * 1 + x
      BY <2>1, Sizes
    <3>4. (x + Modulus) % Modulus = x
      BY <3>3, <2>1, Sizes, DivUnique
    <3> QED
      BY <3>2, <3>4
  <2> QED
    BY <2>1, <2>2, <2>3
<1> QED
  BY <1>2, <1>3

\* For every width: %hi and %lo give the addresses below half the lower part, and
\* none of the others that the assembler lets pass.
THEOREM DataExact ==
  ASSUME NEW x \in Word, ~DataRefused(x)
  PROVE  (LuiAddi(DataParts(x)) = x) <=> x < HalfLow
<1> DEFINE S == DataSplit
           hi == x \div S
           lo == x % S
           k == S \div (2 * Low)
           q == lo \div Low
           r == lo % Low
           s == SignExtended(r)
<1>1. /\ S \in Nat \ {0} /\ S <= Modulus /\ x \in Nat /\ x < Modulus
      /\ Low \in Nat \ {0} /\ HalfLow \in Nat \ {0} /\ Low = 2 * HalfLow
      /\ Modulus \in Nat \ {0}
  BY WidthsAssumption, Sizes DEF Word, Low
<1>2. /\ hi \in Int /\ lo \in 0 .. (S - 1) /\ x = S * hi + lo
  BY <1>1, DivMod
<1>3. k \in Int /\ S = 2 * Low * k
  <2>1. S % (2 * Low) = 0
    BY WidthsAssumption
  <2>2. 2 * Low \in Nat \ {0} /\ S \in Int
    BY <1>1
  <2>3. S \div (2 * Low) \in Int /\ S = (2 * Low) * (S \div (2 * Low)) + (S % (2 * Low))
    <3> HIDE DEF S
    <3>1. PICK b : b = 2 * Low
      OBVIOUS
    <3> QED
      BY <2>2, <3>1, DivMod
  <2> QED
    BY <2>1, <2>3, <1>1
<1> HIDE DEF hi, lo, k
<1>4. q \in Int /\ r \in 0 .. (Low - 1) /\ lo = Low * q + r
  <2>1. lo \in Int /\ Low \in Nat \ {0}
    BY <1>1, <1>2
  <2> QED
    BY <2>1, DivMod
<1>5. 2 * lo < S
  BY <1>1, <1>2 DEF DataRefused, lo
<1>6. DataParts(x) = <<hi, r>>
  BY <1>5, <1>1, <1>2 DEF DataParts, Lower, hi, lo
<1>7. LuiAddi(DataParts(x)) = (hi * Low + s) % Modulus
  BY <1>6 DEF LuiAddi
<1> HIDE DEF q, r, S
<1>8. hi >= 0
  <2> SUFFICES ASSUME hi < 0 PROVE FALSE
    BY <1>2
  <2>1. (-hi) * S >= S
    BY <1>1, <1>2, ProductGrows
  <2> QED
    BY <2>1, <1>1, <1>2
<1>9. q >= 0
  <2> SUFFICES ASSUME q < 0 PROVE FALSE
    BY <1>4
  <2>1. (-q) * Low >= Low
    BY <1>1, <1>4, ProductGrows
  <2> QED
    BY <2>1, <1>1, <1>2, <1>4
<1>10. s = (IF r >= HalfLow THEN r - Low ELSE r) /\ s \in Int
  BY <1>1, <1>4 DEF SignExtended
<1> HIDE DEF s
<1>13. k >= 1 /\ S >= 2 * Low
  <2>1. k >= 1
    <3>1. k <= 0 => (2 * Low) * k <= 0
      BY <1>1, <1>3
    <3> QED
      BY <3>1, <1>1, <1>3
  <2>2. k * (2 * Low) >= 2 * Low
    BY <2>1, <1>1, <1>3, ProductGrows
  <2> QED
    BY <2>1, <2>2, <1>1, <1>3
<1>14. hi >= 1 => hi * S >= S /\ hi * (S - Low) >= S - Low /\ hi * Low >= Low
  BY <1>1, <1>2, <1>13, ProductGrows
<1>15. q >= 1 => Low * q >= Low
  BY <1>1, <1>4, ProductGrows
<1>11. CASE x < HalfLow
  <2>1. hi = 0
    BY <1>1, <1>2, <1>8, <1>11, <1>13, <1>14
  <2>2. q = 0
    BY <2>1, <1>1, <1>2, <1>4, <1>9, <1>11, <1>15
  <2>3. hi * Low + s = x
    BY <2>1, <2>2, <1>1, <1>2, <1>4, <1>10, <1>11
  <2> QED
    BY <2>3, <1>7, <1>11, WordMod
<1>12. CASE x >= HalfLow
  <2> DEFINE e == x - (hi * Low + s)
  <2>5. r - s = 0 \/ r - s = Low
    BY <1>1, <1>4, <1>10
  <2>6. ASSUME hi >= 1 PROVE e > 0 /\ e < Modulus
    <3>1. e = hi * (S - Low) + Low * q + (r - s)
      BY <1>1, <1>2, <1>4, <1>10
    <3>2. Low * q >= 0
      BY <1>1, <1>4, <1>9
    <3>3. e > 0
      BY <3>1, <3>2, <2>5, <2>6, <1>1, <1>13, <1>14, <1>2, <1>4, <1>10
    <3>4. hi * Low + s > 0
      BY <2>6, <1>1, <1>2, <1>4, <1>10, <1>14
    <3> QED
      BY <3>3, <3>4, <1>1, <1>2, <1>10
  <2>7. ASSUME hi = 0 PROVE e > 0 /\ e < Modulus
    <3>1. x = Low * q + r /\ e = Low * q + (r - s)
      BY <2>7, <1>1, <1>2, <1>4, <1>10
    <3>2. e > 0
      BY <3>1, <2>5, <1>1, <1>4, <1>9, <1>10, <1>12, <1>15
    <3>3. e <= Low * (q + 1)
      BY <3>1, <2>5, <1>1, <1>4, <1>10
    <3>4. q < k
      <4> SUFFICES ASSUME q >= k PROVE FALSE
        BY <1>3, <1>4
      <4>1. Low * q >= Low * k
        BY <1>1, <1>3, <1>4
      <4> QED
        BY <4>1, <1>1, <1>2, <1>3, <1>4, <1>5
    <3>5. Low * (q + 1) <= Low * k
      BY <3>4, <1>1, <1>3, <1>4
    <3>6. Low * k >= 1 /\ 2 * (Low * k) = S
      BY <1>1, <1>3, <1>13
    <3>7. Low * k \in Int /\ Low * (q + 1) \in Int /\ e \in Int
      BY <1>1, <1>2, <1>3, <1>4, <1>10
    <3> HIDE DEF e
    <3> QED
      BY <3>2, <3>3, <3>5, <3>6, <3>7, <1>1
  <2>1. e > 0 /\ e < Modulus
    BY <2>6, <2>7, <1>2, <1>8
  <2>3. e \in 1 .. (Modulus - 1) /\ x - e = hi * Low + s /\ x \in 0 .. (Modulus - 1)
    BY <2>1, <1>1, <1>2, <1>10
  <2>4. (hi * Low + s) % Modulus # x
    <3> HIDE DEF e
    <3>1. (x - e) % Modulus # x
      BY <2>3, <1>1, OtherWord
    <3> QED
      BY <2>3, <3>1
  <2> QED
    BY <2>4, <1>7, <1>12, <1>1
<1> QED
  BY <1>11, <1>12, <1>1

-----------------------------------------------------------------------------
(* Types.                                                                  *)

SourceKinds == {"ins", "li", "call", "branch", "jal", "%hi", "%lo", "label",
                "word", "half", "byte", "dot"}
Kinds == SourceKinds \cup {"addi", "lui", "%h20", "%l12", "jalrcus"}
Names == STRING \cup {"", "zero", "rd"}
Lines == [k : Kinds, to : Names, v : Int, from : Nat]
Words == [line : Lines, imm : Int]
Cells == [1 .. 4 -> Nat \X Nat]

DataTyped ==
  /\ dc \in Seq(Cells) /\ half_num \in 0 .. 1 /\ byte_num \in 0 .. 3
  /\ half_num # 0 \/ byte_num # 0 => dc # <<>>

ListsTyped == text \in Seq(Lines) /\ ic \in Seq(Lines)

LabelsTyped == ip \in [DOMAIN ip -> Nat] /\ dp \in [DOMAIN dp -> Nat]

ImageTyped == image \in Seq(Words) /\ PC_STARTADDR \in Int

Typed ==
  /\ source \in Sources /\ at \in Nat \ {0}
  /\ pass \in {"expand", "filter", "interpret", "done", "failed"}
  /\ ListsTyped /\ DataTyped /\ LabelsTyped /\ ImageTyped

\* A source is a sequence of lines.
LEMMA Source ==
  ASSUME Typed
  PROVE  /\ Compiled(source) /\ source \in Seq(SourceLine)
         /\ Len(source) \in Nat /\ DOMAIN source = 1 .. Len(source)
         /\ \A n \in DOMAIN source : source[n] \in SourceLine
BY SourcesAssumption, LenProperties, ElementOfSeq DEF Typed, Compiled

\* What the parts of a word are.
LEMMA PartTypes ==
  ASSUME NEW x \in Word
  PROVE  /\ LoadImmediate(x)[1] \in Nat /\ LoadImmediate(x)[2] \in Nat
         /\ CallParts(x)[1] \in Nat /\ CallParts(x)[2] \in Nat
<1>1. Upper(x) \in Nat /\ Lower(x) \in Nat
  BY Parts, Sizes
<1>2. Carried(x) \in Nat
  BY <1>1, Sizes DEF Carried
<1> QED
  BY <1>1, <1>2 DEF LoadImmediate, CallParts

-----------------------------------------------------------------------------
(* The lines that a line becomes.                                          *)

\* e is what the line l, the n-th, becomes: one line or two, which come from it.
Becomes(l, n, e) ==
  /\ e \in Seq(Lines) /\ Len(e) \in 1 .. 2
  /\ \A m \in 1 .. Len(e) : e[m].from = n
  /\ l.k = "li" /\ FitsOne(l.v) => e = <<Line("addi", "zero", LoadImmediate(l.v)[2], n)>>
  /\ l.k = "li" /\ ~FitsOne(l.v) => e = <<Line("lui", "", LoadImmediate(l.v)[1], n),
                                        Line("addi", "rd", LoadImmediate(l.v)[2], n)>>
  /\ l.k = "call" => \/ e = <<Line("jalrcus", "", 0, n)>>
                     \/ e = <<Line("%h20", l.to, 0, n), Line("%l12", l.to, 0, n)>>
  /\ l.k # "li" /\ l.k # "call" =>
       Len(e) = 1 /\ e[1].k = l.k /\ e[1].to = l.to /\ e[1].v = l.v

\* expand_ins makes it so.
LEMMA Expansion ==
  ASSUME NEW l \in SourceLine, NEW n \in Nat \ {0}
  PROVE  Becomes(l, n, expand_ins(l, n))
<1> DEFINE e == expand_ins(l, n)
<1>1. /\ l.k \in SourceKinds /\ l.to \in STRING /\ l.v \in Int /\ l.v \in Word
      /\ l = [k |-> l.k, to |-> l.to, v |-> l.v, from |-> l.from]
  <2>1. Word \subseteq Int
    BY Sizes DEF Word
  <2> QED
    BY <2>1 DEF SourceLine, SourceKinds
<1>2. LoadImmediate(l.v)[1] \in Int /\ LoadImmediate(l.v)[2] \in Int
  BY <1>1, PartTypes
<1>3. ASSUME NEW a \in Lines, a.from = n, e = <<a>>
      PROVE  e \in Seq(Lines) /\ Len(e) = 1 /\ \A m \in 1 .. Len(e) : e[m].from = n
  BY <1>3
<1>4. ASSUME NEW a \in Lines, NEW b \in Lines, a.from = n, b.from = n, e = <<a, b>>
      PROVE  e \in Seq(Lines) /\ Len(e) = 2 /\ \A m \in 1 .. Len(e) : e[m].from = n
  BY <1>4
<1>5. CASE l.k = "li"
  <2> DEFINE a == Line("addi", "zero", LoadImmediate(l.v)[2], n)
             b == Line("lui", "", LoadImmediate(l.v)[1], n)
             c == Line("addi", "rd", LoadImmediate(l.v)[2], n)
  <2>1. e = IF FitsOne(l.v) THEN <<a>> ELSE <<b, c>>
    BY <1>5 DEF expand_ins
  <2>2. a \in Lines /\ b \in Lines /\ c \in Lines
    BY <1>2 DEF Line, Lines, Kinds, Names
  <2>3. a.from = n /\ b.from = n /\ c.from = n
    BY DEF Line
  <2>4. e \in Seq(Lines) /\ Len(e) \in 1 .. 2 /\ \A m \in 1 .. Len(e) : e[m].from = n
    <3> HIDE DEF a, b, c
    <3> QED
      BY <1>3, <1>4, <2>1, <2>2, <2>3
  <2> QED
    BY <1>5, <2>1, <2>4 DEF Becomes
<1>6. CASE l.k = "call"
  <2> DEFINE a == Line("jalrcus", "", 0, n)
             b == Line("%h20", l.to, 0, n)
             c == Line("%l12", l.to, 0, n)
  <2>1. e = <<a>> \/ e = <<b, c>>
    BY <1>6 DEF expand_ins
  <2>2. a \in Lines /\ b \in Lines /\ c \in Lines
    <3>1. l.to \in Names /\ "" \in Names
      BY <1>1 DEF Names
    <3>2. 0 \in Int /\ n \in Nat
      OBVIOUS
    <3>3. "jalrcus" \in Kinds /\ "%h20" \in Kinds /\ "%l12" \in Kinds
      BY DEF Kinds
    <3> QED
      BY <3>1, <3>2, <3>3 DEF Line, Lines
  <2>3. a.from = n /\ b.from = n /\ c.from = n
    BY DEF Line
  <2>4. e \in Seq(Lines) /\ Len(e) \in 1 .. 2 /\ \A m \in 1 .. Len(e) : e[m].from = n
    <3> HIDE DEF a, b, c
    <3> QED
      BY <1>3, <1>4, <2>1, <2>2, <2>3
  <2> QED
    BY <1>6, <2>1, <2>4 DEF Becomes
<1>7. CASE l.k # "li" /\ l.k # "call"
  <2>1. e = <<[l EXCEPT !.from = n]>>
    BY <1>7 DEF expand_ins
  <2>2. [l EXCEPT !.from = n] = [k |-> l.k, to |-> l.to, v |-> l.v, from |-> n]
    BY <1>1
  <2> DEFINE r == [k |-> l.k, to |-> l.to, v |-> l.v, from |-> n]
  <2>3. r \in Lines /\ r.k = l.k /\ r.to = l.to /\ r.v = l.v /\ r.from = n
    BY <1>1 DEF Lines, Kinds, Names
  <2>4. e = <<r>>
    BY <2>1, <2>2
  <2> HIDE DEF r
  <2>5. Len(e) = 1 /\ e[1] = r /\ e \in Seq(Lines)
    BY <2>3, <2>4
  <2> HIDE DEF e
  <2>6. \A m \in 1 .. Len(e) : e[m].from = n
    BY <2>3, <2>5
  <2>7. /\ Len(e) \in 1 .. 2 /\ Len(e) = 1
        /\ e[1].k = l.k /\ e[1].to = l.to /\ e[1].v = l.v
    BY <2>3, <2>5
  <2>8. Becomes(l, n, e)
    BY <2>5, <2>6, <2>7, <1>7, Zenon DEF Becomes
  <2> QED
    BY <2>8 DEF e
<1> QED
  BY <1>5, <1>6, <1>7 DEF Becomes

\* The first line that is main, with the zeros behind it.
LEMMA Inserted ==
  ASSUME NEW t \in Seq(Lines), \E n \in DOMAIN t : IsMain(t[n]),
         NEW n, n = FirstMain(t), NEW r, r = WithZeros(t)
  PROVE  /\ n \in 1 .. Len(t) /\ IsMain(t[n]) /\ \A m \in 1 .. (n - 1) : ~IsMain(t[m])
         /\ r \in Seq(Lines) /\ Len(r) = Len(t) + pre_zero
         /\ \A m \in 1 .. n : r[m] = t[m]
         /\ \A m \in (n + 1) .. (n + pre_zero) :
              r[m] = Line("addi", "zero", 0, t[n].from)
         /\ \A m \in (n + pre_zero + 1) .. Len(r) : r[m] = t[m - pre_zero]
<1>1. Len(t) \in Nat /\ DOMAIN t = 1 .. Len(t) /\ \A m \in 1 .. Len(t) : t[m] \in Lines
  BY LenProperties, ElementOfSeq
<1>2. /\ n \in DOMAIN t /\ IsMain(t[n])
      /\ \A m \in 1 .. (n - 1) : ~IsMain(t[m])
  <2> DEFINE T == {m \in DOMAIN t : IsMain(t[m])}
  <2>0. T \subseteq Nat /\ T # {}
    BY <1>1
  <2>1. PICK m \in T : \A o \in T : m <= o
    <3> HIDE DEF T
    <3> QED
      BY <2>0, Least
  <2>2. \A o \in 1 .. (m - 1) : ~IsMain(t[o])
    BY <1>1, <2>1
  <2> QED
    BY <2>1, <2>2 DEF FirstMain
<1> DEFINE zero == Line("addi", "zero", 0, t[n].from)
           a == SubSeq(t, 1, n)
           z == Zeros(t[n].from)
           b == SubSeq(t, n + 1, Len(t))
<1>3. pre_zero \in Nat
  BY LabelsAssumption
<1>4. a \in Seq(Lines) /\ Len(a) = n /\ \A m \in 1 .. n : a[m] = t[m]
  BY <1>1, <1>2, SubSeqProperties
<1>5. /\ b \in Seq(Lines) /\ Len(b) = Len(t) - n
      /\ \A m \in 1 .. Len(b) : b[m] = t[n + m]
  <2>1. \A m \in (n + 1) .. Len(t) : t[m] \in Lines
    BY <1>1, <1>2
  <2>2. /\ b \in Seq(Lines) /\ Len(b) = IF n + 1 <= Len(t) THEN Len(t) - (n + 1) + 1 ELSE 0
        /\ \A m \in 1 .. (Len(t) - (n + 1) + 1) : b[m] = t[(n + 1) + m - 1]
    <3>1. n + 1 \in Int /\ Len(t) \in Int
      BY <1>1, <1>2
    <3> QED
      BY <2>1, <3>1, SubSeqProperties
  <2>3. Len(b) = Len(t) - n
    BY <1>1, <1>2, <2>2
  <2>4. \A m \in 1 .. Len(b) : (n + 1) + m - 1 = n + m /\ m \in 1 .. (Len(t) - (n + 1) + 1)
    BY <1>1, <1>2, <2>3
  <2> QED
    BY <2>2, <2>3, <2>4
<1>6. /\ z \in Seq(Lines) /\ Len(z) = pre_zero
      /\ \A m \in 1 .. pre_zero : z[m] = zero
  <2>1. zero \in Lines
    <3>1. "addi" \in Kinds /\ "zero" \in Names /\ 0 \in Int
      BY DEF Kinds, Names
    <3>2. t[n].from \in Nat
      BY <1>1, <1>2 DEF Lines
    <3> QED
      BY <3>1, <3>2 DEF Line, Lines
  <2>2. z = [m \in 1 .. pre_zero |-> zero]
    BY DEF Zeros
  <2> HIDE DEF zero, z
  <2> QED
    BY <1>3, <2>1, <2>2
<1>7. r = a \o z \o b
  BY DEF WithZeros
<1> HIDE DEF a, z, b, zero
<1>8. /\ a \o z \in Seq(Lines) /\ Len(a \o z) = n + pre_zero
      /\ \A m \in 1 .. (n + pre_zero) : (a \o z)[m] = IF m <= n THEN a[m] ELSE z[m - n]
  <2>1. /\ a \o z \in Seq(Lines) /\ Len(a \o z) = Len(a) + Len(z)
        /\ \A m \in 1 .. Len(a) + Len(z) :
             (a \o z)[m] = IF m <= Len(a) THEN a[m] ELSE z[m - Len(a)]
    BY <1>4, <1>6, ConcatProperties
  <2> QED
    BY <2>1, <1>4, <1>6
<1>9. /\ r \in Seq(Lines) /\ Len(r) = Len(t) + pre_zero
      /\ \A m \in 1 .. Len(r) :
           r[m] = IF m <= n + pre_zero THEN (a \o z)[m] ELSE b[m - (n + pre_zero)]
  <2> DEFINE az == a \o z
  <2>1. /\ az \o b \in Seq(Lines) /\ Len(az \o b) = Len(az) + Len(b)
        /\ \A m \in 1 .. Len(az) + Len(b) :
             (az \o b)[m] = IF m <= Len(az) THEN az[m] ELSE b[m - Len(az)]
    <3>1. az \in Seq(Lines)
      BY <1>8
    <3> HIDE DEF az
    <3> QED
      BY <3>1, <1>5, ConcatProperties
  <2>2. Len(az) = n + pre_zero /\ r = az \o b
    BY <1>7, <1>8
  <2>3. Len(az) + Len(b) = Len(t) + pre_zero
    BY <1>1, <1>2, <1>3, <1>5, <2>2
  <2> HIDE DEF az
  <2>4. r \in Seq(Lines) /\ Len(r) = Len(t) + pre_zero
    BY <2>1, <2>2, <2>3
  <2>5. \A m \in 1 .. Len(r) :
          r[m] = IF m <= n + pre_zero THEN az[m] ELSE b[m - (n + pre_zero)]
    BY <2>1, <2>2, <2>3, <2>4
  <2> QED
    BY <2>4, <2>5 DEF az
<1>10. \A m \in 1 .. n : r[m] = t[m]
  <2> TAKE m \in 1 .. n
  <2>1. /\ m \in 1 .. Len(r) /\ m <= n + pre_zero /\ m \in 1 .. (n + pre_zero)
        /\ m <= n
    BY <1>1, <1>2, <1>3, <1>9
  <2>2. r[m] = (a \o z)[m]
    BY <2>1, <1>9
  <2>3. (a \o z)[m] = a[m]
    BY <2>1, <1>8
  <2> QED
    BY <2>2, <2>3, <1>4
<1>11. \A m \in (n + 1) .. (n + pre_zero) : r[m] = zero
  <2> TAKE m \in (n + 1) .. (n + pre_zero)
  <2>1. /\ m \in 1 .. Len(r) /\ m <= n + pre_zero /\ m \in 1 .. (n + pre_zero)
        /\ ~(m <= n) /\ m - n \in 1 .. pre_zero
    BY <1>1, <1>2, <1>3, <1>9
  <2>2. r[m] = (a \o z)[m]
    BY <2>1, <1>9
  <2>3. (a \o z)[m] = z[m - n]
    BY <2>1, <1>8
  <2> QED
    BY <2>1, <2>2, <2>3, <1>6
<1>12. \A m \in (n + pre_zero + 1) .. Len(r) : r[m] = t[m - pre_zero]
  <2> TAKE m \in (n + pre_zero + 1) .. Len(r)
  <2>1. m - (n + pre_zero) \in 1 .. Len(b) /\ m \in 1 .. Len(r) /\ ~(m <= n + pre_zero)
    BY <1>1, <1>2, <1>3, <1>5, <1>9
  <2>2. r[m] = b[m - (n + pre_zero)] /\ b[m - (n + pre_zero)] = t[n + (m - (n + pre_zero))]
    BY <2>1, <1>5, <1>9
  <2>3. n + (m - (n + pre_zero)) = m - pre_zero
    BY <1>2, <1>3, <2>1, <1>1
  <2> QED
    BY <2>2, <2>3
<1> QED
  BY <1>1, <1>2, <1>9, <1>10, <1>11, <1>12 DEF zero

-----------------------------------------------------------------------------
(* What the lines of a list are to the source.                             *)

Ordered(t) == \A m, n \in DOMAIN t : m <= n => t[m].from <= t[n].from

\* The addi of a li is alone or behind its lui, the jalr of a call behind its
\* auipc.
LiAt(t, m) ==
  t[m].k = "addi" /\ source[t[m].from].k = "li" =>
    LET v == source[t[m].from].v
    IN  /\ t[m].v = LoadImmediate(v)[2]
        /\ (t[m].to = "zero") <=> FitsOne(v)
        /\ ~FitsOne(v) => /\ m > 1 /\ t[m - 1].k = "lui"
                          /\ t[m - 1].v = LoadImmediate(v)[1]
CallAt(t, m) ==
  t[m].k = "%l12" => m > 1 /\ t[m - 1].k = "%h20" /\ t[m - 1].to = t[m].to
Paired(t) == \A m \in DOMAIN t : LiAt(t, m) /\ CallAt(t, m)

\* The list t of the first N lines, expanded.
Expanded(t, N) ==
  /\ Len(t) <= 2 * N
  /\ \A m \in DOMAIN t :
       /\ t[m].from \in 1 .. N
       /\ IsInstruction(t[m]) <=> IsInstruction(source[t[m].from])
       /\ t[m].k = "label" <=> source[t[m].from].k = "label"
       /\ t[m].k = "label" => source[t[m].from].to = t[m].to
  /\ \A n \in 1 .. N : \E m \in DOMAIN t : t[m].from = n
  /\ \A m, n \in DOMAIN t : t[m].k = "label" /\ t[m].from = t[n].from => m = n
  /\ Ordered(t) /\ Paired(t)

\* A line keeps its pair where the instruction before it stays before it.
LEMMA SamePair ==
  ASSUME NEW t, NEW o \in Nat, LiAt(t, o), CallAt(t, o),
         NEW r, NEW m \in Nat, r[m] = t[o],
         o > 1 /\ IsInstruction(t[o - 1]) => m > 1 /\ r[m - 1] = t[o - 1]
  PROVE  LiAt(r, m) /\ CallAt(r, m)
<1>1. LiAt(r, m)
  <2> SUFFICES ASSUME r[m].k = "addi", source[r[m].from].k = "li", NEW v,
                      v = source[r[m].from].v
               PROVE  /\ r[m].v = LoadImmediate(v)[2]
                      /\ (r[m].to = "zero") <=> FitsOne(v)
                      /\ ~FitsOne(v) => /\ m > 1 /\ r[m - 1].k = "lui"
                                        /\ r[m - 1].v = LoadImmediate(v)[1]
    BY DEF LiAt
  <2>1. /\ t[o].v = LoadImmediate(v)[2]
        /\ (t[o].to = "zero") <=> FitsOne(v)
        /\ ~FitsOne(v) => /\ o > 1 /\ t[o - 1].k = "lui"
                          /\ t[o - 1].v = LoadImmediate(v)[1]
    BY DEF LiAt
  <2>2. ~FitsOne(v) => IsInstruction(t[o - 1])
    BY <2>1 DEF IsInstruction, IsDatum
  <2> QED
    BY <2>1, <2>2
<1>2. CallAt(r, m)
  <2> SUFFICES ASSUME r[m].k = "%l12"
               PROVE  m > 1 /\ r[m - 1].k = "%h20" /\ r[m - 1].to = r[m].to
    BY DEF CallAt
  <2>1. o > 1 /\ t[o - 1].k = "%h20" /\ t[o - 1].to = t[o].to
    BY DEF CallAt
  <2>2. IsInstruction(t[o - 1])
    BY <2>1 DEF IsInstruction, IsDatum
  <2> QED
    BY <2>1, <2>2
<1> QED
  BY <1>1, <1>2

\* The lines a line becomes are of its kind.
LEMMA ExpansionOf ==
  ASSUME Typed, NEW n \in DOMAIN source, NEW e, e = expand_ins(source[n], n)
  PROVE  /\ e \in Seq(Lines) /\ Len(e) \in 1 .. 2 /\ DOMAIN e = 1 .. Len(e)
         /\ source[n].k = "label" => Len(e) = 1
         /\ \A m \in 1 .. Len(e) :
              /\ e[m].from = n
              /\ IsInstruction(e[m]) <=> IsInstruction(source[n])
              /\ e[m].k = "label" <=> source[n].k = "label"
              /\ e[m].k = "label" => source[n].to = e[m].to
              /\ LiAt(e, m) /\ CallAt(e, m)
<1> DEFINE l == source[n]
<1>1. l \in SourceLine /\ n \in Nat \ {0}
  BY Source
<1> HIDE DEF l
<1>2. e = expand_ins(l, n)
  BY DEF l
<1>3. Becomes(l, n, e)
  BY <1>1, <1>2, Expansion
<1>10. /\ e \in Seq(Lines) /\ Len(e) \in 1 .. 2
       /\ \A m \in 1 .. Len(e) : e[m].from = n
  BY <1>3 DEF Becomes
<1>4. DOMAIN e = 1 .. Len(e)
  BY <1>10, LenProperties
<1>11. ASSUME NEW a, e = <<a>>
       PROVE  Len(e) = 1 /\ e[1] = a
  BY <1>11
<1>12. ASSUME NEW a, NEW b, e = <<a, b>>
       PROVE  Len(e) = 2 /\ e[1] = a /\ e[2] = b
  BY <1>12
<1>5. CASE l.k = "li" /\ FitsOne(l.v)
  <2> DEFINE a == Line("addi", "zero", LoadImmediate(l.v)[2], n)
  <2>1. a.k = "addi" /\ a.to = "zero" /\ a.v = LoadImmediate(l.v)[2]
    BY DEF Line
  <2>2. e = <<a>>
    BY <1>3, <1>5 DEF Becomes
  <2> HIDE DEF a
  <2>3. Len(e) = 1 /\ e[1] = a
    BY <2>2, <1>11
  <2> QED
    BY <1>10, <1>4, <1>5, <2>1, <2>3 DEF IsInstruction, IsDatum, LiAt, CallAt, l
<1>6. CASE l.k = "li" /\ ~FitsOne(l.v)
  <2> DEFINE a == Line("lui", "", LoadImmediate(l.v)[1], n)
             b == Line("addi", "rd", LoadImmediate(l.v)[2], n)
  <2>1. /\ a.k = "lui" /\ b.k = "addi" /\ b.to = "rd"
        /\ a.v = LoadImmediate(l.v)[1] /\ b.v = LoadImmediate(l.v)[2]
    BY DEF Line
  <2>2. e = <<a, b>>
    BY <1>3, <1>6 DEF Becomes
  <2> HIDE DEF a, b
  <2>3. Len(e) = 2 /\ e[1] = a /\ e[2] = b
    BY <2>2, <1>12
  <2>4. /\ IsInstruction(e[1]) /\ IsInstruction(e[2]) /\ IsInstruction(l)
        /\ CallAt(e, 1) /\ CallAt(e, 2) /\ LiAt(e, 1)
    BY <1>6, <2>1, <2>3 DEF IsInstruction, IsDatum, CallAt, LiAt
  <2>5. LiAt(e, 2)
    <3>1. e[2].from = n
      BY <1>10, <2>3
    <3> QED
      BY <3>1, <1>6, <2>1, <2>3 DEF LiAt, l
  <2>6. \A m \in 1 .. Len(e) : m = 1 \/ m = 2
    BY <2>3
  <2> QED
    BY <1>10, <1>4, <1>6, <2>1, <2>3, <2>4, <2>5, <2>6 DEF l
<1>7. CASE l.k = "call" /\ e = <<Line("jalrcus", "", 0, n)>>
  <2> DEFINE a == Line("jalrcus", "", 0, n)
  <2>1. a.k = "jalrcus"
    BY DEF Line
  <2>2. e = <<a>>
    BY <1>7
  <2> HIDE DEF a
  <2>3. Len(e) = 1 /\ e[1] = a
    BY <2>2, <1>11
  <2>4. IsInstruction(l) /\ IsInstruction(e[1]) /\ LiAt(e, 1) /\ CallAt(e, 1)
    BY <1>7, <2>1, <2>3 DEF IsInstruction, IsDatum, LiAt, CallAt
  <2>5. \A m \in 1 .. Len(e) : m = 1
    BY <2>3
  <2>6. e[1].k # "label" /\ l.k # "label"
    BY <1>7, <2>1, <2>3
  <2> QED
    BY <1>10, <1>4, <2>3, <2>4, <2>5, <2>6 DEF l
<1>8. CASE l.k = "call" /\ e = <<Line("%h20", l.to, 0, n), Line("%l12", l.to, 0, n)>>
  <2> DEFINE a == Line("%h20", l.to, 0, n)
             b == Line("%l12", l.to, 0, n)
  <2>1. a.k = "%h20" /\ b.k = "%l12" /\ a.to = l.to /\ b.to = l.to
    BY DEF Line
  <2>2. e = <<a, b>>
    BY <1>8
  <2> HIDE DEF a, b
  <2>3. Len(e) = 2 /\ e[1] = a /\ e[2] = b
    BY <2>2, <1>12
  <2>4. \A m \in 1 .. Len(e) : m = 1 \/ m = 2
    BY <2>3
  <2>5. /\ IsInstruction(e[1]) /\ IsInstruction(e[2]) /\ IsInstruction(l) /\ ~IsDatum(l)
        /\ LiAt(e, 1) /\ LiAt(e, 2) /\ CallAt(e, 1)
    BY <1>8, <2>1, <2>3 DEF IsInstruction, IsDatum, LiAt, CallAt
  <2>6. CallAt(e, 2)
    BY <2>1, <2>3 DEF CallAt
  <2> QED
    BY <1>10, <1>4, <1>8, <2>1, <2>3, <2>4, <2>5, <2>6 DEF l
<1>9. CASE l.k # "li" /\ l.k # "call"
  <2>1. Len(e) = 1 /\ e[1].k = l.k /\ e[1].to = l.to
    BY <1>3, <1>9 DEF Becomes
  <2>2. l.k # "addi" /\ l.k # "%l12"
    BY <1>1 DEF SourceLine
  <2> QED
    BY <1>10, <1>4, <1>9, <2>1, <2>2 DEF IsInstruction, IsDatum, LiAt, CallAt, l
<1> QED
  BY <1>3, <1>5, <1>6, <1>7, <1>8, <1>9 DEF Becomes

\* Expand adds the lines of the next line.
LEMMA ExpandsNext ==
  ASSUME Typed, NEW t \in Seq(Lines), NEW n \in DOMAIN source, Expanded(t, n - 1),
         NEW r, r = t \o expand_ins(source[n], n)
  PROVE  r \in Seq(Lines) /\ Expanded(r, n)
<1> DEFINE e == expand_ins(source[n], n)
           L == Len(t)
<1>1. /\ e \in Seq(Lines) /\ Len(e) \in 1 .. 2 /\ DOMAIN e = 1 .. Len(e)
      /\ source[n].k = "label" => Len(e) = 1
      /\ \A m \in 1 .. Len(e) :
           /\ e[m].from = n
           /\ IsInstruction(e[m]) <=> IsInstruction(source[n])
           /\ e[m].k = "label" <=> source[n].k = "label"
           /\ e[m].k = "label" => source[n].to = e[m].to
           /\ LiAt(e, m) /\ CallAt(e, m)
  BY ExpansionOf
<1>2. r = t \o e
  OBVIOUS
<1> HIDE DEF e
<1>3. L \in Nat /\ DOMAIN t = 1 .. L /\ n \in Nat \ {0}
  BY LenProperties, Source
<1>4. /\ r \in Seq(Lines) /\ Len(r) = L + Len(e)
      /\ \A m \in 1 .. L + Len(e) : r[m] = IF m <= L THEN t[m] ELSE e[m - L]
  BY <1>1, <1>2, ConcatProperties
<1>5. DOMAIN r = 1 .. (L + Len(e))
  BY <1>4, LenProperties
<1>6. \A m \in 1 .. L : m \in DOMAIN r /\ r[m] = t[m] /\ m \in DOMAIN t
  BY <1>1, <1>3, <1>4, <1>5
<1>7. \A m \in 1 .. Len(e) : L + m \in DOMAIN r /\ r[L + m] = e[m]
  <2> TAKE m \in 1 .. Len(e)
  <2>1. L + m \in 1 .. L + Len(e) /\ ~(L + m <= L) /\ (L + m) - L = m
    BY <1>1, <1>3
  <2> QED
    BY <2>1, <1>4, <1>5
<1>8. ASSUME NEW m \in DOMAIN r
      PROVE  \/ m \in 1 .. L /\ r[m] = t[m]
             \/ \E o \in 1 .. Len(e) : m = L + o /\ r[m] = e[o]
  <2>1. CASE m <= L
    BY <2>1, <1>3, <1>5, <1>6
  <2>2. CASE m > L
    <3> DEFINE o == m - L
    <3>1. o \in 1 .. Len(e) /\ m = L + o
      BY <2>2, <1>1, <1>3, <1>5
    <3> HIDE DEF o
    <3> QED
      BY <3>1, <1>7
  <2> QED
    BY <2>1, <2>2, <1>1, <1>3, <1>5
<1>9. Len(r) <= 2 * n
  <2>1. L <= 2 * (n - 1)
    BY DEF Expanded
  <2>2. ASSUME NEW a \in Nat, NEW b \in 1 .. 2, NEW c \in Nat, a <= 2 * (c - 1)
        PROVE  a + b <= 2 * c
    BY <2>2
  <2>3. L + Len(e) <= 2 * n
    BY <2>1, <2>2, <1>1, <1>3
  <2> QED
    BY <2>3, <1>4
<1>10. ASSUME NEW m \in DOMAIN r
       PROVE  /\ r[m].from \in 1 .. n
              /\ IsInstruction(r[m]) <=> IsInstruction(source[r[m].from])
              /\ r[m].k = "label" <=> source[r[m].from].k = "label"
              /\ r[m].k = "label" => source[r[m].from].to = r[m].to
  <2>1. CASE m \in 1 .. L /\ r[m] = t[m]
    BY <2>1, <1>3 DEF Expanded
  <2>2. ASSUME NEW o \in 1 .. Len(e), m = L + o, r[m] = e[o]
        PROVE  /\ r[m].from \in 1 .. n
               /\ IsInstruction(r[m]) <=> IsInstruction(source[r[m].from])
               /\ r[m].k = "label" <=> source[r[m].from].k = "label"
               /\ r[m].k = "label" => source[r[m].from].to = r[m].to
    BY <2>2, <1>1, <1>3
  <2> QED
    BY <2>1, <2>2, <1>8
<1>11. \A o \in 1 .. n : \E m \in DOMAIN r : r[m].from = o
  <2> TAKE o \in 1 .. n
  <2>1. CASE o = n
    <3>1. r[L + 1] = e[1] /\ L + 1 \in DOMAIN r /\ e[1].from = n
      BY <1>1, <1>7
    <3> QED
      BY <2>1, <3>1
  <2>2. CASE o \in 1 .. (n - 1)
    <3>1. PICK m \in DOMAIN t : t[m].from = o
      BY <2>2 DEF Expanded
    <3> QED
      BY <3>1, <1>3, <1>6
  <2> QED
    BY <2>1, <2>2, <1>3
<1>12. \A m \in 1 .. L : t[m].from \in 1 .. (n - 1) /\ t[m].from < n
  BY <1>3 DEF Expanded
<1>13. \A m, o \in DOMAIN r : r[m].k = "label" /\ r[m].from = r[o].from => m = o
  <2> SUFFICES ASSUME NEW m \in DOMAIN r, NEW o \in DOMAIN r, r[m].k = "label",
                      r[m].from = r[o].from
               PROVE  m = o
    OBVIOUS
  <2>1. CASE m \in 1 .. L /\ r[m] = t[m]
    <3>1. o \in 1 .. L /\ r[o] = t[o]
      BY <2>1, <1>1, <1>8, <1>12
    <3> QED
      BY <2>1, <3>1, <1>3 DEF Expanded
  <2>2. ASSUME NEW p \in 1 .. Len(e), m = L + p, r[m] = e[p]
        PROVE  m = o
    <3>1. Len(e) = 1 /\ p = 1 /\ r[o].from = n
      BY <2>2, <1>1
    <3>2. PICK q \in 1 .. Len(e) : o = L + q
      BY <3>1, <1>8, <1>12
    <3> QED
      BY <2>2, <3>1, <3>2
  <2> QED
    BY <2>1, <2>2, <1>8
<1>14. Ordered(r)
  <2> SUFFICES ASSUME NEW m \in DOMAIN r, NEW o \in DOMAIN r, m <= o
               PROVE  r[m].from <= r[o].from
    BY DEF Ordered
  <2>1. CASE o \in 1 .. L /\ r[o] = t[o]
    <3>1. m \in 1 .. L /\ r[m] = t[m]
      BY <2>1, <1>3, <1>5, <1>6
    <3> QED
      BY <2>1, <3>1, <1>3 DEF Expanded, Ordered
  <2>2. ASSUME NEW p \in 1 .. Len(e), r[o] = e[p]
        PROVE  r[m].from <= r[o].from
    <3>1. r[o].from = n
      BY <2>2, <1>1
    <3> QED
      BY <3>1, <1>10, <1>3
  <2> QED
    BY <2>1, <2>2, <1>8
<1>15. Paired(r)
  <2> SUFFICES ASSUME NEW m \in DOMAIN r
               PROVE  LiAt(r, m) /\ CallAt(r, m)
    BY DEF Paired
  <2>1. CASE m \in 1 .. L /\ r[m] = t[m]
    <3>1. LiAt(t, m) /\ CallAt(t, m)
      BY <2>1, <1>3 DEF Expanded, Paired
    <3>2. m \in Nat /\ (m > 1 => r[m - 1] = t[m - 1])
      BY <2>1, <1>3, <1>6
    <3> QED
      BY <2>1, <3>1, <3>2, SamePair
  <2>2. ASSUME NEW p \in 1 .. Len(e), m = L + p, r[m] = e[p]
        PROVE  LiAt(r, m) /\ CallAt(r, m)
    <3>1. LiAt(e, p) /\ CallAt(e, p)
      BY <1>1
    <3>2. p > 1 => m > 1 /\ r[m - 1] = e[p - 1]
      <4> SUFFICES ASSUME p > 1 PROVE m > 1 /\ r[m - 1] = e[p - 1]
        OBVIOUS
      <4> DEFINE o == p - 1
      <4>1. o \in 1 .. Len(e) /\ L + o = m - 1 /\ m > 1
        BY <2>2, <1>1, <1>3
      <4> HIDE DEF o
      <4>2. r[L + o] = e[o]
        BY <4>1, <1>7
      <4> QED
        BY <4>1, <4>2 DEF o
    <3>3. m \in Nat /\ p \in Nat
      BY <2>2, <1>1, <1>3
    <3> QED
      BY <2>2, <3>1, <3>2, <3>3, SamePair
  <2> QED
    BY <2>1, <2>2, <1>8
<1> QED
  BY <1>4, <1>9, <1>10, <1>11, <1>13, <1>14, <1>15 DEF Expanded

-----------------------------------------------------------------------------
(* The text as __pre_mapfilt reads it, with the zeros of main in it.       *)

ZerosOf(n) == IF TakesZeros(n) THEN pre_zero ELSE 0

\* A label stands before all that comes from a later line, and its zeros, behind
\* all that comes from an earlier one.
LabelAt(t, m) ==
  /\ IsLabel(source[t[m].from], t[m].to)
  /\ \A n \in DOMAIN t : n < m => t[n].from < t[m].from
  /\ m + ZerosOf(t[m].from) \in DOMAIN t
  /\ \A n \in (m + 1) .. (m + ZerosOf(t[m].from)) :
       IsInstruction(t[n]) /\ t[n].from = t[m].from
  /\ \A n \in DOMAIN t : n > m + ZerosOf(t[m].from) => t[n].from > t[m].from

Complete(t) ==
  /\ Len(t) <= 2 * Len(source) + pre_zero
  /\ \A m \in DOMAIN t : /\ t[m].from \in DOMAIN source
                         /\ IsInstruction(t[m]) => Emits(t[m].from)
                         /\ t[m].k = "label" => LabelAt(t, m)
  /\ \A n \in DOMAIN source :
       /\ Emits(n) => \E m \in DOMAIN t : t[m].from = n /\ IsInstruction(t[m])
       /\ source[n].k = "label" => \E m \in DOMAIN t : t[m].from = n /\ t[m].k = "label"
  /\ Ordered(t) /\ Paired(t)

\* One line takes zeros at most.
LEMMA OneMain ==
  ASSUME Typed, NEW m \in DOMAIN source, NEW n \in DOMAIN source,
         TakesZeros(m), TakesZeros(n)
  PROVE  m = n
BY Source DEF TakesZeros

\* In a list without zeros a label is alone.
LEMMA LabelAlone ==
  ASSUME Typed, NEW t \in Seq(Lines), Expanded(t, Len(source)),
         NEW m \in DOMAIN t, t[m].k = "label"
  PROVE  /\ \A n \in DOMAIN t : n < m => t[n].from < t[m].from
         /\ \A n \in DOMAIN t : n > m => t[n].from > t[m].from
<1>1. /\ Len(t) \in Nat /\ DOMAIN t = 1 .. Len(t)
      /\ \A n \in DOMAIN t : t[n].from \in 1 .. Len(source)
  BY LenProperties, Source DEF Expanded
<1>2. Len(source) \in Nat
  BY Source
<1>3. \A n \in DOMAIN t : t[n].from # t[m].from \/ n = m
  BY DEF Expanded
<1>4. \A n \in DOMAIN t : (n < m => t[n].from <= t[m].from) /\ (n > m => t[m].from <= t[n].from)
  BY <1>1 DEF Expanded, Ordered
<1> QED
  BY <1>1, <1>2, <1>3, <1>4

\* Without a main nothing is put in.
LEMMA WithoutMain ==
  ASSUME Typed, NEW t \in Seq(Lines), Expanded(t, Len(source)),
         \A n \in DOMAIN t : ~IsMain(t[n])
  PROVE  Complete(t)
<1>1. /\ Len(t) \in Nat /\ DOMAIN t = 1 .. Len(t)
      /\ Len(source) \in Nat /\ DOMAIN source = 1 .. Len(source) /\ pre_zero \in Nat
  BY LenProperties, Source, LabelsAssumption
<1>2. \A m \in DOMAIN t :
        /\ t[m].from \in DOMAIN source
        /\ IsInstruction(t[m]) <=> IsInstruction(source[t[m].from])
        /\ t[m].k = "label" <=> source[t[m].from].k = "label"
        /\ t[m].k = "label" => source[t[m].from].to = t[m].to
  BY <1>1 DEF Expanded
<1>3. \A n \in DOMAIN source : \E m \in DOMAIN t : t[m].from = n
  BY <1>1 DEF Expanded
<1>4. \A n \in DOMAIN source : ~TakesZeros(n)
  <2> SUFFICES ASSUME NEW n \in DOMAIN source, TakesZeros(n) PROVE FALSE
    OBVIOUS
  <2>1. PICK m \in DOMAIN t : t[m].from = n
    BY <1>3
  <2>2. IsMain(t[m])
    BY <2>1, <1>2 DEF TakesZeros, IsMain
  <2> QED
    BY <2>2
<1>5. ASSUME NEW m \in DOMAIN t, t[m].k = "label"
      PROVE  LabelAt(t, m)
  <2>1. ZerosOf(t[m].from) = 0 /\ m \in Nat
    BY <1>1, <1>2, <1>4 DEF ZerosOf
  <2>2. IsLabel(source[t[m].from], t[m].to)
    BY <1>2, <1>5 DEF IsLabel
  <2> QED
    BY <1>5, <2>1, <2>2, LabelAlone DEF LabelAt
<1>6. Len(t) <= 2 * Len(source) + pre_zero
  <2>1. Len(t) <= 2 * Len(source)
    BY DEF Expanded
  <2>2. ASSUME NEW a \in Nat, NEW b \in Nat, NEW c \in Nat, a <= 2 * b
        PROVE  a <= 2 * b + c
    BY <2>2
  <2> QED
    BY <1>1, <2>1, <2>2
<1>7. \A n \in DOMAIN source :
        /\ Emits(n) => \E m \in DOMAIN t : t[m].from = n /\ IsInstruction(t[m])
        /\ source[n].k = "label" => \E m \in DOMAIN t : t[m].from = n /\ t[m].k = "label"
  BY <1>2, <1>3, <1>4, ZenonT(40) DEF Emits
<1> QED
  BY <1>2, <1>5, <1>6, <1>7 DEF Complete, Expanded, Emits

\* The line behind which the zeros are put is the main of the source.
LEMMA MainOfText ==
  ASSUME Typed, NEW t \in Seq(Lines), Expanded(t, Len(source)), NEW n \in DOMAIN t,
         IsMain(t[n]), \A m \in 1 .. (n - 1) : ~IsMain(t[m])
  PROVE  t[n].from \in DOMAIN source /\ TakesZeros(t[n].from)
<1> DEFINE p == t[n].from
<1>1. /\ Len(t) \in Nat /\ DOMAIN t = 1 .. Len(t)
      /\ Len(source) \in Nat /\ DOMAIN source = 1 .. Len(source)
  BY LenProperties, Source
<1>2. \A m \in DOMAIN t :
        /\ t[m].from \in DOMAIN source
        /\ t[m].k = "label" <=> source[t[m].from].k = "label"
        /\ t[m].k = "label" => source[t[m].from].to = t[m].to
  BY <1>1 DEF Expanded
<1>3. p \in DOMAIN source /\ IsMain(source[p])
  BY <1>2 DEF IsMain
<1>4. ASSUME NEW o \in 1 .. (p - 1), IsMain(source[o])
      PROVE  FALSE
  <2>1. o \in 1 .. Len(source) /\ o < p
    BY <1>1, <1>3
  <2>2. PICK m \in DOMAIN t : t[m].from = o
    BY <2>1 DEF Expanded
  <2>3. IsMain(t[m])
    BY <2>2, <1>2, <1>4 DEF IsMain
  <2>4. m < n
    <3>1. m >= n => p <= o
      BY <2>2, <1>1 DEF Expanded, Ordered
    <3> QED
      BY <3>1, <2>1, <1>1, <1>3
  <2> QED
    BY <2>3, <2>4, <1>1
<1> QED
  BY <1>3, <1>4 DEF TakesZeros

\* With one, its zeros stand behind it, and all other lines as before.
LEMMA WithMain ==
  ASSUME Typed, NEW t \in Seq(Lines), Expanded(t, Len(source)),
         \E n \in DOMAIN t : IsMain(t[n]), NEW r, r = WithZeros(t)
  PROVE  r \in Seq(Lines) /\ Complete(r)
<1> DEFINE n == FirstMain(t)
           p == t[n].from
           z == pre_zero
           zero == Line("addi", "zero", 0, p)
<1>1. /\ n \in 1 .. Len(t) /\ IsMain(t[n]) /\ \A m \in 1 .. (n - 1) : ~IsMain(t[m])
      /\ r \in Seq(Lines) /\ Len(r) = Len(t) + z
      /\ \A m \in 1 .. n : r[m] = t[m]
      /\ \A m \in (n + 1) .. (n + z) : r[m] = zero
      /\ \A m \in (n + z + 1) .. Len(r) : r[m] = t[m - z]
  BY Inserted
<1>2. /\ Len(t) \in Nat /\ DOMAIN t = 1 .. Len(t) /\ DOMAIN r = 1 .. Len(r)
      /\ Len(source) \in Nat /\ DOMAIN source = 1 .. Len(source)
      /\ z \in Nat \ {0} /\ Len(r) \in Nat
  BY <1>1, LenProperties, Source, LabelsAssumption
<1>3. p \in DOMAIN source /\ TakesZeros(p)
  BY <1>1, <1>2, MainOfText
<1>4. /\ zero.k = "addi" /\ zero.from = p /\ IsInstruction(zero)
  BY DEF Line, IsInstruction, IsDatum
<1>5. \A m \in DOMAIN t :
        /\ t[m].from \in DOMAIN source
        /\ IsInstruction(t[m]) <=> IsInstruction(source[t[m].from])
        /\ t[m].k = "label" <=> source[t[m].from].k = "label"
        /\ t[m].k = "label" => source[t[m].from].to = t[m].to
  BY <1>2 DEF Expanded
<1>6. t[n].k = "label"
  BY <1>1 DEF IsMain
<1> HIDE DEF n, p, z, zero
<1> DEFINE g == [m \in DOMAIN r |-> IF m <= n THEN m ELSE IF m <= n + z THEN n ELSE m - z]
           IsZero(m) == m \in (n + 1) .. (n + z)
<1>7. ASSUME NEW m \in DOMAIN r
      PROVE  /\ m \in 1 .. Len(r) /\ g[m] \in DOMAIN t
             /\ IsZero(m) => r[m] = zero /\ g[m] = n
             /\ ~IsZero(m) => r[m] = t[g[m]]
             /\ m <= n => g[m] = m
             /\ m > n + z => g[m] = m - z
  <2>1. CASE m \in 1 .. n
    BY <2>1, <1>1, <1>2
  <2>2. CASE m \in (n + 1) .. (n + z)
    BY <2>2, <1>1, <1>2
  <2>3. CASE m \in (n + z + 1) .. Len(r)
    BY <2>3, <1>1, <1>2
  <2> QED
    BY <2>1, <2>2, <2>3, <1>1, <1>2
<1>8. \A m \in DOMAIN r : r[m].from = t[g[m]].from
  BY <1>4, <1>7 DEF p
<1>9. \A m \in DOMAIN t : \E o \in DOMAIN r : ~IsZero(o) /\ g[o] = m /\ r[o] = t[m]
  <2> TAKE m \in DOMAIN t
  <2>1. CASE m <= n
    <3>1. m \in DOMAIN r /\ ~IsZero(m)
      BY <2>1, <1>1, <1>2
    <3> QED
      BY <3>1, <2>1, <1>7
  <2>2. CASE m > n
    <3> DEFINE o == m + z
    <3>1. o \in DOMAIN r /\ ~IsZero(o) /\ o > n + z /\ o - z = m
      BY <2>2, <1>1, <1>2
    <3> HIDE DEF o
    <3> QED
      BY <3>1, <1>7
  <2> QED
    BY <2>1, <2>2, <1>1, <1>2
<1>10. \A m, o \in DOMAIN r : m <= o => g[m] <= g[o]
  BY <1>1, <1>2
<1>11. \A m, o \in DOMAIN r : m < o /\ ~IsZero(o) => g[m] < g[o]
  BY <1>1, <1>2
<1>12. \A m, o \in DOMAIN r :
         m < o /\ ~IsZero(m) /\ ~(m = n /\ IsZero(o)) => g[m] < g[o]
  BY <1>1, <1>2
<1> HIDE DEF g
<1>13. Len(r) <= 2 * Len(source) + z
  <2>1. Len(t) <= 2 * Len(source)
    BY DEF Expanded
  <2>2. ASSUME NEW a \in Nat, NEW b \in Nat, NEW c \in Nat, a <= 2 * b
        PROVE  a + c <= 2 * b + c
    BY <2>2
  <2>3. Len(t) + z <= 2 * Len(source) + z
    BY <1>2, <2>1, <2>2
  <2> QED
    BY <2>3, <1>1
<1>14. \A m \in DOMAIN r : r[m].from \in DOMAIN source /\ (IsInstruction(r[m]) => Emits(r[m].from))
  <2> TAKE m \in DOMAIN r
  <2>1. CASE IsZero(m)
    BY <2>1, <1>3, <1>4, <1>7 DEF Emits
  <2>2. CASE ~IsZero(m)
    BY <2>2, <1>5, <1>7 DEF Emits
  <2> QED
    BY <2>1, <2>2
<1>15. \A q \in DOMAIN source :
         /\ Emits(q) => \E m \in DOMAIN r : r[m].from = q /\ IsInstruction(r[m])
         /\ source[q].k = "label" => \E m \in DOMAIN r : r[m].from = q /\ r[m].k = "label"
  <2> TAKE q \in DOMAIN source
  <2>1. PICK m \in DOMAIN t : t[m].from = q
    BY <1>2 DEF Expanded
  <2>2. PICK o \in DOMAIN r : r[o] = t[m]
    BY <1>9
  <2>3. CASE TakesZeros(q)
    <3>1. q = p
      BY <2>3, <1>3, OneMain
    <3>2. n + 1 \in DOMAIN r /\ IsZero(n + 1)
      BY <1>1, <1>2
    <3>3. r[n + 1] = zero
      BY <3>2, <1>7
    <3> QED
      BY <3>1, <3>2, <3>3, <2>1, <2>2, <1>4, <1>5
  <2>4. CASE ~TakesZeros(q)
    BY <2>1, <2>2, <2>4, <1>5 DEF Emits
  <2> QED
    BY <2>3, <2>4
<1>16. Ordered(r)
  BY <1>7, <1>8, <1>10, SMTT(30) DEF Ordered, Expanded
<1>17. Paired(r)
  <2> SUFFICES ASSUME NEW m \in DOMAIN r PROVE LiAt(r, m) /\ CallAt(r, m)
    BY DEF Paired
  <2>1. CASE IsZero(m)
    <3>1. source[p].k = "label"
      BY <1>3 DEF TakesZeros, IsMain
    <3>2. r[m].k = "addi" /\ source[r[m].from].k # "li"
      BY <3>1, <2>1, <1>4, <1>7
    <3> QED
      BY <3>2 DEF LiAt, CallAt
  <2>2. CASE ~IsZero(m)
    <3>1. LiAt(t, g[m]) /\ CallAt(t, g[m])
      BY <1>7 DEF Expanded, Paired
    <3>4. /\ m \in 1 .. Len(r) /\ n \in Nat /\ z \in Nat /\ Len(r) \in Nat
          /\ m > n + z => g[m] = m - z
          /\ m <= n \/ m > n + z
      BY <2>2, <1>1, <1>2, <1>7
    <3>2. g[m] > 1 /\ IsInstruction(t[g[m] - 1]) => m > 1 /\ r[m - 1] = t[g[m] - 1]
      <4>1. CASE m <= n
        BY <4>1, <1>1, <1>2, <1>7
      <4>2. CASE m = n + z + 1
        <5>1. g[m] - 1 = n
          <6>1. g[m] = m - z
            BY <3>4, <4>2
          <6> QED
            BY <6>1, <3>4, <4>2
        <5> QED
          BY <5>1, <1>6 DEF IsInstruction
      <4>3. CASE m > n + z + 1
        <5>1. /\ m - 1 \in (n + z + 1) .. Len(r) /\ g[m] - 1 = (m - 1) - z /\ m > 1
          <6>1. g[m] = m - z
            BY <3>4, <4>3
          <6> QED
            BY <6>1, <3>4, <4>3
        <5> QED
          BY <5>1, <1>1
      <4> QED
        BY <4>1, <4>2, <4>3, <3>4
    <3>3. m \in Nat /\ g[m] \in Nat /\ r[m] = t[g[m]]
      BY <2>2, <1>2, <1>7
    <3> QED
      BY <3>1, <3>2, <3>3, SamePair
  <2> QED
    BY <2>1, <2>2
<1>18. ASSUME NEW m \in DOMAIN r, r[m].k = "label"
       PROVE  LabelAt(r, m)
  <2>1. ~IsZero(m) /\ r[m] = t[g[m]] /\ g[m] \in DOMAIN t /\ m \in 1 .. Len(r)
    BY <1>4, <1>7, <1>18
  <2>2. IsLabel(source[r[m].from], r[m].to)
    BY <2>1, <1>5, <1>18 DEF IsLabel
  <2>3. /\ \A o \in DOMAIN t : o < g[m] => t[o].from < t[g[m]].from
        /\ \A o \in DOMAIN t : o > g[m] => t[o].from > t[g[m]].from
    BY <2>1, <1>18, LabelAlone
  <2>4. \A o \in DOMAIN r : o < m => r[o].from < r[m].from
    BY <2>1, <2>3, <1>7, <1>8, <1>11
  <2>5. CASE m = n
    <3>1. ZerosOf(r[m].from) = z
      BY <2>1, <2>5, <1>1, <1>3, <1>7 DEF ZerosOf, p, z
    <3>2. m + z \in DOMAIN r
      BY <2>5, <1>1, <1>2
    <3>3. \A o \in (m + 1) .. (m + z) : IsInstruction(r[o]) /\ r[o].from = r[m].from
      BY <2>5, <1>1, <1>4 DEF p
    <3>4. \A o \in DOMAIN r : o > m + z => r[o].from > r[m].from
      <4> SUFFICES ASSUME NEW o \in DOMAIN r, o > m + z PROVE r[o].from > r[m].from
        OBVIOUS
      <4>1. m < o /\ ~IsZero(o)
        BY <2>1, <2>5, <1>2
      <4>2. g[m] < g[o]
        BY <4>1, <2>1, <1>12
      <4>3. g[o] \in DOMAIN t /\ r[o].from = t[g[o]].from
        BY <1>7, <1>8
      <4> QED
        BY <4>2, <4>3, <2>1, <2>3, <1>2
    <3> QED
      BY <2>2, <2>4, <3>1, <3>2, <3>3, <3>4 DEF LabelAt
  <2>6. CASE m # n
    <3>1. r[m].from # p
      <4>1. g[m] # n
        <5>1. /\ m \in 1 .. Len(r) /\ n \in Nat /\ z \in Nat /\ Len(r) \in Nat
              /\ m <= n => g[m] = m
              /\ m > n + z => g[m] = m - z
              /\ m <= n \/ m > n + z
          BY <2>1, <1>1, <1>2, <1>7
        <5> QED
          BY <5>1, <2>6
      <4>2. g[m] < n \/ g[m] > n
        BY <4>1, <2>1, <1>1, <1>2
      <4>3. n \in DOMAIN t /\ t[n].from \in Int /\ t[n].from = p
        BY <1>1, <1>2, <1>3 DEF p
      <4> QED
        BY <4>2, <4>3, <2>1, <2>3
    <3>2. ZerosOf(r[m].from) = 0
      BY <3>1, <1>3, <1>14, OneMain DEF ZerosOf
    <3>3. \A o \in DOMAIN r : o > m => r[o].from > r[m].from
      BY <2>1, <2>3, <2>6, <1>7, <1>8, <1>12
    <3>4. m + 0 = m
      BY <2>1
    <3> QED
      BY <2>1, <2>2, <2>4, <3>2, <3>3, <3>4 DEF LabelAt
  <2> QED
    BY <2>5, <2>6
<1>19. \A m \in DOMAIN r :
         /\ r[m].from \in DOMAIN source
         /\ IsInstruction(r[m]) => Emits(r[m].from)
         /\ r[m].k = "label" => LabelAt(r, m)
  BY <1>14, <1>18
<1>20. Len(r) <= 2 * Len(source) + pre_zero
  BY <1>13 DEF z
<1>21. r \in Seq(Lines)
  BY <1>1
<1> QED
  BY <1>15, <1>16, <1>17, <1>19, <1>20, <1>21 DEF Complete

-----------------------------------------------------------------------------
(* The types are kept.                                                     *)

\* A word of a sequence is replaced.
LEMMA ReplacedIn ==
  ASSUME NEW S, NEW t \in Seq(S), t # <<>>, NEW c \in S,
         NEW r, r = [t EXCEPT ![Len(t)] = c]
  PROVE  r \in Seq(S) /\ Len(r) = Len(t) /\ r # <<>>
<1>1. Len(t) \in Nat /\ Len(t) \in 1 .. Len(t)
  BY LenProperties, EmptySeq
<1>2. r \in Seq(S) /\ Len(r) = Len(t)
  BY <1>1, ExceptSeq
<1> QED
  BY <1>1, <1>2, EmptySeq

\* What a datum makes of the words.
LEMMA CellTypes ==
  ASSUME NEW n \in Nat, NEW a \in Nat \X Nat, NEW b \in Nat \X Nat
  PROVE  /\ [k \in 1 .. 4 |-> Datum(n, k)] \in Cells
         /\ <<a, b, Datum(n, 1), Datum(n, 2)>> \in Cells
         /\ <<Datum(n, 1), Datum(n, 2), Zero, Zero>> \in Cells
         /\ <<Datum(n, 1), Zero, Zero, Zero>> \in Cells
<1>1. Zero \in Nat \X Nat /\ \A k \in 1 .. 4 : Datum(n, k) \in Nat \X Nat
  BY DEF Zero, Datum
<1>2. ASSUME NEW c \in Nat \X Nat, NEW d \in Nat \X Nat,
             NEW e \in Nat \X Nat, NEW f \in Nat \X Nat
      PROVE  <<c, d, e, f>> \in Cells
  <2>1. <<c, d, e, f>> = [k \in 1 .. 4 |-> <<c, d, e, f>>[k]]
    OBVIOUS
  <2>2. \A k \in 1 .. 4 : <<c, d, e, f>>[k] \in Nat \X Nat
    <3> DEFINE P == Nat \X Nat
    <3>1. c \in P /\ d \in P /\ e \in P /\ f \in P
      OBVIOUS
    <3> HIDE DEF P
    <3>2. \A k \in 1 .. 4 : <<c, d, e, f>>[k] \in P
      BY <3>1
    <3> QED
      BY <3>2 DEF P
  <2> QED
    BY <2>1, <2>2 DEF Cells
<1> QED
  BY <1>1, <1>2 DEF Cells

\* FilterDatum keeps the types of the data.
LEMMA DataTypes ==
  ASSUME DataTyped, NEW n \in Nat
  PROVE  /\ AddWord(dc, n) \in Seq(Cells) \ {<<>>}
         /\ AddHalf(dc, half_num, n) \in Seq(Cells) \ {<<>>}
         /\ AddByte(dc, byte_num, n) \in Seq(Cells) \ {<<>>}
         /\ Len(AddWord(dc, n)) <= Len(dc) + 1
         /\ Len(AddHalf(dc, half_num, n)) <= Len(dc) + 1
         /\ Len(AddByte(dc, byte_num, n)) <= Len(dc) + 1
         /\ Len(dc) <= Len(AddWord(dc, n))
         /\ Len(dc) <= Len(AddHalf(dc, half_num, n))
         /\ Len(dc) <= Len(AddByte(dc, byte_num, n))
<1> DEFINE Grown(r) == r \in Seq(Cells) \ {<<>>} /\ Len(r) <= Len(dc) + 1 /\ Len(dc) <= Len(r)
<1>1. dc \in Seq(Cells) /\ half_num \in 0 .. 1 /\ byte_num \in 0 .. 3 /\ Len(dc) \in Nat
  BY LenProperties DEF DataTyped
<1>2. ASSUME NEW c \in Cells
      PROVE  Grown(Append(dc, c))
  <2> DEFINE r == Append(dc, c)
  <2>1. r \in Seq(Cells) /\ Len(r) = Len(dc) + 1
    BY <1>1, AppendProperties
  <2> HIDE DEF r
  <2>2. Grown(r)
    BY <2>1, <1>1, EmptySeq
  <2> QED
    BY <2>2 DEF r
<1>3. ASSUME dc # <<>>, NEW c \in Cells
      PROVE  Grown([dc EXCEPT ![Len(dc)] = c])
  <2> DEFINE r == [dc EXCEPT ![Len(dc)] = c]
  <2>1. r \in Seq(Cells) /\ Len(r) = Len(dc) /\ r # <<>>
    BY <1>1, <1>3, ReplacedIn
  <2> HIDE DEF r
  <2>2. Grown(r)
    BY <2>1, <1>1
  <2> QED
    BY <2>2 DEF r
<1> HIDE DEF Grown
<1>4. dc # <<>> => dc[Len(dc)] \in Cells
  <2> SUFFICES ASSUME dc # <<>> PROVE dc[Len(dc)] \in Cells
    OBVIOUS
  <2>1. Len(dc) \in 1 .. Len(dc)
    BY <1>1, EmptySeq
  <2> QED
    BY <2>1, <1>1, ElementOfSeq
<1>5. Grown(AddWord(dc, n))
  <2>1. [k \in 1 .. 4 |-> Datum(n, k)] \in Cells
    BY CellTypes DEF Cells, Datum
  <2> QED
    BY <2>1, <1>2 DEF AddWord
<1> DEFINE last == dc[Len(dc)]
<1>6. Grown(AddHalf(dc, half_num, n))
  <2>1. CASE half_num = 0
    <3>1. <<Datum(n, 1), Datum(n, 2), Zero, Zero>> \in Cells
      <4>1. Zero \in Nat \X Nat
        BY DEF Zero
      <4> QED
        BY <4>1, CellTypes
    <3> QED
      BY <2>1, <3>1, <1>2 DEF AddHalf
  <2>2. CASE half_num # 0
    <3>1. dc # <<>>
      BY <2>2 DEF DataTyped
    <3> DEFINE c == <<last[1], last[2], Datum(n, 1), Datum(n, 2)>>
    <3>2. c \in Cells
      <4>1. last[1] \in Nat \X Nat /\ last[2] \in Nat \X Nat
        BY <3>1, <1>4 DEF Cells
      <4> QED
        BY <4>1, CellTypes
    <3>3. AddHalf(dc, half_num, n) = [dc EXCEPT ![Len(dc)] = c]
      BY <2>2 DEF AddHalf
    <3> HIDE DEF c
    <3> QED
      BY <3>1, <3>2, <3>3, <1>3
  <2> QED
    BY <2>1, <2>2
<1>7. Grown(AddByte(dc, byte_num, n))
  <2>1. CASE byte_num = 0
    <3>1. <<Datum(n, 1), Zero, Zero, Zero>> \in Cells
      <4>1. Zero \in Nat \X Nat
        BY DEF Zero
      <4> QED
        BY <4>1, CellTypes
    <3> QED
      BY <2>1, <3>1, <1>2 DEF AddByte
  <2>2. CASE byte_num # 0
    <3>1. dc # <<>>
      BY <2>2 DEF DataTyped
    <3> DEFINE c == [k \in 1 .. 4 |-> IF k <= byte_num THEN last[k]
                                      ELSE IF k = byte_num + 1 THEN Datum(n, 1)
                                      ELSE Zero]
    <3>2. c \in Cells
      <4>1. last \in Cells
        BY <3>1, <1>4
      <4>2. \A k \in 1 .. 4 : last[k] \in Nat \X Nat
        BY <4>1 DEF Cells
      <4>3. Zero \in Nat \X Nat /\ Datum(n, 1) \in Nat \X Nat
        BY DEF Zero, Datum
      <4> HIDE DEF last
      <4> QED
        BY <4>2, <4>3 DEF Cells
    <3>3. AddByte(dc, byte_num, n) = [dc EXCEPT ![Len(dc)] = c]
      BY <2>2 DEF AddByte
    <3> HIDE DEF c
    <3> QED
      BY <3>1, <3>2, <3>3, <1>3
  <2> QED
    BY <2>1, <2>2
<1> QED
  BY <1>5, <1>6, <1>7 DEF Grown

\* A position is put under a label.
LEMMA WithLabel ==
  ASSUME NEW f, f \in [DOMAIN f -> Nat], NEW l, NEW p \in Nat
  PROVE  /\ With(f, l, p) \in [DOMAIN With(f, l, p) -> Nat]
         /\ DOMAIN With(f, l, p) = DOMAIN f \cup {l}
         /\ \A x \in DOMAIN f \cup {l} : With(f, l, p)[x] = IF x = l THEN p ELSE f[x]
BY DEF With

\* A field holds a distance if it spans it, and else another number.
LEMMA FieldHolds ==
  ASSUME NEW k \in Jumps, NEW d \in Int
  PROVE  /\ Field(k, d) \in Int
         /\ Field(k, d) = d <=> d \in -Span[k] .. (Span[k] - 1)
<1>1. PICK h : h = Span[k]
  OBVIOUS
<1>2. h \in Nat \ {0}
  BY <1>1, JumpsAssumption
<1>3. PICK r : r = (d + h) % (2 * h)
  OBVIOUS
<1>4. r \in 0 .. (2 * h - 1) /\ (d + h \in 0 .. (2 * h - 1) => r = d + h)
  <2>1. PICK w : w = 2 * h
    OBVIOUS
  <2>2. w \in Nat \ {0} /\ d + h \in Int
    BY <1>2, <2>1
  <2>3. (d + h) % w \in 0 .. (w - 1)
    BY <2>2, DivMod
  <2>4. d + h \in 0 .. (w - 1) => (d + h) % w = d + h
    BY <2>2
  <2> QED
    BY <1>3, <2>1, <2>3, <2>4
<1>5. Field(k, d) = r - h
  BY <1>1, <1>3 DEF Field
<1> QED
  BY <1>1, <1>2, <1>4, <1>5

\* An immediate is a number.
LEMMA ImmediateTypes ==
  ASSUME Typed, NEW l \in Lines, ~Undefined(l), NEW i \in Int
  PROVE  ImmediateAt(l, i) \in Int
<1>1. \A j \in Int : calcJump(l.to, j) \in Int
  BY DEF calcJump, Typed, LabelsTyped
<1>2. \A j \in Int : calcJump(l.to, j) % Modulus \in Word
  BY <1>1, Sizes DEF Word
<1>3. \A j \in Int : /\ CallParts(calcJump(l.to, j) % Modulus)[1] \in Int
                     /\ CallParts(calcJump(l.to, j) % Modulus)[2] \in Int
  BY <1>2, PartTypes
<1>4. CASE l.k \in {"%hi", "%lo"}
  <2>1. DataAddress(l.to) \in Int
    BY <1>4 DEF Undefined, DataAddress, Typed, LabelsTyped
  <2>2. ASSUME NEW x \in Int
        PROVE  DataParts(x)[1] \in Int /\ DataParts(x)[2] \in Int
    <3> DEFINE hi == x \div DataSplit
               lo == x % DataSplit
    <3>1. /\ DataSplit \in Nat \ {0} /\ Low \in Nat \ {0} /\ Modulus \in Nat \ {0}
          /\ DataSplit <= Modulus
      BY WidthsAssumption, Sizes
    <3>2. hi \in Int /\ lo \in Int
      BY <3>1, DivMod
    <3>3. Lower(lo) \in Int
      BY <3>1, <3>2 DEF Lower
    <3>4. (hi + 1) % (Modulus \div DataSplit) \in Int
      <4>1. Modulus \div DataSplit \in Nat \ {0}
        BY <3>1, QuotientOfLarger
      <4> HIDE DEF hi
      <4> QED
        BY <3>2, <4>1, DivMod
    <3> HIDE DEF hi, lo
    <3>5. DataParts(x)[1] = (IF 2 * lo >= DataSplit THEN (hi + 1) % (Modulus \div DataSplit) ELSE hi)
          /\ DataParts(x)[2] = Lower(lo)
      BY DEF DataParts, hi, lo
    <3> QED
      BY <3>2, <3>3, <3>4, <3>5
  <2> QED
    BY <1>4, <2>1, <2>2 DEF ImmediateAt
<1>5. ASSUME l.k \in Jumps PROVE Field(l.k, calcJump(l.to, i)) \in Int
  BY <1>1, <1>5, FieldHolds
<1> QED
  BY <1>1, <1>3, <1>4, <1>5 DEF ImmediateAt, Lines

\* Every step keeps the types.
LEMMA TypesKept == Typed /\ [Next]_vars => Typed'
<1> SUFFICES ASSUME Typed, [Next]_vars PROVE Typed'
  OBVIOUS
<1> USE DEF ListsTyped, LabelsTyped, ImageTyped
<1>0. /\ Len(text) \in Nat /\ DOMAIN text = 1 .. Len(text)
      /\ Len(ic) \in Nat /\ DOMAIN ic = 1 .. Len(ic)
      /\ Len(source) \in Nat /\ DOMAIN source = 1 .. Len(source)
      /\ Len(dc) \in Nat /\ Len(image) \in Nat
      /\ \A m \in 1 .. Len(text) : text[m] \in Lines
      /\ \A m \in 1 .. Len(ic) : ic[m] \in Lines
  BY LenProperties, ElementOfSeq, Source DEF Typed, DataTyped
<1>1. CASE Expand
  <2>1. expand_ins(source[at], at) \in Seq(Lines)
    BY <1>0, <1>1, ExpansionOf DEF Expand, Typed
  <2>2. text' \in Seq(Lines)
    BY <1>1, <2>1, ConcatProperties DEF Expand, Typed
  <2> QED
    BY <1>1, <2>2 DEF Expand, Typed, DataTyped, data
<1>2. CASE InsertZeros
  <2>1. text' \in Seq(Lines)
    BY <1>2, Inserted DEF InsertZeros, Typed
  <2> QED
    BY <1>2, <2>1 DEF InsertZeros, Typed, DataTyped, data
<1>3. CASE FilterLabel
  <2>1. ip' \in [DOMAIN ip' -> Nat] /\ dp' \in [DOMAIN dp' -> Nat]
    <3>1. ip \in [DOMAIN ip -> Nat] /\ dp \in [DOMAIN dp -> Nat]
      BY DEF Typed
    <3>2. \A l : /\ With(ip, l, Len(ic)) \in [DOMAIN With(ip, l, Len(ic)) -> Nat]
                 /\ With(ip, l, Len(dc)) \in [DOMAIN With(ip, l, Len(dc)) -> Nat]
                 /\ With(dp, l, Len(dc)) \in [DOMAIN With(dp, l, Len(dc)) -> Nat]
      BY <1>0, <3>1, WithLabel
    <3>3. /\ \E l : ip' = With(ip, l, Len(ic)) \/ ip' = With(ip, l, Len(dc))
          /\ dp' = dp \/ \E l : dp' = With(dp, l, Len(dc))
      BY <1>3 DEF FilterLabel
    <3> QED
      BY <3>1, <3>2, <3>3
  <2> QED
    BY <1>3, <2>1 DEF FilterLabel, Filtering, Typed, DataTyped
<1>4. CASE FilterDatum
  <2>1. text[at].from \in Nat
    BY <1>0, <1>4 DEF FilterDatum, Filtering, Typed, Lines
  <2>2. DataTyped'
    <3> DEFINE l == text[at]
    <3>1. /\ AddWord(dc, l.from) \in Seq(Cells) \ {<<>>}
          /\ AddHalf(dc, half_num, l.from) \in Seq(Cells) \ {<<>>}
          /\ AddByte(dc, byte_num, l.from) \in Seq(Cells) \ {<<>>}
      BY <2>1, DataTypes DEF Typed
    <3>2. /\ dc' = AddWord(dc, l.from) \/ dc' = AddHalf(dc, half_num, l.from)
             \/ dc' = AddByte(dc, byte_num, l.from)
          /\ half_num' \in {half_num, 1 - half_num}
          /\ byte_num' \in {byte_num, (byte_num + 1) % 4}
      BY <1>4 DEF FilterDatum
    <3>3. half_num \in 0 .. 1 /\ byte_num \in 0 .. 3
      BY DEF Typed, DataTyped
    <3>4. half_num' \in 0 .. 1 /\ byte_num' \in 0 .. 3
      BY <3>2, <3>3
    <3>5. dc' \in Seq(Cells) /\ dc' # <<>>
      BY <3>1, <3>2
    <3> QED
      BY <3>4, <3>5 DEF DataTyped
  <2> QED
    BY <1>4, <2>2 DEF FilterDatum, Filtering, Typed
<1>5. CASE FilterRest
  <2>1. ic' \in Seq(Lines)
    BY <1>0, <1>5, AppendProperties DEF FilterRest, Filtering, Typed
  <2> QED
    BY <1>5, <2>1 DEF FilterRest, Filtering, Typed, DataTyped, data
<1>6. CASE Filtered
  BY <1>6 DEF Filtered, Typed, DataTyped, data
<1>7. CASE Interpret
  <2>1. image' \in Seq(Words)
    <3>1. ic[at] \in Lines /\ at - 1 \in Int
      BY <1>0, <1>7 DEF Interpret, Typed
    <3>2. CASE ~Undefined(ic[at])
      <4> DEFINE w == [line |-> ic[at], imm |-> ImmediateAt(ic[at], at - 1)]
      <4>1. w \in Words
        BY <3>1, <3>2, ImmediateTypes DEF Words
      <4>2. image' = image \/ image' = Append(image, w)
        BY <1>7 DEF Interpret
      <4>3. image \in Seq(Words)
        BY DEF Typed
      <4> HIDE DEF w
      <4>4. Append(image, w) \in Seq(Words)
        BY <4>1, <4>3, AppendProperties
      <4> QED
        BY <4>2, <4>3, <4>4
    <3>3. CASE Undefined(ic[at])
      BY <1>7, <3>3 DEF Interpret, Typed
    <3> QED
      BY <3>2, <3>3
  <2> QED
    BY <1>7, <2>1, SMTT(30) DEF Interpret, Typed, DataTyped, data
<1>8. CASE WriteHeaders
  BY <1>8 DEF WriteHeaders, StartAddress, Typed, DataTyped, data
<1>9. CASE UNCHANGED vars
  BY <1>9 DEF vars, data, Typed, DataTyped
<1> QED
  BY <1>1, <1>2, <1>3, <1>4, <1>5, <1>6, <1>7, <1>8, <1>9 DEF Next

-----------------------------------------------------------------------------
(* What __pre_mapfilt keeps.                                               *)

IsCode(l) == l.k = "label" /\ l.to \notin DataLabels

\* f tells where in the text the instructions of ic stand: the label x, in line
\* m, is between those before its position and those from there on.
Splits(f, p, m) == \A a \in 1 .. Len(ic) : IF a <= p THEN f[a] < m ELSE f[a] > m
Stands(f, x, m) == x \in DOMAIN ip /\ ip[x] \in 0 .. Len(ic) /\ Splits(f, ip[x], m)

\* ic is the instructions of the first K lines of the text, in their order.
Keeps(f, K) ==
  /\ f \in [1 .. Len(ic) -> 1 .. K]
  /\ \A a, b \in 1 .. Len(ic) : a < b => f[a] < f[b]
  /\ \A a \in 1 .. Len(ic) : ic[a] = text[f[a]] /\ IsInstruction(ic[a])
  /\ \A m \in 1 .. K : IsInstruction(text[m]) => \E a \in 1 .. Len(ic) : f[a] = m
  /\ \A m \in 1 .. K : IsCode(text[m]) => Stands(f, text[m].to, m)

Kept(K) ==
  /\ \E f : Keeps(f, K)
  /\ \A x \in DOMAIN ip : \E m \in 1 .. K : IsLabel(text[m], x)
  /\ Len(ic) <= K /\ Len(dc) <= K /\ \A x \in DOMAIN dp : dp[x] <= Len(dc)

\* Every label is in one line of the text.
LEMMA LabelsApart ==
  ASSUME Typed, Complete(text), NEW m \in DOMAIN text, NEW n \in DOMAIN text,
         text[m].k = "label", text[n].k = "label", text[m].to = text[n].to
  PROVE  m = n
<1>1. /\ Len(text) \in Nat /\ DOMAIN text = 1 .. Len(text)
      /\ Len(source) \in Nat /\ DOMAIN source = 1 .. Len(source)
  BY LenProperties, Source DEF Typed, ListsTyped
<1>2. /\ LabelAt(text, m) /\ LabelAt(text, n)
      /\ text[m].from \in DOMAIN source /\ text[n].from \in DOMAIN source
  BY DEF Complete
<1>3. text[m].from = text[n].from
  BY <1>2, Source DEF LabelAt, IsLabel, Compiled
<1>4. (n < m => text[n].from < text[m].from) /\ (m < n => text[m].from < text[n].from)
  BY <1>2 DEF LabelAt
<1> QED
  BY <1>1, <1>2, <1>3, <1>4

\* A line that is no instruction leaves ic as it is.
LEMMA KeepsSame ==
  ASSUME Typed, NEW K \in DOMAIN text, NEW f, Keeps(f, K - 1),
         ~IsInstruction(text[K]), UNCHANGED <<text, ic>>,
         \A m \in 1 .. K : IsCode(text[m]) => Stands(f, text[m].to, m)'
  PROVE  Keeps(f, K)'
<1>1. /\ Len(text) \in Nat /\ DOMAIN text = 1 .. Len(text) /\ Len(ic) \in Nat
  BY LenProperties DEF Typed, ListsTyped
<1>2. f \in [1 .. Len(ic) -> 1 .. K]
  BY <1>1 DEF Keeps
<1>3. \A m \in 1 .. K : IsInstruction(text[m]) => \E a \in 1 .. Len(ic) : f[a] = m
  BY <1>1 DEF Keeps
<1>4. (\A m \in 1 .. K : IsCode(text[m]) => Stands(f, text[m].to, m))'
  OBVIOUS
<1>5. /\ \A a, b \in 1 .. Len(ic) : a < b => f[a] < f[b]
      /\ \A a \in 1 .. Len(ic) : ic[a] = text[f[a]] /\ IsInstruction(ic[a])
  BY DEF Keeps
<1> QED
  BY <1>2, <1>3, <1>4, <1>5 DEF Keeps

\* An instruction is put behind the others.
LEMMA KeepsMore ==
  ASSUME Typed, NEW K \in DOMAIN text, NEW f, Keeps(f, K - 1),
         IsInstruction(text[K]), UNCHANGED <<text, ip>>, ic' = Append(ic, text[K])
  PROVE  \E g : Keeps(g, K)'
<1> DEFINE L == Len(ic)
<1>0. PICK g : g = [a \in 1 .. (L + 1) |-> IF a <= L THEN f[a] ELSE K]
  OBVIOUS
<1>1. /\ Len(text) \in Nat /\ DOMAIN text = 1 .. Len(text) /\ L \in Nat
      /\ ic \in Seq(Lines) /\ text[K] \in Lines
  BY LenProperties, ElementOfSeq DEF Typed, ListsTyped
<1>2. /\ Len(ic') = L + 1 /\ ic'[L + 1] = text[K]
      /\ \A a \in 1 .. L : ic'[a] = ic[a]
  BY <1>1, AppendProperties
<1>3. /\ f \in [1 .. L -> 1 .. (K - 1)]
      /\ \A a, b \in 1 .. L : a < b => f[a] < f[b]
      /\ \A a \in 1 .. L : ic[a] = text[f[a]] /\ IsInstruction(ic[a])
      /\ \A m \in 1 .. (K - 1) : IsInstruction(text[m]) => \E a \in 1 .. L : f[a] = m
      /\ \A m \in 1 .. (K - 1) : IsCode(text[m]) => Stands(f, text[m].to, m)
  BY DEF Keeps
<1>11. K \in Nat \ {0} /\ \A m \in 1 .. K : m \in 1 .. (K - 1) \/ m = K
  BY <1>1
<1>12. \A a \in 1 .. (L + 1) : a \in 1 .. L \/ a = L + 1
  BY <1>1
<1> HIDE DEF L
<1>13. \A a \in 1 .. L : f[a] \in 1 .. (K - 1) /\ a \in 1 .. (L + 1) /\ a <= L /\ a \in Int
  BY <1>1, <1>3
<1>14. \A a \in 1 .. L : g[a] = f[a]
  BY <1>0, <1>13
<1>15. L + 1 \in 1 .. (L + 1) /\ ~(L + 1 <= L)
  BY <1>1
<1>16. g[L + 1] = K
  BY <1>0, <1>15
<1>17. g \in [1 .. (L + 1) -> 1 .. K]
  <2>1. K \in 1 .. K /\ \A a \in 1 .. L : f[a] \in 1 .. K
    BY <1>11, <1>13
  <2>2. \A a \in 1 .. (L + 1) : (IF a <= L THEN f[a] ELSE K) \in 1 .. K
    BY <1>12, <1>15, <2>1
  <2> QED
    BY <2>2, <1>0
<1>5. \A a, b \in 1 .. (L + 1) : a < b => g[a] < g[b]
  <2> SUFFICES ASSUME NEW a \in 1 .. (L + 1), NEW b \in 1 .. (L + 1), a < b
               PROVE  g[a] < g[b]
    OBVIOUS
  <2>1. a \in 1 .. L
    BY <1>1, <1>12
  <2>2. CASE b \in 1 .. L
    BY <2>1, <2>2, <1>3, <1>14
  <2>3. CASE b = L + 1
    BY <2>1, <2>3, <1>11, <1>13, <1>14, <1>16
  <2> QED
    BY <2>2, <2>3, <1>12
<1>6. \A a \in 1 .. (L + 1) : ic'[a] = text[g[a]] /\ IsInstruction(ic'[a])
  BY <1>2, <1>3, <1>12, <1>14, <1>16
<1>7. \A m \in 1 .. K : IsInstruction(text[m]) => \E a \in 1 .. (L + 1) : g[a] = m
  BY <1>3, <1>11, <1>13, <1>14, <1>15, <1>16
<1>8. ASSUME NEW m \in 1 .. K, IsCode(text[m]), NEW x, x = text[m].to
      PROVE  Stands(g, x, m)'
  <2>1. m \in 1 .. (K - 1)
    BY <1>8, <1>11 DEF IsCode, IsInstruction
  <2>2. Stands(f, x, m)
    BY <2>1, <1>3, <1>8
  <2>3. /\ x \in DOMAIN ip /\ ip[x] \in 0 .. L
        /\ \A a \in 1 .. L : IF a <= ip[x] THEN f[a] < m ELSE f[a] > m
    BY <2>2 DEF Stands, Splits, L
  <2>4. ip[x] \in 0 .. (L + 1) /\ ~(L + 1 <= ip[x]) /\ K > m
    BY <2>1, <2>3, <1>1, <1>11
  <2>5. ASSUME NEW a \in 1 .. (L + 1)
        PROVE  IF a <= ip[x] THEN g[a] < m ELSE g[a] > m
    <3>1. CASE a \in 1 .. L
      BY <3>1, <2>3, <1>14
    <3>2. CASE a = L + 1
      BY <3>2, <2>4, <1>16
    <3> QED
      BY <3>1, <3>2, <1>12
  <2> QED
    BY <1>2, <2>3, <2>4, <2>5 DEF Stands, Splits
<1>9. Keeps(g, K)'
  <2>1. /\ \A m \in 1 .. K : IsInstruction(text'[m]) => \E a \in 1 .. (L + 1) : g[a] = m
        /\ \A m \in 1 .. K : IsCode(text'[m]) => Stands(g, text[m].to, m)'
    BY <1>7, <1>8
  <2>2. \A a \in 1 .. (L + 1) : ic'[a] = text'[g[a]] /\ IsInstruction(ic'[a])
    BY <1>6
  <2>3. Len(ic') = L + 1
    BY <1>2
  <2> QED
    BY <1>5, <1>17, <2>1, <2>2, <2>3 DEF Keeps
<1> QED
  BY <1>9

\* What a list is to the source it stays while the source does.
LEMMA Stays ==
  ASSUME NEW t, UNCHANGED source, text' = t
  PROVE  /\ Complete(t) => Complete(text)'
         /\ \A N : Expanded(t, N) => Expanded(text, N)'
<1>1. Ordered(t) => Ordered(text)'
  BY DEF Ordered
<1>2. Paired(t) => Paired(text)'
  BY DEF Paired, LiAt, CallAt
<1>3. \A n : (Emits(n) <=> Emits(n)') /\ ZerosOf(n) = ZerosOf(n)'
  BY DEF Emits, ZerosOf, TakesZeros
<1>4. \A m : LabelAt(t, m) => LabelAt(text, m)'
  BY <1>3 DEF LabelAt
<1>5. ASSUME Complete(t)
      PROVE  Complete(text)'
  <2>1. /\ Len(text') <= 2 * Len(source') + pre_zero
        /\ Ordered(text)' /\ Paired(text)'
    BY <1>1, <1>2, <1>5 DEF Complete
  <2>2. \A m \in DOMAIN text' :
          /\ text'[m].from \in DOMAIN source'
          /\ IsInstruction(text'[m]) => Emits(text[m].from)'
          /\ text'[m].k = "label" => LabelAt(text, m)'
    <3> TAKE m \in DOMAIN text'
    <3>1. /\ t[m].from \in DOMAIN source
          /\ IsInstruction(t[m]) => Emits(t[m].from)
          /\ t[m].k = "label" => LabelAt(t, m)
      BY <1>5 DEF Complete
    <3>2. Emits(t[m].from) => Emits(text[m].from)'
      BY DEF Emits, TakesZeros
    <3> QED
      BY <3>1, <3>2, <1>4
  <2>3. \A n \in DOMAIN source' :
          /\ Emits(n)' => \E m \in DOMAIN text' : text'[m].from = n /\ IsInstruction(text'[m])
          /\ source'[n].k = "label" =>
               \E m \in DOMAIN text' : text'[m].from = n /\ text'[m].k = "label"
    BY <1>3, <1>5 DEF Complete
  <2> QED
    BY <2>1, <2>2, <2>3 DEF Complete
<1>6. ASSUME NEW N, Expanded(t, N)
      PROVE  Expanded(text, N)'
  BY <1>1, <1>2, <1>6 DEF Expanded
<1> QED
  BY <1>5, <1>6

\* What is known when a line is filtered.
Reads(K) ==
  /\ Typed /\ Complete(text) /\ K = at /\ K \in DOMAIN text /\ Kept(K - 1)

\* The numbers and lines in it.
LEMMA ReadsFacts ==
  ASSUME NEW K, Reads(K)
  PROVE  /\ Len(text) \in Nat /\ DOMAIN text = 1 .. Len(text) /\ K \in 1 .. Len(text)
         /\ Len(ic) \in Nat /\ Len(dc) \in Nat
         /\ ic \in Seq(Lines) /\ text[K] \in Lines
         /\ \A m \in 1 .. K : m \in 1 .. (K - 1) \/ m = K
         /\ \A m \in 1 .. (K - 1) : m \in 1 .. K /\ m \in DOMAIN text /\ m # K
BY LenProperties, ElementOfSeq DEF Reads, Typed, ListsTyped, DataTyped

\* A label is behind the instructions there are, before those to come.
LEMMA LabelKept ==
  ASSUME NEW K, Reads(K), FilterLabel
  PROVE  Kept(K)'
<1> DEFINE l == text[K].to
<1>1. /\ UNCHANGED <<text, ic, dc>> /\ text[K].k = "label"
      /\ ip \in [DOMAIN ip -> Nat] /\ dp \in [DOMAIN dp -> Nat]
      /\ \/ l \in DataLabels /\ ip' = With(ip, l, Len(dc)) /\ dp' = With(dp, l, Len(dc))
         \/ l \notin DataLabels /\ ip' = With(ip, l, Len(ic)) /\ dp' = dp
  BY DEF FilterLabel, Reads, Typed, LabelsTyped
<1>2. PICK f : Keeps(f, K - 1)
  BY DEF Reads, Kept
<1>3. /\ DOMAIN ip' = DOMAIN ip \cup {l}
      /\ \A x \in DOMAIN ip : x # l => ip'[x] = ip[x]
      /\ l \notin DataLabels => ip'[l] = Len(ic)
  <2>1. PICK p : p \in Nat /\ ip' = With(ip, l, p) /\ (l \notin DataLabels => p = Len(ic))
    BY <1>1, ReadsFacts
  <2> HIDE DEF l
  <2>2. /\ DOMAIN With(ip, l, p) = DOMAIN ip \cup {l}
        /\ \A x \in DOMAIN ip \cup {l} : With(ip, l, p)[x] = IF x = l THEN p ELSE ip[x]
    BY DEF With
  <2> QED
    BY <2>1, <2>2
<1>4. ASSUME NEW m \in 1 .. K, IsCode(text[m])
      PROVE  Stands(f, text[m].to, m)'
  <2>1. PICK x : x = text[m].to
    OBVIOUS
  <2>2. CASE m \in 1 .. (K - 1)
    <3>1. Stands(f, x, m)
      BY <1>2, <1>4, <2>1, <2>2 DEF Keeps
    <3>2. x # l
      BY <1>1, <1>4, <2>1, <2>2, ReadsFacts, LabelsApart DEF IsCode, Reads
    <3>3. Stands(f, x, m)'
      BY <1>1, <1>3, <3>1, <3>2 DEF Stands, Splits
    <3> QED
      BY <3>3, <2>1, <1>1
  <2>3. CASE m = K
    <3>1. x \in DOMAIN ip' /\ ip'[x] = Len(ic)
      BY <1>3, <1>4, <2>1, <2>3 DEF IsCode
    <3>2. \A a \in 1 .. Len(ic) : f[a] < m /\ a <= Len(ic)
      <4>1. f \in [1 .. Len(ic) -> 1 .. (K - 1)]
        BY <1>2 DEF Keeps
      <4> QED
        BY <4>1, <2>3, ReadsFacts
    <3>3. Stands(f, x, m)'
      BY <1>1, <3>1, <3>2, ReadsFacts DEF Stands, Splits
    <3> QED
      BY <3>3, <2>1, <1>1
  <2> QED
    BY <2>2, <2>3, ReadsFacts
<1>5. Keeps(f, K)'
  BY <1>1, <1>2, <1>4, KeepsSame DEF Reads, IsInstruction
<1>6. ASSUME NEW x \in DOMAIN ip'
      PROVE  \E m \in 1 .. K : IsLabel(text[m], x)
  <2>1. CASE x = l
    BY <2>1, <1>1, ReadsFacts DEF IsLabel
  <2>2. CASE x \in DOMAIN ip
    BY <2>2, ReadsFacts DEF Reads, Kept
  <2> QED
    BY <2>1, <2>2, <1>3
<1>7. Len(dc) <= K /\ \A x \in DOMAIN dp' : dp'[x] <= Len(dc)
  <2>1. Len(dc) <= K - 1 /\ \A x \in DOMAIN dp : dp[x] <= Len(dc)
    BY DEF Reads, Kept
  <2>2. Len(dc) <= Len(dc) /\ Len(dc) <= K
    BY <2>1, ReadsFacts
  <2> HIDE DEF l
  <2>3. CASE dp' = With(dp, l, Len(dc))
    <3>1. /\ DOMAIN With(dp, l, Len(dc)) = DOMAIN dp \cup {l}
          /\ \A x \in DOMAIN dp \cup {l} :
               With(dp, l, Len(dc))[x] = IF x = l THEN Len(dc) ELSE dp[x]
      BY DEF With
    <3> QED
      BY <2>1, <2>2, <2>3, <3>1
  <2> QED
    BY <2>1, <2>2, <2>3, <1>1
<1>8. Len(ic) <= K
  BY ReadsFacts DEF Reads, Kept
<1> HIDE DEF l
<1> QED
  BY <1>1, <1>5, <1>6, <1>7, <1>8 DEF Kept

\* A datum is no instruction.
LEMMA DatumKept ==
  ASSUME NEW K, Reads(K), FilterDatum
  PROVE  Kept(K)'
<1>1. UNCHANGED <<text, ic, ip, dp>> /\ ~IsInstruction(text[K]) /\ text[K].k # "label"
  BY DEF FilterDatum, Reads, IsInstruction, IsDatum
<1>2. PICK f : Keeps(f, K - 1)
  BY DEF Reads, Kept
<1>3. ASSUME NEW m \in 1 .. K, IsCode(text[m])
      PROVE  Stands(f, text[m].to, m)'
  <2>1. Stands(f, text[m].to, m)
    BY <1>1, <1>2, <1>3, ReadsFacts DEF Keeps, IsCode
  <2> QED
    BY <1>1, <2>1 DEF Stands, Splits
<1>4. Keeps(f, K)'
  BY <1>1, <1>2, <1>3, KeepsSame DEF Reads
<1>5. \A x \in DOMAIN ip : \E m \in 1 .. K : IsLabel(text[m], x)
  BY ReadsFacts DEF Reads, Kept
<1>6. Len(dc) \in Nat /\ Len(dc') \in Nat /\ Len(dc) <= Len(dc') /\ Len(dc') <= Len(dc) + 1
  <2>1. text[K].from \in Nat
    BY ReadsFacts DEF Lines
  <2>2. PICK d : d = dc'
    OBVIOUS
  <2>3. d \in Seq(Cells) /\ Len(dc) <= Len(d) /\ Len(d) <= Len(dc) + 1
    <3>1. \/ d = AddWord(dc, text[K].from) \/ d = AddHalf(dc, half_num, text[K].from)
          \/ d = AddByte(dc, byte_num, text[K].from)
      BY <2>2 DEF FilterDatum, Reads
    <3> QED
      BY <2>1, <3>1, DataTypes DEF Reads, Typed
  <2> QED
    BY <2>2, <2>3, LenProperties, ReadsFacts
<1>7. Len(dc') <= K /\ \A x \in DOMAIN dp : dp[x] <= Len(dc')
  <2>1. Len(dc) <= K - 1 /\ \A x \in DOMAIN dp : dp[x] <= Len(dc) /\ dp[x] \in Nat
    BY DEF Reads, Kept, Typed, LabelsTyped
  <2> QED
    BY <1>6, <2>1, ReadsFacts
<1>8. Len(ic) <= K
  BY ReadsFacts DEF Reads, Kept
<1> QED
  BY <1>1, <1>4, <1>5, <1>7, <1>8 DEF Kept

\* Of the other lines, the instructions are taken.
LEMMA RestKept ==
  ASSUME NEW K, Reads(K), FilterRest
  PROVE  Kept(K)'
<1>1. /\ UNCHANGED <<text, ip, dp, dc>> /\ text[K].k # "label" /\ ~IsDatum(text[K])
      /\ ic' = IF text[K].k = "dot" THEN ic ELSE Append(ic, text[K])
  BY DEF FilterRest, Reads, data
<1>2. PICK f : Keeps(f, K - 1)
  BY DEF Reads, Kept
<1>3. \E g : Keeps(g, K)'
  <2>1. CASE text[K].k = "dot"
    <3>1. ic' = ic /\ ~IsInstruction(text[K])
      BY <1>1, <2>1 DEF IsInstruction
    <3>2. ASSUME NEW m \in 1 .. K, IsCode(text[m])
          PROVE  Stands(f, text[m].to, m)'
      <4>1. Stands(f, text[m].to, m)
        BY <1>1, <1>2, <3>2, ReadsFacts DEF Keeps, IsCode
      <4> QED
        BY <1>1, <3>1, <4>1 DEF Stands, Splits
    <3>3. Keeps(f, K)'
      BY <1>1, <1>2, <3>1, <3>2, KeepsSame DEF Reads
    <3> QED
      BY <3>3
  <2>2. CASE text[K].k # "dot"
    <3>1. ic' = Append(ic, text[K]) /\ IsInstruction(text[K])
      BY <1>1, <2>2 DEF IsInstruction
    <3> QED
      BY <1>1, <1>2, <3>1, KeepsMore DEF Reads
  <2> QED
    BY <2>1, <2>2
<1>4. \A x \in DOMAIN ip : \E m \in 1 .. K : IsLabel(text[m], x)
  BY ReadsFacts DEF Reads, Kept
<1>5. Len(dc) <= K /\ \A x \in DOMAIN dp : dp[x] <= Len(dc)
  <2>1. Len(dc) <= K - 1 /\ \A x \in DOMAIN dp : dp[x] <= Len(dc)
    BY DEF Reads, Kept
  <2> QED
    BY <2>1, ReadsFacts
<1>6. Len(ic') <= K
  <2>1. Len(ic) <= K - 1
    BY DEF Reads, Kept
  <2>2. Len(Append(ic, text[K])) = Len(ic) + 1
    BY ReadsFacts, AppendProperties
  <2> QED
    BY <1>1, <2>1, <2>2, ReadsFacts
<1> QED
  BY <1>1, <1>3, <1>4, <1>5, <1>6 DEF Kept

-----------------------------------------------------------------------------
(* The inductive invariant: what holds in each pass of what the passes     *)
(* before it have left.                                                    *)

\* An image as far as it has been made.
Made ==
  /\ at <= Len(ic) + 1 /\ Len(image) = at - 1
  /\ \A a \in 1 .. Len(image) :
       /\ image[a] = [line |-> ic[a], imm |-> ImmediateAt(ic[a], a - 1)]
       /\ ~Undefined(ic[a]) /\ ~Refused(ic[a], a - 1)
  /\ pass = "done" =>
       at = Len(ic) + 1 /\ "main" \in DOMAIN ip /\ PC_STARTADDR = StartAddress

WhileExpanding ==
  pass = "expand" =>
    /\ at <= Len(source) + 1 /\ Expanded(text, at - 1)
    /\ ic = <<>> /\ dc = <<>> /\ DOMAIN ip = {} /\ DOMAIN dp = {}
WhileFiltering == pass = "filter" => at <= Len(text) + 1 /\ Kept(at - 1)
WhileInterpreting == pass \notin {"expand", "filter"} => Kept(Len(text)) /\ Made

Passes ==
  /\ pass # "expand" => Complete(text)
  /\ pass \in {"expand", "filter"} => image = <<>>
  /\ WhileExpanding /\ WhileFiltering /\ WhileInterpreting
Inv == Typed /\ Passes

\* What the lists hold stays while they do.
LEMMA Remains ==
  ASSUME UNCHANGED <<source, text, ic, ip, dc, dp>>, NEW K, Complete(text), Kept(K)
  PROVE  Complete(text)' /\ Kept(K)'
<1>1. Complete(text)'
  <2>1. PICK t : t = text
    OBVIOUS
  <2> QED
    BY <2>1, Stays
<1>2. \A f : Keeps(f, K) => Keeps(f, K)'
  BY DEF Keeps, Stands, Splits
<1> QED
  BY <1>1, <1>2 DEF Kept

\* Immediates are made from positions only.
LEMMA SameImmediates ==
  ASSUME UNCHANGED <<ip, dp>>
  PROVE  \A l, i : /\ ImmediateAt(l, i) = ImmediateAt(l, i)'
                   /\ Undefined(l) = Undefined(l)' /\ Refused(l, i) = Refused(l, i)'
BY DEF ImmediateAt, Field, calcJump, DataAddress, Undefined, Refused

\* Interpret puts a word behind those there are.
LEMMA WordMade ==
  ASSUME Typed, Made, Interpret
  PROVE  Made'
<1>1. \A l, i : /\ ImmediateAt(l, i) = ImmediateAt(l, i)'
                /\ Undefined(l) = Undefined(l)' /\ Refused(l, i) = Refused(l, i)'
  BY SameImmediates DEF Interpret, data
<1>2. /\ image \in Seq(Words) /\ Len(image) = at - 1 /\ at \in Nat \ {0} /\ Len(image) \in Nat
      /\ at <= Len(ic) /\ Len(ic) \in Nat /\ ic' = ic /\ pass' # "done"
      /\ \A a \in 1 .. Len(image) :
           /\ image[a] = [line |-> ic[a], imm |-> ImmediateAt(ic[a], a - 1)]
           /\ ~Undefined(ic[a]) /\ ~Refused(ic[a], a - 1)
  BY LenProperties DEF Typed, ImageTyped, ListsTyped, Made, Interpret
<1>3. CASE Undefined(ic[at]) \/ Refused(ic[at], at - 1)
  <2>1. UNCHANGED <<at, image>>
    BY <1>3 DEF Interpret
  <2> QED
    BY <1>1, <1>2, <2>1 DEF Made
<1>4. CASE ~Undefined(ic[at]) /\ ~Refused(ic[at], at - 1)
  <2>1. PICK w : w = [line |-> ic[at], imm |-> ImmediateAt(ic[at], at - 1)]
    OBVIOUS
  <2>2. image' = Append(image, w) /\ at' = at + 1
    BY <1>4, <2>1 DEF Interpret
  <2>3. w \in Words
    <3>1. ic[at] \in Lines
      BY <1>2, ElementOfSeq DEF Typed, ListsTyped
    <3>2. ImmediateAt(ic[at], at - 1) \in Int
      BY <1>2, <1>4, <3>1, ImmediateTypes
    <3> QED
      BY <2>1, <3>1, <3>2 DEF Words
  <2>4. /\ Len(image') = at /\ \A a \in 1 .. Len(image) : image'[a] = image[a]
        /\ image'[at] = w
    <3>1. /\ Len(Append(image, w)) = Len(image) + 1
          /\ \A a \in 1 .. Len(image) : Append(image, w)[a] = image[a]
          /\ Append(image, w)[Len(image) + 1] = w
      BY <1>2, <2>3, AppendProperties
    <3>2. Len(image) + 1 = at
      BY <1>2
    <3> QED
      BY <2>2, <3>1, <3>2
  <2>5. ASSUME NEW a \in 1 .. at
        PROVE  /\ image'[a] = [line |-> ic[a], imm |-> ImmediateAt(ic[a], a - 1)]
               /\ ~Undefined(ic[a]) /\ ~Refused(ic[a], a - 1)
    <3>1. CASE a \in 1 .. Len(image)
      BY <3>1, <2>4, <1>2
    <3>2. CASE a = at
      BY <3>2, <2>1, <2>4, <1>4
    <3> QED
      BY <3>1, <3>2, <1>2
  <2>6. at' <= Len(ic') + 1 /\ Len(image') = at' - 1
    BY <1>2, <2>2, <2>4
  <2> QED
    BY <1>1, <1>2, <2>4, <2>5, <2>6 DEF Made
<1> QED
  BY <1>3, <1>4

\* Nothing has been read at the start.
LEMMA InvInit == Init => Inv
<1> SUFFICES ASSUME Init PROVE Inv
  OBVIOUS
<1>1. Typed
  <2>1. /\ <<>> \in Seq(Lines) /\ <<>> \in Seq(Cells) /\ <<>> \in Seq(Words)
        /\ 1 \in Nat \ {0} /\ 0 \in 0 .. 1 /\ 0 \in 0 .. 3 /\ -1 \in Int
    OBVIOUS
  <2>2. /\ ip \in [DOMAIN ip -> Nat] /\ dp \in [DOMAIN dp -> Nat]
    BY DEF Init
  <2> QED
    BY <2>1, <2>2 DEF Init, Typed, ListsTyped, DataTyped, LabelsTyped, ImageTyped
<1>2. Len(source) \in Nat
  BY <1>1, Source
<1>3. Expanded(<<>>, 0)
  BY DEF Expanded, Ordered, Paired
<1>4. Passes
  BY <1>2, <1>3 DEF Init, Passes, WhileExpanding, WhileFiltering, WhileInterpreting
<1> QED
  BY <1>1, <1>4 DEF Inv

\* Every pass leaves to the next what it is to have.
LEMMA PassesKept == Inv /\ [Next]_vars => Passes'
<1> SUFFICES ASSUME Inv, [Next]_vars PROVE Passes'
  OBVIOUS
<1> USE DEF WhileExpanding, WhileFiltering, WhileInterpreting
<1>0. /\ Len(text) \in Nat /\ DOMAIN text = 1 .. Len(text)
      /\ Len(ic) \in Nat /\ DOMAIN ic = 1 .. Len(ic)
      /\ Len(source) \in Nat /\ DOMAIN source = 1 .. Len(source)
      /\ Len(dc) \in Nat /\ Len(image) \in Nat /\ at \in Nat \ {0}
      /\ Typed /\ Typed' /\ Passes
  BY TypesKept, LenProperties, Source DEF Inv, Typed, ListsTyped, DataTyped, ImageTyped
<1>1. CASE Expand
  <2>1. PICK N : N = at
    OBVIOUS
  <2>2. PICK t : t = text \o expand_ins(source[N], N)
    OBVIOUS
  <2>3. /\ N \in DOMAIN source /\ Expanded(text, N - 1) /\ text \in Seq(Lines)
        /\ pass = "expand" /\ at' = N + 1 /\ text' = t
        /\ UNCHANGED <<source, pass, ic, ip, dc, dp, image>>
        /\ ic = <<>> /\ dc = <<>> /\ DOMAIN ip = {} /\ DOMAIN dp = {} /\ image = <<>>
    BY <1>0, <1>1, <2>1, <2>2 DEF Expand, Passes, data, Typed, ListsTyped
  <2>4. Expanded(t, N)
    BY <1>0, <2>2, <2>3, ExpandsNext
  <2>5. Expanded(text, N)'
    BY <2>3, <2>4, Stays
  <2>6. at' - 1 = N /\ at' <= Len(source') + 1
    BY <1>0, <2>3
  <2>7. Expanded(text, at - 1)'
    BY <2>5, <2>6
  <2> QED
    BY <2>3, <2>6, <2>7 DEF Passes
<1>2. CASE InsertZeros
  <2>1. /\ Expanded(text, Len(source)) /\ text \in Seq(Lines)
        /\ ic = <<>> /\ dc = <<>> /\ DOMAIN ip = {} /\ DOMAIN dp = {} /\ image = <<>>
        /\ at' = 1 /\ pass' = "filter"
        /\ UNCHANGED <<source, ic, ip, dc, dp, image>>
    <3>1. pass = "expand" /\ at = Len(source) + 1 /\ at - 1 = Len(source)
      BY <1>0, <1>2 DEF InsertZeros, Passes
    <3>2. Expanded(text, at - 1)
      BY <1>0, <3>1 DEF Passes
    <3> QED
      BY <1>0, <1>2, <3>1, <3>2 DEF InsertZeros, Passes, Typed, ListsTyped, data
  <2>2. PICK t : t = text'
    OBVIOUS
  <2>3. Complete(t)
    BY <1>0, <1>2, <2>1, <2>2, WithoutMain, WithMain DEF InsertZeros
  <2>4. Complete(text)'
    BY <2>1, <2>2, <2>3, Stays
  <2>5. Kept(0)'
    <3>1. Len(<<>>) = 0 /\ 1 .. 0 = {} /\ Len(ic') = 0 /\ Len(dc') = 0
      BY <2>1
    <3>2. PICK f : f = [a \in {} |-> 0]
      OBVIOUS
    <3>3. f \in [{} -> {}]
      BY <3>2
    <3>4. Keeps(f, 0)'
      BY <2>1, <3>1, <3>3 DEF Keeps
    <3> QED
      BY <2>1, <3>1, <3>4 DEF Kept
  <2>6. at' - 1 = 0 /\ at' <= Len(text') + 1
    BY <1>0, <2>1, LenProperties DEF Typed, ListsTyped
  <2>7. Kept(at - 1)'
    BY <2>5, <2>6
  <2> QED
    BY <2>1, <2>4, <2>6, <2>7 DEF Passes
<1>3. ASSUME Filtering, UNCHANGED <<source, pass, text, image>>,
             NEW K, K = at, Kept(K)'
      PROVE  Passes'
  <2>1. at' = K + 1 /\ at <= Len(text) /\ pass = "filter" /\ Complete(text) /\ image = <<>>
    BY <1>0, <1>3 DEF Filtering, Passes
  <2>2. Complete(text)'
    <3>1. PICK t : t = text
      OBVIOUS
    <3> QED
      BY <1>3, <2>1, <3>1, Stays
  <2>3. at' - 1 = K /\ at' <= Len(text') + 1
    BY <1>0, <1>3, <2>1
  <2>4. Kept(at - 1)'
    BY <1>3, <2>3
  <2> QED
    BY <1>3, <2>1, <2>2, <2>3, <2>4 DEF Passes
<1>10. ASSUME Filtering
       PROVE  Reads(at)
  BY <1>0, <1>10 DEF Filtering, Passes, Reads
<1>4. CASE FilterLabel
  BY <1>0, <1>3, <1>4, <1>10, LabelKept DEF FilterLabel
<1>5. CASE FilterDatum
  BY <1>0, <1>3, <1>5, <1>10, DatumKept DEF FilterDatum
<1>6. CASE FilterRest
  BY <1>0, <1>3, <1>6, <1>10, RestKept DEF FilterRest
<1>7. CASE Filtered
  <2>1. /\ pass = "filter" /\ at = Len(text) + 1 /\ at' = 1 /\ pass' = "interpret"
        /\ UNCHANGED <<source, text, ic, ip, dc, dp, image>>
        /\ image = <<>> /\ Complete(text)
    BY <1>0, <1>7 DEF Filtered, Passes, data
  <2>2. PICK K : K = Len(text)
    OBVIOUS
  <2>3. Kept(K)
    <3>1. at - 1 = K /\ Kept(at - 1)
      BY <1>0, <2>1, <2>2 DEF Passes
    <3> QED
      BY <3>1
  <2>4. Complete(text)' /\ Kept(K)' /\ K = Len(text')
    BY <2>1, <2>2, <2>3, Remains
  <2>5. Made'
    <3>1. Len(image') = 0 /\ at' <= Len(ic') + 1 /\ 1 .. 0 = {} /\ 1 - 1 = 0
      BY <1>0, <2>1
    <3> QED
      BY <2>1, <3>1 DEF Made
  <2>6. Kept(Len(text))'
    BY <2>4
  <2> QED
    BY <2>1, <2>4, <2>5, <2>6 DEF Passes
<1>12. ASSUME UNCHANGED <<source, text, ic, ip, dc, dp>>, pass = "interpret",
              pass' \notin {"expand", "filter"}, Made'
       PROVE  Passes'
  <2>1. PICK K : K = Len(text)
    OBVIOUS
  <2>2. Complete(text) /\ Kept(K)
    BY <1>0, <1>12, <2>1 DEF Passes
  <2>3. Complete(text)' /\ Kept(K)' /\ K = Len(text')
    BY <1>12, <2>1, <2>2, Remains
  <2>4. Kept(Len(text))'
    BY <2>3
  <2> QED
    BY <1>12, <2>3, <2>4 DEF Passes
<1>8. CASE Interpret
  <2>1. pass = "interpret" /\ Made /\ UNCHANGED <<source, text, ic, ip, dc, dp>>
    BY <1>0, <1>8 DEF Interpret, Passes, data
  <2>2. Made'
    BY <1>0, <1>8, <2>1, WordMade
  <2> QED
    BY <1>8, <1>12, <2>1, <2>2 DEF Interpret
<1>9. CASE WriteHeaders
  <2>1. /\ pass = "interpret" /\ Made /\ at = Len(ic) + 1
        /\ UNCHANGED <<source, at, text, ic, ip, dc, dp, image>>
        /\ \/ "main" \in DOMAIN ip /\ PC_STARTADDR' = StartAddress /\ pass' = "done"
           \/ pass' = "failed"
    BY <1>0, <1>9 DEF WriteHeaders, Passes, Made, data
  <2>2. \A l, i : /\ ImmediateAt(l, i) = ImmediateAt(l, i)'
                  /\ Undefined(l) = Undefined(l)' /\ Refused(l, i) = Refused(l, i)'
    BY <2>1, SameImmediates
  <2>3. StartAddress' = StartAddress
    BY <2>1 DEF StartAddress
  <2>4. Made'
    BY <2>1, <2>2, <2>3 DEF Made
  <2> QED
    BY <1>12, <2>1, <2>4
<1>11. CASE UNCHANGED vars
  <2>1. /\ UNCHANGED <<source, pass, at, text, ic, ip, dc, dp, image, PC_STARTADDR>>
    BY <1>11 DEF vars, data
  <2>2. CASE pass = "expand"
    <3>1. PICK t, N : t = text /\ N = at - 1
      OBVIOUS
    <3>2. Expanded(text, N)' /\ at' - 1 = N
      BY <1>0, <2>1, <2>2, <3>1, Stays DEF Passes
    <3>3. Expanded(text, at - 1)'
      BY <3>2
    <3> QED
      BY <1>0, <2>1, <2>2, <3>3 DEF Passes
  <2>3. CASE pass = "filter"
    <3>1. PICK K : K = at - 1
      OBVIOUS
    <3>2. Complete(text)' /\ Kept(K)' /\ at' - 1 = K
      BY <1>0, <2>1, <2>3, <3>1, Remains DEF Passes
    <3>3. Kept(at - 1)'
      BY <3>2
    <3> QED
      BY <1>0, <2>1, <2>3, <3>2, <3>3 DEF Passes
  <2>4. CASE pass \notin {"expand", "filter"}
    <3>1. PICK K : K = Len(text)
      OBVIOUS
    <3>2. Complete(text)' /\ Kept(K)' /\ Len(text') = K
      BY <1>0, <2>1, <2>4, <3>1, Remains DEF Passes
    <3>3. Kept(Len(text))'
      BY <3>2
    <3>4. \A l, i : /\ ImmediateAt(l, i) = ImmediateAt(l, i)'
                    /\ Undefined(l) = Undefined(l)' /\ Refused(l, i) = Refused(l, i)'
      BY <2>1, SameImmediates
    <3>5. StartAddress' = StartAddress
      BY <2>1 DEF StartAddress
    <3>6. Made
      BY <1>0, <2>4 DEF Passes
    <3>7. Made'
      BY <2>1, <3>4, <3>5, <3>6 DEF Made
    <3> QED
      BY <2>1, <2>4, <3>2, <3>3, <3>7 DEF Passes
  <2> QED
    BY <2>2, <2>3, <2>4
<1> QED
  BY <1>1, <1>2, <1>4, <1>5, <1>6, <1>7, <1>8, <1>9, <1>11 DEF Next

\* Every state of the assembler is in the invariant.
THEOREM AssemblerInvariant == Spec => []Inv
<1>1. Inv /\ [Next]_vars => Inv'
  BY TypesKept, PassesKept DEF Inv
<1> QED
  BY <1>1, InvInit, PTL DEF Spec

-----------------------------------------------------------------------------
(* What the invariant says of the image.                                   *)

\* A word of the image is made of an instruction that stands in the text.
LEMMA WordOf ==
  ASSUME Inv, NEW n \in DOMAIN image
  PROVE  /\ Kept(Len(text)) /\ Complete(text)
         /\ n \in 1 .. Len(image) /\ n \in 1 .. Len(ic) /\ DOMAIN image = 1 .. Len(image)
         /\ Len(image) \in Nat /\ Len(image) <= Len(ic)
         /\ \A a \in 1 .. Len(image) :
              /\ image[a].line = ic[a] /\ image[a].imm = ImmediateAt(ic[a], a - 1)
              /\ ~Undefined(ic[a]) /\ ~Refused(ic[a], a - 1)
<1>1. /\ DOMAIN image = 1 .. Len(image) /\ Len(image) \in Nat /\ Len(ic) \in Nat
      /\ at \in Nat
  BY LenProperties DEF Inv, Typed, ImageTyped, ListsTyped
<1>2. pass \notin {"expand", "filter"}
  BY DEF Inv, Passes
<1>3. Kept(Len(text)) /\ Complete(text) /\ Made
  BY <1>2 DEF Inv, Passes, WhileInterpreting
<1>4. Len(image) <= Len(ic)
  BY <1>1, <1>3 DEF Made
<1> QED
  BY <1>1, <1>3, <1>4 DEF Made

\* The instructions of ic and of the text.
LEMMA InText ==
  ASSUME Typed, Complete(text), NEW f, Keeps(f, Len(text))
  PROVE  /\ Len(text) \in Nat /\ DOMAIN text = 1 .. Len(text) /\ Len(ic) \in Nat
         /\ Len(source) \in Nat /\ DOMAIN source = 1 .. Len(source)
         /\ \A a \in 1 .. Len(ic) :
              /\ f[a] \in 1 .. Len(text) /\ ic[a] = text[f[a]] /\ IsInstruction(ic[a])
              /\ ic[a].from \in 1 .. Len(source) /\ Emits(ic[a].from)
         /\ \A a, b \in 1 .. Len(ic) : (a < b <=> f[a] < f[b]) /\ (a = b <=> f[a] = f[b])
         /\ \A a, b \in 1 .. Len(ic) : a <= b => ic[a].from <= ic[b].from
         /\ \A q \in 1 .. Len(source) :
              Emits(q) => \E a \in 1 .. Len(ic) : ic[a].from = q
<1>1. /\ Len(text) \in Nat /\ DOMAIN text = 1 .. Len(text) /\ Len(ic) \in Nat
      /\ Len(source) \in Nat /\ DOMAIN source = 1 .. Len(source)
  BY LenProperties, Source DEF Typed, ListsTyped
<1>2. \A a \in 1 .. Len(ic) :
        f[a] \in 1 .. Len(text) /\ ic[a] = text[f[a]] /\ IsInstruction(ic[a])
  BY DEF Keeps
<1>3. \A a \in 1 .. Len(ic) : ic[a].from \in 1 .. Len(source) /\ Emits(ic[a].from)
  BY <1>1, <1>2 DEF Complete
<1>4. \A a, b \in 1 .. Len(ic) : (a < b <=> f[a] < f[b]) /\ (a = b <=> f[a] = f[b])
  <2> TAKE a, b \in 1 .. Len(ic)
  <2>1. (a < b => f[a] < f[b]) /\ (b < a => f[b] < f[a]) /\ (a = b => f[a] = f[b])
    BY DEF Keeps
  <2>2. f[a] \in Int /\ f[b] \in Int /\ a \in Int /\ b \in Int
    BY <1>1, <1>2
  <2> QED
    BY <2>1, <2>2
<1>5. \A a, b \in 1 .. Len(ic) : a <= b => ic[a].from <= ic[b].from
  <2> SUFFICES ASSUME NEW a \in 1 .. Len(ic), NEW b \in 1 .. Len(ic), a <= b
               PROVE  ic[a].from <= ic[b].from
    OBVIOUS
  <2>1. f[a] <= f[b]
    BY <1>2, <1>4, <1>1
  <2>2. f[a] \in DOMAIN text /\ f[b] \in DOMAIN text
    BY <1>1, <1>2
  <2>3. text[f[a]].from <= text[f[b]].from
    BY <2>1, <2>2 DEF Complete, Ordered
  <2> QED
    BY <2>3, <1>2
<1>6. ASSUME NEW q \in 1 .. Len(source), Emits(q)
      PROVE  \E a \in 1 .. Len(ic) : ic[a].from = q
  <2>1. PICK m \in DOMAIN text : text[m].from = q /\ IsInstruction(text[m])
    BY <1>1, <1>6 DEF Complete
  <2>2. PICK a \in 1 .. Len(ic) : f[a] = m
    BY <2>1, <1>1 DEF Keeps
  <2> QED
    BY <2>1, <2>2, <1>2
<1> QED
  BY <1>1, <1>2, <1>3, <1>4, <1>5, <1>6

\* The pairs of the text are next to each other in ic too.
LEMMA PairsKept ==
  ASSUME Typed, Complete(text), NEW f, Keeps(f, Len(text)), NEW n \in 1 .. Len(ic)
  PROVE  LiAt(ic, n) /\ CallAt(ic, n)
<1> DEFINE o == f[n]
<1>1. /\ Len(text) \in Nat /\ DOMAIN text = 1 .. Len(text) /\ Len(ic) \in Nat
      /\ o \in 1 .. Len(text) /\ ic[n] = text[o]
      /\ \A a \in 1 .. Len(ic) : f[a] \in 1 .. Len(text) /\ ic[a] = text[f[a]]
      /\ \A a, b \in 1 .. Len(ic) : a < b <=> f[a] < f[b]
  BY InText
<1>2. LiAt(text, o) /\ CallAt(text, o)
  BY <1>1 DEF Complete, Paired
<1>3. o > 1 /\ IsInstruction(text[o - 1]) => n > 1 /\ ic[n - 1] = text[o - 1]
  <2> SUFFICES ASSUME o > 1, IsInstruction(text[o - 1])
               PROVE  n > 1 /\ ic[n - 1] = text[o - 1]
    OBVIOUS
  <2>1. o - 1 \in 1 .. Len(text)
    BY <1>1
  <2>2. PICK a \in 1 .. Len(ic) : f[a] = o - 1
    BY <2>1 DEF Keeps
  <2>3. a < n
    BY <1>1, <2>2
  <2>4. ~(a < n - 1)
    <3> SUFFICES ASSUME a < n - 1 PROVE FALSE
      OBVIOUS
    <3>1. n - 1 \in 1 .. Len(ic) /\ n - 1 < n
      BY <1>1, <2>2
    <3>2. f[a] < f[n - 1] /\ f[n - 1] < f[n] /\ f[n - 1] \in 1 .. Len(text)
      BY <1>1, <3>1
    <3> QED
      BY <3>2, <2>2, <1>1
  <2>5. a = n - 1
    BY <2>3, <2>4, <1>1
  <2> QED
    BY <2>2, <2>5, <1>1
<1> HIDE DEF o
<1> QED
  BY <1>1, <1>2, <1>3, SamePair

\* NothingDropped, for every source: through all passes the instructions of the
\* source keep their order, and each has its word in the image.
LEMMA InvNothingDropped == Inv => NothingDropped
<1> SUFFICES ASSUME Inv, pass = "done"
             PROVE  /\ \A m, n \in DOMAIN image :
                         m <= n => image[m].line.from <= image[n].line.from
                    /\ {image[n].line.from : n \in DOMAIN image}
                         = {n \in DOMAIN source : Emits(n)}
  BY DEF NothingDropped
<1>1. /\ Typed /\ Complete(text) /\ Kept(Len(text)) /\ Made
      /\ DOMAIN image = 1 .. Len(image) /\ Len(ic) \in Nat /\ at \in Nat
  BY LenProperties DEF Inv, Passes, WhileInterpreting, Typed, ImageTyped, ListsTyped
<1>2. PICK f : Keeps(f, Len(text))
  BY <1>1 DEF Kept
<1>3. /\ DOMAIN image = 1 .. Len(ic)
      /\ \A n \in 1 .. Len(ic) : image[n].line = ic[n]
  <2>1. Len(image) = Len(ic)
    BY <1>1 DEF Made
  <2> QED
    BY <1>1, <2>1 DEF Made
<1>4. /\ DOMAIN source = 1 .. Len(source)
      /\ \A a \in 1 .. Len(ic) : ic[a].from \in 1 .. Len(source) /\ Emits(ic[a].from)
      /\ \A a, b \in 1 .. Len(ic) : a <= b => ic[a].from <= ic[b].from
      /\ \A q \in 1 .. Len(source) : Emits(q) => \E a \in 1 .. Len(ic) : ic[a].from = q
  BY <1>1, <1>2, InText
<1>5. \A m, n \in DOMAIN image : m <= n => image[m].line.from <= image[n].line.from
  BY <1>3, <1>4
<1>6. \A n \in DOMAIN image :
        image[n].line.from \in DOMAIN source /\ Emits(image[n].line.from)
  BY <1>3, <1>4
<1>7. \A q \in DOMAIN source : Emits(q) => \E n \in DOMAIN image : image[n].line.from = q
  BY <1>3, <1>4
<1> QED
  BY <1>5, <1>6, <1>7

\* Whatever the source, a finished image has every instruction of it, in order.
THEOREM DropsNothing == Spec => []NothingDropped
BY AssemblerInvariant, InvNothingDropped, PTL

\* LiLoadsValue, for every source and every width: what the filter and the zeros
\* of main put between lines never parts an addi from its lui.
LEMMA InvLiLoadsValue == Inv => LiLoadsValue
<1> SUFFICES ASSUME Inv, NEW n \in DOMAIN image, NEW l, l = image[n].line,
                    l.k = "addi", source[l.from].k = "li"
             PROVE  LuiAddi(<<IF l.to = "zero" THEN 0 ELSE image[n - 1].imm, image[n].imm>>)
                      = source[l.from].v
  BY DEF LiLoadsValue
<1>1. /\ Kept(Len(text)) /\ Complete(text) /\ Typed
      /\ n \in 1 .. Len(image) /\ n \in 1 .. Len(ic)
      /\ \A a \in 1 .. Len(image) :
           image[a].line = ic[a] /\ image[a].imm = ImmediateAt(ic[a], a - 1)
  BY WordOf DEF Inv
<1>2. PICK f : Keeps(f, Len(text))
  BY <1>1 DEF Kept
<1>3. l = ic[n] /\ l.from \in DOMAIN source
  <2>1. ic[n].from \in 1 .. Len(source) /\ DOMAIN source = 1 .. Len(source)
    BY <1>1, <1>2, InText
  <2>2. image[n].line = ic[n]
    BY <1>1
  <2> QED
    BY <2>1, <2>2
<1> DEFINE v == source[l.from].v
<1>4. v \in Word
  BY <1>1, <1>3, Source DEF SourceLine
<1>5. LiAt(ic, n)
  BY <1>1, <1>2, PairsKept
<1>6. /\ l.v = LoadImmediate(v)[2]
      /\ (l.to = "zero") <=> FitsOne(v)
      /\ ~FitsOne(v) => /\ n > 1 /\ ic[n - 1].k = "lui"
                        /\ ic[n - 1].v = LoadImmediate(v)[1]
  BY <1>3, <1>5 DEF LiAt
<1>7. image[n].imm = LoadImmediate(v)[2]
  <2>1. image[n].imm = ImmediateAt(l, n - 1)
    BY <1>1, <1>3
  <2> QED
    BY <2>1, <1>6 DEF ImmediateAt, Jumps
<1> HIDE DEF v
<1>8. (IF l.to = "zero" THEN 0 ELSE image[n - 1].imm) = LoadImmediate(v)[1]
  <2>1. CASE FitsOne(v)
    BY <2>1, <1>6 DEF LoadImmediate
  <2>2. CASE ~FitsOne(v)
    <3>1. n - 1 \in 1 .. Len(image)
      BY <1>1, <1>6, <2>2
    <3>2. image[n - 1].imm = ImmediateAt(ic[n - 1], (n - 1) - 1)
      BY <3>1, <1>1
    <3>3. image[n - 1].imm = ic[n - 1].v
      BY <3>2, <1>6, <2>2 DEF ImmediateAt, Jumps
    <3> QED
      BY <3>3, <1>6, <2>2
  <2> QED
    BY <2>1, <2>2
<1>9. ASSUME NEW a, NEW b, a = LoadImmediate(v)[1], b = LoadImmediate(v)[2]
      PROVE  LuiAddi(<<a, b>>) = v
  <2>1. LuiAddi(<<a, b>>) = LuiAddi(LoadImmediate(v))
    BY <1>9 DEF LuiAddi
  <2> QED
    BY <2>1, <1>4, LiExact
<1> QED
  BY <1>7, <1>8, <1>9 DEF v

\* Whatever the source, the instructions of a li load its value.
THEOREM LoadsValues == Spec => []LiLoadsValue
BY AssemblerInvariant, InvLiLoadsValue, PTL

\* The first instruction behind a line of the text is the first word from a line
\* of the source on, where the one line divides the instructions as the other.
LEMMA Follows ==
  ASSUME Typed, Complete(text), NEW f, Keeps(f, Len(text)),
         NEW k \in Nat, NEW S \in Nat \ {0}, NEW j \in 1 .. Len(ic),
         f[j] > k, \A a \in 1 .. Len(ic) : f[a] > k => a >= j,
         \A a \in 1 .. Len(ic) : f[a] > k <=> ic[a].from >= S
  PROVE  ic[j].from = FirstFrom(S)
<1>1. /\ Len(source) \in Nat /\ Len(ic) \in Nat
      /\ \A a \in 1 .. Len(ic) : ic[a].from \in 1 .. Len(source) /\ Emits(ic[a].from)
      /\ \A a, b \in 1 .. Len(ic) : a <= b => ic[a].from <= ic[b].from
      /\ \A q \in 1 .. Len(source) : Emits(q) => \E a \in 1 .. Len(ic) : ic[a].from = q
  BY InText
<1> DEFINE q == ic[j].from
           First(m) == Emits(m) /\ \A o \in S .. (m - 1) : ~Emits(o)
<1>2. q \in S .. Len(source) /\ Emits(q)
  BY <1>1
<1>3. \A o \in S .. (q - 1) : ~Emits(o)
  <2> SUFFICES ASSUME NEW o \in S .. (q - 1), Emits(o) PROVE FALSE
    OBVIOUS
  <2>1. o \in 1 .. Len(source) /\ o < q /\ o >= S
    BY <1>1, <1>2
  <2>2. PICK b \in 1 .. Len(ic) : ic[b].from = o
    BY <1>1, <2>1
  <2>3. b >= j
    BY <2>1, <2>2
  <2>4. q <= o
    BY <1>1, <2>2, <2>3
  <2> QED
    BY <2>1, <2>4, <1>2, <1>1
<1>4. First(q)
  BY <1>2, <1>3
<1>5. \A m \in S .. Len(source) : First(m) => m = q
  BY <1>1, <1>2, <1>3
<1> HIDE DEF q
<1>6. FirstFrom(S) = CHOOSE m \in S .. Len(source) : First(m)
  BY DEF FirstFrom
<1>7. FirstFrom(S) = q
  BY <1>2, <1>4, <1>5, <1>6
<1> QED
  BY <1>7 DEF q

\* A label of the code is in one line of the source and one of the text, and
\* instructions are before and behind it in both.
LEMMA LabelInText ==
  ASSUME Typed, Complete(text), NEW f, Keeps(f, Len(text)), NEW x, x \notin DataLabels,
         NEW L \in DOMAIN source, IsLabel(source[L], x)
  PROVE  /\ LineOf(x) = L
         /\ \E m \in DOMAIN text :
              /\ text[m].from = L /\ IsLabel(text[m], x)
              /\ LabelAt(text, m) /\ Stands(f, x, m)
         /\ \E q \in DOMAIN source : q > L /\ Emits(q)
<1>1. /\ Compiled(source) /\ Len(source) \in Nat /\ DOMAIN source = 1 .. Len(source)
      /\ Len(text) \in Nat /\ DOMAIN text = 1 .. Len(text)
  BY Source, InText
<1>2. LineOf(x) = L
  <2>1. \A n \in DOMAIN source : IsLabel(source[n], x) => n = L
    BY <1>1 DEF Compiled, IsLabel
  <2> QED
    BY <2>1 DEF LineOf
<1>3. PICK m \in DOMAIN text : text[m].from = L /\ text[m].k = "label"
  BY DEF Complete, IsLabel
<1>4. LabelAt(text, m)
  BY <1>3 DEF Complete
<1>5. IsLabel(text[m], x)
  BY <1>3, <1>4 DEF LabelAt, IsLabel
<1>6. Stands(f, x, m)
  BY <1>1, <1>5 DEF Keeps, IsCode, IsLabel
<1>7. \E q \in DOMAIN source : q > L /\ Emits(q)
  BY <1>1 DEF Compiled, IsLabel, Emits
<1> QED
  BY <1>2, <1>3, <1>4, <1>5, <1>6, <1>7

\* The instructions behind a label of the text come from its line or later ones.
LEMMA Divides ==
  ASSUME Typed, Complete(text), NEW f, Keeps(f, Len(text)),
         NEW m \in DOMAIN text, text[m].k = "label", NEW a \in 1 .. Len(ic)
  PROVE  /\ f[a] > m <=> ic[a].from >= text[m].from
         /\ f[a] < m \/ f[a] > m
<1>1. /\ Len(text) \in Nat /\ DOMAIN text = 1 .. Len(text)
      /\ f[a] \in 1 .. Len(text) /\ ic[a] = text[f[a]] /\ IsInstruction(ic[a])
      /\ ic[a].from \in 1 .. Len(source) /\ Len(source) \in Nat
      /\ DOMAIN source = 1 .. Len(source)
  BY InText
<1>2. LabelAt(text, m) /\ text[m].from \in DOMAIN source
  BY DEF Complete
<1>3. f[a] # m
  BY <1>1 DEF IsInstruction
<1>4. f[a] < m => ic[a].from < text[m].from
  BY <1>1, <1>2 DEF LabelAt
<1>5. f[a] > m => text[m].from <= ic[a].from
  BY <1>1 DEF Complete, Ordered
<1> QED
  BY <1>1, <1>2, <1>3, <1>4, <1>5

\* An address reaches across all of the image, and of the data.
LEMMA Reach ==
  ASSUME Typed, Complete(text), Kept(Len(text)), NEW i \in Nat, i <= Len(text)
  PROVE  4 * i \in Word
<1>1. pre_zero \in Nat /\ Len(text) \in Nat /\ Len(source) \in Nat
  BY LabelsAssumption, LenProperties, Source DEF Typed, ListsTyped
<1>2. Len(text) <= 2 * Len(source) + pre_zero /\ 8 * (2 * Len(source) + pre_zero) < Modulus
  BY Source DEF Complete, Compiled
<1>3. ASSUME NEW t \in Nat, NEW o \in Nat,
             i <= t, t <= 2 * o + pre_zero, 8 * (2 * o + pre_zero) < Modulus
      PROVE  4 * i \in 0 .. (Modulus - 1)
  BY <1>3, <1>1, Sizes
<1> QED
  BY <1>1, <1>2, <1>3 DEF Word

\* The position of a label is that of the first word of what it stands before.
LEMMA LabelLeads ==
  ASSUME Typed, Complete(text), Kept(Len(text)), NEW f, Keeps(f, Len(text)),
         NEW x, CodeLabel(x)
  PROVE  /\ x \in DOMAIN ip /\ ip[x] \in Nat /\ LeadsTo(ip[x] + 1, x)
         /\ 4 * ip[x] \in Word
<1>1. /\ Len(text) \in Nat /\ DOMAIN text = 1 .. Len(text) /\ Len(ic) \in Nat
      /\ Len(source) \in Nat /\ DOMAIN source = 1 .. Len(source)
      /\ \A a \in 1 .. Len(ic) :
           f[a] \in 1 .. Len(text) /\ ic[a].from \in 1 .. Len(source)
      /\ \A q \in 1 .. Len(source) : Emits(q) => \E a \in 1 .. Len(ic) : ic[a].from = q
      /\ DOMAIN ic = 1 .. Len(ic)
  BY InText, LenProperties DEF Typed, ListsTyped
<1>2. PICK L \in DOMAIN source : IsLabel(source[L], x)
  BY DEF CodeLabel
<1>3. x \notin DataLabels
  BY DEF CodeLabel
<1>4. LineOf(x) = L
  BY <1>2, <1>3, LabelInText
<1>5. PICK m \in DOMAIN text : /\ text[m].from = L /\ IsLabel(text[m], x)
                               /\ LabelAt(text, m) /\ Stands(f, x, m)
  BY <1>2, <1>3, LabelInText
<1>6. PICK q \in DOMAIN source : q > L /\ Emits(q)
  BY <1>2, <1>3, LabelInText
<1>7. \A a \in 1 .. Len(ic) :
        (f[a] > m <=> ic[a].from >= L) /\ (f[a] < m \/ f[a] > m)
  BY <1>5, Divides DEF IsLabel
<1>8. /\ x \in DOMAIN ip /\ ip[x] \in 0 .. Len(ic)
      /\ \A a \in 1 .. Len(ic) : IF a <= ip[x] THEN f[a] < m ELSE f[a] > m
  BY <1>5 DEF Stands, Splits
<1> DEFINE p == ip[x]
<1>9. PICK b \in 1 .. Len(ic) : ic[b].from = q
  BY <1>1, <1>6
<1>10. f[b] > m
  BY <1>1, <1>2, <1>6, <1>7, <1>9
<1>11. p < b
  BY <1>1, <1>8, <1>9, <1>10
<1>12. PICK j : j = p + 1
  OBVIOUS
<1>13. j \in 1 .. Len(ic) /\ ~(j <= p)
  BY <1>1, <1>8, <1>9, <1>11, <1>12
<1>14. f[j] > m
  BY <1>8, <1>13
<1>15. \A a \in 1 .. Len(ic) : f[a] > m => a >= j
  BY <1>1, <1>8, <1>12
<1>16. ic[j].from = FirstFrom(L)
  <2>1. m \in Nat /\ L \in Nat \ {0}
    BY <1>1
  <2> QED
    BY <2>1, <1>7, <1>13, <1>14, <1>15, Follows
<1>17. j > 1 => ic[j - 1].from # ic[j].from
  <2> SUFFICES ASSUME j > 1 PROVE ic[j - 1].from # ic[j].from
    OBVIOUS
  <2>1. j - 1 \in 1 .. Len(ic) /\ j - 1 <= p
    BY <1>1, <1>8, <1>12, <1>13
  <2>2. f[j - 1] < m /\ ~(f[j - 1] > m)
    BY <2>1, <1>1, <1>8
  <2>3. ~(ic[j - 1].from >= L) /\ ic[j].from >= L
    BY <2>1, <2>2, <1>7, <1>13, <1>14
  <2> QED
    BY <2>3
<1>18. LeadsTo(j, x)
  BY <1>1, <1>4, <1>13, <1>16, <1>17 DEF LeadsTo
<1>19. 4 * p \in Word
  <2>1. p \in Nat /\ p <= Len(text)
    BY <1>1, <1>8 DEF Kept
  <2> QED
    BY <2>1, Reach
<1> QED
  BY <1>8, <1>12, <1>18, <1>19

\* The word at a whole address.
LEMMA WordAtMultiple == ASSUME NEW p \in Int PROVE WordAt(4 * p) = p + 1
<1>1. 4 * p = 4 * p + 0 /\ 0 \in 0 .. (4 - 1) /\ 4 \in Nat \ {0} /\ 4 * p \in Int
  OBVIOUS
<1>2. (4 * p) \div 4 = p
  BY <1>1, DivUnique
<1> QED
  BY <1>2 DEF WordAt

\* auipc and jalr lead together where their label is.
LEMMA CallArrives ==
  ASSUME NEW p \in Nat, 4 * p \in Word, NEW n \in Nat, n > 1, AddressOf(n - 1) \in Word,
         NEW d, d = ((p - (n - 1 - 1)) * 4) % Modulus,
         NEW a, NEW b, a = CallParts(d)[1], b = CallParts(d)[2]
  PROVE  WordAt(AuipcJalr(AddressOf(n - 1), <<a, b>>)) = p + 1
<1> DEFINE from == AddressOf(n - 1)
<1>1. (p - (n - 1 - 1)) * 4 = 4 * p - from
  BY DEF AddressOf
<1>2. d = (4 * p - from) % Modulus
  BY <1>1
<1> HIDE DEF from
<1>3. AuipcJalr(from, <<a, b>>) = AuipcJalr(from, CallParts(d))
  BY DEF AuipcJalr
<1>4. from \in Word
  BY DEF from
<1>5. AuipcJalr(from, CallParts(d)) = 4 * p
  <2>1. PICK x : x = 4 * p
    OBVIOUS
  <2>2. AuipcJalr(from, CallParts((x - from) % Modulus)) = x
    BY <2>1, <1>4, CallExact
  <2> QED
    BY <2>1, <2>2, <1>2
<1>6. WordAt(4 * p) = p + 1
  BY WordAtMultiple
<1> QED
  BY <1>3, <1>5, <1>6 DEF from

\* JumpsLand, for every source, width and reach: whatever stands between a jump
\* and its label, before and after the expansion. Of a branch or jal the field
\* is what decides.
LEMMA InvJumpsLand == Inv => JumpsLand
<1> SUFFICES ASSUME Inv, NEW n \in DOMAIN image, NEW l, l = image[n].line, CodeLabel(l.to)
             PROVE  /\ l.k \in Jumps =>
                         \E target \in DOMAIN ic :
                           LET distance == AddressOf(target) - AddressOf(n)
                           IN  /\ LeadsTo(target, l.to)
                               /\ (AddressOf(n) + image[n].imm = AddressOf(target))
                                    = (distance \in -Span[l.k] .. (Span[l.k] - 1))
                    /\ l.k = "%l12" =>
                         LeadsTo(WordAt(AuipcJalr(AddressOf(n - 1),
                                          <<image[n - 1].imm, image[n].imm>>)), l.to)
  BY DEF JumpsLand
<1>1. /\ Kept(Len(text)) /\ Complete(text) /\ Typed
      /\ n \in 1 .. Len(image) /\ n \in 1 .. Len(ic) /\ Len(image) <= Len(ic)
      /\ Len(image) \in Nat
      /\ \A a \in 1 .. Len(image) :
           image[a].line = ic[a] /\ image[a].imm = ImmediateAt(ic[a], a - 1)
  BY WordOf DEF Inv
<1>2. PICK f : Keeps(f, Len(text))
  BY <1>1 DEF Kept
<1>3. l = ic[n] /\ image[n].imm = ImmediateAt(l, n - 1) /\ n \in Nat \ {0}
  BY <1>1
<1>4. PICK x : x = l.to
  OBVIOUS
<1>5. /\ x \in DOMAIN ip /\ ip[x] \in Nat /\ LeadsTo(ip[x] + 1, x)
      /\ 4 * ip[x] \in Word
  BY <1>1, <1>2, <1>4, LabelLeads
<1>6. PICK p : p = ip[x]
  OBVIOUS
<1>7. \A i : calcJump(x, i) = (p - i) * 4
  BY <1>5, <1>6 DEF calcJump
<1>8. ASSUME l.k \in Jumps
      PROVE  \E target \in DOMAIN ic :
               LET distance == AddressOf(target) - AddressOf(n)
               IN  /\ LeadsTo(target, l.to)
                   /\ (AddressOf(n) + image[n].imm = AddressOf(target))
                        = (distance \in -Span[l.k] .. (Span[l.k] - 1))
  <2> DEFINE d == (p - (n - 1)) * 4
             h == Span[l.k]
  <2>1. image[n].imm = Field(l.k, d)
    BY <1>3, <1>4, <1>7, <1>8 DEF ImmediateAt, Jumps
  <2>2. AddressOf(p + 1) - AddressOf(n) = d /\ AddressOf(n) \in Int /\ d \in Int
        /\ AddressOf(p + 1) \in Int
    BY <1>3, <1>5, <1>6 DEF AddressOf
  <2>3. LeadsTo(p + 1, l.to) /\ p + 1 \in DOMAIN ic
    BY <1>4, <1>5, <1>6 DEF LeadsTo
  <2> HIDE DEF d
  <2>4. Field(l.k, d) \in Int /\ (Field(l.k, d) = d <=> d \in -h .. (h - 1))
    BY <1>8, <2>2, FieldHolds
  <2>5. AddressOf(n) + image[n].imm = AddressOf(p + 1) <=> d \in -h .. (h - 1)
    <3>1. ASSUME NEW x0 \in Int, NEW y \in Int, NEW z \in Int, y - x0 = d, d \in Int
          PROVE  x0 + z = y <=> z = d
      BY <3>1
    <3> QED
      BY <2>1, <2>2, <2>4, <3>1
  <2> QED
    BY <2>2, <2>3, <2>5
<1>9. ASSUME l.k = "%l12"
      PROVE  LeadsTo(WordAt(AuipcJalr(AddressOf(n - 1),
                              <<image[n - 1].imm, image[n].imm>>)), l.to)
  <2>1. n > 1 /\ ic[n - 1].k = "%h20" /\ ic[n - 1].to = x
    BY <1>1, <1>2, <1>3, <1>4, <1>9, PairsKept DEF CallAt
  <2>2. n - 1 \in 1 .. Len(image)
    BY <1>1, <2>1
  <2>3. image[n - 1].imm = ImmediateAt(ic[n - 1], (n - 1) - 1)
    BY <1>1, <2>2
  <2>4. PICK d : d = ((p - (n - 1 - 1)) * 4) % Modulus
    OBVIOUS
  <2>5. image[n - 1].imm = CallParts(d)[1]
    BY <2>1, <2>3, <2>4, <1>7 DEF ImmediateAt
  <2>6. image[n].imm = CallParts(d)[2]
    BY <2>4, <1>3, <1>4, <1>7, <1>9 DEF ImmediateAt
  <2>7. AddressOf(n - 1) \in Word
    <3>1. Len(ic) <= Len(text) /\ Len(ic) \in Nat /\ Len(text) \in Nat
      BY <1>1, <1>2, InText DEF Kept
    <3>2. PICK i : i = n - 1 - 1
      OBVIOUS
    <3>3. i \in Nat /\ i <= Len(text)
      BY <1>1, <2>1, <3>1, <3>2
    <3>4. 4 * i \in Word
      BY <1>1, <3>3, Reach
    <3> QED
      BY <3>2, <3>4 DEF AddressOf
  <2>8. WordAt(AuipcJalr(AddressOf(n - 1), <<image[n - 1].imm, image[n].imm>>)) = p + 1
    BY <2>1, <2>4, <2>5, <2>6, <2>7, <1>3, <1>5, <1>6, CallArrives
  <2> QED
    BY <2>8, <1>4, <1>5, <1>6
<1> QED
  BY <1>8, <1>9

\* Whatever the source, calls arrive where their labels are, and a branch or jal
\* does exactly if its field holds the distance. The others are assembled too,
\* and go elsewhere.
THEOREM LandsJumps == Spec => []JumpsLand
BY AssemblerInvariant, InvJumpsLand, PTL

\* The zeros behind main stand in ic as they stand in the text, from the position
\* of main on.
LEMMA ZerosInImage ==
  ASSUME Typed, Complete(text), NEW f, Keeps(f, Len(text)),
         NEW m \in DOMAIN text, text[m].k = "label",
         NEW p \in Nat, NEW z \in Nat, z = ZerosOf(text[m].from),
         Splits(f, p, m)
  PROVE  \A i \in 1 .. z : p + i \in 1 .. Len(ic) /\ f[p + i] = m + i
<1>1. /\ Len(text) \in Nat /\ DOMAIN text = 1 .. Len(text) /\ Len(ic) \in Nat
      /\ \A a \in 1 .. Len(ic) : f[a] \in 1 .. Len(text)
      /\ \A a, b \in 1 .. Len(ic) : a < b <=> f[a] < f[b]
      /\ \A a \in 1 .. Len(ic) : IF a <= p THEN f[a] < m ELSE f[a] > m
  BY InText DEF Splits
<1>2. /\ m + z \in DOMAIN text
      /\ \A o \in (m + 1) .. (m + z) : IsInstruction(text[o])
  BY DEF Complete, LabelAt
<1> DEFINE Good(i) == p + i \in 1 .. Len(ic) /\ f[p + i] = m + i
           T == {i \in 1 .. z : ~Good(i)}
<1>3. ASSUME T # {}
      PROVE  FALSE
  <2>1. PICK i \in T : \A o \in T : i <= o
    <3>1. T \subseteq Nat
      OBVIOUS
    <3> HIDE DEF T
    <3> QED
      BY <1>3, <3>1, Least
  <2>2. i \in 1 .. z /\ ~Good(i) /\ \A o \in 1 .. (i - 1) : Good(o)
    <3>1. \A o \in 1 .. (i - 1) : o \in 1 .. z /\ ~(i <= o)
      BY <2>1
    <3> HIDE DEF Good
    <3> QED
      BY <2>1, <3>1
  <2>3. m + i \in 1 .. Len(text) /\ IsInstruction(text[m + i])
    <3>1. PICK o : o = m + i
      OBVIOUS
    <3>2. o \in (m + 1) .. (m + z) /\ o \in 1 .. Len(text)
      BY <3>1, <1>1, <1>2, <2>2
    <3> QED
      BY <3>1, <3>2, <1>2
  <2>4. PICK a \in 1 .. Len(ic) : f[a] = m + i
    BY <2>3 DEF Keeps
  <2>5. ~(a <= p)
    BY <2>4, <2>2, <1>1
  <2>6. a >= p + i
    <3>1. CASE i = 1
      BY <3>1, <2>5
    <3>2. CASE i > 1
      <4>1. PICK b : b = p + (i - 1)
        OBVIOUS
      <4>2. Good(i - 1)
        <5>1. i - 1 \in 1 .. (i - 1)
          BY <2>2, <3>2
        <5> HIDE DEF Good
        <5> QED
          BY <2>2, <5>1
      <4>3. b \in 1 .. Len(ic) /\ f[b] = m + (i - 1)
        BY <4>1, <4>2
      <4>4. b < a
        BY <4>3, <2>4, <1>1, <2>2
      <4> QED
        BY <4>1, <4>3, <4>4, <2>2, <1>1
    <3> QED
      BY <3>1, <3>2, <2>2
  <2>7. PICK c : c = p + i
    OBVIOUS
  <2>8. c \in 1 .. Len(ic) /\ ~(c <= p)
    BY <2>2, <2>4, <2>6, <2>7, <1>1
  <2>9. f[c] > m /\ f[c] \in Int
    BY <2>8, <1>1
  <2>10. c # a
    BY <2>2, <2>4, <2>7
  <2>11. f[c] < m + i
    BY <2>4, <2>6, <2>7, <2>8, <2>10, <1>1
  <2>12. i > 1 => f[c] > m + (i - 1)
    <3> SUFFICES ASSUME i > 1 PROVE f[c] > m + (i - 1)
      OBVIOUS
    <3>1. PICK b : b = p + (i - 1)
      OBVIOUS
    <3>2. Good(i - 1)
      <4>1. i - 1 \in 1 .. (i - 1)
        BY <2>2
      <4> HIDE DEF Good
      <4> QED
        BY <2>2, <4>1
    <3>3. b \in 1 .. Len(ic) /\ f[b] = m + (i - 1) /\ b < c
      BY <3>1, <3>2, <2>2, <2>7
    <3> QED
      BY <3>3, <2>8, <1>1
  <2> QED
    BY <2>2, <2>9, <2>11, <2>12, <1>1
<1> QED
  BY <1>3

\* StartsAtMain, for every source: the cores start in main, wherever it is, and
\* behind its zeros is its first instruction.
LEMMA InvStartsAtMain == Inv => StartsAtMain
<1> SUFFICES ASSUME Inv, pass = "done", NEW first, first = WordAt(PC_STARTADDR),
                    NEW L, L = LineOf("main"),
                    NEW z, z = IF TakesZeros(L) THEN pre_zero ELSE 0
             PROVE  /\ first + z \in DOMAIN image
                    /\ \A n \in first .. (first + z - 1) : image[n].line.from = L
                    /\ image[first + z].line.from = FirstFrom(L + 1)
  BY DEF StartsAtMain
<1>1. /\ Typed /\ Complete(text) /\ Kept(Len(text)) /\ Made
      /\ DOMAIN image = 1 .. Len(image) /\ Len(image) \in Nat /\ at \in Nat
      /\ Len(text) \in Nat /\ DOMAIN text = 1 .. Len(text)
      /\ DOMAIN source = 1 .. Len(source) /\ Len(source) \in Nat
  BY LenProperties, Source DEF Inv, Passes, WhileInterpreting, Typed, ImageTyped, ListsTyped
<1>2. PICK f : Keeps(f, Len(text))
  BY <1>1 DEF Kept
<1>3. /\ DOMAIN image = 1 .. Len(ic) /\ Len(ic) \in Nat
      /\ \A n \in 1 .. Len(ic) : image[n].line = ic[n] /\ ic[n] = text[f[n]]
                                 /\ f[n] \in 1 .. Len(text)
      /\ \A q \in 1 .. Len(source) : Emits(q) => \E a \in 1 .. Len(ic) : ic[a].from = q
      /\ \A a, b \in 1 .. Len(ic) : (a < b <=> f[a] < f[b]) /\ (a = b <=> f[a] = f[b])
  <2>1. Len(image) = Len(ic)
    BY <1>1 DEF Made
  <2>2. /\ Len(ic) \in Nat
        /\ \A n \in 1 .. Len(ic) : ic[n] = text[f[n]] /\ f[n] \in 1 .. Len(text)
        /\ \A q \in 1 .. Len(source) : Emits(q) => \E a \in 1 .. Len(ic) : ic[a].from = q
        /\ \A a, b \in 1 .. Len(ic) : (a < b <=> f[a] < f[b]) /\ (a = b <=> f[a] = f[b])
    BY <1>1, <1>2, InText
  <2>3. \A n \in 1 .. Len(ic) : image[n].line = ic[n]
    BY <1>1, <2>1 DEF Made
  <2> QED
    BY <1>1, <2>1, <2>2, <2>3
<1>4. "main" \in DOMAIN ip /\ PC_STARTADDR = ip["main"] * 4
  BY <1>1 DEF Made, StartAddress
<1>5. "main" \notin DataLabels
  BY LabelsAssumption
<1>6. PICK o \in DOMAIN text : IsLabel(text[o], "main")
  BY <1>1, <1>4 DEF Kept
<1>7. text[o].from \in DOMAIN source /\ IsLabel(source[text[o].from], "main")
  BY <1>1, <1>6 DEF Complete, LabelAt, IsLabel
<1>8. L = text[o].from
  BY <1>1, <1>2, <1>5, <1>7, LabelInText
<1>9. PICK m \in DOMAIN text : /\ text[m].from = L /\ IsLabel(text[m], "main")
                               /\ LabelAt(text, m) /\ Stands(f, "main", m)
  BY <1>1, <1>2, <1>5, <1>7, <1>8, LabelInText
<1>10. PICK q \in DOMAIN source : q > L /\ Emits(q)
  BY <1>1, <1>2, <1>5, <1>7, <1>8, LabelInText
<1>11. PICK p : p = ip["main"]
  OBVIOUS
<1>12. /\ p \in Nat /\ p <= Len(ic)
       /\ \A a \in 1 .. Len(ic) : IF a <= p THEN f[a] < m ELSE f[a] > m
  BY <1>3, <1>9, <1>11 DEF Stands, Splits
<1>13. first = p + 1
  <2>1. PC_STARTADDR = 4 * p
    BY <1>4, <1>11, <1>12
  <2> QED
    BY <2>1, <1>12, WordAtMultiple
<1>14. z = ZerosOf(L) /\ z \in Nat /\ m \in Nat /\ L \in Nat
  BY LabelsAssumption, <1>1, <1>7, <1>8 DEF ZerosOf
<1>15. \A i \in 1 .. z : p + i \in 1 .. Len(ic) /\ f[p + i] = m + i
  <2>1. text[m].k = "label" /\ z = ZerosOf(text[m].from)
    BY <1>9, <1>14 DEF IsLabel
  <2>2. p \in Nat /\ z \in Nat
    BY <1>12, <1>14
  <2>3. Splits(f, p, m)
    BY <1>12 DEF Splits
  <2>4. Typed /\ Complete(text) /\ Keeps(f, Len(text)) /\ m \in DOMAIN text
    BY <1>1, <1>2
  <2> QED
    BY <2>1, <2>2, <2>3, <2>4, ZerosInImage
<1>16. /\ \A n \in DOMAIN text : n < m => text[n].from < L
       /\ \A n \in (m + 1) .. (m + z) : text[n].from = L
       /\ \A n \in DOMAIN text : n > m + z => text[n].from > L
  BY <1>9, <1>14 DEF LabelAt
<1>17. PICK j : j = p + z + 1
  OBVIOUS
<1>18. \A a \in 1 .. Len(ic) : f[a] > m + z <=> a >= j
  <2> SUFFICES ASSUME NEW a \in 1 .. Len(ic) PROVE f[a] > m + z <=> a >= j
    OBVIOUS
  <2>1. CASE a <= p
    BY <2>1, <1>3, <1>12, <1>14, <1>17, SMTT(30)
  <2>2. CASE a > p /\ a <= p + z
    <3>1. PICK i : i = a - p
      OBVIOUS
    <3>2. i \in 1 .. z /\ p + i = a
      BY <3>1, <2>2, <1>3, <1>12, <1>14
    <3>3. f[a] = m + i
      BY <3>2, <1>15
    <3> QED
      BY <3>2, <3>3, <1>12, <1>14, <1>17
  <2>3. CASE a > p + z
    <3>1. f[a] > m
      BY <2>3, <1>12, <1>14
    <3>2. z > 0 => f[a] > m + z
      <4> SUFFICES ASSUME z > 0 PROVE f[a] > m + z
        OBVIOUS
      <4>1. PICK b : b = p + z
        OBVIOUS
      <4>2. b \in 1 .. Len(ic) /\ f[b] = m + z /\ b < a
        BY <4>1, <2>3, <1>14, <1>15
      <4> QED
        BY <4>2, <1>3
    <3> QED
      BY <3>1, <3>2, <2>3, <1>3, <1>12, <1>14, <1>17
  <2> QED
    BY <2>1, <2>2, <2>3, <1>3, <1>12, <1>14
<1>19. \A a \in 1 .. Len(ic) : f[a] > m + z <=> ic[a].from >= L + 1
  <2> SUFFICES ASSUME NEW a \in 1 .. Len(ic) PROVE f[a] > m + z <=> ic[a].from >= L + 1
    OBVIOUS
  <2>1. PICK o2 : o2 = f[a]
    OBVIOUS
  <2>2. o2 \in DOMAIN text /\ o2 \in Int /\ ic[a].from = text[o2].from /\ o2 # m
        /\ ic[a].from \in Int
    BY <2>1, <1>1, <1>2, <1>3, <1>9, <1>12, InText, Divides DEF IsLabel
  <2>3. CASE o2 < m
    BY <2>1, <2>2, <2>3, <1>14, <1>16
  <2>4. CASE o2 \in (m + 1) .. (m + z)
    BY <2>1, <2>2, <2>4, <1>14, <1>16
  <2>5. CASE o2 > m + z
    BY <2>1, <2>2, <2>5, <1>14, <1>16
  <2> QED
    BY <2>2, <2>3, <2>4, <2>5, <1>14
<1>20. j \in 1 .. Len(ic)
  <2>1. PICK b \in 1 .. Len(ic) : ic[b].from = q
    BY <1>1, <1>3, <1>10
  <2>2. b >= j
    BY <2>1, <1>1, <1>10, <1>14, <1>18, <1>19
  <2> QED
    BY <2>1, <2>2, <1>3, <1>12, <1>14, <1>17
<1>21. ic[j].from = FirstFrom(L + 1)
  <2>1. PICK S, k : S = L + 1 /\ k = m + z
    OBVIOUS
  <2>2. S \in Nat \ {0} /\ k \in Nat
    BY <2>1, <1>14
  <2>3. /\ f[j] > k /\ \A a \in 1 .. Len(ic) : f[a] > k => a >= j
        /\ \A a \in 1 .. Len(ic) : f[a] > k <=> ic[a].from >= S
    <3>1. j >= j
      BY <1>20
    <3> QED
      BY <3>1, <2>1, <1>18, <1>19, <1>20
  <2>4. ic[j].from = FirstFrom(S)
    BY <2>2, <2>3, <1>1, <1>2, <1>20, Follows
  <2> QED
    BY <2>1, <2>4
<1>22. first + z = j
  BY <1>12, <1>13, <1>14, <1>17
<1>23. ASSUME NEW n \in first .. (first + z - 1)
       PROVE  image[n].line.from = L
  <2>1. PICK i : i = n - p
    OBVIOUS
  <2>2. i \in 1 .. z /\ p + i = n
    BY <2>1, <1>12, <1>13, <1>14
  <2>3. n \in 1 .. Len(ic) /\ f[n] = m + i
    BY <2>2, <1>15
  <2>4. f[n] \in (m + 1) .. (m + z)
    BY <2>2, <2>3, <1>14
  <2> QED
    BY <2>3, <2>4, <1>3, <1>16
<1> QED
  BY <1>3, <1>20, <1>21, <1>22, <1>23

\* Whatever the source, the cores start with main's zeros and its first
\* instruction, or with that alone if an earlier label that ends in "main" has
\* taken the zeros.
THEOREM MainStarts == Spec => []StartsAtMain
BY AssemblerInvariant, InvStartsAtMain, PTL

\* DataReachesBelow, for every source and every width.
LEMMA InvDataReachesBelow == Inv => DataReachesBelow
<1> SUFFICES ASSUME Inv, NEW m \in DOMAIN image, NEW n \in DOMAIN image,
                    NEW x, x = image[n].line.to, image[m].line.to = x,
                    image[m].line.k = "%hi", image[n].line.k = "%lo"
             PROVE  (LuiAddi(<<image[m].imm, image[n].imm>>) = DataAddress(x))
                      = (DataAddress(x) < HalfLow)
  BY DEF DataReachesBelow
<1>1. /\ Kept(Len(text)) /\ Complete(text) /\ Typed
      /\ m \in 1 .. Len(image) /\ n \in 1 .. Len(image)
      /\ \A a \in 1 .. Len(image) :
           /\ image[a].line = ic[a] /\ image[a].imm = ImmediateAt(ic[a], a - 1)
           /\ ~Undefined(ic[a]) /\ ~Refused(ic[a], a - 1)
  BY WordOf DEF Inv
<1>2. /\ ic[m].k = "%hi" /\ ic[n].k = "%lo" /\ ic[m].to = x /\ ic[n].to = x
      /\ image[m].imm = ImmediateAt(ic[m], m - 1)
      /\ image[n].imm = ImmediateAt(ic[n], n - 1)
      /\ ~Undefined(ic[n]) /\ ~Refused(ic[n], n - 1)
  BY <1>1
<1>3. x \in DOMAIN dp /\ ~DataRefused(DataAddress(x))
  BY <1>2 DEF Undefined, Refused
<1>4. PICK y : y = DataAddress(x)
  OBVIOUS
<1>5. y \in Word
  <2>1. dp[x] \in Nat /\ dp[x] <= Len(dc) /\ Len(dc) <= Len(text)
    BY <1>1, <1>3 DEF Typed, LabelsTyped, Kept
  <2>2. Len(dc) \in Nat /\ Len(text) \in Nat
    BY <1>1, LenProperties DEF Typed, DataTyped, ListsTyped
  <2>3. dp[x] <= Len(text)
    BY <2>1, <2>2
  <2> QED
    BY <2>1, <2>3, <1>1, <1>4, Reach DEF DataAddress
<1>6. image[m].imm = DataParts(y)[1] /\ image[n].imm = DataParts(y)[2]
  BY <1>2, <1>4 DEF ImmediateAt
<1>7. (LuiAddi(DataParts(y)) = y) <=> y < HalfLow
  BY <1>3, <1>4, <1>5, DataExact
<1>8. LuiAddi(<<image[m].imm, image[n].imm>>) = LuiAddi(DataParts(y))
  BY <1>6 DEF LuiAddi
<1> QED
  BY <1>4, <1>7, <1>8

\* Whatever the source, the data that %hi and %lo reach are those below 2^11.
THEOREM ReachesBelow == Spec => []DataReachesBelow
BY AssemblerInvariant, InvDataReachesBelow, PTL

-----------------------------------------------------------------------------
(* Data. A datum is put in its bytes of a word; each of the others stays    *)
(* what it is or is cleared.                                                *)

\* What is at an address of the words d.
StoredIn(d, a) ==
  IF (a \div 4) + 1 \in DOMAIN d THEN d[(a \div 4) + 1][(a % 4) + 1] ELSE Zero

\* e differs from d in the s bytes from p on, and in others that are cleared.
Elsewhere(e, d, p, s) ==
  \A a \in Nat : \/ StoredIn(e, a) = StoredIn(d, a)
                 \/ StoredIn(e, a) = Zero
                 \/ a \in p .. (p + s - 1)

\* e is d with the s bytes of the datum of line n at p, and nothing below it
\* touched.
Packed(e, d, p, n, s) ==
  /\ \A a \in 0 .. (p - 1) : StoredIn(e, a) = StoredIn(d, a)
  /\ \A k \in 1 .. s : StoredIn(e, p + k - 1) = Datum(n, k)
  /\ Elsewhere(e, d, p, s)

\* The L-th word of e, counted from 0, is c, and the others are those of d.
Fills(e, d, L, c) ==
  /\ \A a \in 0 .. (4 * L - 1) : StoredIn(e, a) = StoredIn(d, a)
  /\ \A a \in Nat : a >= 4 * L + 4 => StoredIn(e, a) = StoredIn(d, a)
  /\ \A r \in 0 .. 3 : StoredIn(e, 4 * L + r) = c[r + 1]

\* What a word may be for the others to be as they were.
LEMMA FilledElsewhere ==
  ASSUME NEW d, NEW e, NEW L \in Nat, NEW c, NEW p, NEW s, Fills(e, d, L, c),
         \A r \in 0 .. 3 : \/ c[r + 1] = StoredIn(d, 4 * L + r)
                          \/ c[r + 1] = Zero
                          \/ 4 * L + r \in p .. (p + s - 1)
  PROVE  Elsewhere(e, d, p, s)
<1> SUFFICES ASSUME NEW a \in Nat
             PROVE  \/ StoredIn(e, a) = StoredIn(d, a)
                    \/ StoredIn(e, a) = Zero
                    \/ a \in p .. (p + s - 1)
  BY DEF Elsewhere
<1>1. CASE a \in 4 * L .. (4 * L + 3)
  <2>1. PICK r : r = a - 4 * L
    OBVIOUS
  <2>2. r \in 0 .. 3 /\ a = 4 * L + r
    BY <1>1, <2>1
  <2>3. StoredIn(e, a) = c[r + 1]
    BY <2>2 DEF Fills
  <2> QED
    BY <2>2, <2>3
<1>2. CASE a < 4 * L \/ a >= 4 * L + 4
  BY <1>2 DEF Fills
<1> QED
  BY <1>1, <1>2

\* Where a new word comes in.
LEMMA CellAdded ==
  ASSUME NEW d \in Seq(Cells), NEW L, L = Len(d), NEW c \in Cells,
         NEW e, e = Append(d, c)
  PROVE  L \in Nat /\ Len(e) = L + 1 /\ Fills(e, d, L, c)
<1>1. /\ L \in Nat /\ DOMAIN d = 1 .. L /\ Len(e) = L + 1
      /\ DOMAIN e = 1 .. Len(e) /\ \A m \in 1 .. L : e[m] = d[m]
      /\ e[L + 1] = c
  BY LenProperties, AppendProperties
<1>2. ASSUME NEW a \in 0 .. (4 * L - 1)
      PROVE  StoredIn(e, a) = StoredIn(d, a)
  <2>1. (a \div 4) + 1 \in 1 .. L
    BY <1>1
  <2> QED
    BY <1>1, <2>1 DEF StoredIn
<1>3. ASSUME NEW r \in 0 .. 3
      PROVE  StoredIn(e, 4 * L + r) = c[r + 1]
  <2>1. PICK a : a = 4 * L + r
    OBVIOUS
  <2>2. a \div 4 = L /\ a % 4 = r
    BY <1>1, <2>1
  <2>3. L + 1 \in DOMAIN e
    BY <1>1
  <2> QED
    BY <1>1, <2>1, <2>2, <2>3 DEF StoredIn
<1>4. ASSUME NEW a \in Nat, a >= 4 * L + 4
      PROVE  StoredIn(e, a) = StoredIn(d, a)
  <2>1. (a \div 4) + 1 \notin 1 .. (L + 1) /\ (a \div 4) + 1 \notin 1 .. L
    BY <1>1, <1>4
  <2> QED
    BY <1>1, <2>1 DEF StoredIn
<1> QED
  BY <1>1, <1>2, <1>3, <1>4 DEF Fills

\* Where the last word is replaced.
LEMMA CellReplaced ==
  ASSUME NEW d \in Seq(Cells), NEW L, L = Len(d), d # <<>>, NEW c \in Cells,
         NEW e, e = [d EXCEPT ![L] = c]
  PROVE  /\ L \in Nat \ {0} /\ Len(e) = L
         /\ Fills(e, d, L - 1, c) /\ Fills(d, d, L - 1, d[L])
<1>1. /\ L \in Nat \ {0} /\ DOMAIN d = 1 .. L /\ DOMAIN e = 1 .. L
      /\ \A m \in 1 .. L : m # L => e[m] = d[m]
      /\ e[L] = c
  BY LenProperties, EmptySeq
<1>2. Len(e) = L
  BY ReplacedIn
<1>3. ASSUME NEW a \in 0 .. (4 * (L - 1) - 1)
      PROVE  StoredIn(e, a) = StoredIn(d, a)
  <2>1. (a \div 4) + 1 \in 1 .. L /\ (a \div 4) + 1 # L
    BY <1>1
  <2> QED
    BY <1>1, <2>1 DEF StoredIn
<1>5. ASSUME NEW a \in Nat, a >= 4 * (L - 1) + 4
      PROVE  StoredIn(e, a) = StoredIn(d, a)
  <2>1. (a \div 4) + 1 \notin 1 .. L
    BY <1>1, <1>5
  <2> QED
    BY <1>1, <2>1 DEF StoredIn
<1>4. ASSUME NEW r \in 0 .. 3
      PROVE  /\ StoredIn(e, 4 * (L - 1) + r) = c[r + 1]
             /\ StoredIn(d, 4 * (L - 1) + r) = d[L][r + 1]
  <2>1. PICK a : a = 4 * (L - 1) + r
    OBVIOUS
  <2>2. a \div 4 = L - 1 /\ a % 4 = r
    BY <1>1, <2>1
  <2>3. (L - 1) + 1 = L /\ L \in 1 .. L
    BY <1>1
  <2> QED
    BY <1>1, <2>1, <2>2, <2>3 DEF StoredIn
<1> QED
  BY <1>1, <1>2, <1>3, <1>4, <1>5 DEF Fills

\* A word comes behind the others.
LEMMA WordPacked ==
  ASSUME NEW d \in Seq(Cells), NEW L, L = Len(d), NEW n \in Nat,
         NEW e, e = AddWord(d, n)
  PROVE  /\ Packed(e, d, 4 * L, n, 4)
         /\ L \in Nat /\ Len(e) = L + 1
<1> DEFINE c == [k \in 1 .. 4 |-> Datum(n, k)]
<1>1. c \in Cells /\ e = Append(d, c)
  <2>1. Zero \in Nat \X Nat
    BY DEF Zero
  <2> QED
    BY <2>1, CellTypes DEF AddWord
<1>2. \A k \in 1 .. 4 : c[k] = Datum(n, k)
  OBVIOUS
<1> HIDE DEF c
<1>5. L \in Nat /\ Len(e) = L + 1 /\ Fills(e, d, L, c)
  BY <1>1, CellAdded
<1>3. /\ L \in Nat /\ Len(e) = L + 1
      /\ \A a \in 0 .. (4 * L - 1) : StoredIn(e, a) = StoredIn(d, a)
      /\ \A r \in 0 .. 3 : StoredIn(e, 4 * L + r) = c[r + 1]
  BY <1>5 DEF Fills
<1>4. ASSUME NEW k \in 1 .. 4
      PROVE  StoredIn(e, 4 * L + k - 1) = Datum(n, k)
  <2>1. /\ k - 1 \in 0 .. 3 /\ (k - 1) + 1 = k
        /\ 4 * L + (k - 1) = 4 * L + k - 1
    BY <1>3
  <2> QED
    BY <1>2, <1>3, <2>1
<1>6. Elsewhere(e, d, 4 * L, 4)
  <2>1. \A r \in 0 .. 3 : 4 * L + r \in 4 * L .. (4 * L + 4 - 1)
    BY <1>3
  <2> QED
    BY <1>5, <2>1, FilledElsewhere
<1> QED
  BY <1>3, <1>4, <1>6 DEF Packed

\* Where the next half or byte goes if there are L words.
HalfAt(L, h) == IF h = 0 THEN 4 * L ELSE 4 * L - 2
ByteAt(L, b) == IF b = 0 THEN 4 * L ELSE 4 * (L - 1) + b

\* Two halves share a word, the second above the first.
LEMMA HalfPacked ==
  ASSUME NEW d \in Seq(Cells), NEW L, L = Len(d), NEW n \in Nat, NEW h \in 0 .. 1,
         h # 0 => d # <<>>,
         NEW e, e = AddHalf(d, h, n)
  PROVE  /\ Packed(e, d, HalfAt(L, h), n, 2) /\ L \in Nat
         /\ h = 0 => Len(e) = L + 1
         /\ h # 0 => Len(e) = L /\ L > 0
<1>1. CASE h = 0
  <2> DEFINE c == <<Datum(n, 1), Datum(n, 2), Zero, Zero>>
  <2>1. c \in Cells /\ e = Append(d, c)
    <3>1. Zero \in Nat \X Nat
      BY DEF Zero
    <3> QED
      BY <1>1, <3>1, CellTypes DEF AddHalf
  <2>2. c[1] = Datum(n, 1) /\ c[2] = Datum(n, 2) /\ c[3] = Zero /\ c[4] = Zero
    OBVIOUS
  <2> HIDE DEF c
  <2>5. L \in Nat /\ Len(e) = L + 1 /\ Fills(e, d, L, c)
    BY <2>1, CellAdded
  <2>3. /\ L \in Nat /\ Len(e) = L + 1
        /\ \A a \in 0 .. (4 * L - 1) : StoredIn(e, a) = StoredIn(d, a)
        /\ \A r \in 0 .. 3 : StoredIn(e, 4 * L + r) = c[r + 1]
    BY <2>5 DEF Fills
  <2>4. ASSUME NEW k \in 1 .. 2
        PROVE  StoredIn(e, 4 * L + k - 1) = Datum(n, k)
    <3>1. /\ k - 1 \in 0 .. 3 /\ (k - 1) + 1 = k /\ k \in {1, 2}
          /\ 4 * L + (k - 1) = 4 * L + k - 1
      BY <2>3
    <3> QED
      BY <2>2, <2>3, <3>1
  <2>6. Elsewhere(e, d, 4 * L, 2)
    <3>1. \A r \in 0 .. 3 : c[r + 1] = Zero \/ 4 * L + r \in 4 * L .. (4 * L + 2 - 1)
      <4> TAKE r \in 0 .. 3
      <4>1. r \in {0, 1} \/ r + 1 = 3 \/ r + 1 = 4
        OBVIOUS
      <4> QED
        BY <4>1, <2>2, <2>3
    <3> QED
      BY <2>5, <3>1, FilledElsewhere
  <2> QED
    BY <1>1, <2>3, <2>4, <2>6 DEF Packed, HalfAt
<1>2. CASE h # 0
  <2> DEFINE last == d[L]
             c == <<last[1], last[2], Datum(n, 1), Datum(n, 2)>>
  <2>1. last \in Cells
    <3>1. L \in 1 .. L
      BY <1>2, LenProperties, EmptySeq
    <3> QED
      BY <3>1, ElementOfSeq
  <2>2. c \in Cells /\ e = [d EXCEPT ![L] = c]
    <3>1. last[1] \in Nat \X Nat /\ last[2] \in Nat \X Nat
      <4> HIDE DEF last
      <4> QED
        BY <2>1 DEF Cells
    <3>2. c \in Cells
      BY <3>1, CellTypes
    <3> QED
      BY <1>2, <3>2 DEF AddHalf
  <2>3. c[1] = last[1] /\ c[2] = last[2] /\ c[3] = Datum(n, 1) /\ c[4] = Datum(n, 2)
    OBVIOUS
  <2> HIDE DEF c
  <2>7. /\ L \in Nat \ {0} /\ Len(e) = L
        /\ Fills(e, d, L - 1, c) /\ Fills(d, d, L - 1, last)
    BY <1>2, <2>2, <2>3, CellReplaced DEF last
  <2>4. /\ L \in Nat \ {0} /\ Len(e) = L
        /\ \A a \in 0 .. (4 * (L - 1) - 1) : StoredIn(e, a) = StoredIn(d, a)
        /\ \A r \in 0 .. 3 : /\ StoredIn(e, 4 * (L - 1) + r) = c[r + 1]
                             /\ StoredIn(d, 4 * (L - 1) + r) = last[r + 1]
    BY <2>7 DEF Fills
  <2> HIDE DEF last
  <2>8. L \in Nat \ {0}
    BY <2>7
  <2>5. ASSUME NEW a \in 0 .. (4 * L - 2 - 1)
        PROVE  StoredIn(e, a) = StoredIn(d, a)
    <3>1. CASE a <= 4 * (L - 1) - 1
      BY <3>1, <2>4
    <3>2. CASE a > 4 * (L - 1) - 1
      <4>1. /\ a = 4 * (L - 1) + 0 \/ a = 4 * (L - 1) + 1
            /\ 0 \in 0 .. 3 /\ 1 \in 0 .. 3 /\ 0 + 1 = 1 /\ 1 + 1 = 2
        BY <3>2, <2>8
      <4>2. /\ StoredIn(e, 4 * (L - 1) + 0) = StoredIn(d, 4 * (L - 1) + 0)
            /\ StoredIn(e, 4 * (L - 1) + 1) = StoredIn(d, 4 * (L - 1) + 1)
        BY <4>1, <2>3, <2>4
      <4> QED
        BY <4>1, <4>2
    <3> QED
      BY <3>1, <3>2, <2>4
  <2>6. ASSUME NEW k \in 1 .. 2
        PROVE  StoredIn(e, 4 * L - 2 + k - 1) = Datum(n, k)
    <3>1. /\ k + 1 \in 0 .. 3 /\ (k + 1) + 1 \in {3, 4} /\ k \in {1, 2}
          /\ 4 * (L - 1) + (k + 1) = 4 * L - 2 + k - 1
      BY <2>4
    <3>2. StoredIn(e, 4 * L - 2 + k - 1) = c[(k + 1) + 1]
      BY <2>4, <3>1
    <3>3. c[(k + 1) + 1] = Datum(n, k)
      BY <2>3, <3>1
    <3> QED
      BY <3>2, <3>3
  <2>9. Elsewhere(e, d, 4 * L - 2, 2)
    <3>1. ASSUME NEW r \in 0 .. 3
          PROVE  \/ c[r + 1] = StoredIn(d, 4 * (L - 1) + r)
                 \/ 4 * (L - 1) + r \in (4 * L - 2) .. (4 * L - 2 + 2 - 1)
      <4>1. r + 1 = 1 \/ r + 1 = 2 \/ r \in {2, 3}
        OBVIOUS
      <4>2. r \in {2, 3} => 4 * (L - 1) + r \in (4 * L - 2) .. (4 * L - 2 + 2 - 1)
        BY <2>8
      <4> QED
        BY <4>1, <4>2, <2>3, <2>4
    <3>2. L - 1 \in Nat /\ Fills(e, d, L - 1, c)
      BY <2>7
    <3> QED
      BY <3>1, <3>2, FilledElsewhere
  <2> QED
    BY <1>2, <2>4, <2>5, <2>6, <2>9 DEF Packed, HalfAt
<1> QED
  BY <1>1, <1>2

\* Four bytes share a word, each above those before it.
LEMMA BytePacked ==
  ASSUME NEW d \in Seq(Cells), NEW L, L = Len(d), NEW n \in Nat, NEW b \in 0 .. 3,
         b # 0 => d # <<>>,
         NEW e, e = AddByte(d, b, n)
  PROVE  /\ Packed(e, d, ByteAt(L, b), n, 1) /\ L \in Nat
         /\ b = 0 => Len(e) = L + 1
         /\ b # 0 => Len(e) = L /\ L > 0
<1>1. CASE b = 0
  <2> DEFINE c == <<Datum(n, 1), Zero, Zero, Zero>>
  <2>1. c \in Cells /\ e = Append(d, c)
    <3>1. Zero \in Nat \X Nat
      BY DEF Zero
    <3> QED
      BY <1>1, <3>1, CellTypes DEF AddByte
  <2>2. c[1] = Datum(n, 1) /\ c[2] = Zero /\ c[3] = Zero /\ c[4] = Zero
    OBVIOUS
  <2> HIDE DEF c
  <2>5. L \in Nat /\ Len(e) = L + 1 /\ Fills(e, d, L, c)
    BY <2>1, CellAdded
  <2>3. /\ L \in Nat /\ Len(e) = L + 1
        /\ \A a \in 0 .. (4 * L - 1) : StoredIn(e, a) = StoredIn(d, a)
        /\ \A r \in 0 .. 3 : StoredIn(e, 4 * L + r) = c[r + 1]
    BY <2>5 DEF Fills
  <2>4. ASSUME NEW k \in 1 .. 1
        PROVE  StoredIn(e, 4 * L + k - 1) = Datum(n, k)
    <3>1. /\ 0 \in 0 .. 3 /\ 0 + 1 = 1 /\ k = 1
          /\ 4 * L + 0 = 4 * L + k - 1
      BY <2>3
    <3> QED
      BY <2>2, <2>3, <3>1
  <2>6. Elsewhere(e, d, 4 * L, 1)
    <3>1. \A r \in 0 .. 3 : c[r + 1] = Zero \/ 4 * L + r \in 4 * L .. (4 * L + 1 - 1)
      <4> TAKE r \in 0 .. 3
      <4>1. r = 0 \/ r + 1 = 2 \/ r + 1 = 3 \/ r + 1 = 4
        OBVIOUS
      <4>2. r = 0 => 4 * L + r \in 4 * L .. (4 * L + 1 - 1)
        BY <2>3
      <4> QED
        BY <4>1, <4>2, <2>2
    <3> QED
      BY <2>5, <3>1, FilledElsewhere
  <2> QED
    BY <1>1, <2>3, <2>4, <2>6 DEF Packed, ByteAt
<1>2. CASE b # 0
  <2> DEFINE last == d[L]
             c == [k \in 1 .. 4 |-> IF k <= b THEN last[k]
                                    ELSE IF k = b + 1 THEN Datum(n, 1)
                                    ELSE Zero]
  <2>1. last \in Cells
    <3>1. L \in 1 .. L
      BY <1>2, LenProperties, EmptySeq
    <3> QED
      BY <3>1, ElementOfSeq
  <2>2. e = [d EXCEPT ![L] = c]
    BY <1>2 DEF AddByte
  <2>3. /\ c \in Cells /\ c[b + 1] = Datum(n, 1) /\ \A k \in 1 .. b : c[k] = last[k]
        /\ \A k \in (b + 2) .. 4 : c[k] = Zero
    <3>1. \A k \in 1 .. 4 : last[k] \in Nat \X Nat
      BY <2>1 DEF Cells
    <3>2. Zero \in Nat \X Nat /\ Datum(n, 1) \in Nat \X Nat
      BY DEF Zero, Datum
    <3>3. /\ b + 1 \in 1 .. 4 /\ ~(b + 1 <= b) /\ \A k \in 1 .. b : k \in 1 .. 4 /\ k <= b
          /\ \A k \in (b + 2) .. 4 : k \in 1 .. 4 /\ ~(k <= b) /\ k # b + 1
      OBVIOUS
    <3> HIDE DEF last
    <3> QED
      BY <3>1, <3>2, <3>3 DEF Cells
  <2> HIDE DEF c
  <2>7. /\ L \in Nat \ {0} /\ Len(e) = L
        /\ Fills(e, d, L - 1, c) /\ Fills(d, d, L - 1, last)
    BY <1>2, <2>2, <2>3, CellReplaced DEF last
  <2>4. /\ L \in Nat \ {0} /\ Len(e) = L
        /\ \A a \in 0 .. (4 * (L - 1) - 1) : StoredIn(e, a) = StoredIn(d, a)
        /\ \A r \in 0 .. 3 : /\ StoredIn(e, 4 * (L - 1) + r) = c[r + 1]
                             /\ StoredIn(d, 4 * (L - 1) + r) = last[r + 1]
    BY <2>7 DEF Fills
  <2> HIDE DEF last
  <2>8. L \in Nat \ {0}
    BY <2>7
  <2>5. ASSUME NEW a \in 0 .. (4 * (L - 1) + b - 1)
        PROVE  StoredIn(e, a) = StoredIn(d, a)
    <3>1. CASE a <= 4 * (L - 1) - 1
      BY <3>1, <2>4
    <3>2. CASE a > 4 * (L - 1) - 1
      <4>1. PICK r : r = a - 4 * (L - 1)
        OBVIOUS
      <4>2. r \in 0 .. 3 /\ r + 1 \in 1 .. b /\ a = 4 * (L - 1) + r
        BY <3>2, <4>1, <2>8
      <4> QED
        BY <4>2, <2>3, <2>4
    <3> QED
      BY <3>1, <3>2, <2>4
  <2>6. ASSUME NEW k \in 1 .. 1
        PROVE  StoredIn(e, 4 * (L - 1) + b + k - 1) = Datum(n, k)
    <3>1. k = 1 /\ 4 * (L - 1) + b + k - 1 = 4 * (L - 1) + b /\ b \in 0 .. 3
      BY <2>4
    <3> QED
      BY <2>3, <2>4, <3>1
  <2>9. Elsewhere(e, d, 4 * (L - 1) + b, 1)
    <3>1. ASSUME NEW r \in 0 .. 3
          PROVE  \/ c[r + 1] = StoredIn(d, 4 * (L - 1) + r)
                 \/ c[r + 1] = Zero
                 \/ 4 * (L - 1) + r \in (4 * (L - 1) + b) .. (4 * (L - 1) + b + 1 - 1)
      <4>1. r + 1 \in 1 .. b \/ r = b \/ r + 1 \in (b + 2) .. 4
        OBVIOUS
      <4>2. r = b => 4 * (L - 1) + r \in (4 * (L - 1) + b) .. (4 * (L - 1) + b + 1 - 1)
        BY <2>8
      <4>3. r + 1 \in 1 .. b => c[r + 1] = StoredIn(d, 4 * (L - 1) + r)
        BY <2>3, <2>4
      <4> QED
        BY <4>1, <4>2, <4>3, <2>3
    <3>2. L - 1 \in Nat /\ Fills(e, d, L - 1, c)
      BY <2>7
    <3> QED
      BY <3>1, <3>2, FilledElsewhere
  <2> QED
    BY <1>2, <2>4, <2>5, <2>6, <2>9 DEF Packed, ByteAt
<1> QED
  BY <1>1, <1>2

-----------------------------------------------------------------------------
(* The data of the text are those of the source.                           *)

\* Of the first N lines every datum has a line in t, one of its kind, and no
\* other line comes from it.
Mirrors(t, N) ==
  /\ \A m \in DOMAIN t : IsDatum(t[m]) =>
       t[m].from \in 1 .. N /\ t[m].k = source[t[m].from].k
  /\ \A n \in 1 .. N : IsDatum(source[n]) => \E m \in DOMAIN t : t[m].from = n /\ IsDatum(t[m])
  /\ \A m, o \in DOMAIN t : IsDatum(t[m]) /\ t[m].from = t[o].from => m = o

\* A datum becomes itself, and nothing else becomes a datum.
LEMMA DatumExpands ==
  ASSUME Typed, NEW n \in DOMAIN source, NEW e, e = expand_ins(source[n], n)
  PROVE  /\ \A m \in 1 .. Len(e) : IsDatum(e[m]) => e[m].k = source[n].k
         /\ IsDatum(source[n]) => Len(e) = 1 /\ IsDatum(e[1])
<1>1. PICK l : l = source[n]
  OBVIOUS
<1>2. l \in SourceLine /\ n \in Nat \ {0} /\ e = expand_ins(l, n)
  BY <1>1, Source
<1>3. Becomes(l, n, e)
  BY <1>2, Expansion
<1>11. ASSUME NEW a, e = <<a>>
       PROVE  Len(e) = 1 /\ e[1] = a
  BY <1>11
<1>12. ASSUME NEW a, NEW b, e = <<a, b>>
       PROVE  Len(e) = 2 /\ e[1] = a /\ e[2] = b
  BY <1>12
<1>4. ASSUME NEW a, e = <<a>>, ~IsDatum(a), ~IsDatum(l)
      PROVE  /\ \A m \in 1 .. Len(e) : IsDatum(e[m]) => e[m].k = l.k
             /\ IsDatum(l) => Len(e) = 1 /\ IsDatum(e[1])
  <2>1. Len(e) = 1 /\ e[1] = a /\ \A m \in 1 .. 1 : m = 1
    BY <1>4, <1>11
  <2> QED
    BY <2>1, <1>4
<1>5. ASSUME NEW a, NEW b, e = <<a, b>>, ~IsDatum(a), ~IsDatum(b), ~IsDatum(l)
      PROVE  /\ \A m \in 1 .. Len(e) : IsDatum(e[m]) => e[m].k = l.k
             /\ IsDatum(l) => Len(e) = 1 /\ IsDatum(e[1])
  <2>1. Len(e) = 2 /\ e[1] = a /\ e[2] = b /\ \A m \in 1 .. 2 : m = 1 \/ m = 2
    BY <1>5, <1>12
  <2> QED
    BY <2>1, <1>5
<1>6. \A x, y, z : /\ ~IsDatum(Line("addi", x, y, z)) /\ ~IsDatum(Line("lui", x, y, z))
                   /\ ~IsDatum(Line("jalrcus", x, y, z))
                   /\ ~IsDatum(Line("%h20", x, y, z)) /\ ~IsDatum(Line("%l12", x, y, z))
  BY DEF IsDatum, Line
<1>7. CASE l.k = "li"
  <2>1. ~IsDatum(l)
    BY <1>7 DEF IsDatum
  <2>2. \/ e = <<Line("addi", "zero", LoadImmediate(l.v)[2], n)>>
        \/ e = <<Line("lui", "", LoadImmediate(l.v)[1], n),
                 Line("addi", "rd", LoadImmediate(l.v)[2], n)>>
    BY <1>3, <1>7 DEF Becomes
  <2> QED
    BY <1>1, <1>4, <1>5, <1>6, <2>1, <2>2
<1>8. CASE l.k = "call"
  <2>1. ~IsDatum(l)
    BY <1>8 DEF IsDatum
  <2>2. \/ e = <<Line("jalrcus", "", 0, n)>>
        \/ e = <<Line("%h20", l.to, 0, n), Line("%l12", l.to, 0, n)>>
    BY <1>3, <1>8 DEF Becomes
  <2> QED
    BY <1>1, <1>4, <1>5, <1>6, <2>1, <2>2
<1>9. CASE l.k # "li" /\ l.k # "call"
  <2>1. Len(e) = 1 /\ e[1].k = l.k
    BY <1>3, <1>9, Zenon DEF Becomes
  <2>2. \A m \in 1 .. 1 : m = 1
    OBVIOUS
  <2> QED
    BY <1>1, <2>1, <2>2 DEF IsDatum
<1> QED
  BY <1>7, <1>8, <1>9

\* Expand adds what the next line is.
LEMMA MirrorsNext ==
  ASSUME Typed, NEW t \in Seq(Lines), NEW n \in DOMAIN source, Expanded(t, n - 1),
         Mirrors(t, n - 1), NEW r, r = t \o expand_ins(source[n], n)
  PROVE  Mirrors(r, n)
<1>0. PICK e, L : e = expand_ins(source[n], n) /\ L = Len(t)
  OBVIOUS
<1>1. /\ e \in Seq(Lines) /\ Len(e) \in 1 .. 2 /\ r = t \o e
      /\ \A m \in 1 .. Len(e) : e[m].from = n
      /\ \A m \in 1 .. Len(e) : IsDatum(e[m]) => e[m].k = source[n].k
      /\ IsDatum(source[n]) => Len(e) = 1 /\ IsDatum(e[1])
  <2>1. /\ e \in Seq(Lines) /\ Len(e) \in 1 .. 2 /\ \A m \in 1 .. Len(e) : e[m].from = n
    BY <1>0, ExpansionOf
  <2>2. /\ \A m \in 1 .. Len(e) : IsDatum(e[m]) => e[m].k = source[n].k
        /\ IsDatum(source[n]) => Len(e) = 1 /\ IsDatum(e[1])
    BY <1>0, DatumExpands
  <2> QED
    BY <1>0, <2>1, <2>2
<1>3. L \in Nat /\ DOMAIN t = 1 .. L /\ n \in Nat \ {0}
  BY <1>0, LenProperties, Source
<1>4. /\ r \in Seq(Lines) /\ Len(r) = L + Len(e)
      /\ \A m \in 1 .. L + Len(e) : r[m] = IF m <= L THEN t[m] ELSE e[m - L]
  BY <1>0, <1>1, ConcatProperties
<1>5. DOMAIN r = 1 .. (L + Len(e))
  BY <1>4, LenProperties
<1>6. \A m \in 1 .. L : m \in DOMAIN r /\ r[m] = t[m] /\ m \in DOMAIN t
  BY <1>1, <1>3, <1>4, <1>5
<1>7. \A m \in 1 .. Len(e) : L + m \in DOMAIN r /\ r[L + m] = e[m]
  <2> TAKE m \in 1 .. Len(e)
  <2>1. L + m \in 1 .. L + Len(e) /\ ~(L + m <= L) /\ (L + m) - L = m
    BY <1>1, <1>3
  <2> QED
    BY <2>1, <1>4, <1>5
<1>8. ASSUME NEW m \in DOMAIN r
      PROVE  \/ m \in 1 .. L /\ r[m] = t[m]
             \/ \E o \in 1 .. Len(e) : m = L + o /\ r[m] = e[o]
  <2>1. CASE m <= L
    BY <2>1, <1>3, <1>5, <1>6
  <2>2. CASE m > L
    <3>1. PICK o : o = m - L
      OBVIOUS
    <3>2. o \in 1 .. Len(e) /\ m = L + o
      BY <2>2, <3>1, <1>1, <1>3, <1>5
    <3> QED
      BY <3>2, <1>7
  <2> QED
    BY <2>1, <2>2, <1>1, <1>3, <1>5
<1>9. \A m \in 1 .. L : t[m].from \in 1 .. (n - 1) /\ t[m].from < n
  <2>1. \A m \in DOMAIN t : t[m].from \in 1 .. (n - 1)
    BY Zenon DEF Expanded
  <2>2. \A x \in 1 .. (n - 1) : x < n
    BY <1>3
  <2> QED
    BY <2>1, <2>2, <1>3
<1>10. ASSUME NEW m \in DOMAIN r, IsDatum(r[m])
       PROVE  r[m].from \in 1 .. n /\ r[m].k = source[r[m].from].k
  <2>1. CASE m \in 1 .. L /\ r[m] = t[m]
    BY <2>1, <1>3, <1>10 DEF Mirrors
  <2>2. ASSUME NEW o \in 1 .. Len(e), m = L + o, r[m] = e[o]
        PROVE  r[m].from \in 1 .. n /\ r[m].k = source[r[m].from].k
    <3>1. e[o].from = n /\ (IsDatum(e[o]) => e[o].k = source[n].k)
      BY <1>1
    <3>2. n \in 1 .. n
      BY <1>3
    <3> QED
      BY <2>2, <3>1, <3>2, <1>10
  <2> QED
    BY <2>1, <2>2, <1>8
<1>11. ASSUME NEW o \in 1 .. n, IsDatum(source[o])
       PROVE  \E m \in DOMAIN r : r[m].from = o /\ IsDatum(r[m])
  <2>1. CASE o = n
    <3>1. r[L + 1] = e[1] /\ L + 1 \in DOMAIN r /\ e[1].from = n
      BY <1>1, <1>7
    <3> QED
      BY <2>1, <3>1, <1>1, <1>11
  <2>2. CASE o \in 1 .. (n - 1)
    <3>1. PICK m \in DOMAIN t : t[m].from = o /\ IsDatum(t[m])
      BY <2>2, <1>11 DEF Mirrors
    <3> QED
      BY <3>1, <1>3, <1>6
  <2> QED
    BY <2>1, <2>2, <1>3
<1>12. ASSUME NEW m \in DOMAIN r, NEW o \in DOMAIN r, IsDatum(r[m]), r[m].from = r[o].from
       PROVE  m = o
  <2>1. CASE m \in 1 .. L /\ r[m] = t[m]
    <3>1. o \in 1 .. L /\ r[o] = t[o]
      <4>1. r[o].from < n
        BY <2>1, <1>9, <1>12
      <4>2. ~(r[o].from = n)
        BY <4>1, <1>3
      <4>3. \A q \in 1 .. Len(e) : e[q].from = n
        BY <1>1
      <4> QED
        BY <4>2, <4>3, <1>8
    <3> QED
      BY <2>1, <3>1, <1>3, <1>12 DEF Mirrors
  <2>2. ASSUME NEW p \in 1 .. Len(e), m = L + p, r[m] = e[p]
        PROVE  m = o
    <3>1. IsDatum(source[n]) /\ r[o].from = n
      <4>1. e[p].from = n /\ (IsDatum(e[p]) => e[p].k = source[n].k)
        BY <1>1
      <4> QED
        BY <4>1, <2>2, <1>12 DEF IsDatum
    <3>2. Len(e) = 1 /\ p = 1
      <4>1. Len(e) = 1 /\ p \in 1 .. Len(e)
        BY <3>1, <1>1
      <4> QED
        BY <4>1
    <3>3. PICK q \in 1 .. Len(e) : o = L + q
      BY <3>1, <1>8, <1>9
    <3> QED
      BY <2>2, <3>2, <3>3
  <2> QED
    BY <2>1, <2>2, <1>8
<1> QED
  BY <1>10, <1>11, <1>12 DEF Mirrors

\* The zeros of main are no data.
LEMMA MirrorsZeros ==
  ASSUME Typed, NEW t \in Seq(Lines), Expanded(t, Len(source)), Mirrors(t, Len(source)),
         \E n \in DOMAIN t : IsMain(t[n]), NEW r, r = WithZeros(t)
  PROVE  Mirrors(r, Len(source))
<1>0. PICK n, z : n = FirstMain(t) /\ z = pre_zero
  OBVIOUS
<1>1. /\ n \in 1 .. Len(t) /\ IsMain(t[n]) /\ \A m \in 1 .. (n - 1) : ~IsMain(t[m])
      /\ r \in Seq(Lines) /\ Len(r) = Len(t) + z
      /\ \A m \in 1 .. n : r[m] = t[m]
      /\ \A m \in (n + 1) .. (n + z) : r[m] = Line("addi", "zero", 0, t[n].from)
      /\ \A m \in (n + z + 1) .. Len(r) : r[m] = t[m - z]
  BY <1>0, Inserted
<1>2. /\ Len(t) \in Nat /\ DOMAIN t = 1 .. Len(t) /\ DOMAIN r = 1 .. Len(r)
      /\ z \in Nat \ {0} /\ Len(r) \in Nat
  BY <1>0, <1>1, LenProperties, LabelsAssumption
<1>3. PICK p, zero : p = t[n].from /\ zero = Line("addi", "zero", 0, p)
  OBVIOUS
<1>4. zero.from = p /\ ~IsDatum(zero) /\ t[n].from = p /\ ~IsDatum(t[n])
  BY <1>1, <1>3 DEF Line, IsDatum, IsMain
<1>5. ASSUME NEW m \in DOMAIN r
      PROVE  \/ r[m] = zero
             \/ m \in 1 .. n /\ r[m] = t[m] /\ m \in DOMAIN t
             \/ m > n + z /\ m - z \in DOMAIN t /\ m - z > n /\ r[m] = t[m - z]
  <2>1. CASE m \in 1 .. n
    BY <2>1, <1>1, <1>2
  <2>2. CASE m \in (n + 1) .. (n + z)
    BY <2>2, <1>1, <1>3
  <2>3. CASE m \in (n + z + 1) .. Len(r)
    <3>1. m > n + z /\ m - z \in DOMAIN t /\ m - z > n
      BY <2>3, <1>1, <1>2
    <3> QED
      BY <2>3, <3>1, <1>1
  <2> QED
    BY <2>1, <2>2, <2>3, <1>1, <1>2
<1>6. ASSUME NEW m \in DOMAIN r, IsDatum(r[m])
      PROVE  \E o \in DOMAIN t : /\ r[m] = t[o] /\ IsDatum(t[o])
                                 /\ m = IF o <= n THEN o ELSE o + z
  <2>1. CASE m \in 1 .. n /\ r[m] = t[m] /\ m \in DOMAIN t
    BY <2>1, <1>6
  <2>2. CASE m > n + z /\ m - z \in DOMAIN t /\ m - z > n /\ r[m] = t[m - z]
    <3>1. PICK o : o = m - z
      OBVIOUS
    <3>2. o \in DOMAIN t /\ o > n /\ r[m] = t[o] /\ m = o + z /\ ~(o <= n)
      BY <3>1, <2>2, <1>1, <1>2
    <3> QED
      BY <3>2, <1>6
  <2> QED
    BY <2>1, <2>2, <1>4, <1>5, <1>6
<1>7. ASSUME NEW o \in DOMAIN t
      PROVE  \E m \in DOMAIN r : r[m] = t[o]
  <2>1. CASE o <= n
    BY <2>1, <1>1, <1>2
  <2>2. CASE o > n
    <3>1. PICK m : m = o + z
      OBVIOUS
    <3>2. m \in (n + z + 1) .. Len(r) /\ m - z = o /\ m \in DOMAIN r
      BY <2>2, <3>1, <1>1, <1>2
    <3> QED
      BY <3>2, <1>1
  <2> QED
    BY <2>1, <2>2, <1>1, <1>2
<1>8. ASSUME NEW m \in DOMAIN r, NEW o \in DOMAIN r, IsDatum(r[m]), r[m].from = r[o].from
      PROVE  m = o
  <2>1. PICK a \in DOMAIN t : /\ r[m] = t[a] /\ IsDatum(t[a])
                              /\ m = IF a <= n THEN a ELSE a + z
    BY <1>6, <1>8
  <2>2. \A b \in DOMAIN t : t[b].from = t[a].from => b = a
    BY <2>1 DEF Mirrors
  <2>3. r[o] # zero
    <3>1. p # t[a].from
      BY <2>1, <2>2, <1>1, <1>2, <1>4
    <3> QED
      BY <3>1, <2>1, <1>4, <1>8
  <2>4. r[o].from = t[a].from
    BY <2>1, <1>8
  <2>5. IsDatum(r[o])
    BY <2>1, <2>2, <2>3, <2>4, <1>5
  <2>6. PICK b \in DOMAIN t : r[o] = t[b] /\ o = IF b <= n THEN b ELSE b + z
    BY <2>5, <1>6
  <2> QED
    BY <2>1, <2>2, <2>4, <2>6
<1>9. \A m \in DOMAIN r : IsDatum(r[m]) =>
        r[m].from \in 1 .. Len(source) /\ r[m].k = source[r[m].from].k
  BY <1>6 DEF Mirrors
<1>10. ASSUME NEW q \in 1 .. Len(source), IsDatum(source[q])
       PROVE  \E m \in DOMAIN r : r[m].from = q /\ IsDatum(r[m])
  <2>1. PICK o \in DOMAIN t : t[o].from = q /\ IsDatum(t[o])
    BY <1>10 DEF Mirrors
  <2>2. PICK m \in DOMAIN r : r[m] = t[o]
    BY <1>7
  <2> QED
    BY <2>1, <2>2
<1> QED
  BY <1>8, <1>9, <1>10 DEF Mirrors

\* Text lines of one kind, up to the K-th, by where they come from.
Seen(k, K) == {text[m].from : m \in {o \in 1 .. K : text[o].k = k}}

\* What comes before and behind the line of a datum comes from before and behind it.
LEMMA AroundDatum ==
  ASSUME Typed, Complete(text), Mirrors(text, Len(source)),
         NEW m \in DOMAIN text, IsDatum(text[m]), NEW n, n = text[m].from
  PROVE  /\ n \in DOMAIN source /\ source[n].k = text[m].k /\ IsDatum(source[n])
         /\ SizeOf(source[n]) = SizeOf(text[m])
         /\ \A o \in DOMAIN text : text[o].from < n => o < m
         /\ \A o \in DOMAIN text : o < m => text[o].from \in 1 .. (n - 1)
<1>1. /\ Len(text) \in Nat /\ DOMAIN text = 1 .. Len(text)
      /\ Len(source) \in Nat /\ DOMAIN source = 1 .. Len(source)
  BY LenProperties, Source DEF Typed, ListsTyped
<1>2. n \in 1 .. Len(source) /\ source[n].k = text[m].k /\ IsDatum(source[n])
  BY DEF Mirrors, IsDatum
<1>3. SizeOf(source[n]) = SizeOf(text[m])
  BY <1>2 DEF SizeOf, IsDatum
<1>4. \A o \in DOMAIN text : text[o].from \in 1 .. Len(source)
  BY <1>1 DEF Complete
<1>5. \A o \in DOMAIN text : text[o].from < n => o < m
  <2> TAKE o \in DOMAIN text
  <2>1. m <= o => n <= text[o].from
    BY DEF Complete, Ordered
  <2> QED
    BY <2>1, <1>1, <1>2, <1>4
<1>6. \A o \in DOMAIN text : o < m => text[o].from \in 1 .. (n - 1)
  <2> TAKE o \in DOMAIN text
  <2>1. o <= m => text[o].from <= n
    BY DEF Complete, Ordered
  <2>2. text[o].from = n => o = m
    BY DEF Mirrors
  <2> QED
    BY <2>1, <2>2, <1>1, <1>2, <1>4
<1> QED
  BY <1>1, <1>2, <1>3, <1>5, <1>6

\* The data of its kind that are read before a datum are those of the source.
LEMMA SeenIsEarlier ==
  ASSUME Typed, Complete(text), Mirrors(text, Len(source)),
         NEW m \in DOMAIN text, IsDatum(text[m]), NEW n, n = text[m].from
  PROVE  Seen(text[m].k, m - 1) = Earlier(source, n)
<1>1. /\ Len(text) \in Nat /\ DOMAIN text = 1 .. Len(text)
      /\ Len(source) \in Nat /\ DOMAIN source = 1 .. Len(source)
  BY LenProperties, Source DEF Typed, ListsTyped
<1>2. /\ n \in DOMAIN source /\ source[n].k = text[m].k /\ IsDatum(source[n])
      /\ \A o \in DOMAIN text : text[o].from < n => o < m
      /\ \A o \in DOMAIN text : o < m => text[o].from \in 1 .. (n - 1)
  BY AroundDatum
<1>3. ASSUME NEW a \in 1 .. (m - 1), text[a].k = text[m].k
      PROVE  text[a].from \in 1 .. (n - 1) /\ source[text[a].from].k = source[n].k
  <2>1. a \in DOMAIN text /\ a < m /\ IsDatum(text[a])
    BY <1>3, <1>1 DEF IsDatum
  <2> QED
    BY <2>1, <1>2, <1>3 DEF Mirrors
<1>4. ASSUME NEW a \in 1 .. (n - 1), source[a].k = source[n].k
      PROVE  \E b \in 1 .. (m - 1) : text[b].k = text[m].k /\ text[b].from = a
  <2>1. a \in 1 .. Len(source) /\ IsDatum(source[a]) /\ a < n
    BY <1>1, <1>2, <1>4 DEF IsDatum
  <2>2. PICK b \in DOMAIN text : text[b].from = a /\ IsDatum(text[b])
    BY <2>1 DEF Mirrors
  <2>3. text[b].k = source[a].k
    BY <2>2 DEF Mirrors
  <2>4. b < m
    BY <2>1, <2>2, <1>2
  <2>5. b \in 1 .. (m - 1)
    BY <2>4, <1>1
  <2> QED
    BY <2>2, <2>3, <2>5, <1>2, <1>4
<1> QED
  BY <1>3, <1>4 DEF Seen, Earlier

\* If the data of a label stand together, the line before a datum is that of the
\* datum or label before it in the source.
LEMMA ContiguousText ==
  ASSUME Typed, Complete(text), Mirrors(text, Len(source)), Contiguous(source),
         NEW m \in DOMAIN text, IsDatum(text[m]), NEW n, n = text[m].from
  PROVE  /\ m > 1 /\ m - 1 \in DOMAIN text /\ n > 1 /\ n - 1 \in DOMAIN source
         /\ text[m - 1].from = n - 1
         /\ \/ IsDatum(text[m - 1]) /\ IsDatum(source[n - 1])
            \/ /\ IsDataLabel(text[m - 1]) /\ IsDataLabel(source[n - 1])
               /\ text[m - 1].to = source[n - 1].to
<1>1. /\ Len(text) \in Nat /\ DOMAIN text = 1 .. Len(text)
      /\ Len(source) \in Nat /\ DOMAIN source = 1 .. Len(source)
  BY LenProperties, Source DEF Typed, ListsTyped
<1>2. /\ n \in DOMAIN source /\ IsDatum(source[n])
      /\ \A o \in DOMAIN text : text[o].from < n => o < m
      /\ \A o \in DOMAIN text : o < m => text[o].from \in 1 .. (n - 1)
  BY AroundDatum
<1>3. PICK q : q = n - 1
  OBVIOUS
<1>4. n > 1 /\ (IsDatum(source[q]) \/ IsDataLabel(source[q]))
  BY <1>2, <1>3 DEF Contiguous
<1>5. q \in 1 .. Len(source) /\ q < n /\ n = q + 1 /\ m \in 1 .. Len(text)
  BY <1>1, <1>2, <1>3, <1>4
<1>6. \A o \in DOMAIN text : text[o].from \in 1 .. Len(source)
  BY <1>1 DEF Complete
<1>9. CASE IsDatum(source[q])
  <2>1. PICK o \in DOMAIN text : text[o].from = q /\ IsDatum(text[o])
    BY <1>5, <1>9 DEF Mirrors
  <2>2. o < m /\ o + 1 \in DOMAIN text /\ o + 1 <= m
    BY <2>1, <1>1, <1>2, <1>5
  <2>3. text[o + 1].from # q
    <3>1. text[o].from = text[o + 1].from => o = o + 1
      BY <2>1, <2>2 DEF Mirrors
    <3> QED
      BY <3>1, <2>1, <1>1
  <2>4. q <= text[o + 1].from
    <3>1. o <= o + 1
      BY <1>1
    <3> QED
      BY <2>1, <2>2, <3>1 DEF Complete, Ordered
  <2>5. o + 1 = m
    <3>1. o + 1 < m => text[o + 1].from \in 1 .. (n - 1)
      BY <2>2, <1>2
    <3> QED
      BY <3>1, <2>2, <2>3, <2>4, <1>1, <1>5
  <2>6. m > 1 /\ m - 1 = o /\ m - 1 \in DOMAIN text
    BY <2>5, <1>1
  <2> QED
    BY <1>1, <1>3, <1>4, <1>5, <1>9, <2>1, <2>6
<1>10. CASE IsDataLabel(source[q])
  <2>1. PICK o \in DOMAIN text : text[o].from = q /\ text[o].k = "label"
    BY <1>1, <1>5, <1>10 DEF Complete, IsDataLabel
  <2>2. o < m /\ o + 1 \in DOMAIN text /\ o + 1 <= m
    BY <2>1, <1>1, <1>2, <1>5
  <2>3. ZerosOf(q) = 0
    BY <1>10, LabelsAssumption DEF ZerosOf, TakesZeros, IsMain, IsDataLabel
  <2>4. /\ text[o].to = source[q].to
        /\ \A p \in DOMAIN text : p > o => text[p].from > q
    <3>1. LabelAt(text, o)
      BY <2>1 DEF Complete
    <3>2. /\ IsLabel(source[q], text[o].to)
          /\ \A p \in DOMAIN text : p > o + 0 => text[p].from > q
      BY <2>1, <2>3, <3>1 DEF LabelAt
    <3>3. o + 0 = o
      BY <1>1
    <3> QED
      BY <3>2, <3>3 DEF IsLabel
  <2>5. o + 1 = m
    <3>1. text[o + 1].from > q
      BY <2>2, <2>4, <1>1
    <3>2. o + 1 < m => text[o + 1].from \in 1 .. (n - 1)
      BY <2>2, <1>2
    <3> QED
      BY <3>1, <3>2, <2>2, <1>1, <1>5
  <2>6. m > 1 /\ m - 1 = o /\ m - 1 \in DOMAIN text
    BY <2>5, <1>1
  <2> QED
    BY <1>1, <1>3, <1>4, <1>5, <1>10, <2>1, <2>4, <2>6 DEF IsDataLabel
<1> QED
  BY <1>4, <1>9, <1>10

-----------------------------------------------------------------------------
(* Labels and distances in the source.                                     *)

\* The sizes of the data.
LEMMA DatumSizes ==
  ASSUME NEW l, IsDatum(l)
  PROVE  /\ l.k = "word" => SizeOf(l) = 4
         /\ l.k = "half" => SizeOf(l) = 2
         /\ l.k = "byte" => SizeOf(l) = 1
         /\ SizeOf(l) \in 1 .. 4
BY DEF SizeOf, IsDatum, dmem_type

\* The size of any line.
LEMMA SizeIsNat == ASSUME NEW l PROVE SizeOf(l) \in Nat
<1>1. IsDatum(l) => SizeOf(l) \in 1 .. 4
  BY DatumSizes
<1>2. ~IsDatum(l) => SizeOf(l) = 0
  BY DEF SizeOf
<1> QED
  BY <1>1, <1>2

\* g gives the distances of the first n lines from their labels.
Distances(g, s, n) ==
  /\ g \in [1 .. n -> Nat]
  /\ \A m \in 1 .. n : (IsDataLabel(s[m]) \/ m = 1) => g[m] = 0
  /\ \A m \in 1 .. n : ~IsDataLabel(s[m]) /\ m # 1 => g[m] = g[m - 1] + SizeOf(s[m - 1])

\* Before is well defined.
LEMMA DistancesExist ==
  ASSUME NEW s, NEW n \in Nat \ {0}
  PROVE  \E g : Distances(g, s, n) /\ Before(s, n) = g[n]
<1> DEFINE Distance(m, v) == IF IsDataLabel(s[m]) THEN 0 ELSE v + SizeOf(s[m - 1])
           Solves(g) == g = [m \in 1 .. n |->
                               IF IsDataLabel(s[m]) \/ m = 1 THEN 0
                               ELSE g[m - 1] + SizeOf(s[m - 1])]
<1>1. \A m : SizeOf(s[m]) \in Nat
  BY SizeIsNat
<1>2. \E g : Solves(g)
  <2> DEFINE G == [p \in (1 .. (n - 1)) \X Nat |-> Distance(p[1] + 1, p[2])]
  <2>1. G \in [(1 .. (n - 1)) \X Nat -> Nat]
    <3>1. ASSUME NEW p \in (1 .. (n - 1)) \X Nat
          PROVE  Distance(p[1] + 1, p[2]) \in Nat
      <4>1. p[2] \in Nat /\ SizeOf(s[p[1] + 1 - 1]) \in Nat
        BY <1>1
      <4> QED
        BY <4>1
    <3> HIDE DEF Distance
    <3> QED
      BY <3>1
  <2>2. PICK f : Iterates(f, n - 1, Nat, 0, G)
    <3> HIDE DEF G
    <3>1. n - 1 \in Nat /\ 0 \in Nat
      OBVIOUS
    <3> QED
      BY <2>1, <3>1, Recursion
  <2>3. PICK h : h = [m \in 1 .. n |-> f[m - 1]]
    OBVIOUS
  <2>5. ASSUME NEW m \in 1 .. n
        PROVE  h[m] = IF IsDataLabel(s[m]) \/ m = 1 THEN 0
                      ELSE h[m - 1] + SizeOf(s[m - 1])
    <3>1. CASE m = 1
      <4>1. h[m] = f[0]
        BY <2>3, <3>1
      <4> QED
        BY <2>2, <3>1, <4>1 DEF Iterates
    <3>2. CASE m # 1
      <4>1. m - 1 \in 1 .. (n - 1) /\ m - 1 \in 1 .. n /\ m - 1 + 1 = m
        BY <3>2
      <4>2. f[m - 1] = G[<<m - 1, f[m - 1 - 1]>>] /\ f[m - 1 - 1] \in Nat
        <5> HIDE DEF G
        <5>1. \A i \in 1 .. (n - 1) : f[i] = G[<<i, f[i - 1]>>]
          BY <2>2 DEF Iterates
        <5>2. \A i \in 0 .. (n - 1) : f[i] \in Nat
          BY <2>2 DEF Iterates
        <5>3. m - 1 - 1 \in 0 .. (n - 1)
          BY <4>1
        <5> QED
          BY <4>1, <5>1, <5>2, <5>3
      <4>3. h[m] = f[m - 1] /\ h[m - 1] = f[m - 1 - 1]
        BY <2>3, <4>1
      <4>4. <<m - 1, h[m - 1]>> \in (1 .. (n - 1)) \X Nat
        BY <4>1, <4>2, <4>3
      <4>5. G[<<m - 1, h[m - 1]>>] = Distance(m, h[m - 1])
        <5> HIDE DEF Distance
        <5> QED
          BY <4>1, <4>4
      <4>6. h[m] = Distance(m, h[m - 1])
        <5> HIDE DEF Distance, G
        <5> QED
          BY <4>2, <4>3, <4>5
      <4> QED
        BY <3>2, <4>6
    <3> QED
      BY <3>1, <3>2
  <2>6. Solves(h)
    BY <2>3, <2>5
  <2> QED
    BY <2>6
<1>3. PICK g : Solves(g) /\ Before(s, n) = g[n]
  <2> DEFINE h == CHOOSE g : Solves(g)
  <2>1. Solves(h)
    BY <1>2
  <2>2. Before(s, n) = h[n]
    BY DEF Before
  <2> HIDE DEF h, Solves
  <2> QED
    BY <2>1, <2>2
<1>4. g \in [1 .. n -> Nat]
  <2>1. /\ g = [m \in 1 .. n |-> g[m]]
        /\ \A m \in 1 .. n : g[m] = IF IsDataLabel(s[m]) \/ m = 1 THEN 0
                                   ELSE g[m - 1] + SizeOf(s[m - 1])
    BY <1>3
  <2>2. PICK T : T = {m \in 0 .. n : m > 0 => g[m] \in Nat}
    OBVIOUS
  <2>3. 0 \in T
    BY <2>2
  <2>4. ASSUME NEW m \in 0 .. (n - 1), m \in T
        PROVE  m + 1 \in T
    <3>1. m + 1 \in 1 .. n /\ m + 1 \in 0 .. n /\ m + 1 - 1 = m
      OBVIOUS
    <3>2. g[m + 1] = IF IsDataLabel(s[m + 1]) \/ m + 1 = 1 THEN 0
                     ELSE g[m] + SizeOf(s[m])
      <4>1. PICK i \in 1 .. n : i = m + 1 /\ i - 1 = m
        BY <3>1
      <4>2. g[i] = IF IsDataLabel(s[i]) \/ i = 1 THEN 0
                   ELSE g[i - 1] + SizeOf(s[i - 1])
        BY <2>1
      <4> QED
        BY <4>1, <4>2
    <3>3. m + 1 # 1 => g[m] \in Nat
      BY <2>2, <2>4
    <3>4. SizeOf(s[m]) \in Nat
      BY <1>1
    <3>5. g[m + 1] \in Nat
      BY <3>2, <3>3, <3>4
    <3> QED
      BY <2>2, <3>1, <3>5
  <2>5. \A m \in 0 .. n : m \in T
    BY <2>3, <2>4, Induction
  <2>6. \A m \in 1 .. n : g[m] \in Nat
    BY <2>2, <2>5
  <2> QED
    BY <2>1, <2>6
<1>5. \A m \in 1 .. n : g[m] = IF IsDataLabel(s[m]) \/ m = 1 THEN 0
                               ELSE g[m - 1] + SizeOf(s[m - 1])
  BY <1>3
<1> QED
  BY <1>3, <1>4, <1>5 DEF Distances

\* The distance of a line from that of the line before.
LEMMA BeforeNext ==
  ASSUME NEW s, NEW n \in Nat \ {0}
  PROVE  /\ Before(s, n) \in Nat
         /\ IsDataLabel(s[n]) \/ n = 1 => Before(s, n) = 0
         /\ ~IsDataLabel(s[n]) /\ n # 1 =>
              /\ Before(s, n - 1) \in Nat
              /\ Before(s, n) = Before(s, n - 1) + SizeOf(s[n - 1])
<1>1. PICK g : Distances(g, s, n) /\ Before(s, n) = g[n]
  BY DistancesExist
<1>2. n \in 1 .. n
  OBVIOUS
<1>3. /\ g[n] \in Nat
      /\ IsDataLabel(s[n]) \/ n = 1 => g[n] = 0
      /\ ~IsDataLabel(s[n]) /\ n # 1 => g[n] = g[n - 1] + SizeOf(s[n - 1])
  BY <1>1, <1>2 DEF Distances
<1>4. ASSUME n # 1
      PROVE  Before(s, n - 1) = g[n - 1] /\ g[n - 1] \in Nat
  <2>1. PICK q : q = n - 1
    OBVIOUS
  <2>2. q \in Nat \ {0} /\ \A m \in 1 .. q : m \in 1 .. n
    BY <2>1, <1>4
  <2>3. PICK h : Distances(h, s, q) /\ Before(s, q) = h[q]
    BY <2>2, DistancesExist
  <2>4. PICK T : T = {m \in 0 .. q : m > 0 => h[m] = g[m]}
    OBVIOUS
  <2>5. 0 \in T
    BY <2>2, <2>4
  <2>6. ASSUME NEW m \in 0 .. (q - 1), m \in T
        PROVE  m + 1 \in T
    <3>1. PICK i : i = m + 1
      OBVIOUS
    <3>2. i \in 1 .. q /\ i \in 1 .. n /\ i \in 0 .. q /\ i - 1 = m /\ (i # 1 => m > 0)
      BY <3>1, <2>2
    <3>3. CASE IsDataLabel(s[i]) \/ i = 1
      <4>1. h[i] = 0 /\ g[i] = 0
        BY <3>2, <3>3, <2>3, <1>1 DEF Distances
      <4> QED
        BY <4>1, <3>1, <3>2, <2>4
    <3>4. CASE ~IsDataLabel(s[i]) /\ i # 1
      <4>1. h[i] = h[i - 1] + SizeOf(s[i - 1]) /\ g[i] = g[i - 1] + SizeOf(s[i - 1])
        BY <3>2, <3>4, <2>3, <1>1 DEF Distances
      <4>2. h[m] = g[m]
        BY <3>2, <3>4, <2>4, <2>6
      <4>3. h[i] = g[i]
        BY <4>1, <4>2, <3>2
      <4> QED
        BY <4>3, <3>1, <3>2, <2>4
    <3> QED
      BY <3>3, <3>4
  <2>7. \A m \in 0 .. q : m \in T
    BY <2>2, <2>5, <2>6, Induction
  <2>8. h[q] = g[q]
    BY <2>2, <2>4, <2>7
  <2>9. g[q] \in Nat
    <3>1. q \in 1 .. n
      BY <2>2
    <3> QED
      BY <3>1, <1>1 DEF Distances
  <2> QED
    BY <2>1, <2>3, <2>8, <2>9
<1> QED
  BY <1>1, <1>3, <1>4

\* p is the last label of data that is not behind line n.
LastLabel(p, n) ==
  /\ p \in 1 .. n /\ IsDataLabel(source[p])
  /\ \A o \in (p + 1) .. n : ~IsDataLabel(source[o])

\* There is one such label only.
LEMMA LabelIs ==
  ASSUME NEW n \in Nat, NEW p, LastLabel(p, n)
  PROVE  LabelOf(n) = p
<1>1. PICK q : q = LabelOf(n)
  OBVIOUS
<1>2. LastLabel(q, n)
  BY <1>1 DEF LabelOf, LastLabel
<1>3. q \notin (p + 1) .. n /\ p \notin (q + 1) .. n
  BY <1>2 DEF LastLabel
<1>4. q \in Nat /\ p \in Nat /\ q <= n /\ p <= n
  BY <1>2 DEF LastLabel
<1>5. ~(p + 1 <= q) /\ ~(q + 1 <= p)
  BY <1>3, <1>4
<1> QED
  BY <1>1, <1>4, <1>5

\* A datum that stands behind its label, or behind others of it, has that label.
LEMMA LabelNext ==
  ASSUME NEW n \in Nat, n > 1, IsDatum(source[n])
  PROVE  /\ IsDataLabel(source[n - 1]) => LastLabel(n - 1, n)
         /\ \A p : LastLabel(p, n - 1) => LastLabel(p, n)
<1>1. ~IsDataLabel(source[n])
  BY DEF IsDatum, IsDataLabel
<1>2. ASSUME IsDataLabel(source[n - 1])
      PROVE  LastLabel(n - 1, n)
  <2>1. n - 1 \in 1 .. n /\ \A o \in (n - 1 + 1) .. n : o = n
    OBVIOUS
  <2> QED
    BY <2>1, <1>1, <1>2 DEF LastLabel
<1>3. ASSUME NEW p, LastLabel(p, n - 1)
      PROVE  LastLabel(p, n)
  <2>1. p \in 1 .. (n - 1)
    BY <1>3 DEF LastLabel
  <2>2. p \in 1 .. n /\ \A o \in (p + 1) .. n : o \in (p + 1) .. (n - 1) \/ o = n
    BY <2>1
  <2> QED
    BY <2>2, <1>1, <1>3 DEF LastLabel
<1> QED
  BY <1>2, <1>3

\* So every datum has a label, from which its distance is counted.
LEMMA Labelled ==
  ASSUME Typed, Contiguous(source), NEW n \in DOMAIN source, IsDatum(source[n])
  PROVE  /\ n > 1 /\ n - 1 \in DOMAIN source /\ LastLabel(LabelOf(n), n)
         /\ Before(source, n) \in Nat
         /\ IsDataLabel(source[n - 1]) => LabelOf(n) = n - 1 /\ Before(source, n) = 0
         /\ IsDatum(source[n - 1]) =>
              /\ LabelOf(n) = LabelOf(n - 1)
              /\ Before(source, n - 1) \in Nat
              /\ Before(source, n) = Before(source, n - 1) + SizeOf(source[n - 1])
<1>1. Len(source) \in Nat /\ DOMAIN source = 1 .. Len(source) /\ n \in 1 .. Len(source)
  BY Source
<1>2. ASSUME NEW m \in DOMAIN source, IsDatum(source[m])
      PROVE  /\ m \in Nat /\ m > 1 /\ m - 1 \in DOMAIN source
             /\ IsDatum(source[m - 1]) \/ IsDataLabel(source[m - 1])
  <2>1. m > 1 /\ (IsDatum(source[m - 1]) \/ IsDataLabel(source[m - 1]))
    BY <1>2 DEF Contiguous
  <2> QED
    BY <2>1, <1>1
<1>3. PICK T : T = {m \in 0 .. n : m > 0 /\ IsDatum(source[m]) => \E p : LastLabel(p, m)}
  OBVIOUS
<1>4. 0 \in T
  BY <1>1, <1>3
<1>5. ASSUME NEW m \in 0 .. (n - 1), m \in T
      PROVE  m + 1 \in T
  <2>1. PICK i : i = m + 1
    OBVIOUS
  <2>2. i \in 0 .. n /\ i \in DOMAIN source /\ i - 1 = m /\ i \in Nat
    BY <2>1, <1>1
  <2>3. ASSUME IsDatum(source[i])
        PROVE  \E p : LastLabel(p, i)
    <3>1. i > 1 /\ (IsDatum(source[m]) \/ IsDataLabel(source[m]))
      BY <2>2, <2>3, <1>2
    <3>2. m > 0
      BY <3>1, <2>2
    <3>3. CASE IsDataLabel(source[m])
      BY <2>2, <2>3, <3>1, <3>3, LabelNext
    <3>4. CASE IsDatum(source[m])
      <4>1. PICK p : LastLabel(p, m)
        BY <3>2, <3>4, <1>3, <1>5
      <4> QED
        BY <4>1, <2>2, <2>3, <3>1, LabelNext
    <3> QED
      BY <3>1, <3>3, <3>4
  <2> QED
    BY <2>1, <2>2, <2>3, <1>3
<1>6. \A m \in 0 .. n : m \in T
  BY <1>1, <1>4, <1>5, Induction
<1>7. \A m \in 1 .. n : IsDatum(source[m]) => \E p : LastLabel(p, m)
  BY <1>1, <1>3, <1>6
<1>8. n > 1 /\ n - 1 \in DOMAIN source /\ n \in 1 .. n /\ n - 1 \in 1 .. n /\ n - 1 \in Nat
  BY <1>1, <1>2
<1>9. LastLabel(LabelOf(n), n)
  <2>1. PICK p : LastLabel(p, n)
    BY <1>7, <1>8
  <2> QED
    BY <2>1, <1>1, LabelIs
<1>10. ~IsDataLabel(source[n])
  BY DEF IsDatum, IsDataLabel
<1>11. /\ Before(source, n) \in Nat /\ Before(source, n - 1) \in Nat
       /\ Before(source, n) = Before(source, n - 1) + SizeOf(source[n - 1])
  BY <1>1, <1>8, <1>10, BeforeNext
<1>12. ASSUME IsDataLabel(source[n - 1])
       PROVE  LabelOf(n) = n - 1 /\ Before(source, n) = 0
  <2>1. LabelOf(n) = n - 1
    BY <1>1, <1>8, <1>12, LabelNext, LabelIs
  <2>2. SizeOf(source[n - 1]) = 0
    BY <1>12 DEF SizeOf, IsDatum, IsDataLabel
  <2>3. n - 1 \in Nat \ {0}
    BY <1>8
  <2>4. Before(source, n - 1) = 0
    BY <2>3, <1>12, BeforeNext
  <2> QED
    BY <2>1, <2>2, <2>4, <1>11
<1>13. ASSUME IsDatum(source[n - 1])
       PROVE  LabelOf(n) = LabelOf(n - 1)
  <2>1. PICK p : LastLabel(p, n - 1)
    BY <1>7, <1>8, <1>13
  <2>2. LastLabel(p, n)
    BY <2>1, <1>1, <1>8, LabelNext
  <2> QED
    BY <2>1, <2>2, <1>1, <1>8, LabelIs
<1> QED
  BY <1>8, <1>9, <1>11, <1>12, <1>13

-----------------------------------------------------------------------------
(* Where the data of the text lie.                                         *)

\* Where another datum of a kind would come.
Free(k) == IF k = "half" THEN HalfAt(Len(dc), half_num)
           ELSE IF k = "byte" THEN ByteAt(Len(dc), byte_num)
           ELSE 4 * Len(dc)

Counted(K) ==
  /\ half_num = Cardinality(Seen("half", K)) % 2
  /\ byte_num = Cardinality(Seen("byte", K)) % 4

\* The bytes that the data of its kind before a datum take up.
Filled(n) == Cardinality(Earlier(source, n)) * SizeOf(source[n])

\* Wherever a datum has been put, its count has put it on that byte of a word.
Marked ==
  \A a \in Nat, n \in DOMAIN source :
    IsDatum(source[n]) /\ Stored(a) = Datum(n, 1) => (a - Filled(n)) % 4 = 0

\* Where the program looks for a datum, and where it ends.
Place(n) == 4 * dp[source[LabelOf(n)].to] + Before(source, n)
End(n) == Place(n) + SizeOf(source[n])

LiesAt(n) ==
  /\ End(n) <= 4 * Len(dc)
  /\ \A k \in 1 .. SizeOf(source[n]) : Stored(Place(n) + k - 1) = Datum(n, k)

\* The last line, if it is a datum, ends in the last word and behind all others.
LastEnds(K) ==
  K > 0 /\ IsDatum(text[K]) =>
    /\ 4 * (Len(dc) - 1) < End(text[K].from)
    /\ \A m \in 1 .. K : IsDatum(text[m]) => End(text[m].from) <= End(text[K].from)

\* The data of the first K lines are where the program looks for them.
Lays(K) == /\ \A m \in 1 .. K : IsDatum(text[m]) => LiesAt(text[m].from)
           /\ LastEnds(K)

\* Their labels are known, and one that is read last stands before the next word.
Named(K) ==
  /\ \A m \in 1 .. K : IsDatum(text[m]) =>
       source[LabelOf(text[m].from)].to \in DOMAIN dp
  /\ K > 0 /\ IsDataLabel(text[K]) =>
       text[K].to \in DOMAIN dp /\ dp[text[K].to] = Len(dc)

Laid(K) ==
  /\ Counted(K) /\ Marked
  /\ Contiguous(source) => Named(K) /\ (Agreeing(source) => Lays(K))

\* One line more has been seen.
LEMMA SeenMore ==
  ASSUME Typed, Mirrors(text, Len(source)), NEW K \in DOMAIN text, NEW k,
         k \in {"word", "half", "byte"}, NEW c, c = Cardinality(Seen(k, K - 1))
  PROVE  /\ c \in Nat
         /\ Cardinality(Seen(k, K)) = IF text[K].k = k THEN c + 1 ELSE c
<1>1. Len(text) \in Nat /\ DOMAIN text = 1 .. Len(text) /\ K \in Nat \ {0}
  BY LenProperties DEF Typed, ListsTyped
<1>2. \A m \in 1 .. K : m \in 1 .. (K - 1) \/ m = K
  BY <1>1
<1>3. \A m \in 1 .. (K - 1) : m \in 1 .. K /\ m # K /\ m \in DOMAIN text
  BY <1>1
<1>4. IsFiniteSet(Seen(k, K - 1))
  <2>1. Seen(k, K - 1) \subseteq 1 .. Len(source)
    <3>1. ASSUME NEW m \in 1 .. (K - 1), text[m].k = k
          PROVE  text[m].from \in 1 .. Len(source)
      BY <3>1, <1>3 DEF Mirrors, IsDatum
    <3> QED
      BY <3>1 DEF Seen
  <2>2. IsFiniteSet(1 .. Len(source))
    BY FS_Interval, Source
  <2> QED
    BY <2>1, <2>2, FS_Subset
<1>5. CASE text[K].k = k
  <2>1. Seen(k, K) = Seen(k, K - 1) \cup {text[K].from}
    BY <1>1, <1>2, <1>3, <1>5 DEF Seen
  <2>2. text[K].from \notin Seen(k, K - 1)
    <3>1. ASSUME NEW m \in 1 .. (K - 1), text[m].from = text[K].from
          PROVE  FALSE
      BY <3>1, <1>3, <1>5 DEF Mirrors, IsDatum
    <3> QED
      BY <3>1 DEF Seen
  <2> QED
    BY <1>4, <1>5, <2>1, <2>2, FS_AddElement, FS_CardinalityType
<1>6. CASE text[K].k # k
  <2>1. Seen(k, K) = Seen(k, K - 1)
    BY <1>2, <1>3, <1>6 DEF Seen
  <2> QED
    BY <1>4, <1>6, <2>1, FS_CardinalityType
<1> QED
  BY <1>5, <1>6

\* FilterDatum puts a datum where the next of its kind is to come.
LEMMA DatumPacked ==
  ASSUME NEW K, Reads(K), FilterDatum, NEW k, k = text[K].k, NEW n, n = text[K].from,
         NEW p, p = Free(k), NEW s, s = SizeOf(text[K])
  PROVE  /\ p \in Nat /\ s \in 1 .. 4 /\ IsDatum(text[K]) /\ Packed(dc', dc, p, n, s)
         /\ p <= 4 * Len(dc) /\ p + s <= 4 * Len(dc') /\ Len(dc) <= Len(dc')
         /\ Free(k)' = p + s /\ 4 * (Len(dc') - 1) < p + s
<1>1. PICK d, e, h, b : d = dc /\ e = dc' /\ h = half_num /\ b = byte_num
  OBVIOUS
<1>2. PICK L, M : L = Len(d) /\ M = Len(e)
  OBVIOUS
<1>3. /\ d \in Seq(Cells) /\ h \in 0 .. 1 /\ b \in 0 .. 3
      /\ h # 0 => d # <<>>
      /\ b # 0 => d # <<>>
  BY <1>1 DEF Reads, Typed, DataTyped
<1>4. n \in Nat
  BY ReadsFacts DEF Lines
<1>5. IsDatum(text[K]) /\ s \in 1 .. 4
  <2>1. IsDatum(text[K])
    BY DEF FilterDatum, Reads
  <2> QED
    BY <2>1, DatumSizes
<1>6. CASE k = "word"
  <2>1. e = AddWord(d, n) /\ s = 4
    BY <1>1, <1>5, <1>6, DatumSizes DEF FilterDatum, Reads
  <2>2. Packed(e, d, 4 * L, n, 4) /\ L \in Nat /\ M = L + 1
    BY <1>2, <1>3, <1>4, <2>1, WordPacked
  <2>3. p = 4 * L /\ Free(k)' = 4 * M
    BY <1>1, <1>2, <1>6 DEF Free
  <2> QED
    BY <1>1, <1>2, <1>5, <2>1, <2>2, <2>3
<1>7. CASE k = "half"
  <2>1. e = AddHalf(d, h, n) /\ s = 2 /\ half_num' = 1 - h
    BY <1>1, <1>5, <1>7, DatumSizes DEF FilterDatum, Reads
  <2>2. /\ Packed(e, d, HalfAt(L, h), n, 2) /\ L \in Nat
        /\ h = 0 => M = L + 1
        /\ h # 0 => M = L /\ L > 0
    BY <1>2, <1>3, <1>4, <2>1, HalfPacked
  <2>3. p = HalfAt(L, h) /\ Free(k)' = HalfAt(M, 1 - h)
    BY <1>1, <1>2, <1>7, <2>1 DEF Free
  <2>4. h = 0 \/ h = 1
    BY <1>3
  <2>5. /\ p \in Nat /\ p <= 4 * L /\ p + 2 <= 4 * M /\ L <= M /\ Free(k)' = p + 2
        /\ 4 * (M - 1) < p + 2
    BY <2>2, <2>3, <2>4 DEF HalfAt
  <2> QED
    BY <1>1, <1>2, <1>5, <2>1, <2>2, <2>3, <2>5
<1>8. CASE k = "byte"
  <2>1. PICK c : c = byte_num'
    OBVIOUS
  <2>2. e = AddByte(d, b, n) /\ s = 1 /\ c = (b + 1) % 4
    BY <1>1, <1>5, <1>8, <2>1, DatumSizes DEF FilterDatum, Reads
  <2>3. /\ Packed(e, d, ByteAt(L, b), n, 1) /\ L \in Nat
        /\ b = 0 => M = L + 1
        /\ b # 0 => M = L /\ L > 0
    BY <1>2, <1>3, <1>4, <2>2, BytePacked
  <2>4. p = ByteAt(L, b) /\ Free(k)' = ByteAt(M, c)
    BY <1>1, <1>2, <1>8, <2>1 DEF Free
  <2>5. \/ b = 3 /\ c = 0
        \/ b \in 0 .. 2 /\ c = b + 1 /\ c # 0
    BY <1>3, <2>2
  <2>6. /\ p \in Nat /\ p <= 4 * L /\ p + 1 <= 4 * M /\ L <= M /\ Free(k)' = p + 1
        /\ 4 * (M - 1) < p + 1
    BY <2>3, <2>4, <2>5 DEF ByteAt
  <2> QED
    BY <1>1, <1>2, <1>5, <2>2, <2>3, <2>4, <2>6
<1> QED
  BY <1>5, <1>6, <1>7, <1>8 DEF IsDatum

\* The counters follow what is read.
LEMMA CountsKept ==
  ASSUME NEW K, Reads(K), Mirrors(text, Len(source)), Counted(K - 1),
         FilterLabel \/ FilterDatum \/ FilterRest
  PROVE  Counted(K)'
<1>1. PICK c : c = Cardinality(Seen("half", K - 1))
  OBVIOUS
<1>2. PICK d : d = Cardinality(Seen("byte", K - 1))
  OBVIOUS
<1>3. /\ c \in Nat /\ half_num = c % 2
      /\ Cardinality(Seen("half", K)) = IF text[K].k = "half" THEN c + 1 ELSE c
  BY <1>1, SeenMore DEF Reads, Counted
<1>4. /\ d \in Nat /\ byte_num = d % 4
      /\ Cardinality(Seen("byte", K)) = IF text[K].k = "byte" THEN d + 1 ELSE d
  BY <1>2, SeenMore DEF Reads, Counted
<1>5. text' = text
  BY DEF FilterLabel, FilterDatum, FilterRest
<1>6. \A k : Seen(k, K)' = Seen(k, K)
  BY <1>5 DEF Seen
<1>7. /\ half_num' = IF text[K].k = "half" THEN 1 - half_num ELSE half_num
      /\ byte_num' = IF text[K].k = "byte" THEN (byte_num + 1) % 4 ELSE byte_num
  BY DEF FilterLabel, FilterDatum, FilterRest, Reads, data, IsDatum
<1>8. half_num' = (IF text[K].k = "half" THEN c + 1 ELSE c) % 2
  BY <1>3, <1>7
<1>9. byte_num' = (IF text[K].k = "byte" THEN d + 1 ELSE d) % 4
  BY <1>4, <1>7
<1> QED
  BY <1>3, <1>4, <1>6, <1>8, <1>9 DEF Counted

\* The count of a kind and the words there are say where the next datum comes.
LEMMA FreeAt ==
  ASSUME Typed, Complete(text), Mirrors(text, Len(source)),
         NEW K \in DOMAIN text, Counted(K - 1), IsDatum(text[K]),
         NEW n, n = text[K].from, NEW p, p = Free(text[K].k)
  PROVE  /\ Len(dc) \in Nat /\ p \in Int /\ Filled(n) \in Nat
         /\ 4 * (Len(dc) - 1) < p /\ p <= 4 * Len(dc)
         /\ (p - Filled(n)) % 4 = 0
<1>1. PICK L, h, b, k, s, c :
        /\ L = Len(dc) /\ h = half_num /\ b = byte_num /\ k = text[K].k
        /\ s = SizeOf(text[K]) /\ c = Cardinality(Seen(k, K - 1))
  OBVIOUS
<1>2. L \in Nat /\ h \in 0 .. 1 /\ b \in 0 .. 3
  BY <1>1, LenProperties DEF Typed, DataTyped
<1>3. k \in {"word", "half", "byte"}
  BY <1>1 DEF IsDatum
<1>4. c \in Nat
  BY <1>1, <1>3, SeenMore
<1>5. Filled(n) = c * s
  BY <1>1, AroundDatum, SeenIsEarlier DEF Filled
<1>6. CASE k = "word"
  <2>1. s = 4 /\ p = 4 * L
    BY <1>1, <1>6, DatumSizes DEF Free
  <2>2. (4 * L - c * 4) % 4 = 0
    BY <1>2, <1>4
  <2> QED
    BY <2>1, <2>2, <1>1, <1>2, <1>4, <1>5
<1>7. CASE k = "half"
  <2>1. s = 2 /\ p = HalfAt(L, h)
    BY <1>1, <1>7, DatumSizes DEF Free
  <2>2. h = c % 2
    BY <1>1, <1>7 DEF Counted
  <2>3. /\ p \in Int /\ 4 * (L - 1) < p /\ p <= 4 * L /\ (p - c * 2) % 4 = 0
    <3>1. CASE h = 0
      <4>1. p = 4 * L
        BY <2>1, <3>1 DEF HalfAt
      <4> QED
        BY <4>1, <2>2, <3>1, <1>2, <1>4
    <3>2. CASE h = 1
      <4>1. p = 4 * L - 2
        BY <2>1, <3>2 DEF HalfAt
      <4> QED
        BY <4>1, <2>2, <3>2, <1>2, <1>4
    <3> QED
      BY <3>1, <3>2, <1>2
  <2> QED
    BY <2>1, <2>3, <1>1, <1>2, <1>4, <1>5
<1>8. CASE k = "byte"
  <2>1. s = 1 /\ p = ByteAt(L, b)
    BY <1>1, <1>8, DatumSizes DEF Free
  <2>2. b = c % 4
    BY <1>1, <1>8 DEF Counted
  <2>3. /\ p \in Int /\ 4 * (L - 1) < p /\ p <= 4 * L /\ (p - c * 1) % 4 = 0
    <3>1. CASE b = 0
      <4>1. p = 4 * L
        BY <2>1, <3>1 DEF ByteAt
      <4> QED
        BY <4>1, <2>2, <3>1, <1>2, <1>4
    <3>2. CASE b \in 1 .. 3
      <4>1. p = 4 * (L - 1) + b
        BY <2>1, <3>2 DEF ByteAt
      <4> QED
        BY <4>1, <2>2, <3>2, <1>2, <1>4
    <3> QED
      BY <3>1, <3>2, <1>2
  <2> QED
    BY <2>1, <2>3, <1>1, <1>2, <1>4, <1>5
<1> QED
  BY <1>3, <1>6, <1>7, <1>8

\* What Stored answers is what the words hold.
LEMMA StoredIs ==
  \A a : Stored(a) = StoredIn(dc, a) /\ Stored(a)' = StoredIn(dc', a)
BY DEF Stored, StoredIn

\* A datum that is put in is on the byte of its count, and no other comes up.
LEMMA MarkedKept ==
  ASSUME NEW K, Reads(K), Mirrors(text, Len(source)), Counted(K - 1), Marked,
         FilterLabel \/ FilterDatum \/ FilterRest
  PROVE  Marked'
<1>1. source' = source /\ DOMAIN source = 1 .. Len(source) /\ Len(source) \in Nat
  BY Source DEF FilterLabel, FilterDatum, FilterRest, Reads
<1>2. \A n : Filled(n)' = Filled(n) /\ IsDatum(source[n])' = IsDatum(source[n])
  BY <1>1 DEF Filled, Earlier, SizeOf, IsDatum
<1>3. \A a \in Nat, n \in DOMAIN source :
        IsDatum(source[n]) /\ StoredIn(dc, a) = Datum(n, 1) => (a - Filled(n)) % 4 = 0
  BY StoredIs DEF Marked
<1>4. SUFFICES ASSUME NEW a \in Nat, NEW n \in DOMAIN source, IsDatum(source[n]),
                      StoredIn(dc', a) = Datum(n, 1)
               PROVE  (a - Filled(n)) % 4 = 0
  <2>1. \A a \in Nat, n \in DOMAIN source :
          IsDatum(source[n]) /\ StoredIn(dc', a) = Datum(n, 1) => (a - Filled(n)) % 4 = 0
    BY <1>4
  <2> QED
    BY <2>1, <1>1, <1>2, StoredIs DEF Marked, Datum
<1>5. CASE FilterLabel \/ FilterRest
  <2>1. dc' = dc
    BY <1>5 DEF FilterLabel, FilterRest, data
  <2> QED
    BY <2>1, <1>3, <1>4
<1>6. CASE FilterDatum
  <2>1. PICK k, o, p, s : /\ k = text[K].k /\ o = text[K].from /\ p = Free(k)
                          /\ s = SizeOf(text[K])
    OBVIOUS
  <2>2. /\ p \in Nat /\ s \in 1 .. 4 /\ IsDatum(text[K]) /\ Packed(dc', dc, p, o, s)
    BY <1>6, <2>1, DatumPacked
  <2>3. (p - Filled(o)) % 4 = 0
    BY <2>1, <2>2, FreeAt DEF Reads
  <2>4. \/ StoredIn(dc', a) = StoredIn(dc, a)
        \/ StoredIn(dc', a) = Zero
        \/ a \in p .. (p + s - 1)
    BY <2>2 DEF Packed, Elsewhere
  <2>5. CASE StoredIn(dc', a) = StoredIn(dc, a)
    BY <2>5, <1>3, <1>4
  <2>6. CASE StoredIn(dc', a) = Zero
    BY <2>6, <1>1, <1>4 DEF Zero, Datum
  <2>7. CASE a \in p .. (p + s - 1)
    <3>1. PICK j : j = a - p + 1
      OBVIOUS
    <3>2. j \in 1 .. s /\ a = p + j - 1
      BY <2>2, <2>7, <3>1
    <3>3. StoredIn(dc', a) = Datum(o, j)
      BY <2>2, <3>2 DEF Packed
    <3>4. o = n /\ j = 1
      BY <3>3, <1>4 DEF Datum
    <3>5. a = p
      BY <3>2, <3>4, <2>2
    <3> QED
      BY <3>4, <3>5, <2>3
  <2> QED
    BY <2>4, <2>5, <2>6, <2>7
<1> QED
  BY <1>5, <1>6

\* Labels of data come in at the next word, and stay where they are.
LEMMA LabelsGrow ==
  ASSUME NEW K, Reads(K), FilterLabel \/ FilterDatum \/ FilterRest
  PROVE  /\ source' = source /\ text' = text
         /\ \A x \in DOMAIN dp :
              /\ x \in DOMAIN dp'
              /\ dp'[x] = dp[x] \/ (IsDataLabel(text[K]) /\ x = text[K].to)
         /\ IsDataLabel(text[K]) =>
              text[K].to \in DOMAIN dp' /\ dp'[text[K].to] = Len(dc')
<1>1. CASE FilterRest
  BY <1>1 DEF FilterRest, Reads, data, IsDataLabel
<1>2. CASE FilterDatum
  BY <1>2 DEF FilterDatum, Reads, IsDatum, IsDataLabel
<1>3. CASE FilterLabel /\ text[K].to \notin DataLabels
  BY <1>3 DEF FilterLabel, Reads, IsDataLabel
<1>4. CASE FilterLabel /\ text[K].to \in DataLabels
  <2>1. PICK l : l = text[K].to
    OBVIOUS
  <2>2. /\ dp' = With(dp, l, Len(dc)) /\ text[K].k = "label"
        /\ dc' = dc /\ source' = source /\ text' = text
    BY <1>4, <2>1 DEF FilterLabel, Reads
  <2>3. /\ DOMAIN dp' = DOMAIN dp \cup {l}
        /\ \A x \in DOMAIN dp \cup {l} : dp'[x] = IF x = l THEN Len(dc) ELSE dp[x]
    BY <2>2 DEF With
  <2> QED
    BY <1>4, <2>1, <2>2, <2>3 DEF IsDataLabel
<1> QED
  BY <1>1, <1>2, <1>3, <1>4

\* The line before a datum's has its label, or is it.
LEMMA LabelBefore ==
  ASSUME Typed, Complete(text), Mirrors(text, Len(source)), Contiguous(source),
         NEW K \in DOMAIN text, IsDatum(text[K]), NEW n, n = text[K].from,
         NEW q, q = text[K - 1].from, Named(K - 1)
  PROVE  /\ K > 1 /\ K - 1 \in DOMAIN text /\ K - 1 > 0
         /\ Before(source, n) \in Nat
         /\ \/ /\ IsDatum(text[K - 1]) /\ LabelOf(n) = LabelOf(q)
               /\ Before(source, q) \in Nat /\ SizeOf(source[q]) \in Nat
               /\ Before(source, n) = Before(source, q) + SizeOf(source[q])
            \/ /\ IsDataLabel(text[K - 1]) /\ source[LabelOf(n)].to = text[K - 1].to
               /\ Before(source, n) = 0
<1>1. n \in DOMAIN source /\ IsDatum(source[n])
  BY AroundDatum
<1>2. /\ K > 1 /\ K - 1 \in DOMAIN text /\ q = n - 1
      /\ \/ IsDatum(text[K - 1]) /\ IsDatum(source[q])
         \/ /\ IsDataLabel(text[K - 1]) /\ IsDataLabel(source[q])
            /\ text[K - 1].to = source[q].to
  BY ContiguousText
<1>3. /\ Before(source, n) \in Nat
      /\ IsDataLabel(source[q]) => LabelOf(n) = q /\ Before(source, n) = 0
      /\ IsDatum(source[q]) =>
           /\ LabelOf(n) = LabelOf(q) /\ Before(source, q) \in Nat
           /\ Before(source, n) = Before(source, q) + SizeOf(source[q])
  BY <1>1, <1>2, Labelled
<1>4. K - 1 > 0
  BY <1>2, LenProperties DEF Typed, ListsTyped
<1> QED
  BY <1>2, <1>3, <1>4, SizeIsNat

\* The labels of the data that have been read are known.
LEMMA NamedKept ==
  ASSUME NEW K, Reads(K), Mirrors(text, Len(source)), Contiguous(source), Named(K - 1),
         FilterLabel \/ FilterDatum \/ FilterRest
  PROVE  Named(K)'
<1>1. /\ source' = source /\ text' = text
      /\ \A x \in DOMAIN dp : x \in DOMAIN dp'
      /\ IsDataLabel(text[K]) =>
           text[K].to \in DOMAIN dp' /\ dp'[text[K].to] = Len(dc')
  BY LabelsGrow
<1>2. \A n : LabelOf(n)' = LabelOf(n)
  BY <1>1 DEF LabelOf, IsDataLabel
<1>3. \A m \in 1 .. (K - 1) : IsDatum(text[m]) =>
        source[LabelOf(text[m].from)].to \in DOMAIN dp
  BY DEF Named
<1>4. ASSUME IsDatum(text[K])
      PROVE  source[LabelOf(text[K].from)].to \in DOMAIN dp
  <2>1. PICK n, q : n = text[K].from /\ q = text[K - 1].from
    OBVIOUS
  <2>2. /\ K > 1 /\ K - 1 \in DOMAIN text /\ K - 1 > 0
        /\ \/ IsDatum(text[K - 1]) /\ LabelOf(n) = LabelOf(q)
           \/ IsDataLabel(text[K - 1]) /\ source[LabelOf(n)].to = text[K - 1].to
    BY <1>4, <2>1, LabelBefore DEF Reads
  <2>3. K - 1 \in 1 .. (K - 1)
    BY <2>2, LenProperties DEF Reads, Typed, ListsTyped
  <2>4. IsDataLabel(text[K - 1]) => text[K - 1].to \in DOMAIN dp
    BY <2>2 DEF Named
  <2> QED
    BY <2>1, <2>2, <2>3, <2>4, <1>3
<1>5. \A m \in 1 .. K : m \in 1 .. (K - 1) \/ m = K
  BY ReadsFacts
<1>6. \A m \in 1 .. K : IsDatum(text[m]) =>
        source[LabelOf(text[m].from)].to \in DOMAIN dp
  BY <1>3, <1>4, <1>5
<1>7. \A m \in 1 .. K : IsDatum(text[m])' =>
        (source[LabelOf(text[m].from)].to \in DOMAIN dp)'
  BY <1>1, <1>2, <1>6 DEF IsDatum
<1>8. K > 0 /\ IsDataLabel(text[K])' => (text[K].to \in DOMAIN dp /\ dp[text[K].to] = Len(dc))'
  BY <1>1 DEF IsDataLabel
<1> QED
  BY <1>7, <1>8 DEF Named

\* The program looks for what has been read where it did before.
LEMMA PlaceStays ==
  ASSUME NEW K, Reads(K), Mirrors(text, Len(source)), Contiguous(source), Named(K - 1),
         FilterLabel \/ FilterDatum \/ FilterRest,
         NEW m \in 1 .. (K - 1), IsDatum(text[m]), NEW n, n = text[m].from
  PROVE  /\ n \in DOMAIN source /\ Place(n)' = Place(n) /\ Place(n) \in Nat
         /\ SizeOf(source[n])' = SizeOf(source[n]) /\ SizeOf(source[n]) \in 1 .. 4
         /\ End(n)' = End(n) /\ End(n) = Place(n) + SizeOf(source[n])
<1>1. /\ source' = source /\ text' = text
      /\ \A x \in DOMAIN dp :
           /\ x \in DOMAIN dp'
           /\ dp'[x] = dp[x] \/ (IsDataLabel(text[K]) /\ x = text[K].to)
  BY LabelsGrow
<1>2. /\ m \in DOMAIN text /\ K \in DOMAIN text /\ m < K
      /\ Typed /\ Complete(text)
      /\ Len(source) \in Nat /\ DOMAIN source = 1 .. Len(source)
  BY ReadsFacts, Source DEF Reads
<1>3. n \in DOMAIN source /\ IsDatum(source[n])
  BY <1>2, AroundDatum
<1>4. PICK p, x : p = LabelOf(n) /\ x = source[p].to
  OBVIOUS
<1>5. LastLabel(p, n) /\ Before(source, n) \in Nat
  BY <1>2, <1>3, <1>4, Labelled
<1>6. x \in DOMAIN dp /\ dp[x] \in Nat
  BY <1>2, <1>4 DEF Named, Typed, LabelsTyped
<1>7. ASSUME IsDataLabel(text[K]), x = text[K].to
      PROVE  FALSE
  <2>1. PICK q : q = text[K].from
    OBVIOUS
  <2>2. LabelAt(text, K) /\ q \in DOMAIN source
    BY <1>2, <1>7, <2>1 DEF Complete, IsDataLabel
  <2>3. IsLabel(source[q], x) /\ n < q
    BY <2>1, <2>2, <1>2, <1>7 DEF LabelAt
  <2>4. p \in 1 .. n /\ p \in DOMAIN source /\ IsLabel(source[p], x)
    BY <1>2, <1>3, <1>4, <1>5 DEF LastLabel, IsDataLabel, IsLabel
  <2>5. p = q
    BY <2>2, <2>3, <2>4, <1>2, Source DEF Compiled, IsLabel
  <2> QED
    BY <2>2, <2>3, <2>4, <2>5, <1>2, <1>3
<1>8. dp'[x] = dp[x]
  BY <1>1, <1>6, <1>7
<1>9. LabelOf(n)' = p /\ source'[p].to = x /\ Before(source, n)' = Before(source, n)
  BY <1>1, <1>4 DEF LabelOf, IsDataLabel
<1>10. Place(n)' = Place(n) /\ Place(n) = 4 * dp[x] + Before(source, n)
  BY <1>4, <1>8, <1>9 DEF Place
<1>11. Place(n) \in Nat
  BY <1>5, <1>6, <1>10
<1>12. SizeOf(source[n])' = SizeOf(source[n]) /\ SizeOf(source[n]) \in 1 .. 4
  BY <1>1, <1>3, DatumSizes DEF SizeOf, IsDatum
<1> QED
  BY <1>3, <1>10, <1>11, <1>12 DEF End

\* If the counts agree with the distances the next datum comes where the program
\* looks for it, behind the last one or at its label, and behind all others.
LEMMA NextPlace ==
  ASSUME NEW K, Reads(K), Mirrors(text, Len(source)), Contiguous(source),
         Agreeing(source), Counted(K - 1), Named(K - 1), Lays(K - 1),
         IsDatum(text[K]), NEW n, n = text[K].from
  PROVE  /\ Place(n) = Free(text[K].k)
         /\ \A m \in 1 .. (K - 1) : IsDatum(text[m]) => End(text[m].from) <= Place(n)
<1>1. PICK p, L, c, b : /\ p = Free(text[K].k) /\ L = Len(dc)
                        /\ c = Filled(n) /\ b = Before(source, n)
  OBVIOUS
<1>2. /\ L \in Nat /\ p \in Int /\ c \in Nat
      /\ 4 * (L - 1) < p /\ p <= 4 * L /\ (p - c) % 4 = 0
  BY <1>1, FreeAt DEF Reads
<1>3. n \in DOMAIN source /\ IsDatum(source[n])
  BY AroundDatum DEF Reads
<1>4. (c - b) % 4 = 0
  BY <1>1, <1>3 DEF Agreeing, Agrees, Filled
<1>5. PICK q : q = text[K - 1].from
  OBVIOUS
<1>6. /\ K - 1 \in 1 .. (K - 1) /\ K - 1 > 0 /\ b \in Nat
      /\ \/ /\ IsDatum(text[K - 1]) /\ LabelOf(n) = LabelOf(q)
            /\ Before(source, q) \in Nat /\ SizeOf(source[q]) \in Nat
            /\ b = Before(source, q) + SizeOf(source[q])
         \/ /\ IsDataLabel(text[K - 1]) /\ source[LabelOf(n)].to = text[K - 1].to
            /\ b = 0
  <2>1. /\ K - 1 > 0 /\ K - 1 \in DOMAIN text /\ b \in Nat
        /\ \/ /\ IsDatum(text[K - 1]) /\ LabelOf(n) = LabelOf(q)
              /\ Before(source, q) \in Nat /\ SizeOf(source[q]) \in Nat
              /\ b = Before(source, q) + SizeOf(source[q])
           \/ /\ IsDataLabel(text[K - 1]) /\ source[LabelOf(n)].to = text[K - 1].to
              /\ b = 0
    BY <1>1, <1>5, LabelBefore DEF Reads
  <2>2. K - 1 \in 1 .. (K - 1)
    BY <2>1, ReadsFacts
  <2> QED
    BY <2>1, <2>2
<1>7. PICK x, w : x = source[LabelOf(n)].to /\ w = dp[x]
  OBVIOUS
<1>8. Place(n) = 4 * w + b
  BY <1>1, <1>7 DEF Place
<1>9. /\ w \in Nat /\ 4 * (L - 1) < Place(n) /\ Place(n) <= 4 * L
      /\ \A m \in 1 .. (K - 1) : IsDatum(text[m]) => End(text[m].from) <= Place(n)
  <2>1. CASE IsDatum(text[K - 1]) /\ LabelOf(n) = LabelOf(q)
             /\ Before(source, q) \in Nat /\ SizeOf(source[q]) \in Nat
             /\ b = Before(source, q) + SizeOf(source[q])
    <3>1. x \in DOMAIN dp
      BY <2>1, <1>5, <1>6, <1>7 DEF Named
    <3>2. w \in Nat
      BY <3>1, <1>7 DEF Reads, Typed, LabelsTyped
    <3>3. End(q) = 4 * w + Before(source, q) + SizeOf(source[q])
      BY <2>1, <1>7 DEF End, Place
    <3>4. PICK a, z : a = Before(source, q) /\ z = SizeOf(source[q])
      OBVIOUS
    <3>5. 4 * w + a + z = 4 * w + (a + z)
      BY <2>1, <3>2, <3>4
    <3>6. End(q) = Place(n)
      BY <2>1, <3>3, <3>4, <3>5, <1>8
    <3>7. /\ 4 * (L - 1) < End(q)
          /\ \A m \in 1 .. (K - 1) : IsDatum(text[m]) => End(text[m].from) <= End(q)
      BY <2>1, <1>1, <1>5, <1>6 DEF Lays, LastEnds
    <3>8. End(q) <= 4 * L
      BY <2>1, <1>1, <1>5, <1>6 DEF Lays, LiesAt
    <3> QED
      BY <3>2, <3>6, <3>7, <3>8
  <2>2. CASE IsDataLabel(text[K - 1]) /\ x = text[K - 1].to /\ b = 0
    <3>1. w = L
      BY <2>2, <1>1, <1>6, <1>7 DEF Named
    <3>2. Place(n) = 4 * L
      BY <2>2, <3>1, <1>2, <1>8
    <3>3. \A m \in 1 .. (K - 1) : IsDatum(text[m]) => End(text[m].from) <= 4 * L
      BY <1>1 DEF Lays, LiesAt
    <3> QED
      BY <3>1, <3>2, <3>3, <1>2
  <2> QED
    BY <2>1, <2>2, <1>6, <1>7
<1>10. p = 4 * w + b
  <2>1. /\ 4 * (L - 1) < 4 * w + b /\ 4 * w + b <= 4 * L /\ w \in Nat /\ b \in Nat
    BY <1>6, <1>8, <1>9
  <2>2. PICK d : d = p - (4 * w + b)
    OBVIOUS
  <2>3. d \in -3 .. 3
    BY <2>1, <2>2, <1>2
  <2>4. (p - b) % 4 = 0
    BY <2>1, <1>2, <1>4
  <2>5. d % 4 = 0
    BY <2>1, <2>2, <2>4, <1>2
  <2>6. d = 0
    BY <2>3, <2>5
  <2> QED
    BY <2>1, <2>2, <2>6, <1>2
<1> QED
  BY <1>1, <1>8, <1>9, <1>10

\* What lies in place stays there: a datum is put behind it.
LEMMA LaysKept ==
  ASSUME NEW K, Reads(K), Typed', Mirrors(text, Len(source)), Contiguous(source),
         Agreeing(source), Counted(K - 1), Named(K - 1), Lays(K - 1),
         FilterLabel \/ FilterDatum \/ FilterRest
  PROVE  Lays(K)'
<1>1. source' = source /\ text' = text
  BY LabelsGrow
<1>2. /\ Len(dc) \in Nat /\ Len(dc') \in Nat /\ K > 0 /\ K \in 1 .. K
      /\ \A m \in 1 .. K : m \in 1 .. (K - 1) \/ m = K
      /\ \A m \in 1 .. (K - 1) : m \in 1 .. K
  <2>1. Len(dc') \in Nat
    BY LenProperties DEF Typed, DataTyped
  <2> QED
    BY <2>1, ReadsFacts
<1>3. ASSUME Len(dc) <= Len(dc'), NEW m \in 1 .. (K - 1), IsDatum(text[m]),
             \A a \in 0 .. (End(text[m].from) - 1) : StoredIn(dc', a) = StoredIn(dc, a)
      PROVE  LiesAt(text[m].from)'
  <2>1. PICK n, s, p : n = text[m].from /\ s = SizeOf(source[n]) /\ p = Place(n)
    OBVIOUS
  <2>2. /\ Place(n)' = p /\ p \in Nat /\ s \in 1 .. 4
        /\ SizeOf(source[n])' = s /\ End(n) = p + s /\ End(n)' = p + s
    BY <1>3, <2>1, PlaceStays
  <2>3. p + s <= 4 * Len(dc) /\ \A k \in 1 .. s : StoredIn(dc, p + k - 1) = Datum(n, k)
    BY <1>3, <2>1, <2>2, StoredIs DEF Lays, LiesAt
  <2>4. p + s <= 4 * Len(dc')
    BY <2>2, <2>3, <1>2, <1>3
  <2>5. ASSUME NEW k \in 1 .. s
        PROVE  StoredIn(dc', p + k - 1) = Datum(n, k)
    <3>1. p + k - 1 \in 0 .. (p + s - 1)
      BY <2>2
    <3> QED
      BY <3>1, <2>1, <2>2, <2>3, <1>3
  <2>6. n' = n /\ \A k : Datum(n, k)' = Datum(n, k)
    BY DEF Datum
  <2>7. /\ (End(n) <= 4 * Len(dc))'
        /\ \A k \in 1 .. SizeOf(source[n])' : Stored(Place(n) + k - 1)' = Datum(n, k)
    BY <2>2, <2>4, <2>5, StoredIs
  <2>8. LiesAt(n)'
    BY <2>7 DEF LiesAt, Datum
  <2>9. text'[m].from = n
    BY <2>1, <1>1
  <2> QED
    BY <2>8, <2>9
<1>4. CASE FilterLabel \/ FilterRest
  <2>1. dc' = dc /\ ~IsDatum(text[K])
    BY <1>4 DEF FilterLabel, FilterRest, Reads, data, IsDatum
  <2>2. Len(dc) <= Len(dc') /\ \A a : StoredIn(dc', a) = StoredIn(dc, a)
    BY <2>1, <1>2
  <2>3. \A m \in 1 .. K : IsDatum(text[m]) => LiesAt(text[m].from)'
    BY <2>1, <2>2, <1>2, <1>3
  <2>4. /\ \A m \in 1 .. K : IsDatum(text[m])' => LiesAt(text[m].from)'
        /\ ~IsDatum(text[K])'
    BY <2>1, <2>3, <1>1 DEF IsDatum
  <2> QED
    BY <2>4 DEF Lays, LastEnds
<1>5. CASE FilterDatum
  <2>1. PICK k, n, p, s : /\ k = text[K].k /\ n = text[K].from /\ p = Free(text[K].k)
                          /\ s = SizeOf(text[K])
    OBVIOUS
  <2>2. /\ p \in Nat /\ s \in 1 .. 4 /\ IsDatum(text[K]) /\ Packed(dc', dc, p, n, s)
        /\ p + s <= 4 * Len(dc') /\ Len(dc) <= Len(dc')
    BY <1>5, <2>1, DatumPacked
  <2>3. /\ Place(n) = p
        /\ \A m \in 1 .. (K - 1) : IsDatum(text[m]) => End(text[m].from) <= p
    BY <2>1, <2>2, NextPlace
  <2>4. SizeOf(source[n]) = s /\ SizeOf(source[n])' = s /\ IsDatum(source[n])
    <3>1. SizeOf(source[n]) = s /\ IsDatum(source[n])
      BY <2>1, <2>2, AroundDatum DEF Reads
    <3> QED
      BY <3>1, <1>1 DEF SizeOf, IsDatum
  <2>5. Place(n)' = p
    <3>1. dp' = dp
      BY <1>5 DEF FilterDatum
    <3> QED
      BY <3>1, <2>3, <1>1 DEF Place, LabelOf, IsDataLabel
  <2>6. End(n)' = p + s
    BY <2>4, <2>5 DEF End
  <2>7. LiesAt(n)'
    <3>1. \A q \in 1 .. s : StoredIn(dc', p + q - 1) = Datum(n, q)
      BY <2>2 DEF Packed
    <3>2. \A q \in 1 .. SizeOf(source[n])' : Stored(Place(n) + q - 1)' = Datum(n, q)
      BY <3>1, <2>4, <2>5, StoredIs
    <3>3. (End(n) <= 4 * Len(dc))'
      BY <2>2, <2>6
    <3> QED
      BY <3>2, <3>3 DEF LiesAt, Datum
  <2>8. ASSUME NEW m \in 1 .. (K - 1), IsDatum(text[m])
        PROVE  LiesAt(text[m].from)' /\ End(text[m].from)' <= p
    <3>1. PICK o : o = text[m].from
      OBVIOUS
    <3>2. End(o) <= p /\ End(o)' = End(o) /\ End(o) \in Nat
      BY <2>3, <2>8, <3>1, PlaceStays
    <3>3. \A a \in 0 .. (End(o) - 1) : StoredIn(dc', a) = StoredIn(dc, a)
      <4>1. \A a \in 0 .. (End(o) - 1) : a \in 0 .. (p - 1)
        BY <3>2, <2>2
      <4> QED
        BY <4>1, <2>2 DEF Packed
    <3>4. LiesAt(text[m].from)'
      BY <2>2, <2>8, <3>1, <3>3, <1>3
    <3>5. text'[m].from = o
      BY <3>1, <1>1
    <3> QED
      BY <3>2, <3>4, <3>5
  <2>9. text'[K].from = n
    BY <2>1, <1>1
  <2>10. ASSUME NEW m \in 1 .. K, IsDatum(text[m])
         PROVE  LiesAt(text[m].from)' /\ End(text[m].from)' <= End(text[K].from)'
    <3>1. End(text[K].from)' = p + s
      BY <2>6, <2>9
    <3>2. CASE m = K
      BY <3>1, <3>2, <2>2, <2>7, <2>9
    <3>3. CASE m \in 1 .. (K - 1)
      <4>1. PICK e : e = End(text[m].from)'
        OBVIOUS
      <4>2. PICK o : o = text[m].from
        OBVIOUS
      <4>3. text'[m].from = o /\ End(o)' = End(o) /\ End(o) \in Nat
        BY <1>1, <2>10, <3>3, <4>2, PlaceStays
      <4>4. LiesAt(text[m].from)' /\ e <= p /\ e \in Nat
        BY <2>8, <2>10, <3>3, <4>1, <4>3
      <4>5. e <= p + s
        BY <4>4, <2>2
      <4> QED
        BY <3>1, <4>1, <4>4, <4>5
    <3> QED
      BY <3>2, <3>3, <1>2
  <2>11. (4 * (Len(dc) - 1) < End(text[K].from))'
    <3>1. PICK L, M : L = Len(dc) /\ M = Len(dc')
      OBVIOUS
    <3>2. 4 * (M - 1) < p + s
      BY <1>5, <2>1, <2>2, <3>1, DatumPacked
    <3> QED
      BY <3>1, <3>2, <2>6, <2>9
  <2>12. /\ \A m \in 1 .. K : IsDatum(text[m])' => LiesAt(text[m].from)'
         /\ \A m \in 1 .. K : IsDatum(text[m])' => End(text[m].from)' <= End(text[K].from)'
    BY <2>10, <1>1 DEF IsDatum
  <2> QED
    BY <2>11, <2>12 DEF Lays, LastEnds
<1> QED
  BY <1>4, <1>5

\* So every line keeps the data as they are to be.
LEMMA LaidKept ==
  ASSUME NEW K, Reads(K), Typed', Mirrors(text, Len(source)), Laid(K - 1),
         FilterLabel \/ FilterDatum \/ FilterRest
  PROVE  Laid(K)'
<1>1. Counted(K)' /\ Marked'
  BY CountsKept, MarkedKept DEF Laid
<1>2. source' = source
  BY LabelsGrow
<1>3. ASSUME Contiguous(source)
      PROVE  Named(K)'
  BY <1>3, NamedKept DEF Laid
<1>4. ASSUME Contiguous(source), Agreeing(source)
      PROVE  Lays(K)'
  BY <1>4, LaysKept DEF Laid
<1>5. (Contiguous(source))' = Contiguous(source) /\ (Agreeing(source))' = Agreeing(source)
  BY <1>2
<1> QED
  BY <1>1, <1>3, <1>4, <1>5 DEF Laid

-----------------------------------------------------------------------------
(* The inductive invariant of the data, and what it says of them.          *)

DataPasses ==
  /\ pass = "expand" => /\ Mirrors(text, at - 1) /\ half_num = 0 /\ byte_num = 0
                        /\ dc = <<>>
  /\ pass # "expand" => Mirrors(text, Len(source))
  /\ pass = "filter" => Laid(at - 1)
  /\ pass \notin {"expand", "filter"} => Laid(Len(text))
DataInv == Inv /\ DataPasses

\* What lies in place stays there while the data do.
LEMMA LaidSame ==
  ASSUME UNCHANGED <<source, text, data>>, NEW K, Laid(K)
  PROVE  Laid(K)'
<1>1. UNCHANGED <<source, text, dc, dp, half_num, byte_num>>
  BY DEF data
<1>2. \A a : Stored(a)' = Stored(a)
  BY <1>1 DEF Stored
<1>3. \A k : Seen(k, K)' = Seen(k, K)
  BY <1>1 DEF Seen
<1>4. \A m : /\ IsDatum(text[m])' = IsDatum(text[m])
             /\ IsDataLabel(text[m])' = IsDataLabel(text[m])
  BY <1>1 DEF IsDatum, IsDataLabel
<1>5. \A n : /\ LabelOf(n)' = LabelOf(n) /\ Filled(n)' = Filled(n)
             /\ SizeOf(source[n])' = SizeOf(source[n])
             /\ IsDatum(source[n])' = IsDatum(source[n])
  BY <1>1 DEF LabelOf, IsDataLabel, Filled, Earlier, SizeOf, IsDatum
<1>6. \A n : Place(n)' = Place(n) /\ End(n)' = End(n)
  BY <1>1, <1>5 DEF Place, End
<1>7. \A n : LiesAt(n) => LiesAt(n)'
  BY <1>1, <1>2, <1>5, <1>6 DEF LiesAt
<1>8. LastEnds(K) => LastEnds(K)'
  BY <1>1, <1>4, <1>6 DEF LastEnds
<1>9. Lays(K) => Lays(K)'
  BY <1>1, <1>4, <1>7, <1>8 DEF Lays
<1>10. Named(K) => Named(K)'
  BY <1>1, <1>4, <1>5 DEF Named
<1>11. Marked'
  BY <1>1, <1>2, <1>5 DEF Laid, Marked
<1>12. Counted(K)'
  BY <1>1, <1>3 DEF Laid, Counted
<1>13. (Contiguous(source))' = Contiguous(source) /\ (Agreeing(source))' = Agreeing(source)
  BY <1>1
<1> QED
  BY <1>9, <1>10, <1>11, <1>12, <1>13 DEF Laid

\* A list mirrors the source as long as both stay.
LEMMA MirrorsSame ==
  ASSUME NEW t, text' = t, UNCHANGED source, NEW N, Mirrors(t, N)
  PROVE  Mirrors(text, N)'
BY DEF Mirrors, IsDatum

\* At the start there are no data.
LEMMA DataInit == Init => DataInv
<1> SUFFICES ASSUME Init PROVE DataPasses
  BY InvInit DEF DataInv
<1>1. Mirrors(<<>>, 0)
  BY DEF Mirrors
<1> QED
  BY <1>1 DEF Init, DataPasses

\* Every step keeps them in place.
LEMMA DataKept == DataInv /\ [Next]_vars => DataPasses'
<1> SUFFICES ASSUME DataInv, [Next]_vars PROVE DataPasses'
  OBVIOUS
<1>0. /\ Len(text) \in Nat /\ DOMAIN text = 1 .. Len(text)
      /\ Len(source) \in Nat /\ DOMAIN source = 1 .. Len(source)
      /\ at \in Nat \ {0} /\ text \in Seq(Lines)
      /\ Typed /\ Typed' /\ Inv /\ Passes /\ DataPasses
  BY TypesKept, LenProperties, Source DEF DataInv, Inv, Typed, ListsTyped
<1>1. CASE Expand
  <2>1. PICK N, t : N = at /\ t = text \o expand_ins(source[N], N)
    OBVIOUS
  <2>2. /\ N \in DOMAIN source /\ Expanded(text, N - 1) /\ Mirrors(text, N - 1)
        /\ pass = "expand" /\ at' = N + 1 /\ text' = t
        /\ UNCHANGED <<source, pass, half_num, byte_num, dc>>
        /\ half_num = 0 /\ byte_num = 0 /\ dc = <<>>
    BY <1>0, <1>1, <2>1 DEF Expand, Passes, WhileExpanding, DataPasses, data
  <2>3. Mirrors(t, N)
    BY <1>0, <2>1, <2>2, MirrorsNext
  <2>4. Mirrors(text, N)'
    BY <2>2, <2>3, MirrorsSame
  <2>5. at' - 1 = N
    BY <1>0, <2>1, <2>2
  <2>6. Mirrors(text, at - 1)'
    BY <2>4, <2>5
  <2> QED
    BY <2>2, <2>6 DEF DataPasses
<1>2. CASE InsertZeros
  <2>1. at - 1 = Len(source) /\ pass = "expand"
    BY <1>0, <1>2 DEF InsertZeros, Passes, WhileExpanding
  <2>2. /\ Expanded(text, Len(source)) /\ Mirrors(text, Len(source))
        /\ UNCHANGED <<source, half_num, byte_num>> /\ half_num = 0 /\ byte_num = 0
        /\ dc' = <<>> /\ at' = 1 /\ pass' = "filter"
    <3>1. Expanded(text, at - 1) /\ Mirrors(text, at - 1)
      BY <1>0, <2>1 DEF Passes, WhileExpanding, DataPasses
    <3> QED
      BY <1>0, <1>2, <2>1, <3>1 DEF InsertZeros, DataPasses, data
  <2>3. PICK t, N : t = text' /\ N = Len(source)
    OBVIOUS
  <2>4. Mirrors(t, N)
    BY <1>0, <1>2, <2>2, <2>3, MirrorsZeros DEF InsertZeros
  <2>5. Mirrors(text, N)' /\ N = Len(source')
    BY <2>2, <2>3, <2>4, MirrorsSame
  <2>6. Laid(0)'
    <3>1. half_num' = 0 /\ byte_num' = 0
      BY <2>2
    <3>2. PICK h, b : h = half_num /\ b = byte_num
      OBVIOUS
    <3>3. Counted(0)'
      <4>1. \A k : Seen(k, 0)' = {}
        BY DEF Seen
      <4> QED
        BY <3>1, <4>1, FS_EmptySet DEF Counted
    <3>4. Marked'
      <4>1. \A a : StoredIn(dc', a) = Zero
        BY <2>2 DEF StoredIn
      <4>2. \A n \in DOMAIN source' : n # 0
        BY <1>0, <2>2
      <4>3. \A a, n : n # 0 => Zero # Datum(n, 1)
        BY DEF Zero, Datum
      <4>4. \A a \in Nat, n \in DOMAIN source' : StoredIn(dc', a) # Datum(n, 1)
        BY <4>1, <4>2, <4>3
      <4>5. \A a \in Nat, n \in DOMAIN source' : Stored(a)' # Datum(n, 1)
        BY <4>4, StoredIs
      <4> QED
        BY <4>5 DEF Marked, Datum
    <3>5. 1 .. 0 = {} /\ ~(0 > 0)
      OBVIOUS
    <3>6. Lays(0)' /\ Named(0)'
      BY <3>5 DEF Lays, LastEnds, Named
    <3> QED
      BY <3>3, <3>4, <3>6 DEF Laid
  <2>7. at' - 1 = 0
    BY <2>2
  <2>8. Laid(at - 1)' /\ Mirrors(text, Len(source))'
    BY <2>5, <2>6, <2>7
  <2> QED
    BY <2>2, <2>8 DEF DataPasses
<1>3. CASE FilterLabel \/ FilterDatum \/ FilterRest
  <2>1. PICK K : K = at
    OBVIOUS
  <2>2. /\ pass = "filter" /\ at <= Len(text) /\ at' = K + 1
        /\ UNCHANGED <<source, pass, text>>
    BY <1>3, <2>1 DEF FilterLabel, FilterDatum, FilterRest, Filtering
  <2>3. Reads(K) /\ Mirrors(text, Len(source)) /\ Laid(K - 1)
    BY <1>0, <2>1, <2>2 DEF Passes, WhileFiltering, Reads, DataPasses
  <2>4. Laid(K)'
    BY <1>0, <1>3, <2>3, LaidKept
  <2>5. at' - 1 = K
    BY <1>0, <2>1, <2>2
  <2>6. PICK t, N : t = text /\ N = Len(source)
    OBVIOUS
  <2>7. Mirrors(text, N)' /\ N = Len(source')
    BY <2>2, <2>3, <2>6, MirrorsSame
  <2>8. Laid(at - 1)' /\ Mirrors(text, Len(source))'
    BY <2>4, <2>5, <2>7
  <2> QED
    BY <2>2, <2>8 DEF DataPasses
<1>4. ASSUME UNCHANGED <<source, text, data>>, pass # "expand", NEW K, Laid(K),
             pass' = "filter" => at' - 1 = K,
             pass' \notin {"expand", "filter"} => Len(text) = K,
             pass' # "expand"
      PROVE  DataPasses'
  <2>1. PICK t, N : t = text /\ N = Len(source)
    OBVIOUS
  <2>2. Mirrors(t, N)
    BY <1>0, <1>4, <2>1 DEF DataPasses
  <2>3. Mirrors(text, N)' /\ N = Len(source')
    BY <1>4, <2>1, <2>2, MirrorsSame
  <2>4. Laid(K)'
    BY <1>4, LaidSame
  <2>5. (pass = "filter" => Laid(at - 1))' /\ (pass \notin {"expand", "filter"} => Laid(Len(text)))'
    BY <1>4, <2>4
  <2>6. Mirrors(text, Len(source))'
    BY <2>3
  <2> QED
    BY <1>4, <2>5, <2>6 DEF DataPasses
<1>5. CASE Filtered
  <2>1. /\ UNCHANGED <<source, text, data>> /\ pass = "filter" /\ pass' = "interpret"
        /\ at - 1 = Len(text)
    BY <1>0, <1>5 DEF Filtered, Passes, WhileFiltering
  <2>2. PICK K : K = Len(text)
    OBVIOUS
  <2>3. Laid(K)
    <3>1. Laid(at - 1)
      BY <1>0, <2>1 DEF DataPasses
    <3> QED
      BY <2>1, <2>2, <3>1
  <2> QED
    BY <1>4, <2>1, <2>2, <2>3
<1>6. CASE Interpret \/ WriteHeaders
  <2>1. /\ UNCHANGED <<source, text, data>> /\ pass = "interpret"
        /\ pass' \notin {"expand", "filter"}
    BY <1>6 DEF Interpret, WriteHeaders
  <2>2. PICK K : K = Len(text)
    OBVIOUS
  <2>3. Laid(K)
    BY <1>0, <2>1, <2>2 DEF DataPasses
  <2> QED
    BY <1>4, <2>1, <2>2, <2>3
<1>7. CASE UNCHANGED vars
  <2>1. UNCHANGED <<source, text, data, pass, at, half_num, byte_num, dc>>
    BY <1>7 DEF vars, data
  <2>2. CASE pass = "expand"
    <3>1. PICK t, N : t = text /\ N = at - 1
      OBVIOUS
    <3>2. Mirrors(text, N)' /\ at' - 1 = N
      BY <1>0, <2>1, <2>2, <3>1, MirrorsSame DEF DataPasses
    <3>3. Mirrors(text, at - 1)'
      BY <3>2
    <3> QED
      BY <1>0, <2>1, <2>2, <3>3 DEF DataPasses
  <2>3. CASE pass = "filter"
    <3>1. PICK K : K = at - 1
      OBVIOUS
    <3>2. Laid(K)
      BY <1>0, <2>3, <3>1 DEF DataPasses
    <3> QED
      BY <1>4, <2>1, <2>3, <3>1, <3>2
  <2>4. CASE pass \notin {"expand", "filter"}
    <3>1. PICK K : K = Len(text)
      OBVIOUS
    <3>2. Laid(K)
      BY <1>0, <2>4, <3>1 DEF DataPasses
    <3> QED
      BY <1>4, <2>1, <2>4, <3>1, <3>2
  <2> QED
    BY <2>2, <2>3, <2>4
<1> QED
  BY <1>1, <1>2, <1>3, <1>5, <1>6, <1>7 DEF Next

\* While the assembler runs its data are in place.
THEOREM DataInvariant == Spec => []DataInv
<1>1. Init => DataInv
  BY DataInit
<1>2. DataInv /\ [Next]_vars => DataInv'
  BY TypesKept, PassesKept, DataKept DEF DataInv, Inv
<1> QED
  BY <1>1, <1>2, PTL DEF Spec

-----------------------------------------------------------------------------
(* From the lines of the text to those of the source.                      *)

\* A datum is in the text.
LEMMA DatumInText ==
  ASSUME Typed, Mirrors(text, Len(source)), NEW n \in DOMAIN source, IsDatum(source[n])
  PROVE  \E m \in 1 .. Len(text) : IsDatum(text[m]) /\ text[m].from = n
<1>1. DOMAIN text = 1 .. Len(text) /\ DOMAIN source = 1 .. Len(source)
  BY LenProperties, Source DEF Typed, ListsTyped
<1> QED
  BY <1>1 DEF Mirrors

\* Contiguous data are where the program looks for them if the counts agree with
\* the distances; and each of them must agree, as its count has put it where it is.
LEMMA InvInPlace == DataInv => InPlace
<1> SUFFICES ASSUME DataInv, pass \notin {"expand", "filter"}, Contiguous(source)
             PROVE  (\A n \in DOMAIN source : IsInPlace(n)) = Agreeing(source)
  BY DEF InPlace
<1>1. /\ Len(source) \in Nat /\ DOMAIN source = 1 .. Len(source)
      /\ \A x \in DOMAIN dp : dp[x] \in Nat
      /\ Typed /\ Mirrors(text, Len(source)) /\ Laid(Len(text))
  BY Source DEF DataInv, DataPasses, Inv, Passes, Typed, LabelsTyped
<1>2. \A n, k : 4 * dp[source[LabelOf(n)].to] + Before(source, n) + k - 1 = Place(n) + k - 1
  BY DEF Place
<1>3. ASSUME Agreeing(source), NEW n \in DOMAIN source
      PROVE  IsInPlace(n)
  <2>1. CASE IsDatum(source[n])
    <3>1. PICK m \in 1 .. Len(text) : IsDatum(text[m]) /\ text[m].from = n
      BY <2>1, <1>1, DatumInText
    <3>2. LiesAt(n)
      BY <3>1, <1>1, <1>3 DEF Laid, Lays
    <3> QED
      BY <3>2, <1>2 DEF LiesAt, IsInPlace
  <2>2. CASE ~IsDatum(source[n])
    <3>1. SizeOf(source[n]) = 0
      BY <2>2 DEF SizeOf
    <3> QED
      BY <3>1 DEF IsInPlace
  <2> QED
    BY <2>1, <2>2
<1>4. ASSUME NEW n \in DOMAIN source, IsInPlace(n), IsDatum(source[n])
      PROVE  Agrees(source, n)
  <2>1. PICK m \in 1 .. Len(text) : IsDatum(text[m]) /\ text[m].from = n
    BY <1>1, <1>4, DatumInText
  <2>2. PICK w, b, c, a : /\ w = dp[source[LabelOf(n)].to] /\ b = Before(source, n)
                          /\ c = Filled(n) /\ a = Place(n)
    OBVIOUS
  <2>3. w \in Nat
    BY <2>1, <2>2, <1>1 DEF Laid, Named
  <2>4. b \in Nat
    BY <2>2, <1>1, <1>4, Labelled
  <2>5. a = 4 * w + b /\ a \in Nat
    BY <2>2, <2>3, <2>4 DEF Place
  <2>6. Stored(a) = Datum(n, 1)
    <3>1. 1 \in 1 .. SizeOf(source[n])
      BY <1>4, DatumSizes
    <3>2. Stored(a + 1 - 1) = Datum(n, 1)
      BY <3>1, <2>2, <1>2, <1>4 DEF IsInPlace
    <3> QED
      BY <3>2, <2>5
  <2>7. (a - c) % 4 = 0
    BY <2>2, <2>5, <2>6, <1>1, <1>4 DEF Laid, Marked
  <2>8. c \in Nat
    <3>1. IsFiniteSet(Earlier(source, n))
      <4>1. Earlier(source, n) \subseteq 1 .. (n - 1) /\ n - 1 \in Nat
        BY <1>1 DEF Earlier
      <4>2. IsFiniteSet(1 .. (n - 1))
        BY <4>1, FS_Interval
      <4> QED
        BY <4>1, <4>2, FS_Subset
    <3>2. Cardinality(Earlier(source, n)) \in Nat /\ SizeOf(source[n]) \in Nat
      BY <3>1, FS_CardinalityType, SizeIsNat
    <3> QED
      BY <3>2, <2>2 DEF Filled
  <2>9. (c - b) % 4 = 0
    BY <2>3, <2>4, <2>5, <2>7, <2>8
  <2> QED
    BY <2>2, <2>9 DEF Agrees, Filled
<1>5. (\A n \in DOMAIN source : IsInPlace(n)) => Agreeing(source)
  BY <1>4 DEF Agreeing
<1>6. Agreeing(source) => \A n \in DOMAIN source : IsInPlace(n)
  BY <1>3
<1>7. Agreeing(source) \in BOOLEAN /\ (\A n \in DOMAIN source : IsInPlace(n)) \in BOOLEAN
  BY DEF Agreeing
<1> QED
  BY <1>5, <1>6, <1>7

\* InPlace, for every source: data that stand behind their labels, however words,
\* halves and bytes follow each other, can all be read at their distances from them
\* if the count of each size in the file agrees with those distances, and not all
\* of them can if one does not.
THEOREM KeepsInPlace == Spec => []InPlace
BY DataInvariant, InvInPlace, PTL
=============================================================================
