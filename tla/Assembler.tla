----------------------------- MODULE Assembler -----------------------------
(***************************************************************************)
(* ass2bin.run, pass by pass: a line of assembly becomes one instruction   *)
(* or two, labels become positions among the instructions or the words of  *)
(* data, data are packed, and values, jumps to labels and addresses of     *)
(* data become immediates. The bits of an instruction are left to          *)
(* Encoding.                                                               *)
(*                                                                         *)
(* Lists are indexed from 1 here; positions (ip, dp, i) are from 0, as in  *)
(* the code. Every line carries where it comes from, its line in the       *)
(* source.                                                                 *)
(***************************************************************************)
EXTENDS Addresses, DataLayout, FiniteSets

CONSTANTS
  Sources,     \* the assembly files considered
  Custom,      \* cusins_set: functions that are custom instructions
  DataLabels,  \* the labels .LCn
  MainLike,    \* the labels that end in "main"
  pre_zero,    \* 2 in the code
  Span,        \* branch: 2^12, jal: 2^20; their fields hold -Span .. Span - 1
  Held         \* 2^15 and 2^23, of the whole bytes __binary makes first

VARIABLES
  source,      \* contents
  pass,
  at,          \* the line being read
  text,        \* new_contents
  ic, ip,      \* imem_contents, imem_position
  dc, dp,      \* dmem_contents, dmem_position
  half_num, byte_num,
  image,       \* the words of imem.txt, each with its immediate
  PC_STARTADDR   \* of both headers; -1 while they are not written

data == <<dc, dp, half_num, byte_num>>
vars == <<source, pass, at, text, ic, ip, data, image, PC_STARTADDR>>

\* Kinds of lines: "ins", "li", "call", "branch", "jal" (also j), "%hi" and
\* "%lo" (lui and addi with the address of a label), "label", "word", "half",
\* "byte", and "dot", any other directive. v is the value of a li.
Line(k, to, v, from) == [k |-> k, to |-> to, v |-> v, from |-> from]
IsDatum(l) == l.k \in {"word", "half", "byte"}
Jumps == {"branch", "jal"}
IsInstruction(l) == l.k \notin {"label", "dot"} /\ ~IsDatum(l)

\* What a compiler writes: one line for every label, with an instruction of its
\* own after it if it is a label of code, in a file that auipc and jalr reach
\* across.
SourceLine ==
  [k : {"ins", "li", "call", "branch", "jal", "%hi", "%lo", "label", "word",
        "half", "byte", "dot"},
   to : STRING, v : Word, from : {0}]
Compiled(s) ==
  /\ s \in Seq(SourceLine)
  /\ 8 * (2 * Len(s) + pre_zero) < Modulus
  /\ \A m, n \in DOMAIN s :
       s[m].k = "label" /\ s[n].k = "label" /\ s[m].to = s[n].to => m = n
  /\ \A m \in DOMAIN s :
       s[m].k = "label" /\ s[m].to \notin DataLabels =>
         \E n \in DOMAIN s : n > m /\ IsInstruction(s[n])

ASSUME SourcesAssumption == \A s \in Sources : Compiled(s)
ASSUME LabelsAssumption ==
  pre_zero \in Nat \ {0} /\ "main" \in MainLike /\ MainLike \cap DataLabels = {}
ASSUME JumpsAssumption == \A k \in Jumps : Span[k] \in Nat \ {0} /\ Held[k] \in Nat

Init == /\ source \in Sources
        /\ pass = "expand" /\ at = 1
        /\ text = <<>> /\ ic = <<>> /\ dc = <<>> /\ image = <<>>
        /\ ip = [l \in {} |-> 0] /\ dp = [l \in {} |-> 0]
        /\ half_num = 0 /\ byte_num = 0
        /\ PC_STARTADDR = -1

-----------------------------------------------------------------------------
expand_ins(l, n) ==
  LET parts == LoadImmediate(l.v)
  IN  IF l.k = "li"
      THEN IF FitsOne(l.v) THEN <<Line("addi", "zero", parts[2], n)>>
           ELSE <<Line("lui", "", parts[1], n), Line("addi", "rd", parts[2], n)>>
      ELSE IF l.k = "call"
      THEN IF l.to \in Custom THEN <<Line("jalrcus", "", 0, n)>>
           ELSE <<Line("%h20", l.to, 0, n), Line("%l12", l.to, 0, n)>>
      ELSE <<[l EXCEPT !.from = n]>>

\* The nops that keep an instruction of main from running ahead of fetch: they
\* follow the first line that "main:" is found in.
IsMain(l) == l.k = "label" /\ l.to \in MainLike
Zeros(from) == [m \in 1 .. pre_zero |-> Line("addi", "zero", 0, from)]
FirstMain(t) == CHOOSE n \in DOMAIN t : /\ IsMain(t[n])
                                        /\ \A m \in 1 .. (n - 1) : ~IsMain(t[m])
WithZeros_Overwriting(t) ==
  LET n == FirstMain(t)
  IN  SubSeq(t, 1, n) \o Zeros(t[n].from) \o SubSeq(t, n + 1 + pre_zero, Len(t))
WithZeros(t) ==
  LET n == FirstMain(t)
  IN  SubSeq(t, 1, n) \o Zeros(t[n].from) \o SubSeq(t, n + 1, Len(t))

Expand ==
  /\ pass = "expand" /\ at <= Len(source)
  /\ text' = text \o expand_ins(source[at], at)
  /\ at' = at + 1
  /\ UNCHANGED <<source, pass, ic, ip, data, image, PC_STARTADDR>>

InsertZeros ==
  /\ pass = "expand" /\ at > Len(source)
  /\ text' = IF \E n \in DOMAIN text : IsMain(text[n]) THEN WithZeros(text) ELSE text
  /\ pass' = "filter" /\ at' = 1
  /\ UNCHANGED <<source, ic, ip, data, image, PC_STARTADDR>>

-----------------------------------------------------------------------------
(* __pre_mapfilt.                                                          *)

Filtering == pass = "filter" /\ at <= Len(text) /\ at' = at + 1
With(f, l, p) == [m \in DOMAIN f \cup {l} |-> IF m = l THEN p ELSE f[m]]

\* A label is the position of the next instruction, or of the next word.
FilterLabel ==
  /\ Filtering /\ text[at].k = "label"
  /\ LET l == text[at].to
     IN  IF l \in DataLabels
         THEN ip' = With(ip, l, Len(dc)) /\ dp' = With(dp, l, Len(dc))
         ELSE ip' = With(ip, l, Len(ic)) /\ UNCHANGED dp
  /\ UNCHANGED <<source, pass, text, ic, dc, half_num, byte_num, image, PC_STARTADDR>>

\* Each size counts its own data, whatever comes between them.
FilterDatum ==
  /\ Filtering /\ IsDatum(text[at])
  /\ LET l == text[at]
     IN  \/ /\ l.k = "word"
            /\ dc' = AddWord(dc, l.from)
            /\ UNCHANGED <<half_num, byte_num>>
         \/ /\ l.k = "half"
            /\ dc' = AddHalf(dc, half_num, l.from)
            /\ half_num' = 1 - half_num /\ UNCHANGED byte_num
         \/ /\ l.k = "byte"
            /\ dc' = AddByte(dc, byte_num, l.from)
            /\ byte_num' = (byte_num + 1) % 4 /\ UNCHANGED half_num
  /\ UNCHANGED <<source, pass, text, ic, ip, dp, image, PC_STARTADDR>>

\* Other directives are left out, .zero among them.
FilterRest ==
  /\ Filtering /\ text[at].k # "label" /\ ~IsDatum(text[at])
  /\ ic' = IF text[at].k = "dot" THEN ic ELSE Append(ic, text[at])
  /\ UNCHANGED <<source, pass, text, ip, data, image, PC_STARTADDR>>

Filtered ==
  /\ pass = "filter" /\ at > Len(text)
  /\ pass' = "interpret" /\ at' = 1
  /\ UNCHANGED <<source, text, ic, ip, data, image, PC_STARTADDR>>

-----------------------------------------------------------------------------
(* subsidmem of a line, and __interpret of the line it leaves.             *)

\* A branch to a label that is nowhere defined goes 10 bytes back.
calcJump(x, i) == IF x \in DOMAIN ip THEN (ip[x] - i) * 4 ELSE -10

\* The number in a field of SB_type or UJ_type, whose upper bits are dropped.
Field(k, d) == ((d + Span[k]) % (2 * Span[k])) - Span[k]

DataAddress(x) == 4 * dp[x]

ImmediateAt_OwnLine(l, i) ==
  IF l.k = "%h20" THEN CallParts(calcJump(l.to, i) % Modulus)[1]
  ELSE IF l.k = "%l12" THEN CallParts(calcJump(l.to, i) % Modulus)[2]
  ELSE IF l.k = "%hi" THEN DataParts(DataAddress(l.to))[1]
  ELSE IF l.k = "%lo" THEN DataParts(DataAddress(l.to))[2]
  ELSE IF l.k \in Jumps THEN Field(l.k, calcJump(l.to, i))
  ELSE l.v
ImmediateAt(l, i) ==
  IF l.k = "%h20" THEN CallParts(calcJump(l.to, i) % Modulus)[1]
  ELSE IF l.k = "%l12" THEN CallParts(calcJump(l.to, i - 1) % Modulus)[2]
  ELSE IF l.k = "%hi" THEN DataParts(DataAddress(l.to))[1]
  ELSE IF l.k = "%lo" THEN DataParts(DataAddress(l.to))[2]
  ELSE IF l.k \in Jumps THEN Field(l.k, calcJump(l.to, i))
  ELSE l.v

\* A call or an address of a label that is nowhere defined ends the assembler,
\* and so does a number that is too large for the bytes of its field.
Undefined(l) == \/ l.k \in {"%h20", "%l12"} /\ l.to \notin DOMAIN ip
                \/ l.k \in {"%hi", "%lo"} /\ l.to \notin DOMAIN dp
Refused(l, i) ==
  \/ l.k = "%lo" /\ DataRefused(DataAddress(l.to))
  \/ l.k \in Jumps /\ calcJump(l.to, i) \notin -Held[l.k] .. (Held[l.k] - 1)

Interpret ==
  /\ pass = "interpret" /\ at <= Len(ic)
  /\ LET l == ic[at]
     IN  IF Undefined(l) \/ Refused(l, at - 1)
         THEN pass' = "failed" /\ UNCHANGED <<at, image>>
         ELSE /\ image' = Append(image, [line |-> l, imm |-> ImmediateAt(l, at - 1)])
              /\ at' = at + 1
              /\ UNCHANGED pass
  /\ UNCHANGED <<source, text, ic, ip, data, PC_STARTADDR>>

\* The address where both cores start. A file without main ends the assembler
\* here, after it has written the images.
StartAddress_InWords == ip["main"]
StartAddress == ip["main"] * 4

WriteHeaders ==
  /\ pass = "interpret" /\ at > Len(ic)
  /\ IF "main" \in DOMAIN ip
     THEN PC_STARTADDR' = StartAddress /\ pass' = "done"
     ELSE pass' = "failed" /\ UNCHANGED PC_STARTADDR
  /\ UNCHANGED <<source, at, text, ic, ip, data, image>>

Next == \/ Expand \/ InsertZeros
        \/ FilterLabel \/ FilterDatum \/ FilterRest \/ Filtered
        \/ Interpret \/ WriteHeaders
Spec == Init /\ [][Next]_vars

-----------------------------------------------------------------------------
(* What the image and the data are to the program.                         *)

\* The word of the image at an address.
WordAt(a) == (a \div 4) + 1
AddressOf(n) == 4 * (n - 1)

\* The lines of the source that have a word in the image: the instructions, and
\* the first label that is taken for main, which the zeros come from.
TakesZeros(n) == IsMain(source[n]) /\ \A m \in 1 .. (n - 1) : ~IsMain(source[m])
Emits(n) == IsInstruction(source[n]) \/ TakesZeros(n)

\* The first of them that stands at or behind the line n.
FirstFrom(n) == CHOOSE m \in n .. Len(source) :
                  Emits(m) /\ \A o \in n .. (m - 1) : ~Emits(o)
IsLabel(l, x) == l.k = "label" /\ l.to = x
LineOf(x) == CHOOSE n \in DOMAIN source : IsLabel(source[n], x)
CodeLabel(x) == x \notin DataLabels /\ \E n \in DOMAIN source : IsLabel(source[n], x)

\* A word of the image is the first of what a label stands before.
LeadsTo(target, x) ==
  /\ target \in DOMAIN ic
  /\ ic[target].from = FirstFrom(LineOf(x))
  /\ target > 1 => ic[target - 1].from # ic[target].from

\* Every auipc and jalr of a call together lead in the image to the first word
\* of what the label stands before, whatever has been expanded, left out or put in
\* between. A branch or jal does so exactly if its field can hold the distance:
\* none is refused for being out of reach, it goes elsewhere.
JumpsLand ==
  \A n \in DOMAIN image :
    LET l == image[n].line
    IN  CodeLabel(l.to) =>
          /\ l.k \in Jumps =>
               \E target \in DOMAIN ic :
                 LET distance == AddressOf(target) - AddressOf(n)
                 IN  /\ LeadsTo(target, l.to)
                     /\ (AddressOf(n) + image[n].imm = AddressOf(target))
                          = (distance \in -Span[l.k] .. (Span[l.k] - 1))
          /\ l.k = "%l12" =>
               LeadsTo(WordAt(AuipcJalr(AddressOf(n - 1),
                                        <<image[n - 1].imm, image[n].imm>>)), l.to)

\* The one or two instructions of a li leave its value in the register.
LiLoadsValue ==
  \A n \in DOMAIN image :
    LET l == image[n].line
    IN  l.k = "addi" /\ source[l.from].k = "li" =>
          LuiAddi(<<IF l.to = "zero" THEN 0 ELSE image[n - 1].imm, image[n].imm>>)
            = source[l.from].v

\* A core that starts at PC_STARTADDR, and passes the zeros if they are there,
\* begins with the first instruction of main, wherever in the file main is. Main
\* is without them only if a label before it ends in "main" too.
StartsAtMain ==
  pass = "done" =>
    LET first == WordAt(PC_STARTADDR)
        main == LineOf("main")
        zeros == IF TakesZeros(main) THEN pre_zero ELSE 0
    IN  /\ first + zeros \in DOMAIN image
        /\ \A n \in first .. (first + zeros - 1) : image[n].line.from = main
        /\ image[first + zeros].line.from = FirstFrom(main + 1)

\* The words of the image come from the instructions of the source and main's
\* zeros, from all of them, and in their order: none is lost between the passes.
NothingDropped ==
  pass = "done" =>
    /\ \A m, n \in DOMAIN image : m <= n => image[m].line.from <= image[n].line.from
    /\ {image[n].line.from : n \in DOMAIN image} = {n \in DOMAIN source : Emits(n)}

-----------------------------------------------------------------------------
(* Data. The compiler writes those of a label one after the other, and the *)
(* program reads a datum at its distance from the label.                   *)

IsDataLabel(l) == l.k = "label" /\ l.to \in DataLabels
SizeOf(l) == IF IsDatum(l) THEN dmem_type[l.k] ELSE 0
LabelOf(n) == CHOOSE m \in 1 .. n :
                /\ IsDataLabel(source[m])
                /\ \A o \in (m + 1) .. n : ~IsDataLabel(source[o])
Before(s, n) ==
  LET offset[m \in 1 .. n] ==
        IF IsDataLabel(s[m]) \/ m = 1 THEN 0
        ELSE offset[m - 1] + SizeOf(s[m - 1])
  IN  offset[n]

\* What dcache answers at an address, byte by byte.
Stored(a) ==
  LET cell == (a \div 4) + 1
  IN  IF cell \in DOMAIN dc THEN dc[cell][(a % 4) + 1] ELSE Zero

IsInPlace(n) ==
  \A k \in 1 .. SizeOf(source[n]) :
    Stored(4 * dp[source[LabelOf(n)].to] + Before(source, n) + k - 1) = Datum(n, k)

\* The data of a label stand behind it without another directive in between;
\* what is left out of those, .zero and strings, would have its room there.
Contiguous(s) ==
  \A n \in DOMAIN s :
    IsDatum(s[n]) => n > 1 /\ (IsDatum(s[n - 1]) \/ IsDataLabel(s[n - 1]))

\* The count of its size in the whole file and its distance from its label agree
\* on the byte of a word where a datum begins.
Earlier(s, n) == {m \in 1 .. (n - 1) : s[m].k = s[n].k}
Agrees(s, n) == (Cardinality(Earlier(s, n)) * SizeOf(s[n]) - Before(s, n)) % 4 = 0
Agreeing(s) == \A n \in DOMAIN s : IsDatum(s[n]) => Agrees(s, n)

\* All data are read back where the program looks for them, and none has been
\* written over another, exactly if the counts agree with the distances: each
\* count goes on from label to label and from size to size.
InPlace ==
  pass \notin {"expand", "filter"} /\ Contiguous(source) =>
    (\A n \in DOMAIN source : IsInPlace(n)) = Agreeing(source)

\* %hi and %lo give the addresses of the data below 2^11 and no others: the
\* upper part is taken from bit 16 on and put at bit 12.
DataReachesBelow ==
  \A m, n \in DOMAIN image :
    LET hi == image[m]
        lo == image[n]
        address == DataAddress(lo.line.to)
    IN  hi.line.k = "%hi" /\ lo.line.k = "%lo" /\ hi.line.to = lo.line.to =>
          (LuiAddi(<<hi.imm, lo.imm>>) = address) = (address < HalfLow)
=============================================================================
