------------------------------- MODULE Library -------------------------------
(***************************************************************************)
(* memcpy, memmove and memset (doc/memcpy_test.txt), which the assembler   *)
(* appends to every program, running on the pipeline. The compiler calls   *)
(* memcpy for every assignment of a structure or an array.                 *)
(*                                                                         *)
(* A program loads the arguments of one call and jumps to the routine, so  *)
(* that its ret goes to RAADDRESS. Registers have their numbers of the     *)
(* ABI: a0 - a2 are 10 - 12, t0, t1 are 5, 6, t3, t5, t6 are 28, 30, 31.   *)
(***************************************************************************)
EXTENDS PipelineHazards, Instructions

memcpy_CountsBytes ==
  <<mv(31, 10),
    lw(30, 11, 0), addi(12, 12, -1), addi(11, 11, 4), sw(30, 31, 0),
    addi(31, 31, 4), bne(12, 0, -5), ret>>

memcpy ==
  <<mv(31, 10),
    lw(30, 11, 0), addi(12, 12, -4), addi(11, 11, 4), sw(30, 31, 0),
    addi(31, 31, 4), bne(12, 0, -5), ret>>

memmove ==
  <<mv(5, 10), mv(6, 11), slt(28, 10, 11), bne(28, 0, 2), beq(0, 0, -12),
    add(10, 10, 12), add(11, 11, 12),
    lw(30, 11, 0), addi(12, 12, -4), addi(11, 11, -4), sw(30, 10, 0),
    addi(10, 10, -4), bne(12, 0, -7), ret>>

memset_KeepsCount ==
  <<mv(31, 10),
    sw(11, 31, 0), addi(31, 31, 4), bne(12, 0, -2), ret>>

memset ==
  <<mv(31, 10),
    addi(12, 12, -4), sw(11, 31, 0), addi(31, 31, 4), bne(12, 0, -3), ret>>

library == memcpy \o memmove \o memset

Entry == [memcpy  |-> 0,
          memmove |-> Len(memcpy),
          memset  |-> Len(memcpy) + Len(memmove)]

\* The arguments of a call; from is the word to store for memset.
Call == [routine : DOMAIN Entry, to : Word, from : Word, size : Word]

ProgramOf(c) ==
  Image(<<li(10, c.to), li(11, c.from), li(12, c.size),
          jal(0, 1 + Entry[c.routine])>> \o library)

\* The call a program makes, and that of the program in imem.
CallIn(p) ==
  [routine |-> CHOOSE r \in DOMAIN Entry : p[First + 3] = jal(0, 1 + Entry[r]),
   to |-> p[First].imm, from |-> p[First + 1].imm, size |-> p[First + 2].imm]
Calling == CallIn(imem)

-----------------------------------------------------------------------------
(* What a call promises.                                                   *)

Cells(a, n) == Cell(a) .. (Cell(a + n) - 1)

Promised(c) ==
  [w \in DOMAIN DMEM_INIT |->
     IF w \notin Cells(c.to, c.size) THEN DMEM_INIT[w]
     ELSE IF c.routine = "memset" THEN c.from
     ELSE DMEM_INIT[w - Cell(c.to) + Cell(c.from)]]

Disjoint(c) == Cells(c.to, c.size) \cap Cells(c.from, c.size) = {}

\* memmove goes to do_reverse when its source is above its destination: its
\* test is the wrong way round, the loop starts one word past the ends, and it
\* adds the size again in every round.
Reverses(c) == c.routine = "memmove" /\ c.to < c.from

\* What the routines are for: whole words, at least one, in areas that do not
\* overlap, unless memmove is told to move down; its test has signs.
IsArea(a, n) == a % 4 = 0 /\ a + n < Modulus
Legal(c) ==
  /\ c \in Call
  /\ c.size > 0 /\ c.size % 4 = 0 /\ IsArea(c.to, c.size)
  /\ c.routine # "memset" => /\ IsArea(c.from, c.size)
                             /\ Disjoint(c) \/ Reverses(c)
  /\ c.routine = "memmove" => c.to < MinInt /\ c.from < MinInt

\* A machine on which programs are calls: the text and a few words behind it are
\* not at RAADDRESS, and the instructions of the routines are those of RISC-V.
LibraryInstance ==
  /\ NumReg >= 32 /\ DataBytes = 4
  /\ PC_STARTADDR % InstrBytes = 0
  /\ PC_STARTADDR + InstrBytes * (Len(library) + 7) <= Modulus
  /\ RAADDRESS \notin
       PC_STARTADDR .. (PC_STARTADDR + InstrBytes * (Len(library) + 7) - 1)
  /\ \A a, b \in Word :
       /\ OpiAlu(0, 0, a, b) = Add(a, b)
       /\ OpAlu(2, 0, a, b) = IF Signed(a) < Signed(b) THEN 1 ELSE 0
       /\ Compare(0, a, b) <=> a = b
       /\ Compare(1, a, b) <=> a # b
       /\ Extract("WORD", 0, a) = a /\ Insert("WORD", 0, a, b) = b
  /\ \A p \in Programs : Legal(CallIn(p)) /\ p = ProgramOf(CallIn(p))

\* At the end of the program every word the call covers has its value, and no
\* other word has changed: the routines do what their callers rely on, on
\* the pipeline, with loads, stores and branches back to back. memmove does
\* where it goes on to memcpy.
CopiesExactly ==
  ic.stall /\ ~Reverses(Calling) => dmem = Promised(Calling)

\* Every call comes back, memmove's reverse loop too.
Returns == <>ic.stall
=============================================================================
