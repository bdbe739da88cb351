----------------------------- MODULE MCLibrary -----------------------------
(***************************************************************************)
(* Calls of the library with sizes of one to three words, over three       *)
(* neighbouring areas; those of memcpy do not overlap.                     *)
(***************************************************************************)
EXTENDS Library, SmallMachine

\* The instructions of the library: ADDI, ADD and SLT, whole words.
AddOrLess(f3, f7, a, b) ==
  IF f3 = 2 THEN Flag(Signed(a) < Signed(b)) ELSE Wrap(a + b)
LowProduct(f3, a, b) == Wrap(a * b)
WordOnly(k, l, w) == w
WriteWord(k, l, w, d) == d

Areas == {[to |-> t, from |-> f, size |-> n] :
            t \in {16, 20, 28, 40}, f \in {16, 24, 40}, n \in {4, 8, 12}}
Arguments(r, c) == [routine |-> r, to |-> c.to, from |-> c.from, size |-> c.size]

Calls == {Arguments("memcpy", c) : c \in {a \in Areas : Disjoint(a)}}
         \cup {Arguments("memset", c) : c \in Areas}
         \cup {Arguments("memmove", c) :
                 c \in {a \in Areas : Disjoint(a) \/ a.to < a.from}}
CallPrograms == {ProgramOf(c) : c \in Calls}

\* What the proof of CopiesExactly asks of the machine and of the calls.
ASSUME LibraryAssumption == LibraryInstance
=============================================================================
