-------------------------- MODULE ScalarRefinement --------------------------
(***************************************************************************)
(* What the scalar core promises: the fetch of an instruction, its         *)
(* execution and the handshakes with both memories come to one step of Isa *)
(* for each instruction.                                                   *)
(*                                                                         *)
(* A store counts as executed when its request is made, a load when its    *)
(* data are taken, every other instruction when it leaves "decode".        *)
(***************************************************************************)
EXTENDS ScalarCore

AbsPc == IF at = "store" THEN NextPc ELSE pc

\* x0 may hold a value until the head of the loop.
AbsRegs == [regs EXCEPT ![0] = 0]

AbsMem == IF phase = "neg" /\ req.opType = "STORE"
          THEN WriteMem(dmem, req.f3, req.address, req.dataIn) ELSE dmem

I == INSTANCE Isa WITH pc <- AbsPc, regs <- AbsRegs, mem <- AbsMem

absVars == <<imem, AbsPc, AbsRegs, AbsMem, out>>

\* Every behaviour of the scalar core and its memories is one of the
\* sequential machine, whichever edge comes first after the reset: no
\* instruction is executed on a word of another address, no load takes data
\* of an earlier one, no store is lost or repeated with an effect.
ExecutesIsa == I!Init /\ [][I!Next]_absVars

-----------------------------------------------------------------------------
(* The inductive invariant behind it.                                      *)

Fetched(a) == imem[a \div InstrBytes]

\* From the fetch of an instruction to its end the word in hand is the one
\* stored at pc, and x0 is 0.
Current ==
  /\ at \in {"fetch", "decode", "load", "store"} =>
       pc # RAADDRESS /\ regs[0] = 0
  /\ at = "fetch" => imem_address = pc
  /\ at = "fetch" /\ phase = "pos" => instruction_ft = Fetched(pc)
  /\ at \in {"decode", "load", "store"} => instruction = Fetched(pc)
  /\ at = "load" => instruction.op = "LD"
  /\ at = "store" => instruction.op = "ST"

\* The data memory has a request exactly while the core waits for it, it is
\* the request of the instruction in hand, and when the core looks at the
\* answer of a load it is the answer to this load: neither stallDm nor
\* dmem_dataOut is that of an earlier access.
Handshake ==
  /\ req.opType = "LOAD" <=> at = "load"
  /\ req.opType = "STORE" <=> at = "store"
  /\ at \in {"load", "store"} =>
       /\ req.f3 = instruction.f3
       /\ req.address = Add(valueReg1, instruction.imm)
  /\ at = "store" => req.dataIn = valueReg2
  /\ at = "load" /\ phase = "pos" =>
       ~stallDm /\ dmem_dataOut = ReadMem(dmem, req.f3, req.address)

-----------------------------------------------------------------------------
\* No wait is for ever but the one at the end of the program: every
\* instruction comes back to the head of the loop.
ReturnsToHead == []<>(at = "head") \/ <>[](at = "halted")
=============================================================================
