----------------------------- MODULE DataMemory -----------------------------
(***************************************************************************)
(* dcache of the pipeline and of the scalar core, given the same requests: *)
(* arrays of words, of which a store replaces some bits and a load reads   *)
(* some. Both are a memory of bytes.                                       *)
(***************************************************************************)
EXTENDS DataPath

CONSTANTS
  Cells,      \* DRAM_SIZE >> 2
  DataWords   \* the words stored

ASSUME CellsAssumption == /\ Cells \in 1 .. Modulus
                          /\ DataWords \subseteq Word
                          /\ DataBytes = 4

VARIABLES
  request,                  \* what core or mems ask for: kind, funct3, address
  data, dataOut,            \* of the pipeline's dcache
  d_data, scalar_dataOut    \* of the scalar core's

mvars == <<request, data, dataOut, d_data, scalar_dataOut>>

DramAddress == 0 .. (4 * Cells - 1)

MInit == /\ request = <<"none", 0, 0>>
         /\ data = [c \in 0 .. (Cells - 1) |-> DMEM_INIT[c]]
         /\ d_data = [c \in 0 .. (Cells - 1) |-> DMEM_INIT[c]]
         /\ dataOut = 0 /\ scalar_dataOut = 0

\* LB, LH, LW, LBU and LHU; SB, SH and SW. mems turns funct3 into a mask,
\* core passes it on.
Load(f3, a) ==
  /\ request' = <<"load", f3, a>>
  /\ dataOut' = dcache_LOAD(MaskOf(f3), a, data[Cell(a)])
  /\ scalar_dataOut' = scalar_LOAD(f3, a, d_data[Cell(a)])
  /\ UNCHANGED <<data, d_data>>

Store(f3, a, dataIn) ==
  /\ request' = <<"store", f3, a>>
  /\ data' = [data EXCEPT ![Cell(a)] = dcache_STORE(MaskOf(f3), a, @, dataIn)]
  /\ d_data' = [d_data EXCEPT ![Cell(a)] = scalar_STORE(f3, a, @, dataIn)]
  /\ UNCHANGED <<dataOut, scalar_dataOut>>

Loads == {0, 1, 2, 4, 5}
Stores == {0, 1, 2}

MNext == \/ \E f3 \in Loads, a \in DramAddress : Load(f3, a)
         \/ \E f3 \in Stores, a \in DramAddress, w \in DataWords : Store(f3, a, w)
MSpec == MInit /\ [][MNext]_mvars

-----------------------------------------------------------------------------
BytesOf(m) == [a \in DramAddress |-> LaneOf(m[Cell(a)], ByteLane(a), ByteBits)]

InBytes == INSTANCE ByteMemory
             WITH Base <- Weight[ByteBits], Addresses <- 4 * Cells,
                  Content <- BytesOf(DMEM_INIT), Data <- DataWords,
                  bytes <- BytesOf(data), answer <- dataOut

\* The words of dcache are a memory of bytes, the least significant one first:
\* any sequence of loads and stores of any width answers what the bytes stored
\* last say, and a store changes no other byte.
IsByteMemory == InBytes!Spec

\* The memories of the two cores, one selecting by a mask and one by funct3,
\* hold the same words and have answered the same after any requests.
MemoriesAgree == data = d_data /\ dataOut = scalar_dataOut
=============================================================================
