SPECIFICATION FairSpec
CONSTANTS
  Modulus = 16
  ShiftBits = 2
  DivBits = 4
  Weight <- PowersOfTwo
  InstrBytes = 1
  DataBytes = 4
  NumReg = 4
  PrintReg = 3
  PrintMod = 3
  PC_STARTADDR <- Start
  STACK_INIT <- Stack
  RAADDRESS <- Ra
  Programs <- ShortPrograms
  DMEM_INIT <- InitialMemory
  OpiAlu <- core_OPI
  OpAlu <- core_OP
  Compare <- core_BR
  MulAlu <- core_MUL
  Extract <- dcache_LOAD
  Insert <- dcache_STORE
INVARIANTS TypeOK Current Handshake
PROPERTIES ExecutesIsa ReturnsToHead
