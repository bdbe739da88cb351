SPECIFICATION HFairSpec
CONSTANTS
  Modulus = 16
  ShiftBits = 2
  DivBits = 4
  Weight <- PowersOfTwo
  InstrBytes = 1
  DataBytes = 4
  NumReg = 4
  PrintReg = 3
  PrintMod = 3
  DivSteps = 2
  PC_STARTADDR <- Start
  STACK_INIT <- Stack
  RAADDRESS <- Ra
  Programs <- ShortPrograms
  DMEM_INIT <- InitialMemory
  OpiAlu <- exe_OPI
  OpAlu <- exe_OP
  Compare <- exe_BR
  MulAlu <- mult_MUL
  Extract <- dcache_LOAD
  Insert <- dcache_STORE
PROPERTY Progress
