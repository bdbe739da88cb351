SPECIFICATION HFairSpec
CONSTANTS
  Modulus = 256
  ShiftBits = 3
  DivBits = 8
  Weight <- PowersOfTwo
  InstrBytes = 1
  DataBytes = 4
  NumReg = 32
  PrintReg = 11
  PrintMod = 3
  DivSteps = 2
  PC_STARTADDR <- Start
  STACK_INIT = 128
  RAADDRESS <- Ra
  Programs <- CallPrograms
  DMEM_INIT <- InitialMemory
  OpiAlu <- AddOrLess
  OpAlu <- AddOrLess
  Compare <- exe_BR
  MulAlu <- LowProduct
  Extract <- WordOnly
  Insert <- WriteWord
INVARIANT CopiesExactly
PROPERTIES ImplementsIsa Returns
