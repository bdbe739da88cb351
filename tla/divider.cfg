SPECIFICATION BSpec
CONSTANTS
  Modulus = 256
  ShiftBits = 3
  InstrBytes = 1
  DataBytes = 4
  NumReg = 4
  PrintReg = 3
  PrintMod = 3
  DivSteps = 2
  DivBits = 8
  Weight <- PowersOfTwo
  PC_STARTADDR <- Start
  STACK_INIT = 211
  RAADDRESS <- Ra
  Programs <- DivPrograms
  DMEM_INIT <- InitialMemory
  OpiAlu <- AddSub
  OpAlu <- AddSub
  Compare <- exe_BR
  MulAlu <- LowProduct
  Extract <- WordOnly
  Insert <- WriteWord
INVARIANT DivisionUnderWay
PROPERTY DividesInCycles
