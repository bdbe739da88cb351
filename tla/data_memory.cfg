SPECIFICATION MSpec
CONSTANTS
  Modulus = 256
  ShiftBits = 3
  DivBits = 8
  Weight <- PowersOfTwo
  Cells = 2
  DataWords = {27}
  InstrBytes = 4
  DataBytes = 4
  NumReg = 4
  PrintReg = 3
  PrintMod = 3
  PC_STARTADDR = 0
  STACK_INIT = 0
  RAADDRESS = 64
  Programs <- NoPrograms
  DMEM_INIT <- TwoWords
  OpiAlu <- NoAlu
  OpAlu <- NoAlu
  Compare <- NoCompare
  MulAlu <- NoMul
  Extract <- NoExtract
  Insert <- NoInsert
INVARIANT MemoriesAgree
PROPERTY IsByteMemory
