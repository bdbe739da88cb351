SPECIFICATION ASpec
CONSTANTS
  Modulus = 256
  ShiftBits = 3
  InstrBytes = 4
  DataBytes = 4
  NumReg = 4
  PrintReg = 3
  PrintMod = 3
  DivBits = 8
  Weight <- PowersOfTwo
  Operands <- Boundary
  PC_STARTADDR = 0
  STACK_INIT = 0
  RAADDRESS = 64
  Programs <- NoPrograms
  DMEM_INIT <- NoMemory
  OpiAlu <- NoAlu
  OpAlu <- NoAlu
  Compare <- NoCompare
  MulAlu <- NoMul
  Extract <- NoExtract
  Insert <- NoInsert
INVARIANTS BitwiseIsRiscv ProductIsRiscv EuclideanButOne CoresAgreeButProducts
