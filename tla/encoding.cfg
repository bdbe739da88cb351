SPECIFICATION Spec
CONSTANTS
  Mnemonics <- Instructions
  RegisterTriples <- Triples
  Immediates <- Tried
  Weight <- Powers
INVARIANTS DecodesAsWritten PseudoButUnsigned
