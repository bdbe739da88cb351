SPECIFICATION Spec
CONSTANTS
  Mnemonics <- Instructions
  RegisterTriples <- Triples
  Immediates <- Tried
  Weight <- Powers
INVARIANT PseudoAsNamed
