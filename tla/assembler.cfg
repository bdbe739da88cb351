SPECIFICATION Spec
CONSTANTS
  Modulus = 256
  Uppers = 32
  HalfLow = 4
  DataSplit = 32
  Sources <- AllSources
  Custom <- CustomOnes
  DataLabels <- AllLabels
  MainLike <- EndInMain
  pre_zero = 2
  Span <- SpanOf
  Held <- HeldOf
INVARIANTS JumpsLand LiLoadsValue StartsAtMain NothingDropped InPlace DataReachesBelow
CHECK_DEADLOCK FALSE
