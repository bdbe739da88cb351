SPECIFICATION FairSpec
CONSTANTS
  Programs <- TwoPrograms
  NameOf <- Folder
  MaxInvocations = 2
INVARIANTS OutputsUnlessFailed MixedOnlyByCopy NothingLeftRunning
PROPERTY ComesBack
CHECK_DEADLOCK FALSE
