SPECIFICATION FairSpec
CONSTANTS
  NumBits = 2
  Suite = "Registers"
  MaxBnd = 6
  Encoder <- MCEncoder
  NonloopInputs <- MCNonloop
  LoopInputs <- MCLoop
INVARIANTS
  TypeOK
  UniqLeast
  UniqSound
  NoAssertFailure
PROPERTY
  Classifies
CHECK_DEADLOCK FALSE
