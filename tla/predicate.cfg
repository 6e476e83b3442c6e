SPECIFICATION FairSpec
CONSTANTS
  Suite = "All"
  MaxB = 5
  Encoder <- MCEncoder
  Value <- MCValue
  MaxN <- MCMaxN
  NonloopContexts <- MCNonloopContexts
  LoopContexts <- MCLoopContexts
INVARIANTS
  TypeOK
  Covered
  NothingForgotten
PROPERTY
  Ends
CHECK_DEADLOCK FALSE
