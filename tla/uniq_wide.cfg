SPECIFICATION Spec
CONSTANTS
  NumBits = 1
  Suite = "WideRegister"
  MaxBnd = 5
  Encoder <- MCEncoder
  NonloopInputs <- MCNonloop
  LoopInputs <- MCLoop
INVARIANT
  NonuSound
CHECK_DEADLOCK FALSE
