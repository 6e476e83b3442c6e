SPECIFICATION GenSpec
CONSTANTS
  Suite = "LookBack"
  MaxBound = 4
  Encoder <- MCEncoder
  Start <- MCStart
  Lost <- MCLost
  LostLate <- MCLostLate
  Outs <- MCOuts
  Dffs <- MCDffs
  Ins <- MCIns
  Decides <- MCDecides
  FlowIns <- MCFlowIns
  Determines <- MCDetermines
INVARIANT
  LIsZero
CHECK_DEADLOCK FALSE
