SPECIFICATION GenSpec
CONSTANTS
  Suite = "Announced"
  MaxBound = 3
  Encoder <- MCEncoder
  Start <- MCStart
  Lost <- MCLost
  LostLate <- MCLostLate
  Outs <- MCOuts
  Dffs <- MCDffs
  Ins <- MCIns
  Decides <- MCDecides
  FlowIns <- MCFlowIns
  Determines <- MCDetermines
INVARIANT
  Written
CHECK_DEADLOCK FALSE
