SPECIFICATION GenSpec
CONSTANTS
  Suite = "Skewed"
  MaxBound = 4
  Encoder <- MCEncoder
  Start <- MCStart
  Lost <- MCLost
  LostLate <- MCLostLate
  Outs <- MCOuts
  Dffs <- MCDffs
  Ins <- MCIns
  Decides <- MCDecides
  FlowIns <- MCFlowIns
  Determines <- MCDetermines
INVARIANT
  L2RightIsR
CHECK_DEADLOCK FALSE
