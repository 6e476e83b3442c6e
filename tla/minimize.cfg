SPECIFICATION FairGenSpec
CONSTANTS
  Suite = "All"
  MaxBound = 4
  Encoder <- MCEncoder
  Start <- MCStart
  Lost <- MCLost
  LostLate <- MCLostLate
  Outs <- MCOuts
  Dffs <- MCDffs
  Ins <- MCIns
  Decides <- MCDecides
  FlowIns <- MCFlowIns
  Determines <- MCDetermines
INVARIANTS
  GenTypeOK
  StillDetermined
  LocallyMinimal
  StagesFollow
  InputStageFound
  PipelineUnlessAlone
  FlowOnly
PROPERTY
  Finishes
CHECK_DEADLOCK FALSE
