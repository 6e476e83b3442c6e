SPECIFICATION FairSpec
CONSTANTS
  Session <- MCSession
  FirstNofConflicts = 2
INVARIANTS
  TypeOK
  AssertsHold
  NoDanglingClause
  ReasonsHold
  NothingMissed
  ClausesFollow
  ConflictExplains
  ProofSound
  SavedRefutes
  SavedInterpolates
PROPERTY Promise
