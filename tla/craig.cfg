SPECIFICATION Spec
CONSTANTS
  MaxChains <- MCMaxChains
  Query <- MCQuery
INVARIANTS
  TypeOK
  PartialInterpolant
  Interpolates
CHECK_DEADLOCK FALSE
