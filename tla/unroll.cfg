SPECIFICATION Spec
CONSTANTS
  Instances <- MCInstances
  Bounds <- MCBounds
  Splits <- MCSplits
INVARIANTS
  TypeOK
  MeansTheQuery
