CONSTANTS
  Clients = {c1, c2}
  Payloads = {a, b}
  Strays <- OrphanStray
  Appends <- OneLineage
  Legacy <- OldLegacy
  MaxGen = 1
  MaxInc = 1
  Attempts = 2
  Custodian = c1
  Policy = "SuccessorCapable"
  None = None
SPECIFICATION Spec
INVARIANTS TypeOK AckedSurvives AckedLinear DestructionWitnessed HistoryPublished
PROPERTIES HeadMonotone ImplementsLineageLog
SYMMETRY ClientPermutations
