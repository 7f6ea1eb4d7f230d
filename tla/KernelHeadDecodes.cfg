CONSTANTS
  Clients = {c1, c2}
  Payloads = {a}
  Strays <- NoStrays
  Appends <- AnyAppends
  Legacy <- NoLegacy
  MaxGen = 2
  MaxInc = 1
  Attempts = 1
  Custodian = c1
  Policy = "SuccessorCapable"
  None = None
SPECIFICATION Spec
INVARIANTS HeadDecodes
