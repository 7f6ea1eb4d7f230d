CONSTANTS
  Clients = {c1, c2}
  Payloads = {a}
  Strays <- NoStrays
  Appends <- GenesisPairs
  Legacy <- NoLegacy
  MaxGen = 2
  MaxInc = 4
  Attempts = 1
  Custodian = c1
  Policy = "GenesisOnly"
  None = None
SPECIFICATION FairSpec
PROPERTIES DestroyConverges
