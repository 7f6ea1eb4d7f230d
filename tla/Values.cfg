CONSTANTS
  Clients = {c1, c2}
  Payloads = {{x}}
  MaxVersion = 1
  MaxInc = 1
  MaxCommits = 3
  MaxFences = 2
  None = None
SPECIFICATION Spec
INVARIANTS ManifestIsBacked SnapshotIsWhole ReceiptsSurvive SweepStaysFenced
SYMMETRY Interchangeable
