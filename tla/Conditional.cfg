CONSTANTS
  Clients = {c1}
  Configs = {g, h}
  Events <- MCEvents
  MaxSeq = 2
  MaxDamage = 1
  Damaged = Damaged
  NotAttempted = NotAttempted
  PossiblyCommitted = PossiblyCommitted
  None = None
SPECIFICATION Spec
INVARIANTS EffectIsTrue OneEventPerPosition OneConfiguration
PROPERTIES LandsOnItsPredecessor ImplementsStreamStore
SYMMETRY Interchangeable
