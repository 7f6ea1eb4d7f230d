CONSTANTS
  c1 = c1
  c2 = c2
  c3 = c3
  Clients = {c1, c2, c3}
  a = a
  b = b
  Payloads = {a, b}
  MaxVersion = 1
  MaxInc = 1
  Attempts = 1
  May <- Programs
  Writes <- WrittenValues
  None = None
SPECIFICATION Spec
INVARIANTS AckedValueSurvives DestructionWitnessed
PROPERTIES ImplementsKeyRegister OneWinnerPerVersion AckedExchangeIsFresh
