CONSTANTS
  c1 = c1
  c2 = c2
  i = i
  j = j
  p = p
  q = q
  Clients = {c1, c2}
  Ids = {i, j}
  Payloads = {p, q}
  Sends <- Senders
  Keepers = {c2}
  MaxSeq = 3
  Window = 1
  Budget = 1
  None = None
SPECIFICATION Spec
INVARIANTS ReceiptsRetained RetryWindow
PROPERTIES ImplementsStreamStore
