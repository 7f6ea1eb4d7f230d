CONSTANTS
  a = a
  b = b
  None = None
  Genesis = Genesis
  Events <- MCEvents
  Written <- MCWritten
  Histories <- MCHistories
  MaxSeq = 4
  Limits = {2}
SPECIFICATION ConsumerSpec
INVARIANTS CompleteIsTrue MigrationIsTrue
PROPERTIES CursorMonotone
