CONSTANTS
  Absent = Absent
  Source <- MCSource
  ChunkBytes = 2
  MinChunks = 2
  MaxChunks = 4
  MaxInFlight = 2
  MaxBuf = 3
SPECIFICATION PipeSpec
INVARIANTS SealedIsWritten YieldsTheWindow
