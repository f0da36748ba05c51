SPECIFICATION ShellSpec
CONSTANTS
  k1 = k1
  k2 = k2
  f1 = f1
  f2 = f2
  None = None
  Keys <- MCKeys
  Files <- MCFiles
  Source <- MCSource
  Image = 5
  ChunkSize = 2
  MaxCalls = 3
  MaxOutput = 2
  MaxInput = 1
INVARIANTS
  PublicKeyLast
  DeliveredExact
  FailureReported
PROPERTIES
  SessionEnds
CHECK_DEADLOCK FALSE
