SPECIFICATION Spec
CONSTANTS
  k1 = k1
  k2 = k2
  v1 = v1
  v2 = v2
  Keys <- MCKeys
  Values <- MCValues
  Inputs <- MCInputs
  Flags <- MCFlags
  Files <- MCFiles
  Default = dflt
  None = None
  Threads = {t1, t2}
  MaxDepth = 2
  MaxCalls = 3
INVARIANTS LookupsAgree Restored
CHECK_DEADLOCK FALSE
