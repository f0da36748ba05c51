SPECIFICATION Spec
CONSTANTS
  sa = sa
  sb = sb
  reader = reader
  writer = writer
  other = other
  None = None
  Threads = {reader, writer, other}
  Streams = {sa, sb}
  StreamOf <- MCStreamOf
  Programs <- MCPrograms
  Patient = {reader}
  MaxData <- MCMaxData
  StreamIdLimit = 3
  MaxIdTries = 2
INVARIANTS
  NothingLost
  CloseIsClean
PROPERTIES
  ImplementsStreams
  ArrivedIsRead
CHECK_DEADLOCK FALSE
