SPECIFICATION Spec
CONSTANTS
  c1 = c1
  t1 = t1
  t2 = t2
  TestOf <- MCTestOf
  MaxChanges <- MCMaxChanges
  MaxPlug = 1
  Clients = {c1}
  None = None
INVARIANTS
  
  UidsMatch

  
CHECK_DEADLOCK FALSE
