SPECIFICATION Spec
CONSTANTS
  p1 = p1
  p2 = p2
  probe = probe
  UI = UI
  None = None
  Phases <- MCPhases
  MaxPrompts = 1
  PlugTypes = {probe}
  TriggerPlugs = {UI}
INVARIANTS
  PromptsAnswered
  PlugLife
  UpdateNotMissed
PROPERTIES
  TestEnds
CHECK_DEADLOCK FALSE
