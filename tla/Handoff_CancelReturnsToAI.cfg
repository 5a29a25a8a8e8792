CONSTANTS
  c1 = c1
  None = None
  Calls = {c1}
  ByVoice = {c1}
  ByButton = {c1}
  Connections = 2
  MaxFaults = 0
  MaxUses = 1
SPECIFICATION FairSpec
INVARIANTS CancelReturnsToAI
CHECK_DEADLOCK FALSE
