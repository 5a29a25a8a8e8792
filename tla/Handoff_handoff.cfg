CONSTANTS
  c1 = c1
  None = None
  Calls = {c1}
  ByVoice = {c1}
  ByButton = {c1}
  Connections = 2
  MaxFaults = 1
  MaxUses = 2
SPECIFICATION FairSpec
INVARIANTS NeverDropped ProcessesAgree LostOnlyByButton
PROPERTIES EscalationsProceed
CHECK_DEADLOCK FALSE
