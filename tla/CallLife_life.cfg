CONSTANTS
  c1 = c1
  Calls = {c1}
  MaxFaults = 1
  MaxRestarts = 1
  MaxTriggers = 1
SPECIFICATION FairSpec
INVARIANTS SilenceCounted RowTellsTheCall ScoresEarned
PROPERTIES RecordKept CallsGetDone
CHECK_DEADLOCK FALSE
