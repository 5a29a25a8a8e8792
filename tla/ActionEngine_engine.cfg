CONSTANTS
  Attempts = {r1, r2}
  Ids = {i1, i2}
  MaxFaults = 1
  MaxRestarts = 1
  r1 = r1
  r2 = r2
  i1 = i1
  i2 = i2
SPECIFICATION FairSpec
INVARIANTS TicketsMatch WorkIsLogged ToldTheTruth
PROPERTIES TrailKept CardsSettle
CHECK_DEADLOCK FALSE
