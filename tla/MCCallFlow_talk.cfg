CONSTANTS
  t1 = t1
  t2 = t2
  NoTxn = NoTxn
  MaxSends = 1
  MaxGuesses = 1
  MaxTries = 2
  Workflows = {"support"}
  Txns = {t1}
  Owned = {t1}
  Inferred = t1
  Utterances <- Parts
  MaxInterrupts = 0
SPECIFICATION FairSpec
PROPERTIES TurnEnds LeavesVerification QuietCallerLeaves
