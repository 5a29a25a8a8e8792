CONSTANTS
  t1 = t1
  t2 = t2
  NoTxn = NoTxn
  MaxSends = 1
  MaxGuesses = 1
  MaxTries = 2
  Workflows = {"refund", "dispute", "fraud"}
  Txns = {t1}
  Owned = {t1}
  Inferred = t1
  Utterances <- Changes
  MaxInterrupts = 0
SPECIFICATION Spec
INVARIANTS AttemptsBounded NoReentry
