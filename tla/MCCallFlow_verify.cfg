CONSTANTS
  t1 = t1
  t2 = t2
  NoTxn = NoTxn
  MaxSends = 2
  MaxGuesses = 2
  MaxTries = 3
  Workflows = {"unlock", "status"}
  Txns = {}
  Owned = {}
  Inferred = NoTxn
  Utterances <- Mixed
  MaxInterrupts = 1
SPECIFICATION Spec
INVARIANTS VerifiedByCode GuessesBounded
PROPERTIES EscalationFinal OtpSpec OpensOnLiveCode SpentStaysSpent
CONSTRAINT OddEarly
