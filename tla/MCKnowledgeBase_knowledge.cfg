CONSTANTS
  u1 = u1
  s1 = s1
  s2 = s2
  faq = faq
  policy = policy
  Uploads = {u1}
  Seeds = {s1, s2}
  Installed = {s1}
  Files = {faq, policy}
  Name <- Names
  Listed <- Both
  N = 1
  ChunkTokens = 3
  Newlines = 2
  Separators = 3
  MaxWords = 4
  MaxFaults = 2
  MaxRestarts = 2
SPECIFICATION FairSpec
INVARIANTS SearchSound ReadyHasChunks FusionAgrees CutSound
PROPERTIES ListedAfterRestart UploadsSettle
CHECK_DEADLOCK FALSE
