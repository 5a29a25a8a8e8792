CONSTANTS
  Seeded = {s1}
  Drafts = {d1}
  Editors = {e1, e2}
  MaxText = 2
  MaxRequests = 2
  MaxUpsets = 1
SPECIFICATION Spec
INVARIANTS EmbeddingFits CacheFollows MatchIsKnown Repaired
CHECK_DEADLOCK FALSE
SYMMETRY EditorsSwap
