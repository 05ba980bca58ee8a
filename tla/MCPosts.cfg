CONSTANTS
  Authors = {a1}
  Workers = {w1, w2}
  MaxPosts = 2
  MaxTexts = 3
SPECIFICATION Spec
SYMMETRY Symmetry
INVARIANTS TypeOK EnrichmentFromOwnText EmbeddingHasSummary SettledIsFresh
PROPERTY ImplementsPostLifecycle
CHECK_DEADLOCK FALSE
