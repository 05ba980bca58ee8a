CONSTANTS
  Authors = {a1}
  Workers = {w1}
  MaxPosts = 1
  MaxTexts = 2
SPECIFICATION Spec
INVARIANT SummaryOfRawText
CHECK_DEADLOCK FALSE
