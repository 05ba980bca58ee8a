CONSTANTS
  Owners = {o1}
  Names = {n1}
  Nobody = nobody
  Post = post
  Limits = {1}
  Firsts = {1}
  Queries <- Consensus
  Stock = 5
  MaxRows = 5
  MaxEdits = 1
  MaxInt = 15
  Scale = 417451320
SPECIFICATION Spec
INVARIANT SearchShowsAll
CHECK_DEADLOCK FALSE
