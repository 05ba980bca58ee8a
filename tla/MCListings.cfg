CONSTANTS
  Owners = {o1, o2}
  Names = {n1, n2, n3}
  Nobody = nobody
  Post = post
  Limits = {0, 1, 2}
  Firsts = {1, 3, 17}
  Queries <- AllQueries
  Stock = 2
  MaxRows = 4
  MaxEdits = 1
  MaxInt = 15
  Scale = 417451320
SPECIFICATION Spec
SYMMETRY Symmetry
INVARIANTS TypeOK RowsHaveHome NothingTwice NothingSkipped NothingPastTheEnd ShortSearchesShowAll
CHECK_DEADLOCK FALSE
