\* One process sweeps five hashes, one malformed, of a collection at rest, in calls of any limit.
SPECIFICATION Spec
CONSTANTS
  p1 = p1  p2 = p2
  N = 5  Malformed = {3}  Sweepers = {p1}
  Page = 3  Floor = 1  Limits = {1, 2, 3, 5}  Moving = {}  MaxCalls = 4
INVARIANTS CallAllowance PassComplete EmptyCollectionKeepsNodes
CHECK_DEADLOCK FALSE
