\* Two processes sweep two hashes, one of which is stored, refuted, linked and deleted meanwhile.
SPECIFICATION Spec
CONSTANTS
  p1 = p1  p2 = p2
  N = 2  Malformed = {}  Sweepers = {p1, p2}
  Page = 2  Floor = 1  Limits = {1, 2}  Moving = {1}  MaxCalls = 3
INVARIANT SweepInv
PROPERTIES EnsuredNodesStay
