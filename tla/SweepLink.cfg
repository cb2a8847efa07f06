\* One sweep; a store whose ensure fails or is slow, and an edge onto the node it found.
SPECIFICATION Spec
CONSTANTS
  p1 = p1  p2 = p2
  N = 2  Malformed = {}  Sweepers = {p1}
  Page = 2  Floor = 1  Limits = {2}  Moving = {1}  MaxCalls = 1
PROPERTY OnlyGoneEdgesLost
