SPECIFICATION Spec
CONSTANTS
  a = a  b = b  c = c  k1 = k1  forged = forged
  Login = Login  None = None
  Calls = {a, b, c}  Kids = {k1}  Kid <- KidOf
  JwksCooldown = 3  DiscoveryCooldown = 2  FetchMax = 1
  MaxFaults = 2  Horizon = 6
INVARIANTS KeyInv ServedAfterCooldown
PROPERTY FetchesSpaced
\* The clock stops at the horizon.
CHECK_DEADLOCK FALSE
