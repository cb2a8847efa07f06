\* A supersede, a refute, two reversals and an operator, with failures.
SPECIFICATION Spec
SYMMETRY Reversals
CONSTANTS
  a1 = a1  a2 = a2  r1 = r1  u1 = u1  u2 = u2  o1 = o1  s1 = s1  s2 = s2
  None = None
  Calls = {a1, r1, u1, u2, o1}
  Survivors = {s1, s2}
  Pairs = {s1}
  Nodings <- OneMayMiss
  Kind <- RaceKind
  Survivor <- RaceSurvivor
  Reason <- RaceReason
INVARIANTS EdgeOwed LateIsTold StaleEdgeIsBelated ReversalTold SupInv
PROPERTIES WritesAsRead StampsKept
\* Every call may have returned, and then nothing is left to do.
CHECK_DEADLOCK FALSE
