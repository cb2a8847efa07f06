\* A stamp taken back under another reversal.
SPECIFICATION Spec
SYMMETRY Reversals
CONSTANTS
  a1 = a1  a2 = a2  r1 = r1  u1 = u1  u2 = u2  o1 = o1  s1 = s1  s2 = s2
  None = None
  Calls = {a1, a2, u1, u2}
  Survivors = {s1, s2}
  Pairs = {s1}
  Nodings <- OneMayMiss
  Kind <- BackKind
  Survivor <- BackSurvivor
  Reason <- BackReason
INVARIANT ReversedPairIsSettled
\* Every call may have returned, and then nothing is left to do.
CHECK_DEADLOCK FALSE
