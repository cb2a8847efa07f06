\* Four calls from two processes, one of them a delete, or a writer between two
\* increments; log and attempts cut to 2, so that three writers overflow both.
SPECIFICATION FairSpec
CONSTANTS
  s1 = s1  s2 = s2  m1 = m1  b1 = b1  b2 = b2  b3 = b3  d1 = d1  pA = pA  pB = pB
  Nobody = Nobody
  Tasks = {s1, s2, m1, b1, b2, b3, d1}
  Workloads <- RaceOrTurn
  Clients = {pA, pB}
  Kind <- KindOf
  Client <- ClientOf
  RevLogLen = 2
  MaxWriteAttempts = 2
INVARIANTS NoLostUpdate AtMostOnce TruthfulOutcome CasInv TurnBound
PROPERTIES ImplementsAtomicMemory Returns
\* Every call may have returned, and then nothing is left to do.
CHECK_DEADLOCK FALSE
