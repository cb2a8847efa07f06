\* Two refutes and two other requests, up to two failures.
SPECIFICATION FairSpec
CONSTANTS
  a = a  b = b  c = c  d = d  why1 = why1  why2 = why2
  Wrong = Wrong  Correction = Correction  Other = Other  None = None
  Calls = {a, b, c, d}
  Workloads <- RaceWorkloads
  Strict = {b}
  MaxFaults = 2
INVARIANTS RefuteInv AnswersStand StrayIsTold
PROPERTY RetriesEnd
\* Every request may have been answered.
CHECK_DEADLOCK FALSE
