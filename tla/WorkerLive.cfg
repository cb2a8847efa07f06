\* Timers cut to the tightest the assumption allows.
SPECIFICATION FairSpec
CONSTANTS
  i1 = i1  q1 = q1  q2 = q2  b1 = b1  b2 = b2  PingCmd = PingCmd
  Calls = {i1, q1, b1}  Kind <- MixOf
  ChanCap = 2  Slots = 1  Concurrency = 1
  Deadline = 1  Long = 2  Margin = 1  Ping = 1  Stall = 2
PROPERTIES CallersReturn WedgeReported SlotsReturn ShutdownEnds
\* The process may end.
CHECK_DEADLOCK FALSE
