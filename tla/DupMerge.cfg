\* Two merges that keep different ends of one chain, with an event or a fault,
\* one merge with two events, or an event and two faults, and every look at four memories.
SPECIFICATION FairSpec
CONSTANTS
  N = 5  a = a  b = b  None = None
  Callers = {a, b}  Strategy <- StrategyOf  Accesses <- AccessesOf
  Page = 4  ScanLimit = 4  Rounds = 2
  Workloads <- Races
INVARIANTS DupInv EdgesHaveMarkers GroupsAreClusters
PROPERTIES Converges
\* Every call may have ended, and then nothing is left to do.
CHECK_DEADLOCK FALSE
