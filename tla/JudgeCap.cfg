\* Three tasks and a re-judging backfill judge one edge through a gate of two,
\* on a budget of one, across one midnight.
SPECIFICATION FairSpec
CONSTANTS
  t1 = t1  t2 = t2  t3 = t3  b2 = b2  p1 = p1  None = None
  Tasks = {t1, t2, t3}  Backfills = {b2}  Rejudges = {b2}  PairOf <- OnePair
  Cap = 1  Concurrency = 2  Backlog = 2  Retries = 1  Days = 1
INVARIANTS JudgeInv BudgetIsExact
PROPERTIES ImplementsDailyBudget JobsEnd
\* Every job may have ended on the last day.
CHECK_DEADLOCK FALSE
