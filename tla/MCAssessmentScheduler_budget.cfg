SPECIFICATION Spec
CONSTANTS
  t1 = t1  t2 = t2  Caller = {t1, t2}
  None = None
  Calls <- MCRunNow
  ProbationInterval = 2  ProbationChecks = 2
  RelaxingInitial = 3  RelaxingMax = 6
  HeightenedInitial = 7  MinInterval = 1
  EngagedInterval = 1
  DailyBudget = 1
  DayLength = 1
  MaxTime = 1
  MaxRuns = 2
INVARIANT BudgetCap
