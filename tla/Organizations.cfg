\* Trials of two days of two ticks; two overlapping subscriptions; two ticks more.
CONSTANTS
  DayLength = 2
  TrialDays = 2
  Orgs = {o1}
  Requests = {r1, r2}
  MaxTime = 6
  None = None

SPECIFICATION Spec
SYMMETRY Interchangeable
\* Time ends.
CHECK_DEADLOCK FALSE

INVARIANTS
  NeverLockedOut

PROPERTIES
  TrialRunsOnce
