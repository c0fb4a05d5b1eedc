\* The narrowest window that suffices: twice the purge, the clocks' skew, the lag
\* of a deletedAt and a request over midnight.
CONSTANTS
  Rows = {r1}
  Devices = {d1, d2}
  Retention = 4
  Purge = 1
  Skew = 0
  Lag = 1
  MaxTime = 6
  MaxChanges = 3
  MaxRequests = 1
  None = None

SPECIFICATION Spec
SYMMETRY Interchangeable
\* Time ends.
CHECK_DEADLOCK FALSE

INVARIANTS
  NoResurrection
  NoGhost
