\* One key, two mishaps: two failures of a job, or a failure and a crash.
CONSTANTS
  Keys = {k1}
  Requests = {r1, r2}
  Jobs = {j1, j2}
  NumVariants = 2
  Attempts = 2
  MaxUploads = 2
  MaxCalls = 2
  MaxEdits = 0
  MaxMishaps = 2
  None = None

SPECIFICATION FairSpec
\* Clients stop when their uploads, calls and edits are used up.
CHECK_DEADLOCK FALSE

PROPERTIES
  Settles
