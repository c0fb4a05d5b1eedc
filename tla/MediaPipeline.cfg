\* Two requests, two jobs, two uploads under two keys, one edit, one mishap.
CONSTANTS
  Keys = {k1, k2}
  Requests = {r1, r2}
  Jobs = {j1, j2}
  NumVariants = 2
  Attempts = 2
  MaxUploads = 2
  MaxCalls = 2
  MaxEdits = 1
  MaxMishaps = 1
  None = None

SPECIFICATION Spec
SYMMETRY Interchangeable
\* Clients stop when their uploads, calls and edits are used up.
CHECK_DEADLOCK FALSE

INVARIANTS
  TypeOK
  KeptOrProcessed
  DoneIsShown
  WatermarkMatches
  MetadataKept
