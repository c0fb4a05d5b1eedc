\* Two overlapping requests, two sign-ins, four tokens, two mishaps.
CONSTANTS
  Tokens = {t1, t2, t3, t4}
  Families = {f1, f2}
  Requests = {r1, r2}
  MaxMishaps = 2
  None = None

SPECIFICATION Spec
SYMMETRY Interchangeable
\* Clients stop when the tokens are used up.
CHECK_DEADLOCK FALSE

INVARIANTS
  TypeOK
  DeadUnlessRaced
  OneLiveUnlessForked
  SessionSurvives

PROPERTIES
  ImplementsSession
