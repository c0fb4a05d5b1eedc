\* Two overlapping requests, three sent in all, retention on.
CONSTANTS
  ann = ann
  bob = bob
  acme = acme
  bolt = bolt
  proj = proj
  task = task
  note = note
  list = list
  item = item
  pin = pin
  tag = tag
  alien = alien
  None = None
  Unread = Unread
  Handlers = {h1, h2}
  Accounts = {ann, bob}
  Orgs = {acme, bolt}
  Ids = {task}
  Entity <- MCEntity
  Mutations <- RaceMutations
  Batches <- RaceBatches
  InitRoles <- ManagerBob
  CleanupEnabled = TRUE
  MaxSends = 3
  MaxMishaps = 2

SPECIFICATION Spec
SYMMETRY Interchangeable
\* Clients stop after MaxSends requests.
CHECK_DEADLOCK FALSE

INVARIANTS
  TypeOK
  VersionIdentifies
  AtMostOnce
PROPERTIES
  VersionsGrow
  LwwUnlessRaced
  TenantIsolation
  ImplementsLww
