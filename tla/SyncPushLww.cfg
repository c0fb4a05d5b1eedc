\* Two overlapping requests and nothing else amiss.
CONSTANTS
  ann = ann
  bob = bob
  acme = acme
  bolt = bolt
  proj = proj
  task = task
  note = note
  list = list
  item = item
  pin = pin
  tag = tag
  alien = alien
  None = None
  Unread = Unread
  Handlers = {h1, h2}
  Accounts = {ann, bob}
  Orgs = {acme, bolt}
  Ids = {task}
  Entity <- MCEntity
  Mutations <- RaceMutations
  Batches <- RaceBatches
  InitRoles <- ManagerBob
  CleanupEnabled = FALSE
  MaxSends = 3
  MaxMishaps = 0

SPECIFICATION Spec
\* Clients stop after MaxSends requests.
CHECK_DEADLOCK FALSE

PROPERTY LwwOrder
