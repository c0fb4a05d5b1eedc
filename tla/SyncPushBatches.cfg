\* One request at a time, batches of every kind of entity, crashes and retries.
CONSTANTS
  ann = ann
  bob = bob
  acme = acme
  bolt = bolt
  proj = proj
  task = task
  note = note
  list = list
  item = item
  pin = pin
  tag = tag
  alien = alien
  None = None
  Unread = Unread
  Handlers = {h1}
  Accounts = {ann, bob}
  Orgs = {acme, bolt}
  Ids = {proj, task, note, list, item, pin, tag, alien}
  Entity <- MCEntity
  Mutations <- BatchMutations
  Batches <- WholeBatches
  InitRoles <- MemberBob
  CleanupEnabled = FALSE
  MaxSends = 4
  MaxMishaps = 1

SPECIFICATION Spec
\* Clients stop after MaxSends requests.
CHECK_DEADLOCK FALSE

INVARIANTS
  AtMostOnce
PROPERTIES
  Authorised
