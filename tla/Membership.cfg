\* Two overlapping requests of three accounts: two invitations, two codes and
\* two redemptions after a creation fit in the seven calls.
CONSTANTS
  Accounts = {a1, a2, a3}
  Orgs = {o1, o2}
  Members = {m1, m2, m3}
  Codes = {c1, c2}
  Requests = {r1, r2}
  PickedRoles = {"admin", "member"}
  Assigning = {TRUE}
  MaxCalls = 7
  None = None

SPECIFICATION Spec
SYMMETRY Interchangeable
\* Clients stop when the calls are used up.
CHECK_DEADLOCK FALSE

INVARIANTS
  OneOwner
  JoinedIsLinked
  OneMembership
  HandedOpens
  Authorised

PROPERTIES
  ImplementsRoster
