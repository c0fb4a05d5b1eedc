\* Two phones, one notification that its worker may have to send again, two
\* mishaps; a phone changes hands, or two register.
CONSTANTS
  Accounts = {a1, a2}
  Members = {m1}
  Tokens = {t1, t2}
  Notifications = {n1}
  Attempts = 2
  MaxMishaps = 2
  MaxSwitches = 2
  None = None

SPECIFICATION FairSpec
\* Phones and notifications are used up.
CHECK_DEADLOCK FALSE

INVARIANTS
  NeverToAnother
  StaysRegistered
  EveryDeviceTried

PROPERTIES
  Settles
