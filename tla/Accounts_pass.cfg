\* Two registrations or renames at a time, three user ids, three codes.
CONSTANTS
  Emails = {e1}
  Phones = {p1}
  Passwords = {x, y}
  Names = {n1, n2}
  Requests = {r1, r2}
  Ids = {i1, i2, i3}
  Codes = {k1, k2, k3}
  None = None
SPECIFICATION Spec
SYMMETRY Symm
INVARIANTS RowsAreSound AccountsMatchProfiles CodesAreMailed
PROPERTIES VerifiedStaysVerified
\* When the user ids or codes are used up a registration waits for ever.
CHECK_DEADLOCK FALSE
