\* Three requests: a creation and two messages, or one message with two edits or
\* deletions that overlap, against a page that loads and loads again, with two
\* fetches under way.
CONSTANTS
  Users = {u1, u2}
  Readers = {u2}
  Requests = {r1, r2, r3}
  Fetches = {f1, f2}
  Null = Null
  Absent = Absent
SPECIFICATION Spec
SYMMETRY Symm
INVARIANTS RowsAreServable PagesAgreeUnlessRaced LastMessageIsRecent
PROPERTIES ImplementsLedger
