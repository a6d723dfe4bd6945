\* One post and two users; two requests; a like that is given, taken back and
\* given again; a comment and a reply; one column with two values.
CONSTANTS
  Users = {u1, u2}
  Requests = {r1, r2}
  Posts = {p1}
  Likes = {i1, i2}
  Comments = {c1, c2}
  Columns = {k1}
  Values = {v1, v2}
  None = None
SPECIFICATION Spec
SYMMETRY Symm
INVARIANTS RowsAreSound EventsMatchRows
PROPERTIES ImplementsLedger ChangesOnlyAsAsked LateWritesWereUnderWay
\* When the comments are used up a request that comments waits for ever.
CHECK_DEADLOCK FALSE
