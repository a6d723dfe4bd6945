\* Two accounts, two requests in flight, three follows.
CONSTANTS
  Users = {u1, u2}
  Requests = {r1, r2}
  Ids = {f1, f2, f3}
  NoUser = NoUser
  NoId = NoId
SPECIFICATION Spec
SYMMETRY Symm
INVARIANTS RowsAreSound FollowersWereAgreed NotificationsAreTrue
PROPERTIES ImplementsRelations
