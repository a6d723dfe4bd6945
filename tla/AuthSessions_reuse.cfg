\* Two refreshes with one token.
CONSTANTS
  Users = {u1}
  Sids = {s1, s2, s3}
  Requests = {r1, r2}
  NoUser = NoUser
  NoSid = NoSid
  MaxFails = 0
SPECIFICATION Spec
INVARIANTS RefreshTokenUsedOnce
\* The pool of session ids is finite: when it is used up the model may stop.
CHECK_DEADLOCK FALSE
