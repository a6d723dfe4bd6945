\* One user, two requests in flight, three session ids, one request that stops.
CONSTANTS
  Users = {u1}
  Sids = {s1, s2, s3}
  Requests = {r1, r2}
  NoUser = NoUser
  NoSid = NoSid
  MaxFails = 1
SPECIFICATION FairSpec
INVARIANTS IssuedIsTracked ForcedLogoutIsFinal StaleEntryIsBeingRemoved
PROPERTIES ImplementsLedger LockoutEnds
\* The pool of session ids is finite: when it is used up the model may stop.
CHECK_DEADLOCK FALSE
