\* Two connections of one user and one of another, one event: walks of one and
\* of two lists overlap connects and disconnects at every send.
CONSTANTS
  ann = ann
  bob = bob
  a1 = a1
  a2 = a2
  a3 = a3
  b1 = b1
  b2 = b2
  Users <- MCUsers
  Conns = {a1, a2, b1}
  MaxEvents = 1
  UserOf <- MCUserOf
SPECIFICATION FairSpec
INVARIANTS PresenceIsExact NoSecondSend MissedOnlyByRemoval
PROPERTIES AbsenceShowsUp
\* Every WebSocket is opened once: when all are closed the model stops.
CHECK_DEADLOCK FALSE
