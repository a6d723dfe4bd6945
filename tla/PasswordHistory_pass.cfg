\* Four passwords, so that the history of three can turn over; two requests.
CONSTANTS
  Secrets = {p1, p2, p3, p4}
  Changers = {r1, r2}
SPECIFICATION HistorySpec
SYMMETRY Symm
INVARIANTS HistoryIsSound
PROPERTIES ReusedOnlyWhenRaced
