\* A story of each of two users, the feed of one; a day of two steps, and images
\* put in the first two, so that the last of them is a day old at the end.
CONSTANTS
  s1 = s1
  s2 = s2
  ann = ann
  bob = bob
  Stories = {s1, s2}
  Users = {ann, bob}
  OwnerOf <- MCOwnerOf
  Readers = {ann}
  Requests = {r1}
  Day = 2
  MaxTime = 3
  LastPut = 1
  None = None
SPECIFICATION FairStories
INVARIANTS ImagesAreSound
PROPERTIES FeedIsTrue ImagesAreRemoved
\* The clock stops, and nobody asks for anything.
CHECK_DEADLOCK FALSE
