\* A mail on one topic; a notification and an event that is passed by on the
\* other; the server is started twice.
CONSTANTS
  m1 = m1
  n1 = n1
  x1 = x1
  mail = mail
  post = post
  ann = ann
  Events <- MCEvents
  Topics = {mail, post}
  Users = {ann}
  TopicOf <- MCTopicOf
  EffectOf <- MCEffectOf
  ReceiverOf <- MCReceiverOf
  MaxRuns = 2
  None = None
SPECIFICATION FairSpec
INVARIANTS OffsetsAreSound DuplicatesAreExplained
PROPERTIES EveryEventIsHandled
\* The server is started MaxRuns times: after that it stays down.
CHECK_DEADLOCK FALSE
