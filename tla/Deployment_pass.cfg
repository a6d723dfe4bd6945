\* Every service, with and without the reloader, from every state that an
\* older version of it may have left its database in.
CONSTANTS
  MaxStarts = 3
  NoTransaction = NoTransaction
SPECIFICATION FairStarts
INVARIANTS SchemaIsSound
PROPERTIES ServesInTheEnd
