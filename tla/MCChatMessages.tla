--------------------------- MODULE MCChatMessages ---------------------------
EXTENDS ChatMessages, TLC

\* Requests are interchangeable, and so are fetches.
Symm == Permutations(Requests) \union Permutations(Fetches)
=============================================================================
