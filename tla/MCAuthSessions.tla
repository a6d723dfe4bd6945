--------------------------- MODULE MCAuthSessions ---------------------------
EXTENDS AuthSessions, TLC

\* Requests and sids are interchangeable: sound for the safety properties.
Symm == Permutations(Requests) \union Permutations(Sids)
=============================================================================
