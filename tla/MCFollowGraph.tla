---------------------------- MODULE MCFollowGraph ----------------------------
EXTENDS FollowGraph, TLC

\* Users, requests and row ids are interchangeable.
Symm == Permutations(Users) \union Permutations(Requests)
          \union Permutations(Ids)
=============================================================================
