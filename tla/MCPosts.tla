------------------------------- MODULE MCPosts -------------------------------
EXTENDS Posts, TLC

\* Users, requests, primary keys and values of a column are interchangeable.
Symm == Permutations(Users) \union Permutations(Requests)
          \union Permutations(Likes) \union Permutations(Comments)
          \union Permutations(Values)
=============================================================================
