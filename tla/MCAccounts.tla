----------------------------- MODULE MCAccounts -----------------------------
EXTENDS Accounts, TLC

\* Names, passwords, ids, codes and requests are interchangeable.
Symm == Permutations(Names) \union Permutations(Passwords)
          \union Permutations(Ids) \union Permutations(Codes)
          \union Permutations(Requests)
=============================================================================
