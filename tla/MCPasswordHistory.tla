-------------------------- MODULE MCPasswordHistory --------------------------
EXTENDS PasswordHistory

\* Requests differ in nothing but their names, and so do passwords.
Symm == Permutations(Changers) \union Permutations(Secrets)
=============================================================================
