--------------------------- MODULE PasswordHistory ---------------------------
(***************************************************************************)
(* The password of one account and its rows in password_history: resets    *)
(* and changes read the history, check the new password against it, and    *)
(* commit the password with a new row; registering the same email again    *)
(* before it is verified replaces the password alone.  A password stands   *)
(* for its hashes: verify_password tells whether they are of one password. *)
(***************************************************************************)
EXTENDS SequencesExt

CONSTANTS
  Secrets,  \* what a password may be
  Changers  \* requests that change the password of the account

ASSUME ChangersAssumption == IsFiniteSet(Changers)

VARIABLES
  rows,      \* the password_history of the account, latest first
  verified,  \* users.is_email_verified
  changes,   \* program counter and locals of each request
  last       \* the latest three values of users.password_hash, latest first,
             \* and whether each was recorded when it was set: the first is the
             \* column, the others are history

historyVars == <<rows, verified, changes, last>>

\* doomed: the requests that have read the row as one to delete.
Row == [password : Secrets, doomed : SUBSET Changers]

\* new: the password asked for; raced is history: another change was committed
\* since the request began.
NoChange == [pc |-> "idle"]
Change   == {NoChange} \union
  [pc : {"reset", "overwrite"}, new : Secrets, raced : BOOLEAN]

HistoryTypeOK ==
  /\ rows \in Seq(Row)
  /\ last \in Seq([password : Secrets, recorded : BOOLEAN]) /\ Len(last) <= 3
  /\ verified \in BOOLEAN
  /\ changes \in [Changers -> Change]

\* create_user stores the first row with the account.
HistoryInit ==
  \E p \in Secrets :
    /\ rows = <<[password |-> p, doomed |-> {}]>>
    /\ last = <<[password |-> p, recorded |-> TRUE]>>
    /\ verified = FALSE
    /\ changes = [r \in Changers |-> NoChange]

Doing(r, label) == changes[r].pc = label
First(n, s)     == SubSeq(s, 1, IF Len(s) < n THEN Len(s) ELSE n)
PasswordsIn(s)  == {s[i].password : i \in DOMAIN s}

Began(label, p) == [pc |-> label, new |-> p, raced |-> FALSE]

\* The request ends, and the rows it held to delete are no longer its own.
Release(r) == [i \in DOMAIN rows |-> [rows[i] EXCEPT !.doomed = @ \ {r}]]

\* The account has a new password: the changes in progress are overtaken.
Become(p, recorded, r) ==
  /\ last' = First(3, <<[password |-> p, recorded |-> recorded]>> \o last)
  /\ changes' = [q \in Changers |->
       IF q = r THEN NoChange
       ELSE IF Doing(q, "idle") THEN changes[q]
       ELSE [changes[q] EXCEPT !.raced = TRUE]]

-----------------------------------------------------------------------------
(* EmailPasswordReset and PhonePasswordReset, also for change_password *)

ChecksCurrent(p) == p # last[1].password
Allowed(p)       == p \notin PasswordsIn(First(3, rows))

\* Of three or more rows, those after the first two are deleted.
KeepsOne   == IF Len(rows) >= 3 THEN 2..Len(rows) ELSE {}
Surplus    == IF Len(rows) >= 3 THEN 3..Len(rows) ELSE {}

ResetStart(r, p) ==
  /\ Doing(r, "idle")
  /\ Allowed(p)
  /\ rows' = [i \in DOMAIN rows |->
       IF i \in Surplus THEN [rows[i] EXCEPT !.doomed = @ \union {r}]
       ELSE rows[i]]
  /\ changes' = [changes EXCEPT ![r] = Began("reset", p)]
  /\ UNCHANGED <<verified, last>>

\* How many rows are not the request's to delete: as new rows come before the
\* others, those are the latest ones.
Spared(r) ==
  CHOOSE n \in 0..Len(rows) :
    \A i \in DOMAIN rows : i <= n <=> r \notin rows[i].doomed

\* A row another request has deleted is skipped with a warning.
UpdatePasswordWithHistory(r) ==
  /\ Doing(r, "reset")
  /\ rows' = <<[password |-> changes[r].new, doomed |-> {}]>>
               \o First(Spared(r), rows)
  /\ Become(changes[r].new, TRUE, r)
  /\ UNCHANGED verified

-----------------------------------------------------------------------------
(* Registration of an email that exists and is not verified; verify_email *)

RegisterAgainStart(r, p) ==
  /\ Doing(r, "idle")
  /\ ~verified
  /\ changes' = [changes EXCEPT ![r] = Began("overwrite", p)]
  /\ UNCHANGED <<rows, verified, last>>

RegisterAgain(r) ==
  /\ Doing(r, "overwrite")
  /\ Become(changes[r].new, FALSE, r)
  /\ UNCHANGED <<rows, verified>>

Verify ==
  /\ ~verified
  /\ verified' = TRUE
  /\ UNCHANGED <<rows, changes, last>>

\* The commit fails and is rolled back.
ChangeFails(r) ==
  /\ ~Doing(r, "idle")
  /\ rows' = Release(r)
  /\ changes' = [changes EXCEPT ![r] = NoChange]
  /\ UNCHANGED <<verified, last>>

HistoryNext ==
  \/ \E r \in Changers :
       \/ \E p \in Secrets : ResetStart(r, p) \/ RegisterAgainStart(r, p)
       \/ UpdatePasswordWithHistory(r) \/ RegisterAgain(r) \/ ChangeFails(r)
  \/ Verify

HistorySpec == HistoryInit /\ [][HistoryNext]_historyVars

-----------------------------------------------------------------------------
(* Properties *)

\* The rows that a reset checks hold every one of the last three passwords that
\* was recorded, whatever resets overlapped: the rows a reset deletes are none
\* of the three latest once it has added its own.
LastThreeAreRecorded ==
  \A n \in DOMAIN last :
     last[n].recorded => last[n].password \in PasswordsIn(First(3, rows))

\* The history keeps the last three and its type, and does not grow: resets that
\* overlap leave at most one row each beyond the two that every reset keeps.
HistoryIsSound ==
  /\ HistoryTypeOK
  /\ LastThreeAreRecorded
  /\ Len(rows) <= 2 + Cardinality(Changers)

Commits(r) == UpdatePasswordWithHistory(r)

\* A reset restores none of the last three passwords, unless one was never
\* recorded or another change was committed between its check and its commit.
ReusedOnlyWhenRaced ==
  [][\A r \in Changers : Commits(r) /\ ~changes[r].raced =>
       \A n \in DOMAIN last :
          last[n].recorded => last[n].password # changes[r].new]_historyVars
=============================================================================
