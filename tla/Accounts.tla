------------------------------ MODULE Accounts ------------------------------
(***************************************************************************)
(* Registration of accounts: the Authentication-Server creates a user row, *)
(* has the User-Service create the profile that carries the username over  *)
(* gRPC, and commits only then; an email account is verified by a code     *)
(* that Redis holds and a mail brings.  Profiles may be renamed meanwhile. *)
(* The gRPC call and the Kafka publish block the event loop of the         *)
(* Authentication-Server, so what it does around them is one step.         *)
(***************************************************************************)
CONSTANTS
  Emails, Phones,   \* what an account is registered with
  Passwords, Names,
  Requests,         \* coroutines that can be in progress together
  Ids, Codes,       \* the pools of user ids and codes: bound the registrations
  None

ASSUME AccountAssumption ==
  /\ Emails \intersect Phones = {}
  /\ None \notin Emails \union Phones \union Passwords \union Names
                 \union Requests \union Ids \union Codes

VARIABLES
  users,     \* committed rows of auth_schema.users
  profiles,  \* committed rows of user_schema.user_profiles
  otp,       \* email_verification:{user_id}
  mailed,    \* the id and code in the links of the user.registered events
  req,       \* program counter and locals of each request
  ids, codes,  \* drawn so far
  broken,    \* history: ids whose registration failed once it had a profile
  unsent     \* history: ids whose code expired, or was never mailed as the
             \* request that was to bring it failed

history == <<broken, unsent>>
vars    == <<users, profiles, otp, mailed, req, ids, codes, history>>

Contacts == Emails \union Phones
User     == [id : Ids, contact : Contacts, password : Passwords,
             verified : BOOLEAN]
Profile  == [user_id : Ids, username : Names]
Labels   == {"idle", "create", "commit", "overwrite", "otp", "mail",
             "check", "verify", "clean", "rename"}

Request == [pc : Labels, contact : Contacts \union {None},
            password : Passwords \union {None}, name : Names \union {None},
            id : Ids \union {None}, code : Codes \union {None}]
Idle == [pc |-> "idle", contact |-> None, password |-> None, name |-> None,
         id |-> None, code |-> None]

TypeOK ==
  /\ users \in SUBSET User /\ profiles \in SUBSET Profile
  /\ otp \in [Ids -> Codes \union {None}]
  /\ mailed \in SUBSET (Ids \X Codes)
  /\ req \in [Requests -> Request]
  /\ ids \in SUBSET Ids /\ codes \in SUBSET Codes /\ broken \in SUBSET Ids
  /\ unsent \in SUBSET Ids

Init ==
  /\ users = {} /\ profiles = {} /\ mailed = {}
  /\ otp = [i \in Ids |-> None]
  /\ req = [r \in Requests |-> Idle]
  /\ ids = {} /\ codes = {} /\ broken = {} /\ unsent = {}

At(r, label)   == req[r].pc = label
Goto(r, label) == req' = [req EXCEPT ![r].pc = label]
End(r)         == req' = [req EXCEPT ![r] = Idle]
WithId(i)      == {x \in users : x.id = i}
WithContact(c) == {x \in users : x.contact = c}

-----------------------------------------------------------------------------
(* EmailRegisteration.register and PhoneRegisteration.register *)

\* No account; or an email account that is not verified yet.
RegisterStart(r, c, p, n) ==
  /\ At(r, "idle")
  /\ LET start == [Idle EXCEPT !.contact = c, !.password = p, !.name = n] IN
     \/ /\ WithContact(c) = {}
        /\ req' = [req EXCEPT ![r] = [start EXCEPT !.pc = "create"]]
     \/ \E x \in WithContact(c) :
          /\ c \in Emails /\ ~x.verified
          /\ req' = [req EXCEPT ![r] = [start EXCEPT !.pc = "overwrite",
                                                     !.id = x.id]]
  /\ UNCHANGED <<users, profiles, otp, mailed, ids, codes, history>>

\* The INSERT of an email or phone that a transaction in progress has inserted
\* waits for it to end.
Blocked(c) == \E q \in Requests : At(q, "commit") /\ req[q].contact = c

AnyName(n)  == TRUE
NameFree(n) == \A f \in profiles : f.username # n

\* create_profile in the User-Service, then what the caller does next: commit,
\* or roll back as the call failed.
GoesOn(r, i)        == req' = [req EXCEPT ![r].pc = "commit", ![r].id = i]
CreateProfile(i, n) ==
  NameFree(n) /\ profiles' = profiles \union {[user_id |-> i, username |-> n]}

\* The profile is created and the caller learns it; is refused; is created
\* and the answer is lost or late.
CallUserService(r, i) ==
  \/ CreateProfile(i, req[r].name) /\ GoesOn(r, i) /\ UNCHANGED broken
  \/ End(r) /\ UNCHANGED <<profiles, broken>>
  \/ CreateProfile(i, req[r].name) /\ End(r) /\ broken' = broken \union {i}

CallFailureIgnored(r, i) ==
  \/ CreateProfile(i, req[r].name) /\ GoesOn(r, i) /\ UNCHANGED broken
  \/ GoesOn(r, i) /\ UNCHANGED <<profiles, broken>>
Call(r, i) == CallUserService(r, i)

\* The INSERT is flushed, and fails when the email or phone exists by now; the
\* user id is drawn, and the call made before the row is committed.
CreateUser(r) ==
  /\ At(r, "create")
  /\ ~Blocked(req[r].contact)
  /\ IF WithContact(req[r].contact) = {}
       THEN \E i \in Ids \ ids : ids' = ids \union {i} /\ Call(r, i)
       ELSE End(r) /\ UNCHANGED <<profiles, ids, broken>>
  /\ UNCHANGED <<users, otp, mailed, codes, unsent>>

\* A phone counts as verified, and gets no code.
CommitUser(r) ==
  LET phone == req[r].contact \in Phones IN
  /\ At(r, "commit")
  /\ users' = users \union
       {[id |-> req[r].id, contact |-> req[r].contact,
         password |-> req[r].password, verified |-> phone]}
  /\ IF phone THEN End(r) ELSE Goto(r, "otp")
  /\ UNCHANGED <<profiles, otp, mailed, ids, codes, history>>

\* UPDATE ... SET password_hash: no other column.
WholeRow(x, p)    == [x EXCEPT !.password = p, !.verified = FALSE]
NewPassword(x, p) == [x EXCEPT !.password = p]

OverwritePassword(r) ==
  /\ At(r, "overwrite")
  /\ users' = {IF x.id = req[r].id THEN NewPassword(x, req[r].password) ELSE x :
                 x \in users}
  /\ Goto(r, "otp")
  /\ UNCHANGED <<profiles, otp, mailed, ids, codes, history>>

\* SET takes the place of the code of an earlier request.
KeepsOld(old, k) == IF old = None THEN k ELSE old
Replaced(old, k) == k

SetOtp(r) ==
  \E k \in Codes \ codes :
    /\ At(r, "otp")
    /\ codes' = codes \union {k}
    /\ otp' = [otp EXCEPT ![req[r].id] = Replaced(@, k)]
    /\ req' = [req EXCEPT ![r].pc = "mail", ![r].code = k]
    /\ unsent' = unsent \ {req[r].id}
    /\ UNCHANGED <<users, profiles, mailed, ids, broken>>

PublishRegistered(r) ==
  /\ At(r, "mail")
  /\ mailed' = mailed \union {<<req[r].id, req[r].code>>}
  /\ End(r)
  /\ UNCHANGED <<users, profiles, otp, ids, codes, history>>

-----------------------------------------------------------------------------
(* resend_verification_email and verify_email *)

ResendStart(r, x) ==
  /\ At(r, "idle")
  /\ x.contact \in Emails /\ ~x.verified
  /\ req' = [req EXCEPT ![r] = [Idle EXCEPT !.pc = "otp", !.id = x.id]]
  /\ UNCHANGED <<users, profiles, otp, mailed, ids, codes, history>>

\* A link is opened, and the account is not verified yet.
VerifyStart(r, link) ==
  /\ At(r, "idle")
  /\ \E x \in WithId(link[1]) : ~x.verified
  /\ req' = [req EXCEPT ![r] =
       [Idle EXCEPT !.pc = "check", !.id = link[1], !.code = link[2]]]
  /\ UNCHANGED <<users, profiles, otp, mailed, ids, codes, history>>

CheckOtp(r) ==
  /\ At(r, "check")
  /\ IF otp[req[r].id] = req[r].code THEN Goto(r, "verify") ELSE End(r)
  /\ UNCHANGED <<users, profiles, otp, mailed, ids, codes, history>>

VerifyEmail(r) ==
  /\ At(r, "verify")
  /\ users' = {IF x.id = req[r].id THEN [x EXCEPT !.verified = TRUE] ELSE x :
                 x \in users}
  /\ Goto(r, "clean")
  /\ UNCHANGED <<profiles, otp, mailed, ids, codes, history>>

\* The code is deleted, and email.verified published.
DeleteOtp(r) ==
  /\ At(r, "clean")
  /\ otp' = [otp EXCEPT ![req[r].id] = None]
  /\ End(r)
  /\ UNCHANGED <<users, profiles, mailed, ids, codes, history>>

OtpExpires(i) ==
  /\ otp[i] # None
  /\ otp' = [otp EXCEPT ![i] = None]
  /\ unsent' = unsent \union {i}
  /\ UNCHANGED <<users, profiles, mailed, req, ids, codes, broken>>

-----------------------------------------------------------------------------
(* update_profile in the User-Service: the name is free, then it is taken *)

RenameStart(r, f, n) ==
  /\ At(r, "idle")
  /\ NameFree(n)
  /\ req' = [req EXCEPT ![r] =
       [Idle EXCEPT !.pc = "rename", !.id = f.user_id, !.name = n]]
  /\ UNCHANGED <<users, profiles, otp, mailed, ids, codes, history>>

\* The unique constraint refuses a name that another profile took meanwhile.
Rename(r) ==
  /\ At(r, "rename")
  /\ profiles' = IF NameFree(req[r].name)
       THEN {IF f.user_id = req[r].id THEN [f EXCEPT !.username = req[r].name]
                                      ELSE f : f \in profiles}
       ELSE profiles
  /\ End(r)
  /\ UNCHANGED <<users, otp, mailed, ids, codes, history>>

\* r is to mail the code that its account has; or to store one, as it has none.
Brings(r) ==
  \/ At(r, "otp")  /\ otp[req[r].id] = None
  \/ At(r, "mail") /\ otp[req[r].id] = req[r].code

\* A database, Redis, or a server fails: an open transaction is rolled back.
Fail(r) ==
  /\ ~At(r, "idle")
  /\ End(r)
  /\ broken' = IF At(r, "commit") THEN broken \union {req[r].id} ELSE broken
  /\ unsent' = IF Brings(r) THEN unsent \union {req[r].id} ELSE unsent
  /\ UNCHANGED <<users, profiles, otp, mailed, ids, codes>>

Next ==
  \/ \E r \in Requests :
       \/ \E c \in Contacts, p \in Passwords, n \in Names :
            RegisterStart(r, c, p, n)
       \/ CreateUser(r) \/ CommitUser(r) \/ OverwritePassword(r)
       \/ SetOtp(r) \/ PublishRegistered(r)
       \/ \E x \in users : ResendStart(r, x)
       \/ \E link \in mailed : VerifyStart(r, link)
       \/ CheckOtp(r) \/ VerifyEmail(r) \/ DeleteOtp(r)
       \/ \E f \in profiles, n \in Names : RenameStart(r, f, n)
       \/ Rename(r)
       \/ Fail(r)
  \/ \E i \in Ids : OtpExpires(i)

Spec == Init /\ [][Next]_vars

-----------------------------------------------------------------------------
(* Properties *)

\* Registrations of one email or phone, and of one username, that overlap among
\* themselves and with renames leave one account and one profile for each.
KeysAreUnique ==
  /\ \A x, y \in users : x.id = y.id \/ x.contact = y.contact => x = y
  /\ \A f, g \in profiles :
       f.user_id = g.user_id \/ f.username = g.username => f = g

\* The tables hold rows of their types, and none is there twice: keys, emails,
\* phones and usernames stay unique under overlapping requests of two services.
RowsAreSound == TypeOK /\ KeysAreUnique

\* An account is committed only when the
\* User-Service has its profile, and keeps it whatever is renamed: login finds a
\* username for every account.
EveryAccountHasProfile ==
  \A x \in users : \E f \in profiles : f.user_id = x.id

\* A profile without account is one whose registration is about to commit, or
\* failed between the User-Service's commit and its own.
OrphansOnlyByFailure ==
  \A f \in profiles :
     \/ WithId(f.user_id) # {} \/ f.user_id \in broken
     \/ \E r \in Requests : At(r, "commit") /\ req[r].id = f.user_id

\* The rows of the two services agree: committed in two transactions of two
\* databases, they differ only by what a failure between the two leaves.
AccountsMatchProfiles == EveryAccountHasProfile /\ OrphansOnlyByFailure

\* An account that was verified stays so, though a registration that found it
\* unverified may still be writing to it.
VerifiedStaysVerified ==
  [][\A x \in users : x.verified =>
        \E y \in users' : y.id = x.id /\ y.verified]_vars

\* Whoever has yet to verify an email was sent the code that Redis holds for it,
\* whatever registrations and resends replaced each other's codes, in whatever
\* order their mails left: unless a request is about to mail that code, or to
\* store one as there is none, or the code expired, or the request that was to
\* bring it failed before the mail.
CodesAreMailed ==
  \A x \in users : x.contact \in Emails /\ ~x.verified =>
    \/ <<x.id, otp[x.id]>> \in mailed
    \/ \E r \in Requests : req[r].id = x.id /\ Brings(r)
    \/ x.id \in unsent
=============================================================================
