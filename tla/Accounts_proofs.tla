--------------------------- MODULE Accounts_proofs ---------------------------
(***************************************************************************)
(* Proofs about Accounts for every set of emails, phones, names, requests, *)
(* ids and codes.  Two databases commit one after the other: between the   *)
(* two commits only the request that drew the user id knows it, and its    *)
(* uncommitted row keeps others off the email or phone (CommitInv).  A     *)
(* code that is stored replaces the one before, so that its request is the *)
(* one that must mail (MInv).                                              *)
(* The second part is about PasswordHistory, the passwords of one of these *)
(* accounts, for every finite set of requests that overlap.                *)
(***************************************************************************)
EXTENDS Accounts, PasswordHistory, Integers, Sequences, FiniteSetTheorems, TLAPS

\* What the locals of a request are at each label.
RequestInv(r) ==
  /\ req[r].pc \in {"create", "commit"} =>
       /\ req[r].contact \in Contacts /\ req[r].password \in Passwords
       /\ req[r].name \in Names
  /\ At(r, "overwrite") => req[r].password \in Passwords
  /\ req[r].pc \in {"overwrite", "otp", "mail", "check", "verify", "clean",
                    "rename"} => req[r].id \in Ids
  /\ At(r, "mail") => req[r].code \in Codes
  /\ At(r, "rename") => req[r].name \in Names

\* A registration whose row is not committed has its profile, and is alone with
\* its user id and its email or phone.
CommitInv(r) ==
  At(r, "commit") =>
    /\ req[r].id \in ids
    /\ WithId(req[r].id) = {} /\ WithContact(req[r].contact) = {}
    /\ \E f \in profiles : f.user_id = req[r].id
    /\ \A q \in Requests : q # r /\ At(q, "commit") =>
         req[q].id # req[r].id /\ req[q].contact # req[r].contact

IdsInv ==
  /\ \A x \in users : x.id \in ids
  /\ \A f \in profiles : f.user_id \in ids

IInv ==
  /\ TypeOK
  /\ IdsInv
  /\ KeysAreUnique
  /\ EveryAccountHasProfile
  /\ OrphansOnlyByFailure
  /\ \A r \in Requests : RequestInv(r) /\ CommitInv(r)

USE AccountAssumption DEF At, Contacts, WithId, WithContact, history

\* A request that ends is idle; the others keep their locals.
LEMMA EndFacts ==
  ASSUME TypeOK, NEW r \in Requests, End(r)
  PROVE  /\ req' \in [Requests -> Request]
         /\ req'[r].pc = "idle"
         /\ \A q \in Requests : q # r => req'[q] = req[q]
BY DEF TypeOK, End, Idle, Request, Labels

\* Goto leaves the other locals alone.
LEMMA GotoFacts ==
  ASSUME TypeOK, NEW r \in Requests, NEW l \in Labels, Goto(r, l)
  PROVE  /\ req' \in [Requests -> Request]
         /\ req'[r].pc = l
         /\ req'[r].id = req[r].id /\ req'[r].contact = req[r].contact
         /\ req'[r].password = req[r].password /\ req'[r].code = req[r].code
         /\ req'[r].name = req[r].name
         /\ \A q \in Requests : q # r => req'[q] = req[q]
BY DEF TypeOK, Goto, Request

\* The row of an account may change, but neither its id nor its email or phone;
\* no account comes or goes, and none ceases to be verified.
SameAccounts ==
  /\ users' \in SUBSET User
  /\ \A y \in users' : \E x \in users : y.id = x.id /\ y.contact = x.contact
  /\ \A x \in users :
       \E y \in users' : y.id = x.id /\ (x.verified => y.verified)
  /\ \A y, z \in users' : y.id = z.id => y = z

\* A step of a request between its commits that keeps the accounts and the
\* profiles keeps the invariant, when its new locals are sound.
LEMMA LocalStep ==
  ASSUME IInv, TypeOK', SameAccounts, NEW r \in Requests,
         UNCHANGED <<profiles, ids, broken>>,
         \A q \in Requests : q # r => req'[q] = req[q],
         ~At(r, "commit"), ~At(r, "commit")', RequestInv(r)'
  PROVE  IInv'
<1> USE DEF IInv, SameAccounts
<1>1. IdsInv'
  BY DEF IdsInv
<1>2. KeysAreUnique'
  <2>1. ASSUME NEW y \in users', NEW z \in users',
               y.id = z.id \/ y.contact = z.contact
        PROVE  y = z
    <3>1. PICK x \in users : y.id = x.id /\ y.contact = x.contact
      OBVIOUS
    <3>2. PICK w \in users : z.id = w.id /\ z.contact = w.contact
      OBVIOUS
    <3>3. x = w
      BY <2>1, <3>1, <3>2 DEF KeysAreUnique
    <3> QED BY <3>1, <3>2, <3>3
  <2> QED BY <2>1 DEF KeysAreUnique
<1>3. EveryAccountHasProfile'
  BY DEF EveryAccountHasProfile
<1>4. OrphansOnlyByFailure'
  <2>1. ASSUME NEW f \in profiles
        PROVE  \/ WithId(f.user_id)' # {} \/ f.user_id \in broken
               \/ \E q \in Requests : At(q, "commit")'
                                        /\ req'[q].id = f.user_id
    <3>1. CASE WithId(f.user_id) # {}
      BY <3>1
    <3>2. CASE WithId(f.user_id) = {}
      BY <3>2 DEF OrphansOnlyByFailure
    <3> QED BY <3>1, <3>2
  <2> QED BY <2>1 DEF OrphansOnlyByFailure
<1>5. ASSUME NEW q \in Requests PROVE RequestInv(q)' /\ CommitInv(q)'
  <2>1. CASE q = r
    BY <2>1 DEF CommitInv
  <2>2. CASE q # r
    <3>1. RequestInv(q)'
      BY <2>2 DEF RequestInv
    <3>2. CommitInv(q)'
      BY <2>2 DEF CommitInv
    <3> QED BY <3>1, <3>2
  <2> QED BY <2>1, <2>2
<1> QED BY <1>1, <1>2, <1>3, <1>4, <1>5

\* When the table of accounts is left alone, they stay the same.
LEMMA UsersUnchanged ==
  ASSUME IInv, UNCHANGED users
  PROVE  SameAccounts
BY DEF SameAccounts, IInv, TypeOK, KeysAreUnique

-----------------------------------------------------------------------------
(* Every action preserves the invariant *)

\* r has new locals, those of a request that starts.
NewLocals(r) ==
  \E q \in Request :
      /\ req' = [req EXCEPT ![r] = q]
      /\ q.pc \notin {"commit", "mail"}
      /\ q.pc = "create" => /\ q.contact \in Contacts
                            /\ q.password \in Passwords /\ q.name \in Names
      /\ q.pc = "overwrite" => q.password \in Passwords
      /\ q.pc \in {"overwrite", "otp", "check", "verify", "clean", "rename"}
           => q.id \in Ids
      /\ q.pc = "rename" => q.name \in Names

\* Requests that start hold an email or phone, an id, a code or a name.
LEMMA StartInv ==
  ASSUME IInv, NEW r \in Requests,
         \/ \E c \in Contacts, p \in Passwords, n \in Names :
              RegisterStart(r, c, p, n)
         \/ \E x \in users : ResendStart(r, x)
         \/ \E link \in mailed : VerifyStart(r, link)
         \/ \E f \in profiles, n \in Names : RenameStart(r, f, n)
  PROVE  IInv'
<1>1. /\ req \in [Requests -> Request]
      /\ users \subseteq User /\ profiles \subseteq Profile
      /\ mailed \subseteq Ids \X Codes
  BY DEF IInv, TypeOK
<1>2. NewLocals(r)
  <2> USE DEF NewLocals
  <2>1. ASSUME NEW c \in Contacts, NEW p \in Passwords, NEW n \in Names,
               RegisterStart(r, c, p, n)
        PROVE  NewLocals(r)
    <3> DEFINE start == [Idle EXCEPT !.contact = c, !.password = p, !.name = n]
               a == [start EXCEPT !.pc = "create"]
    <3>1. CASE req' = [req EXCEPT ![r] = a]
      <4>1. /\ a \in Request /\ a.pc = "create" /\ a.contact = c
            /\ a.password = p /\ a.name = n
        BY DEF Idle, Request, Labels
      <4> HIDE DEF a
      <4> QED BY <3>1, <4>1
    <3>2. ASSUME NEW x \in users,
                 req' = [req EXCEPT ![r] = [start EXCEPT !.pc = "overwrite",
                                                         !.id = x.id]]
          PROVE  NewLocals(r)
      <4> DEFINE b == [start EXCEPT !.pc = "overwrite", !.id = x.id]
      <4>1. x.id \in Ids
        BY <1>1 DEF User
      <4>2. b \in Request /\ b.pc = "overwrite" /\ b.password = p /\ b.id = x.id
        BY <4>1 DEF Idle, Request, Labels
      <4>3. req' = [req EXCEPT ![r] = b]
        BY <3>2
      <4> HIDE DEF b
      <4> QED BY <4>1, <4>2, <4>3
    <3> QED BY <2>1, <3>1, <3>2 DEF RegisterStart
  <2>2. ASSUME NEW x \in users, ResendStart(r, x) PROVE NewLocals(r)
    <3> DEFINE a == [Idle EXCEPT !.pc = "otp", !.id = x.id]
    <3>1. x.id \in Ids
      BY <1>1 DEF User
    <3>2. a \in Request /\ a.pc = "otp" /\ a.id = x.id
      BY <3>1 DEF Idle, Request, Labels
    <3>3. req' = [req EXCEPT ![r] = a]
      BY <2>2 DEF ResendStart
    <3> HIDE DEF a
    <3> QED BY <3>1, <3>2, <3>3
  <2>3. ASSUME NEW link \in mailed, VerifyStart(r, link) PROVE NewLocals(r)
    <3> DEFINE a == [Idle EXCEPT !.pc = "check", !.id = link[1],
                                 !.code = link[2]]
    <3>1. link[1] \in Ids /\ link[2] \in Codes
      BY <1>1
    <3>2. a \in Request /\ a.pc = "check" /\ a.id = link[1]
      BY <3>1 DEF Idle, Request, Labels
    <3>3. req' = [req EXCEPT ![r] = a]
      BY <2>3 DEF VerifyStart
    <3> HIDE DEF a
    <3> QED BY <3>1, <3>2, <3>3
  <2>4. ASSUME NEW f \in profiles, NEW n \in Names, RenameStart(r, f, n)
        PROVE  NewLocals(r)
    <3> DEFINE a == [Idle EXCEPT !.pc = "rename", !.id = f.user_id, !.name = n]
    <3>1. f.user_id \in Ids
      BY <1>1 DEF Profile
    <3>2. a \in Request /\ a.pc = "rename" /\ a.id = f.user_id /\ a.name = n
      BY <3>1 DEF Idle, Request, Labels
    <3>3. req' = [req EXCEPT ![r] = a]
      BY <2>4 DEF RenameStart
    <3> HIDE DEF a
    <3> QED BY <3>1, <3>2, <3>3
  <2> QED BY <2>1, <2>2, <2>3, <2>4
<1>3. /\ UNCHANGED <<users, profiles, otp, mailed, ids, codes, history>>
      /\ At(r, "idle")
  BY DEF RegisterStart, ResendStart, VerifyStart, RenameStart
<1>4. TypeOK'
  BY <1>1, <1>2, <1>3 DEF NewLocals, IInv, TypeOK
<1>5. /\ RequestInv(r)' /\ ~At(r, "commit") /\ ~At(r, "commit")'
      /\ \A q \in Requests : q # r => req'[q] = req[q]
  BY <1>1, <1>2, <1>3 DEF NewLocals, RequestInv
<1> QED BY <1>3, <1>4, <1>5, UsersUnchanged, LocalStep

\* Steps of a request that touch codes and mails, or nothing: SET and DEL of a
\* code, the published link, the comparison.
LEMMA CodeInv ==
  ASSUME IInv, NEW r \in Requests,
         SetOtp(r) \/ PublishRegistered(r) \/ CheckOtp(r) \/ DeleteOtp(r)
  PROVE  IInv'
<1>1. /\ UNCHANGED <<users, profiles, ids, broken>> /\ ~At(r, "commit")
      /\ req[r].id \in Ids /\ req[r] \in Request /\ TypeOK
      /\ req \in [Requests -> Request]
  BY DEF SetOtp, PublishRegistered, CheckOtp, DeleteOtp, IInv, RequestInv,
         TypeOK
<1>2. CASE SetOtp(r)
  <2>1. PICK k \in Codes \ codes :
          /\ codes' = codes \union {k}
          /\ otp' = [otp EXCEPT ![req[r].id] = k]
          /\ req' = [req EXCEPT ![r].pc = "mail", ![r].code = k]
          /\ UNCHANGED mailed /\ unsent' \in SUBSET Ids
    BY <1>1, <1>2 DEF SetOtp, Replaced, TypeOK
  <2>2. /\ req' \in [Requests -> Request]
        /\ req'[r].pc = "mail" /\ req'[r].code = k /\ req'[r].id = req[r].id
        /\ \A q \in Requests : q # r => req'[q] = req[q]
    BY <1>1, <2>1 DEF Request, Labels
  <2>3. TypeOK'
    BY <1>1, <2>1, <2>2 DEF TypeOK
  <2> QED BY <1>1, <2>2, <2>3, UsersUnchanged, LocalStep DEF RequestInv
<1>3. CASE CheckOtp(r) /\ Goto(r, "verify")
  <2>1. "verify" \in Labels
    BY DEF Labels
  <2>2. /\ req' \in [Requests -> Request]
        /\ req'[r].pc = "verify" /\ req'[r].id = req[r].id
        /\ \A q \in Requests : q # r => req'[q] = req[q]
    BY <1>1, <1>3, <2>1, GotoFacts
  <2>3. TypeOK'
    BY <1>1, <1>3, <2>2 DEF TypeOK, CheckOtp
  <2> QED BY <1>1, <2>2, <2>3, UsersUnchanged, LocalStep DEF RequestInv
<1>4. CASE ~SetOtp(r) /\ End(r)
  <2>1. /\ req' \in [Requests -> Request] /\ req'[r].pc = "idle"
        /\ \A q \in Requests : q # r => req'[q] = req[q]
    BY <1>1, <1>4, EndFacts
  <2>2. /\ mailed' \in SUBSET (Ids \X Codes)
        /\ otp' \in [Ids -> Codes \union {None}] /\ codes' \in SUBSET Codes
        /\ unsent' \in SUBSET Ids
    BY <1>1, <1>4 DEF TypeOK, PublishRegistered, CheckOtp, DeleteOtp, IInv,
                      RequestInv
  <2>3. TypeOK'
    BY <1>1, <2>1, <2>2 DEF TypeOK
  <2> QED BY <1>1, <2>1, <2>3, UsersUnchanged, LocalStep DEF RequestInv
<1> QED BY <1>2, <1>3, <1>4 DEF PublishRegistered, CheckOtp, DeleteOtp

\* The row is inserted and flushed, the profile created: one is waiting for the
\* other's commit, or the profile is left alone.
LEMMA CreateUserInv ==
  ASSUME IInv, NEW r \in Requests, CreateUser(r)
  PROVE  IInv'
<1> USE DEF IInv
<1>1. /\ At(r, "create") /\ ~Blocked(req[r].contact)
      /\ UNCHANGED <<users, otp, mailed, codes, unsent>>
      /\ req[r] \in Request /\ req \in [Requests -> Request]
      /\ req[r].contact \in Contacts /\ req[r].name \in Names
      /\ req[r].password \in Passwords
  BY DEF CreateUser, TypeOK, RequestInv
<1>2. CASE End(r) /\ UNCHANGED <<profiles, broken>> /\ ids' \in SUBSET Ids
             /\ ids \subseteq ids'
  <2>1. /\ req' \in [Requests -> Request] /\ req'[r].pc = "idle"
        /\ \A q \in Requests : q # r => req'[q] = req[q]
    BY <1>2, EndFacts
  <2>2. TypeOK'
    BY <1>1, <1>2, <2>1 DEF TypeOK
  <2>3. IdsInv' /\ KeysAreUnique' /\ EveryAccountHasProfile'
    BY <1>1, <1>2 DEF IdsInv, KeysAreUnique, EveryAccountHasProfile
  <2>4. OrphansOnlyByFailure'
    BY <1>1, <1>2, <2>1 DEF OrphansOnlyByFailure
  <2>5. ASSUME NEW q \in Requests PROVE RequestInv(q)' /\ CommitInv(q)'
    <3>1. RequestInv(q)'
      BY <2>1 DEF RequestInv
    <3>2. CommitInv(q)'
      BY <1>1, <1>2, <2>1 DEF CommitInv
    <3> QED BY <3>1, <3>2
  <2> QED BY <2>2, <2>3, <2>4, <2>5
<1>3. ASSUME NEW i \in Ids \ ids, ids' = ids \union {i},
             WithContact(req[r].contact) = {},
             NameFree(req[r].name),
             profiles' = profiles \union
                           {[user_id |-> i, username |-> req[r].name]},
             \/ GoesOn(r, i) /\ UNCHANGED broken
             \/ End(r) /\ broken' = broken \union {i}
      PROVE  IInv'
  <2> DEFINE g == [user_id |-> i, username |-> req[r].name]
  <2>1. g \in Profile /\ g.user_id = i /\ g.username = req[r].name
    BY <1>1 DEF Profile
  <2> HIDE DEF g
  <2>2. profiles' = profiles \union {g}
    BY <1>3 DEF g
  <2>3. /\ req' \in [Requests -> Request]
        /\ \A q \in Requests : q # r => req'[q] = req[q]
        /\ \/ /\ req'[r].pc = "commit" /\ req'[r].id = i
              /\ req'[r].contact = req[r].contact /\ req'[r].name = req[r].name
              /\ req'[r].password = req[r].password
              /\ UNCHANGED broken
           \/ req'[r].pc = "idle" /\ broken' = broken \union {i}
    <3>1. CASE GoesOn(r, i) /\ UNCHANGED broken
      BY <1>1, <1>3, <3>1 DEF GoesOn, Request, Labels
    <3>2. CASE End(r) /\ broken' = broken \union {i}
      BY <3>2, EndFacts
    <3> QED BY <1>3, <3>1, <3>2
  <2>4. TypeOK'
    BY <1>1, <1>3, <2>1, <2>2, <2>3 DEF TypeOK
  <2>5. IdsInv'
    BY <1>1, <1>3, <2>1, <2>2 DEF IdsInv
  <2>6. KeysAreUnique'
    BY <1>1, <1>3, <2>1, <2>2 DEF KeysAreUnique, IdsInv, NameFree
  <2>7. EveryAccountHasProfile'
    BY <1>1, <2>2 DEF EveryAccountHasProfile
  <2>8. OrphansOnlyByFailure'
    <3>1. ASSUME NEW f \in profiles
          PROVE  \/ WithId(f.user_id)' # {} \/ f.user_id \in broken'
                 \/ \E q \in Requests : At(q, "commit")'
                                          /\ req'[q].id = f.user_id
      BY <1>1, <2>3 DEF OrphansOnlyByFailure
    <3>2. \/ i \in broken'
          \/ \E q \in Requests : At(q, "commit")' /\ req'[q].id = i
      BY <2>3
    <3> QED BY <2>1, <2>2, <3>1, <3>2 DEF OrphansOnlyByFailure
  <2>9. ASSUME NEW q \in Requests PROVE RequestInv(q)' /\ CommitInv(q)'
    <3>1. RequestInv(q)'
      BY <1>1, <2>3 DEF RequestInv
    <3>2. CASE q = r
      <4>1. CASE At(r, "commit")'
        <5>1. \A x \in users' : x.id # i /\ x.contact # req[r].contact
          BY <1>1, <1>3 DEF IdsInv, WithContact
        <5>2. /\ req'[r].id = i /\ req'[r].contact = req[r].contact
              /\ \E f \in profiles' : f.user_id = i
          BY <1>1, <2>1, <2>2, <2>3, <4>1
        <5>3. \A p \in Requests : p # r /\ At(p, "commit")' =>
                req'[p].id # i /\ req'[p].contact # req[r].contact
          BY <1>1, <1>3, <2>3 DEF CommitInv, Blocked
        <5> QED BY <1>3, <3>1, <3>2, <5>1, <5>2, <5>3 DEF CommitInv
      <4>2. CASE ~At(r, "commit")'
        BY <3>1, <3>2, <4>2 DEF CommitInv
      <4> QED BY <4>1, <4>2
    <3>3. CASE q # r
      <4>1. CASE At(q, "commit")
        <5>1. req[q].id # i /\ req[q].contact # req[r].contact
          BY <1>1, <1>3, <4>1 DEF CommitInv, Blocked
        <5>2. CommitInv(q)
          OBVIOUS
        <5> QED BY <1>1, <1>3, <2>2, <2>3, <3>1, <3>3, <4>1, <5>1, <5>2
                DEF CommitInv
      <4>2. CASE ~At(q, "commit")
        BY <2>3, <3>1, <3>3, <4>2 DEF CommitInv
      <4> QED BY <4>1, <4>2
    <3> QED BY <3>2, <3>3, <3>1
  <2> QED BY <2>4, <2>5, <2>6, <2>7, <2>8, <2>9
<1>4. CASE WithContact(req[r].contact) = {}
  <2>1. PICK i \in Ids \ ids : ids' = ids \union {i} /\ CallUserService(r, i)
    BY <1>4 DEF CreateUser, Call
  <2>2. ids' \in SUBSET Ids /\ ids \subseteq ids'
    BY <2>1 DEF TypeOK
  <2> QED BY <1>2, <1>3, <1>4, <2>1, <2>2 DEF CallUserService, CreateProfile
<1>5. CASE WithContact(req[r].contact) # {}
  BY <1>2, <1>5 DEF CreateUser, TypeOK
<1> QED BY <1>4, <1>5

\* The row of a registration is committed; its profile is there.
LEMMA CommitUserInv ==
  ASSUME IInv, NEW r \in Requests, CommitUser(r)
  PROVE  IInv'
<1> USE DEF IInv
<1> DEFINE phone == req[r].contact \in Phones
           x == [id |-> req[r].id, contact |-> req[r].contact,
                 password |-> req[r].password, verified |-> phone]
<1>1. /\ At(r, "commit") /\ users' = users \union {x}
      /\ UNCHANGED <<profiles, otp, mailed, ids, codes, history>>
      /\ req[r].id \in ids /\ WithId(req[r].id) = {}
      /\ WithContact(req[r].contact) = {}
      /\ req[r].contact \in Contacts /\ req[r].password \in Passwords
      /\ \E f \in profiles : f.user_id = req[r].id
      /\ \A q \in Requests : q # r /\ At(q, "commit") =>
           req[q].id # req[r].id /\ req[q].contact # req[r].contact
  BY DEF CommitUser, RequestInv, CommitInv
<1>2. x \in User /\ x.id = req[r].id /\ x.contact = req[r].contact
  BY <1>1 DEF TypeOK, User
<1>3. /\ req' \in [Requests -> Request]
      /\ \A q \in Requests : q # r => req'[q] = req[q]
      /\ \/ req'[r].pc = "idle"
         \/ req'[r].pc = "otp" /\ req'[r].id = req[r].id
  <2>1. CASE End(r)
    BY <2>1, EndFacts
  <2>2. CASE Goto(r, "otp")
    <3>1. "otp" \in Labels
      BY DEF Labels
    <3> QED BY <2>2, <3>1, GotoFacts
  <2> QED BY <2>1, <2>2 DEF CommitUser
<1> HIDE DEF x
<1>4. TypeOK'
  BY <1>1, <1>2, <1>3 DEF TypeOK
<1>5. IdsInv' /\ KeysAreUnique' /\ EveryAccountHasProfile'
  BY <1>1, <1>2 DEF IdsInv, KeysAreUnique, EveryAccountHasProfile
<1>6. OrphansOnlyByFailure'
  <2>1. ASSUME NEW f \in profiles
        PROVE  \/ WithId(f.user_id)' # {} \/ f.user_id \in broken
               \/ \E q \in Requests : At(q, "commit")'
                                        /\ req'[q].id = f.user_id
    <3>1. CASE f.user_id = req[r].id
      <4>1. x \in WithId(f.user_id)'
        BY <1>1, <1>2, <3>1
      <4> QED BY <4>1
    <3>2. CASE f.user_id # req[r].id
      BY <1>1, <1>3, <3>2 DEF OrphansOnlyByFailure
    <3> QED BY <3>1, <3>2
  <2> QED BY <1>1, <2>1 DEF OrphansOnlyByFailure
<1>7. ASSUME NEW q \in Requests PROVE RequestInv(q)' /\ CommitInv(q)'
  <2>1. RequestInv(q)'
    BY <1>1, <1>3 DEF RequestInv, TypeOK
  <2>2. CASE q = r
    BY <1>3, <2>1, <2>2 DEF CommitInv
  <2>3. CASE q # r
    BY <1>1, <1>2, <1>3, <2>1, <2>3 DEF CommitInv
  <2> QED BY <2>2, <2>3
<1> QED BY <1>4, <1>5, <1>6, <1>7

\* UPDATE of the row of an account: of its password, or that it is verified.
LEMMA UpdateFacts ==
  ASSUME IInv, NEW r \in Requests, OverwritePassword(r) \/ VerifyEmail(r)
  PROVE  SameAccounts
<1>1. users \subseteq User /\ KeysAreUnique
  BY DEF IInv, TypeOK
<1>2. CASE OverwritePassword(r)
  <2> DEFINE p == req[r].password
             new(x) == IF x.id = req[r].id THEN [x EXCEPT !.password = p] ELSE x
  <2>1. users' = {new(x) : x \in users} /\ p \in Passwords
    BY <1>2 DEF OverwritePassword, NewPassword, IInv, RequestInv
  <2>2. ASSUME NEW x \in users
        PROVE  /\ new(x) \in User /\ new(x).id = x.id
               /\ new(x).contact = x.contact /\ new(x).verified = x.verified
    <3>1. x \in User
      BY <1>1
    <3> QED BY <2>1, <3>1 DEF User
  <2> HIDE DEF new
  <2> QED BY <1>1, <2>1, <2>2 DEF SameAccounts, KeysAreUnique
<1>3. CASE VerifyEmail(r)
  <2> DEFINE new(x) == IF x.id = req[r].id THEN [x EXCEPT !.verified = TRUE]
                                           ELSE x
  <2>1. users' = {new(x) : x \in users}
    BY <1>3 DEF VerifyEmail
  <2>2. ASSUME NEW x \in users
        PROVE  /\ new(x) \in User /\ new(x).id = x.id
               /\ new(x).contact = x.contact
               /\ x.verified => new(x).verified
    <3>1. x \in User
      BY <1>1
    <3> QED BY <3>1 DEF User
  <2> HIDE DEF new
  <2> QED BY <1>1, <2>1, <2>2 DEF SameAccounts, KeysAreUnique
<1> QED BY <1>2, <1>3

\* Such an update keeps the invariant.
LEMMA UpdateInv ==
  ASSUME IInv, NEW r \in Requests, OverwritePassword(r) \/ VerifyEmail(r)
  PROVE  IInv'
<1>1. SameAccounts
  BY UpdateFacts
<1>2. PICK l \in {"otp", "clean"} : Goto(r, l)
  BY DEF OverwritePassword, VerifyEmail
<1>3. /\ UNCHANGED <<profiles, otp, mailed, ids, codes, history>>
      /\ ~At(r, "commit") /\ req[r].id \in Ids /\ TypeOK
  BY DEF OverwritePassword, VerifyEmail, IInv, RequestInv
<1>4. l \in Labels
  BY DEF Labels
<1>5. /\ req' \in [Requests -> Request]
      /\ req'[r].pc = l /\ req'[r].id = req[r].id
      /\ \A q \in Requests : q # r => req'[q] = req[q]
  BY <1>2, <1>3, <1>4, GotoFacts
<1>6. TypeOK'
  BY <1>1, <1>3, <1>5 DEF TypeOK, SameAccounts
<1>7. RequestInv(r)'
  BY <1>3, <1>5 DEF RequestInv
<1> QED BY <1>1, <1>3, <1>5, <1>6, <1>7, LocalStep

\* A profile takes a free name, and stays the profile of its account.
LEMMA RenameInv ==
  ASSUME IInv, NEW r \in Requests, Rename(r)
  PROVE  IInv'
<1> USE DEF IInv
<1>1. /\ At(r, "rename") /\ End(r) /\ req[r].name \in Names
      /\ UNCHANGED <<users, otp, mailed, ids, codes, history>>
      /\ profiles \subseteq Profile
  BY DEF Rename, RequestInv, TypeOK
<1>2. /\ req' \in [Requests -> Request] /\ req'[r].pc = "idle"
      /\ \A q \in Requests : q # r => req'[q] = req[q]
  BY <1>1, EndFacts
<1>3. CASE ~NameFree(req[r].name)
  <2>1. UNCHANGED profiles
    BY <1>3 DEF Rename
  <2>2. TypeOK'
    BY <1>1, <1>2, <2>1 DEF TypeOK
  <2> QED BY <1>1, <1>2, <2>1, <2>2, UsersUnchanged, LocalStep DEF RequestInv
<1>4. CASE NameFree(req[r].name)
  <2> DEFINE n == req[r].name
             new(f) == IF f.user_id = req[r].id THEN [f EXCEPT !.username = n]
                                                ELSE f
  <2>1. profiles' = {new(f) : f \in profiles}
    BY <1>4 DEF Rename
  <2>2. ASSUME NEW f \in profiles
        PROVE  /\ new(f) \in Profile /\ new(f).user_id = f.user_id
               /\ new(f).username = (IF f.user_id = req[r].id THEN n
                                                              ELSE f.username)
    <3>1. f \in Profile
      BY <1>1
    <3> QED BY <1>1, <3>1 DEF Profile
  <2>3. \A f \in profiles : f.username # n
    BY <1>4 DEF NameFree
  <2> HIDE DEF new
  <2>4. TypeOK'
    BY <1>1, <1>2, <2>1, <2>2 DEF TypeOK
  <2>5. IdsInv' /\ EveryAccountHasProfile'
    BY <1>1, <2>1, <2>2 DEF IdsInv, EveryAccountHasProfile
  <2>6. KeysAreUnique'
    <3>1. ASSUME NEW f \in profiles, NEW g \in profiles,
                 \/ new(f).user_id = new(g).user_id
                 \/ new(f).username = new(g).username
          PROVE  new(f) = new(g)
      <4>1. f = g
        BY <2>2, <2>3, <3>1 DEF KeysAreUnique
      <4> QED BY <4>1
    <3> QED BY <1>1, <2>1, <3>1 DEF KeysAreUnique
  <2>7. OrphansOnlyByFailure'
    BY <1>1, <1>2, <2>1, <2>2 DEF OrphansOnlyByFailure
  <2>8. ASSUME NEW q \in Requests PROVE RequestInv(q)' /\ CommitInv(q)'
    <3>1. RequestInv(q)'
      BY <1>2 DEF RequestInv
    <3>2. CommitInv(q)'
      BY <1>1, <1>2, <2>1, <2>2 DEF CommitInv
    <3> QED BY <3>1, <3>2
  <2> QED BY <2>4, <2>5, <2>6, <2>7, <2>8
<1> QED BY <1>3, <1>4

\* A registration that fails before its commit leaves its profile behind.
LEMMA FailInv ==
  ASSUME IInv, NEW r \in Requests, Fail(r)
  PROVE  IInv'
<1> USE DEF IInv
<1>1. /\ UNCHANGED <<users, profiles, otp, mailed, ids, codes>>
      /\ broken' = IF At(r, "commit") THEN broken \union {req[r].id} ELSE broken
      /\ At(r, "commit") => req[r].id \in ids
      /\ unsent' \in SUBSET Ids
  BY DEF Fail, CommitInv, Brings, RequestInv, TypeOK
<1>2. /\ req' \in [Requests -> Request] /\ req'[r].pc = "idle"
      /\ \A q \in Requests : q # r => req'[q] = req[q]
  BY EndFacts DEF Fail
<1>3. TypeOK'
  BY <1>1, <1>2 DEF TypeOK
<1>4. IdsInv' /\ KeysAreUnique' /\ EveryAccountHasProfile'
  BY <1>1 DEF IdsInv, KeysAreUnique, EveryAccountHasProfile
<1>5. OrphansOnlyByFailure'
  BY <1>1, <1>2 DEF OrphansOnlyByFailure
<1>6. ASSUME NEW q \in Requests PROVE RequestInv(q)' /\ CommitInv(q)'
  <2>1. RequestInv(q)'
    BY <1>2 DEF RequestInv
  <2>2. CommitInv(q)'
    BY <1>1, <1>2 DEF CommitInv
  <2> QED BY <2>1, <2>2
<1> QED BY <1>3, <1>4, <1>5, <1>6

\* A code that expires changes no account.
LEMMA OtpExpiresInv ==
  ASSUME IInv, NEW i \in Ids, OtpExpires(i)
  PROVE  IInv'
BY DEF OtpExpires, IInv, TypeOK, IdsInv, KeysAreUnique, EveryAccountHasProfile,
       OrphansOnlyByFailure, RequestInv, CommitInv

-----------------------------------------------------------------------------
(* Theorems *)

\* Accounts, profiles and running registrations fit together in every state.
THEOREM Invariance == Spec => []IInv
<1>1. Init => IInv
  BY DEF Init, IInv, TypeOK, IdsInv, KeysAreUnique, EveryAccountHasProfile,
         OrphansOnlyByFailure, RequestInv, CommitInv, Idle, Request, Labels
<1>2. IInv /\ [Next]_vars => IInv'
  <2> SUFFICES ASSUME IInv, [Next]_vars PROVE IInv'
    OBVIOUS
  <2>1. CASE UNCHANGED vars
    BY <2>1 DEF vars, IInv, TypeOK, IdsInv, KeysAreUnique,
                EveryAccountHasProfile, OrphansOnlyByFailure, RequestInv,
                CommitInv
  <2>2. CASE Next
    BY <2>2, StartInv, CodeInv, CreateUserInv, CommitUserInv, UpdateInv,
       RenameInv, FailInv, OtpExpiresInv DEF Next
  <2> QED BY <2>1, <2>2
<1> QED BY <1>1, <1>2, PTL DEF Spec

\* Ids, emails, phones and usernames stay unique, however registrations and
\* renames overlap.
THEOREM RowsCorrect == Spec => []RowsAreSound
<1>1. IInv => RowsAreSound
  BY DEF IInv, RowsAreSound
<1> QED BY <1>1, Invariance, PTL

\* Every account has its profile, and a profile without account is a failure's.
THEOREM ServicesAgree == Spec => []AccountsMatchProfiles
<1>1. IInv => AccountsMatchProfiles
  BY DEF IInv, AccountsMatchProfiles
<1> QED BY <1>1, Invariance, PTL

\* No registration makes a verified account unverified, and none removes it.
THEOREM VerifiedForGood == Spec => VerifiedStaysVerified
<1> DEFINE Keeps == \A x \in users : x.verified =>
                      \E y \in users' : y.id = x.id /\ y.verified
<1>1. IInv /\ [Next]_vars => Keeps
  <2> SUFFICES ASSUME IInv, [Next]_vars PROVE Keeps
    OBVIOUS
  <2>1. ASSUME users \subseteq users' PROVE Keeps
    BY <2>1
  <2>2. CASE UNCHANGED users
    BY <2>1, <2>2
  <2>3. ASSUME NEW r \in Requests, CommitUser(r) PROVE Keeps
    BY <2>1, <2>3 DEF CommitUser
  <2>4. ASSUME NEW r \in Requests, OverwritePassword(r) \/ VerifyEmail(r)
        PROVE  Keeps
    BY <2>4, UpdateFacts DEF SameAccounts
  <2> HIDE DEF Keeps
  <2> QED BY <2>2, <2>3, <2>4
          DEF Next, vars, RegisterStart, CreateUser, SetOtp, PublishRegistered,
              ResendStart, VerifyStart, CheckOtp, DeleteOtp, RenameStart,
              Rename, Fail, OtpExpires
<1> QED BY <1>1, Invariance, PTL DEF Spec, VerifiedStaysVerified

-----------------------------------------------------------------------------
(* The codes of those who have yet to verify their email *)

\* A request that writes to an account, or brings or checks its code, is of an
\* account there is; one that cleans up is of a verified one.
Known == {"overwrite", "otp", "mail", "check", "verify"}
KnownInv(r) ==
  /\ req[r].pc \in Known => WithId(req[r].id) # {}
  /\ At(r, "clean") => \E x \in WithId(req[r].id) : x.verified

\* The code of i is accounted for.
Served(i) ==
  \/ <<i, otp[i]>> \in mailed
  \/ \E r \in Requests : req[r].id = i /\ Brings(r)
  \/ i \in unsent

Waits(x) == x.contact \in Emails /\ ~x.verified

MInv ==
  /\ CodesAreMailed
  /\ \A i \in Ids : otp[i] # None => WithId(i) # {}
  /\ \A r \in Requests : KnownInv(r)

\* What CodesAreMailed says of each account.
LEMMA ServedIs == CodesAreMailed <=> \A x \in users : Waits(x) => Served(x.id)
BY DEF CodesAreMailed, Waits, Served, Brings

\* A request that starts is of an account there is, if of any.
LEMMA StartKnown ==
  ASSUME IInv, NEW r \in Requests,
         \/ \E c \in Contacts, p \in Passwords, n \in Names :
              RegisterStart(r, c, p, n)
         \/ \E x \in users : ResendStart(r, x)
         \/ \E link \in mailed : VerifyStart(r, link)
         \/ \E f \in profiles, n \in Names : RenameStart(r, f, n)
  PROVE  /\ UNCHANGED <<users, otp, mailed, unsent>> /\ At(r, "idle")
         /\ \A q \in Requests : q # r => req'[q] = req[q]
         /\ KnownInv(r)'
<1> USE DEF KnownInv, Known
<1>1. req \in [Requests -> Request]
  BY DEF IInv, TypeOK
<1>2. /\ UNCHANGED <<users, otp, mailed, unsent>> /\ At(r, "idle")
      /\ \A q \in Requests : q # r => req'[q] = req[q]
  BY <1>1 DEF RegisterStart, ResendStart, VerifyStart, RenameStart
<1>3. ASSUME NEW c \in Contacts, NEW p \in Passwords, NEW n \in Names,
             RegisterStart(r, c, p, n)
      PROVE  KnownInv(r)'
  <2>1. CASE req'[r].pc = "create"
    BY <2>1
  <2>2. CASE req'[r].pc = "overwrite"
    <3>1. \E x \in users : req'[r].id = x.id
      BY <1>1, <1>3, <2>2 DEF RegisterStart, Idle
    <3> QED BY <1>2, <2>2, <3>1
  <2>3. req'[r].pc \in {"create", "overwrite"}
    BY <1>1, <1>3 DEF RegisterStart, Idle
  <2> QED BY <2>1, <2>2, <2>3
<1>4. ASSUME NEW x \in users, ResendStart(r, x) PROVE KnownInv(r)'
  <2>1. req'[r].pc = "otp" /\ req'[r].id = x.id
    BY <1>1, <1>4 DEF ResendStart, Idle
  <2> QED BY <1>2, <2>1
<1>5. ASSUME NEW link \in mailed, VerifyStart(r, link) PROVE KnownInv(r)'
  <2>1. /\ req'[r].pc = "check" /\ req'[r].id = link[1]
        /\ WithId(link[1]) # {}
    BY <1>1, <1>5 DEF VerifyStart, Idle
  <2> QED BY <1>2, <2>1
<1>6. ASSUME NEW f \in profiles, NEW n \in Names, RenameStart(r, f, n)
      PROVE  KnownInv(r)'
  <2>1. req'[r].pc = "rename"
    BY <1>1, <1>6 DEF RenameStart, Idle
  <2> QED BY <2>1
<1> QED BY <1>2, <1>3, <1>4, <1>5, <1>6

\* When accounts stay what they are, whoever waits has waited before.
LEMMA WaitedBefore ==
  ASSUME IInv, SameAccounts, NEW y \in users', Waits(y)
  PROVE  \E x \in users : x.id = y.id /\ Waits(x)
<1>1. PICK x \in users : y.id = x.id /\ y.contact = x.contact
  BY DEF SameAccounts
<1>2. PICK z \in users' : z.id = x.id /\ (x.verified => z.verified)
  BY DEF SameAccounts
<1>3. z = y
  BY <1>1, <1>2 DEF SameAccounts
<1> QED BY <1>1, <1>2, <1>3 DEF Waits

\* A step of r that brings no account and forgets no code keeps the invariant.
LEMMA CodesStay ==
  ASSUME IInv, MInv, SameAccounts, NEW r \in Requests,
         \A q \in Requests : q # r => req'[q] = req[q],
         mailed \subseteq mailed',
         \A i \in Ids : req[r].id = i /\ Brings(r) => Served(i)',
         \A i \in Ids : \/ UNCHANGED otp[i] /\ (i \in unsent => i \in unsent')
                        \/ Served(i)' /\ WithId(i) # {}
                        \/ \E x \in WithId(i) : x.verified,
         KnownInv(r)'
  PROVE  MInv'
<1>1. users \subseteq User /\ \A x, y \in users : x.id = y.id => x = y
  BY DEF IInv, TypeOK, KeysAreUnique
<1>2. ASSUME NEW y \in users', Waits(y) PROVE Served(y.id)'
  <2>1. PICK x \in users : x.id = y.id /\ Waits(x)
    BY <1>2, WaitedBefore
  <2>2. x.id \in Ids /\ Served(x.id) /\ ~ \E w \in WithId(x.id) : w.verified
    BY <1>1, <2>1, ServedIs DEF MInv, User, Waits
  <2>3. CASE Served(x.id)'
    BY <2>1, <2>3
  <2>4. CASE UNCHANGED otp[x.id] /\ (x.id \in unsent => x.id \in unsent')
    <3>1. CASE \E q \in Requests : req[q].id = x.id /\ Brings(q)
      <4>1. PICK q \in Requests : req[q].id = x.id /\ Brings(q)
        BY <3>1
      <4>2. CASE q = r
        BY <2>1, <2>2, <4>1, <4>2
      <4>3. CASE q # r
        <5>1. req'[q].id = x.id /\ Brings(q)'
          BY <2>4, <4>1, <4>3 DEF Brings
        <5> QED BY <2>1, <5>1 DEF Served
      <4> QED BY <4>2, <4>3
    <3>2. CASE <<x.id, otp[x.id]>> \in mailed \/ x.id \in unsent
      BY <2>1, <2>4, <3>2 DEF Served
    <3> QED BY <2>2, <3>1, <3>2 DEF Served
  <2> QED BY <2>2, <2>3, <2>4
<1>3. CodesAreMailed'
  <2>1. (CodesAreMailed <=> \A x \in users : Waits(x) => Served(x.id))'
    BY DEF CodesAreMailed, Waits, Served, Brings
  <2>2. \A x \in users' : Waits(x)' => Waits(x)
    BY DEF Waits
  <2> QED BY <1>2, <2>1, <2>2
<1>4. \A i : WithId(i) # {} => WithId(i)' # {}
  BY DEF SameAccounts
<1>5. ASSUME NEW q \in Requests PROVE KnownInv(q)'
  <2>1. CASE q = r
    BY <2>1
  <2>2. CASE q # r
    BY <1>1, <1>4, <2>2 DEF MInv, KnownInv, SameAccounts
  <2> QED BY <2>1, <2>2
<1>6. ASSUME NEW i \in Ids, otp'[i] # None PROVE WithId(i)' # {}
  BY <1>4, <1>6 DEF MInv
<1> QED BY <1>3, <1>5, <1>6 DEF MInv

\* An account that is new waits for the code its registration is to store.
LEMMA CommitCodes ==
  ASSUME IInv, MInv, NEW r \in Requests, CommitUser(r)
  PROVE  MInv'
<1> DEFINE phone == req[r].contact \in Phones
<1>1. PICK x : x = [id |-> req[r].id, contact |-> req[r].contact,
                    password |-> req[r].password, verified |-> phone]
  OBVIOUS
<1>2. /\ At(r, "commit") /\ users' = users \union {x}
      /\ UNCHANGED <<otp, mailed, unsent>>
      /\ IF phone THEN End(r) ELSE Goto(r, "otp")
      /\ TypeOK /\ "otp" \in Labels
  BY <1>1 DEF CommitUser, IInv, Labels
<1>3. /\ \A q \in Requests : q # r => req'[q] = req[q]
      /\ ~phone => req'[r].pc = "otp" /\ req'[r].id = req[r].id
      /\ phone => req'[r].pc = "idle"
  BY <1>2, EndFacts, GotoFacts
<1>4. /\ x \in User /\ WithId(req[r].id) = {} /\ req[r].id \in Ids
      /\ otp[req[r].id] = None
  <2>1. WithId(req[r].id) = {} /\ req[r].id \in ids
    BY <1>2 DEF IInv, CommitInv
  <2>2. users' \subseteq User /\ req[r].id \in Ids
    BY <1>2, <2>1, CommitUserInv DEF IInv, TypeOK
  <2> QED BY <1>2, <2>1, <2>2 DEF MInv
<1>5. ASSUME NEW i, Served(i), WithId(i) # {} PROVE Served(i)'
  <2>1. i # req[r].id
    BY <1>4, <1>5
  <2> QED BY <1>2, <1>3, <1>5, <2>1 DEF Served, Brings
<1>6. ASSUME Waits(x) PROVE Served(x.id)'
  <2>1. req'[r].pc = "otp" /\ req'[r].id = req[r].id
    BY <1>1, <1>3, <1>6 DEF Waits
  <2>2. otp'[req'[r].id] = None
    BY <1>2, <1>4, <2>1
  <2>3. Brings(r)'
    BY <2>1, <2>2 DEF Brings
  <2> QED BY <1>1, <2>1, <2>3 DEF Served
<1>7. CodesAreMailed'
  <2>1. (CodesAreMailed <=> \A y \in users : Waits(y) => Served(y.id))'
    BY DEF CodesAreMailed, Waits, Served, Brings
  <2>2. \A y \in users' : Waits(y)' => Waits(y)
    BY DEF Waits
  <2>3. ASSUME NEW y \in users', Waits(y) PROVE Served(y.id)'
    <3>1. CASE y = x
      BY <1>6, <2>3, <3>1
    <3>2. CASE y # x
      <4>1. y \in users
        BY <1>2, <3>2
      <4>2. Served(y.id)
        BY <2>3, <4>1, ServedIs DEF MInv
      <4>3. WithId(y.id) # {}
        BY <4>1
      <4> QED BY <1>5, <4>2, <4>3
    <3> QED BY <3>1, <3>2
  <2> QED BY <2>1, <2>2, <2>3
<1>8. /\ \A i : WithId(i) \subseteq WithId(i)'
      /\ x \in {y \in users' : y.id = req[r].id}
  <2>1. users \subseteq users' /\ x \in users'
    BY <1>2
  <2> QED BY <1>1, <2>1
<1>9. ASSUME NEW q \in Requests PROVE KnownInv(q)'
  <2>1. CASE q = r
    BY <1>1, <1>3, <1>8, <2>1 DEF KnownInv, Known
  <2>2. CASE q # r
    BY <1>3, <1>8, <2>2 DEF MInv, KnownInv, Known
  <2> QED BY <2>1, <2>2
<1>10. \A i \in Ids : otp'[i] # None => WithId(i)' # {}
  BY <1>2, <1>8 DEF MInv
<1> QED BY <1>7, <1>9, <1>10 DEF MInv

\* No step takes the code from somebody who waits, without mail and excuse.
LEMMA CodesStep ==
  ASSUME IInv, MInv, [Next]_vars
  PROVE  MInv'
<1>1. CASE UNCHANGED vars
  BY <1>1 DEF vars, MInv, CodesAreMailed, Brings, KnownInv
<1>2. ASSUME NEW r \in Requests,
             \/ \E c \in Contacts, p \in Passwords, n \in Names :
                  RegisterStart(r, c, p, n)
             \/ \E x \in users : ResendStart(r, x)
             \/ \E link \in mailed : VerifyStart(r, link)
             \/ \E f \in profiles, n \in Names : RenameStart(r, f, n)
      PROVE  MInv'
  BY <1>2, StartKnown, UsersUnchanged, CodesStay DEF Brings
<1>3. ASSUME NEW r \in Requests, SetOtp(r) PROVE MInv'
  <2>1. PICK k \in Codes : /\ otp' = [otp EXCEPT ![req[r].id] = k]
                           /\ req' = [req EXCEPT ![r].pc = "mail",
                                                 ![r].code = k]
    BY <1>3 DEF SetOtp, Replaced
  <2>2. /\ At(r, "otp") /\ req[r].id \in Ids /\ req[r] \in Request
        /\ req \in [Requests -> Request] /\ otp \in [Ids -> Codes \union {None}]
        /\ UNCHANGED <<users, mailed>> /\ unsent' = unsent \ {req[r].id}
        /\ WithId(req[r].id) # {}
    BY <1>3 DEF SetOtp, IInv, RequestInv, TypeOK, MInv, KnownInv, Known
  <2>3. /\ req'[r].pc = "mail" /\ req'[r].id = req[r].id /\ req'[r].code = k
        /\ \A q \in Requests : q # r => req'[q] = req[q]
    BY <2>1, <2>2 DEF Request
  <2>4. /\ Brings(r)'
        /\ \A i \in Ids : i = req[r].id => Served(i)'
    <3>1. otp'[req'[r].id] = k
      BY <2>1, <2>2, <2>3
    <3>2. Brings(r)'
      BY <2>3, <3>1 DEF Brings
    <3> QED BY <2>3, <3>2 DEF Served
  <2>5. KnownInv(r)'
    BY <2>2, <2>3 DEF KnownInv
  <2>6. \A i \in Ids : i # req[r].id =>
          UNCHANGED otp[i] /\ (i \in unsent => i \in unsent')
    BY <2>1, <2>2
  <2> QED BY <2>2, <2>3, <2>4, <2>5, <2>6, UsersUnchanged, CodesStay
<1>4. ASSUME NEW r \in Requests, PublishRegistered(r) PROVE MInv'
  <2>1. /\ At(r, "mail") /\ UNCHANGED <<users, otp, unsent>>
        /\ mailed' = mailed \union {<<req[r].id, req[r].code>>}
        /\ req'[r].pc = "idle" /\ \A q \in Requests : q # r => req'[q] = req[q]
    BY <1>4, EndFacts DEF PublishRegistered, IInv
  <2>2. ASSUME NEW i \in Ids, req[r].id = i, Brings(r) PROVE Served(i)'
    <3>1. otp[i] = req[r].code
      BY <2>1, <2>2 DEF Brings
    <3>2. <<i, otp'[i]>> \in mailed'
      BY <2>1, <2>2, <3>1
    <3> QED BY <3>2 DEF Served
  <2>3. KnownInv(r)'
    BY <2>1 DEF KnownInv, Known
  <2> QED BY <2>1, <2>2, <2>3, UsersUnchanged, CodesStay
<1>5. ASSUME NEW r \in Requests, CheckOtp(r) PROVE MInv'
  <2>1. /\ At(r, "check") /\ UNCHANGED <<users, otp, mailed, unsent>>
        /\ \A q \in Requests : q # r => req'[q] = req[q]
        /\ req'[r].pc = "idle" \/ (req'[r].pc = "verify"
                                     /\ req'[r].id = req[r].id)
    <3>1. "verify" \in Labels
      BY DEF Labels
    <3> QED BY <1>5, <3>1, EndFacts, GotoFacts DEF CheckOtp, IInv
  <2>2. KnownInv(r)'
    BY <2>1 DEF MInv, KnownInv, Known
  <2> QED BY <2>1, <2>2, UsersUnchanged, CodesStay DEF Brings
<1>6. ASSUME NEW r \in Requests, DeleteOtp(r) PROVE MInv'
  <2>1. /\ At(r, "clean") /\ UNCHANGED <<users, mailed, unsent>>
        /\ otp' = [otp EXCEPT ![req[r].id] = None]
        /\ req'[r].pc = "idle" /\ \A q \in Requests : q # r => req'[q] = req[q]
        /\ otp \in [Ids -> Codes \union {None}]
    BY <1>6, EndFacts DEF DeleteOtp, IInv, TypeOK
  <2>2. \E x \in WithId(req[r].id) : x.verified
    BY <2>1 DEF MInv, KnownInv
  <2>3. KnownInv(r)'
    BY <2>1 DEF KnownInv, Known
  <2>4. \A i \in Ids : i # req[r].id => UNCHANGED otp[i]
    BY <2>1
  <2> QED BY <2>1, <2>2, <2>3, <2>4, UsersUnchanged, CodesStay DEF Brings
<1>7. ASSUME NEW r \in Requests, CreateUser(r) \/ Rename(r) PROVE MInv'
  <2>1. /\ UNCHANGED <<users, otp, mailed, unsent>> /\ ~Brings(r)
        /\ \A q \in Requests : q # r => req'[q] = req[q]
        /\ req'[r].pc \in {"idle", "commit"}
    <3>1. req \in [Requests -> Request]
      BY DEF IInv, TypeOK
    <3>2. CASE End(r)
      BY <1>7, <3>2, EndFacts DEF CreateUser, Rename, Brings, IInv
    <3>3. ASSUME NEW i, GoesOn(r, i)
          PROVE  /\ \A q \in Requests : q # r => req'[q] = req[q]
                 /\ req'[r].pc = "commit"
      BY <3>1, <3>3 DEF GoesOn
    <3>4. End(r) \/ \E i : GoesOn(r, i)
      BY <1>7 DEF CreateUser, Rename, Call, CallUserService
    <3> QED BY <1>7, <3>2, <3>3, <3>4 DEF CreateUser, Rename, Brings
  <2>2. KnownInv(r)'
    BY <2>1 DEF KnownInv, Known
  <2> QED BY <2>1, <2>2, UsersUnchanged, CodesStay
<1>8. ASSUME NEW r \in Requests, OverwritePassword(r) \/ VerifyEmail(r)
      PROVE  MInv'
  <2>1. /\ SameAccounts /\ UNCHANGED <<otp, mailed, unsent>> /\ ~Brings(r)
    BY <1>8, UpdateFacts DEF OverwritePassword, VerifyEmail, Brings
  <2>2. /\ \A q \in Requests : q # r => req'[q] = req[q]
        /\ req'[r].id = req[r].id
        /\ IF At(r, "verify") THEN req'[r].pc = "clean" ELSE req'[r].pc = "otp"
    <3>1. "otp" \in Labels /\ "clean" \in Labels
      BY DEF Labels
    <3> QED BY <1>8, <3>1, GotoFacts DEF OverwritePassword, VerifyEmail, IInv
  <2>3. WithId(req[r].id) # {} /\ WithId(req[r].id)' # {}
    <3>1. WithId(req[r].id) # {}
      BY <1>8 DEF MInv, KnownInv, Known, OverwritePassword, VerifyEmail
    <3>2. \E y \in users' : y.id = req[r].id
      BY <2>1, <3>1 DEF SameAccounts
    <3> QED BY <2>2, <3>1, <3>2
  <2>4. KnownInv(r)'
    <3>1. CASE OverwritePassword(r)
      BY <2>2, <2>3, <3>1 DEF OverwritePassword, KnownInv
    <3>2. CASE VerifyEmail(r)
      <4>1. PICK x \in users : x.id = req[r].id
        BY <2>3
      <4>2. users' = {IF y.id = req[r].id THEN [y EXCEPT !.verified = TRUE]
                                          ELSE y : y \in users}
        BY <3>2 DEF VerifyEmail
      <4>3. [x EXCEPT !.verified = TRUE] \in users' /\ x \in User
        BY <4>1, <4>2 DEF IInv, TypeOK
      <4>4. /\ [x EXCEPT !.verified = TRUE].id = req[r].id
            /\ [x EXCEPT !.verified = TRUE].verified
        BY <4>1, <4>3 DEF User
      <4> QED BY <2>2, <3>2, <4>3, <4>4 DEF VerifyEmail, KnownInv, Known
    <3> QED BY <1>8, <3>1, <3>2
  <2> QED BY <2>1, <2>2, <2>4, CodesStay
<1>9. ASSUME NEW r \in Requests, Fail(r) PROVE MInv'
  <2>1. /\ UNCHANGED <<users, otp, mailed>> /\ unsent \subseteq unsent'
        /\ Brings(r) => req[r].id \in unsent'
        /\ req'[r].pc = "idle" /\ \A q \in Requests : q # r => req'[q] = req[q]
    BY <1>9, EndFacts DEF Fail, IInv
  <2>2. KnownInv(r)'
    BY <2>1 DEF KnownInv, Known
  <2>3. ASSUME NEW i \in Ids, req[r].id = i, Brings(r) PROVE Served(i)'
    BY <2>1, <2>3 DEF Served
  <2> QED BY <2>1, <2>2, <2>3, UsersUnchanged, CodesStay
<1>10. ASSUME NEW i \in Ids, OtpExpires(i) PROVE MInv'
  <2>1. /\ UNCHANGED <<users, mailed, req>> /\ otp' = [otp EXCEPT ![i] = None]
        /\ unsent' = unsent \union {i} /\ otp \in [Ids -> Codes \union {None}]
    BY <1>10 DEF OtpExpires, IInv, TypeOK
  <2>2. ASSUME NEW x \in users, Waits(x) PROVE Served(x.id)'
    <3>1. Served(x.id) /\ x.id \in Ids
      BY <2>2, ServedIs DEF MInv, IInv, TypeOK, User
    <3>2. CASE x.id = i
      BY <2>1, <3>2 DEF Served
    <3>3. CASE x.id # i
      BY <2>1, <3>1, <3>3 DEF Served, Brings
    <3> QED BY <3>2, <3>3
  <2>3. CodesAreMailed'
    <3>1. (CodesAreMailed <=> \A x \in users : Waits(x) => Served(x.id))'
      BY DEF CodesAreMailed, Waits, Served, Brings
    <3>2. \A x \in users : Waits(x)' => Waits(x)
      BY DEF Waits
    <3> QED BY <2>1, <2>2, <3>1, <3>2
  <2> QED BY <2>1, <2>3 DEF MInv, KnownInv
<1> QED BY <1>1, <1>2, <1>3, <1>4, <1>5, <1>6, <1>7, <1>8, <1>9, <1>10,
           CommitCodes DEF Next

\* Who waits for a verification was sent the code that counts, whatever order
\* codes and mails overtook each other in, unless it expired or a request that
\* was to bring it is not through, or failed.
THEOREM CodesCorrect == Spec => []CodesAreMailed
<1>1. Init => MInv
  BY DEF Init, MInv, CodesAreMailed, KnownInv, Known, Idle
<1>2. MInv => CodesAreMailed
  BY DEF MInv
<1> QED BY <1>1, <1>2, CodesStep, Invariance, PTL DEF Spec

-----------------------------------------------------------------------------
(* The password of one account and its history: PasswordHistory            *)

HIDE AccountAssumption DEF At, Contacts, WithId, WithContact, history
USE ChangersAssumption

\* What a request is to delete are the rows from some place on, and not the two
\* latest.
MarksInv(r) ==
  \E n \in 0..Len(rows) :
    /\ n >= 2 \/ n = Len(rows)
    /\ \A i \in DOMAIN rows : i <= n <=> r \notin rows[i].doomed

\* The resets that will leave m rows or more beside two and their own: of these
\* there are fewer the larger m is, as each was overtaken by one that is not.
Leaving(m) == {r \in Changers : Doing(r, "reset") /\ Spared(r) >= m + 2}

BoundInv ==
  /\ Len(rows) <= 2 + Cardinality(Changers)
  /\ \A m \in 0..Cardinality(Changers) :
       Cardinality(Leaving(m)) <= Cardinality(Changers) - m

\* A recorded password has its row, no further back than it is itself.
RecordedInv ==
  \A n \in DOMAIN last : last[n].recorded =>
    \E i \in DOMAIN rows : i <= n /\ rows[i].password = last[n].password

\* Until it is overtaken a reset is about to set a new password.
FreshInv(r) ==
  Doing(r, "reset") /\ ~changes[r].raced =>
    \A n \in DOMAIN last : last[n].recorded => last[n].password # changes[r].new

HInv ==
  /\ HistoryTypeOK
  /\ BoundInv
  /\ RecordedInv
  /\ \A r \in Changers : MarksInv(r) /\ FreshInv(r)

\* A sequence cut to its first elements.
LEMMA FirstIs ==
  ASSUME NEW S, NEW s \in Seq(S), NEW n \in Nat
  PROVE  /\ First(n, s) \in Seq(S)
         /\ Len(First(n, s)) \in 0..n /\ Len(First(n, s)) <= Len(s)
         /\ Len(First(n, s)) = n \/ Len(First(n, s)) = Len(s)
         /\ \A i \in 1..Len(First(n, s)) : First(n, s)[i] = s[i]
<1>1. Len(s) \in Nat
  OBVIOUS
<1> PICK k \in Nat : k = IF Len(s) < n THEN Len(s) ELSE n
  BY <1>1
<1>2. First(n, s) = SubSeq(s, 1, k)
  BY DEF First
<1>3. k <= Len(s)
  BY <1>1
<1> QED BY <1>1, <1>2, <1>3

\* A row among the first three has its password among theirs.
LEMMA InFirstThree ==
  ASSUME NEW s \in Seq(Row), NEW n \in 1..3, NEW i \in DOMAIN s, i <= n
  PROVE  s[i].password \in PasswordsIn(First(3, s))
<1>1. PICK t \in Seq(Row) :
        /\ t = First(3, s)
        /\ Len(t) = 3 \/ Len(t) = Len(s)
        /\ \A j \in 1..Len(t) : t[j] = s[j]
  <2> DEFINE u == First(3, s)
  <2>1. /\ u \in Seq(Row)
        /\ Len(u) = 3 \/ Len(u) = Len(s)
        /\ \A j \in 1..Len(u) : u[j] = s[j]
    BY FirstIs, 3 \in Nat
  <2> HIDE DEF u
  <2> QED BY <2>1 DEF u
<1>2. i \in 1..Len(s) /\ i <= 3
  OBVIOUS
<1>3. i \in 1..Len(t)
  <2>1. CASE Len(t) = 3
    BY <1>2, <2>1
  <2>2. CASE Len(t) = Len(s)
    BY <1>2, <2>2
  <2> QED BY <1>1, <2>1, <2>2
<1> QED BY <1>1, <1>3 DEF PasswordsIn

\* A sequence with a new first element.
LEMMA PushIs ==
  ASSUME NEW S, NEW s \in Seq(S), NEW x \in S
  PROVE  /\ <<x>> \o s \in Seq(S)
         /\ Len(<<x>> \o s) = Len(s) + 1
         /\ (<<x>> \o s)[1] = x
         /\ \A i \in 1..Len(s) : (<<x>> \o s)[i + 1] = s[i]
         /\ \A i \in 2..(Len(s) + 1) : i - 1 \in DOMAIN s
                                    /\ (<<x>> \o s)[i] = s[i - 1]
OBVIOUS

\* A place that parts the numbers up to some number by a mark is the only one.
LEMMA PlaceIsOne ==
  ASSUME NEW l \in Nat, NEW marked,
         NEW n \in 0..l, \A i \in 1..l : i <= n <=> i \notin marked,
         NEW k \in 0..l, \A i \in 1..l : i <= k <=> i \notin marked
  PROVE  n = k
<1>1. CASE n < k
  <2>1. k \in 1..l /\ ~(k <= n)
    BY <1>1
  <2> QED BY <2>1
<1>2. CASE k < n
  <2>1. n \in 1..l /\ ~(n <= k)
    BY <1>2
  <2> QED BY <2>1
<1> QED BY <1>1, <1>2

\* How many rows are spared is what parts them.
LEMMA SparedOf ==
  ASSUME NEW s \in Seq(Row), NEW r, NEW n \in 0..Len(s),
         \A i \in DOMAIN s : i <= n <=> r \notin s[i].doomed
  PROVE  n = CHOOSE k \in 0..Len(s) :
               \A i \in DOMAIN s : i <= k <=> r \notin s[i].doomed
<1> DEFINE marked == {i \in DOMAIN s : r \in s[i].doomed}
<1> PICK l \in Nat : l = Len(s) /\ DOMAIN s = 1..l
  OBVIOUS
<1>1. \A k \in 0..l : (\A i \in DOMAIN s : i <= k <=> r \notin s[i].doomed)
                        <=> (\A i \in 1..l : i <= k <=> i \notin marked)
  OBVIOUS
<1> HIDE DEF marked
<1>2. \A k \in 0..l :
        (\A i \in DOMAIN s : i <= k <=> r \notin s[i].doomed) => k = n
  BY <1>1, PlaceIsOne
<1> QED BY <1>2

\* A request spares the two latest rows, or all there are.
LEMMA SparedIs ==
  ASSUME rows \in Seq(Row), NEW r, MarksInv(r)
  PROVE  /\ Spared(r) \in 0..Len(rows)
         /\ Spared(r) >= 2 \/ Spared(r) = Len(rows)
         /\ \A i \in DOMAIN rows : i <= Spared(r) <=> r \notin rows[i].doomed
<1>1. PICK n \in 0..Len(rows) :
        /\ n >= 2 \/ n = Len(rows)
        /\ \A i \in DOMAIN rows : i <= n <=> r \notin rows[i].doomed
  BY DEF MarksInv
<1>2. Spared(r) = n
  BY <1>1, SparedOf DEF Spared
<1> QED BY <1>1, <1>2

\* What a request spares of the next rows is a place that parts their marks.
LEMMA SparedNext ==
  ASSUME rows' \in Seq(Row), NEW r, NEW n \in 0..Len(rows'),
         n >= 2 \/ n = Len(rows'),
         \A i \in DOMAIN rows' : i <= n <=> r \notin rows'[i].doomed
  PROVE  MarksInv(r)' /\ Spared(r)' = n
<1>1. MarksInv(r)'
  BY DEF MarksInv
<1>2. Spared(r)' = n
  BY SparedOf DEF Spared
<1> QED BY <1>1, <1>2

\* A request whose marks stay spares what it spared.
LEMMA MarksStay ==
  ASSUME rows \in Seq(Row), rows' \in Seq(Row), Len(rows') = Len(rows),
         NEW q, MarksInv(q),
         \A i \in DOMAIN rows : q \in rows'[i].doomed <=> q \in rows[i].doomed
  PROVE  MarksInv(q)' /\ Spared(q)' = Spared(q)
<1>1. PICK n \in Nat : n = Spared(q)
  BY SparedIs
<1>2. /\ n \in 0..Len(rows') /\ (n >= 2 \/ n = Len(rows'))
      /\ \A i \in DOMAIN rows' : i <= n <=> q \notin rows'[i].doomed
  <2>1. DOMAIN rows' = DOMAIN rows
    OBVIOUS
  <2>2. /\ n \in 0..Len(rows) /\ (n >= 2 \/ n = Len(rows))
        /\ \A i \in DOMAIN rows : i <= n <=> q \notin rows[i].doomed
    BY <1>1, SparedIs
  <2> QED BY <2>1, <2>2
<1> QED BY <1>1, <1>2, SparedNext

\* The bound holds as long as none begins to leave more than before.
LEMMA BoundStays ==
  ASSUME BoundInv, Len(rows') = Len(rows),
         \A r \in Changers : Doing(r, "reset")' /\ Spared(r)' >= 3 =>
                               Doing(r, "reset") /\ Spared(r) = Spared(r)',
         \A r \in Changers : Doing(r, "reset")' => Spared(r)' \in Nat
  PROVE  BoundInv'
<1>1. Cardinality(Changers) \in Nat
  BY FS_CardinalityType
<1>2. ASSUME NEW m \in 0..Cardinality(Changers)
      PROVE  Cardinality(Leaving(m)') <= Cardinality(Changers) - m
  <2>1. CASE m = 0
    <3>1. Leaving(m)' \subseteq Changers
      BY DEF Leaving
    <3> QED BY <1>1, <2>1, <3>1, FS_Subset
  <2>2. CASE m # 0
    <3>1. Leaving(m)' \subseteq Leaving(m)
      BY <1>1, <2>2 DEF Leaving
    <3>2. IsFiniteSet(Leaving(m))
      BY FS_Subset DEF Leaving
    <3>3. /\ Cardinality(Leaving(m)') <= Cardinality(Leaving(m))
          /\ Cardinality(Leaving(m)') \in Nat /\ Cardinality(Leaving(m)) \in Nat
      BY <3>1, <3>2, FS_Subset, FS_CardinalityType
    <3>4. Cardinality(Leaving(m)) <= Cardinality(Changers) - m
      BY DEF BoundInv
    <3> QED BY <1>1, <3>3, <3>4
  <2> QED BY <2>1, <2>2
<1> QED BY <1>2 DEF BoundInv

\* What a new password changes beside the rows.
LEMMA BecomeIs ==
  ASSUME HistoryTypeOK, NEW r \in Changers, NEW p \in Secrets,
         NEW b \in BOOLEAN, Become(p, b, r)
  PROVE  /\ last' \in Seq([password : Secrets, recorded : BOOLEAN])
         /\ Len(last') <= 3
         /\ last'[1] = [password |-> p, recorded |-> b]
         /\ \A n \in DOMAIN last' : n # 1 =>
              n - 1 \in DOMAIN last /\ last'[n] = last[n - 1] /\ n \in 2..3
         /\ changes' \in [Changers -> Change]
         /\ changes'[r] = NoChange
         /\ \A q \in Changers \ {r} :
              /\ changes'[q].pc = changes[q].pc
              /\ (~Doing(q, "idle") => changes'[q].raced)
<1> DEFINE Value == [password : Secrets, recorded : BOOLEAN]
           x == [password |-> p, recorded |-> b]
<1>1. last \in Seq(Value) /\ x \in Value /\ changes \in [Changers -> Change]
  BY DEF HistoryTypeOK
<1> HIDE DEF Value, x
<1> PICK all \in Seq(Value) : all = <<x>> \o last
  BY <1>1, PushIs
<1>2. /\ Len(all) = Len(last) + 1 /\ all[1] = x
      /\ \A i \in 2..(Len(last) + 1) :
           i - 1 \in DOMAIN last /\ all[i] = last[i - 1]
      /\ Len(last) \in Nat
  BY <1>1, PushIs
<1>3. last' = First(3, all)
  BY DEF Become, x
<1>4. /\ last' \in Seq(Value) /\ Len(last') \in 1..3 /\ Len(last') <= Len(all)
      /\ \A i \in 1..Len(last') : last'[i] = all[i]
  <2>1. PICK t \in Seq(Value) :
          /\ t = First(3, all)
          /\ Len(t) \in 0..3 /\ Len(t) <= Len(all)
          /\ Len(t) = 3 \/ Len(t) = Len(all)
          /\ \A i \in 1..Len(t) : t[i] = all[i]
    <3>1. all \in Seq(Value)
      OBVIOUS
    <3> DEFINE u == First(3, all)
    <3>3. /\ u \in Seq(Value)
          /\ Len(u) \in 0..3 /\ Len(u) <= Len(all)
          /\ Len(u) = 3 \/ Len(u) = Len(all)
          /\ \A i \in 1..Len(u) : u[i] = all[i]
      BY <3>1, FirstIs, 3 \in Nat
    <3> HIDE DEF u
    <3> QED BY <3>3 DEF u
  <2>2. Len(t) \in 1..3 /\ Len(t) <= Len(all)
    BY <1>2, <2>1
  <2> QED BY <1>3, <2>1, <2>2
<1>5. last'[1] = x
  BY <1>2, <1>4, 1 \in 1..1
<1>6. ASSUME NEW n \in DOMAIN last', n # 1
      PROVE  n - 1 \in DOMAIN last /\ last'[n] = last[n - 1] /\ n \in 2..3
  <2>1. n \in 1..Len(last')
    BY <1>4
  <2>2. n \in 2..(Len(last) + 1) /\ n \in 2..3
    BY <1>2, <1>4, <1>6, <2>1
  <2> QED BY <1>2, <1>4, <2>1, <2>2
<1>7. changes' = [q \in Changers |->
        IF q = r THEN NoChange
        ELSE IF Doing(q, "idle") THEN changes[q]
        ELSE [changes[q] EXCEPT !.raced = TRUE]]
  BY DEF Become
<1>8. ASSUME NEW q \in Changers, ~Doing(q, "idle")
      PROVE  /\ [changes[q] EXCEPT !.raced = TRUE] \in Change
             /\ [changes[q] EXCEPT !.raced = TRUE].pc = changes[q].pc
             /\ [changes[q] EXCEPT !.raced = TRUE].raced = TRUE
  <2>1. changes[q] \in Change /\ changes[q] # NoChange
    BY <1>1, <1>8 DEF Doing, NoChange
  <2>2. changes[q] \in
          [pc : {"reset", "overwrite"}, new : Secrets, raced : BOOLEAN]
    BY <2>1 DEF Change
  <2> QED BY <2>2 DEF Change
<1>9. NoChange \in Change
  BY DEF Change
<1>10. changes' \in [Changers -> Change]
  BY <1>1, <1>7, <1>8, <1>9
<1>11. changes'[r] = NoChange
  BY <1>7
<1>12. ASSUME NEW q \in Changers \ {r}
       PROVE  /\ changes'[q].pc = changes[q].pc
              /\ (~Doing(q, "idle") => changes'[q].raced)
  <2>1. CASE Doing(q, "idle")
    BY <1>7, <2>1
  <2>2. CASE ~Doing(q, "idle")
    <3>1. changes'[q] = [changes[q] EXCEPT !.raced = TRUE]
      BY <1>7, <2>2
    <3> QED BY <1>8, <2>2, <3>1
  <2> QED BY <2>1, <2>2
<1>13. last' \in Seq([password : Secrets, recorded : BOOLEAN])
  BY <1>4 DEF Value
<1>14. last'[1] = [password |-> p, recorded |-> b]
  BY <1>5 DEF x
<1> QED BY <1>4, <1>6, <1>10, <1>11, <1>12, <1>13, <1>14

\* The account's first row records its first password.
LEMMA HInitInv == HistoryInit => HInv
<1> SUFFICES ASSUME HistoryInit PROVE HInv
  OBVIOUS
<1>1. PICK p \in Secrets :
        /\ rows = <<[password |-> p, doomed |-> {}]>>
        /\ last = <<[password |-> p, recorded |-> TRUE]>>
        /\ verified = FALSE /\ changes = [r \in Changers |-> NoChange]
  BY DEF HistoryInit
<1>2. HistoryTypeOK
  <2>1. [password |-> p, doomed |-> {}] \in Row
    BY DEF Row
  <2>2. changes \in [Changers -> Change]
    BY <1>1 DEF Change
  <2>3. rows \in Seq(Row)
    BY <1>1, <2>1
  <2>4. /\ last \in Seq([password : Secrets, recorded : BOOLEAN])
        /\ Len(last) <= 3
    BY <1>1
  <2> QED BY <1>1, <2>2, <2>3, <2>4 DEF HistoryTypeOK
<1>3. \A r \in Changers : ~Doing(r, "reset")
  BY <1>1 DEF Doing, NoChange
<1>4. ASSUME NEW m \in 0..Cardinality(Changers)
      PROVE  Cardinality(Leaving(m)) <= Cardinality(Changers) - m
  <2>1. Leaving(m) = {}
    BY <1>3 DEF Leaving
  <2> QED BY <2>1, FS_EmptySet, FS_CardinalityType
<1>5. BoundInv
  BY <1>1, <1>4, FS_CardinalityType DEF BoundInv
<1>6. RecordedInv
  BY <1>1 DEF RecordedInv
<1>7. \A r \in Changers : MarksInv(r) /\ FreshInv(r)
  BY <1>1, <1>3 DEF MarksInv, FreshInv
<1> QED BY <1>2, <1>5, <1>6, <1>7 DEF HInv

\* A reset begins, with a password that is not on record.
LEMMA ResetStartInv ==
  ASSUME HInv, NEW r \in Changers, NEW p \in Secrets,
         ResetStart(r, p)
  PROVE  HInv'
<1>1. /\ HistoryTypeOK /\ rows \in Seq(Row) /\ changes \in [Changers -> Change]
      /\ Len(rows) \in Nat /\ DOMAIN rows = 1..Len(rows)
      /\ Doing(r, "idle") /\ Allowed(p) /\ UNCHANGED <<verified, last>>
      /\ changes' = [changes EXCEPT ![r] = Began("reset", p)]
      /\ rows' = [i \in DOMAIN rows |->
           IF i \in Surplus THEN [rows[i] EXCEPT !.doomed = @ \union {r}]
           ELSE rows[i]]
  BY DEF HInv, HistoryTypeOK, ResetStart
<1>2. ASSUME NEW i \in DOMAIN rows
      PROVE  /\ rows'[i] \in Row /\ rows'[i].password = rows[i].password
             /\ \A q : q \in rows'[i].doomed <=>
                         q \in rows[i].doomed \/ (q = r /\ i \in Surplus)
  <2>1. rows[i] \in Row
    BY <1>1
  <2>2. CASE i \in Surplus
    <3>1. rows'[i] = [rows[i] EXCEPT !.doomed = @ \union {r}]
      BY <1>1, <2>2
    <3> QED BY <2>1, <2>2, <3>1 DEF Row
  <2>3. CASE i \notin Surplus
    <3>1. rows'[i] = rows[i]
      BY <1>1, <2>3
    <3> QED BY <2>1, <2>3, <3>1
  <2> QED BY <2>2, <2>3
<1>3. /\ rows' \in Seq(Row) /\ Len(rows') = Len(rows)
      /\ DOMAIN rows' = DOMAIN rows
  BY <1>1, <1>2
<1>4. /\ changes' \in [Changers -> Change]
      /\ changes'[r] = Began("reset", p)
      /\ \A q \in Changers \ {r} : changes'[q] = changes[q]
  <2>1. Began("reset", p) \in Change
    BY DEF Began, Change
  <2> QED BY <1>1, <2>1
<1>5. HistoryTypeOK'
  BY <1>1, <1>3, <1>4 DEF HistoryTypeOK
<1>6. \A q \in Changers \ {r} : MarksInv(q)' /\ Spared(q)' = Spared(q)
  BY <1>1, <1>2, <1>3, MarksStay DEF HInv
<1>7. PICK n \in 0..2 : MarksInv(r)' /\ Spared(r)' = n
  <2>1. /\ Spared(r) \in 0..Len(rows)
        /\ Spared(r) >= 2 \/ Spared(r) = Len(rows)
        /\ \A i \in DOMAIN rows : i <= Spared(r) <=> r \notin rows[i].doomed
    BY <1>1, SparedIs DEF HInv
  <2>2. CASE Len(rows) >= 3
    <3>1. \A i \in DOMAIN rows' : i <= 2 <=> r \notin rows'[i].doomed
      BY <1>1, <1>2, <1>3, <2>1, <2>2 DEF Surplus
    <3>2. 2 \in 0..Len(rows') /\ 2 >= 2
      BY <1>1, <1>3, <2>2
    <3>3. MarksInv(r)' /\ Spared(r)' = 2
      BY <1>3, <3>1, <3>2, SparedNext
    <3> QED BY <3>3
  <2>3. CASE ~(Len(rows) >= 3)
    <3>1. \A i \in DOMAIN rows' : i <= Len(rows) <=> r \notin rows'[i].doomed
      BY <1>1, <1>2, <1>3, <2>1, <2>3 DEF Surplus
    <3>2. Len(rows) \in 0..2
      BY <1>1, <2>3
    <3>3. Len(rows) \in 0..Len(rows') /\ Len(rows) = Len(rows')
      BY <1>1, <1>3
    <3>4. MarksInv(r)' /\ Spared(r)' = Len(rows)
      BY <1>3, <3>1, <3>3, SparedNext
    <3> QED BY <3>2, <3>4
  <2> QED BY <2>2, <2>3
<1>8. BoundInv'
  <2>1. \A q \in Changers : Spared(q)' \in Nat
    <3>1. \A q \in Changers : Spared(q) \in 0..Len(rows)
      BY <1>1, SparedIs DEF HInv
    <3> QED BY <1>1, <1>6, <1>7, <3>1
  <2>2. \A q \in Changers : Spared(q)' >= 3 => q # r
    BY <1>7
  <2>3. \A q \in Changers \ {r} : Doing(q, "reset")' => Doing(q, "reset")
    BY <1>4 DEF Doing
  <2> QED BY <1>3, <1>6, <2>1, <2>2, <2>3, BoundStays DEF HInv
<1>9. RecordedInv'
  BY <1>1, <1>2, <1>3 DEF HInv, RecordedInv
<1>10. ASSUME NEW m \in DOMAIN last, last[m].recorded
       PROVE  last[m].password # p
  <2>1. PICK i \in DOMAIN rows : i <= m /\ rows[i].password = last[m].password
    BY <1>10 DEF HInv, RecordedInv
  <2>2. m \in 1..3
    BY <1>1 DEF HistoryTypeOK
  <2>3. last[m].password \in PasswordsIn(First(3, rows))
    BY <1>1, <2>1, <2>2, InFirstThree
  <2> QED BY <1>1, <2>3 DEF Allowed
<1>11. \A q \in Changers : FreshInv(q)'
  BY <1>1, <1>4, <1>10 DEF HInv, FreshInv, Doing, Began
<1> QED BY <1>5, <1>6, <1>7, <1>8, <1>9, <1>11 DEF HInv

\* A reset commits: its row comes first, and behind it the rows it spares.
LEMMA WithHistoryInv ==
  ASSUME HInv, NEW r \in Changers,
         UpdatePasswordWithHistory(r)
  PROVE  HInv'
<1>1. /\ HistoryTypeOK /\ rows \in Seq(Row) /\ changes \in [Changers -> Change]
      /\ Len(rows) \in Nat /\ DOMAIN rows = 1..Len(rows)
      /\ Doing(r, "reset") /\ Become(changes[r].new, TRUE, r)
      /\ UNCHANGED verified
      /\ rows' = <<[password |-> changes[r].new, doomed |-> {}]>>
                   \o First(Spared(r), rows)
  <2>1. /\ HistoryTypeOK /\ rows \in Seq(Row)
        /\ changes \in [Changers -> Change]
        /\ Len(rows) \in Nat /\ DOMAIN rows = 1..Len(rows)
    BY DEF HInv, HistoryTypeOK
  <2> QED BY <2>1 DEF UpdatePasswordWithHistory
<1> PICK p : p = changes[r].new
  OBVIOUS
<1>2. p \in Secrets
  <2>1. changes[r] \in Change /\ changes[r] # NoChange
    BY <1>1 DEF Doing, NoChange
  <2> QED BY <2>1 DEF Change
<1>3. PICK k \in Nat :
        /\ k = Spared(r) /\ k <= Len(rows) /\ (k >= 2 \/ k = Len(rows))
  <2>1. MarksInv(r)
    BY DEF HInv
  <2>2. /\ Spared(r) \in 0..Len(rows)
        /\ Spared(r) >= 2 \/ Spared(r) = Len(rows)
    BY <1>1, <2>1, SparedIs
  <2>3. Spared(r) \in Nat /\ Spared(r) <= Len(rows)
    BY <1>1, <2>2
  <2> QED BY <2>2, <2>3
<1>4. PICK t \in Seq(Row) :
        /\ t = First(k, rows) /\ Len(t) = k
        /\ \A i \in 1..k : t[i] = rows[i]
  <2>1. PICK t \in Seq(Row) :
          /\ t = First(k, rows) /\ Len(t) <= Len(rows) /\ Len(t) \in 0..k
          /\ Len(t) = k \/ Len(t) = Len(rows)
          /\ \A i \in 1..Len(t) : t[i] = rows[i]
    BY <1>1, FirstIs
  <2>2. Len(t) = k
    BY <1>1, <1>3, <2>1
  <2> QED BY <2>1, <2>2
<1>5. /\ rows' \in Seq(Row) /\ Len(rows') = k + 1
      /\ DOMAIN rows' = 1..(k + 1)
      /\ rows'[1] = [password |-> p, doomed |-> {}]
      /\ \A i \in 2..(k + 1) : i - 1 \in 1..k /\ rows'[i] = rows[i - 1]
  <2>1. [password |-> p, doomed |-> {}] \in Row
    BY <1>2 DEF Row
  <2> PICK x \in Row : x = [password |-> p, doomed |-> {}]
    BY <2>1
  <2>2. rows' = <<x>> \o t
    BY <1>1, <1>3, <1>4
  <2>3. /\ rows' \in Seq(Row) /\ Len(rows') = k + 1 /\ rows'[1] = x
        /\ \A i \in 2..(k + 1) : i - 1 \in DOMAIN t /\ rows'[i] = t[i - 1]
    BY <1>4, <2>2, PushIs
  <2>4. DOMAIN t = 1..k
    BY <1>4
  <2> QED BY <1>4, <2>3, <2>4
<1>6. /\ last' \in Seq([password : Secrets, recorded : BOOLEAN])
      /\ Len(last') <= 3
      /\ last'[1] = [password |-> p, recorded |-> TRUE]
      /\ \A n \in DOMAIN last' : n # 1 =>
           n - 1 \in DOMAIN last /\ last'[n] = last[n - 1] /\ n \in 2..3
      /\ changes' \in [Changers -> Change]
      /\ changes'[r] = NoChange
      /\ \A q \in Changers \ {r} :
           /\ changes'[q].pc = changes[q].pc
           /\ (~Doing(q, "idle") => changes'[q].raced)
  BY <1>1, <1>2, BecomeIs
<1>7. HistoryTypeOK'
  BY <1>1, <1>5, <1>6 DEF HistoryTypeOK
<1>8. ASSUME NEW q \in Changers
      PROVE  \E n \in Nat, m \in Nat :
               /\ n = Spared(q) /\ m = (IF n < k THEN n ELSE k) + 1
               /\ MarksInv(q)' /\ Spared(q)' = m
  <2>1. PICK n \in Nat :
          /\ n = Spared(q) /\ n <= Len(rows) /\ (n >= 2 \/ n = Len(rows))
          /\ \A i \in DOMAIN rows : i <= n <=> q \notin rows[i].doomed
    <3>1. MarksInv(q)
      BY DEF HInv
    <3>2. /\ Spared(q) \in 0..Len(rows)
          /\ Spared(q) >= 2 \/ Spared(q) = Len(rows)
          /\ \A i \in DOMAIN rows :
               i <= Spared(q) <=> q \notin rows[i].doomed
      BY <1>1, <3>1, SparedIs
    <3>3. Spared(q) \in Nat /\ Spared(q) <= Len(rows)
      BY <1>1, <3>2
    <3> QED BY <3>2, <3>3
  <2> PICK m \in Nat : m = (IF n < k THEN n ELSE k) + 1
    OBVIOUS
  <2>2. m \in 0..(k + 1) /\ (m >= 2 \/ m = k + 1)
    BY <1>1, <1>3, <2>1
  <2>3. ASSUME NEW i \in 1..(k + 1)
        PROVE  i <= m <=> q \notin rows'[i].doomed
    <3>1. CASE i = 1
      BY <1>5, <2>2, <3>1
    <3>2. CASE i # 1
      <4>1. /\ i \in 2..(k + 1) /\ i - 1 \in 1..k /\ i - 1 \in DOMAIN rows
            /\ rows'[i] = rows[i - 1]
        BY <1>1, <1>3, <1>5, <3>2
      <4>2. i <= m <=> i - 1 <= n
        BY <4>1
      <4> QED BY <2>1, <4>1, <4>2
    <3> QED BY <3>1, <3>2
  <2>4. m \in 0..Len(rows') /\ (m >= 2 \/ m = Len(rows'))
    BY <1>5, <2>2
  <2>5. \A i \in DOMAIN rows' : i <= m <=> q \notin rows'[i].doomed
    BY <1>5, <2>3
  <2>6. MarksInv(q)' /\ Spared(q)' = m
    BY <1>5, <2>4, <2>5, SparedNext
  <2> QED BY <2>1, <2>6
<1> PICK c \in Nat : c = Cardinality(Changers)
  BY FS_CardinalityType
<1>9. \A m \in 0..c : Cardinality(Leaving(m)) <= c - m
  BY DEF HInv, BoundInv
<1>10. \A m \in 0..c :
            IsFiniteSet(Leaving(m)) /\ Cardinality(Leaving(m)) \in Nat
  <2>1. \A m \in 0..c : Leaving(m) \in SUBSET Changers
    BY DEF Leaving
  <2> QED BY <2>1, FS_Subset, FS_CardinalityType
<1>11. k <= c + 1
  <2> SUFFICES ASSUME k >= c + 2 PROVE FALSE
    OBVIOUS
  <2>1. r \in Leaving(c)
    BY <1>1, <1>3 DEF Leaving
  <2>2. Cardinality(Leaving(c)) = 0
    BY <1>9, <1>10
  <2>3. Leaving(c) = {}
    BY <1>10, <2>2, FS_EmptySet
  <2> QED BY <2>1, <2>3
<1>12. ASSUME NEW m \in 0..c
       PROVE  Cardinality(Leaving(m)') <= c - m
  <2>1. Leaving(m)' \in SUBSET Changers
    BY DEF Leaving
  <2>2. CASE m = 0
    BY <2>1, <2>2, FS_Subset, FS_CardinalityType
  <2>3. CASE m # 0 /\ k < m + 1
    <3>1. ASSUME NEW q \in Leaving(m)' PROVE FALSE
      <4>1. q \in Changers /\ Spared(q)' >= m + 2
        BY DEF Leaving
      <4>2. PICK n \in Nat : Spared(q)' = (IF n < k THEN n ELSE k) + 1
        BY <1>8, <4>1
      <4> QED BY <2>3, <4>1, <4>2
    <3>2. Leaving(m)' = {}
      BY <3>1
    <3> QED BY <3>2, FS_EmptySet
  <2>4. CASE m # 0 /\ k >= m + 1
    <3> PICK l \in 0..c : l = m - 1
      BY <2>4
    <3>1. r \in Leaving(l)
      BY <1>1, <1>3, <2>4 DEF Leaving
    <3>2. Leaving(m)' \subseteq Leaving(l) \ {r}
      <4> SUFFICES ASSUME NEW q \in Leaving(m)' PROVE q \in Leaving(l) \ {r}
        OBVIOUS
      <4>1. q \in Changers /\ Doing(q, "reset")' /\ Spared(q)' >= m + 2
        BY DEF Leaving
      <4>2. q # r /\ Doing(q, "reset")
        BY <1>6, <4>1 DEF Doing, NoChange
      <4>3. PICK n \in Nat : /\ n = Spared(q)
                             /\ Spared(q)' = (IF n < k THEN n ELSE k) + 1
        BY <1>8, <4>1
      <4>4. n >= l + 2
        BY <4>1, <4>3
      <4> QED BY <4>1, <4>2, <4>3, <4>4 DEF Leaving
    <3>3. /\ IsFiniteSet(Leaving(l) \ {r})
          /\ Cardinality(Leaving(l) \ {r}) = Cardinality(Leaving(l)) - 1
      BY <1>10, <3>1, FS_RemoveElement
    <3>4. Cardinality(Leaving(m)') <= Cardinality(Leaving(l) \ {r})
      BY <3>2, <3>3, FS_Subset
    <3>5. Cardinality(Leaving(m)') \in Nat
      BY <2>1, FS_Subset, FS_CardinalityType
    <3> QED BY <1>9, <1>10, <3>3, <3>4, <3>5
  <2> QED BY <2>2, <2>3, <2>4
<1>13. BoundInv'
  <2>1. Len(rows') <= 2 + c
    BY <1>3, <1>5, <1>11
  <2> QED BY <1>12, <2>1 DEF BoundInv
<1>14. ASSUME NEW n \in DOMAIN last', last'[n].recorded
       PROVE  \E i \in DOMAIN rows' :
                i <= n /\ rows'[i].password = last'[n].password
  <2>1. CASE n = 1
    <3>1. 1 \in DOMAIN rows' /\ 1 <= 1
      BY <1>5
    <3>2. rows'[1].password = p /\ last'[1].password = p
      BY <1>5, <1>6
    <3> QED BY <2>1, <3>1, <3>2
  <2>2. CASE n # 1
    <3>1. n - 1 \in DOMAIN last /\ last'[n] = last[n - 1] /\ n \in 2..3
      BY <1>6, <2>2
    <3>2. PICK i \in DOMAIN rows :
            i <= n - 1 /\ rows[i].password = last[n - 1].password
      BY <1>14, <3>1 DEF HInv, RecordedInv
    <3>3. i \in 1..Len(rows) /\ i <= 2
      BY <1>1, <3>1, <3>2
    <3>4. i \in 1..k /\ i + 1 <= n
      <4>1. n \in 2..3 /\ i <= n - 1
        BY <3>1, <3>2
      <4>2. i <= k
        BY <1>1, <1>3, <3>3
      <4> QED BY <3>3, <4>1, <4>2
    <3>5. i + 1 \in 2..(k + 1) /\ (i + 1) - 1 = i
      BY <3>4
    <3>6. i + 1 \in DOMAIN rows' /\ rows'[i + 1] = rows[i]
      BY <1>3, <1>5, <3>5
    <3> QED BY <3>1, <3>2, <3>4, <3>6
  <2> QED BY <2>1, <2>2
<1>15. ASSUME NEW q \in Changers, Doing(q, "reset")', ~changes'[q].raced
       PROVE  FALSE
  <2>1. CASE q = r
    BY <1>6, <1>15, <2>1 DEF Doing, NoChange
  <2>2. CASE q # r
    BY <1>6, <1>15, <2>2 DEF Doing
  <2> QED BY <2>1, <2>2
<1>16. \A q \in Changers : FreshInv(q)'
  BY <1>15 DEF FreshInv
<1> QED BY <1>7, <1>8, <1>13, <1>14, <1>16 DEF HInv, RecordedInv

\* A step that leaves the rows and their marks, but for those of one request.
LEMMA RowsStay ==
  ASSUME HInv, rows' \in Seq(Row),
         Len(rows') = Len(rows),
         NEW D \in SUBSET Changers,
         \A i \in DOMAIN rows, q \in Changers :
           q \in rows'[i].doomed <=> q \in rows[i].doomed /\ q \notin D,
         \A q \in Changers :
           Doing(q, "reset")' => Doing(q, "reset") /\ q \notin D
  PROVE  BoundInv' /\ \A q \in Changers : MarksInv(q)'
<1>1. rows \in Seq(Row) /\ Len(rows) \in Nat /\ DOMAIN rows' = DOMAIN rows
  BY DEF HInv, HistoryTypeOK
<1>2. ASSUME NEW q \in Changers \ D
      PROVE  MarksInv(q)' /\ Spared(q)' = Spared(q) /\ Spared(q) \in Nat
  BY <1>1, MarksStay, SparedIs DEF HInv
<1>3. ASSUME NEW q \in D PROVE MarksInv(q)'
  <2>1. \A i \in DOMAIN rows' : i <= Len(rows') <=> q \notin rows'[i].doomed
    BY <1>1
  <2>2. Len(rows') \in 0..Len(rows')
    BY <1>1
  <2> QED BY <2>1, <2>2, SparedNext
<1>4. BoundInv'
  BY <1>2, BoundStays DEF HInv
<1> QED BY <1>2, <1>3, <1>4

\* The other steps leave the rows, and what is recorded goes no further.
LEMMA OtherInv ==
  ASSUME HInv,
         \/ Verify
         \/ \E r \in Changers :
              \/ \E p \in Secrets : RegisterAgainStart(r, p)
              \/ RegisterAgain(r) \/ ChangeFails(r)
         \/ UNCHANGED historyVars
  PROVE  HInv'
<1>1. /\ HistoryTypeOK /\ rows \in Seq(Row) /\ changes \in [Changers -> Change]
      /\ Len(rows) \in Nat /\ DOMAIN rows = 1..Len(rows)
  BY DEF HInv, HistoryTypeOK
<1>2. CASE Verify \/ UNCHANGED historyVars
  <2>1. UNCHANGED <<rows, changes, last>> /\ verified' \in BOOLEAN
    BY <1>1, <1>2 DEF Verify, historyVars, HistoryTypeOK
  <2>2. HistoryTypeOK'
    BY <1>1, <2>1 DEF HistoryTypeOK
  <2>3. BoundInv' /\ \A q \in Changers : MarksInv(q)'
    <3>1. /\ rows' \in Seq(Row) /\ Len(rows') = Len(rows) /\ rows' = rows
          /\ {} \in SUBSET Changers
          /\ \A q \in Changers : Doing(q, "reset")' => Doing(q, "reset")
      BY <1>1, <2>1 DEF Doing
    <3> QED BY <3>1, RowsStay
  <2> QED BY <2>1, <2>2, <2>3 DEF HInv, RecordedInv, FreshInv, Doing
<1>3. ASSUME NEW r \in Changers, NEW p \in Secrets, RegisterAgainStart(r, p)
      PROVE  HInv'
  <2>1. /\ changes' = [changes EXCEPT ![r] = Began("overwrite", p)]
        /\ UNCHANGED <<rows, verified, last>>
    BY <1>3 DEF RegisterAgainStart
  <2>2. /\ changes' \in [Changers -> Change] /\ changes'[r].pc = "overwrite"
        /\ \A q \in Changers \ {r} : changes'[q] = changes[q]
    BY <1>1, <2>1 DEF Began, Change
  <2>3. HistoryTypeOK'
    BY <1>1, <2>1, <2>2 DEF HistoryTypeOK
  <2>4. \A q \in Changers :
             Doing(q, "reset")' => q # r /\ changes'[q] = changes[q]
    BY <2>2 DEF Doing
  <2>5. BoundInv' /\ \A q \in Changers : MarksInv(q)'
    <3>1. /\ rows' \in Seq(Row) /\ Len(rows') = Len(rows) /\ rows' = rows
          /\ {} \in SUBSET Changers
          /\ \A q \in Changers : Doing(q, "reset")' => Doing(q, "reset")
      BY <1>1, <2>1, <2>4 DEF Doing
    <3> QED BY <3>1, RowsStay
  <2> QED BY <2>1, <2>3, <2>4, <2>5 DEF HInv, RecordedInv, FreshInv, Doing
<1>4. ASSUME NEW r \in Changers, RegisterAgain(r)
      PROVE  HInv'
  <2>1. /\ Doing(r, "overwrite") /\ Become(changes[r].new, FALSE, r)
        /\ UNCHANGED <<rows, verified>>
    BY <1>4 DEF RegisterAgain
  <2>2. changes[r].new \in Secrets
    <3>1. changes[r] \in Change /\ changes[r] # NoChange
      BY <1>1, <2>1 DEF Doing, NoChange
    <3> QED BY <3>1 DEF Change
  <2>3. /\ last' \in Seq([password : Secrets, recorded : BOOLEAN])
        /\ Len(last') <= 3
        /\ last'[1] = [password |-> changes[r].new, recorded |-> FALSE]
        /\ \A n \in DOMAIN last' : n # 1 =>
             n - 1 \in DOMAIN last /\ last'[n] = last[n - 1] /\ n \in 2..3
        /\ changes' \in [Changers -> Change]
        /\ changes'[r] = NoChange
        /\ \A q \in Changers \ {r} :
             /\ changes'[q].pc = changes[q].pc
             /\ (~Doing(q, "idle") => changes'[q].raced)
    BY <1>1, <2>1, <2>2, BecomeIs
  <2>4. HistoryTypeOK'
    BY <1>1, <2>1, <2>3 DEF HistoryTypeOK
  <2>5. \A q \in Changers :
             Doing(q, "reset")' => Doing(q, "reset") /\ changes'[q].raced
    BY <2>3 DEF Doing, NoChange
  <2>6. BoundInv' /\ \A q \in Changers : MarksInv(q)'
    <3>1. /\ rows' \in Seq(Row) /\ Len(rows') = Len(rows) /\ rows' = rows
          /\ {} \in SUBSET Changers
      BY <1>1, <2>1
    <3> QED BY <2>5, <3>1, RowsStay
  <2>7. ASSUME NEW n \in DOMAIN last', last'[n].recorded
        PROVE  \E i \in DOMAIN rows :
                 i <= n /\ rows[i].password = last'[n].password
    <3>1. n - 1 \in DOMAIN last /\ last'[n] = last[n - 1] /\ n \in 2..3
      BY <2>3, <2>7
    <3>2. PICK i \in DOMAIN rows :
            i <= n - 1 /\ rows[i].password = last[n - 1].password
      BY <2>7, <3>1 DEF HInv, RecordedInv
    <3>3. i <= n
      BY <1>1, <3>1, <3>2
    <3> QED BY <3>1, <3>2, <3>3
  <2> QED BY <2>1, <2>4, <2>5, <2>6, <2>7 DEF HInv, RecordedInv, FreshInv
<1>5. ASSUME NEW r \in Changers, ChangeFails(r)
      PROVE  HInv'
  <2>1. /\ rows' = Release(r) /\ changes' = [changes EXCEPT ![r] = NoChange]
        /\ UNCHANGED <<verified, last>>
    BY <1>5 DEF ChangeFails
  <2>2. /\ changes' \in [Changers -> Change] /\ changes'[r] = NoChange
        /\ \A q \in Changers \ {r} : changes'[q] = changes[q]
    BY <1>1, <2>1 DEF Change
  <2>3. ASSUME NEW i \in DOMAIN rows
        PROVE  /\ rows'[i] \in Row /\ rows'[i].password = rows[i].password
               /\ rows'[i].doomed = rows[i].doomed \ {r}
    <3>1. rows'[i] = [rows[i] EXCEPT !.doomed = @ \ {r}] /\ rows[i] \in Row
      BY <1>1, <2>1 DEF Release
    <3> QED BY <3>1 DEF Row
  <2>4. /\ rows' \in Seq(Row) /\ Len(rows') = Len(rows)
        /\ DOMAIN rows' = DOMAIN rows
    <3> PICK l \in Nat : l = Len(rows) /\ DOMAIN rows = 1..l
      BY <1>1
    <3>1. rows' = [i \in 1..l |-> rows'[i]]
      BY <2>1 DEF Release
    <3>2. \A i \in 1..l : rows'[i] \in Row
      BY <2>3
    <3> QED BY <3>1, <3>2
  <2>5. HistoryTypeOK'
    BY <1>1, <2>1, <2>2, <2>4 DEF HistoryTypeOK
  <2>6. \A q \in Changers :
             Doing(q, "reset")' => q # r /\ changes'[q] = changes[q]
    BY <2>2 DEF Doing, NoChange
  <2>7. BoundInv' /\ \A q \in Changers : MarksInv(q)'
    <3>1. {r} \in SUBSET Changers
      OBVIOUS
    <3>2. \A i \in DOMAIN rows, q \in Changers :
            q \in rows'[i].doomed <=> q \in rows[i].doomed /\ q \notin {r}
      BY <2>3
    <3>3. \A q \in Changers :
            Doing(q, "reset")' => Doing(q, "reset") /\ q \notin {r}
      BY <2>6 DEF Doing
    <3> QED BY <2>4, <3>1, <3>2, <3>3, RowsStay
  <2>8. RecordedInv'
    BY <2>1, <2>3, <2>4 DEF HInv, RecordedInv
  <2> QED BY <2>1, <2>5, <2>6, <2>7, <2>8 DEF HInv, FreshInv, Doing
<1> QED BY <1>2, <1>3, <1>4, <1>5

\* Every step of a reset, a change or a registration keeps the invariant.
LEMMA HStep ==
  ASSUME HInv, [HistoryNext]_historyVars
  PROVE  HInv'
BY ResetStartInv, WithHistoryInv, OtherInv DEF HistoryNext

\* What resets in progress are to delete, and will leave, is in order in every
\* state.
THEOREM HistoryInvariance == HistorySpec => []HInv
BY HInitInv, HStep, PTL DEF HistorySpec

\* The rows that a reset reads hold every recorded one of the last three
\* passwords, and overlapping resets leave at most one row each beside two.
THEOREM HistoryCorrect == HistorySpec => []HistoryIsSound
<1>1. ASSUME HInv PROVE LastThreeAreRecorded
  <2> SUFFICES ASSUME NEW n \in DOMAIN last, last[n].recorded
               PROVE  last[n].password \in PasswordsIn(First(3, rows))
    BY DEF LastThreeAreRecorded
  <2>1. rows \in Seq(Row) /\ n \in 1..3
    BY <1>1 DEF HInv, HistoryTypeOK
  <2>2. PICK i \in DOMAIN rows : i <= n /\ rows[i].password = last[n].password
    BY <1>1 DEF HInv, RecordedInv
  <2> QED BY <2>1, <2>2, InFirstThree
<1>2. HInv => HistoryIsSound
  BY <1>1 DEF HInv, BoundInv, HistoryIsSound
<1> QED BY <1>2, HistoryInvariance, PTL

\* A reset that none overtook sets none of the last three recorded passwords.
THEOREM FreshPasswords == HistorySpec => ReusedOnlyWhenRaced
<1>1. HInv /\ [HistoryNext]_historyVars =>
        [\A r \in Changers : Commits(r) /\ ~changes[r].raced =>
           \A n \in DOMAIN last :
             last[n].recorded => last[n].password # changes[r].new]_historyVars
  BY DEF HInv, FreshInv, Commits, UpdatePasswordWithHistory
<1> QED BY <1>1, HistoryInvariance, PTL
       DEF HistorySpec, ReusedOnlyWhenRaced
=============================================================================
