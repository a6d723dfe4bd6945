---------------------------- MODULE AuthSessions ----------------------------
(***************************************************************************)
(* Login sessions of the Authentication-Server.  A session is a Redis key  *)
(* session:{sid}; the Redis set user_sessions:{user_id} lists the sids of  *)
(* a user.  Login, refresh and logout are coroutines that await one Redis  *)
(* command at a time, so the commands of different requests interleave,    *)
(* and a request may stop between two of them (Redis raises, or the server *)
(* dies).  A token is identified with the sid it carries; a request that   *)
(* ends before it changes Redis (wrong password, unverified account, dead  *)
(* sid, access token in place of a refresh token) is not a step.           *)
(***************************************************************************)
EXTENDS Naturals

CONSTANTS
  Users, Requests,  \* user ids; coroutines that can be in progress together
  Sids,             \* the pool uuid4() draws from: bounds logins and refreshes
  NoUser, NoSid,
  MaxFails          \* bound on the requests that stop half way

ASSUME SessionAssumption ==
  /\ NoUser \notin Users
  /\ NoSid \notin Sids
  /\ MaxFails \in Nat

VARIABLES
  owner,     \* the "sub" claim of the tokens made for a sid, NoUser: not drawn
  session,   \* the sids whose key session:{sid} exists
  index,     \* the members of user_sessions:{user}
  ttl,       \* the users whose set has a time to live
  outlives,  \* live sids stored after the last EXPIRE of their owner's set
  issued,    \* the sids whose tokens were returned to a client
  req,       \* program counter and locals of each request
  fails,     \* requests that stopped half way so far
  orphaned,  \* history: live sids that were in a set when it was dropped
  left       \* history: dead sids that no request will take out of a set

redis   == <<session, index, ttl, outlives>>
history == <<orphaned, left>>
vars    == <<owner, redis, issued, req, fails, history>>

\* Labels: login up to "del_index"; refresh; logout; the end of login, refresh.
StorePc == {"set", "sadd", "expire"}
Labels  == {"idle", "check", "del_read", "del_keys", "del_index",
            "rot_del", "rot_srem", "out_del", "out_srem"} \union StorePc

\* user, the session being created, the session presented, and the locals of
\* delete_all_user_sessions: what SMEMBERS returned and what is left to delete.
Request == [pc : Labels, user : Users \union {NoUser},
            new : Sids \union {NoSid}, old : Sids \union {NoSid},
            sids : SUBSET Sids, todo : SUBSET Sids]
Started(label, u, n, o) ==
  [pc |-> label, user |-> u, new |-> n, old |-> o, sids |-> {}, todo |-> {}]
Idle == Started("idle", NoUser, NoSid, NoSid)

TypeOK ==
  /\ owner \in [Sids -> Users \union {NoUser}]
  /\ session \in SUBSET Sids /\ outlives \in SUBSET Sids
  /\ index \in [Users -> SUBSET Sids]
  /\ ttl \in SUBSET Users
  /\ issued \in SUBSET Sids
  /\ req \in [Requests -> Request]
  /\ fails \in 0..MaxFails
  /\ orphaned \in SUBSET Sids /\ left \in SUBSET Sids

OwnedBy(u) == {s \in Sids : owner[s] = u}
Fresh      == {s \in Sids : owner[s] = NoUser}

\* The sids refresh_session can draw to replace s.
KeepsSid(s)    == {s}
Replacement(s) == Fresh

Init ==
  /\ owner = [s \in Sids |-> NoUser]
  /\ session = {} /\ outlives = {} /\ issued = {}
  /\ index = [u \in Users |-> {}] /\ ttl = {}
  /\ req = [r \in Requests |-> Idle]
  /\ fails = 0
  /\ orphaned = {} /\ left = {}

At(r, label)   == req[r].pc = label
Goto(r, label) == req' = [req EXCEPT ![r].pc = label]
End(r)         == req' = [req EXCEPT ![r] = Idle]

\* SADD, EXPIRE (of no effect on a set that is gone) and SREM (a set that
\* becomes empty goes away with its time to live) on the set of a user.
ForgetsSAdd(u, s) == index' = index
SAdd(u, s)        == index' = [index EXCEPT ![u] = @ \union {s}]

ForgetsExpire(u) == UNCHANGED <<ttl, outlives>>
Expire(u) ==
  IF index[u] = {}
    THEN UNCHANGED <<ttl, outlives>>
    ELSE ttl' = ttl \union {u} /\ outlives' = outlives \ OwnedBy(u)

ForgetsSRem(u, s) == UNCHANGED <<index, ttl>>
SRem(u, s) ==
  /\ index' = [index EXCEPT ![u] = @ \ {s}]
  /\ ttl' = IF index[u] \subseteq {s} THEN ttl \ {u} ELSE ttl

\* DEL of a set, or its expiry.
DropIndex(u) ==
  /\ index' = [index EXCEPT ![u] = {}]
  /\ ttl' = ttl \ {u}
  /\ orphaned' = orphaned \union (index[u] \intersect session)

-----------------------------------------------------------------------------
(* login *)

\* The credentials are right and the account is verified; a uuid is drawn.
LoginStart(r, u) ==
  /\ At(r, "idle")
  /\ \E s \in Fresh :
       /\ owner' = [owner EXCEPT ![s] = u]
       /\ req' = [req EXCEPT ![r] = Started("check", u, s, NoSid)]
  /\ UNCHANGED <<redis, issued, fails, history>>

\* get_user_sessions: none; some, and no force_logout; some, and force_logout.
LoginCheck(r) ==
  /\ At(r, "check")
  /\ \/ index[req[r].user] = {} /\ Goto(r, "set")
     \/ index[req[r].user] # {} /\ End(r)
     \/ index[req[r].user] # {} /\ Goto(r, "del_read")
  /\ UNCHANGED <<owner, redis, issued, fails, history>>

\* delete_all_user_sessions: SMEMBERS, one DEL per session key, DEL of the set.
DeleteAllRead(r) ==
  LET found == index[req[r].user] IN
  /\ At(r, "del_read")
  /\ req' = [req EXCEPT ![r].sids = found, ![r].todo = found,
                        ![r].pc = IF found = {} THEN "set" ELSE "del_keys"]
  /\ UNCHANGED <<owner, redis, issued, fails, history>>

\* The label after a DEL that leaves the keys of these sids to delete.
StopsAtFirst(rest) == "del_index"
AfterKey(rest)     == IF rest = {} THEN "del_index" ELSE "del_keys"

DeleteAllKey(r) ==
  /\ At(r, "del_keys")
  /\ \E s \in req[r].todo :
       /\ session' = session \ {s}
       /\ outlives' = outlives \ {s}
       /\ req' = [req EXCEPT ![r].todo = @ \ {s},
                             ![r].pc = AfterKey(req[r].todo \ {s})]
  /\ UNCHANGED <<owner, index, ttl, issued, fails, history>>

DeleteAllIndex(r) ==
  /\ At(r, "del_index")
  /\ DropIndex(req[r].user)
  /\ Goto(r, "set")
  /\ UNCHANGED <<owner, session, outlives, issued, fails, left>>

(* the end of login and of refresh: set, then add_user_session *)

SetSession(r) ==
  /\ At(r, "set")
  /\ session' = session \union {req[r].new}
  /\ outlives' = outlives \union {req[r].new}
  /\ Goto(r, "sadd")
  /\ UNCHANGED <<owner, index, ttl, issued, fails, history>>

AddUserSession(r) ==
  /\ At(r, "sadd")
  /\ SAdd(req[r].user, req[r].new)
  /\ Goto(r, "expire")
  /\ UNCHANGED <<owner, session, ttl, outlives, issued, fails, history>>

\* EXPIRE; then the tokens are returned.
ExpireUserSessions(r) ==
  /\ At(r, "expire")
  /\ Expire(req[r].user)
  /\ issued' = issued \union {req[r].new}
  /\ End(r)
  /\ UNCHANGED <<owner, session, index, fails, history>>

-----------------------------------------------------------------------------
(* refresh_session and logout *)

\* The session of the refresh token exists; the uuid of the one to replace it
\* is drawn while the user and the username are fetched.
RefreshStart(r, s) ==
  /\ At(r, "idle")
  /\ s \in issued \intersect session
  /\ \E t \in Replacement(s) :
       /\ owner' = [owner EXCEPT ![t] = owner[s]]
       /\ req' = [req EXCEPT ![r] = Started("rot_del", owner[s], t, s)]
  /\ UNCHANGED <<redis, issued, fails, history>>

LogoutStart(r, s) ==
  /\ At(r, "idle")
  /\ s \in issued \intersect session
  /\ req' = [req EXCEPT ![r] = Started("out_del", owner[s], NoSid, s)]
  /\ UNCHANGED <<owner, redis, issued, fails, history>>

DeleteOld(r) ==
  /\ At(r, "rot_del") \/ At(r, "out_del")
  /\ session' = session \ {req[r].old}
  /\ outlives' = outlives \ {req[r].old}
  /\ Goto(r, IF At(r, "rot_del") THEN "rot_srem" ELSE "out_srem")
  /\ UNCHANGED <<owner, index, ttl, issued, fails, history>>

RemoveOld(r) ==
  /\ \/ At(r, "rot_srem") /\ Goto(r, "set")
     \/ At(r, "out_srem") /\ End(r)
  /\ SRem(req[r].user, req[r].old)
  /\ UNCHANGED <<owner, session, outlives, issued, fails, history>>

-----------------------------------------------------------------------------
(* failures and time *)

\* The sids that a request found or made dead and has to take out of the set.
Removing(r) ==
  IF req[r].pc \in {"rot_srem", "out_srem"} THEN {req[r].old}
  ELSE IF req[r].pc \in {"del_keys", "del_index"} THEN req[r].sids \ req[r].todo
  ELSE {}

\* A Redis call raises, or the server stops: the request goes no further.
Fail(r) ==
  /\ ~At(r, "idle")
  /\ fails < MaxFails
  /\ fails' = fails + 1
  /\ left' = left \union Removing(r)
  /\ End(r)
  /\ UNCHANGED <<owner, redis, issued, orphaned>>

\* A session key reaches its time to live.  A request lasts far less than
\* that, so not while the request that stored it is still running.
SessionExpires(s) ==
  /\ s \in session
  /\ \A r \in Requests : req[r].new # s
  /\ session' = session \ {s}
  /\ outlives' = outlives \ {s}
  /\ left' = left \union {s}
  /\ UNCHANGED <<owner, index, ttl, issued, req, fails, orphaned>>

\* A set reaches its time to live: every session stored before its last EXPIRE
\* has reached its own, which is as long and started earlier.
IndexExpires(u) ==
  /\ u \in ttl
  /\ session \intersect OwnedBy(u) \subseteq outlives
  /\ DropIndex(u)
  /\ UNCHANGED <<owner, session, outlives, issued, req, fails, left>>

Step(r) ==
  \/ LoginCheck(r) \/ DeleteAllRead(r) \/ DeleteAllKey(r) \/ DeleteAllIndex(r)
  \/ SetSession(r) \/ AddUserSession(r) \/ ExpireUserSessions(r)
  \/ DeleteOld(r) \/ RemoveOld(r)

Next ==
  \/ \E r \in Requests :
       \/ \E u \in Users : LoginStart(r, u)
       \/ \E s \in Sids : RefreshStart(r, s) \/ LogoutStart(r, s)
       \/ Step(r)
       \/ Fail(r)
  \/ \E s \in Sids : SessionExpires(s)
  \/ \E u \in Users : IndexExpires(u)

Spec == Init /\ [][Next]_vars

\* Redis answers every command, and time passes; clients owe nothing.
FairSpec ==
  /\ Spec
  /\ \A r \in Requests : WF_vars(Step(r))
  /\ \A s \in Sids : WF_vars(SessionExpires(s))
  /\ \A u \in Users : WF_vars(IndexExpires(u))

-----------------------------------------------------------------------------
(* Properties *)

\* Where the session of a sid is, as SessionLedger has it: a sid that no
\* request will store any more, and that is not stored, is closed.
Unstored(r) == req[r].pc \notin {"idle", "sadd", "expire"}
Pending(s)  == \E r \in Requests : req[r].new = s /\ Unstored(r)
Stage(s) ==
  IF owner[s] = NoUser   THEN "free"
  ELSE IF s \in session THEN "open"
  ELSE IF Pending(s)     THEN "drawn" ELSE "closed"

Ledger == INSTANCE SessionLedger
            WITH holder <- owner, handed <- issued,
                 stage <- [s \in Sids |-> Stage(s)]

\* Login, refresh, logout, forced logout, expiry and stops half way, over
\* single Redis commands, do to a session what SessionLedger allows: no sid is
\* drawn twice, no session that ended comes back, whatever requests are still
\* running, and tokens are returned once, of a session that there was.
ImplementsLedger == Ledger!Spec

\* A session key comes into being only while nobody can know its sid: its
\* tokens were not returned and no set lists it.  So a session that a logout,
\* a refresh, a forced login or Redis ended stays ended, whatever requests are
\* still running (login and refresh do SET before SADD, both before returning).
UnknownWhenStored ==
  \A s \in session' \ session :
     s \notin issued /\ \A u \in Users : s \notin index[u]
NoResurrection == [][UnknownWhenStored]_vars

\* A live session whose tokens a client holds is listed in its owner's set,
\* where forced logins find it, unless the whole set was dropped while it was
\* listed (DEL at the end of delete_all_user_sessions, or expiry of the set).
IssuedIsTracked ==
  \A s \in issued \intersect session : s \in index[owner[s]] \union orphaned

\* Once a forced login has deleted the keys it goes on to drop the set and to
\* store its own session: every session it had read from the set is dead and
\* stays dead, though other requests of the user may be half way.
ForcedLogoutIsFinal ==
  \A r \in Requests : req[r].pc \in StorePc \union {"del_index"} =>
     req[r].sids \intersect session = {}

\* A set that lists a dead session - what makes login answer "already logged
\* in" - is being cleaned by a request in progress, unless the session expired
\* or the request that ended it stopped half way.
StaleEntryIsBeingRemoved ==
  \A u \in Users : \A s \in index[u] :
     \/ s \in session \union left
     \/ \E r \in Requests : s \in Removing(r)

LockedOut(u) == index[u] # {} /\ index[u] \intersect session = {}

\* A set that no request is about to give a time to live, after a failure.
Lasting(u) ==
  /\ fails > 0 /\ u \notin ttl
  /\ ~ \E r \in Requests : At(r, "expire") /\ req[r].user = u

\* A user none of whose listed sessions is alive is not told for ever that he is
\* logged in elsewhere, whatever request left the dead ones behind half way:
\* EXPIRE follows every SADD, and no later command takes the time to live away.
\* Only a request that stops between the two can leave a set that lasts.
LockoutEnds == \A u \in Users : LockedOut(u) ~> (~LockedOut(u) \/ Lasting(u))

-----------------------------------------------------------------------------
(* What the code says and does not keep *)

\* refresh_session: "Refresh token mismatch or already used".  So one refresh
\* token is exchanged for one session.
RefreshTokenUsedOnce ==
  \A r, q \in Requests :
     /\ r # q
     /\ req[r].old \in Sids
     /\ {req[r].new, req[q].new} \subseteq session
     => req[r].old # req[q].old
=============================================================================
