------------------------ MODULE AuthSessions_proofs ------------------------
(***************************************************************************)
(* Proofs about AuthSessions for every set of users, sids and requests.    *)
(* None of the properties is inductive by itself.  What makes them hold is *)
(* the order of the Redis commands in each request: until SADD, nobody but *)
(* the request that drew a sid can name it (RequestInv, PairInv), so the   *)
(* commands of other requests cannot touch the session it is storing.      *)
(* The same invariant shows that the keys and the coroutines implement the *)
(* ledger of sessions, SessionLedger.                                      *)
(***************************************************************************)
EXTENDS AuthSessions, TLAPS

\* The labels at which a request holds a sid it drew; at which nobody else can
\* know it; at which it holds a sid it was given; past the SMEMBERS of a forced
\* login.
CreatingPc == {"check", "del_read", "del_keys", "del_index",
               "rot_del", "rot_srem"} \union StorePc
HiddenPc   == CreatingPc \ {"expire"}
OldPc      == {"rot_del", "rot_srem", "out_del", "out_srem"}
ReadPc     == {"del_keys", "del_index"} \union StorePc

OwnerInv ==
  /\ \A u \in Users : index[u] \subseteq OwnedBy(u)
  /\ \A s \in session \union issued : owner[s] \in Users

RequestInv(r) ==
  /\ ~At(r, "idle") => req[r].user \in Users
  /\ IF req[r].pc \in CreatingPc
       THEN /\ req[r].new \in Sids
            /\ owner[req[r].new] = req[r].user
            /\ req[r].new \notin issued
       ELSE req[r].new = NoSid
  /\ req[r].pc \in HiddenPc => \A u \in Users : req[r].new \notin index[u]
  /\ req[r].pc \in HiddenPc => (req[r].new \in session <=> At(r, "sadd"))
  /\ At(r, "expire") /\ req[r].new \in session =>
       req[r].new \in index[req[r].user] \union orphaned
  /\ req[r].pc \in OldPc => /\ req[r].old \in issued
                            /\ owner[req[r].old] = req[r].user
  /\ req[r].pc \in {"rot_srem", "out_srem"} => req[r].old \notin session
  /\ req[r].sids \subseteq OwnedBy(req[r].user)
  /\ req[r].todo \subseteq req[r].sids
  /\ req[r].pc \notin ReadPc => req[r].sids = {}
  /\ req[r].pc # "del_keys" => req[r].todo = {}
  /\ (req[r].sids \ req[r].todo) \intersect session = {}

PairInv(r, q) ==
  /\ r # q /\ req[r].new = req[q].new => req[r].new = NoSid
  /\ req[r].pc \in HiddenPc => req[r].new \notin req[q].sids

IInv ==
  /\ TypeOK
  /\ OwnerInv
  /\ \A r \in Requests : RequestInv(r)
  /\ \A r, q \in Requests : PairInv(r, q)
  /\ IssuedIsTracked
  /\ StaleEntryIsBeingRemoved
-----------------------------------------------------------------------------
(* What an assignment to req does *)

USE SessionAssumption
    DEF At, StorePc, CreatingPc, HiddenPc, OldPc, ReadPc, OwnedBy, Fresh

\* The labels a request can have, with the members of StorePc.
LEMMA LabelsType ==
  {"idle", "check", "del_read", "del_keys", "del_index", "rot_del", "rot_srem",
   "out_del", "out_srem", "set", "sadd", "expire"} = Labels
BY DEF Labels

\* A request that starts, or restarts as idle, has the locals it starts with.
LEMMA StartFacts ==
  ASSUME req \in [Requests -> Request], NEW r \in Requests,
         NEW l \in Labels, NEW u \in Users \union {NoUser},
         NEW n \in Sids \union {NoSid}, NEW o \in Sids \union {NoSid},
         req' = [req EXCEPT ![r] = Started(l, u, n, o)]
  PROVE  /\ req' \in [Requests -> Request]
         /\ req'[r].pc = l /\ req'[r].user = u
         /\ req'[r].new = n /\ req'[r].old = o
         /\ req'[r].sids = {} /\ req'[r].todo = {}
         /\ \A x \in Requests : x # r => req'[x] = req[x]
BY DEF Started, Request

\* A request that ends has the locals of an idle one; the others keep theirs.
LEMMA EndFacts ==
  ASSUME req \in [Requests -> Request], NEW r \in Requests, End(r)
  PROVE  /\ req' \in [Requests -> Request]
         /\ req'[r] = Idle
         /\ req'[r].pc = "idle" /\ req'[r].user = NoUser
         /\ req'[r].new = NoSid /\ req'[r].old = NoSid
         /\ req'[r].sids = {} /\ req'[r].todo = {}
         /\ \A x \in Requests : x # r => req'[x] = req[x]
BY LabelsType DEF End, Idle, Started, Request

\* Goto leaves the locals of the request alone.
LEMMA GotoFacts ==
  ASSUME req \in [Requests -> Request], NEW r \in Requests,
         NEW l \in Labels, Goto(r, l)
  PROVE  /\ req' \in [Requests -> Request]
         /\ req'[r].pc = l /\ req'[r].user = req[r].user
         /\ req'[r].new = req[r].new /\ req'[r].old = req[r].old
         /\ req'[r].sids = req[r].sids /\ req'[r].todo = req[r].todo
         /\ \A x \in Requests : x # r => req'[x] = req[x]
BY DEF Goto, Request

-----------------------------------------------------------------------------
(* Every action preserves the invariant *)

\* A login that starts keeps the invariant: the sid it draws is in no set and
\* no other request has it.
LEMMA LoginStartInv ==
  ASSUME IInv, NEW r \in Requests, NEW u \in Users, LoginStart(r, u)
  PROVE  IInv'
<1> USE DEF IInv, TypeOK, LoginStart, redis, history
<1>1. PICK s \in Sids :
        /\ owner[s] = NoUser
        /\ owner' = [owner EXCEPT ![s] = u]
        /\ req' = [req EXCEPT ![r] = Started("check", u, s, NoSid)]
  OBVIOUS
<1>2. /\ req' \in [Requests -> Request]
      /\ req'[r].pc = "check" /\ req'[r].user = u
      /\ req'[r].new = s /\ req'[r].old = NoSid
      /\ req'[r].sids = {} /\ req'[r].todo = {}
      /\ \A x \in Requests : x # r => req'[x] = req[x]
  <2>1. Started("check", u, s, NoSid) \in Request
    BY <1>1, LabelsType DEF Started, Request
  <2> QED BY <1>1, <2>1 DEF Started
<1>3. TypeOK'
  BY <1>1, <1>2
<1>4. OwnerInv'
  BY <1>1, <1>2 DEF OwnerInv, RequestInv
<1>5. ASSUME NEW x \in Requests PROVE RequestInv(x)'
  <2>1. CASE x = r
    BY <1>1, <1>2, <2>1 DEF OwnerInv, RequestInv, PairInv
  <2>2. CASE x # r
    BY <1>1, <1>2, <2>2 DEF OwnerInv, RequestInv, PairInv
  <2> QED BY <2>1, <2>2
<1>6. ASSUME NEW x \in Requests, NEW y \in Requests PROVE PairInv(x, y)'
  BY <1>1, <1>2 DEF OwnerInv, RequestInv, PairInv
<1>7. IssuedIsTracked'
  BY <1>1, <1>2 DEF IssuedIsTracked, OwnerInv, RequestInv
<1>8. StaleEntryIsBeingRemoved'
  BY <1>1, <1>2 DEF StaleEntryIsBeingRemoved, Removing, OwnerInv, RequestInv
<1> QED BY <1>3, <1>4, <1>5, <1>6, <1>7, <1>8

\* Reading the set at login changes a label only.
LEMMA LoginCheckInv ==
  ASSUME IInv, NEW r \in Requests, LoginCheck(r)
  PROVE  IInv'
<1> USE DEF IInv, TypeOK, redis, history
<1>1. At(r, "check") /\ UNCHANGED <<owner, redis, issued, fails, history>>
  BY DEF LoginCheck
<1>2. req[r].user \in Users
  BY <1>1 DEF RequestInv
<1>3. /\ req' \in [Requests -> Request]
      /\ \A x \in Requests : x # r => req'[x] = req[x]
      /\ req'[r].sids = {} /\ req'[r].todo = {}
      /\ \/ /\ req'[r].pc \in {"set", "del_read"}
            /\ req'[r].user = req[r].user /\ req'[r].new = req[r].new
         \/ req'[r].pc = "idle" /\ req'[r].new = NoSid
  <2>1. req[r].sids = {} /\ req[r].todo = {}
    BY <1>1 DEF RequestInv
  <2>2. CASE Goto(r, "set") \/ Goto(r, "del_read")
    BY <2>1, <2>2, GotoFacts, LabelsType
  <2>3. CASE End(r)
    BY <2>3, EndFacts
  <2> QED BY <2>2, <2>3 DEF LoginCheck
<1>4. TypeOK'
  BY <1>1, <1>3
<1>5. OwnerInv'
  BY <1>1 DEF OwnerInv
<1>6. ASSUME NEW x \in Requests PROVE RequestInv(x)'
  <2>1. CASE x = r
    BY <1>1, <1>2, <1>3, <2>1 DEF RequestInv
  <2>2. CASE x # r
    BY <1>1, <1>3, <2>2 DEF RequestInv
  <2> QED BY <2>1, <2>2
<1>7. ASSUME NEW x \in Requests, NEW y \in Requests PROVE PairInv(x, y)'
  BY <1>1, <1>3 DEF PairInv
<1>8. IssuedIsTracked'
  BY <1>1 DEF IssuedIsTracked
<1>9. StaleEntryIsBeingRemoved'
  BY <1>1, <1>3 DEF StaleEntryIsBeingRemoved, Removing
<1> QED BY <1>4, <1>5, <1>6, <1>7, <1>8, <1>9

\* SMEMBERS of a forced login: nothing it read is deleted yet.
LEMMA DeleteAllReadInv ==
  ASSUME IInv, NEW r \in Requests, DeleteAllRead(r)
  PROVE  IInv'
<1> DEFINE found == index[req[r].user]
           label == IF found = {} THEN "set" ELSE "del_keys"
           q     == [req[r] EXCEPT !.sids = found, !.todo = found, !.pc = label]
<1> USE DEF IInv, TypeOK, redis, history
<1>1. /\ At(r, "del_read")
      /\ req' = [req EXCEPT ![r] = q]
      /\ UNCHANGED <<owner, redis, issued, fails, history>>
  BY DEF DeleteAllRead
<1>2. req[r].user \in Users
  BY <1>1 DEF RequestInv
<1>3. /\ q \in Request
      /\ q.pc = label /\ q.user = req[r].user
      /\ q.new = req[r].new /\ q.old = req[r].old
      /\ q.sids = found /\ q.todo = found
  <2>1. req[r] \in Request
    OBVIOUS
  <2> QED BY <1>2, <2>1, LabelsType DEF Request
<1> HIDE DEF q
<1>4. /\ req' \in [Requests -> Request]
      /\ req'[r] = q
      /\ \A x \in Requests : x # r => req'[x] = req[x]
  BY <1>1, <1>3
<1>5. TypeOK'
  BY <1>1, <1>4
<1>6. OwnerInv'
  BY <1>1 DEF OwnerInv
<1>7. ASSUME NEW x \in Requests PROVE RequestInv(x)'
  <2>1. CASE x = r
    <3>1. found \ found = {} /\ found \subseteq OwnedBy(req[r].user)
      BY <1>2 DEF OwnerInv
    <3> HIDE DEF label
    <3>2. label \in {"set", "del_keys"} /\ (label = "set" => found = {})
      BY DEF label
    <3> HIDE DEF found
    <3> QED BY <1>1, <1>2, <1>3, <1>4, <2>1, <3>1, <3>2 DEF RequestInv
  <2>2. CASE x # r
    BY <1>1, <1>4, <2>2 DEF RequestInv
  <2> QED BY <2>1, <2>2
<1>8. ASSUME NEW x \in Requests, NEW y \in Requests PROVE PairInv(x, y)'
  BY <1>1, <1>2, <1>3, <1>4 DEF RequestInv, PairInv
<1>9. IssuedIsTracked'
  BY <1>1 DEF IssuedIsTracked
<1>10. StaleEntryIsBeingRemoved'
  BY <1>1, <1>2, <1>3, <1>4 DEF StaleEntryIsBeingRemoved, Removing, RequestInv
<1> QED BY <1>5, <1>6, <1>7, <1>8, <1>9, <1>10

\* One DEL of a forced login: the sid it kills is being removed by it.
LEMMA DeleteAllKeyInv ==
  ASSUME IInv, NEW r \in Requests, DeleteAllKey(r)
  PROVE  IInv'
<1> USE DEF IInv, TypeOK, redis, history
<1>1. PICK s \in req[r].todo :
        /\ session' = session \ {s}
        /\ outlives' = outlives \ {s}
        /\ req' = [req EXCEPT ![r].todo = @ \ {s},
                              ![r].pc = AfterKey(req[r].todo \ {s})]
  BY DEF DeleteAllKey
<1> DEFINE rest  == req[r].todo \ {s}
           label == AfterKey(rest)
           q     == [req[r] EXCEPT !.todo = rest, !.pc = label]
<1>2. /\ At(r, "del_keys")
      /\ req' = [req EXCEPT ![r] = q]
      /\ UNCHANGED <<owner, index, ttl, issued, fails, history>>
  BY <1>1 DEF DeleteAllKey
<1>3. label \in {"del_keys", "del_index"} /\ (label = "del_index" => rest = {})
  BY DEF AfterKey
<1> HIDE DEF label
<1>4. /\ q \in Request
      /\ q.pc = label /\ q.user = req[r].user
      /\ q.new = req[r].new /\ q.old = req[r].old
      /\ q.sids = req[r].sids /\ q.todo = rest
  <2>1. req[r] \in Request
    OBVIOUS
  <2> QED BY <1>3, <2>1, LabelsType DEF Request
<1> HIDE DEF q
<1>5. /\ req' \in [Requests -> Request]
      /\ req'[r] = q
      /\ \A x \in Requests : x # r => req'[x] = req[x]
  BY <1>2, <1>4
<1>6. TypeOK'
  <2>1. session' \in SUBSET Sids /\ outlives' \in SUBSET Sids
    BY <1>1
  <2> QED BY <1>2, <1>5, <2>1
<1>7. OwnerInv'
  <2>1. session' \subseteq session
    BY <1>1
  <2> QED BY <1>2, <2>1 DEF OwnerInv
<1>8. ASSUME NEW x \in Requests PROVE RequestInv(x)'
  <2>1. session' = session \ {s}
    BY <1>1
  <2>2. CASE x = r
    BY <1>2, <1>3, <1>4, <1>5, <2>1, <2>2 DEF RequestInv, PairInv
  <2>3. CASE x # r
    BY <1>2, <1>5, <2>1, <2>3 DEF RequestInv, PairInv
  <2> QED BY <2>2, <2>3
<1>9. ASSUME NEW x \in Requests, NEW y \in Requests PROVE PairInv(x, y)'
  BY <1>2, <1>3, <1>4, <1>5 DEF RequestInv, PairInv
<1>10. IssuedIsTracked'
  <2>1. session' \subseteq session
    BY <1>1
  <2> QED BY <1>2, <2>1 DEF IssuedIsTracked
<1>11. StaleEntryIsBeingRemoved'
  <2>1. session' = session \ {s}
    BY <1>1
  <2> QED BY <1>2, <1>3, <1>4, <1>5, <2>1
        DEF StaleEntryIsBeingRemoved, Removing, RequestInv
<1> QED BY <1>6, <1>7, <1>8, <1>9, <1>10, <1>11

\* DEL of the set by a forced login: what it listed is dead or orphaned.
LEMMA DeleteAllIndexInv ==
  ASSUME IInv, NEW r \in Requests, DeleteAllIndex(r)
  PROVE  IInv'
<1> USE DEF IInv, TypeOK, DeleteAllIndex, DropIndex, redis, history
<1>1. req[r].user \in Users
  BY DEF RequestInv
<1>2. /\ req' \in [Requests -> Request]
      /\ req'[r].pc = "set" /\ req'[r].user = req[r].user
      /\ req'[r].new = req[r].new /\ req'[r].old = req[r].old
      /\ req'[r].sids = req[r].sids /\ req'[r].todo = req[r].todo
      /\ \A x \in Requests : x # r => req'[x] = req[x]
  BY GotoFacts, LabelsType
<1>3. TypeOK'
  BY <1>1, <1>2
<1>4. OwnerInv'
  BY <1>1, <1>2 DEF OwnerInv, RequestInv
<1>5. ASSUME NEW x \in Requests PROVE RequestInv(x)'
  <2>1. CASE x = r
    BY <1>1, <1>2, <2>1 DEF OwnerInv, RequestInv, PairInv
  <2>2. CASE x # r
    BY <1>1, <1>2, <2>2 DEF OwnerInv, RequestInv, PairInv
  <2> QED BY <2>1, <2>2
<1>6. ASSUME NEW x \in Requests, NEW y \in Requests PROVE PairInv(x, y)'
  BY <1>1, <1>2 DEF OwnerInv, RequestInv, PairInv
<1>7. IssuedIsTracked'
  BY <1>1, <1>2 DEF IssuedIsTracked, OwnerInv, RequestInv
<1>8. StaleEntryIsBeingRemoved'
  BY <1>1, <1>2 DEF StaleEntryIsBeingRemoved, Removing, OwnerInv, RequestInv
<1> QED BY <1>3, <1>4, <1>5, <1>6, <1>7, <1>8

\* SET: only the request that drew the sid knows it, so no client holds its
\* tokens, no set lists it and no forced login had read it.
LEMMA SetSessionInv ==
  ASSUME IInv, NEW r \in Requests, SetSession(r)
  PROVE  IInv'
<1> USE DEF IInv, TypeOK, SetSession, redis, history
<1>1. /\ req[r].user \in Users /\ req[r].new \in Sids
      /\ owner[req[r].new] = req[r].user
  BY DEF RequestInv
<1>2. /\ req' \in [Requests -> Request]
      /\ req'[r].pc = "sadd" /\ req'[r].user = req[r].user
      /\ req'[r].new = req[r].new /\ req'[r].old = req[r].old
      /\ req'[r].sids = req[r].sids /\ req'[r].todo = req[r].todo
      /\ \A x \in Requests : x # r => req'[x] = req[x]
  BY GotoFacts, LabelsType
<1>3. TypeOK'
  BY <1>1, <1>2
<1>4. OwnerInv'
  BY <1>1, <1>2 DEF OwnerInv, RequestInv
<1>5. ASSUME NEW x \in Requests PROVE RequestInv(x)'
  <2>1. CASE x = r
    BY <1>1, <1>2, <2>1 DEF OwnerInv, RequestInv, PairInv
  <2>2. CASE x # r
    BY <1>1, <1>2, <2>2 DEF OwnerInv, RequestInv, PairInv
  <2> QED BY <2>1, <2>2
<1>6. ASSUME NEW x \in Requests, NEW y \in Requests PROVE PairInv(x, y)'
  BY <1>1, <1>2 DEF OwnerInv, RequestInv, PairInv
<1>7. IssuedIsTracked'
  BY <1>1, <1>2 DEF IssuedIsTracked, OwnerInv, RequestInv
<1>8. StaleEntryIsBeingRemoved'
  BY <1>1, <1>2 DEF StaleEntryIsBeingRemoved, Removing, OwnerInv, RequestInv
<1> QED BY <1>3, <1>4, <1>5, <1>6, <1>7, <1>8

\* SADD: the sid that enters the set is alive, or another request that ended
\* it would have known it.
LEMMA AddUserSessionInv ==
  ASSUME IInv, NEW r \in Requests, AddUserSession(r)
  PROVE  IInv'
<1> USE DEF IInv, TypeOK, AddUserSession, SAdd, redis, history
<1>1. /\ req[r].user \in Users /\ req[r].new \in Sids
      /\ owner[req[r].new] = req[r].user
  BY DEF RequestInv
<1>2. /\ req' \in [Requests -> Request]
      /\ req'[r].pc = "expire" /\ req'[r].user = req[r].user
      /\ req'[r].new = req[r].new /\ req'[r].old = req[r].old
      /\ req'[r].sids = req[r].sids /\ req'[r].todo = req[r].todo
      /\ \A x \in Requests : x # r => req'[x] = req[x]
  BY GotoFacts, LabelsType
<1>3. TypeOK'
  BY <1>1, <1>2
<1>4. OwnerInv'
  BY <1>1, <1>2 DEF OwnerInv, RequestInv
<1>5. ASSUME NEW x \in Requests PROVE RequestInv(x)'
  <2>1. CASE x = r
    BY <1>1, <1>2, <2>1 DEF OwnerInv, RequestInv, PairInv
  <2>2. CASE x # r
    BY <1>1, <1>2, <2>2 DEF OwnerInv, RequestInv, PairInv
  <2> QED BY <2>1, <2>2
<1>6. ASSUME NEW x \in Requests, NEW y \in Requests PROVE PairInv(x, y)'
  BY <1>1, <1>2 DEF OwnerInv, RequestInv, PairInv
<1>7. IssuedIsTracked'
  BY <1>1, <1>2 DEF IssuedIsTracked, OwnerInv, RequestInv
<1>8. StaleEntryIsBeingRemoved'
  BY <1>1, <1>2 DEF StaleEntryIsBeingRemoved, Removing, OwnerInv, RequestInv
<1> QED BY <1>3, <1>4, <1>5, <1>6, <1>7, <1>8

\* EXPIRE and the answer: the sid returned is in the set, or was dropped
\* with it.
LEMMA ExpireUserSessionsInv ==
  ASSUME IInv, NEW r \in Requests, ExpireUserSessions(r)
  PROVE  IInv'
<1> USE DEF IInv, TypeOK, ExpireUserSessions, Expire, redis, history
<1>1. /\ req[r].user \in Users /\ req[r].new \in Sids
      /\ owner[req[r].new] = req[r].user
  BY DEF RequestInv
<1>2. /\ req' \in [Requests -> Request]
      /\ req'[r].pc = "idle" /\ req'[r].user = NoUser
      /\ req'[r].new = NoSid /\ req'[r].old = NoSid
      /\ req'[r].sids = {} /\ req'[r].todo = {}
      /\ \A x \in Requests : x # r => req'[x] = req[x]
      /\ req'[r] = Idle
  BY EndFacts
<1>3. TypeOK'
  BY <1>1, <1>2
<1>4. OwnerInv'
  BY <1>1, <1>2 DEF OwnerInv, RequestInv
<1>5. ASSUME NEW x \in Requests PROVE RequestInv(x)'
  <2>1. CASE x = r
    BY <1>1, <1>2, <2>1 DEF OwnerInv, RequestInv, PairInv
  <2>2. CASE x # r
    BY <1>1, <1>2, <2>2 DEF OwnerInv, RequestInv, PairInv
  <2> QED BY <2>1, <2>2
<1>6. ASSUME NEW x \in Requests, NEW y \in Requests PROVE PairInv(x, y)'
  BY <1>1, <1>2 DEF OwnerInv, RequestInv, PairInv
<1>7. IssuedIsTracked'
  BY <1>1, <1>2 DEF IssuedIsTracked, OwnerInv, RequestInv
<1>8. StaleEntryIsBeingRemoved'
  BY <1>1, <1>2 DEF StaleEntryIsBeingRemoved, Removing, OwnerInv, RequestInv
<1> QED BY <1>3, <1>4, <1>5, <1>6, <1>7, <1>8

\* A refresh that starts presents a sid its client holds and draws a fresh one.
LEMMA RefreshStartInv ==
  ASSUME IInv, NEW r \in Requests, NEW s \in Sids, RefreshStart(r, s)
  PROVE  IInv'
<1> USE DEF IInv, TypeOK, RefreshStart, Replacement, redis, history
<1>1. PICK t \in Sids :
        /\ owner[t] = NoUser
        /\ owner' = [owner EXCEPT ![t] = owner[s]]
        /\ req' = [req EXCEPT ![r] = Started("rot_del", owner[s], t, s)]
  OBVIOUS
<1>2. /\ req' \in [Requests -> Request]
      /\ req'[r].pc = "rot_del" /\ req'[r].user = owner[s]
      /\ req'[r].new = t /\ req'[r].old = s
      /\ req'[r].sids = {} /\ req'[r].todo = {}
      /\ \A x \in Requests : x # r => req'[x] = req[x]
  <2>1. Started("rot_del", owner[s], t, s) \in Request
    BY <1>1, LabelsType DEF Started, Request
  <2> QED BY <1>1, <2>1 DEF Started
<1>3. TypeOK'
  BY <1>1, <1>2
<1>4. OwnerInv'
  BY <1>1, <1>2 DEF OwnerInv, RequestInv
<1>5. ASSUME NEW x \in Requests PROVE RequestInv(x)'
  <2>1. CASE x = r
    BY <1>1, <1>2, <2>1 DEF OwnerInv, RequestInv, PairInv
  <2>2. CASE x # r
    BY <1>1, <1>2, <2>2 DEF OwnerInv, RequestInv, PairInv
  <2> QED BY <2>1, <2>2
<1>6. ASSUME NEW x \in Requests, NEW y \in Requests PROVE PairInv(x, y)'
  BY <1>1, <1>2 DEF OwnerInv, RequestInv, PairInv
<1>7. IssuedIsTracked'
  BY <1>1, <1>2 DEF IssuedIsTracked, OwnerInv, RequestInv
<1>8. StaleEntryIsBeingRemoved'
  BY <1>1, <1>2 DEF StaleEntryIsBeingRemoved, Removing, OwnerInv, RequestInv
<1> QED BY <1>3, <1>4, <1>5, <1>6, <1>7, <1>8

\* A logout that starts presents a sid its client holds.
LEMMA LogoutStartInv ==
  ASSUME IInv, NEW r \in Requests, NEW s \in Sids, LogoutStart(r, s)
  PROVE  IInv'
<1> USE DEF IInv, TypeOK, LogoutStart, redis, history
<1>2. /\ req' \in [Requests -> Request]
      /\ req'[r].pc = "out_del" /\ req'[r].user = owner[s]
      /\ req'[r].new = NoSid /\ req'[r].old = s
      /\ req'[r].sids = {} /\ req'[r].todo = {}
      /\ \A x \in Requests : x # r => req'[x] = req[x]
  <2>1. Started("out_del", owner[s], NoSid, s) \in Request
    BY LabelsType DEF Started, Request
  <2> QED BY <2>1 DEF Started
<1>3. TypeOK'
  BY <1>2, LabelsType
<1>4. OwnerInv'
  BY <1>2 DEF OwnerInv, RequestInv
<1>5. ASSUME NEW x \in Requests PROVE RequestInv(x)'
  <2>1. CASE x = r
    BY <1>2, <2>1 DEF OwnerInv, RequestInv, PairInv
  <2>2. CASE x # r
    BY <1>2, <2>2 DEF OwnerInv, RequestInv, PairInv
  <2> QED BY <2>1, <2>2
<1>6. ASSUME NEW x \in Requests, NEW y \in Requests PROVE PairInv(x, y)'
  BY <1>2 DEF OwnerInv, RequestInv, PairInv
<1>7. IssuedIsTracked'
  BY <1>2 DEF IssuedIsTracked, OwnerInv, RequestInv
<1>8. StaleEntryIsBeingRemoved'
  BY <1>2 DEF StaleEntryIsBeingRemoved, Removing, OwnerInv, RequestInv
<1> QED BY <1>3, <1>4, <1>5, <1>6, <1>7, <1>8

\* DEL of the presented session: its request takes it out of the set next.
LEMMA DeleteOldInv ==
  ASSUME IInv, NEW r \in Requests, DeleteOld(r)
  PROVE  IInv'
<1> USE DEF IInv, TypeOK, DeleteOld, redis, history
<1>1. req[r].user \in Users
  BY DEF RequestInv
<1>2. /\ req' \in [Requests -> Request]
      /\ req'[r].pc = (IF req[r].pc = "rot_del" THEN "rot_srem" ELSE "out_srem")
      /\ req'[r].user = req[r].user
      /\ req'[r].new = req[r].new /\ req'[r].old = req[r].old
      /\ req'[r].sids = req[r].sids /\ req'[r].todo = req[r].todo
      /\ \A x \in Requests : x # r => req'[x] = req[x]
  BY GotoFacts, LabelsType
<1>3. TypeOK'
  BY <1>1, <1>2
<1>4. OwnerInv'
  BY <1>1, <1>2 DEF OwnerInv, RequestInv
<1>5. ASSUME NEW x \in Requests PROVE RequestInv(x)'
  <2>1. CASE x = r
    BY <1>1, <1>2, <2>1 DEF OwnerInv, RequestInv, PairInv
  <2>2. CASE x # r
    BY <1>1, <1>2, <2>2 DEF OwnerInv, RequestInv, PairInv
  <2> QED BY <2>1, <2>2
<1>6. ASSUME NEW x \in Requests, NEW y \in Requests PROVE PairInv(x, y)'
  BY <1>1, <1>2 DEF OwnerInv, RequestInv, PairInv
<1>7. IssuedIsTracked'
  BY <1>1, <1>2 DEF IssuedIsTracked, OwnerInv, RequestInv
<1>8. StaleEntryIsBeingRemoved'
  BY <1>1, <1>2 DEF StaleEntryIsBeingRemoved, Removing, OwnerInv, RequestInv
<1> QED BY <1>3, <1>4, <1>5, <1>6, <1>7, <1>8

\* SREM of the presented session, which is dead by then.
LEMMA RemoveOldInv ==
  ASSUME IInv, NEW r \in Requests, RemoveOld(r)
  PROVE  IInv'
<1> USE DEF IInv, TypeOK, redis, history
<1>1. /\ req[r].pc \in {"rot_srem", "out_srem"}
      /\ index' = [index EXCEPT ![req[r].user] = @ \ {req[r].old}]
      /\ UNCHANGED <<owner, session, outlives, issued, fails, history>>
  BY DEF RemoveOld, SRem
<1>2. /\ req[r].user \in Users
      /\ req[r].old \in issued /\ req[r].old \notin session
      /\ owner[req[r].old] = req[r].user
      /\ req[r].sids = {} /\ req[r].todo = {}
  BY <1>1 DEF RequestInv
<1>3. /\ req' \in [Requests -> Request]
      /\ \A x \in Requests : x # r => req'[x] = req[x]
      /\ req'[r].sids = {} /\ req'[r].todo = {}
      /\ \/ /\ At(r, "rot_srem") /\ req'[r].pc = "set"
            /\ req'[r].user = req[r].user /\ req'[r].new = req[r].new
         \/ req'[r].pc = "idle" /\ req'[r].new = NoSid
  <2>1. CASE At(r, "rot_srem") /\ Goto(r, "set")
    BY <1>2, <2>1, GotoFacts, LabelsType
  <2>2. CASE End(r)
    BY <2>2, EndFacts
  <2> QED BY <2>1, <2>2 DEF RemoveOld
<1>4. TypeOK'
  <2>1. ttl' \in SUBSET Users
    BY DEF RemoveOld, SRem
  <2> QED BY <1>1, <1>3, <2>1
<1>5. OwnerInv'
  BY <1>1 DEF OwnerInv
<1>6. ASSUME NEW x \in Requests PROVE RequestInv(x)'
  <2>1. CASE x = r
    BY <1>1, <1>2, <1>3, <2>1 DEF RequestInv
  <2>2. CASE x # r
    BY <1>1, <1>2, <1>3, <2>2 DEF RequestInv
  <2> QED BY <2>1, <2>2
<1>7. ASSUME NEW x \in Requests, NEW y \in Requests PROVE PairInv(x, y)'
  BY <1>1, <1>3 DEF PairInv
<1>8. IssuedIsTracked'
  BY <1>1, <1>2 DEF IssuedIsTracked
<1>9. StaleEntryIsBeingRemoved'
  BY <1>1, <1>2, <1>3
     DEF StaleEntryIsBeingRemoved, Removing, OwnerInv
<1> QED BY <1>4, <1>5, <1>6, <1>7, <1>8, <1>9

\* A request that stops leaves to the history what it had to remove.
LEMMA FailInv ==
  ASSUME IInv, NEW r \in Requests, Fail(r)
  PROVE  IInv'
<1> USE DEF IInv, TypeOK, Fail, redis, history
<1>2. /\ req' \in [Requests -> Request]
      /\ req'[r].pc = "idle" /\ req'[r].user = NoUser
      /\ req'[r].new = NoSid /\ req'[r].old = NoSid
      /\ req'[r].sids = {} /\ req'[r].todo = {}
      /\ \A x \in Requests : x # r => req'[x] = req[x]
      /\ req'[r] = Idle
  BY EndFacts
<1>3. TypeOK'
  <2>1. Removing(r) \subseteq Sids
    BY DEF Removing, RequestInv, OwnerInv
  <2>2. fails' \in 0..MaxFails
    OBVIOUS
  <2> QED BY <1>2, <2>1, <2>2
<1>4. OwnerInv'
  BY <1>2 DEF OwnerInv, RequestInv
<1>5. ASSUME NEW x \in Requests PROVE RequestInv(x)'
  <2>1. CASE x = r
    BY <1>2, <2>1 DEF OwnerInv, RequestInv, PairInv
  <2>2. CASE x # r
    BY <1>2, <2>2 DEF OwnerInv, RequestInv, PairInv
  <2> QED BY <2>1, <2>2
<1>6. ASSUME NEW x \in Requests, NEW y \in Requests PROVE PairInv(x, y)'
  BY <1>2 DEF OwnerInv, RequestInv, PairInv
<1>7. IssuedIsTracked'
  BY <1>2 DEF IssuedIsTracked, OwnerInv, RequestInv
<1>8. StaleEntryIsBeingRemoved'
  BY <1>2 DEF StaleEntryIsBeingRemoved, Removing, OwnerInv, RequestInv
<1> QED BY <1>3, <1>4, <1>5, <1>6, <1>7, <1>8

\* A key that expires leaves its sid in the set, and in the history.
LEMMA SessionExpiresInv ==
  ASSUME IInv, NEW s \in Sids, SessionExpires(s)
  PROVE  IInv'
<1> USE DEF IInv, TypeOK, SessionExpires, redis, history
<1>3. TypeOK'
  OBVIOUS
<1>4. OwnerInv'
  BY DEF OwnerInv, RequestInv
<1>5. ASSUME NEW x \in Requests PROVE RequestInv(x)'
  BY DEF OwnerInv, RequestInv
<1>6. ASSUME NEW x \in Requests, NEW y \in Requests PROVE PairInv(x, y)'
  BY DEF OwnerInv, RequestInv, PairInv
<1>7. IssuedIsTracked'
  BY DEF IssuedIsTracked, OwnerInv, RequestInv
<1>8. StaleEntryIsBeingRemoved'
  BY DEF StaleEntryIsBeingRemoved, Removing, OwnerInv, RequestInv
<1> QED BY <1>3, <1>4, <1>5, <1>6, <1>7, <1>8

\* A set that expires orphans the live sessions it lists.
LEMMA IndexExpiresInv ==
  ASSUME IInv, NEW u \in Users, IndexExpires(u)
  PROVE  IInv'
<1> USE DEF IInv, TypeOK, IndexExpires, DropIndex, redis, history
<1>3. TypeOK'
  OBVIOUS
<1>4. OwnerInv'
  BY DEF OwnerInv, RequestInv
<1>5. ASSUME NEW x \in Requests PROVE RequestInv(x)'
  BY DEF OwnerInv, RequestInv
<1>6. ASSUME NEW x \in Requests, NEW y \in Requests PROVE PairInv(x, y)'
  BY DEF OwnerInv, RequestInv, PairInv
<1>7. IssuedIsTracked'
  BY DEF IssuedIsTracked, OwnerInv, RequestInv
<1>8. StaleEntryIsBeingRemoved'
  BY DEF StaleEntryIsBeingRemoved, Removing, OwnerInv, RequestInv
<1> QED BY <1>3, <1>4, <1>5, <1>6, <1>7, <1>8
-----------------------------------------------------------------------------
(* The invariant and what follows from it *)

\* The invariant holds when Redis is empty and nothing runs.
LEMMA InitInv == Init => IInv
<1> SUFFICES ASSUME Init PROVE IInv
  OBVIOUS
<1> USE DEF Init
<1>1. TypeOK
  BY LabelsType DEF TypeOK, Idle, Started, Request
<1>2. \A r \in Requests : /\ req[r].pc = "idle" /\ req[r].new = NoSid
                          /\ req[r].sids = {} /\ req[r].todo = {}
  BY DEF Idle, Started
<1>3. OwnerInv /\ IssuedIsTracked /\ StaleEntryIsBeingRemoved
  BY DEF OwnerInv, IssuedIsTracked, StaleEntryIsBeingRemoved
<1>4. ASSUME NEW r \in Requests PROVE RequestInv(r)
  BY <1>2 DEF RequestInv
<1>5. ASSUME NEW r \in Requests, NEW q \in Requests PROVE PairInv(r, q)
  BY <1>2 DEF PairInv
<1> QED BY <1>1, <1>3, <1>4, <1>5 DEF IInv

\* Every step, and a stutter, keeps the invariant.
LEMMA NextInv == IInv /\ [Next]_vars => IInv'
<1> SUFFICES ASSUME IInv, [Next]_vars PROVE IInv'
  OBVIOUS
<1>1. CASE UNCHANGED vars
  BY <1>1 DEF vars, redis, history, IInv, TypeOK, OwnerInv, RequestInv, PairInv,
              IssuedIsTracked, StaleEntryIsBeingRemoved, Removing
<1>2. ASSUME NEW r \in Requests, Step(r) PROVE IInv'
  BY <1>2, LoginCheckInv, DeleteAllReadInv, DeleteAllKeyInv, DeleteAllIndexInv,
     SetSessionInv, AddUserSessionInv, ExpireUserSessionsInv, DeleteOldInv,
     RemoveOldInv DEF Step
<1> QED BY <1>1, <1>2, LoginStartInv, RefreshStartInv, LogoutStartInv, FailInv,
           SessionExpiresInv, IndexExpiresInv DEF Next

\* The invariant holds in every reachable state.
THEOREM Invariance == Spec => []IInv
BY InitInv, NextInv, PTL DEF Spec

\* Every variable of the session model keeps its type.
THEOREM TypeCorrect == Spec => []TypeOK
BY Invariance, PTL DEF IInv

\* A live session whose tokens were returned is in its owner's set, unless the
\* set was dropped while it was listed: login, refresh and logout of any number
\* of clients, interleaved and failing anywhere, lose no session otherwise.
THEOREM TrackingCorrect == Spec => []IssuedIsTracked
BY Invariance, PTL DEF IInv

\* A dead session stays in a set only while a request is removing it, or
\* because it expired or the request that ended it stopped half way.
THEOREM StaleEntriesExplained == Spec => []StaleEntryIsBeingRemoved
BY Invariance, PTL DEF IInv

\* The sessions a forced login read from the set are dead when it drops the set,
\* and no other request revives them while it stores its own session.
THEOREM ForcedLogoutCorrect == Spec => []ForcedLogoutIsFinal
<1>1. IInv => ForcedLogoutIsFinal
  BY DEF IInv, RequestInv, ForcedLogoutIsFinal
<1> QED BY <1>1, Invariance, PTL

\* A session that was ended is never alive again: SET runs while only the
\* request that drew the sid knows it.
THEOREM EndedStaysEnded == Spec => NoResurrection
<1>1. ASSUME IInv, [Next]_vars PROVE UnknownWhenStored
  <2>1. ASSUME NEW r \in Requests, SetSession(r) PROVE UnknownWhenStored
    BY <1>1, <2>1 DEF SetSession, IInv, RequestInv, UnknownWhenStored
  <2>2. ASSUME session' \subseteq session PROVE UnknownWhenStored
    BY <2>2 DEF UnknownWhenStored
  <2>3. ASSUME NEW r \in Requests, Step(r), ~SetSession(r)
        PROVE  session' \subseteq session
    BY <2>3 DEF Step, LoginCheck, DeleteAllRead, DeleteAllKey, DeleteAllIndex,
                AddUserSession, ExpireUserSessions, DeleteOld, RemoveOld, redis
  <2>4. UNCHANGED vars => session' \subseteq session
    BY DEF vars, redis
  <2> QED BY <1>1, <2>1, <2>2, <2>3, <2>4
          DEF Next, LoginStart, RefreshStart, LogoutStart, Fail, SessionExpires,
              IndexExpires, redis
<1> QED BY <1>1, Invariance, PTL DEF Spec, NoResurrection

-----------------------------------------------------------------------------
(* AuthSessions implements SessionLedger: every Redis command of login,     *)
(* refresh and logout moves at most one session, and only the way the       *)
(* ledger allows.  The invariant rules the other moves out: a sid that is   *)
(* still to be stored is not stored, and belongs to one request.            *)

USE DEF At, StorePc, CreatingPc, HiddenPc, OldPc, ReadPc, OwnedBy, Fresh

-----------------------------------------------------------------------------
(* Stages before and after a step *)

\* The stage of a sid depends on its owner, its key and the pending requests.
LEMMA StageIs ==
  ASSUME NEW s \in Sids
  PROVE  /\ owner[s] = NoUser => Stage(s) = "free"
         /\ owner[s] # NoUser /\ s \in session => Stage(s) = "open"
         /\ owner[s] # NoUser /\ s \notin session /\ Pending(s)
              => Stage(s) = "drawn"
         /\ owner[s] # NoUser /\ s \notin session /\ ~Pending(s)
              => Stage(s) = "closed"
         /\ owner'[s] = NoUser => Stage(s)' = "free"
         /\ owner'[s] # NoUser /\ s \in session' => Stage(s)' = "open"
         /\ owner'[s] # NoUser /\ s \notin session' /\ Pending(s)'
              => Stage(s)' = "drawn"
         /\ owner'[s] # NoUser /\ s \notin session' /\ ~Pending(s)'
              => Stage(s)' = "closed"
BY DEF Stage, Pending

\* A sid of which neither of the three changes stays where it was.
LEMMA StageStays ==
  ASSUME NEW s \in Sids, owner'[s] = owner[s],
         s \in session' <=> s \in session, Pending(s)' <=> Pending(s)
  PROVE  Stage(s)' = Stage(s)
BY StageIs

\* A step that changes the stage of one sid is a move of the ledger.
LEMMA MovesOne ==
  ASSUME NEW t \in Sids, NEW here, NEW next,
         Stage(t) = here, Stage(t)' = next,
         \A s \in Sids \ {t} : Stage(s)' = Stage(s)
  PROVE  Ledger!Moves(t, here, next)
BY DEF Ledger!Moves

\* A step that changes no stage leaves the ledger's stages alone.
LEMMA MovesNone ==
  ASSUME \A s \in Sids : Stage(s)' = Stage(s)
  PROVE  [s \in Sids |-> Stage(s)]' = [s \in Sids |-> Stage(s)]
OBVIOUS

\* A sid that a request is going to store is drawn: it has an owner, is not
\* stored, and no other request has it.
LEMMA PendingFacts ==
  ASSUME IInv, NEW r \in Requests, Unstored(r), req[r].new \in Sids
  PROVE  /\ owner[req[r].new] # NoUser
         /\ req[r].new \notin session
         /\ Stage(req[r].new) = "drawn"
         /\ \A q \in Requests \ {r} : req[q].new # req[r].new
<1>1. req[r].pc \in HiddenPc /\ ~At(r, "sadd")
  BY DEF IInv, TypeOK, Request, Labels, RequestInv, Unstored
<1>2. owner[req[r].new] # NoUser /\ req[r].new \notin session
  BY <1>1 DEF IInv, RequestInv
<1>3. \A q \in Requests \ {r} : req[q].new # req[r].new
  BY DEF IInv, PairInv
<1> QED BY <1>2, <1>3, StageIs DEF Pending

\* A session that is stored is not pending, and has an owner.
LEMMA StoredFacts ==
  ASSUME IInv, NEW s \in session
  PROVE  s \in Sids /\ owner[s] # NoUser /\ ~Pending(s)
<1>1. s \in Sids /\ owner[s] # NoUser
  BY DEF IInv, TypeOK, OwnerInv
<1> QED BY <1>1, PendingFacts DEF Pending

\* Only the request r changes, and stays as it was toward its sid: every sid
\* is as pending as before.
LEMMA PendingStays ==
  ASSUME NEW r \in Requests,
         \A x \in Requests : x # r => req'[x] = req[x],
         \/ req'[r].new = req[r].new /\ (Unstored(r)' <=> Unstored(r))
         \/ /\ req[r].new = NoSid \/ ~Unstored(r)
            /\ req'[r].new = NoSid \/ ~Unstored(r)',
         NEW s \in Sids
  PROVE  Pending(s)' <=> Pending(s)
BY DEF Pending, Unstored

-----------------------------------------------------------------------------
(* The kinds of steps *)

\* A request draws a fresh sid.
LEMMA DrawStep ==
  ASSUME IInv, NEW r \in Requests, NEW t \in Fresh, NEW u \in Users,
         At(r, "idle"), owner' = [owner EXCEPT ![t] = u],
         session' = session, issued' = issued,
         req'[r].new = t, Unstored(r)',
         \A x \in Requests : x # r => req'[x] = req[x]
  PROVE  Ledger!Draw(t, u)
<1>1. owner[t] = NoUser /\ owner'[t] = u /\ t \notin session
  BY DEF IInv, TypeOK, OwnerInv
<1>2. Stage(t) = "free" /\ Stage(t)' = "drawn"
  BY <1>1, StageIs DEF Pending
<1>3. ASSUME NEW s \in Sids \ {t} PROVE Stage(s)' = Stage(s)
  <2>1. Pending(s)' <=> Pending(s)
    BY DEF Pending, Unstored
  <2>2. owner'[s] = owner[s]
    BY DEF IInv, TypeOK
  <2> QED BY <2>1, <2>2, StageStays
<1> QED BY <1>2, <1>3, MovesOne DEF Ledger!Draw

\* A key goes, if it was there; nothing else of the ledger changes.
LEMMA DropStep ==
  ASSUME IInv, NEW t \in Sids, owner' = owner, issued' = issued,
         session' = session \ {t},
         \A s \in Sids : Pending(s)' <=> Pending(s)
  PROVE  Ledger!Close(t) \/ UNCHANGED Ledger!vars
<1>1. \A s \in Sids \ {t} : Stage(s)' = Stage(s)
  BY StageStays
<1>2. CASE t \in session
  <2>1. Stage(t) = "open" /\ Stage(t)' = "closed"
    BY <1>2, StoredFacts, StageIs
  <2> QED BY <1>1, <2>1, MovesOne DEF Ledger!Close
<1>3. CASE t \notin session
  <2>1. Stage(t)' = Stage(t)
    BY <1>3, StageStays
  <2> QED BY <1>1, <2>1, MovesNone DEF Ledger!vars
<1> QED BY <1>2, <1>3

\* A request ends: if it had a sid to store, that session is closed.
LEMMA EndStep ==
  ASSUME IInv, NEW r \in Requests, End(r), ~At(r, "idle"),
         owner' = owner, session' = session, issued' = issued
  PROVE  \/ UNCHANGED Ledger!vars
         \/ \E s \in Sids : Ledger!Close(s)
<1>1. /\ req'[r].pc = "idle" /\ req'[r].new = NoSid
      /\ \A x \in Requests : x # r => req'[x] = req[x]
  BY EndFacts DEF IInv, TypeOK
<1>2. ASSUME NEW t \in Sids, req[r].new = t, Unstored(r)
      PROVE  Ledger!Close(t)
  <2>1. /\ owner[t] # NoUser /\ t \notin session /\ Stage(t) = "drawn"
        /\ \A q \in Requests \ {r} : req[q].new # t
    BY <1>2, PendingFacts
  <2>2. ~Pending(t)'
    BY <1>1, <1>2, <2>1 DEF Pending, Unstored
  <2>3. Stage(t)' = "closed"
    BY <1>2, <2>1, <2>2, StageIs
  <2>4. ASSUME NEW s \in Sids \ {t} PROVE Stage(s)' = Stage(s)
    <3>1. Pending(s)' <=> Pending(s)
      BY <1>1, <1>2 DEF Pending, Unstored
    <3> QED BY <3>1, StageStays
  <2> QED BY <1>2, <2>1, <2>3, <2>4, MovesOne DEF Ledger!Close
<1>3. CASE req[r].new = NoSid \/ ~Unstored(r)
  <2>1. \A s \in Sids : Stage(s)' = Stage(s)
    BY <1>1, <1>3, PendingStays, StageStays
  <2> QED BY <2>1, MovesNone DEF Ledger!vars
<1> QED BY <1>2, <1>3 DEF IInv, TypeOK, Request

\* A step that changes neither owners, keys nor tokens, and no pending sid.
LEMMA StutterStep ==
  ASSUME owner' = owner, session' = session, issued' = issued,
         \A s \in Sids : Pending(s)' <=> Pending(s)
  PROVE  UNCHANGED Ledger!vars
BY StageStays, MovesNone DEF Ledger!vars

-----------------------------------------------------------------------------
(* The actions *)

\* The uuid that a login draws.
LEMMA LoginStartDraws ==
  ASSUME IInv, NEW r \in Requests, NEW u \in Users, LoginStart(r, u)
  PROVE  \E s \in Sids : Ledger!Draw(s, u)
<1>1. PICK s \in Fresh :
        /\ owner' = [owner EXCEPT ![s] = u]
        /\ req' = [req EXCEPT ![r] = Started("check", u, s, NoSid)]
  BY DEF LoginStart
<1>2. /\ req'[r].pc = "check" /\ req'[r].new = s
      /\ \A x \in Requests : x # r => req'[x] = req[x]
  BY <1>1 DEF Started, IInv, TypeOK
<1>3. Unstored(r)'
  BY <1>2 DEF Unstored
<1> QED BY <1>1, <1>2, <1>3, DrawStep DEF LoginStart, redis

\* The uuid that a refresh draws, for the user of the session it replaces.
LEMMA RefreshStartDraws ==
  ASSUME IInv, NEW r \in Requests, NEW s \in Sids, RefreshStart(r, s)
  PROVE  \E t \in Sids, u \in Users : Ledger!Draw(t, u)
<1>1. PICK t \in Fresh :
        /\ owner' = [owner EXCEPT ![t] = owner[s]]
        /\ req' = [req EXCEPT ![r] = Started("rot_del", owner[s], t, s)]
  BY DEF RefreshStart, Replacement
<1>2. owner[s] \in Users
  BY DEF RefreshStart, IInv, OwnerInv
<1>3. /\ req'[r].pc = "rot_del" /\ req'[r].new = t
      /\ \A x \in Requests : x # r => req'[x] = req[x]
  BY <1>1 DEF Started, IInv, TypeOK
<1>4. Unstored(r)'
  BY <1>3 DEF Unstored
<1> QED BY <1>1, <1>2, <1>3, <1>4, DrawStep DEF RefreshStart, redis

\* SET opens the session.
LEMMA SetSessionOpens ==
  ASSUME IInv, NEW r \in Requests, SetSession(r)
  PROVE  \E s \in Sids : Ledger!Open(s)
<1>0. PICK t \in Sids : t = req[r].new
  BY DEF SetSession, IInv, RequestInv
<1>1. /\ req'[r].pc = "sadd" /\ req'[r].new = t
      /\ \A x \in Requests : x # r => req'[x] = req[x]
  BY <1>0, LabelsType, GotoFacts DEF SetSession, IInv, TypeOK
<1>2. t \in Sids /\ Unstored(r)
  BY DEF SetSession, IInv, RequestInv, Unstored
<1>3. Stage(t) = "drawn" /\ owner[t] # NoUser
  BY <1>0, <1>2, PendingFacts
<1>4. Stage(t)' = "open"
  BY <1>0, <1>3, StageIs DEF SetSession
<1>5. ASSUME NEW s \in Sids \ {t} PROVE Stage(s)' = Stage(s)
  <2>1. Pending(s)' <=> Pending(s)
    BY <1>0, <1>1 DEF Pending, Unstored
  <2> QED BY <1>0, <2>1, StageStays DEF SetSession
<1>6. Ledger!Open(t)
  BY <1>2, <1>3, <1>4, <1>5, MovesOne DEF Ledger!Open, SetSession
<1> QED BY <1>2, <1>6

\* The answer hands the tokens out; the session may have ended meanwhile.
LEMMA ExpireHands ==
  ASSUME IInv, NEW r \in Requests, ExpireUserSessions(r)
  PROVE  \E s \in Sids : Ledger!Hand(s)
<1>0. PICK t \in Sids : t = req[r].new
  BY DEF ExpireUserSessions, IInv, RequestInv
<1>1. /\ req'[r].pc = "idle" /\ req'[r].new = NoSid
      /\ \A x \in Requests : x # r => req'[x] = req[x]
  BY EndFacts DEF ExpireUserSessions, IInv, TypeOK
<1>2. t \in Sids /\ owner[t] # NoUser /\ t \notin issued /\ ~Unstored(r)
  BY <1>0 DEF ExpireUserSessions, IInv, RequestInv, Unstored
<1>3. ~Pending(t)
  BY <1>0, <1>2 DEF IInv, PairInv, Pending
<1>4. Stage(t) \in {"open", "closed"}
  BY <1>2, <1>3, StageIs
<1>5. \A s \in Sids : Stage(s)' = Stage(s)
  BY <1>1, <1>2, PendingStays, StageStays DEF ExpireUserSessions
<1>6. Ledger!Hand(t)
  BY <1>0, <1>2, <1>4, <1>5, MovesNone DEF Ledger!Hand, ExpireUserSessions
<1> QED BY <1>2, <1>6

\* A DEL of a forced login, or of a refresh or a logout, closes a session.
LEMMA DeletesClose ==
  ASSUME IInv, NEW r \in Requests, DeleteAllKey(r) \/ DeleteOld(r)
  PROVE  \/ UNCHANGED Ledger!vars
         \/ \E s \in Sids : Ledger!Close(s)
<1>1. PICK t \in Sids : session' = session \ {t}
  BY DEF DeleteAllKey, DeleteOld, IInv, TypeOK, RequestInv, OwnerInv
<1>2. /\ req'[r].new = req[r].new /\ Unstored(r)' /\ Unstored(r)
      /\ \A x \in Requests : x # r => req'[x] = req[x]
  <2>1. CASE DeleteAllKey(r)
    <3>1. PICK s : req' = [req EXCEPT ![r].todo = @ \ {s},
                                      ![r].pc = AfterKey(req[r].todo \ {s})]
      BY <2>1 DEF DeleteAllKey
    <3>2. AfterKey(req[r].todo \ {s}) \in {"del_keys", "del_index"}
      BY DEF AfterKey
    <3>3. req[r] \in Request /\ At(r, "del_keys")
      BY <2>1 DEF DeleteAllKey, IInv, TypeOK
    <3> DEFINE label == AfterKey(req[r].todo \ {s})
    <3> HIDE DEF label
    <3>4. req'[r].pc = label /\ req'[r].new = req[r].new
            /\ \A x \in Requests : x # r => req'[x] = req[x]
      BY <3>1, <3>3 DEF label, IInv, TypeOK, Request
    <3> QED BY <3>2, <3>3, <3>4
            DEF label, DeleteAllKey, Unstored, IInv, TypeOK, Request
  <2>2. CASE DeleteOld(r)
    BY <2>2, LabelsType, GotoFacts DEF DeleteOld, Unstored, IInv, TypeOK
  <2> QED BY <2>1, <2>2
<1>3. \A s \in Sids : Pending(s)' <=> Pending(s)
  BY <1>2, PendingStays
<1> QED BY <1>1, <1>3, DropStep DEF DeleteAllKey, DeleteOld

\* The other commands of a request do not touch the ledger.
LEMMA OthersStutter ==
  ASSUME IInv, NEW r \in Requests,
         \/ DeleteAllRead(r) \/ DeleteAllIndex(r) \/ AddUserSession(r)
         \/ \E s \in Sids : LogoutStart(r, s)
  PROVE  UNCHANGED Ledger!vars
<1>1. /\ \A x \in Requests : x # r => req'[x] = req[x]
      /\ \/ req'[r].new = req[r].new /\ (Unstored(r)' <=> Unstored(r))
         \/ ~Unstored(r) /\ req'[r].new = NoSid
  <2>1. CASE DeleteAllRead(r)
    BY <2>1 DEF DeleteAllRead, Unstored, IInv, TypeOK, Request
  <2>2. CASE DeleteAllIndex(r) \/ AddUserSession(r)
    BY <2>2, LabelsType, GotoFacts
       DEF DeleteAllIndex, AddUserSession, Unstored, IInv, TypeOK
  <2>3. ASSUME NEW s \in Sids, LogoutStart(r, s)
        PROVE  /\ \A x \in Requests : x # r => req'[x] = req[x]
               /\ ~Unstored(r) /\ req'[r].new = NoSid
    BY <2>3 DEF LogoutStart, Started, Unstored, IInv, TypeOK
  <2> QED BY <2>1, <2>2, <2>3
<1>2. \A s \in Sids : Pending(s)' <=> Pending(s)
  BY <1>1, PendingStays
<1> QED BY <1>2, StutterStep
        DEF DeleteAllRead, DeleteAllIndex, AddUserSession, LogoutStart, redis

\* The check of a login and the SREM of refresh and logout go on or end.
LEMMA EndsOrGoesOn ==
  ASSUME IInv, NEW r \in Requests, LoginCheck(r) \/ RemoveOld(r)
  PROVE  \/ UNCHANGED Ledger!vars
         \/ \E s \in Sids : Ledger!Close(s)
<1>1. ~At(r, "idle") /\ owner' = owner /\ session' = session
        /\ issued' = issued
  BY DEF LoginCheck, RemoveOld, redis
<1>2. CASE End(r)
  BY <1>1, <1>2, EndStep
<1>3. ASSUME NEW l \in {"set", "del_read"}, Goto(r, l)
      PROVE  UNCHANGED Ledger!vars
  <2>1. /\ req'[r].new = req[r].new /\ req'[r].pc = l
        /\ \A x \in Requests : x # r => req'[x] = req[x]
    BY <1>3, LabelsType, GotoFacts DEF IInv, TypeOK
  <2>2. Unstored(r)' /\ Unstored(r)
    BY <2>1 DEF LoginCheck, RemoveOld, Unstored
  <2>3. \A s \in Sids : Pending(s)' <=> Pending(s)
    BY <2>1, <2>2, PendingStays
  <2> QED BY <1>1, <2>3, StutterStep
<1> QED BY <1>2, <1>3 DEF LoginCheck, RemoveOld

\* A session key that expires closes its session; a set that does, nothing.
LEMMA ExpiryCloses ==
  ASSUME IInv, \/ \E s \in Sids : SessionExpires(s)
               \/ \E u \in Users : IndexExpires(u)
  PROVE  \/ UNCHANGED Ledger!vars
         \/ \E s \in Sids : Ledger!Close(s)
<1>1. req' = req /\ owner' = owner /\ issued' = issued
  BY DEF SessionExpires, IndexExpires
<1>2. \A s \in Sids : Pending(s)' <=> Pending(s)
  BY <1>1 DEF Pending, Unstored
<1>3. ASSUME NEW s \in Sids, SessionExpires(s)
      PROVE  Ledger!Close(s) \/ UNCHANGED Ledger!vars
  BY <1>1, <1>2, <1>3, DropStep DEF SessionExpires
<1>4. ASSUME NEW u \in Users, IndexExpires(u) PROVE UNCHANGED Ledger!vars
  BY <1>1, <1>2, <1>4, StutterStep DEF IndexExpires
<1> QED BY <1>3, <1>4

\* Every step of the detailed specification is a step of the ledger, or none.
LEMMA StepImplements == IInv /\ [Next]_vars => [Ledger!Next]_Ledger!vars
<1> SUFFICES ASSUME IInv, [Next]_vars PROVE Ledger!Next \/ UNCHANGED Ledger!vars
  OBVIOUS
<1>1. CASE UNCHANGED vars
  <2>1. \A s \in Sids : Pending(s)' <=> Pending(s)
    BY <1>1 DEF Pending, Unstored, vars
  <2> QED BY <1>1, <2>1, StutterStep DEF vars, redis
<1>2. ASSUME NEW r \in Requests, Step(r)
      PROVE  Ledger!Next \/ UNCHANGED Ledger!vars
  BY <1>2, EndsOrGoesOn, OthersStutter, DeletesClose, SetSessionOpens,
     ExpireHands DEF Step, Ledger!Next
<1>3. ASSUME NEW r \in Requests, Fail(r)
      PROVE  Ledger!Next \/ UNCHANGED Ledger!vars
  BY <1>3, EndStep DEF Fail, redis, Ledger!Next
<1>4. ASSUME NEW r \in Requests, NEW u \in Users, LoginStart(r, u)
      PROVE  Ledger!Next
  BY <1>4, LoginStartDraws DEF Ledger!Next
<1>5. ASSUME NEW r \in Requests, NEW s \in Sids, RefreshStart(r, s)
      PROVE  Ledger!Next
  BY <1>5, RefreshStartDraws DEF Ledger!Next
<1>6. ASSUME NEW r \in Requests, NEW s \in Sids, LogoutStart(r, s)
      PROVE  UNCHANGED Ledger!vars
  BY <1>6, OthersStutter
<1>7. CASE \/ \E s \in Sids : SessionExpires(s)
           \/ \E u \in Users : IndexExpires(u)
  BY <1>7, ExpiryCloses DEF Ledger!Next
<1> QED BY <1>1, <1>2, <1>3, <1>4, <1>5, <1>6, <1>7 DEF Next

\* The initial state is the ledger's.
LEMMA InitImplements == Init => Ledger!Init
BY DEF Init, Ledger!Init, Stage

\* Login, refresh, logout, forced logout, expiry and stops half way implement
\* the ledger: a sid is drawn once, its session opens at most once and stays
\* closed, and its tokens are returned once, of a session that there was.
THEOREM LedgerImplemented == Spec => ImplementsLedger
<1> USE DEF Spec, ImplementsLedger, Ledger!Spec
<1> QED BY InitImplements, StepImplements, Invariance, PTL
=============================================================================
