------------------------- MODULE FollowGraph_proofs -------------------------
(***************************************************************************)
(* Proofs about FollowGraph for every set of users, requests and primary   *)
(* keys.  A request acts on what it selected a while ago.  What makes that *)
(* sound is that keys are drawn once and rows never forgotten (RowsInv):   *)
(* the id a request holds names a row that is there or is known to be gone *)
(* (RequestInv), so a late DELETE or UPDATE touches that row or none.      *)
(***************************************************************************)
EXTENDS FollowGraph, TLAPS

\* A relation that was withdrawn or rejected is not in the table again.
WithdrawnStaysWithdrawn == \A f \in follows : f.id \notin gone

\* The relation of this id is in the table or was deleted from it.
Known(i) == i \in gone \union {f.id : f \in follows}

RowsInv ==
  /\ \A f \in follows : f.id \in drawn
  /\ \A f, g \in follows : f.id = g.id => f = g
  /\ gone \subseteq drawn

HoldingPc == {"delete", "accept", "told_follow", "told_follower", "told_self"}

\* The request selected, made or left its row as an accepted one.
TakenAsAccepted(r) ==
  \/ req[r].pc \in {"accept", "told_follow"} /\ req[r].status = "ACCEPTED"
  \/ req[r].pc \in {"told_follower", "told_self"}

RequestInv(r) ==
  /\ req[r].pc \in {"privacy", "insert"} =>
       /\ req[r].user \in Users /\ req[r].target \in Users
       /\ req[r].user # req[r].target
  /\ At(r, "privacy") /\ visibility[req[r].target] = "PUBLIC" => req[r].public
  /\ At(r, "insert") /\ req[r].status = "ACCEPTED" => req[r].public
  /\ req[r].pc \in HoldingPc => req[r].id \in Ids /\ Known(req[r].id)
  /\ TakenAsAccepted(r) =>
       /\ req[r].id \in agreed
       /\ \A f \in Row(req[r].id) : f.status = "ACCEPTED"

IInv ==
  /\ TypeOK
  /\ OneRowPerPair
  /\ RowsInv
  /\ FollowersWereAgreed
  /\ WithdrawnStaysWithdrawn
  /\ NotificationsAreTrue
  /\ \A r \in Requests : RequestInv(r)

USE FollowAssumption DEF At, history

-----------------------------------------------------------------------------
(* What the actions do to the locals of a request, and to the rows *)

\* A request that ends is idle; the others keep their locals.
LEMMA EndFacts ==
  ASSUME TypeOK, NEW r \in Requests, End(r)
  PROVE  /\ req' \in [Requests -> Request]
         /\ req'[r].pc = "idle"
         /\ \A q \in Requests : q # r => req'[q] = req[q]
BY DEF TypeOK, End, Idle, Request, Labels, Statuses

\* UPDATE ... SET status: the same rows, one of them accepted.
LEMMA UpdatedFacts ==
  ASSUME TypeOK, NEW r \in Requests
  PROVE  /\ Updated(r) \subseteq Follow
         /\ \A f \in Updated(r) : \E g \in follows :
              /\ f.id = g.id /\ f.follower = g.follower
              /\ f.following = g.following
              /\ f # g => f.id = req[r].id
              /\ f.status = (IF g.id = req[r].id THEN "ACCEPTED" ELSE g.status)
         /\ \A g \in follows : \E f \in Updated(r) : f.id = g.id
<1>1. ASSUME NEW f \in Updated(r)
      PROVE  /\ f \in Follow
             /\ \E g \in follows :
                  /\ f.id = g.id /\ f.follower = g.follower
                  /\ f.following = g.following
                  /\ f # g => f.id = req[r].id
                  /\ f.status =
                       (IF g.id = req[r].id THEN "ACCEPTED" ELSE g.status)
  <2>1. PICK g \in follows :
          f = IF g.id = req[r].id THEN [g EXCEPT !.status = "ACCEPTED"] ELSE g
    BY DEF Updated
  <2>2. g \in Follow
    BY DEF TypeOK
  <2> QED BY <2>1, <2>2 DEF Follow, Statuses
<1>2. ASSUME NEW g \in follows PROVE \E f \in Updated(r) : f.id = g.id
  <2> DEFINE f == IF g.id = req[r].id
                    THEN [g EXCEPT !.status = "ACCEPTED"] ELSE g
  <2>1. f \in Updated(r)
    BY DEF Updated
  <2>2. f.id = g.id
    BY DEF TypeOK, Follow
  <2> QED BY <2>1, <2>2
<1> QED BY <1>1, <1>2

\* A step of r that leaves the tables and the events alone, and r with locals
\* that are sound, keeps the invariant.
LEMMA LocalStep ==
  ASSUME IInv, NEW r \in Requests,
         req' \in [Requests -> Request],
         \A q \in Requests : q # r => req'[q] = req[q],
         RequestInv(r)',
         UNCHANGED <<follows, visibility, events, drawn, history>>
  PROVE  IInv'
<1> USE DEF IInv
<1>1. TypeOK'
  BY DEF TypeOK
<1>2. /\ OneRowPerPair' /\ RowsInv' /\ FollowersWereAgreed'
      /\ WithdrawnStaysWithdrawn' /\ NotificationsAreTrue'
  BY DEF OneRowPerPair, RowsInv, FollowersWereAgreed, WithdrawnStaysWithdrawn,
         NotificationsAreTrue
<1>3. ASSUME NEW q \in Requests PROVE RequestInv(q)'
  BY DEF RequestInv, TakenAsAccepted, Known, Row
<1> QED BY <1>1, <1>2, <1>3

-----------------------------------------------------------------------------
(* Every action preserves the invariant *)

\* Requests that start hold what they selected.
LEMMA StartInv ==
  ASSUME IInv, NEW r \in Requests,
         \/ \E u, t \in Users : FollowStart(r, u, t)
         \/ \E f \in follows :
              UnfollowStart(r, f) \/ RejectStart(r, f) \/ AcceptStart(r, f)
  PROVE  IInv'
<1>1. /\ req[r] \in Request /\ req \in [Requests -> Request]
      /\ follows \subseteq Follow
      /\ visibility \in [Users -> Visibilities]
  BY DEF IInv, TypeOK
<1>2. ASSUME NEW u \in Users, NEW t \in Users, FollowStart(r, u, t)
      PROVE  IInv'
  <2> DEFINE q == [req[r] EXCEPT !.pc = "privacy", !.user = u, !.target = t,
                                 !.public = visibility[t] = "PUBLIC"]
  <2>1. q \in Request /\ q.pc = "privacy" /\ q.user = u /\ q.target = t
    BY <1>1 DEF Request, Labels
  <2>2. q.public <=> visibility[t] = "PUBLIC"
    BY <1>1 DEF Request
  <2> HIDE DEF q
  <2>3. req' = [req EXCEPT ![r] = q]
    BY <1>2 DEF FollowStart, q
  <2>4. UNCHANGED <<follows, visibility, events, drawn, history>>
    BY <1>2 DEF FollowStart
  <2>5. RequestInv(r)'
    BY <1>1, <1>2, <2>1, <2>2, <2>3, <2>4
       DEF FollowStart, RequestInv, TakenAsAccepted, HoldingPc
  <2> QED BY <1>1, <2>1, <2>3, <2>4, <2>5, LocalStep
<1>3. ASSUME NEW f \in follows, UnfollowStart(r, f) \/ RejectStart(r, f)
      PROVE  IInv'
  <2>1. PICK u \in Users :
          req' = [req EXCEPT ![r].pc = "delete", ![r].user = u, ![r].id = f.id]
    BY <1>1, <1>3 DEF UnfollowStart, RejectStart, Follow
  <2>2. UNCHANGED <<follows, visibility, events, drawn, history>>
    BY <1>3 DEF UnfollowStart, RejectStart
  <2>3. /\ req' \in [Requests -> Request]
        /\ \A q \in Requests : q # r => req'[q] = req[q]
        /\ req'[r].pc = "delete" /\ req'[r].id = f.id
    BY <1>1, <2>1 DEF Request, Labels, Follow
  <2>4. RequestInv(r)'
    BY <1>1, <2>2, <2>3
       DEF RequestInv, TakenAsAccepted, HoldingPc, Known, Follow
  <2> QED BY <2>2, <2>3, <2>4, LocalStep
<1>4. ASSUME NEW f \in follows, AcceptStart(r, f) PROVE IInv'
  <2> DEFINE a == [req[r] EXCEPT !.pc = "accept", !.user = f.following,
                     !.target = f.follower, !.id = f.id, !.status = f.status]
  <2>0. /\ a \in Request /\ a.pc = "accept" /\ a.id = f.id
        /\ a.status = f.status
    <3>1. f \in Follow
      BY <1>1
    <3> QED BY <1>1, <3>1 DEF Request, Labels, Follow
  <2> HIDE DEF a
  <2>1. UNCHANGED <<follows, visibility, events, drawn, history>>
    BY <1>4 DEF AcceptStart
  <2>2. /\ req' \in [Requests -> Request]
        /\ \A q \in Requests : q # r => req'[q] = req[q]
        /\ req'[r].pc = "accept" /\ req'[r].id = f.id
        /\ req'[r].status = f.status
    <3>1. req' = [req EXCEPT ![r] = a]
      BY <1>4 DEF AcceptStart, a
    <3> QED BY <1>1, <2>0, <3>1
  <2>3. RequestInv(r)'
    <3>1. Row(f.id)' = {f}
      BY <2>1 DEF IInv, RowsInv, Row
    <3> QED BY <1>1, <2>1, <2>2, <3>1
            DEF RequestInv, TakenAsAccepted, HoldingPc, Known, Follow, IInv,
                FollowersWereAgreed
  <2> QED BY <2>1, <2>2, <2>3, LocalStep
<1> QED BY <1>2, <1>3, <1>4

\* The target that is read as public was public since the request began.
LEMMA ReadPrivacyInv ==
  ASSUME IInv, NEW r \in Requests, ReadPrivacy(r)
  PROVE  IInv'
<1>1. req[r] \in Request /\ req \in [Requests -> Request]
  BY DEF IInv, TypeOK
<1>2. UNCHANGED <<follows, visibility, events, drawn, history>>
  BY DEF ReadPrivacy
<1>3. /\ req' \in [Requests -> Request]
      /\ \A q \in Requests : q # r => req'[q] = req[q]
      /\ req'[r].pc = "insert" /\ req'[r].user = req[r].user
      /\ req'[r].target = req[r].target /\ req'[r].public = req[r].public
      /\ req'[r].status = (IF visibility[req[r].target] = "PRIVATE"
                             THEN "PENDING" ELSE "ACCEPTED")
  BY <1>1 DEF ReadPrivacy, Asked, Request, Labels, Statuses
<1>4. req[r].user \in Users /\ req[r].target \in Users
  BY DEF ReadPrivacy, IInv, RequestInv
<1>5. visibility[req[r].target] \in {"PUBLIC", "PRIVATE"}
  BY <1>4 DEF IInv, TypeOK, Visibilities
<1>6. RequestInv(r)'
  BY <1>3, <1>4, <1>5
     DEF ReadPrivacy, IInv, RequestInv, TakenAsAccepted, HoldingPc
<1> QED BY <1>2, <1>3, <1>6, LocalStep

\* The row that is inserted has a fresh id and is the only one of its pair.
LEMMA CreateFollowInv ==
  ASSUME IInv, NEW r \in Requests, CreateFollow(r)
  PROVE  IInv'
<1> USE DEF IInv
<1>1. PICK i \in Ids \ drawn :
        /\ At(r, "insert")
        /\ drawn' = drawn \union {i}
        /\ IF Unique(req[r].user, req[r].target)
             THEN /\ follows' = follows \union
                       {[id |-> i, follower |-> req[r].user,
                         following |-> req[r].target, status |-> req[r].status]}
                  /\ req' = [req EXCEPT ![r] =
                       [Idle EXCEPT !.pc = "told_follow", !.id = i,
                                    !.status = req[r].status]]
                  /\ agreed' = IF req[r].public THEN agreed \union {i}
                                                ELSE agreed
             ELSE End(r) /\ UNCHANGED <<follows, agreed>>
        /\ UNCHANGED <<visibility, events, gone>>
  BY DEF CreateFollow
<1>2. /\ req[r] \in Request /\ req \in [Requests -> Request]
      /\ follows \subseteq Follow
      /\ req[r].user \in Users /\ req[r].target \in Users
      /\ req[r].status = "ACCEPTED" => req[r].public
      /\ req[r].status \in Statuses
  BY <1>1 DEF TypeOK, RequestInv, Request
<1>3. CASE Unique(req[r].user, req[r].target)
  <2> DEFINE g == [id |-> i, follower |-> req[r].user,
                   following |-> req[r].target, status |-> req[r].status]
  <2>1. /\ g \in Follow /\ g.id = i /\ g.follower = req[r].user
        /\ g.following = req[r].target /\ g.status = req[r].status
    BY <1>2 DEF Follow
  <2>2. \A f \in follows : ~(f.follower = g.follower
                              /\ f.following = g.following) /\ f.id # i
    BY <1>1, <1>3 DEF Unique, Between, RowsInv
  <2> HIDE DEF g
  <2>3. /\ follows' = follows \union {g}
        /\ agreed \subseteq agreed' /\ agreed' \subseteq agreed \union {i}
        /\ g.status = "ACCEPTED" => i \in agreed'
        /\ drawn' = drawn \union {i}
        /\ UNCHANGED <<visibility, events, gone>>
    BY <1>1, <1>2, <1>3, <2>1 DEF g
  <2>4. /\ req' \in [Requests -> Request]
        /\ \A q \in Requests : q # r => req'[q] = req[q]
        /\ req'[r].pc = "told_follow" /\ req'[r].id = i
        /\ req'[r].status = req[r].status
    <3> DEFINE q == [Idle EXCEPT !.pc = "told_follow", !.id = i,
                                 !.status = req[r].status]
    <3>1. /\ q \in Request /\ q.pc = "told_follow" /\ q.id = i
          /\ q.status = req[r].status
      BY <1>2 DEF Idle, Request, Labels
    <3>2. req' = [req EXCEPT ![r] = q]
      BY <1>1, <1>3
    <3> HIDE DEF q
    <3> QED BY <1>2, <3>1, <3>2
  <2>5. TypeOK'
    BY <2>1, <2>3, <2>4 DEF TypeOK
  <2>6. OneRowPerPair'
    BY <2>2, <2>3 DEF OneRowPerPair
  <2>7. RowsInv'
    BY <2>1, <2>2, <2>3 DEF RowsInv
  <2>8. FollowersWereAgreed' /\ WithdrawnStaysWithdrawn'
    BY <2>1, <2>3 DEF FollowersWereAgreed, WithdrawnStaysWithdrawn, RowsInv
  <2>9. \A x : Known(x) => Known(x)'
    BY <2>3 DEF Known
  <2>10. NotificationsAreTrue'
    BY <2>3 DEF NotificationsAreTrue
  <2>11. ASSUME NEW q \in Requests PROVE RequestInv(q)'
    <3>1. CASE q = r
      <4>1. Known(i)'
        BY <2>1, <2>3 DEF Known
      <4>2. Row(i)' = {g}
        BY <2>1, <2>2, <2>3 DEF Row
      <4> QED BY <2>1, <2>3, <2>4, <3>1, <4>1, <4>2
              DEF RequestInv, TakenAsAccepted, HoldingPc
    <3>2. CASE q # r
      <4>1. req[q].pc \in HoldingPc => Row(req[q].id)' = Row(req[q].id)
        <5>1. req[q].pc \in HoldingPc => req[q].id # i
          BY <1>1 DEF RequestInv, Known, RowsInv
        <5> QED BY <2>1, <2>3, <2>4, <3>2, <5>1 DEF Row
      <4> QED BY <2>3, <2>4, <2>9, <3>2, <4>1
              DEF RequestInv, TakenAsAccepted, HoldingPc
    <3> QED BY <3>1, <3>2
  <2> QED BY <2>5, <2>6, <2>7, <2>8, <2>10, <2>11
<1>4. CASE ~Unique(req[r].user, req[r].target)
  <2>1. /\ End(r) /\ UNCHANGED <<follows, visibility, events, agreed, gone>>
        /\ drawn' = drawn \union {i}
    BY <1>1, <1>4
  <2>2. /\ req' \in [Requests -> Request]
        /\ req'[r].pc = "idle"
        /\ \A q \in Requests : q # r => req'[q] = req[q]
    BY <2>1, EndFacts
  <2>3. TypeOK'
    BY <2>1, <2>2 DEF TypeOK
  <2>4. /\ OneRowPerPair' /\ RowsInv' /\ FollowersWereAgreed'
        /\ WithdrawnStaysWithdrawn' /\ NotificationsAreTrue'
    BY <2>1 DEF OneRowPerPair, RowsInv, FollowersWereAgreed,
                WithdrawnStaysWithdrawn, NotificationsAreTrue
  <2>5. ASSUME NEW q \in Requests PROVE RequestInv(q)'
    BY <2>1, <2>2 DEF RequestInv, TakenAsAccepted, HoldingPc, Known, Row
  <2> QED BY <2>3, <2>4, <2>5
<1> QED BY <1>3, <1>4

\* The row goes, if it is there; its id is remembered.
LEMMA DeleteFollowInv ==
  ASSUME IInv, NEW r \in Requests, DeleteFollow(r)
  PROVE  IInv'
<1> USE DEF IInv
<1>1. /\ follows' = follows \ Row(req[r].id)
      /\ gone' = gone \union {req[r].id}
      /\ UNCHANGED <<visibility, events, drawn, agreed>>
      /\ req[r].id \in Ids /\ Known(req[r].id)
  BY DEF DeleteFollow, RequestInv, HoldingPc
<1>2. /\ req' \in [Requests -> Request]
      /\ req'[r].pc = "idle"
      /\ \A q \in Requests : q # r => req'[q] = req[q]
  BY EndFacts DEF DeleteFollow
<1>3. req[r].id \in drawn
  BY <1>1 DEF Known, RowsInv
<1>4. \A x : Known(x) => Known(x)'
  BY <1>1 DEF Known, Row
<1>5. TypeOK'
  BY <1>1, <1>2 DEF TypeOK
<1>6. OneRowPerPair' /\ RowsInv' /\ FollowersWereAgreed'
  BY <1>1, <1>3 DEF OneRowPerPair, RowsInv, FollowersWereAgreed
<1>7. WithdrawnStaysWithdrawn'
  BY <1>1 DEF WithdrawnStaysWithdrawn, Row
<1>8. NotificationsAreTrue'
  BY <1>1, <1>4 DEF NotificationsAreTrue, Known
<1>9. ASSUME NEW q \in Requests PROVE RequestInv(q)'
  BY <1>1, <1>2, <1>4 DEF RequestInv, TakenAsAccepted, HoldingPc, Row
<1> QED BY <1>5, <1>6, <1>7, <1>8, <1>9

\* The row becomes accepted if it is there, and its owner has agreed to it.
LEMMA AcceptFollowInv ==
  ASSUME IInv, NEW r \in Requests, AcceptFollow(r)
  PROVE  IInv'
<1> USE DEF IInv
<1> DEFINE i == req[r].id
<1>1. /\ follows' = IF req[r].status = "PENDING" THEN Updated(r) ELSE follows
      /\ agreed' = agreed \union {f.id : f \in Row(i)}
      /\ UNCHANGED <<visibility, events, drawn, gone>>
      /\ i \in Ids /\ Known(i)
      /\ req[r].status = "ACCEPTED" => i \in agreed
      /\ req[r].status \in Statuses
      /\ req[r] \in Request /\ req \in [Requests -> Request]
      /\ follows \subseteq Follow
  BY DEF AcceptFollow, RequestInv, TakenAsAccepted, HoldingPc, TypeOK, Request
<1>2. /\ follows' \subseteq Follow
      /\ \A f \in follows' : \E g \in follows :
           /\ f.id = g.id /\ f.follower = g.follower
           /\ f.following = g.following
           /\ f.status = g.status \/ f.id = i
           /\ f # g => f.id = i /\ f.status = "ACCEPTED"
                         /\ req[r].status = "PENDING"
           /\ req[r].status = "PENDING" /\ f.id = i => f.status = "ACCEPTED"
      /\ \A g \in follows : \E f \in follows' : f.id = g.id
  BY <1>1, UpdatedFacts
<1> DEFINE told == [Idle EXCEPT !.pc = "told_follower", !.id = i]
<1>3. /\ told \in Request /\ told.pc = "told_follower" /\ told.id = i
      /\ ~Stale(r) => req' = [req EXCEPT ![r] = told]
  BY <1>1 DEF AcceptFollow, Idle, Request, Labels, Statuses
<1> HIDE DEF told
<1>4. Row(i) # {} => i \in agreed'
  BY <1>1 DEF Row
<1>5. \A f \in follows' : f.id = i => i \in agreed'
  BY <1>2, <1>4 DEF Row
<1>6. \/ req'[r].pc = "idle"
      \/ /\ req'[r].pc = "told_follower" /\ req'[r].id = i
         /\ i \in agreed'
  <2>1. CASE Stale(r)
    BY <2>1, EndFacts DEF AcceptFollow
  <2>2. CASE ~Stale(r)
    <3>1. i \in agreed'
      BY <1>1, <1>4, <2>2 DEF Stale, Statuses
    <3> QED BY <1>1, <1>3, <2>2, <3>1
  <2> QED BY <2>1, <2>2
<1>7. /\ req' \in [Requests -> Request]
      /\ \A q \in Requests : q # r => req'[q] = req[q]
  <2>1. CASE Stale(r)
    BY <2>1, EndFacts DEF AcceptFollow
  <2>2. CASE ~Stale(r)
    BY <1>1, <1>3, <2>2
  <2> QED BY <2>1, <2>2
<1>8. \A x : Known(x) => Known(x)'
  BY <1>1, <1>2 DEF Known
<1>9. TypeOK'
  <2>1. {f.id : f \in Row(i)} \subseteq Ids
    BY <1>1 DEF Row, Follow
  <2>2. agreed' \in SUBSET Ids
    BY <1>1, <2>1 DEF TypeOK
  <2>3. follows' \in SUBSET Follow
    BY <1>2
  <2>4. UNCHANGED <<visibility, events, drawn, gone>>
    BY <1>1
  <2> QED BY <1>7, <2>2, <2>3, <2>4 DEF TypeOK
<1>10. RowsInv'
  <2>1. ASSUME NEW f \in follows', NEW h \in follows', f.id = h.id
        PROVE  f = h
    <3>1. PICK g \in follows :
            /\ f.id = g.id /\ f.follower = g.follower
            /\ f.following = g.following
            /\ f # g => f.id = i /\ req[r].status = "PENDING"
            /\ req[r].status = "PENDING" /\ f.id = i => f.status = "ACCEPTED"
      BY <1>2
    <3>2. PICK k \in follows :
            /\ h.id = k.id /\ h.follower = k.follower
            /\ h.following = k.following
            /\ h # k => h.id = i /\ req[r].status = "PENDING"
            /\ req[r].status = "PENDING" /\ h.id = i => h.status = "ACCEPTED"
      BY <1>2
    <3>3. g = k
      BY <2>1, <3>1, <3>2 DEF RowsInv
    <3>4. f.follower = h.follower /\ f.following = h.following
            /\ f.status = h.status
      BY <2>1, <3>1, <3>2, <3>3
    <3> HIDE DEF i
    <3>5. f \in Follow /\ h \in Follow
      BY <1>2
    <3> QED BY <2>1, <3>4, <3>5 DEF Follow
  <2>2. \A f \in follows' : f.id \in drawn'
    BY <1>1, <1>2 DEF RowsInv
  <2>3. gone' \subseteq drawn'
    BY <1>1 DEF RowsInv
  <2> QED BY <2>1, <2>2, <2>3 DEF RowsInv
<1>11. OneRowPerPair'
  BY <1>2, <1>10 DEF OneRowPerPair, RowsInv
<1>12. FollowersWereAgreed'
  BY <1>1, <1>2, <1>5 DEF FollowersWereAgreed
<1>13. WithdrawnStaysWithdrawn'
  BY <1>1, <1>2 DEF WithdrawnStaysWithdrawn
<1>14. NotificationsAreTrue'
  BY <1>1, <1>8 DEF NotificationsAreTrue, Known
<1>15. ASSUME NEW q \in Requests PROVE RequestInv(q)'
  <2>1. CASE q = r
    <3>1. \A f \in follows' : f.id = i => f.status = "ACCEPTED"
      <4>1. CASE req[r].status = "PENDING"
        BY <1>2, <4>1
      <4>2. CASE req[r].status = "ACCEPTED"
        BY <1>1, <4>2 DEF AcceptFollow, RequestInv, TakenAsAccepted, Row
      <4> QED BY <1>1, <4>1, <4>2 DEF Statuses
    <3> QED BY <1>1, <1>6, <1>8, <2>1, <3>1
            DEF RequestInv, TakenAsAccepted, HoldingPc, Row
  <2>2. CASE q # r
    <3>1. \A f \in follows' : \E g \in follows :
            f.id = g.id /\ (f.status = g.status \/ f.status = "ACCEPTED")
      BY <1>2
    <3> QED BY <1>1, <1>7, <1>8, <2>2, <3>1
            DEF RequestInv, TakenAsAccepted, Row
  <2> QED BY <2>1, <2>2
<1> QED BY <1>9, <1>10, <1>11, <1>12, <1>13, <1>14, <1>15

\* A target that becomes public is public for the requests that ask for it.
LEMMA UpdateSettingsInv ==
  ASSUME IInv, NEW r \in Requests, NEW u \in Users, NEW v \in Visibilities,
         UpdateSettings(r, u, v)
  PROVE  IInv'
<1> USE DEF IInv
<1> DEFINE asks(q) == At(q, "privacy") /\ req[q].target = u /\ v = "PUBLIC"
           started == [Idle EXCEPT !.pc = "told_settings"]
<1>1. /\ visibility' = [visibility EXCEPT ![u] = v]
      /\ req' = [q \in Requests |->
           IF q = r THEN started
           ELSE IF asks(q) THEN [req[q] EXCEPT !.public = TRUE] ELSE req[q]]
      /\ UNCHANGED <<follows, events, drawn, agreed, gone>>
  BY DEF UpdateSettings
<1>2. started \in Request /\ started.pc = "told_settings"
  BY DEF Idle, Request, Labels, Statuses
<1> HIDE DEF started
<1>3. ASSUME NEW q \in Requests, q # r
      PROVE  /\ req'[q] \in Request
             /\ req'[q].pc = req[q].pc /\ req'[q].user = req[q].user
             /\ req'[q].target = req[q].target /\ req'[q].id = req[q].id
             /\ req'[q].status = req[q].status
             /\ req'[q].public = (IF asks(q) THEN TRUE ELSE req[q].public)
  <2>1. req[q] \in Request
    BY DEF TypeOK
  <2>2. req'[q] = IF asks(q) THEN [req[q] EXCEPT !.public = TRUE] ELSE req[q]
    BY <1>1, <1>3
  <2> QED BY <2>1, <2>2 DEF Request
<1>4. req' \in [Requests -> Request] /\ req'[r] = started
  BY <1>1, <1>2, <1>3
<1>5. TypeOK'
  BY <1>1, <1>4 DEF TypeOK
<1>6. /\ OneRowPerPair' /\ RowsInv' /\ FollowersWereAgreed'
      /\ WithdrawnStaysWithdrawn' /\ NotificationsAreTrue'
  BY <1>1 DEF OneRowPerPair, RowsInv, FollowersWereAgreed,
              WithdrawnStaysWithdrawn, NotificationsAreTrue
<1>7. ASSUME NEW q \in Requests PROVE RequestInv(q)'
  <2>1. CASE q = r
    BY <1>2, <1>4, <2>1 DEF RequestInv, TakenAsAccepted, HoldingPc
  <2>2. CASE q # r
    <3>1. RequestInv(q)
      OBVIOUS
    <3>2. \A t \in Users : visibility'[t] = IF t = u THEN v ELSE visibility[t]
      BY <1>1 DEF TypeOK
    <3>3. Known(req[q].id)' <=> Known(req[q].id)
      BY <1>1, <1>3, <2>2 DEF Known
    <3>4. Row(req[q].id)' = Row(req[q].id)
      BY <1>1, <1>3, <2>2 DEF Row
    <3> QED BY <1>1, <1>3, <2>2, <3>1, <3>2, <3>3, <3>4
            DEF RequestInv, TakenAsAccepted
  <2> QED BY <2>1, <2>2
<1> QED BY <1>5, <1>6, <1>7

\* What is published is known, and agreed to if it says so.
LEMMA PublishInv ==
  ASSUME IInv, NEW r \in Requests,
         \/ PublishFollow(r) \/ PublishAccept(r) \/ PublishSettings(r)
         \/ Fail(r)
  PROVE  IInv'
<1> USE DEF IInv
<1>1. CASE PublishSettings(r) \/ Fail(r)
  BY <1>1, EndFacts, LocalStep
     DEF PublishSettings, Fail, RequestInv, TakenAsAccepted, HoldingPc
<1>2. CASE PublishFollow(r) \/ PublishAccept(r)
  <2>1. PICK m \in {"following", "requested", "accepted", "you_accepted"} :
          /\ events' = events \union {<<m, req[r].id>>}
          /\ m # "requested" => req[r].id \in agreed
    BY <1>2 DEF PublishFollow, PublishAccept, Publish, RequestInv,
                TakenAsAccepted
  <2>2. req[r].id \in Ids /\ Known(req[r].id)
    BY <1>2 DEF PublishFollow, PublishAccept, RequestInv, HoldingPc
  <2>3. UNCHANGED <<follows, visibility, drawn, history>>
    BY <1>2 DEF PublishFollow, PublishAccept
  <2>4. /\ req' \in [Requests -> Request]
        /\ \A q \in Requests : q # r => req'[q] = req[q]
        /\ \/ req'[r].pc = "idle"
           \/ /\ req'[r].pc = "told_self" /\ req'[r].id = req[r].id
              /\ At(r, "told_follower")
    <3>1. CASE End(r)
      BY <3>1, EndFacts
    <3>2. CASE /\ At(r, "told_follower")
               /\ req' = [req EXCEPT ![r].pc = "told_self"]
      BY <3>2 DEF TypeOK, Request, Labels
    <3> QED BY <1>2, <3>1, <3>2 DEF PublishFollow, PublishAccept
  <2>5. TypeOK'
    BY <2>1, <2>2, <2>3, <2>4 DEF TypeOK, Event
  <2>6. /\ OneRowPerPair' /\ RowsInv' /\ FollowersWereAgreed'
        /\ WithdrawnStaysWithdrawn'
    BY <2>3 DEF OneRowPerPair, RowsInv, FollowersWereAgreed,
                WithdrawnStaysWithdrawn
  <2>7. NotificationsAreTrue'
    BY <2>1, <2>2, <2>3 DEF NotificationsAreTrue, Known
  <2>8. ASSUME NEW q \in Requests PROVE RequestInv(q)'
    BY <2>3, <2>4 DEF RequestInv, TakenAsAccepted, HoldingPc, Known, Row
  <2> QED BY <2>5, <2>6, <2>7, <2>8
<1> QED BY <1>1, <1>2

-----------------------------------------------------------------------------
(* Theorems *)

\* Rows, requests, events and what the users agreed to fit together in every
\* reachable state.
THEOREM Invariance == Spec => []IInv
<1>1. Init => IInv
  BY DEF Init, IInv, TypeOK, OneRowPerPair, RowsInv, FollowersWereAgreed,
         WithdrawnStaysWithdrawn, NotificationsAreTrue, RequestInv,
         TakenAsAccepted, HoldingPc, Idle, Request, Labels, Statuses
<1>2. IInv /\ [Next]_vars => IInv'
  <2> SUFFICES ASSUME IInv, [Next]_vars PROVE IInv'
    OBVIOUS
  <2>1. CASE UNCHANGED vars
    BY <2>1 DEF vars, IInv, TypeOK, OneRowPerPair, RowsInv,
                FollowersWereAgreed, WithdrawnStaysWithdrawn,
                NotificationsAreTrue, RequestInv, TakenAsAccepted, Known, Row
  <2>2. CASE Next
    BY <2>2, StartInv, ReadPrivacyInv, CreateFollowInv, DeleteFollowInv,
       AcceptFollowInv, UpdateSettingsInv, PublishInv DEF Next
  <2> QED BY <2>1, <2>2
<1> QED BY <1>1, <1>2, PTL DEF Spec

\* The table holds rows of its type, one for each pair of users, whatever
\* requests to follow overlap.
THEOREM RowsCorrect == Spec => []RowsAreSound
<1>1. IInv => RowsAreSound
  BY DEF IInv, RowsAreSound
<1> QED BY <1>1, Invariance, PTL

\* Nobody follows an account that was private all along without being accepted.
THEOREM FollowersAgreed == Spec => []FollowersWereAgreed
<1>1. IInv => FollowersWereAgreed
  BY DEF IInv
<1> QED BY <1>1, Invariance, PTL

\* Nobody is told of a relation that there never was, or of an acceptance that
\* did not take place.
THEOREM NotificationsCorrect == Spec => []NotificationsAreTrue
<1>1. IInv => NotificationsAreTrue
  BY DEF IInv
<1> QED BY <1>1, Invariance, PTL

-----------------------------------------------------------------------------
(* The table and its transactions implement FollowRelations *)

\* A row is all there is of its relation.
LEMMA RowStage ==
  ASSUME RowsInv, NEW f \in follows
  PROVE  /\ Stage(f.id) = (IF f.status = "ACCEPTED" THEN "following"
                                                    ELSE "requested")
         /\ Parties(f.id) = {<<f.follower, f.following>>}
<1>1. Row(f.id) = {f}
  BY DEF Row, RowsInv
<1> QED BY <1>1 DEF Stage, Parties

\* Without a row, the histories tell where a relation is.
LEMMA NoRowStage ==
  ASSUME NEW i, Row(i) = {}
  PROVE  /\ Stage(i) = (IF i \in gone THEN "ended"
                        ELSE IF i \in drawn THEN "void" ELSE "free")
         /\ Parties(i) = {}
BY DEF Stage, Parties

\* A relation whose row and histories a step leaves alone stays as it is.
LEMMA StageStays ==
  ASSUME NEW i, Row(i)' = Row(i),
         i \in gone' <=> i \in gone, i \in drawn' <=> i \in drawn
  PROVE  Stage(i)' = Stage(i) /\ Parties(i)' = Parties(i)
BY DEF Stage, Parties, Row

\* One relation moves, the others stay.
LEMMA MovesOne ==
  ASSUME NEW i \in Ids, \A j \in Ids \ {i} : Stage(j)' = Stage(j)
  PROVE  Relations!Moves(i, Stage(i), Stage(i)')
BY DEF Relations!Moves

\* The parties of one relation change, those of the others stay.
LEMMA PartiesOfOne ==
  ASSUME NEW i \in Ids, \A j \in Ids \ {i} : Parties(j)' = Parties(j)
  PROVE  [j \in Ids |-> Parties(j)]'
           = [[j \in Ids |-> Parties(j)] EXCEPT ![i] = Parties(i)']
OBVIOUS

\* A step that leaves the table, the histories and the events alone.
LEMMA StutterStep ==
  ASSUME UNCHANGED <<follows, events, drawn, gone>>
  PROVE  UNCHANGED Relations!vars
<1>1. \A i \in Ids : Stage(i)' = Stage(i) /\ Parties(i)' = Parties(i)
  BY DEF Stage, Parties, Row
<1> QED BY <1>1 DEF Relations!vars

\* The insert begins a relation, of two who have none, or is refused.
LEMMA CreateFollowBegins ==
  ASSUME IInv, NEW r \in Requests, CreateFollow(r)
  PROVE  \E i \in Ids : Relations!Begin(i) \/ Relations!Refuse(i)
<1> DEFINE u == req[r].user
           t == req[r].target
<1>1. PICK i \in Ids \ drawn :
        /\ drawn' = drawn \union {i}
        /\ IF Unique(u, t)
             THEN follows' = follows \union
                    {[id |-> i, follower |-> u, following |-> t,
                      status |-> req[r].status]}
             ELSE UNCHANGED follows
        /\ UNCHANGED <<events, gone>>
  BY DEF CreateFollow
<1>2. u \in Users /\ t \in Users /\ u # t /\ req[r].status \in Statuses
  BY DEF CreateFollow, IInv, TypeOK, Request, RequestInv
<1>3. Row(i) = {} /\ i \notin gone /\ i \in drawn' /\ i \notin gone'
  BY <1>1 DEF IInv, RowsInv, Row
<1>4. Stage(i) = "free" /\ Parties(i) = {}
  BY <1>1, <1>3, NoRowStage
<1> HIDE DEF u, t
<1>5. CASE Unique(u, t)
  <2> DEFINE g == [id |-> i, follower |-> u, following |-> t,
                   status |-> req[r].status]
  <2>1. /\ g.id = i /\ g.follower = u /\ g.following = t
        /\ g.status \in Statuses
    BY <1>2
  <2>2. follows' = follows \union {g}
    BY <1>1, <1>5
  <2> HIDE DEF g
  <2>3. Row(i)' = {g}
    BY <1>3, <2>1, <2>2 DEF Row
  <2>4. Stage(i)' \in {"requested", "following"} /\ Parties(i)' = {<<u, t>>}
    BY <2>1, <2>3 DEF Stage, Parties, Row, Statuses
  <2>5. ASSUME NEW j \in Ids \ {i}
        PROVE  Stage(j)' = Stage(j) /\ Parties(j)' = Parties(j)
    <3>1. Row(j)' = Row(j)
      BY <2>1, <2>2 DEF Row
    <3> QED BY <1>1, <3>1, StageStays
  <2>6. Relations!Moves(i, "free", Stage(i)')
    BY <1>4, <2>5, MovesOne
  <2>7. \A j \in Ids : <<u, t>> \notin [k \in Ids |-> Parties(k)][j]
    BY <1>5 DEF Unique, Between, Parties, Row
  <2>8. [j \in Ids |-> Parties(j)]'
           = [[j \in Ids |-> Parties(j)] EXCEPT ![i] = {<<u, t>>}]
    BY <2>4, <2>5, PartiesOfOne
  <2>9. Relations!Begin(i)
    BY <1>1, <1>2, <2>4, <2>6, <2>7, <2>8 DEF Relations!Begin
  <2> QED BY <2>9
<1>6. CASE ~Unique(u, t)
  <2>1. follows' = follows
    BY <1>1, <1>6
  <2>2. ASSUME NEW j \in Ids \ {i}
        PROVE  Stage(j)' = Stage(j) /\ Parties(j)' = Parties(j)
    BY <1>1, <2>1, StageStays DEF Row
  <2>3. Stage(i)' = "void" /\ Parties(i)' = Parties(i)
    BY <1>3, <2>1 DEF Stage, Parties, Row
  <2>4. Relations!Moves(i, "free", "void")
    BY <1>4, <2>2, <2>3, MovesOne
  <2>5. Relations!Refuse(i)
    BY <1>1, <2>2, <2>3, <2>4 DEF Relations!Refuse
  <2> QED BY <2>5
<1> QED BY <1>5, <1>6

\* The DELETE ends the relation, or finds it ended.
LEMMA DeleteFollowEnds ==
  ASSUME IInv, NEW r \in Requests, DeleteFollow(r)
  PROVE  UNCHANGED Relations!vars \/ \E i \in Ids : Relations!End(i)
<1>1. PICK i \in Ids : i = req[r].id /\ Known(i)
  BY DEF DeleteFollow, IInv, RequestInv, HoldingPc
<1>2. /\ follows' = follows \ Row(i) /\ gone' = gone \union {i}
      /\ UNCHANGED <<drawn, events>>
  BY <1>1 DEF DeleteFollow
<1>3. CASE i \in gone
  <2>1. Row(i) = {}
    BY <1>3 DEF IInv, WithdrawnStaysWithdrawn, Row
  <2>2. follows' = follows /\ gone' = gone
    BY <1>2, <1>3, <2>1
  <2> QED BY <1>2, <2>2, StutterStep
<1>4. CASE i \notin gone
  <2>1. PICK f \in follows : f.id = i
    BY <1>1, <1>4 DEF Known
  <2>2. Stage(i) \in {"requested", "following"}
    BY <2>1, RowStage DEF IInv
  <2>3. Stage(i)' = "ended" /\ Parties(i)' = {}
    BY <1>2 DEF Stage, Parties, Row
  <2>4. ASSUME NEW j \in Ids \ {i}
        PROVE  Stage(j)' = Stage(j) /\ Parties(j)' = Parties(j)
    <3>1. Row(j)' = Row(j)
      BY <1>2 DEF Row
    <3> QED BY <1>2, <3>1, StageStays
  <2>5. Relations!Moves(i, Stage(i), "ended")
    BY <2>3, <2>4, MovesOne
  <2>6. [j \in Ids |-> Parties(j)]'
           = [[j \in Ids |-> Parties(j)] EXCEPT ![i] = {}]
    BY <2>3, <2>4, PartiesOfOne
  <2>7. Relations!End(i)
    BY <1>2, <2>2, <2>5, <2>6 DEF Relations!End
  <2> QED BY <2>7
<1> QED BY <1>3, <1>4

\* The UPDATE accepts a request that is there, and does nothing to what is
\* accepted or gone.
LEMMA AcceptFollowAccepts ==
  ASSUME IInv, NEW r \in Requests, AcceptFollow(r)
  PROVE  UNCHANGED Relations!vars \/ \E i \in Ids : Relations!Accept(i)
<1>1. PICK i \in Ids : i = req[r].id
  BY DEF AcceptFollow, IInv, RequestInv, HoldingPc
<1>2. /\ follows' = IF req[r].status = "PENDING" THEN Updated(r) ELSE follows
      /\ UNCHANGED <<drawn, events, gone>>
  BY DEF AcceptFollow
<1>3. CASE \E f \in follows : f.id = i /\ f.status = "PENDING"
                                /\ req[r].status = "PENDING"
  <2>1. PICK f \in follows : f.id = i /\ f.status = "PENDING"
    BY <1>3
  <2> DEFINE g == [f EXCEPT !.status = "ACCEPTED"]
  <2>2. /\ g.id = i /\ g.status = "ACCEPTED"
        /\ g.follower = f.follower /\ g.following = f.following
    BY <2>1 DEF IInv, TypeOK, Follow
  <2>3. follows' = (follows \ {f}) \union {g}
    BY <1>1, <1>2, <1>3, <2>1 DEF Updated, IInv, RowsInv
  <2> HIDE DEF g
  <2>4. Row(i) = {f} /\ Row(i)' = {g}
    BY <2>1, <2>2, <2>3 DEF IInv, RowsInv, Row
  <2>5. /\ Stage(i) = "requested" /\ Stage(i)' = "following"
        /\ Parties(i)' = Parties(i)
    BY <2>1, <2>2, <2>4 DEF Stage, Parties, Row
  <2>6. ASSUME NEW j \in Ids \ {i}
        PROVE  Stage(j)' = Stage(j) /\ Parties(j)' = Parties(j)
    <3>1. Row(j)' = Row(j)
      BY <2>1, <2>2, <2>3 DEF Row
    <3> QED BY <1>2, <3>1, StageStays
  <2>7. Relations!Moves(i, "requested", "following")
    BY <2>5, <2>6, MovesOne
  <2>8. Relations!Accept(i)
    BY <1>2, <2>5, <2>6, <2>7 DEF Relations!Accept
  <2> QED BY <2>8
<1>4. CASE ~\E f \in follows : f.id = i /\ f.status = "PENDING"
                                 /\ req[r].status = "PENDING"
  <2>1. CASE req[r].status = "PENDING"
    <3>1. ASSUME NEW f \in follows, f.id = i
          PROVE  [f EXCEPT !.status = "ACCEPTED"] = f
      BY <1>4, <2>1, <3>1 DEF IInv, TypeOK, Follow, Statuses
    <3>2. Updated(r) = follows
      BY <1>1, <3>1 DEF Updated
    <3> QED BY <1>2, <2>1, <3>2, StutterStep
  <2>2. CASE req[r].status # "PENDING"
    BY <1>2, <2>2, StutterStep
  <2> QED BY <2>1, <2>2
<1> QED BY <1>3, <1>4

\* What is published about a relation is true of it, or was when it ended.
LEMMA PublishTells ==
  ASSUME IInv, NEW r \in Requests, PublishFollow(r) \/ PublishAccept(r)
  PROVE  \E i \in Ids : Relations!Tell(i)
<1>1. PICK i \in Ids : i = req[r].id /\ Known(i)
  BY DEF PublishFollow, PublishAccept, IInv, RequestInv, HoldingPc
<1>2. PICK m \in Relations!Messages :
        /\ events' = events \union {<<m, i>>}
        /\ m = "requested" \/ TakenAsAccepted(r)
  BY <1>1 DEF PublishFollow, PublishAccept, Publish, TakenAsAccepted,
              Relations!Messages
<1>3. UNCHANGED <<follows, drawn, gone>>
  BY DEF PublishFollow, PublishAccept
<1>4. /\ Stage(i) \in {"requested", "following", "ended"}
      /\ TakenAsAccepted(r) => Stage(i) # "requested"
  <2>1. ASSUME NEW f \in follows, f.id = i
        PROVE  /\ Stage(i) \in {"requested", "following"}
               /\ TakenAsAccepted(r) => Stage(i) # "requested"
    <3>1. TakenAsAccepted(r) => f.status = "ACCEPTED"
      BY <1>1, <2>1 DEF IInv, RequestInv, Row
    <3> QED BY <2>1, <3>1, RowStage DEF IInv
  <2>2. CASE ~\E f \in follows : f.id = i
    <3>1. i \in gone /\ Row(i) = {}
      BY <1>1, <2>2 DEF Known, Row
    <3> QED BY <3>1, NoRowStage
  <2> QED BY <2>1, <2>2
<1>5. \A j \in Ids : Stage(j)' = Stage(j) /\ Parties(j)' = Parties(j)
  BY <1>3, StageStays DEF Row
<1>6. Relations!Tell(i)
  BY <1>2, <1>4, <1>5 DEF Relations!Tell
<1> QED BY <1>6

\* Every step of the requests is a step of FollowRelations, or none.
LEMMA StepImplements == IInv /\ [Next]_vars => [Relations!Next]_Relations!vars
<1> SUFFICES ASSUME IInv, [Next]_vars
             PROVE  Relations!Next \/ UNCHANGED Relations!vars
  OBVIOUS
<1>1. CASE UNCHANGED vars
  BY <1>1, StutterStep DEF vars
<1>2. ASSUME NEW r \in Requests,
             CreateFollow(r) \/ DeleteFollow(r) \/ AcceptFollow(r)
               \/ PublishFollow(r) \/ PublishAccept(r)
      PROVE  Relations!Next \/ UNCHANGED Relations!vars
  BY <1>2, CreateFollowBegins, DeleteFollowEnds, AcceptFollowAccepts,
     PublishTells DEF Relations!Next
<1>3. ASSUME NEW r \in Requests,
             \/ \E u, t \in Users : FollowStart(r, u, t)
             \/ \E f \in follows :
                  UnfollowStart(r, f) \/ RejectStart(r, f) \/ AcceptStart(r, f)
             \/ \E u \in Users, v \in Visibilities : UpdateSettings(r, u, v)
             \/ ReadPrivacy(r) \/ PublishSettings(r) \/ Fail(r)
      PROVE  UNCHANGED Relations!vars
  BY <1>3, StutterStep
     DEF FollowStart, UnfollowStart, RejectStart, AcceptStart, UpdateSettings,
         ReadPrivacy, PublishSettings, Fail
<1> QED BY <1>1, <1>2, <1>3 DEF Next

\* At first no id is used.
LEMMA InitImplements == Init => Relations!Init
BY NoRowStage DEF Init, Row, Relations!Init

\* Follow, withdraw, accept and reject, however they overlap, implement the
\* relations: one begins once and not beside another of its pair, is accepted
\* only from a request, stays ended, and what is told of it is or was true.
THEOREM RelationsImplemented == Spec => ImplementsRelations
<1> USE DEF Spec, ImplementsRelations, Relations!Spec
<1> QED BY InitImplements, StepImplements, Invariance, PTL
=============================================================================
