----------------------------- MODULE FollowGraph -----------------------------
(***************************************************************************)
(* Follow relations and requests in the User-Service: the table follows,   *)
(* the visibility of each account, and the notification.created events.    *)
(* A request is a coroutine with a database session of its own (READ       *)
(* COMMITTED): what it selected may be changed before it commits.  An      *)
(* INSERT, UPDATE or DELETE takes effect at its commit, which fails or is  *)
(* void when another transaction got there first.                          *)
(***************************************************************************)
CONSTANTS Users, Requests,
          Ids,    \* the primary keys uuid4() draws from: bounds the follows
          NoUser, NoId

ASSUME FollowAssumption == NoUser \notin Users /\ NoId \notin Ids

VARIABLES
  follows,     \* the committed rows
  visibility,  \* account_visibility of each profile
  req,         \* program counter and locals of each request
  events,      \* what was published to notification.created
  drawn,       \* ids drawn so far
  agreed,      \* history: ids that were public when asked for, or accepted
  gone         \* history: rows that were deleted

history == <<agreed, gone>>
vars    == <<follows, visibility, req, events, drawn, history>>

Statuses     == {"PENDING", "ACCEPTED"}
Visibilities == {"PUBLIC", "PRIVATE"}
Follow == [id : Ids, follower : Users, following : Users, status : Statuses]

Labels == {"idle", "privacy", "insert", "told_follow", "delete", "accept",
           "told_follower", "told_self", "told_settings"}

\* The profile of the caller, the profile to follow (or whose request is
\* accepted), and the row a request selected or made: its id and status.
\* public is history: the target was public at some time since follow_user
\* began.  After the commit only the row matters.
Request == [pc : Labels, user : Users \union {NoUser},
            target : Users \union {NoUser}, id : Ids \union {NoId},
            status : Statuses, public : BOOLEAN]
Idle == [pc |-> "idle", user |-> NoUser, target |-> NoUser, id |-> NoId,
         status |-> "PENDING", public |-> FALSE]

\* The message of an event and the relation it is about.
Event == {"following", "requested", "accepted", "you_accepted"} \X Ids

TypeOK ==
  /\ follows \in SUBSET Follow
  /\ visibility \in [Users -> Visibilities]
  /\ req \in [Requests -> Request]
  /\ events \in SUBSET Event
  /\ drawn \in SUBSET Ids
  /\ agreed \in SUBSET Ids /\ gone \in SUBSET Ids

Init ==
  /\ follows = {} /\ events = {} /\ drawn = {}
  /\ visibility \in [Users -> Visibilities]
  /\ req = [r \in Requests |-> Idle]
  /\ agreed = {} /\ gone = {}

At(r, label)  == req[r].pc = label
End(r)        == req' = [req EXCEPT ![r] = Idle]
Row(i)        == {f \in follows : f.id = i}
Between(u, t) == {f \in follows : f.follower = u /\ f.following = t}

-----------------------------------------------------------------------------
(* follow_user: the existing relation, the privacy of the target, the insert *)

FollowStart(r, u, t) ==
  /\ At(r, "idle")
  /\ u # t
  /\ Between(u, t) = {}
  /\ req' = [req EXCEPT ![r].pc = "privacy", ![r].user = u, ![r].target = t,
                        ![r].public = visibility[t] = "PUBLIC"]
  /\ UNCHANGED <<follows, visibility, events, drawn, history>>

AsksCaller(u, t) == visibility[u]
Asked(u, t)      == visibility[t]

ReadPrivacy(r) ==
  /\ At(r, "privacy")
  /\ req' = [req EXCEPT ![r].pc = "insert", ![r].status =
       IF Asked(req[r].user, req[r].target) = "PRIVATE" THEN "PENDING"
                                                        ELSE "ACCEPTED"]
  /\ UNCHANGED <<follows, visibility, events, drawn, history>>

\* uq_follower_following
Unchecked(u, t) == TRUE
Unique(u, t)    == Between(u, t) = {}

CreateFollow(r) ==
  \E i \in Ids \ drawn :
    /\ At(r, "insert")
    /\ drawn' = drawn \union {i}
    /\ IF Unique(req[r].user, req[r].target)
         THEN /\ follows' = follows \union
                   {[id |-> i, follower |-> req[r].user,
                     following |-> req[r].target, status |-> req[r].status]}
              /\ req' = [req EXCEPT ![r] =
                   [Idle EXCEPT !.pc = "told_follow", !.id = i,
                                !.status = req[r].status]]
              /\ agreed' = IF req[r].public THEN agreed \union {i} ELSE agreed
         ELSE End(r) /\ UNCHANGED <<follows, agreed>>
    /\ UNCHANGED <<visibility, events, gone>>

-----------------------------------------------------------------------------
(* unfollow_user and reject_follow_request delete the row they selected,     *)
(* whatever its status; accept_follow_request updates it                     *)

UnfollowStart(r, f) ==
  /\ At(r, "idle")
  /\ req' = [req EXCEPT ![r].pc = "delete", ![r].user = f.follower,
                        ![r].id = f.id]
  /\ UNCHANGED <<follows, visibility, events, drawn, history>>

\* The id is one that was listed to the owner, maybe a while ago; the caller
\* must be that owner.
RejectStart(r, f) ==
  /\ At(r, "idle")
  /\ req' = [req EXCEPT ![r].pc = "delete", ![r].user = f.following,
                        ![r].id = f.id]
  /\ UNCHANGED <<follows, visibility, events, drawn, history>>

AcceptStart(r, f) ==
  /\ At(r, "idle")
  /\ req' = [req EXCEPT ![r].pc = "accept", ![r].user = f.following,
                        ![r].target = f.follower,
                        ![r].id = f.id, ![r].status = f.status]
  /\ UNCHANGED <<follows, visibility, events, drawn, history>>

DeleteFollow(r) ==
  /\ At(r, "delete")
  /\ follows' = follows \ Row(req[r].id)
  /\ gone' = gone \union {req[r].id}
  /\ End(r)
  /\ UNCHANGED <<visibility, events, drawn, agreed>>

\* UPDATE ... SET status = 'ACCEPTED' WHERE id = i: the rows it leaves.  Merging
\* would insert the row the request selected when it is gone.
Merged(r) ==
  (follows \ Row(req[r].id)) \union
    {[id |-> req[r].id, follower |-> req[r].target, following |-> req[r].user,
      status |-> "ACCEPTED"]}
Updated(r) ==
  {IF f.id = req[r].id THEN [f EXCEPT !.status = "ACCEPTED"] ELSE f :
     f \in follows}

\* StaleDataError: the row to update is gone.
RowsUnchecked(r) == FALSE
Stale(r)         == req[r].status = "PENDING" /\ Row(req[r].id) = {}

\* A row selected as accepted is not updated.
AcceptFollow(r) ==
  /\ At(r, "accept")
  /\ follows' = IF req[r].status = "PENDING" THEN Updated(r) ELSE follows
  /\ agreed' = agreed \union {f.id : f \in Row(req[r].id)}
  /\ IF Stale(r) THEN End(r)
                 ELSE req' = [req EXCEPT ![r] =
                        [Idle EXCEPT !.pc = "told_follower", !.id = req[r].id]]
  /\ UNCHANGED <<visibility, events, drawn, gone>>

(* update_settings *)

UpdateSettings(r, u, v) ==
  /\ At(r, "idle")
  /\ visibility' = [visibility EXCEPT ![u] = v]
  /\ req' = [q \in Requests |->
       IF q = r THEN [Idle EXCEPT !.pc = "told_settings"]
       ELSE IF At(q, "privacy") /\ req[q].target = u /\ v = "PUBLIC"
       THEN [req[q] EXCEPT !.public = TRUE] ELSE req[q]]
  /\ UNCHANGED <<follows, events, drawn, agreed, gone>>

-----------------------------------------------------------------------------
(* the notifications, after the commit *)

Publish(message, r) == events' = events \union {<<message, req[r].id>>}

PublishFollow(r) ==
  /\ At(r, "told_follow")
  /\ Publish(IF req[r].status = "ACCEPTED" THEN "following" ELSE "requested", r)
  /\ End(r)
  /\ UNCHANGED <<follows, visibility, drawn, history>>

\* First the requester is told, then the one who accepted.
PublishAccept(r) ==
  /\ \/ /\ At(r, "told_follower")
        /\ Publish("accepted", r)
        /\ req' = [req EXCEPT ![r].pc = "told_self"]
     \/ /\ At(r, "told_self")
        /\ Publish("you_accepted", r)
        /\ End(r)
  /\ UNCHANGED <<follows, visibility, drawn, history>>

\* A settings notice names no relation.
PublishSettings(r) ==
  /\ At(r, "told_settings")
  /\ End(r)
  /\ UNCHANGED <<follows, visibility, events, drawn, history>>

\* The database or Kafka fails, or the server stops: what is not committed is
\* rolled back, what is not published never will be.
Fail(r) ==
  /\ ~At(r, "idle")
  /\ End(r)
  /\ UNCHANGED <<follows, visibility, events, drawn, history>>

Next == \E r \in Requests :
  \/ \E u, t \in Users : FollowStart(r, u, t)
  \/ \E f \in follows :
       UnfollowStart(r, f) \/ RejectStart(r, f) \/ AcceptStart(r, f)
  \/ \E u \in Users, v \in Visibilities : UpdateSettings(r, u, v)
  \/ ReadPrivacy(r) \/ CreateFollow(r) \/ DeleteFollow(r) \/ AcceptFollow(r)
  \/ PublishFollow(r) \/ PublishAccept(r) \/ PublishSettings(r)
  \/ Fail(r)

Spec == Init /\ [][Next]_vars

-----------------------------------------------------------------------------
(* Properties *)

\* Two follow requests for the same profile, both of which found no relation,
\* leave one row: followers are counted once.
OneRowPerPair ==
  \A f, g \in follows :
    f.follower = g.follower /\ f.following = g.following => f = g

\* The table holds rows of its type, one for each pair, whatever overlaps.
RowsAreSound == TypeOK /\ OneRowPerPair

\* Nobody follows an account that was private from the moment he asked for it
\* until now, unless its owner accepted him: however requests, acceptances,
\* withdrawals and changes of visibility interleave.
FollowersWereAgreed ==
  \A f \in follows : f.status = "ACCEPTED" => f.id \in agreed

\* Where the relation of an id is, as FollowRelations has it: the row says so,
\* while there is one; an id whose insert was refused is void.
Stage(i) ==
  IF \E f \in Row(i) : f.status = "ACCEPTED" THEN "following"
  ELSE IF Row(i) # {} THEN "requested"
  ELSE IF i \in gone THEN "ended"
  ELSE IF i \in drawn THEN "void" ELSE "free"

Parties(i) == {<<f.follower, f.following>> : f \in Row(i)}

Relations == INSTANCE FollowRelations
  WITH stage   <- [i \in Ids |-> Stage(i)],
       parties <- [i \in Ids |-> Parties(i)],
       told    <- events

\* Transactions that select and later write, over each other, do to a relation
\* what FollowRelations allows: a request that is withdrawn or rejected is not
\* brought back by an acceptance that selected it before, none goes back from
\* accepted to asked for, and a late message tells of what there was.
ImplementsRelations == Relations!Spec

\* Nobody is told of a relation that was never committed, nor that it is
\* accepted when it was not: the relation may be gone by the time the message
\* is published, and an acceptance that found it gone says nothing.
NotificationsAreTrue ==
  \A e \in events :
     /\ e[2] \in gone \union {f.id : f \in follows}
     /\ e[1] # "requested" => e[2] \in agreed
=============================================================================
