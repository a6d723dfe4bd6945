---------------------------- MODULE Posts_proofs ----------------------------
(***************************************************************************)
(* Proofs about Posts for every set of users, requests, primary keys and   *)
(* columns.  Rows are never forgotten and primary keys never drawn twice,  *)
(* so the inductive invariant only has to say what the locals of a request *)
(* name: rows that exist (RequestInv), and for the request about to tell   *)
(* of a row, one that no other request tells of (EventsMatchRows).         *)
(***************************************************************************)
EXTENDS Posts, TLAPS

\* What a request holds: the post it loaded, the row it read or made.
RequestInv(r) ==
  /\ req[r].pc \in {"like_get", "like", "unlike", "reply_get", "comment",
                    "update", "del_post"} =>
       req[r].post \in Posts /\ post[req[r].post] # None
  /\ req[r].pc \in {"like_get", "like", "comment", "reply_get"} =>
       req[r].user \in Users
  /\ At(r, "update") => /\ req[r].seen \in [Columns -> Values]
                        /\ req[r].asked \in [Columns -> Optional(Values)]
  /\ At(r, "publish") => req[r].row \in Rows
  /\ At(r, "del_comment") => /\ req[r].row \in Comments
                             /\ comment[req[r].row] # None

LikesInv == \A i \in liked : like[i] # None

IInv ==
  /\ TypeOK
  /\ LikesInv
  /\ \A r \in Requests : RequestInv(r)
  /\ OneLikePerUser
  /\ EventsMatchRows

USE PostsAssumption DEF At, Optional

\* A request that ends is idle and no longer among those that held a row.
LEMMA EndFacts ==
  ASSUME TypeOK, NEW r \in Requests, End(r)
  PROVE  /\ req' \in [Requests -> Request]
         /\ req'[r] = Idle /\ req'[r].pc = "idle"
         /\ \A q \in Requests : q # r => req'[q] = req[q]
         /\ closing' \in SUBSET (Requests \X (Posts \union Comments))
BY DEF TypeOK, End, Idle, Request, Labels

\* A request that starts has the locals it starts with.
LEMMA StartFacts ==
  ASSUME TypeOK, NEW r \in Requests, NEW l \in Request, Start(r, l)
  PROVE  /\ req' \in [Requests -> Request]
         /\ req[r].pc = "idle" /\ req'[r] = l
         /\ \A q \in Requests : q # r => req'[q] = req[q]
BY DEF TypeOK, Start

\* Two locals change at once.
LEMMA LocalsType ==
  ASSUME NEW x \in Request
  PROVE  /\ \A i \in Likes \union Comments :
              LET y == [x EXCEPT !.pc = "publish", !.row = i] IN
                y \in Request /\ y.pc = "publish" /\ y.row = i
         /\ \A c \in Comments :
              LET y == [x EXCEPT !.pc = "comment", !.parent = c] IN
                /\ y \in Request /\ y.pc = "comment"
                /\ y.post = x.post /\ y.user = x.user
BY DEF Request, Labels

\* A step that only changes the locals of a request that has nothing to tell
\* of, before or after, keeps the invariant when the new locals are sound.
LEMMA QuietStep ==
  ASSUME IInv, NEW r \in Requests,
         req' \in [Requests -> Request],
         \A q \in Requests : q # r => req'[q] = req[q],
         ~At(r, "publish"), ~At(r, "publish")', RequestInv(r)',
         closing' \in SUBSET (Requests \X (Posts \union Comments)),
         UNCHANGED <<tables, published, lost>>
  PROVE  IInv'
<1> USE DEF IInv, tables
<1>1. TypeOK'
  BY DEF TypeOK
<1>2. LikesInv' /\ OneLikePerUser'
  BY DEF LikesInv, OneLikePerUser
<1>3. ASSUME NEW q \in Requests PROVE RequestInv(q)'
  BY DEF RequestInv, Rows
<1>4. Rows' = Rows /\ \A i \in Likes \union Comments : Telling(i)' = Telling(i)
  BY DEF Rows, Telling
<1>5. EventsMatchRows'
  BY <1>4 DEF EventsMatchRows
<1> QED BY <1>1, <1>2, <1>3, <1>5

-----------------------------------------------------------------------------
(* Requests that read *)

\* A like, a comment, a reply and the deletion of a post start by reading the
\* post.
LEMMA PostStartInv ==
  ASSUME IInv, NEW r \in Requests, NEW u \in Users, NEW p \in Posts,
         \/ LikeStart(r, u, p) \/ CommentStart(r, u, p)
         \/ ReplyStart(r, u, p) \/ DeletePostStart(r, u, p)
  PROVE  IInv'
<1>1. PICK l \in {"like_get", "comment", "reply_get", "del_post"} :
        /\ Found(post[p])
        /\ Start(r, [Idle EXCEPT !.pc = l, !.user = u, !.post = p])
        /\ UNCHANGED <<tables, published, lost, closing>>
  BY DEF LikeStart, CommentStart, ReplyStart, DeletePostStart
<1> DEFINE x == [Idle EXCEPT !.pc = l, !.user = u, !.post = p]
<1>2. x \in Request /\ x.pc = l /\ x.user = u /\ x.post = p
  BY DEF Idle, Request, Labels
<1>3. /\ req' \in [Requests -> Request]
      /\ req[r].pc = "idle" /\ req'[r] = x
      /\ \A q \in Requests : q # r => req'[q] = req[q]
  BY <1>1, <1>2, StartFacts DEF IInv
<1>4. RequestInv(r)'
  BY <1>1, <1>2, <1>3 DEF RequestInv, Found, tables
<1> HIDE DEF x
<1> QED BY <1>1, <1>2, <1>3, <1>4, QuietStep DEF IInv, TypeOK, tables

\* An update loads the columns of the post it found.
LEMMA UpdateStartInv ==
  ASSUME IInv, NEW r \in Requests, NEW u \in Users, NEW p \in Posts,
         NEW a \in [Columns -> Optional(Values)], UpdateStart(r, u, p, a)
  PROVE  IInv'
<1> DEFINE x == [Idle EXCEPT !.pc = "update", !.user = u, !.post = p,
                             !.seen = Loaded(p), !.asked = a]
<1>1. Found(post[p]) /\ Start(r, x)
      /\ UNCHANGED <<tables, published, lost, closing>>
  BY DEF UpdateStart
<1>2. post[p] \in Post /\ Loaded(p) \in [Columns -> Values]
  BY <1>1 DEF Found, IInv, TypeOK, Loaded, Post
<1>3. /\ x \in Request /\ x.pc = "update" /\ x.post = p
      /\ x.seen = Loaded(p) /\ x.asked = a
  BY <1>2 DEF Idle, Request, Labels
<1>4. /\ req' \in [Requests -> Request]
      /\ req[r].pc = "idle" /\ req'[r] = x
      /\ \A q \in Requests : q # r => req'[q] = req[q]
  BY <1>1, <1>3, StartFacts DEF IInv
<1>5. RequestInv(r)'
  BY <1>1, <1>2, <1>3, <1>4 DEF RequestInv, Found, tables
<1> HIDE DEF x
<1> QED BY <1>1, <1>3, <1>4, <1>5, QuietStep DEF IInv, TypeOK, tables

\* The deletion of a comment starts by reading the comment.
LEMMA DeleteCommentStartInv ==
  ASSUME IInv, NEW r \in Requests, NEW u \in Users, NEW c \in Comments,
         DeleteCommentStart(r, u, c)
  PROVE  IInv'
<1> DEFINE x == [Idle EXCEPT !.pc = "del_comment", !.user = u, !.row = c]
<1>1. Found(comment[c]) /\ Start(r, x)
      /\ UNCHANGED <<tables, published, lost, closing>>
  BY DEF DeleteCommentStart
<1>2. x \in Request /\ x.pc = "del_comment" /\ x.row = c
  BY DEF Idle, Request, Labels
<1>3. /\ req' \in [Requests -> Request]
      /\ req[r].pc = "idle" /\ req'[r] = x
      /\ \A q \in Requests : q # r => req'[q] = req[q]
  BY <1>1, <1>2, StartFacts DEF IInv
<1>4. RequestInv(r)'
  BY <1>1, <1>2, <1>3 DEF RequestInv, Found, tables
<1> HIDE DEF x
<1> QED BY <1>1, <1>2, <1>3, <1>4, QuietStep DEF IInv, TypeOK, tables

\* get_like, and get_comment_by_id for the parent of a reply.
LEMMA SecondReadInv ==
  ASSUME IInv, NEW r \in Requests,
         GetLike(r) \/ \E c \in Comments : GetParent(r, c)
  PROVE  IInv'
<1> USE DEF IInv, TypeOK, tables
<1>1. CASE GetLike(r)
  <2>1. /\ req' \in [Requests -> Request]
        /\ At(r, "like_get") /\ req'[r].pc \in {"like", "unlike"}
        /\ req'[r].post = req[r].post /\ req'[r].user = req[r].user
        /\ \A q \in Requests : q # r => req'[q] = req[q]
    BY <1>1 DEF GetLike, LikesOf, Request, Labels
  <2>2. RequestInv(r)'
    BY <1>1, <2>1 DEF RequestInv, GetLike
  <2> QED BY <1>1, <2>1, <2>2, QuietStep DEF GetLike
<1>2. CASE \E c \in Comments : GetParent(r, c)
  <2>0. PICK c \in Comments : GetParent(r, c)
    BY <1>2
  <2>1. /\ req' \in [Requests -> Request]
        /\ At(r, "reply_get") /\ req'[r].pc = "comment"
        /\ req'[r].post = req[r].post /\ req'[r].user = req[r].user
        /\ \A q \in Requests : q # r => req'[q] = req[q]
        /\ UNCHANGED <<tables, published, lost, closing>>
    <3>1. req' = [req EXCEPT ![r] =
                    [req[r] EXCEPT !.pc = "comment", !.parent = c]]
      BY <2>0, Zenon DEF GetParent
    <3>2. PICK x \in Request : x = req[r]
      OBVIOUS
    <3>3. PICK y \in Request : y = [x EXCEPT !.pc = "comment", !.parent = c]
      BY LocalsType
    <3>4. y.pc = "comment" /\ y.post = x.post /\ y.user = x.user
      BY <3>3, LocalsType
    <3>5. req' = [req EXCEPT ![r] = y]
      BY <3>1, <3>2, <3>3, Zenon
    <3>6. /\ req' \in [Requests -> Request] /\ req'[r] = y
          /\ \A q \in Requests : q # r => req'[q] = req[q]
      BY <3>5
    <3>7. At(r, "reply_get") /\ UNCHANGED <<tables, published, lost, closing>>
      BY <2>0 DEF GetParent
    <3> QED BY <3>2, <3>4, <3>6, <3>7
  <2>2. RequestInv(r)'
    BY <2>1 DEF RequestInv
  <2> QED BY <2>1, <2>2, QuietStep
<1> QED BY <1>1, <1>2

-----------------------------------------------------------------------------
(* Requests that write *)

\* create_post, update_post and soft_delete_post change the row of a post, and
\* at most end the request.
LEMMA PostWriteInv ==
  ASSUME IInv,
         \/ \E u \in Users, p \in Posts, s \in [Columns -> Values] :
              CreatePost(u, p, s)
         \/ \E r \in Requests : UpdatePost(r) \/ DeletePost(r)
  PROVE  IInv'
<1> USE DEF IInv
<1>1. CASE \E u \in Users, p \in Posts, s \in [Columns -> Values] :
             CreatePost(u, p, s)
  <2>1. PICK u \in Users, p \in Posts, s \in [Columns -> Values] :
          CreatePost(u, p, s)
    BY <1>1
  <2>2. [owner |-> u, settings |-> s, deleted |-> FALSE] \in Post
    BY DEF Post
  <2>3. TypeOK' /\ \A q \in Posts : post[q] # None => post'[q] # None
    BY <2>1, <2>2 DEF CreatePost, TypeOK
  <2>4. LikesInv' /\ OneLikePerUser'
    BY <2>1 DEF CreatePost, LikesInv, OneLikePerUser
  <2>5. \A r \in Requests : RequestInv(r)'
    BY <2>1, <2>3 DEF CreatePost, RequestInv, Rows
  <2>6. EventsMatchRows'
    BY <2>1 DEF CreatePost, EventsMatchRows, Rows, Telling
  <2> QED BY <2>3, <2>4, <2>5, <2>6
<1>2. CASE \E r \in Requests : UpdatePost(r) \/ DeletePost(r)
  <2>1. PICK r \in Requests : UpdatePost(r) \/ DeletePost(r)
    BY <1>2
  <2>2. /\ req[r].post \in Posts /\ post[req[r].post] \in Post
        /\ At(r, "update") => /\ req[r].seen \in [Columns -> Values]
                              /\ req[r].asked \in [Columns -> Optional(Values)]
    BY <2>1 DEF UpdatePost, DeletePost, RequestInv, TypeOK
  <2>3. post' \in [Posts -> Optional(Post)]
        /\ \A q \in Posts : post[q] # None => post'[q] # None
    <3>1. CASE UpdatePost(r)
      <4> DEFINE row == Updated(post[req[r].post], req[r].seen, req[r].asked)
      <4>1. row \in Post
        BY <3>1, <2>2 DEF UpdatePost, Updated, Post
      <4>2. post' = [post EXCEPT ![req[r].post] = row]
        BY <3>1 DEF UpdatePost
      <4> HIDE DEF row
      <4> QED BY <4>1, <4>2, <2>2 DEF TypeOK
    <3>2. CASE DeletePost(r)
      <4>1. [post[req[r].post] EXCEPT !.deleted = TRUE] \in Post
        BY <2>2 DEF Post
      <4>2. post' = [post EXCEPT ![req[r].post] =
                                   [post[req[r].post] EXCEPT !.deleted = TRUE]]
        BY <3>2 DEF DeletePost
      <4> QED BY <4>1, <4>2, <2>2 DEF TypeOK
    <3> QED BY <2>1, <3>1, <3>2
  <2>4. /\ req' \in [Requests -> Request] /\ req'[r].pc = "idle"
        /\ \A q \in Requests : q # r => req'[q] = req[q]
        /\ closing' \in SUBSET (Requests \X (Posts \union Comments))
    <3>1. CASE UpdatePost(r)
      BY <3>1, EndFacts DEF UpdatePost
    <3>2. CASE DeletePost(r)
      BY <3>2, <2>2 DEF DeletePost, Closed, TypeOK, Idle, Request, Labels
    <3> QED BY <2>1, <3>1, <3>2
  <2>5. UNCHANGED <<like, liked, comment, published, lost>>
        /\ ~At(r, "publish")
    BY <2>1 DEF UpdatePost, DeletePost
  <2>6. TypeOK'
    BY <2>3, <2>4, <2>5 DEF TypeOK
  <2>7. LikesInv' /\ OneLikePerUser'
    BY <2>5 DEF LikesInv, OneLikePerUser
  <2>8. ASSUME NEW q \in Requests PROVE RequestInv(q)'
    BY <2>3, <2>4, <2>5 DEF RequestInv, Rows
  <2>9. Rows' = Rows
        /\ \A i \in Likes \union Comments : Telling(i)' = Telling(i)
    BY <2>4, <2>5 DEF Rows, Telling
  <2>10. EventsMatchRows'
    BY <2>5, <2>9 DEF EventsMatchRows
  <2> QED BY <2>6, <2>7, <2>8, <2>10
<1> QED BY <1>1, <1>2

\* delete_like and delete_comment: the row is known for ever after.
LEMMA RowDeleteInv ==
  ASSUME IInv, NEW r \in Requests, DeleteLike(r) \/ DeleteComment(r)
  PROVE  IInv'
<1> USE DEF IInv
<1>1. CASE DeleteLike(r)
  <2>1. /\ req' \in [Requests -> Request] /\ req'[r].pc = "idle"
        /\ \A q \in Requests : q # r => req'[q] = req[q]
        /\ closing' \in SUBSET (Requests \X (Posts \union Comments))
    BY <1>1, EndFacts DEF DeleteLike
  <2>2. TypeOK' /\ LikesInv' /\ OneLikePerUser'
    BY <1>1, <2>1 DEF DeleteLike, TypeOK, LikesInv, OneLikePerUser
  <2>3. ASSUME NEW q \in Requests PROVE RequestInv(q)'
    BY <1>1, <2>1 DEF DeleteLike, RequestInv, Rows
  <2>4. Rows' = Rows
        /\ \A i \in Likes \union Comments : Telling(i)' = Telling(i)
    BY <1>1, <2>1 DEF DeleteLike, Rows, Telling
  <2>5. EventsMatchRows'
    BY <1>1, <2>4 DEF DeleteLike, EventsMatchRows
  <2> QED BY <2>2, <2>3, <2>5
<1>2. CASE DeleteComment(r)
  <2>1. /\ req' \in [Requests -> Request] /\ req'[r].pc = "idle"
        /\ \A q \in Requests : q # r => req'[q] = req[q]
        /\ closing' \in SUBSET (Requests \X (Posts \union Comments))
    BY <1>2 DEF DeleteComment, RequestInv, Closed, TypeOK, Idle, Request, Labels
  <2>2. req[r].row \in Comments /\ comment[req[r].row] \in Comment
    BY <1>2 DEF DeleteComment, RequestInv, TypeOK
  <2>3. [comment[req[r].row] EXCEPT !.deleted = TRUE] \in Comment
    BY <2>2 DEF Comment
  <2>4. comment' \in [Comments -> Optional(Comment)]
        /\ \A c \in Comments : comment'[c] # None <=> comment[c] # None
    BY <1>2, <2>2, <2>3 DEF DeleteComment, TypeOK
  <2>5. TypeOK' /\ LikesInv' /\ OneLikePerUser'
    BY <1>2, <2>1, <2>4 DEF DeleteComment, TypeOK, LikesInv, OneLikePerUser
  <2>6. Rows' = Rows
        /\ \A i \in Likes \union Comments : Telling(i)' = Telling(i)
    BY <1>2, <2>1, <2>4 DEF DeleteComment, Rows, Telling
  <2>7. ASSUME NEW q \in Requests PROVE RequestInv(q)'
    BY <1>2, <2>1, <2>4, <2>6 DEF DeleteComment, RequestInv
  <2>8. EventsMatchRows'
    BY <1>2, <2>6 DEF DeleteComment, EventsMatchRows
  <2> QED BY <2>5, <2>7, <2>8
<1> QED BY <1>1, <1>2

Tells(r, i) == req' = [req EXCEPT ![r].pc = "publish", ![r].row = i]

\* A request that goes on to publish changes no other request.
LEMMA TellFacts ==
  ASSUME TypeOK, NEW r \in Requests, NEW i \in Likes \union Comments,
         Tells(r, i)
  PROVE  /\ req' \in [Requests -> Request]
         /\ req'[r].pc = "publish" /\ req'[r].row = i
         /\ \A q \in Requests : q # r => req'[q] = req[q]
<1>1. req' = [req EXCEPT ![r] = [req[r] EXCEPT !.pc = "publish", !.row = i]]
  BY Zenon DEF Tells
<1>2. PICK x \in Request : x = req[r]
  BY DEF TypeOK
<1>3. PICK y \in Request : y = [x EXCEPT !.pc = "publish", !.row = i]
  BY LocalsType
<1>4. y.pc = "publish" /\ y.row = i
  BY <1>3, LocalsType
<1>5. req' = [req EXCEPT ![r] = y]
  BY <1>1, <1>2, <1>3, Zenon
<1>6. /\ req' \in [Requests -> Request] /\ req'[r] = y
      /\ \A q \in Requests : q # r => req'[q] = req[q]
  BY <1>5 DEF TypeOK
<1> QED BY <1>4, <1>6

\* A new row is told of by the request that made it and by no other.
LEMMA InsertFacts ==
  ASSUME IInv, NEW r \in Requests, NEW i \in (Likes \union Comments) \ Rows,
         Rows' = Rows \union {i}, ~At(r, "publish"),
         req'[r].pc = "publish" /\ req'[r].row = i,
         \A q \in Requests : q # r => req'[q] = req[q],
         UNCHANGED <<published, lost>>
  PROVE  EventsMatchRows'
<1>1. Telling(i)' = {r}
  BY DEF IInv, EventsMatchRows, Telling
<1>2. \A j \in Likes \union Comments : j # i => Telling(j)' = Telling(j)
  BY DEF Telling
<1> QED BY <1>1, <1>2 DEF IInv, EventsMatchRows

\* create_like: an insert that the constraint refuses leaves no trace.
LEMMA CreateLikeInv ==
  ASSUME IInv, NEW r \in Requests, NEW i \in Likes, CreateLike(r, i)
  PROVE  IInv'
<1> USE DEF IInv
<1> DEFINE row == [post |-> req[r].post, user |-> req[r].user]
<1>1. /\ At(r, "like") /\ like[i] = None
      /\ UNCHANGED <<post, comment, published, lost>>
  BY DEF CreateLike
<1>2. row \in Like
  BY <1>1 DEF RequestInv, Like
<1>3. CASE Unique(req[r].post, req[r].user)
  <2>1. /\ like' = [like EXCEPT ![i] = row] /\ liked' = liked \union {i}
        /\ req' = [req EXCEPT ![r].pc = "publish", ![r].row = i]
        /\ UNCHANGED closing
    BY <1>3 DEF CreateLike
  <2>2. /\ req' \in [Requests -> Request]
        /\ req'[r].pc = "publish" /\ req'[r].row = i
        /\ \A q \in Requests : q # r => req'[q] = req[q]
    BY <2>1, TellFacts DEF Tells
  <2>3. TypeOK' /\ LikesInv'
    BY <1>1, <1>2, <2>1, <2>2 DEF TypeOK, LikesInv
  <2>4. i \notin liked /\ \A j \in liked : like[j] # row
    BY <1>1, <1>3 DEF Unique, LikesOf, LikesInv
  <2>5. OneLikePerUser'
    <3> HIDE DEF row
    <3>1. ASSUME NEW j \in liked PROVE like'[j] = like[j] /\ like'[i] = row
      BY <2>1, <2>4 DEF TypeOK
    <3> QED BY <2>1, <2>4, <3>1 DEF OneLikePerUser
  <2>6. Rows' = Rows \union {i} /\ i \notin Rows
    BY <1>1, <1>2, <2>1 DEF Rows, TypeOK
  <2>7. EventsMatchRows'
    BY <1>1, <2>2, <2>6, InsertFacts
  <2>8. ASSUME NEW q \in Requests PROVE RequestInv(q)'
    BY <1>1, <2>2, <2>6 DEF RequestInv
  <2> QED BY <2>3, <2>5, <2>7, <2>8
<1>4. CASE ~Unique(req[r].post, req[r].user)
  <2>1. End(r) /\ UNCHANGED <<like, liked>>
    BY <1>4 DEF CreateLike, Refused
  <2>2. /\ req' \in [Requests -> Request] /\ req'[r].pc = "idle"
        /\ \A q \in Requests : q # r => req'[q] = req[q]
        /\ closing' \in SUBSET (Requests \X (Posts \union Comments))
    BY <2>1, EndFacts
  <2> QED BY <1>1, <2>1, <2>2, QuietStep DEF RequestInv, tables
<1> QED BY <1>3, <1>4

\* create_comment
LEMMA CreateCommentInv ==
  ASSUME IInv, NEW r \in Requests, NEW c \in Comments, CreateComment(r, c)
  PROVE  IInv'
<1> USE DEF IInv
<1> DEFINE row == [post |-> req[r].post, user |-> req[r].user,
                   parent |-> req[r].parent, deleted |-> FALSE]
<1>1. /\ At(r, "comment") /\ comment[c] = None
      /\ comment' = [comment EXCEPT ![c] = row]
      /\ req' = [req EXCEPT ![r].pc = "publish", ![r].row = c]
      /\ UNCHANGED <<post, like, liked, published, lost, closing>>
  BY DEF CreateComment
<1>2. row \in Comment
  BY <1>1 DEF RequestInv, TypeOK, Request, Comment
<1>3. /\ req' \in [Requests -> Request]
      /\ req'[r].pc = "publish" /\ req'[r].row = c
      /\ \A q \in Requests : q # r => req'[q] = req[q]
  BY <1>1, TellFacts DEF Tells
<1>4. comment' \in [Comments -> Optional(Comment)]
      /\ comment'[c] # None 
      /\ \A d \in Comments : d # c => comment'[d] = comment[d]
  BY <1>1, <1>2 DEF TypeOK
<1>5. TypeOK' /\ LikesInv' /\ OneLikePerUser'
  BY <1>1, <1>3, <1>4 DEF TypeOK, LikesInv, OneLikePerUser
<1>6. Rows' = Rows \union {c} /\ c \notin Rows
  BY <1>1, <1>4 DEF Rows
<1>7. EventsMatchRows'
  BY <1>1, <1>3, <1>6, InsertFacts
<1>8. ASSUME NEW q \in Requests PROVE RequestInv(q)'
  BY <1>1, <1>3, <1>4, <1>6 DEF RequestInv
<1> QED BY <1>5, <1>7, <1>8

\* The event is published, or the request fails first.
LEMMA EndInv ==
  ASSUME IInv, NEW r \in Requests, Publish(r) \/ Fail(r)
  PROVE  IInv'
<1> USE DEF IInv
<1>1. /\ req' \in [Requests -> Request] /\ req'[r].pc = "idle"
      /\ \A q \in Requests : q # r => req'[q] = req[q]
      /\ closing' \in SUBSET (Requests \X (Posts \union Comments))
      /\ UNCHANGED tables
  BY EndFacts DEF Publish, Fail
<1>2. CASE ~At(r, "publish")
  <2>1. UNCHANGED <<published, lost>>
    BY <1>2 DEF Publish, Fail
  <2> QED BY <1>1, <1>2, <2>1, QuietStep DEF RequestInv
<1>3. CASE At(r, "publish")
  <2>0. PICK i \in Rows : i = req[r].row
    BY <1>3 DEF RequestInv
  <2>1. /\ Rows \subseteq Likes \union Comments /\ Telling(i) = {r}
        /\ i \notin published \union lost
    BY <1>3, <2>0 DEF EventsMatchRows, Telling, Rows
  <2>2. \/ published' = published \union {i} /\ lost' = lost
        \/ lost' = lost \union {i} /\ published' = published
    BY <1>3, <2>0 DEF Publish, Fail
  <2>3. Rows' = Rows
    BY <1>1 DEF Rows, tables
  <2>4. /\ Telling(i)' = {}
        /\ \A j \in Likes \union Comments : j # i => Telling(j)' = Telling(j)
    <3>1. \A j \in Likes \union Comments : Telling(j)' = Telling(j) \ {r}
      BY <1>1 DEF Telling
    <3>2. \A j \in Likes \union Comments : j # i => r \notin Telling(j)
      BY <2>0 DEF Telling
    <3>3. Telling(i)' = {}
      BY <2>1, <3>1
    <3>4. ASSUME NEW j \in Likes \union Comments, j # i
          PROVE  Telling(j)' = Telling(j)
      BY <3>1, <3>2, <3>4
    <3> QED BY <3>3, <3>4
  <2>5. EventsMatchRows'
    BY <2>1, <2>2, <2>3, <2>4 DEF EventsMatchRows
  <2>6. TypeOK' /\ LikesInv' /\ OneLikePerUser'
    BY <1>1, <2>1, <2>2 DEF TypeOK, LikesInv, OneLikePerUser, tables
  <2>7. ASSUME NEW q \in Requests PROVE RequestInv(q)'
    BY <1>1, <2>3 DEF RequestInv, tables
  <2> QED BY <2>5, <2>6, <2>7
<1> QED BY <1>2, <1>3

-----------------------------------------------------------------------------
(* Theorems *)

\* Every row of likes and comments ever committed is accounted for, and the
\* locals of a request name rows that exist.
THEOREM Invariance == Spec => []IInv
<1>1. Init => IInv
  BY DEF Init, IInv, TypeOK, LikesInv, RequestInv, OneLikePerUser, Idle,
         EventsMatchRows, Rows, Telling, Request, Labels
<1>2. IInv /\ [Next]_vars => IInv'
  <2> SUFFICES ASSUME IInv, [Next]_vars PROVE IInv'
    OBVIOUS
  <2>1. CASE UNCHANGED vars
    BY <2>1 DEF vars, tables, IInv, TypeOK, LikesInv, RequestInv,
                OneLikePerUser, EventsMatchRows, Rows, Telling
  <2>2. CASE Next
    BY <2>2, PostStartInv, UpdateStartInv, DeleteCommentStartInv,
       SecondReadInv, PostWriteInv, RowDeleteInv, CreateLikeInv,
       CreateCommentInv, EndInv DEF Next
  <2> QED BY <2>1, <2>2
<1> QED BY <1>1, <1>2, PTL DEF Spec

\* The tables hold rows of their types, with one like of a user on a post,
\* whatever requests of his overlap.
THEOREM RowsCorrect == Spec => []RowsAreSound
<1>1. IInv => RowsAreSound
  BY DEF IInv, RowsAreSound
<1> QED BY <1>1, Invariance, PTL

\* Events and committed rows agree, up to requests that failed in between.
THEOREM EventsCorrect == Spec => []EventsMatchRows
<1>1. IInv => EventsMatchRows
  BY DEF IInv
<1> QED BY <1>1, Invariance, PTL

\* No step changes a column to a value that no running update asks for, whatever
\* has changed since that update loaded the post.
THEOREM OnlyAskedChanges == Spec => ChangesOnlyAsAsked
<1>1. IInv /\ [Next]_vars => [ChangesWhatIsAsked]_vars
  <2> SUFFICES ASSUME IInv, Next PROVE ChangesWhatIsAsked
    BY DEF vars, tables, ChangesWhatIsAsked
  <2>1. CASE UNCHANGED post
    BY <2>1 DEF ChangesWhatIsAsked
  <2>2. ASSUME NEW r \in Requests, UpdatePost(r) PROVE ChangesWhatIsAsked
    <3> DEFINE q == req[r].post
    <3>1. q \in Posts /\ post[q] \in Post
      BY <2>2 DEF UpdatePost, IInv, RequestInv, TypeOK
    <3>2. /\ post'[q] = Updated(post[q], req[r].seen, req[r].asked)
          /\ \A p \in Posts : p # q => post'[p] = post[p]
      BY <2>2, <3>1 DEF UpdatePost, IInv, TypeOK
    <3>3. ASSUME NEW k \in Columns,
                 post'[q].settings[k] # post[q].settings[k]
          PROVE  req[r].asked[k] = post'[q].settings[k]
      BY <3>1, <3>2, <3>3 DEF Updated, Post
    <3> QED BY <2>2, <3>2, <3>3 DEF UpdatePost, ChangesWhatIsAsked
  <2>3. ASSUME NEW r \in Requests, DeletePost(r) PROVE ChangesWhatIsAsked
    <3>1. req[r].post \in Posts /\ post[req[r].post] \in Post
      BY <2>3 DEF DeletePost, IInv, RequestInv, TypeOK
    <3> QED BY <2>3, <3>1 DEF DeletePost, ChangesWhatIsAsked, IInv, TypeOK, Post
  <2>4. ASSUME NEW u \in Users, NEW p \in Posts, NEW s \in [Columns -> Values],
               CreatePost(u, p, s)
        PROVE  ChangesWhatIsAsked
    BY <2>4 DEF CreatePost, ChangesWhatIsAsked, IInv, TypeOK
  <2> QED
    BY <2>1, <2>2, <2>3, <2>4
       DEF Next, tables, LikeStart, CommentStart, ReplyStart, DeletePostStart,
           UpdateStart, GetParent, CreateComment, DeleteCommentStart,
           CreateLike, GetLike, DeleteLike, DeleteComment, Publish, Fail
<1> QED BY <1>1, Invariance, PTL DEF Spec, ChangesOnlyAsAsked

-----------------------------------------------------------------------------
(* Writes under what was deleted *)

\* A request that may still write a like or comment holds a post, and perhaps a
\* parent, that is not deleted, or was while the request held it.
Holding(r) == req[r].pc \in {"like_get", "like", "reply_get", "comment"}
HeldInv(r) ==
  /\ Holding(r) /\ post[req[r].post].deleted => <<r, req[r].post>> \in closing
  /\ At(r, "comment") /\ req[r].parent # None =>
       /\ req[r].parent \in Comments /\ comment[req[r].parent] # None
       /\ comment[req[r].parent].deleted => <<r, req[r].parent>> \in closing
  /\ req[r].pc \in {"like_get", "like", "reply_get"} => req[r].parent = None

\* What a request must leave alone for another to go on holding what it holds.
LEMMA HeldByOthers ==
  ASSUME IInv, NEW r \in Requests, HeldInv(r), req'[r] = req[r],
         \A x : <<r, x>> \in closing => <<r, x>> \in closing',
         \A p \in Posts : post[p] # None =>
           \/ post'[p].deleted = post[p].deleted
           \/ req[r].post # p
           \/ <<r, p>> \in closing',
         \A c \in Comments : comment[c] # None =>
           /\ comment'[c] # None
           /\ \/ comment'[c].deleted = comment[c].deleted
              \/ req[r].parent # c
              \/ <<r, c>> \in closing'
  PROVE  HeldInv(r)'
BY DEF IInv, RequestInv, HeldInv, Holding

\* Every action keeps what requests hold: a request starts with what it found
\* alive, and a deletion enters in closing every request that holds the row.
LEMMA HeldStep ==
  ASSUME IInv, \A r \in Requests : HeldInv(r), Next
  PROVE  \A r \in Requests : HeldInv(r)'
<1> USE DEF tables
<1>1. ASSUME NEW u \in Users, NEW p \in Posts, NEW s \in [Columns -> Values],
             CreatePost(u, p, s), NEW q \in Requests
      PROVE  HeldInv(q)'
  BY <1>1, HeldByOthers DEF CreatePost, IInv, TypeOK
<1>2. ASSUME NEW r \in Requests, NEW u \in Users, NEW p \in Posts,
             \/ LikeStart(r, u, p) \/ CommentStart(r, u, p)
             \/ ReplyStart(r, u, p) \/ DeletePostStart(r, u, p),
             NEW q \in Requests
      PROVE  HeldInv(q)'
  <2>1. PICK l \in {"like_get", "comment", "reply_get", "del_post"} :
          /\ Found(post[p])
          /\ Start(r, [Idle EXCEPT !.pc = l, !.user = u, !.post = p])
          /\ UNCHANGED <<tables, closing>>
    BY <1>2 DEF LikeStart, CommentStart, ReplyStart, DeletePostStart
  <2>2. /\ req'[r].pc = l /\ req'[r].post = p /\ req'[r].parent = None
        /\ \A x \in Requests : x # r => req'[x] = req[x]
    BY <2>1 DEF Start, Idle, IInv, TypeOK
  <2>3. CASE q # r
    BY <2>1, <2>2, <2>3, HeldByOthers
  <2>4. CASE q = r
    BY <2>1, <2>2, <2>4 DEF Found, HeldInv, Holding
  <2> QED BY <2>3, <2>4
<1>3. ASSUME NEW r \in Requests,
             \/ \E u \in Users, p \in Posts,
                   a \in [Columns -> Optional(Values)] : UpdateStart(r, u, p, a)
             \/ \E u \in Users, c \in Comments : DeleteCommentStart(r, u, c),
             NEW q \in Requests
      PROVE  HeldInv(q)'
  <2>1. /\ req'[r].pc \in {"update", "del_comment"}
        /\ \A x \in Requests : x # r => req'[x] = req[x]
        /\ UNCHANGED <<tables, closing>>
    <3>1. CASE \E u \in Users, p \in Posts,
                  a \in [Columns -> Optional(Values)] : UpdateStart(r, u, p, a)
      <4>1. PICK u \in Users, p \in Posts,
                 a \in [Columns -> Optional(Values)] : UpdateStart(r, u, p, a)
        BY <3>1
      <4> QED BY <4>1 DEF UpdateStart, Start, Idle, IInv, TypeOK
    <3>2. CASE \E u \in Users, c \in Comments : DeleteCommentStart(r, u, c)
      <4>1. PICK u \in Users, c \in Comments : DeleteCommentStart(r, u, c)
        BY <3>2
      <4> QED BY <4>1 DEF DeleteCommentStart, Start, Idle, IInv, TypeOK
    <3> QED BY <1>3, <3>1, <3>2
  <2>2. CASE q # r
    BY <2>1, <2>2, HeldByOthers
  <2>3. CASE q = r
    BY <2>1, <2>3 DEF HeldInv, Holding
  <2> QED BY <2>2, <2>3
<1>4. ASSUME NEW r \in Requests, GetLike(r), NEW q \in Requests
      PROVE  HeldInv(q)'
  <2>1. CASE q # r
    <3>1. req'[q] = req[q] /\ UNCHANGED <<tables, closing>>
      BY <1>4, <2>1 DEF GetLike, IInv, TypeOK
    <3> QED BY <3>1, HeldByOthers
  <2>2. CASE q = r
    BY <1>4, <2>2 DEF GetLike, HeldInv, Holding, IInv, TypeOK, Request
  <2> QED BY <2>1, <2>2
<1>5. ASSUME NEW r \in Requests, NEW c \in Comments, GetParent(r, c),
             NEW q \in Requests
      PROVE  HeldInv(q)'
  <2>1. CASE q # r
    <3>1. req'[q] = req[q] /\ UNCHANGED <<tables, closing>>
      BY <1>5, <2>1 DEF GetParent, IInv, TypeOK
    <3> QED BY <3>1, HeldByOthers
  <2>2. CASE q = r
    BY <1>5, <2>2
       DEF GetParent, Found, HeldInv, Holding, IInv, TypeOK, Request
  <2> QED BY <2>1, <2>2
<1>6. ASSUME NEW r \in Requests, NEW q \in Requests, r # q,
             End(r) \/ UNCHANGED <<req, closing>>
      PROVE  req'[q] = req[q]
             /\ \A x : <<q, x>> \in closing => <<q, x>> \in closing'
  BY <1>6 DEF End, IInv, TypeOK
<1>7. ASSUME NEW r \in Requests, End(r), UNCHANGED <<post, comment>>,
             NEW q \in Requests
      PROVE  HeldInv(q)'
  <2>1. CASE q # r
    BY <1>6, <1>7, <2>1, HeldByOthers
  <2>2. CASE q = r
    BY <1>7, <2>2, EndFacts DEF HeldInv, Holding, IInv, Idle
  <2> QED BY <2>1, <2>2
<1>8. ASSUME NEW r \in Requests, UpdatePost(r), NEW q \in Requests
      PROVE  HeldInv(q)'
  <2>1. req[r].post \in Posts /\ post[req[r].post] \in Post
    BY <1>8 DEF UpdatePost, IInv, RequestInv, TypeOK
  <2>2. Updated(post[req[r].post], req[r].seen, req[r].asked).deleted
          = post[req[r].post].deleted
    BY <2>1 DEF Updated, Post
  <2>3. \A p \in Posts : post'[p].deleted = post[p].deleted
    BY <1>8, <2>1, <2>2 DEF UpdatePost, IInv, TypeOK
  <2>4. CASE q # r
    BY <1>6, <1>8, <2>3, <2>4, HeldByOthers DEF UpdatePost
  <2>5. CASE q = r
    BY <1>8, <2>5, EndFacts DEF UpdatePost, HeldInv, Holding, IInv, Idle
  <2> QED BY <2>4, <2>5
<1>9. ASSUME NEW r \in Requests, DeletePost(r), NEW q \in Requests
      PROVE  HeldInv(q)'
  <2>1. req[r].post \in Posts /\ post[req[r].post] \in Post
    BY <1>9 DEF DeletePost, IInv, RequestInv, TypeOK
  <2>2. CASE q # r
    <3>1. \A p \in Posts : p # req[r].post => post'[p] = post[p]
      BY <1>9, <2>1 DEF DeletePost, IInv, TypeOK
    <3>2. req[q].post = req[r].post => <<q, req[r].post>> \in closing'
      BY <1>9, <2>2 DEF DeletePost, Closed
    <3>3. /\ req'[q] = req[q] /\ comment' = comment
          /\ \A x : <<q, x>> \in closing => <<q, x>> \in closing'
      BY <1>9, <2>2 DEF DeletePost, Closed, IInv, TypeOK
    <3> QED BY <3>1, <3>2, <3>3, HeldByOthers
  <2>3. CASE q = r
    BY <1>9, <2>3 DEF DeletePost, HeldInv, Holding, IInv, TypeOK, Idle
  <2> QED BY <2>2, <2>3
<1>10. ASSUME NEW r \in Requests, DeleteComment(r), NEW q \in Requests
       PROVE  HeldInv(q)'
  <2>1. req[r].row \in Comments /\ comment[req[r].row] \in Comment
    BY <1>10 DEF DeleteComment, IInv, RequestInv, TypeOK
  <2>2. CASE q # r
    <3>1. /\ \A c \in Comments : c # req[r].row => comment'[c] = comment[c]
          /\ comment'[req[r].row] \in Comment
      BY <1>10, <2>1 DEF DeleteComment, IInv, TypeOK, Comment
    <3>2. req[q].parent = req[r].row => <<q, req[r].row>> \in closing'
      BY <1>10, <2>2 DEF DeleteComment, Closed
    <3>3. /\ req'[q] = req[q] /\ post' = post
          /\ \A x : <<q, x>> \in closing => <<q, x>> \in closing'
      BY <1>10, <2>2 DEF DeleteComment, Closed, IInv, TypeOK
    <3> QED BY <3>1, <3>2, <3>3, HeldByOthers
  <2>3. CASE q = r
    BY <1>10, <2>3 DEF DeleteComment, HeldInv, Holding, IInv, TypeOK, Idle
  <2> QED BY <2>2, <2>3
<1>11. ASSUME NEW r \in Requests, NEW i \in Likes, CreateLike(r, i),
              NEW q \in Requests
       PROVE  HeldInv(q)'
  <2>1. CASE End(r)
    BY <1>7, <1>11, <2>1 DEF CreateLike
  <2>2. CASE Tells(r, i) /\ UNCHANGED closing
    <3>1. CASE q # r
      BY <1>11, <2>2, <3>1, TellFacts, HeldByOthers DEF CreateLike, IInv
    <3>2. CASE q = r
      BY <2>2, <3>2, TellFacts DEF HeldInv, Holding, IInv
    <3> QED BY <3>1, <3>2
  <2> QED BY <1>11, <2>1, <2>2 DEF CreateLike, Refused, Tells
<1>12. ASSUME NEW r \in Requests, NEW c \in Comments, CreateComment(r, c),
              NEW q \in Requests
       PROVE  HeldInv(q)'
  <2>1. Tells(r, c) /\ UNCHANGED <<post, closing>>
    BY <1>12 DEF CreateComment, Tells
  <2>2. \A d \in Comments : comment[d] # None => comment'[d] = comment[d]
    BY <1>12 DEF CreateComment, IInv, TypeOK
  <2>3. CASE q # r
    BY <2>1, <2>2, <2>3, TellFacts, HeldByOthers DEF IInv
  <2>4. CASE q = r
    BY <2>1, <2>4, TellFacts DEF HeldInv, Holding, IInv
  <2> QED BY <2>3, <2>4
<1> QED
  BY <1>1, <1>2, <1>3, <1>4, <1>5, <1>7, <1>8, <1>9, <1>10, <1>11, <1>12
     DEF Next, DeleteLike, Publish, Fail

\* A like, comment or reply under something that was deleted comes from a
\* request that was under way when it was deleted.
THEOREM LateWritesExplained == Spec => LateWritesWereUnderWay
<1>1. Init => \A r \in Requests : HeldInv(r)
  BY DEF Init, HeldInv, Holding, Idle
<1>2. IInv /\ (\A r \in Requests : HeldInv(r)) /\ [Next]_vars
        => (\A r \in Requests : HeldInv(r))'
  <2> SUFFICES ASSUME IInv, \A r \in Requests : HeldInv(r), [Next]_vars
               PROVE  \A r \in Requests : HeldInv(r)'
    OBVIOUS
  <2>1. CASE UNCHANGED vars
    BY <2>1 DEF vars, tables, HeldInv, Holding
  <2> QED BY <2>1, HeldStep
<1>3. IInv /\ (\A r \in Requests : HeldInv(r)) /\ [Next]_vars
        => [WritesLateOnlyWhenHeld]_vars
  <2> SUFFICES ASSUME IInv, \A r \in Requests : HeldInv(r), Next
               PROVE  WritesLateOnlyWhenHeld
    BY DEF vars, tables, WritesLateOnlyWhenHeld, New
  <2>1. CASE UNCHANGED <<like, comment>>
    BY <2>1 DEF WritesLateOnlyWhenHeld, New
  <2>2. ASSUME NEW r \in Requests, NEW i \in Likes, CreateLike(r, i)
        PROVE  WritesLateOnlyWhenHeld
    <3>1. /\ At(r, "like") /\ UNCHANGED <<post, comment>>
          /\ \A j \in Likes : j # i => like'[j] = like[j]
      BY <2>2 DEF CreateLike, IInv, TypeOK
    <3>2. i \in New(like) => /\ like'[i].post = req[r].post
                             /\ Tells(r, i)
      BY <2>2 DEF CreateLike, New, IInv, TypeOK, Tells
    <3>3. i \in New(like) /\ post[req[r].post].deleted =>
            LateBy(req[r].post)
      BY <3>1, <3>2, TellFacts DEF HeldInv, Holding, LateBy, IInv
    <3>4. New(like) \subseteq {i} /\ New(comment) = {}
      BY <3>1 DEF New, IInv, TypeOK
    <3> QED BY <3>2, <3>3, <3>4 DEF WritesLateOnlyWhenHeld
  <2>3. ASSUME NEW r \in Requests, NEW c \in Comments, CreateComment(r, c)
        PROVE  WritesLateOnlyWhenHeld
    <3>1. /\ At(r, "comment") /\ UNCHANGED <<post, like>> /\ Tells(r, c)
          /\ comment'[c].post = req[r].post
          /\ comment'[c].parent = req[r].parent
          /\ \A d \in Comments : d # c => comment'[d] = comment[d]
      BY <2>3 DEF CreateComment, Tells, IInv, TypeOK
    <3>2. /\ post[req[r].post].deleted => LateBy(req[r].post)
          /\ req[r].parent # None /\ comment[req[r].parent].deleted =>
               LateBy(req[r].parent)
      BY <3>1, TellFacts DEF HeldInv, Holding, LateBy, IInv
    <3>3. New(comment) \subseteq {c} /\ New(like) = {}
      BY <3>1 DEF New, IInv, TypeOK
    <3> QED BY <3>1, <3>2, <3>3 DEF WritesLateOnlyWhenHeld
  <2>4. ASSUME NEW r \in Requests, DeleteComment(r)
        PROVE  WritesLateOnlyWhenHeld
    <3>1. /\ UNCHANGED like
          /\ \A c \in Comments : comment[c] = None => comment'[c] = None
      BY <2>4 DEF DeleteComment, IInv, RequestInv, TypeOK
    <3> QED BY <3>1 DEF WritesLateOnlyWhenHeld, New, IInv, TypeOK
  <2> QED
    BY <2>1, <2>2, <2>3, <2>4
       DEF Next, tables, CreatePost, LikeStart, CommentStart, ReplyStart,
           DeletePostStart, UpdateStart, UpdatePost, DeletePost, GetParent,
           DeleteCommentStart, GetLike, DeleteLike, Publish, Fail
<1> QED BY <1>1, <1>2, <1>3, Invariance, PTL DEF Spec, LateWritesWereUnderWay

-----------------------------------------------------------------------------
(* The tables and the coroutines implement PostLedger *)

\* A step that leaves likes and events alone, and of posts and comments what
\* PostLedger knows of them.
LEMMA StutterStep ==
  ASSUME UNCHANGED <<like, liked, published>>,
         \A p \in Posts : Stage(post'[p]) = Stage(post[p]),
         \A c \in Comments : Stage(comment'[c]) = Stage(comment[c])
  PROVE  UNCHANGED Ledger!vars
BY DEF Ledger!vars, LikeStage, LikerOf, Stage

\* create_post and soft_delete_post make and delete a post, if it is not
\* deleted yet; update_post does neither.
LEMMA PostSteps ==
  ASSUME IInv,
         \/ \E u \in Users, p \in Posts, s \in [Columns -> Values] :
              CreatePost(u, p, s)
         \/ \E r \in Requests : UpdatePost(r) \/ DeletePost(r)
  PROVE  \/ UNCHANGED Ledger!vars
         \/ \E p \in Posts : Ledger!MakePost(p) \/ Ledger!DeletePost(p)
<1> DEFINE posts == [p \in Posts |-> Stage(post[p])]
<1>1. UNCHANGED <<like, liked, comment, published>>
  BY DEF CreatePost, UpdatePost, DeletePost
<1>2. post \in [Posts -> Optional(Post)]
  BY DEF IInv, TypeOK
<1>3. ASSUME NEW u \in Users, NEW p \in Posts, NEW s \in [Columns -> Values],
             CreatePost(u, p, s)
      PROVE  Ledger!MakePost(p)
  <2> DEFINE row == [owner |-> u, settings |-> s, deleted |-> FALSE]
  <2>0. row \in Post /\ row.deleted = FALSE
    BY DEF Post
  <2>1. /\ post[p] = None /\ post'[p] = row
        /\ \A q \in Posts \ {p} : post'[q] = post[q]
    BY <1>2, <1>3 DEF CreatePost
  <2> HIDE DEF row
  <2>2. posts[p] = "free" /\ posts' = Ledger!Made(posts, p)
    BY <2>0, <2>1 DEF Stage, Ledger!Made
  <2> QED BY <1>1, <2>2 DEF Ledger!MakePost, LikeStage, LikerOf, Stage
<1>4. ASSUME NEW r \in Requests, UpdatePost(r) PROVE UNCHANGED Ledger!vars
  <2>1. req[r].post \in Posts /\ post[req[r].post] \in Post
    BY <1>4 DEF UpdatePost, IInv, RequestInv, TypeOK
  <2> DEFINE row == Updated(post[req[r].post], req[r].seen, req[r].asked)
  <2>2. row \in Post /\ row.deleted = post[req[r].post].deleted
    <3>1. /\ req[r].seen \in [Columns -> Values]
          /\ req[r].asked \in [Columns -> Optional(Values)]
      BY <1>4 DEF UpdatePost, IInv, RequestInv
    <3> QED BY <2>1, <3>1 DEF Updated, Post
  <2>3. post' = [post EXCEPT ![req[r].post] = row]
    BY <1>4 DEF UpdatePost
  <2> HIDE DEF row
  <2>4. \A p \in Posts : Stage(post'[p]) = Stage(post[p])
    BY <1>2, <2>1, <2>2, <2>3 DEF Stage
  <2> QED BY <1>1, <2>4, StutterStep
<1>5. ASSUME NEW r \in Requests, DeletePost(r)
      PROVE  UNCHANGED Ledger!vars \/ \E p \in Posts : Ledger!DeletePost(p)
  <2>1. PICK p \in Posts : p = req[r].post /\ post[p] \in Post
    BY <1>5 DEF DeletePost, IInv, RequestInv, TypeOK
  <2>2. /\ post'[p] \in Post /\ post'[p].deleted = TRUE
        /\ \A q \in Posts \ {p} : post'[q] = post[q]
    BY <1>2, <1>5, <2>1 DEF DeletePost, Post
  <2>3. Stage(post'[p]) = "gone" /\ Stage(post[p]) \in {"there", "gone"}
    BY <2>1, <2>2 DEF Stage
  <2>4. CASE Stage(post[p]) = "gone"
    BY <1>1, <2>2, <2>3, <2>4, StutterStep
  <2>5. CASE Stage(post[p]) = "there"
    <3>1. posts[p] = "there" /\ posts' = Ledger!Removed(posts, p)
      BY <2>2, <2>3, <2>5 DEF Stage, Ledger!Removed
    <3>2. Ledger!DeletePost(p)
      BY <1>1, <3>1 DEF Ledger!DeletePost, LikeStage, LikerOf, Stage
    <3> QED BY <3>2
  <2> QED BY <2>3, <2>4, <2>5
<1> QED BY <1>3, <1>4, <1>5

\* The INSERT gives a like where there is none, or is refused.
LEMMA CreateLikeGives ==
  ASSUME IInv, NEW r \in Requests, NEW i \in Likes, CreateLike(r, i)
  PROVE  UNCHANGED Ledger!vars \/ Ledger!GiveLike(i)
<1> DEFINE p == req[r].post
           u == req[r].user
           likes  == [j \in Likes |-> LikeStage(j)]
           likers == [j \in Likes |-> LikerOf(j)]
<1>1. /\ p \in Posts /\ post[p] # None /\ u \in Users /\ like[i] = None
      /\ i \notin liked /\ liked \subseteq Likes
      /\ like \in [Likes -> Optional(Like)]
      /\ \A j \in liked : like[j] \in Like
      /\ UNCHANGED <<post, comment, published>>
  BY DEF CreateLike, IInv, TypeOK, RequestInv, LikesInv
<1>2. CASE Unique(p, u)
  <2> DEFINE l == [post |-> p, user |-> u]
  <2>1. like' = [like EXCEPT ![i] = l] /\ liked' = liked \union {i}
    BY <1>2 DEF CreateLike
  <2>2. /\ like'[i] = l /\ l # None
        /\ \A j \in Likes \ {i} : like'[j] = like[j]
    BY <1>1, <2>1 DEF Like
  <2>3. \A j \in liked : like[j] # l
    BY <1>2 DEF Unique, LikesOf
  <2>4. \A j \in Likes : <<p, u>> \notin LikerOf(j)
    BY <1>1, <2>3 DEF LikerOf, Like
  <2>5. likes[i] = "free" /\ likes' = Ledger!Made(likes, i)
    BY <1>1, <2>1, <2>2 DEF LikeStage, Ledger!Made
  <2>6. likers' = [likers EXCEPT ![i] = {<<p, u>>}]
    BY <1>1, <2>1, <2>2 DEF LikerOf
  <2>7. [q \in Posts |-> Stage(post[q])][p] # "free"
    BY <1>1 DEF Stage
  <2> HIDE DEF p, u
  <2> QED BY <1>1, <2>4, <2>5, <2>6, <2>7 DEF Ledger!GiveLike, Stage
<1>3. CASE ~Unique(p, u)
  BY <1>1, <1>3, StutterStep DEF CreateLike
<1> QED BY <1>2, <1>3

\* The DELETE takes a like back, if no other request has.
LEMMA DeleteLikeTakes ==
  ASSUME IInv, NEW r \in Requests, DeleteLike(r)
  PROVE  UNCHANGED Ledger!vars \/ \E i \in Likes : Ledger!TakeBackLike(i)
<1> DEFINE i == req[r].row
           likes  == [j \in Likes |-> LikeStage(j)]
           likers == [j \in Likes |-> LikerOf(j)]
<1>1. liked' = liked \ {i} /\ UNCHANGED <<post, like, comment, published>>
  BY DEF DeleteLike
<1>2. CASE i \notin liked
  BY <1>1, <1>2, StutterStep
<1>3. CASE i \in liked
  <2>1. i \in Likes /\ like[i] # None
    BY <1>3 DEF IInv, TypeOK, LikesInv
  <2> HIDE DEF i
  <2>2. likes[i] = "there" /\ likes' = Ledger!Removed(likes, i)
    BY <1>1, <1>3, <2>1 DEF LikeStage, Ledger!Removed
  <2>3. likers' = [likers EXCEPT ![i] = {}]
    BY <1>1, <1>3, <2>1 DEF LikerOf
  <2>4. Ledger!TakeBackLike(i)
    BY <1>1, <2>2, <2>3 DEF Ledger!TakeBackLike, Stage
  <2> QED BY <2>1, <2>4
<1> QED BY <1>2, <1>3

\* A comment is made on a post that there is or was, and deleted once.
LEMMA CommentSteps ==
  ASSUME IInv, NEW r \in Requests,
         DeleteComment(r) \/ \E c \in Comments : CreateComment(r, c)
  PROVE  \/ UNCHANGED Ledger!vars
         \/ \E c \in Comments : Ledger!MakeComment(c) \/ Ledger!DeleteComment(c)
<1> DEFINE comments == [c \in Comments |-> Stage(comment[c])]
<1>1. UNCHANGED <<post, like, liked, published>>
  BY DEF CreateComment, DeleteComment
<1>2. comment \in [Comments -> Optional(Comment)]
  BY DEF IInv, TypeOK
<1>3. ASSUME NEW c \in Comments, CreateComment(r, c)
      PROVE  Ledger!MakeComment(c)
  <2> DEFINE row == [post |-> req[r].post, user |-> req[r].user,
                     parent |-> req[r].parent, deleted |-> FALSE]
  <2>1. /\ comment[c] = None /\ comment'[c] = row
        /\ \A d \in Comments \ {c} : comment'[d] = comment[d]
        /\ req[r].post \in Posts /\ post[req[r].post] # None
    BY <1>2, <1>3 DEF CreateComment, IInv, RequestInv
  <2>2. comment'[c] # None /\ comment'[c].deleted = FALSE
    <3>1. req[r].user \in Users
      BY <1>3 DEF CreateComment, IInv, RequestInv
    <3>2. req[r].parent \in Comments \union {None}
      BY DEF IInv, TypeOK, Request
    <3>3. row \in Comment /\ row.deleted = FALSE
      BY <2>1, <3>1, <3>2 DEF Comment
    <3> QED BY <2>1, <3>3
  <2> HIDE DEF row
  <2>3. comments[c] = "free" /\ comments' = Ledger!Made(comments, c)
    BY <2>1, <2>2 DEF Stage, Ledger!Made
  <2>4. \E p \in Posts : [q \in Posts |-> Stage(post[q])][p] # "free"
    BY <2>1 DEF Stage
  <2> QED BY <1>1, <2>3, <2>4 DEF Ledger!MakeComment, LikeStage, LikerOf, Stage
<1>4. ASSUME DeleteComment(r)
      PROVE  \/ UNCHANGED Ledger!vars
             \/ \E c \in Comments : Ledger!DeleteComment(c)
  <2>1. PICK c \in Comments : c = req[r].row /\ comment[c] \in Comment
    BY <1>4 DEF DeleteComment, IInv, RequestInv, TypeOK
  <2>2. /\ comment'[c] \in Comment /\ comment'[c].deleted = TRUE
        /\ \A d \in Comments \ {c} : comment'[d] = comment[d]
    BY <1>2, <1>4, <2>1 DEF DeleteComment, Comment
  <2>3. Stage(comment'[c]) = "gone" /\ Stage(comment[c]) \in {"there", "gone"}
    BY <2>1, <2>2 DEF Stage
  <2>4. CASE Stage(comment[c]) = "gone"
    BY <1>1, <2>2, <2>3, <2>4, StutterStep
  <2>5. CASE Stage(comment[c]) = "there"
    <3>1. comments[c] = "there" /\ comments' = Ledger!Removed(comments, c)
      BY <2>2, <2>3, <2>5 DEF Stage, Ledger!Removed
    <3>2. Ledger!DeleteComment(c)
      BY <1>1, <3>1 DEF Ledger!DeleteComment, LikeStage, LikerOf, Stage
    <3> QED BY <3>2
  <2> QED BY <2>3, <2>4, <2>5
<1> QED BY <1>3, <1>4

\* What is published was made, and nobody has told of it.
LEMMA PublishTells ==
  ASSUME IInv, NEW r \in Requests, Publish(r)
  PROVE  \E x \in Likes \union Comments : Ledger!Tell(x)
<1>1. PICK x \in Rows : x = req[r].row
  BY DEF Publish, IInv, RequestInv
<1>2. r \in Telling(x) /\ x \in Likes \union Comments
  BY <1>1 DEF Publish, Telling, Rows
<1>3. x \notin published /\ published' = published \union {x}
  BY <1>1, <1>2 DEF Publish, IInv, EventsMatchRows
<1>4. UNCHANGED tables
  BY DEF Publish
<1>5. \/ x \in Likes /\ [i \in Likes |-> LikeStage(i)][x] # "free"
      \/ x \in Comments /\ [c \in Comments |-> Stage(comment[c])][x] # "free"
  BY <1>1 DEF Rows, LikeStage, Stage
<1>6. Ledger!Tell(x)
  BY <1>3, <1>4, <1>5 DEF Ledger!Tell, tables, LikeStage, LikerOf, Stage
<1> QED BY <1>2, <1>6

\* Every step of the coroutines is a step of PostLedger, or none.
LEMMA StepImplements == IInv /\ [Next]_vars => [Ledger!Next]_Ledger!vars
<1> SUFFICES ASSUME IInv, [Next]_vars
             PROVE  Ledger!Next \/ UNCHANGED Ledger!vars
  OBVIOUS
<1>1. CASE UNCHANGED <<tables, published>>
  BY <1>1, StutterStep DEF tables
<1>2. CASE \/ \E u \in Users, p \in Posts, s \in [Columns -> Values] :
                CreatePost(u, p, s)
           \/ \E r \in Requests : UpdatePost(r) \/ DeletePost(r)
  BY <1>2, PostSteps DEF Ledger!Next
<1>3. ASSUME NEW r \in Requests,
             \/ \E i \in Likes : CreateLike(r, i)
             \/ DeleteLike(r) \/ DeleteComment(r) \/ Publish(r)
             \/ \E c \in Comments : CreateComment(r, c)
      PROVE  Ledger!Next \/ UNCHANGED Ledger!vars
  BY <1>3, CreateLikeGives, DeleteLikeTakes, CommentSteps, PublishTells
     DEF Ledger!Next
<1> QED BY <1>1, <1>2, <1>3
        DEF vars, Next, LikeStart, CommentStart, ReplyStart, DeletePostStart,
            UpdateStart, GetParent, DeleteCommentStart, GetLike, Fail

\* At first nothing is made.
LEMMA InitImplements == Init => Ledger!Init
BY DEF Init, Ledger!Init, Stage, LikeStage, LikerOf

\* Requests that overlap at every read and write implement the ledger of posts,
\* likes and comments: each is made once and stays deleted, a user has one like
\* on a post, and nothing is told of twice or before it is made.
THEOREM LedgerImplemented == Spec => ImplementsLedger
<1> USE DEF Spec, ImplementsLedger, Ledger!Spec
<1> QED BY InitImplements, StepImplements, Invariance, PTL
=============================================================================
