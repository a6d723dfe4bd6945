-------------------------------- MODULE Posts --------------------------------
(***************************************************************************)
(* Posts, likes and comments of the Post-Server, and the events it         *)
(* publishes to Kafka.  A request is a coroutine with a database session   *)
(* of its own: it selects, decides, and writes in a later step, when what  *)
(* it selected may have changed.  A commit and the event that tells of it  *)
(* are two steps.  A request that is refused (no such post, not the owner) *)
(* ends where it reads and changes nothing.                                *)
(***************************************************************************)
CONSTANTS
  Users, Requests,
  Posts, Likes, Comments,  \* the pools primary keys are drawn from
  Columns, Values,         \* what update_post can change, and to what
  None

Post    == [owner : Users, settings : [Columns -> Values], deleted : BOOLEAN]
Like    == [post : Posts, user : Users]
Comment == [post : Posts, user : Users, parent : Comments \union {None},
            deleted : BOOLEAN]

ASSUME PostsAssumption ==
  /\ None \notin Users \union Posts \union Likes \union Comments \union Values
  /\ None \notin Post \union Like \union Comment
  /\ Likes \intersect Comments = {}

VARIABLES
  post,       \* the rows of posts
  like,       \* the rows of post_likes ever inserted
  liked,      \* those that were not deleted
  comment,    \* the rows of post_comments
  req,        \* program counter and locals of each request
  published,  \* the likes and comments an event was published of
  lost,       \* history: those whose request ended before it published
  closing     \* history: the requests that held a post or comment when it
              \* was deleted, and are still running

tables == <<post, like, liked, comment>>
vars   == <<tables, req, published, lost, closing>>

Labels == {"idle", "like_get", "like", "unlike", "reply_get", "comment",
           "publish", "update", "del_post", "del_comment"}

\* The post and the comment to reply to; the like or comment that was read or
\* made; the columns as they were read and as the request asks for them.
Optional(S) == S \union {None}
Request == [pc : Labels, user : Optional(Users), post : Optional(Posts),
            parent : Optional(Comments), row : Optional(Likes \union Comments),
            seen  : Optional([Columns -> Values]),
            asked : Optional([Columns -> Optional(Values)])]
Idle == [pc |-> "idle", user |-> None, post |-> None, parent |-> None,
         row |-> None, seen |-> None, asked |-> None]

TypeOK ==
  /\ post \in [Posts -> Optional(Post)]
  /\ like \in [Likes -> Optional(Like)] /\ liked \in SUBSET Likes
  /\ comment \in [Comments -> Optional(Comment)]
  /\ req \in [Requests -> Request]
  /\ published \in SUBSET (Likes \union Comments)
  /\ lost \in SUBSET (Likes \union Comments)
  /\ closing \in SUBSET (Requests \X (Posts \union Comments))

Init ==
  /\ post = [p \in Posts |-> None]
  /\ like = [i \in Likes |-> None] /\ liked = {}
  /\ comment = [c \in Comments |-> None]
  /\ req = [r \in Requests |-> Idle]
  /\ published = {} /\ lost = {} /\ closing = {}

\* get_post_by_id and get_comment_by_id find what is not deleted.
FoundDeleted(row) == row # None
Found(row)        == row # None /\ ~row.deleted

At(r, label)    == req[r].pc = label
Start(r, local) == At(r, "idle") /\ req' = [req EXCEPT ![r] = local]
End(r) ==
  /\ req' = [req EXCEPT ![r] = Idle]
  /\ closing' = {h \in closing : h[1] # r}

\* A row of the given id is marked as deleted: requests that hold it go on.
Closed(x) ==
  closing \union {<<r, x>> : r \in {q \in Requests :
                                      x \in {req[q].post, req[q].parent}}}

-----------------------------------------------------------------------------
(* create_post, update_post, delete_post *)

\* The client sends the id; an insert of one that is taken fails.
CreatePost(u, p, s) ==
  /\ post[p] = None
  /\ post' = [post EXCEPT ![p] = [owner |-> u, settings |-> s,
                                  deleted |-> FALSE]]
  /\ UNCHANGED <<like, liked, comment, req, published, lost, closing>>

\* What the request remembers of the columns it loaded.
LoadedRow(p) == post[p]
Loaded(p)    == post[p].settings

UpdateStart(r, u, p, a) ==
  /\ Found(post[p]) /\ post[p].owner = u
  /\ Start(r, [Idle EXCEPT !.pc = "update", !.user = u, !.post = p,
                           !.seen = Loaded(p), !.asked = a])
  /\ UNCHANGED <<tables, published, lost, closing>>

\* The UPDATE names the columns whose value is not the one that was loaded.
WholeSettings(row, seen, asked) ==
  [row EXCEPT !.settings =
     [k \in Columns |-> IF asked[k] = None THEN seen[k] ELSE asked[k]]]
WholeRow(row, seen, asked) ==
  [WholeSettings(row, seen, asked) EXCEPT !.deleted = FALSE]
Updated(row, seen, asked) ==
  [row EXCEPT !.settings =
     [k \in Columns |-> IF asked[k] \in {None, seen[k]} THEN @[k]
                                                        ELSE asked[k]]]

UpdatePost(r) ==
  /\ At(r, "update")
  /\ post' = [post EXCEPT ![req[r].post] =
                            Updated(@, req[r].seen, req[r].asked)]
  /\ End(r)
  /\ UNCHANGED <<like, liked, comment, published, lost>>

DeletePostStart(r, u, p) ==
  /\ Found(post[p]) /\ post[p].owner = u
  /\ Start(r, [Idle EXCEPT !.pc = "del_post", !.user = u, !.post = p])
  /\ UNCHANGED <<tables, published, lost, closing>>

DeletePost(r) ==
  LET p == req[r].post IN
  /\ At(r, "del_post")
  /\ post' = [post EXCEPT ![p].deleted = TRUE]
  /\ req' = [req EXCEPT ![r] = Idle]
  /\ closing' = {h \in Closed(p) : h[1] # r}
  /\ UNCHANGED <<like, liked, comment, published, lost>>

-----------------------------------------------------------------------------
(* like_post *)

LikeStart(r, u, p) ==
  /\ Found(post[p])
  /\ Start(r, [Idle EXCEPT !.pc = "like_get", !.user = u, !.post = p])
  /\ UNCHANGED <<tables, published, lost, closing>>

LikesOf(p, u) == {i \in liked : like[i] = [post |-> p, user |-> u]}

\* get_like: a like that is there is taken back.
GetLike(r) ==
  LET found == LikesOf(req[r].post, req[r].user) IN
  /\ At(r, "like_get")
  /\ \/ found = {} /\ req' = [req EXCEPT ![r].pc = "like"]
     \/ \E i \in found :
          req' = [req EXCEPT ![r].pc = "unlike", ![r].row = i]
  /\ UNCHANGED <<tables, published, lost, closing>>

\* The row that was read is deleted by its id, if it is still there.
DeleteLike(r) ==
  /\ At(r, "unlike")
  /\ liked' = liked \ {req[r].row}
  /\ End(r)
  /\ UNCHANGED <<post, like, comment, published, lost>>

\* uq_post_user_like, and what becomes of the request that runs into it.
Unchecked(p, u)      == TRUE
Unique(p, u)         == LikesOf(p, u) = {}
IgnoresRefusal(r, i) ==
  req' = [req EXCEPT ![r].pc = "publish", ![r].row = i] /\ UNCHANGED closing
Refused(r, i)        == End(r)

CreateLike(r, i) ==
  /\ At(r, "like") /\ like[i] = None
  /\ IF Unique(req[r].post, req[r].user)
       THEN /\ like' = [like EXCEPT ![i] = [post |-> req[r].post,
                                            user |-> req[r].user]]
            /\ liked' = liked \union {i}
            /\ req' = [req EXCEPT ![r].pc = "publish", ![r].row = i]
            /\ UNCHANGED closing
       ELSE Refused(r, i) /\ UNCHANGED <<like, liked>>
  /\ UNCHANGED <<post, comment, published, lost>>

-----------------------------------------------------------------------------
(* comment_on_post, reply_to_comment, delete_comment *)

CommentStart(r, u, p) ==
  /\ Found(post[p])
  /\ Start(r, [Idle EXCEPT !.pc = "comment", !.user = u, !.post = p])
  /\ UNCHANGED <<tables, published, lost, closing>>

ReplyStart(r, u, p) ==
  /\ Found(post[p])
  /\ Start(r, [Idle EXCEPT !.pc = "reply_get", !.user = u, !.post = p])
  /\ UNCHANGED <<tables, published, lost, closing>>

\* Any comment that is found will do, whatever post it is on.
GetParent(r, c) ==
  /\ At(r, "reply_get")
  /\ Found(comment[c])
  /\ req' = [req EXCEPT ![r].pc = "comment", ![r].parent = c]
  /\ UNCHANGED <<tables, published, lost, closing>>

CreateComment(r, c) ==
  /\ At(r, "comment") /\ comment[c] = None
  /\ comment' = [comment EXCEPT ![c] =
                   [post |-> req[r].post, user |-> req[r].user,
                    parent |-> req[r].parent, deleted |-> FALSE]]
  /\ req' = [req EXCEPT ![r].pc = "publish", ![r].row = c]
  /\ UNCHANGED <<post, like, liked, published, lost, closing>>

\* The post in the path is not looked at.
DeleteCommentStart(r, u, c) ==
  /\ Found(comment[c]) /\ comment[c].user = u
  /\ Start(r, [Idle EXCEPT !.pc = "del_comment", !.user = u, !.row = c])
  /\ UNCHANGED <<tables, published, lost, closing>>

DeleteComment(r) ==
  LET c == req[r].row IN
  /\ At(r, "del_comment")
  /\ comment' = [comment EXCEPT ![c].deleted = TRUE]
  /\ req' = [req EXCEPT ![r] = Idle]
  /\ closing' = {h \in Closed(c) : h[1] # r}
  /\ UNCHANGED <<post, like, liked, published, lost>>

-----------------------------------------------------------------------------
(* events and failures *)

Publish(r) ==
  /\ At(r, "publish")
  /\ published' = published \union {req[r].row}
  /\ End(r)
  /\ UNCHANGED <<tables, lost>>

\* The database or Kafka raises, the parent of a reply is not found, or the
\* server stops: the request goes no further.
Fail(r) ==
  /\ ~At(r, "idle")
  /\ lost' = IF At(r, "publish") THEN lost \union {req[r].row} ELSE lost
  /\ End(r)
  /\ UNCHANGED <<tables, published>>

Next ==
  \/ \E u \in Users, p \in Posts :
       \/ \E s \in [Columns -> Values] : CreatePost(u, p, s)
       \/ \E r \in Requests :
            \/ LikeStart(r, u, p) \/ CommentStart(r, u, p)
            \/ ReplyStart(r, u, p) \/ DeletePostStart(r, u, p)
            \/ \E a \in [Columns -> Optional(Values)] : UpdateStart(r, u, p, a)
  \/ \E r \in Requests :
       \/ \E c \in Comments :
            \/ GetParent(r, c) \/ CreateComment(r, c)
            \/ \E u \in Users : DeleteCommentStart(r, u, c)
       \/ \E i \in Likes : CreateLike(r, i)
       \/ GetLike(r) \/ DeleteLike(r) \/ DeleteComment(r)
       \/ UpdatePost(r) \/ DeletePost(r)
       \/ Publish(r) \/ Fail(r)

Spec == Init /\ [][Next]_vars

-----------------------------------------------------------------------------
(* Properties *)

\* A user has one like on a post, though two requests of his can both have
\* found none: the second insert runs into uq_post_user_like.
OneLikePerUser ==
  \A i, j \in liked : like[i] = like[j] => i = j

\* The tables hold rows of their types, and one like for each user and post.
RowsAreSound == TypeOK /\ OneLikePerUser

\* Where posts, likes and comments are, as PostLedger has it.
Stage(row)   == IF row = None THEN "free"
                ELSE IF row.deleted THEN "gone" ELSE "there"
LikeStage(i) == IF i \in liked THEN "there"
                ELSE IF like[i] = None THEN "free" ELSE "gone"
LikerOf(i)   == IF i \in liked THEN {<<like[i].post, like[i].user>>} ELSE {}

Ledger == INSTANCE PostLedger
  WITH posts    <- [p \in Posts |-> Stage(post[p])],
       likes    <- [i \in Likes |-> LikeStage(i)],
       comments <- [c \in Comments |-> Stage(comment[c])],
       likers   <- [i \in Likes |-> LikerOf(i)],
       told     <- published

\* Requests that read and later write, over each other, do to posts, likes and
\* comments what PostLedger allows: an update that loaded a post before it was
\* deleted does not bring it back, a like that two requests found is taken back
\* once, and no like or comment is told of twice.
ImplementsLedger == Ledger!Spec

\* A column of a post changes only to a value that a running update asks for:
\* of two updates that overlap, neither takes back what the other has set.
ChangesWhatIsAsked ==
  \A p \in Posts : post[p] # None =>
    \A k \in Columns : post'[p].settings[k] # post[p].settings[k] =>
      \E r \in Requests : /\ At(r, "update") /\ req[r].post = p
                          /\ req[r].asked[k] = post'[p].settings[k]
ChangesOnlyAsAsked == [][ChangesWhatIsAsked]_vars

\* A deleted post gets a like, a comment or a reply, and a deleted comment a
\* reply, only from a request that had read it before it was deleted: once
\* those have ended it is left alone.
New(t) == {i \in DOMAIN t : t[i] = None /\ t'[i] # None}
LateBy(x) == \E r \in Requests : <<r, x>> \in closing /\ req'[r] # req[r]
WritesLateOnlyWhenHeld ==
  /\ \A i \in New(like) : post[like'[i].post].deleted => LateBy(like'[i].post)
  /\ \A c \in New(comment) :
       LET p == comment'[c].post
           d == comment'[c].parent
       IN /\ post[p].deleted => LateBy(p)
          /\ d # None /\ comment[d].deleted => LateBy(d)
LateWritesWereUnderWay == [][WritesLateOnlyWhenHeld]_vars

\* An event tells of a like or comment that was committed, and every like or
\* comment that was committed is told of once: its event is published, or will
\* be by the one request that made it, or was lost with that request.
Rows == {i \in Likes : like[i] # None} \union
        {c \in Comments : comment[c] # None}
Telling(i) == {r \in Requests : At(r, "publish") /\ req[r].row = i}
EventsMatchRows ==
  /\ published \union lost \subseteq Rows
  /\ published \intersect lost = {}
  /\ \A i \in Likes \union Comments :
       IF i \in Rows \ (published \union lost)
         THEN \E r \in Requests : Telling(i) = {r}
         ELSE Telling(i) = {}
=============================================================================
