------------------------------ MODULE PostLedger ------------------------------
(***************************************************************************)
(* What the Post-Server promises of posts, likes and comments, without the *)
(* rows, the sessions and the commits that bring it about.  Each is made   *)
(* once; what was deleted or taken back, whoever did it, does not come     *)
(* back; a user has one like on a post at a time; and of every like and    *)
(* comment that was made Kafka is told once at most, and never before.     *)
(***************************************************************************)
CONSTANTS Users, Posts, Likes, Comments

VARIABLES
  posts, likes, comments,  \* the stage of each
  likers,                  \* who likes what, while a like is there
  told                     \* the likes and comments Kafka was told of

vars == <<posts, likes, comments, likers, told>>

Init ==
  /\ posts = [p \in Posts |-> "free"]
  /\ likes = [i \in Likes |-> "free"]
  /\ comments = [c \in Comments |-> "free"]
  /\ likers = [i \in Likes |-> {}]
  /\ told = {}

Made(stage, x)    == [stage EXCEPT ![x] = "there"]
Removed(stage, x) == [stage EXCEPT ![x] = "gone"]

MakePost(p) ==
  /\ posts[p] = "free" /\ posts' = Made(posts, p)
  /\ UNCHANGED <<likes, comments, likers, told>>

DeletePost(p) ==
  /\ posts[p] = "there" /\ posts' = Removed(posts, p)
  /\ UNCHANGED <<likes, comments, likers, told>>

\* The post may have been deleted while the like was on its way.
GiveLike(i) ==
  /\ likes[i] = "free" /\ likes' = Made(likes, i)
  /\ \E p \in Posts, u \in Users :
       /\ posts[p] # "free"
       /\ \A j \in Likes : <<p, u>> \notin likers[j]
       /\ likers' = [likers EXCEPT ![i] = {<<p, u>>}]
  /\ UNCHANGED <<posts, comments, told>>

TakeBackLike(i) ==
  /\ likes[i] = "there" /\ likes' = Removed(likes, i)
  /\ likers' = [likers EXCEPT ![i] = {}]
  /\ UNCHANGED <<posts, comments, told>>

MakeComment(c) ==
  /\ \E p \in Posts : posts[p] # "free"
  /\ comments[c] = "free" /\ comments' = Made(comments, c)
  /\ UNCHANGED <<posts, likes, likers, told>>

DeleteComment(c) ==
  /\ comments[c] = "there" /\ comments' = Removed(comments, c)
  /\ UNCHANGED <<posts, likes, likers, told>>

\* What is told of may be gone by then.
Tell(x) ==
  /\ \/ x \in Likes /\ likes[x] # "free"
     \/ x \in Comments /\ comments[x] # "free"
  /\ x \notin told /\ told' = told \union {x}
  /\ UNCHANGED <<posts, likes, comments, likers>>

Next ==
  \/ \E p \in Posts : MakePost(p) \/ DeletePost(p)
  \/ \E i \in Likes : GiveLike(i) \/ TakeBackLike(i)
  \/ \E c \in Comments : MakeComment(c) \/ DeleteComment(c)
  \/ \E x \in Likes \union Comments : Tell(x)

Spec == Init /\ [][Next]_vars
=============================================================================
