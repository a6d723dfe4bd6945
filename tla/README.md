# Formal model of the Instagram clone

TLA+ modules for the stateful core of this repository, TLC runs that check
them on small instances, and TLAPS proofs of what matters most for every
instance. File names and line numbers below are relative to the repository.

## 1. The system

Five Python services (FastAPI, asyncio, one process each) behind an Nginx
gateway, and a React client.

| Part | Keeps | Operations that change it |
|---|---|---|
| Authentication-Server | PostgreSQL `users`, `password_history`; Redis `session:{sid}`, `user_sessions:{user}`, `email_verification:{user}`, reset tokens | register (email, phone), verify and resend, login, refresh, logout, reset and change password |
| User-Service | PostgreSQL `user_profiles`, `privacy_settings`, `follows` | create profile (gRPC), rename, settings, follow, unfollow, accept, reject, avatar |
| Post-Server | PostgreSQL `posts`, `post_likes`, `post_comments`, stories; objects in MinIO | create, update, delete a post; like; comment, reply, delete a comment; stories; HLS transcoding |
| chat-server | memory `active_connections`; Redis `user:active:{user}`; PostgreSQL conversations, messages, deletions | connect, disconnect, chat.message, message.edit, message.delete, create conversation |
| Notification-Server | PostgreSQL notifications; a consumer thread | consume events, save a row, send a mail, mark as read |
| Web client | component state, tokens in local storage | pages that call the services, the chat page with its WebSocket |

How they interact:

- **REST through Nginx**: `/auth/`, `/user-profile/`, `/posts/`, `/stories/`,
  `/chat/`, `/notifications/` each go to one service. Each request is a
  coroutine with a database session of its own (READ COMMITTED); between two
  awaits nothing else runs in that service, at an await anything may.
- **gRPC** to the User-Service: registration calls `CreateUserProfile` inside
  its own transaction, login and refresh look up the username, the chat-server
  looks up profiles.
- **Kafka**: `user.registered`, `email.verified`, the two password reset topics,
  `post.liked`, `post.commented`, `comment.replied` go to the
  Notification-Server; `notification.created`, which the User-Service
  publishes, is subscribed to by nobody. Events are published after the commit.
- **Redis** is shared by nothing but the service that owns the keys.
- **WebSockets**: the chat-server pushes messages and presence over every
  connection of a user.

What is hard in it:

- Nearly every operation is *read, decide, await, write*, with no lock and no
  condition in the write. Unique constraints guard some of the pairs
  (`uq_post_user_like`, `uq_follower_following`, emails, phones, usernames),
  nothing guards the others.
- Redis work is a series of single commands that other requests interleave
  with, and that may stop half way; keys expire on their own.
- Registration spans two databases with no common transaction.
- A commit and the event that tells of it are two steps.
- The chat-server iterates over lists that other coroutines change.
- The consumer of the Notification-Server is a thread that hands work to the
  event loop of another, shares its SMTP connection, and commits offsets by the
  poll, not by the event.
- Videos are transcoded by a thread nobody waits for, in the pool every request
  to the storage needs; images of stories are removed by a clock of their own.
- A chat page loads the history while pushes arrive.
- Services migrate their schema when they start, and starts may end anywhere.

The hazards these lead to are listed one by one, with their lines and the
properties that would catch them, in `PROJECT.json`.

What makes each part correct, in a sentence:

- *Sessions*: what was ended stays ended; what is alive can be found by a
  forced login; nobody is locked out for ever by sessions that are dead.
- *Accounts*: one account per contact, one profile per account and per
  username; verification is not undone; the code that counts was mailed.
- *Passwords*: the last three are on record, in a table that stays short.
- *Follows*: one relation per pair; nobody follows a private account unasked;
  withdrawn is withdrawn; notifications tell the truth.
- *Posts*: one like per user; deleted is deleted; updates do not take back each
  other's changes; every like and comment is told of once or lost.
- *Connections*: the lists are exactly the open connections; presence ends;
  nobody is sent a message twice, nor missed without a removal.
- *Messages*: deleted for everyone is deleted; the history can always be served;
  an open page shows what the history would.
- *Notifications*: no event is passed over without a reason on record; none is
  handled twice without one; none stops the others.
- *Media*: a post has its files; a stream that is offered can be played; every
  video is streamed and every page answered.
- *Stories*: an unexpired story has its image; feeds are true; images go away.
- *Starts*: a service that serves has the schema it declares; it serves in the end.

## 2. The modules

| Module | Models | Proofs |
|---|---|---|
| `SessionLedger` | what login sessions promise, without Redis (abstract) | |
| `AuthSessions` | `authentication_service.py` login, refresh, logout; `session_store.py` | `AuthSessions_proofs` |
| `Accounts` | registration strategies, `user_client.py`, `auth_grpc_service.py`, verification, renaming | `Accounts_proofs` |
| `PasswordHistory` | reset strategies, `update_password_with_history` | `Accounts_proofs`, second part |
| `FollowRelations` | what follow relations promise, without rows and transactions (abstract) | |
| `FollowGraph` | `user_profile_service.py` follow, unfollow, accept, reject, settings | `FollowGraph_proofs` |
| `PostLedger` | what posts, likes and comments promise, without rows and coroutines (abstract) | |
| `Posts` | `post_service.py` and its repository: update, delete, like, comment | `Posts_proofs` |
| `ChatConnections` | `websocket_manager.py`, `user_active_store.py`, who the handlers send to | `ChatConnections_proofs` |
| `ChatLedger` | what the messages of a conversation promise, without rows and handlers (abstract) | |
| `ChatMessages` | `chat_handler.py`, `edit_handler.py`, `delete_handler.py`, `conversation_service.py`, `ChatsPage.jsx` | `ChatMessages_proofs` |
| `Notifications` | `consumer.py`, the handlers, `email.py`, `main.py`, read marks | `Notifications_proofs` |
| `Media` | uploads, `create_post`, `hls_service.py`, `_enrich_post_with_urls` | `Media_proofs` |
| `Stories` | `story_service.py`, its repository, the bucket `temp-media` | `Media_proofs`, second part |
| `Deployment` | `main.py` of every service, the migrations, Docker's restarts | `Notifications_proofs`, second part |

`MC<Module>` gives each the symmetry sets or the definitions its `.cfg` files
need. A `<Module>_pass.cfg` holds the properties that hold;
`AuthSessions_reuse.cfg` refutes a sentence of the code (section 5). A module of
proofs extends one model or two; so that it can extend two, `PasswordHistory`,
`Stories` and `Deployment` name their `Init`, `Next` and the like with a prefix
(`HistoryInit`, `StoriesNext`, `StartsSpec`).

The pattern is the same in all of them. A request is a record `req[r]` (in
`ChatConnections` a coroutine `co[c]`, in `PasswordHistory` `changes[r]`, in
`Notifications` the one `thread`, in `Media` a `client` and its `task` or `page`,
in `Stories` a `sharing` or a `feed`): its program counter `pc`, named for the
step it will take next, and the locals it carries across an await. An action is
what runs between two awaits at which others can see or change something: one
Redis command, one SELECT whose result is used later, one COMMIT, one publish,
one send. A request that is refused before it changed anything is no step.
`Fail(r)` stops a request at any await: the database, Redis or Kafka raises, or
the server dies; what was not committed is rolled back, what was not published
never is. Comments name *history* variables, which no action reads to decide
anything: they exist for properties.

### AuthSessions

State: `session` the keys `session:{sid}`; `index[u]` the set
`user_sessions:{u}`; `ttl` the sets that have a time to live; `owner[s]` whose
tokens carry `s`; `issued` the sids a client holds. `outlives` records which
sessions were stored after the last EXPIRE of the set that lists them: it lets
`IndexExpires` happen exactly when the clock permits, without a clock.

| Action | Code |
|---|---|
| `LoginStart`, `LoginCheck` | `login` up to the decision on `force_logout` |
| `DeleteAllRead`, `DeleteAllKey`, `DeleteAllIndex` | `delete_all_user_sessions`: SMEMBERS, a DEL per sid, DEL of the set |
| `SetSession`, `AddUserSession`, `ExpireUserSessions` | the SET, SADD and EXPIRE that end login and refresh |
| `RefreshStart`, `LogoutStart`, `DeleteOld`, `RemoveOld` | `refresh_session`, `logout` and `remove_user_session` |
| `SessionExpires`, `IndexExpires` | Redis |

`SessionLedger` is what clients rely on: a sid is drawn for one user, its session
opened at most once, closed for good, its tokens handed over at most once. The
refinement mapping reads the stage of a sid off the keys and the requests: drawn
while a request is still to store it, open while its key is there, closed
after. `ImplementsLedger` says that `AuthSessions` implements it.

A session key expires only when no request that is storing it is still running:
the time to live is days, a request lasts seconds.

### Accounts

State: the committed rows of `users` and of `profiles`, the code `otp[i]` in
Redis, the links that were `mailed`. The INSERT of a user is flushed before the
gRPC call and committed after it: `CreateUser` is the INSERT and the call
(blocking, so no other coroutine of the server runs in it), `CommitUser` the
commit. An INSERT of the same contact by another transaction waits (`Blocked`).
The call has three outcomes: the profile is made and we learn it; it is
refused; it is made and the answer is lost. A code is stored (`SetOtp`) before its
mail is published (`PublishRegistered`), and other requests may store theirs in
between. Two history variables: `broken`, the ids whose registration failed once
they had a profile, and `unsent`, those whose code expired or whose request failed
while it was to bring the code that counts (`Brings`).

### PasswordHistory

State: the `rows` of one account, latest first, and `last`, the three latest
values of `users.password_hash`. A reset reads the rows, checks the new password
against the first three, marks the surplus rows as ones it will delete
(`doomed`), and in a later step commits the password, its new row and the
deletions. What one request has marked are always the oldest rows, since new
ones come before: it spares the first `Spared(r)`. `RegisterAgain` is the
registration of an unverified email again, which writes the password and no row.
A password stands for its hashes.

### FollowGraph

State: the committed `follows` rows, the `visibility` of each account, the
`events`. `FollowStart`, `ReadPrivacy` and `CreateFollow` are the two SELECTs and
the INSERT of `follow_user`; accepting, rejecting and unfollowing select a row
and update or delete it by its id later; an UPDATE that finds its row gone
raises `StaleDataError`. Then events are published one at a time, and of the locals
of the request only the row they name, and the status it was made with, are kept.

`FollowRelations` is what the users of the service rely on: a relation begins once,
not beside another of its pair, as a request or as a follow; a request may be
accepted; what has ended stays ended; and a message tells of a relation that
began, of an accepted one if it says so. The refinement mapping (`Stage`,
`Parties`) reads a relation off its row while there is one, and off the ids that
were drawn and the rows that were deleted after that. `ImplementsRelations` says
that `FollowGraph` implements it: an INSERT that `uq_follower_following` refuses
uses its id up, a second DELETE or UPDATE of a row is a stutter.

### Posts

State: `post`, `like` (every row ever inserted) with `liked` (those still there),
`comment`, and what was `published`. A like is a toggle: read the post, read the
like, then insert or delete by id. `UpdatePost` writes only the columns whose
value differs from the one that was loaded, as SQLAlchemy does. The post in the
path of `delete_comment` is not looked at by the code, nor by the model; the
parent of a reply may be a comment of any post. A row that is `lost` is one
whose request ended before the publish was confirmed: Kafka may have it all the
same. The feed, the lists and the signed URLs only read.

`PostLedger` is what the clients and the consumer of the events rely on: a post, a
like and a comment is made once and gone for good once it is deleted or taken back;
no two likes of one user on one post are there at a time; and of a like or comment
that was made Kafka is told at most once. The refinement mapping (`Stage`,
`LikeStage`, `LikerOf`) reads the rows: a second deletion, an update and an insert
that `uq_post_user_like` refuses are stutters. `ImplementsLedger` says that `Posts`
implements it.

### ChatConnections

State: `dict`, the lists in `active_connections` in insertion order, each named
after the connection it was made for; `list[h]` its connections; the presence
keys `online`. A walk (`announce`, `send`, `withdraw`) keeps a position in the
*live* list as a Python iterator does, one send per step. `KeyExpires` is the 60
seconds of the key, `ServerStops` clears the memory and leaves the keys.

### ChatMessages

State: the conversation's row (`created`, `last`), its messages `row`, their
order `log`, the deletion records `hidden`; for each user the `page`, which views
the conversation or does not, and the list it shows; the fetches of histories
under way (`fetch`). `InsertMessage`, `LinkMessage`, `RefreshMessage` and
`PushMessage` are the two commits, the refresh and the push of `chat_handler.py`;
edits and deletions select, commit and push. An UPDATE writes the columns that
were assigned and differ from what was loaded (`Edited`, `Deleted`).

The page is the effects of `ChatsPage.jsx`. `OpenConversation` views the
conversation (anew, or with a new token), keeps the list that is there and starts
one more fetch; the server reads the history (`ReadHistory`); the answer, if there
is one, replaces the list, whatever is viewed by then (`ListHistory`), and a fetch
that fails leaves it (`FetchFails`). No fetch is aborted, so several are under way
and their answers come in any order. `OpenOther` and `ListOther` are the same for
another conversation. `CloseConversation` empties the list; `LeavePage` drops the
list and the fetches with the component. A push changes the list of a page that is
viewing the conversation and has a socket, and is lost for another one (`Push`). A
page is followed for the messages of the partner. History variables: `raced` are the
messages two handlers of which overlap, `doubtful[u]` those the list of `u` may be
wrong about, until the answer to a fetch brings them as they are.

`ChatLedger` is what both users rely on: a message is sent once, in a conversation
there is, and keeps its author; it can be read, with the text of the latest edit,
until it is deleted for everyone and never again; only its author can hide it, from
himself. The refinement mapping (`Stage`, `Author`, `Readable`) reads the rows: an
edit of a deleted message, a second deletion and everything a page does are
stutters. `ImplementsLedger` says that `ChatMessages` implements it.

### Notifications

State: of each topic the `log`, the consumer's `position` and the `committed`
offset; the main thread `server`; the consumer `thread`; whether the shared
`smtp` connection is held; the coroutines `saving` rows; `rows`, `read`, `mails`
count what was done of each event. `StartConsumer`, `OpenSmtp` and `Login` are
`main.py`: the thread runs before the mail connection is made. `Commit` is the
client's automatic commit when it polls; `Close` commits the position, which
counts the event being handled. `Connect` to `MailFails` are `send_email` with its
one retry, where an attempt that failed may have been accepted. An exception that
leaves `consume` ends the thread and closes the consumer (`LeavesLoop`): of a mail
(`MailFails`), of the quit that follows an accepted one (`QuitFails`), of the Kafka
client (`PollFails`).

### Media

State: the `client` that shares a post, its `parts`, the objects `stored`, the
`row`, the transcoding `task`, the `page` that shows the post. `CreatePost` and
`Reread` are the commit and the second read of `create_post`, after which the
transcoding is queued; a page asks whether the playlist exists, for which it
needs a worker, as transcodings do (`Free`).

### Stories

State: the clock `now`, the `bucket` with its lifecycle rule, `image` and `row` with
the time each was made, whom each reader `follows`, the requests for the `feed` in
three steps. `MakeBucket` and `EnsureBucket` may find that another request was
first. `DeleteStory` leaves the image, as the call that should delete it raises a
`TypeError` that is logged.

### Deployment

One service, any of the five, with the steps of its `main.py` in order, the
chain of its revisions with what each adds, drops and fails on, and the open
transaction `pending`. `Init` lets it find any older schema, with rows or without.
`Ended` says what a failed start leaves: under the reloader a process whose child is
gone (`stuck`), which Docker does not restart; otherwise one that it does. The
Notification-Server makes its Kafka consumer when `main.py` is imported: once in the
process that launches the reloader (`launch`, whose failure Docker does see), and
once more in the child (`import`).

## 3. What the runs check

| Run | Instance | States |
|---|---|---|
| `AuthSessions` | 1 user, 3 sids, 2 requests, 1 failure | 125 thousand |
| `Accounts` | 1 email, 1 phone, 2 passwords, 2 names, 2 requests, 3 ids, 3 codes | 81 thousand |
| `PasswordHistory` | 4 passwords, 2 requests | 180 thousand |
| `FollowGraph` | 2 users, 2 requests, 3 rows | 2.1 million |
| `Posts` | 1 post, 2 users, 2 requests, 2 likes, 2 comments, 1 column of 2 values | 1.4 million |
| `ChatConnections` | 2 connections of one user and 1 of another, 1 event | 112 thousand |
| `ChatMessages` | 2 users, 3 requests, the page of one user, 2 fetches | 1.2 million |
| `Notifications` | a mail, a notification, an event without handler; 2 topics, 2 starts | 238 thousand |
| `Media` | 2 videos, a post of images, 2 pieces, playlist and a segment, 1 worker | 87 thousand |
| `Stories` | 2 stories of 2 users, the feed of one, a day of 2 steps | 139 thousand |
| `Deployment` | 5 services, with and without reloader, every older schema, 3 starts | 35 thousand |

(States are distinct, after symmetry where it is used.) Each run checks the type
invariant of its module as a part of its first row invariant.

**AuthSessions.** `ImplementsLedger`: the ledger of sessions is implemented; in
particular no step stores a session whose sid was open before, so nothing that
was ended comes back. `IssuedIsTracked`: a live session with a client is in its
owner's set, unless the whole set was dropped while it was listed there; that
exception is real, `delete_all_user_sessions` drops entries added after its
SMEMBERS. `ForcedLogoutIsFinal`: what a forced login has read is dead when it goes
on. `StaleEntryIsBeingRemoved`: a dead session in a set has a request on its way
to remove it, or expired, or was left by a failure. `LockoutEnds` (liveness): nobody
is told for ever that he is logged in elsewhere because of dead sessions, whatever
request left them behind; only one that stops between SADD and EXPIRE can leave a
set that lasts.

**Accounts.** `RowsAreSound` (contacts, usernames and profiles are unique),
`AccountsMatchProfiles` (every account has its profile, and a profile without
account has its registration about to commit, or was left by a failure in the one
window between two commits), `VerifiedStaysVerified`. `CodesAreMailed`: whoever has
yet to verify an email was mailed the code that Redis holds, however registrations
and resends replaced each other's codes, unless a request is about to mail that code,
or to store one as there is none, or the code expired, or its request failed before
the mail.

**PasswordHistory.** `HistoryIsSound`: of the last three passwords, those that got
a row are among the three rows a reset checks, and there is at most one row per
overlapping request beyond the two every reset keeps. `ReusedOnlyWhenRaced`: a
reset restores a recorded one of the last three only if another change was
committed between its check and its commit.

**FollowGraph.** `RowsAreSound` (one row per pair), `FollowersWereAgreed` (an
accepted follower was accepted by the owner, or the account was public at some
time while the request ran), `NotificationsAreTrue`. `ImplementsRelations`: the
relations are implemented; in particular an acceptance that selected a row before
it was withdrawn or rejected does not bring it back, no relation goes from accepted
back to asked for, and none begins while another of its pair lasts.

**Posts.** `RowsAreSound` (one like per user), `EventsMatchRows` (every event tells
of a row that was committed, and every row is told of by one request or lost with
it), `ChangesOnlyAsAsked` (of two overlapping updates none takes back what the other
set), `LateWritesWereUnderWay` (a deleted post or comment gets a like or reply only
from a request that held it when it was deleted). `ImplementsLedger`: the ledger is
implemented; in particular an update that loaded a post before it was deleted does
not bring it back, and of two requests that found the same like one takes it back.

**ChatConnections.** `PresenceIsExact`: the dictionary holds exactly the open
connections, once each, no list is empty; a presence key of a user with no
connection is about to be deleted, or a failure left it. `NoSecondSend`,
`MissedOnlyByRemoval`: a walk reaches everybody it found, once, unless something
was removed from the list meanwhile. `AbsenceShowsUp` (liveness): whatever failed,
who has left does not stay online for ever.

**ChatMessages.** `RowsAreServable`: no message that the history returns has lost
its content; one that had would fail the whole conversation from then on.
`ImplementsLedger`: the ledger is implemented; in particular an edit that loaded a
message before it was deleted for everyone does not bring it back.
`LastMessageIsRecent`: `last_message_id` is the newest message, but for those stored
while another was on its way to become the last, or whose handler failed.
`PagesAgreeUnlessRaced`: once every handler of a message of the partner has pushed,
the list of a page has of it what the history would give. Exempt, until a history
read later is listed, are messages two handlers of which overlapped; whose push was
never made, or found no socket or another view; to which a handler committed between
the read and the listing of the answer that is listed; and those sent before the list
was emptied or replaced by that of another conversation, which a failed fetch does
not bring back. What is left: whichever answer comes last, a message that nobody
touched since it was read is listed as it is, and pushes then keep the list at what
the history would give.

**Notifications.** `OffsetsAreSound`: every event below a committed offset is
handled, being handled, or lost by a failed handler or save, a stop, or a crash.
`DuplicatesAreExplained`: a row or mail is doubled only if a mail's first attempt
failed, or an end of the loop or server left a position uncommitted.
`EveryEventIsHandled` (liveness): while the server serves and no exception has ended
the loop, every published event is handled or on record as lost.

**Media.** `StorageIsSound`: a post in the database has its media.
`StreamsArePlayable`: a page that was given a stream finds all segments, unless
they are being uploaded or the transcoding failed on the way.
`EveryVideoIsStreamed`, `EveryPageIsAnswered` (liveness).

**Stories.** `ImagesAreSound`: an unexpired story has its image, if no time passed
between image and row. `FeedIsTrue`: a feed lists what belonged to it during the
whole request, those of others unless the User-Service did not answer, and nothing
that belonged to it at no moment. `ImagesAreRemoved` (liveness): once the bucket
has its rule.

**Deployment.** `SchemaIsSound`: a service that serves has exactly the tables and
columns its models declare, wherever earlier starts ended. `ServesInTheEnd`
(liveness): when the infrastructure answers from some time on, unless rows block a
revision or an earlier start ended under the reloader.

### Bounds, and why they are enough

Each bound is a constant. *Two requests*: every hazard listed is between two
operations, one that read and one that wrote in between; a request is used again
when it ends, so runs are of any length. *Pools of ids* (sids, user ids, codes,
rows) bound how many rows a behaviour makes, never how many requests run: three sids
let a session be replaced, and the replacement be ended by a third; three follow
rows let a relation be withdrawn and made again while an older acceptance is on its
way; two likes let a like be taken back and given again while a third request holds
the first. When a pool is used up the model may stop, which is why those
configurations do not check for deadlock; in `ChatMessages`, `FollowGraph`,
`PasswordHistory` and `Deployment` it is checked. *Four passwords* are one more than
the history remembers. *One user* suffices in `AuthSessions`, where no action
touches two users. `MaxFails` is 1: the safety properties are proved for every
number of failures, and one request that stops leaves each kind of dead entry that
`LockoutEnds` is about. *Three connections*: two share a list, one has a list of its
own, so walks of one list and of several overlap with connects and disconnects. One
event is enough, since each walk is independent of how the one before ended, and
announcements of presence are walks as well.

In `ChatMessages` each of three requests is made once: two messages and a creation,
or a message with two edits or deletions that overlap; the page opens, closes and
loads again without bound, with *two fetches* under way, so that an older answer may
come last. Its safety is proved for any number. In `Notifications` one
event of each kind, two of them on one topic, and two starts let an event be
handled, left uncommitted, and handled again; a third start repeats the second. In
`Media` two videos compete for one worker while pages wait for it. In `Stories` the
images are put in the first two of four moments, so that the last of them is a day
old at the end. In `Deployment` three starts let one fail, one be killed and one
succeed.

### Fairness

Safety assumes none. The liveness properties assume weak fairness of

- the steps of coroutines and threads that can go on (`Step`, `Consume`, `Take`,
  `Save`, `TaskStep`, `AnswerPage`, `Reread` or its failure, `StartStep`): the
  event loop serves every ready callback in turn, threads are scheduled, and
  Redis, sockets, Kafka and the database answer or raise. In `Media` a page that
  waits for a worker is given one that stays free; strong fairness is not needed,
  since only finitely many videos are shared;
- expiry and the clock (`KeyExpires`, `Tick`, `Expire` and their like): time
  passes, and Redis and MinIO drop what is due;
- Docker's `restart: always`, as a part of `StartStep`.

Nothing is assumed of clients: they need not log in, log out, connect, send or
leave. Failures are never required to happen nor to cease: where a failure makes
the promise void the property says so (`Lasting`, `lost`, `raised`, `spoiled`).

## 4. What is proved

TLAPS proves the following for every value of the constants that meets the
stated assumptions: absent values are not values, pools that share a type are
disjoint, and where the code needs it that there are two participants, a worker,
finitely many posts. Nothing is assumed of sizes beyond that. In every module the
pattern is the same: the properties are not inductive, a stronger `IInv` is, one
lemma per action shows that it is kept, and the theorems follow from it.

- `AuthSessions_proofs`: `TypeCorrect`, `TrackingCorrect`,
  `StaleEntriesExplained`, `ForcedLogoutCorrect`, `EndedStaysEnded`. That the
  sid a request stores is in the set when its tokens are returned depends on
  nobody having removed it in between. `IInv` adds the reason: from its draw until
  SADD a sid is known to the request that drew it and to nobody else
  (`RequestInv`, `PairInv`), so no SREM, DEL or SMEMBERS of another request can
  name it. It also says what each request knows at each label.
  `LedgerImplemented`: the initial states map to the initial state of the
  ledger, and under `IInv` every action to `Draw`, `Open`, `Close`, `Hand` or a
  stutter.
- `Posts_proofs`: `RowsCorrect`, `EventsCorrect`, `OnlyAskedChanges`,
  `LateWritesExplained`, `LedgerImplemented`. Rows are never forgotten and ids
  never drawn again, so `IInv` need only say that what a request holds exists,
  that likes that are there have a row, and that of a row not yet told of exactly
  one request is about to tell. `LateWritesExplained` needs a second invariant over
  the history (`HeldInv`), inductive relative to `IInv`.
- `FollowGraph_proofs`: `RowsCorrect`, `FollowersAgreed`, `NotificationsCorrect`.
  `IInv` adds that ids are never drawn again, that deleted rows are gone for good,
  that the id a request holds is or was that of a row, and that from the decision
  to accept a request remembers why: the account was public, or the owner agreed.
  `RelationsImplemented`: under `IInv` an INSERT is `Begin` or `Refuse`, a DELETE
  `End` or a stutter, an UPDATE `Accept` or a stutter, a publish `Tell`; the last
  needs that a row once accepted is accepted while it lasts, whatever request
  holds it (`TakenAsAccepted`).
- `Accounts_proofs`: `RowsCorrect`, `ServicesAgree`, `VerifiedForGood`. `IInv`
  adds `CommitInv`: a registration about to commit has its profile, and is alone
  with its user id and its email or phone. `CodesCorrect`: a code is stored only for
  an account there is, so a new account has none and its registration is to bring
  one, and who deletes a code has verified the account (`MInv`); then a SET makes the
  request that did it the one to mail what counts, whoever was to mail before.
- `Media_proofs`: `StorageCorrect`, `StreamsCorrect`. `IInv` says what each
  client has stored by now, that an uploading task still has every output that is
  not stored, and where a playlist can come from.
- `ChatMessages_proofs`: `HistoryServable`, `LastMessageCorrect`, `PagesAgree`,
  `LedgerImplemented`. A message that is not flagged has a text, whoever would be
  shown it (`TextInv`), since of the two columns a deletion writes the flag is never
  left out; a message logged after one that is still to be linked is known to be
  unordered (`LogInv`). `PagesAgree` follows one message: while its handlers do not
  overlap, the only one that still has to tell of it is to push what the row has
  (`SoleInv`), and the list has what the row has but for that (`ListsInv`); when they
  do overlap its reader is doubtful of it (`RacedInv`); what is fresh of any answer
  under way is what the row has (`FreshInv`), so it does not matter which one comes
  last; and nothing is listed of what is not there or one's own (`Elsewhere`). That a
  message is hidden by its author only (`HiddenInv`) makes the row and the history of
  the other agree. For the ledger one more fact is needed: there is a
  conversation when a message is stored (`BegunInv`); then an INSERT is `Send` or
  `Begin`, an UPDATE `Edit`, `Delete` or a stutter.
- `ChatConnections_proofs`: `PresenceCorrect`, `NeverTwice`, `NoneMissed`. The
  lists partition the open connections by user (`DictInv`). Of a walk,
  `WalkInv` says what is still ahead of its position in the live lists: nothing it
  has sent to, and everything that was listed when it began and was not sent to,
  unless something was removed. An append lands behind the walk, a removal moves
  what follows it one place towards the walk's position: that can skip a connection
  but never repeats one. That what was listed at the start comes before
  what was appended since is needed as well: the removal of a connection that was
  appended since is not counted as one, and rightly, since it moves none of those
  that were listed at the start.
- `Notifications_proofs`: `OffsetsCorrect`, `DuplicatesCorrect`. All that was
  taken is accounted for, committed or not (`AccountInv`); as long as every
  position was committed an event is taken once, and until then has no row and no
  mail (`OnceInv`).

Three components are proved about in the second part of another's module.

- `PasswordHistory`, in `Accounts_proofs`: `HistoryCorrect`, `FreshPasswords`, for
  finitely many requests. What a request is to delete are the rows from some place
  on and never the two latest, so that with its own row a reset keeps three
  (`MarksInv`); a recorded password is no further back among the rows than it is
  among the last three (`RecordedInv`). That the table has at most two rows and one
  per request is the hard part, since a reset deletes only what was there when it
  began. `BoundInv` counts: the resets in progress that will leave `m` or more rows
  beside two and their own are at most the number of requests less `m`, because
  whatever made the table longer has ended, and a reset that begins anew spares two.
- `Stories`, in `Media_proofs`: `StoriesKeepImages`, `FeedsAreTrue`, for every
  length of the day and every bound on the clock. A row is not older than its image,
  and an image that is gone is a day old (`ImageInv`); the targets of a feed were
  the circle of its user at some moment of the request, and at that moment held the
  owner of every story that must be shown (`FeedInv`).
- `Deployment`, in `Notifications_proofs`: `SchemasCorrect`, for any number of
  starts. `HeadIsDeclared` computes, revision by revision, that the
  chain of each service ends in what its models declare; `NextSchema` that a revision
  applied to the schema of one is the schema of the next; `DInv` that whoever is past
  the migrations has the newest.

Only model-checked: the liveness properties, which are beyond the prover:
`LockoutEnds`, `AbsenceShowsUp`, `EveryEventIsHandled`,
`EveryVideoIsStreamed`, `EveryPageIsAnswered`, `ImagesAreRemoved`,
`ServesInTheEnd`. Every other property of the passing runs is proved.

## 5. Where the code does not do what it says

`AuthSessions_reuse` checks one sentence of the code, and TLC refutes it:
"Refresh token mismatch or already used." (`authentication_service.py:150`). Two
refreshes read the session before either deletes it; both get tokens.
`ImplementsLedger` says what does hold: each of them opened a session of its own.

Other differences met while modelling. The models follow the code; where a passing
property says how far the promise holds it is named.

- *Accounts*: "User exists but is not verified: update details"
  (`email_registeration.py:41`): the account may be verified between that read and
  the UPDATE, which then replaces the password of a verified account
  (`VerifiedStaysVerified` is about the flag).
- *Passwords*: "Check if the new password matches any of the last 3 passwords"
  (`email_password_reset.py:28`): two overlapping resets may commit the same
  password, and one set by registering again has no row (`ReusedOnlyWhenRaced`).
- *Follows*: "If target is private, status is PENDING."
  (`user_profile_service.py:452`): the target may turn private between the read
  and the insert (`FollowersWereAgreed`).
- *Connections*: "Send a JSON message to all active WebSockets of a specific user."
  (`websocket_manager.py:77`): when a connection leaves during a send the list
  shifts and the next one is skipped (`MissedOnlyByRemoval`). "... with a sliding
  expiration (heartbeat)." (`user_active_store.py:43`): nothing renews the key, a
  connected user goes offline after a minute.
- *Comments*: `comment_on_post` never looks at `comments_enabled`
  (`post_service.py:476`, `models/post.py:57`).
- *Likes*: of three likes of one user, the first may take back by its id a row that
  the second has deleted and the third has replaced: the last answer is "not liked"
  and the like is there.
- *Messages*: an edit of a message that was deleted for everyone writes its text
  into the row again, which stays hidden. The sender gets no copy of its own
  message, so the page keeps its "tmp-" entry (`ChatsPage.jsx:208`) until the
  history is loaded. After a reconnection the history is not loaded again. A fetch
  is never aborted (`ChatsPage.jsx:91`): the answer to an older one, or to one for
  another conversation, replaces the list when it comes last, and a fetch that fails
  leaves the list that was there, of whatever conversation. Of two first requests
  for one conversation, or two deletions for oneself, the unique constraint refuses
  the second with an error.
- *Notifications*: one exception, of a mail, of the quit after it or of the Kafka
  client, ends the consumer loop for good while the server goes on. `close` commits
  a position that counts the event being handled.
- *Media*: `create_post` reads the post again after its commit; when that read
  fails the rows stay and the video is never transcoded. Nothing resumes or repairs
  a transcoding. Segments rely on a bucket policy whose failure is only logged.
  Posts are deleted by a flag and their objects stay. A client that retries after a
  lost answer makes a second post.
- *Feed*: `list_feed_posts` uses a `settings` it does not import; the `NameError`
  is caught and followed users are never added.
- *Stories*: `delete_story` calls the storage with arguments it does not know, so
  images are removed by the bucket's rule alone; an image put some time before its
  row may go first; rows that expired are never deleted; the row does not wait for
  the upload.
- *Migrations*: `fa28aa12f667` adds NOT NULL columns without default and fails on a
  table with rows; `d4e1026c9ec4` shortens a column; `use_alter=True` in a
  migration leaves the constraint `fk_last_message` out.
- *Starts*: all compose files set `DEBUG=True`, and the Notification-Server always
  reloads: a start that fails leaves the reloader running, so `restart: always` does
  nothing (a Kafka that is down when the Notification-Server is launched ends the
  reloader itself, and Docker tries again). When its consumer cannot start the
  Post-Server logs it and goes on.

## 6. What is abstracted, and what is not modelled

Abstracted:

- Passwords stand for their hashes; tokens for the sid they carry; texts, media
  lists and profile fields are left out unless a decision depends on them.
- Two services of one kind never run together: each is one process.
- In `Accounts` a mail is delivered any number of times and at any time, or
  never: a link that was `mailed` may be opened whenever.
- In `Accounts` and `AuthSessions` the Kafka publish and the gRPC call block the
  event loop, so they are part of the step they are made in.
- In `Posts` and `FollowGraph` an event is published or not; `Notifications` takes
  it from there, each event published once. The two are not composed.
- In `ChatMessages` a push is one step, which finds a socket or does not;
  `ChatConnections` has the sockets and the walk over them, and one event. All other
  conversations are one, and their messages are not followed.
- In `Media` segments are one set that ffmpeg makes at once; in `Stories` time moves
  in steps of half a day.
- In `Deployment` a schema is its tables and the columns that some revision adds or
  drops later.

Not modelled:

- *Password reset tokens*: one key with a time to live that is read and never
  used up; `reset_password` does not look at it.
- *Avatars, onboarding, search, feeds of posts and lists*: reads, or a single write
  of one row.
- *Web client* but for the chat page and the upload of a post: layout and single
  calls.
- *Configuration, logging, error envelopes, gateway*: no state.

## 7. What is left

- `Engagement`, which would compose `Posts` with `Notifications`: every
  notification row is of a like, comment or reply that somebody else committed.

## 8. Running it

In this directory, with TLC, the community modules and TLAPS 1.4.5:

    tlc -config AuthSessions_pass.cfg MCAuthSessions
    tlapm AuthSessions_proofs.tla

Every `.cfg` belongs to the `MC` module of the name before its underscore. The
longest runs, `ChatMessages` and `FollowGraph`, take two to three minutes on two
cores, the proofs a
minute or two each. `PROJECT.json` lists the runs, the properties with a change
to the model that each of them detects, the source lines behind every
definition, the hazards and the theorems.
