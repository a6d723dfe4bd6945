---------------------------- MODULE ChatMessages ----------------------------
(***************************************************************************)
(* The rows of the chat-server and what a chat page makes of them: one     *)
(* pair of users, their conversation and its messages.  An event of a      *)
(* WebSocket is handled by a coroutine with a database session of its own: *)
(* it selects, commits, and pushes what it did to the partner, in steps    *)
(* between which other handlers run (a user may have several sockets).     *)
(* The page of a user fetches the history over HTTP whenever it opens a    *)
(* conversation, never aborts a fetch, lists the answer of any that comes, *)
(* and applies the pushes that arrive meanwhile.  It is followed for the   *)
(* messages of the partner; who hears a push when sockets come and go is   *)
(* module ChatConnections.                                                 *)
(***************************************************************************)
EXTENDS Naturals, Sequences

CONSTANTS
  Users,        \* the two participants
  Readers,      \* those whose page is followed
  Requests,     \* the requests that may be made, once each; the message that
                \* a request sends has the id of the request
  Fetches,      \* the fetches of histories that may be under way at once
  Null, Absent  \* the content of a deleted message; no such message

Messages == Requests
Texts    == Requests \union {Null}  \* a text is named after who wrote it
Deletion == Messages \X Users
Row      == [sender : Users, content : Texts, deleted : BOOLEAN]

ASSUME ChatAssumption ==
  /\ \E u, v \in Users : u # v /\ Users = {u, v}
  /\ Readers \subseteq Users
  /\ Null \notin Requests /\ Absent \notin Texts \union Row

VARIABLES
  created,    \* whether the row of the conversation exists
  last,       \* its last_message_id
  row, log,   \* the rows of messages, and their ids by created_at
  hidden,     \* the rows of deleted_messages
  req,        \* program counter and locals of each request
  page,       \* the chat page of each user
  fetch,      \* the fetches of histories that pages have under way
  unordered,  \* history: messages stored while another was not yet the last
              \* message, or that never became it
  raced,      \* history: messages two handlers of which overlapped, as long
              \* as one of them has yet to push what it did
  doubtful    \* history: messages the list of a page may be wrong about

rows    == <<created, last, row, log, hidden>>
pages   == <<page, fetch>>
history == <<unordered, raced, doubtful>>
vars    == <<rows, req, pages, history>>

Labels == {"idle", "create_get", "create", "insert", "link", "refresh", "push",
           "edit", "edit_push", "delete", "delete_push", "hide_get", "hide",
           "done"}
Request == [pc : Labels, user : Users \union {Absent},
            msg : Messages \union {Absent},
            seen : Row \union {Absent}, text : Texts]
Idle == [pc |-> "idle", user |-> Absent, msg |-> Absent, seen |-> Absent,
         text |-> Null]

\* Whether a page views this conversation, not another one or none; its list.
\* Whether a fetch, of this conversation or another one, has been answered; the
\* messages of the answer to which no handler has committed since it was read.
Listing == [Messages -> Texts \union {Absent}]
Nothing == [m \in Messages |-> Absent]
Page    == [viewing : BOOLEAN, shown : Listing]
Fetch   == [pc : {"idle", "asked", "given", "other"},
            user : Users \union {Absent}, answer : Listing,
            fresh : SUBSET Messages]
NoFetch == [pc |-> "idle", user |-> Absent, answer |-> Nothing, fresh |-> {}]

TypeOK ==
  /\ created \in BOOLEAN /\ last \in Messages \union {Absent}
  /\ row \in [Messages -> Row \union {Absent}] /\ log \in Seq(Messages)
  /\ hidden \in SUBSET Deletion
  /\ req \in [Requests -> Request]
  /\ page \in [Users -> Page] /\ fetch \in [Fetches -> Fetch]
  /\ unordered \in SUBSET Messages /\ raced \in SUBSET Messages
  /\ doubtful \in [Users -> SUBSET Messages]

Init ==
  /\ created \in BOOLEAN /\ last = Absent /\ hidden = {}
  /\ row = Nothing /\ log = <<>>
  /\ req = [r \in Requests |-> Idle]
  /\ page = [u \in Users |-> [viewing |-> FALSE, shown |-> Nothing]]
  /\ fetch = [f \in Fetches |-> NoFetch]
  /\ unordered = {} /\ raced = {} /\ doubtful = [u \in Users |-> {}]

At(r, label)   == req[r].pc = label
Goto(r, label) == req' = [req EXCEPT ![r].pc = label]
End(r)         == req' = [req EXCEPT ![r] = [Idle EXCEPT !.pc = "done"]]
Start(r, u, label, m, seen) ==
  /\ At(r, "idle")
  /\ req' = [req EXCEPT ![r] = [pc |-> label, user |-> u, msg |-> m,
                                seen |-> seen, text |-> Null]]

Partner(u)   == CHOOSE v \in Users : v # u
Reader(m)    == Partner(row[m].sender)
Sent(m)      == row[m] # Absent
Received(u)  == {m \in Messages : Sent(m) /\ row[m].sender # u}

\* A handler has committed what it did to its message and not yet pushed it.
Telling(r) == req[r].pc \in {"link", "refresh", "push", "edit_push",
                             "delete_push"}
Told(m)    == {r \in Requests : Telling(r) /\ req[r].msg = m}

\* A handler commits to a message: what was read of it before is stale.
Outdate(m) == fetch' = [f \in Fetches |-> [fetch[f] EXCEPT !.fresh = @ \ {m}]]

\* When another one has yet to push what it did, the pushes may be misordered.
Race(m) ==
  IF Told(m) = {}
    THEN UNCHANGED <<raced, doubtful>>
    ELSE /\ raced' = raced \union {m}
         /\ doubtful' = [doubtful EXCEPT ![Reader(m)] = @ \union {m}]

\* The last of the handlers of a message ends.
Settle(r) ==
  raced' = IF Told(req[r].msg) = {r} THEN raced \ {req[r].msg} ELSE raced

-----------------------------------------------------------------------------
(* create_conversation: the pair is sorted, so that it is one row whichever *)
(* user asks for it, and uq_conversation admits one                         *)

CreateStart(r) ==
  /\ At(r, "idle")
  /\ Goto(r, "create_get")
  /\ UNCHANGED <<rows, pages, history>>

GetConversation(r) ==
  /\ At(r, "create_get")
  /\ IF created THEN End(r) ELSE Goto(r, "create")
  /\ UNCHANGED <<rows, pages, history>>

\* The insert of a row that exists by now is refused, and the request fails.
CreateConversation(r) ==
  /\ At(r, "create")
  /\ created' = TRUE
  /\ End(r)
  /\ UNCHANGED <<last, row, log, hidden, pages, history>>

-----------------------------------------------------------------------------
(* chat.message: stored, then made the last message, then read again for    *)
(* the push to the receiver                                                 *)

SendStart(r, u) ==
  /\ created
  /\ Start(r, u, "insert", r, Absent)
  /\ UNCHANGED <<rows, pages, history>>

InsertMessage(r) ==
  /\ At(r, "insert")
  /\ row' = [row EXCEPT ![r] = [sender |-> req[r].user, content |-> r,
                                deleted |-> FALSE]]
  /\ log' = Append(log, r)
  /\ unordered' = IF \E s \in Requests : At(s, "link")
                    THEN unordered \union {r} ELSE unordered
  /\ Goto(r, "link")
  /\ UNCHANGED <<created, last, hidden, pages, raced, doubtful>>

FirstStays(r) == IF last = Absent THEN r ELSE last
LastIs(r)     == r

LinkMessage(r) ==
  /\ At(r, "link")
  /\ last' = LastIs(r)
  /\ Goto(r, "refresh")
  /\ UNCHANGED <<created, row, log, hidden, pages, history>>

RefreshMessage(r) ==
  /\ At(r, "refresh")
  /\ req' = [req EXCEPT ![r] = [@ EXCEPT !.pc = "push",
                                         !.text = row[r].content]]
  /\ UNCHANGED <<rows, pages, history>>

\* A page lists a message of an id it does not list yet.
Listed(shown, m, text) == [shown EXCEPT ![m] = IF @ = Absent THEN text ELSE @]

\* A push reaches the list of a user who is viewing the conversation and has a
\* socket open, which may be so or not; nothing is kept for another one.
Push(m, u, shown) ==
  \/ /\ page[u].viewing
     /\ page' = [page EXCEPT ![u].shown = shown]
     /\ UNCHANGED doubtful
  \/ /\ doubtful' = [doubtful EXCEPT ![u] = @ \union {m}]
     /\ UNCHANGED page

PushMessage(r) ==
  LET u == Reader(r) IN
  /\ At(r, "push")
  /\ Push(r, u, Listed(page[u].shown, r, req[r].text))
  /\ End(r) /\ Settle(r)
  /\ UNCHANGED <<rows, fetch, unordered>>

-----------------------------------------------------------------------------
(* message.edit, by the author; whether it is deleted is not looked at      *)

EditStart(r, u, m) ==
  /\ Sent(m) /\ row[m].sender = u
  /\ Start(r, u, "edit", m, row[m])
  /\ UNCHANGED <<rows, pages, history>>

\* The UPDATE names the columns that were assigned to and differ from the row
\* that was loaded.
EditedRow(x, seen, text) == [seen EXCEPT !.content = text]
Edited(x, seen, text)    == [x EXCEPT !.content = text]

EditMessage(r) ==
  LET m == req[r].msg IN
  /\ At(r, "edit")
  /\ row' = [row EXCEPT ![m] = Edited(@, req[r].seen, r)]
  /\ Outdate(m) /\ Race(m)
  /\ Goto(r, "edit_push")
  /\ UNCHANGED <<created, last, log, hidden, page, unordered>>

\* The text that is pushed to the partner, to a page that lists the message.
PushedSeen(r) == req[r].seen.content
Pushed(r)     == r
Relisted(shown, m, text) == [shown EXCEPT ![m] = IF @ = Absent THEN @ ELSE text]

PushEdit(r) ==
  LET m == req[r].msg
      u == Reader(m) IN
  /\ At(r, "edit_push")
  /\ Push(m, u, Relisted(page[u].shown, m, Pushed(r)))
  /\ End(r) /\ Settle(r)
  /\ UNCHANGED <<rows, fetch, unordered>>

-----------------------------------------------------------------------------
(* message.delete, by the author: for everyone, or for the author only      *)

DeleteStart(r, u, m) ==
  /\ Sent(m) /\ row[m].sender = u
  /\ Start(r, u, "delete", m, row[m])
  /\ UNCHANGED <<rows, pages, history>>

ContentOnly(x, seen) == [x EXCEPT !.content = Null]
Deleted(x, seen) ==
  [x EXCEPT !.deleted = TRUE,
            !.content = IF seen.content = Null THEN @ ELSE Null]

DeleteMessage(r) ==
  LET m == req[r].msg IN
  /\ At(r, "delete")
  /\ row' = [row EXCEPT ![m] = Deleted(@, req[r].seen)]
  /\ Outdate(m) /\ Race(m)
  /\ Goto(r, "delete_push")
  /\ UNCHANGED <<created, last, log, hidden, page, unordered>>

PushDelete(r) ==
  LET m == req[r].msg
      u == Reader(m) IN
  /\ At(r, "delete_push")
  /\ Push(m, u, [page[u].shown EXCEPT ![m] = Absent])
  /\ End(r) /\ Settle(r)
  /\ UNCHANGED <<rows, fetch, unordered>>

HideStart(r, u, m) ==
  /\ Sent(m) /\ row[m].sender = u
  /\ Start(r, u, "hide_get", m, Absent)
  /\ UNCHANGED <<rows, pages, history>>

GetDeletion(r) ==
  /\ At(r, "hide_get")
  /\ IF <<req[r].msg, req[r].user>> \in hidden THEN End(r) ELSE Goto(r, "hide")
  /\ UNCHANGED <<rows, pages, history>>

\* Of two inserts of one row uq_deleted_message refuses the second.
HideMessage(r) ==
  /\ At(r, "hide")
  /\ hidden' = hidden \union {<<req[r].msg, req[r].user>>}
  /\ End(r)
  /\ UNCHANGED <<created, last, row, log, pages, history>>

-----------------------------------------------------------------------------
(* The page: each change of the conversation that is viewed, or of the      *)
(* token, fetches once more; the list stays until an answer replaces it,    *)
(* and a page without a conversation is emptied                             *)

Shown(u, m)   == Sent(m) /\ ~row[m].deleted /\ <<m, u>> \notin hidden
History(u)    == [m \in Messages |->
                    IF Shown(u, m) /\ row[m].sender # u
                      THEN row[m].content ELSE Absent]

View(u, viewing) == page' = [page EXCEPT ![u].viewing = viewing]
Ask(u, f, what) ==
  /\ fetch[f].pc = "idle"
  /\ fetch' = [fetch EXCEPT ![f].pc = what, ![f].user = u]
Finish(f) == fetch' = [fetch EXCEPT ![f] = NoFetch]

\* None of the messages so far is in the list any more.
Emptied(u, viewing) ==
  /\ page' = [page EXCEPT ![u] = [viewing |-> viewing, shown |-> Nothing]]
  /\ doubtful' = [doubtful EXCEPT ![u] = Received(u)]

\* Or the user, viewing it already, has a new token.
OpenConversation(u, f) ==
  /\ created
  /\ View(u, TRUE) /\ Ask(u, f, "asked")
  /\ UNCHANGED <<rows, req, history>>

OpenOther(u, f) ==
  /\ View(u, FALSE) /\ Ask(u, f, "other")
  /\ UNCHANGED <<rows, req, history>>

CloseConversation(u) ==
  /\ Emptied(u, FALSE)
  /\ UNCHANGED <<rows, req, fetch, unordered, raced>>

\* Whoever leaves the page of the chats leaves its list and its fetches.
LeavePage(u) ==
  /\ Emptied(u, FALSE)
  /\ fetch' = [f \in Fetches |->
                 IF fetch[f].user = u THEN NoFetch ELSE fetch[f]]
  /\ UNCHANGED <<rows, req, unordered, raced>>

ReadHistory(f) ==
  /\ fetch[f].pc = "asked"
  /\ LET u == fetch[f].user IN
     fetch' = [fetch EXCEPT ![f].pc = "given", ![f].answer = History(u),
                            ![f].fresh = Received(u)]
  /\ UNCHANGED <<rows, req, page, history>>

\* The answer becomes the list, whatever is viewed by now and whatever other
\* answer came before.
ListHistory(f) ==
  LET u == fetch[f].user IN
  /\ fetch[f].pc = "given"
  /\ page' = [page EXCEPT ![u].shown = fetch[f].answer]
  /\ doubtful' = [doubtful EXCEPT ![u] = Received(u) \ (fetch[f].fresh \ raced)]
  /\ Finish(f)
  /\ UNCHANGED <<rows, req, unordered, raced>>

ListOther(f) ==
  LET u == fetch[f].user IN
  /\ fetch[f].pc = "other"
  /\ Emptied(u, page[u].viewing)
  /\ Finish(f)
  /\ UNCHANGED <<rows, req, unordered, raced>>

FetchFails(f) ==
  /\ fetch[f].pc # "idle" /\ Finish(f)
  /\ UNCHANGED <<rows, req, page, history>>

\* A database call fails, or the socket of the user closes under the handler.
Fail(r) ==
  /\ req[r].pc \notin {"idle", "done"}
  /\ End(r)
  /\ unordered' = IF At(r, "link") THEN unordered \union {r} ELSE unordered
  /\ IF Telling(r)
       THEN LET m == req[r].msg IN
            /\ doubtful' = [doubtful EXCEPT ![Reader(m)] = @ \union {m}]
            /\ Settle(r)
       ELSE UNCHANGED <<doubtful, raced>>
  /\ UNCHANGED <<rows, pages>>

-----------------------------------------------------------------------------
Step(r) ==
  \/ GetConversation(r) \/ CreateConversation(r)
  \/ InsertMessage(r) \/ LinkMessage(r) \/ RefreshMessage(r) \/ PushMessage(r)
  \/ EditMessage(r) \/ PushEdit(r) \/ DeleteMessage(r) \/ PushDelete(r)
  \/ GetDeletion(r) \/ HideMessage(r) \/ Fail(r)

Client(u) ==
  \/ \E f \in Fetches : OpenConversation(u, f) \/ OpenOther(u, f)
  \/ CloseConversation(u) \/ LeavePage(u)

Loading(f) ==
  ReadHistory(f) \/ ListHistory(f) \/ ListOther(f) \/ FetchFails(f)

Next ==
  \/ \E r \in Requests : Step(r)
  \/ \E u \in Readers : Client(u)
  \/ \E f \in Fetches : Loading(f)
  \/ \E r \in Requests : CreateStart(r) \/ \E u \in Users : SendStart(r, u)
  \/ \E r \in Requests, u \in Users, m \in Messages :
       EditStart(r, u, m) \/ DeleteStart(r, u, m) \/ HideStart(r, u, m)

Spec == Init /\ [][Next]_vars

-----------------------------------------------------------------------------
(* Properties *)

\* What list_conversation_messages returns can be returned: a MessageResponse
\* has a content, and one row without fails the whole conversation from then
\* on.  Edits and deletions of one message overlap, and each writes back only
\* a part of what it loaded.
HistoryIsServable ==
  \A u \in Users, m \in Messages : Shown(u, m) => row[m].content # Null

\* The same, and every variable keeps its type.
RowsAreServable == TypeOK /\ HistoryIsServable

\* Where a message is, and what the history has of it, as ChatLedger says.
Stage(m)    == IF ~Sent(m) THEN "unsent"
               ELSE IF row[m].deleted THEN "deleted" ELSE "sent"
Author(m)   == IF Sent(m) THEN row[m].sender ELSE Absent
Readable(m) == IF Stage(m) = "sent" THEN row[m].content ELSE Absent

Ledger == INSTANCE ChatLedger
  WITH begun  <- created,
       stage  <- [m \in Messages |-> Stage(m)],
       author <- [m \in Messages |-> Author(m)],
       text   <- [m \in Messages |-> Readable(m)]

\* Handlers that load a row and later write columns of it, over each other, do
\* to a message what ChatLedger allows: one that was deleted for everyone stays
\* deleted, whatever handler had loaded it before, and nobody is given its text
\* again by the history.
ImplementsLedger == Ledger!Spec

\* Once every handler of a message has pushed what it did, the list of a page
\* has of the message what the history would give, however many fetches were
\* under way, whichever of their answers came last, and whatever was viewed
\* meanwhile.  Exempt, until a history that was read later is listed, are the
\* messages of which two handlers overlapped; of which a push was never made,
\* or found no socket or another view; to which a handler committed between
\* the read and the listing of the answer that is listed; and those that were
\* sent before the list was emptied, or replaced by that of another
\* conversation.
PagesAgreeUnlessRaced ==
  \A u \in Users, m \in Messages :
    (Told(m) = {} /\ m \notin doubtful[u]) => page[u].shown[m] = History(u)[m]

\* last_message_id is the newest message, but for messages that were stored
\* while another was on its way to become the last, or whose handler failed.
LastMessageIsRecent ==
  \A j \in DOMAIN log :
    (last # Absent => \E i \in DOMAIN log : i < j /\ log[i] = last)
      => log[j] \in unordered \/ At(log[j], "link")
=============================================================================
