------------------------- MODULE ChatMessages_proofs -------------------------
(***************************************************************************)
(* Proofs about ChatMessages for every set of requests: the history of a   *)
(* conversation can always be served, the last message is the newest but   *)
(* for those that overlapped, a page shows what the history has, but for   *)
(* what it is doubtful of, and the rows implement ChatLedger.              *)
(***************************************************************************)
EXTENDS ChatMessages, TLAPS

\* What the locals of a request are at each label; a message has no row before
\* the request that sends it inserts one.
RequestInv(r) ==
  /\ req[r].pc \notin {"idle", "done", "create_get", "create"} =>
       req[r].user \in Users
  /\ req[r].pc \in {"idle", "insert"} => row[r] = Absent
  /\ req[r].pc \in {"insert", "link", "refresh", "push"} => req[r].msg = r
  /\ req[r].pc \in {"link", "refresh", "push"} => Sent(r)
  /\ req[r].pc \in {"edit", "edit_push", "delete", "delete_push", "hide_get",
                    "hide"} => req[r].msg \in Messages /\ Sent(req[r].msg)

\* A message that is not deleted has a text, whoever would be shown it.
TextInv == \A m \in Messages : Sent(m) /\ ~row[m].deleted =>
                                 row[m].content # Null

\* Only stored messages are logged; those stored while another was to become
\* the last message are known to be unordered.
LogInv ==
  /\ \A i \in DOMAIN log : Sent(log[i])
  /\ \A i, j \in DOMAIN log : i < j /\ At(log[i], "link") =>
                                log[j] \in unordered

\* A fetch is that of a participant.
FetchInv == \A f \in Fetches : fetch[f].pc # "idle" => fetch[f].user \in Users

IInv ==
  /\ TypeOK
  /\ FetchInv
  /\ TextInv
  /\ LogInv
  /\ LastMessageIsRecent
  /\ \A r \in Requests : RequestInv(r)

USE DEF Messages, At, Sent

\* The conversation has two participants.
LEMMA PartnerType ==
  ASSUME NEW u \in Users
  PROVE  Partner(u) \in Users
BY ChatAssumption DEF Partner

\* Whoever reads a stored message is a participant.
LEMMA ReaderType ==
  ASSUME TypeOK, NEW m \in Messages, Sent(m)
  PROVE  Reader(m) \in Users
BY PartnerType DEF Reader, TypeOK, Row

\* Neither stands the value for no row for one, nor that for no text.
LEMMA Values ==
  /\ \A x \in Row : x # Absent
  /\ \A r \in Requests : r # Null
BY ChatAssumption

LEMMA InitInv == Init => IInv
BY DEF Init, IInv, TypeOK, FetchInv, TextInv, LogInv, LastMessageIsRecent,
       RequestInv, Nothing, Idle, Request, Labels, Texts, Page, Listing,
       Deletion, NoFetch, Fetch

-----------------------------------------------------------------------------
(* What the parts of a step leave true *)

\* A request that goes on keeps its locals, as all the others do.
LEMMA GotoFacts ==
  ASSUME TypeOK, NEW r \in Requests, NEW l \in Labels, Goto(r, l)
  PROVE  /\ req' \in [Requests -> Request]
         /\ req'[r].pc = l /\ req'[r].user = req[r].user
         /\ req'[r].msg = req[r].msg
         /\ \A q \in Requests \ {r} : req'[q] = req[q]
BY DEF TypeOK, Goto, Request

\* A request that ends is done for good.
LEMMA EndFacts ==
  ASSUME TypeOK, NEW r \in Requests, End(r)
  PROVE  /\ req' \in [Requests -> Request]
         /\ req'[r].pc = "done"
         /\ \A q \in Requests \ {r} : req'[q] = req[q]
BY DEF TypeOK, End, Idle, Request, Labels, Texts

\* A handler starts at a message with the row it finds.
LEMMA StartFacts ==
  ASSUME TypeOK, NEW r \in Requests, NEW u \in Users, NEW l \in Labels,
         NEW m \in Messages, NEW x \in Row \union {Absent},
         Start(r, u, l, m, x)
  PROVE  /\ req' \in [Requests -> Request]
         /\ req'[r].pc = l /\ req'[r].user = u /\ req'[r].msg = m
         /\ \A q \in Requests \ {r} : req'[q] = req[q]
BY DEF TypeOK, Start, Request, Texts

\* What a page lists is a text for each message, or that it is absent.
LEMMA PageType ==
  ASSUME TypeOK, NEW u \in Users
  PROVE  /\ page[u] \in Page /\ page[u].shown \in Listing
         /\ \A m \in Messages : page[u].shown[m] \in Texts \union {Absent}
BY DEF TypeOK, Page, Listing

\* A fetch keeps all but what is fresh of its answer.
LEMMA OutdateFacts ==
  ASSUME TypeOK, NEW m \in Messages, Outdate(m)
  PROVE  /\ fetch' \in [Fetches -> Fetch]
         /\ \A f \in Fetches :
              /\ fetch'[f].pc = fetch[f].pc /\ fetch'[f].user = fetch[f].user
              /\ fetch'[f].answer = fetch[f].answer
              /\ fetch'[f].fresh = fetch[f].fresh \ {m}
BY DEF TypeOK, Outdate, Fetch

\* Only the doubts about a message change when it is raced for.
LEMMA RaceFacts ==
  ASSUME TypeOK, NEW m \in Messages, Reader(m) \in Users, Race(m)
  PROVE  /\ doubtful' \in [Users -> SUBSET Messages]
         /\ raced' \in SUBSET Messages
BY DEF TypeOK, Race

\* A push changes what a page lists, or nothing but the doubts about it.
LEMMA PushFacts ==
  ASSUME TypeOK, NEW m \in Messages, NEW u \in Users, NEW shown \in Listing,
         Push(m, u, shown)
  PROVE  /\ doubtful' \in [Users -> SUBSET Messages]
         /\ page' \in [Users -> Page]
<1>1. [page[u] EXCEPT !.shown = shown] \in Page
  BY PageType DEF Page
<1> QED BY <1>1 DEF Push, TypeOK

\* A step that commits no message keeps the invariant, if the requests keep
\* theirs and one that was to set the last message and no more is, is listed.
LEMMA QuietInv ==
  ASSUME IInv, UNCHANGED <<last, row, log>>,
         created' \in BOOLEAN, hidden' \in SUBSET Deletion,
         req' \in [Requests -> Request],
         page' \in [Users -> Page],
         \/ UNCHANGED fetch
         \/ fetch' \in [Fetches -> Fetch] /\ FetchInv',
         raced' \in SUBSET Messages, unordered \subseteq unordered',
         unordered' \subseteq Messages,
         doubtful' \in [Users -> SUBSET Messages],
         \A q \in Requests :
           At(q, "link") => At(q, "link")' \/ q \in unordered',
         \A q \in Requests : At(q, "link")' => At(q, "link"),
         \A q \in Requests : RequestInv(q)'
  PROVE  IInv'
<1>1. TypeOK'
  BY DEF IInv, TypeOK
<1>2. TextInv'
  BY DEF IInv, TextInv
<1>3. \A i \in DOMAIN log : log[i] \in Messages
  BY DEF IInv, TypeOK
<1>4. LogInv'
  BY <1>3 DEF IInv, LogInv
<1>5. LastMessageIsRecent'
  BY <1>3 DEF IInv, LastMessageIsRecent
<1>6. FetchInv'
  BY DEF IInv, FetchInv
<1> QED BY <1>1, <1>2, <1>4, <1>5, <1>6 DEF IInv

-----------------------------------------------------------------------------
(* One step for each action *)

\* A request starts.
LEMMA StartInv ==
  ASSUME IInv, NEW r \in Requests, NEW u \in Users, NEW m \in Messages,
         \/ CreateStart(r) \/ SendStart(r, u) \/ EditStart(r, u, m)
         \/ DeleteStart(r, u, m) \/ HideStart(r, u, m)
  PROVE  IInv'
<1>1. /\ TypeOK /\ RequestInv(r) /\ \A q \in Requests : RequestInv(q)
      /\ req \in [Requests -> Request]
      /\ row[m] \in Row \union {Absent}
  BY DEF IInv, TypeOK
<1>2. /\ UNCHANGED <<rows, pages, history>> /\ At(r, "idle")
      /\ req' \in [Requests -> Request]
      /\ \A q \in Requests \ {r} : req'[q] = req[q]
      /\ \/ req'[r].pc = "create_get"
         \/ req'[r].pc = "insert" /\ req'[r].msg = r /\ req'[r].user = u
         \/ /\ req'[r].user = u
            /\ req'[r].pc \in {"edit", "delete", "hide_get"}
            /\ req'[r].msg = m /\ Sent(m)
  <2>1. CASE CreateStart(r)
    BY <1>1, <2>1, GotoFacts DEF CreateStart, Labels
  <2>2. CASE SendStart(r, u)
    BY <1>1, <2>2, StartFacts DEF SendStart, Labels, Start
  <2>3. CASE EditStart(r, u, m)
    <3>1. /\ Start(r, u, "edit", m, row[m]) /\ "edit" \in Labels /\ Sent(m)
          /\ UNCHANGED <<rows, pages, history>>
      BY <2>3 DEF EditStart, Labels
    <3>2. At(r, "idle")
      BY <3>1 DEF Start
    <3> QED BY <1>1, <3>1, <3>2, StartFacts
  <2>4. CASE DeleteStart(r, u, m)
    <3>1. /\ Start(r, u, "delete", m, row[m]) /\ "delete" \in Labels /\ Sent(m)
          /\ UNCHANGED <<rows, pages, history>>
      BY <2>4 DEF DeleteStart, Labels
    <3>2. At(r, "idle")
      BY <3>1 DEF Start
    <3> QED BY <1>1, <3>1, <3>2, StartFacts
  <2>5. CASE HideStart(r, u, m)
    <3>1. /\ Start(r, u, "hide_get", m, Absent) /\ "hide_get" \in Labels
          /\ Sent(m)
          /\ UNCHANGED <<rows, pages, history>>
      BY <2>5 DEF HideStart, Labels
    <3>2. At(r, "idle")
      BY <3>1 DEF Start
    <3> QED BY <1>1, <3>1, <3>2, StartFacts
  <2> QED BY <2>1, <2>2, <2>3, <2>4, <2>5
<1>3. \A q \in Requests : RequestInv(q)'
  BY <1>1, <1>2 DEF RequestInv, rows
<1> QED BY <1>1, <1>2, <1>3, QuietInv DEF rows, pages, history, TypeOK

\* Requests read, create the conversation, hide a message, or push.
LEMMA StepInv ==
  ASSUME IInv, NEW r \in Requests,
         \/ GetConversation(r) \/ CreateConversation(r) \/ RefreshMessage(r)
         \/ PushMessage(r) \/ PushEdit(r) \/ PushDelete(r) \/ GetDeletion(r)
         \/ HideMessage(r)
  PROVE  IInv'
<1>1. /\ TypeOK /\ RequestInv(r) /\ \A q \in Requests : RequestInv(q)
      /\ req \in [Requests -> Request] /\ created \in BOOLEAN
      /\ hidden \in SUBSET Deletion /\ page \in [Users -> Page]
      /\ doubtful \in [Users -> SUBSET Messages]
      /\ raced \in SUBSET Messages
      /\ Settle(r) => raced' \in SUBSET Messages
      /\ row \in [Messages -> Row \union {Absent}]
  BY DEF IInv, TypeOK, Settle
<1>2. ASSUME UNCHANGED <<last, row, log, fetch, unordered>>,
             created' \in BOOLEAN, hidden' \in SUBSET Deletion,
             raced' \in SUBSET Messages,
             page' \in [Users -> Page],
             doubtful' \in [Users -> SUBSET Messages],
             ~At(r, "link"),
             \/ End(r)
             \/ At(r, "create_get") /\ Goto(r, "create")
             \/ At(r, "hide_get") /\ Goto(r, "hide")
      PROVE  IInv'
  <2>1. /\ req' \in [Requests -> Request]
        /\ \A q \in Requests \ {r} : req'[q] = req[q]
        /\ \/ req'[r].pc = "done"
           \/ /\ req'[r].user = req[r].user /\ req'[r].msg = req[r].msg
              /\ \/ At(r, "create_get") /\ req'[r].pc = "create"
                 \/ At(r, "hide_get") /\ req'[r].pc = "hide"
    BY <1>1, <1>2, EndFacts, GotoFacts DEF Labels
  <2>2. \A q \in Requests : RequestInv(q)'
    BY <1>1, <1>2, <2>1 DEF RequestInv
  <2>3. \A q \in Requests :
          /\ At(q, "link") => At(q, "link")' \/ q \in unordered'
          /\ At(q, "link")' => At(q, "link")
    BY <1>2, <2>1
  <2>4. unordered \subseteq Messages
    BY <1>1 DEF TypeOK
  <2> QED BY <1>2, <2>1, <2>2, <2>3, <2>4, QuietInv
<1>3. CASE GetConversation(r)
  BY <1>1, <1>2, <1>3 DEF GetConversation, rows, pages, history
<1>4. CASE CreateConversation(r)
  BY <1>1, <1>2, <1>4 DEF CreateConversation, pages, history
<1>5. CASE RefreshMessage(r)
  <2>1. /\ req' \in [Requests -> Request]
        /\ req'[r].pc = "push" /\ req'[r].user = req[r].user
        /\ req'[r].msg = req[r].msg
        /\ \A q \in Requests \ {r} : req'[q] = req[q]
    <3>1. row[r].content \in Texts
      BY <1>1, <1>5 DEF RefreshMessage, RequestInv, Row
    <3> QED BY <1>1, <1>5, <3>1 DEF RefreshMessage, Request, Labels
  <2>2. \A q \in Requests : RequestInv(q)'
    BY <1>1, <1>5, <2>1 DEF RequestInv, RefreshMessage, rows
  <2> QED BY <1>1, <1>5, <2>1, <2>2, QuietInv
          DEF RefreshMessage, TypeOK, rows, pages, history
<1>6. CASE PushMessage(r)
  <2>1. Reader(r) \in Users
    BY <1>1, <1>6, ReaderType DEF PushMessage, RequestInv
  <2>2. Listed(page[Reader(r)].shown, r, req[r].text) \in Listing
    BY <1>1, <2>1, PageType DEF Listed, Listing, Request
  <2> QED BY <1>1, <1>2, <1>6, <2>1, <2>2, PushFacts
          DEF PushMessage, rows
<1>7. CASE PushEdit(r)
  <2> DEFINE m == req[r].msg
  <2>1. m \in Messages /\ Reader(m) \in Users
    BY <1>1, <1>7, ReaderType DEF PushEdit, RequestInv
  <2>2. Relisted(page[Reader(m)].shown, m, Pushed(r)) \in Listing
    BY <1>1, <2>1, PageType DEF Relisted, Listing, Pushed, Texts
  <2> QED BY <1>1, <1>2, <1>7, <2>1, <2>2, PushFacts
          DEF PushEdit, rows
<1>8. CASE PushDelete(r)
  <2> DEFINE m == req[r].msg
  <2>1. m \in Messages /\ Reader(m) \in Users
    BY <1>1, <1>8, ReaderType DEF PushDelete, RequestInv
  <2>2. [page[Reader(m)].shown EXCEPT ![m] = Absent] \in Listing
    BY <1>1, <2>1, PageType DEF Listing
  <2> QED BY <1>1, <1>2, <1>8, <2>1, <2>2, PushFacts
          DEF PushDelete, rows
<1>9. CASE GetDeletion(r)
  BY <1>1, <1>2, <1>9 DEF GetDeletion, rows, pages, history
<1>10. CASE HideMessage(r)
  BY <1>1, <1>2, <1>10
     DEF HideMessage, pages, history, Deletion, RequestInv
<1> QED BY <1>3, <1>4, <1>5, <1>6, <1>7, <1>8, <1>9, <1>10

\* An edit and a deletion change one row, which is stored.
LEMMA ChangeInv ==
  ASSUME IInv, NEW r \in Requests, EditMessage(r) \/ DeleteMessage(r)
  PROVE  IInv'
<1> DEFINE m == req[r].msg
<1>1. /\ TypeOK /\ RequestInv(r) /\ \A q \in Requests : RequestInv(q)
      /\ row \in [Messages -> Row \union {Absent}]
      /\ \A i \in DOMAIN log : log[i] \in Messages
  BY DEF IInv, TypeOK
<1>2. /\ m \in Messages /\ Sent(m) /\ row[m] \in Row
      /\ Reader(m) \in Users
  BY <1>1, ReaderType DEF EditMessage, DeleteMessage, RequestInv
<1>3. /\ UNCHANGED <<created, last, log, hidden, page, unordered>>
      /\ Outdate(m) /\ Race(m)
      /\ \/ At(r, "edit") /\ Goto(r, "edit_push")
         \/ At(r, "delete") /\ Goto(r, "delete_push")
  BY DEF EditMessage, DeleteMessage
<1>4. /\ row' \in [Messages -> Row \union {Absent}]
      /\ row'[m] # Absent
      /\ \A n \in Messages \ {m} : row'[n] = row[n]
      /\ ~row'[m].deleted => row'[m].content # Null
  <2>1. CASE EditMessage(r)
    <3>1. /\ [row[m] EXCEPT !.content = r] \in Row
          /\ [row[m] EXCEPT !.content = r].content # Null
      BY <1>2, Values DEF Row, Texts
    <3>2. row' = [row EXCEPT ![m] = [row[m] EXCEPT !.content = r]]
      BY <2>1 DEF EditMessage, Edited
    <3> QED BY <1>1, <1>2, <3>1, <3>2, Values
  <2>2. CASE DeleteMessage(r)
    <3> DEFINE x == Deleted(row[m], req[r].seen)
    <3>1. x \in Row /\ x.deleted
      BY <1>2 DEF Row, Texts, Deleted
    <3>2. row' = [row EXCEPT ![m] = x]
      BY <2>2 DEF DeleteMessage
    <3> HIDE DEF x
    <3> QED BY <1>1, <1>2, <3>1, <3>2, Values
  <2> QED BY <2>1, <2>2
<1>5. /\ req' \in [Requests -> Request]
      /\ req'[r].pc \in {"edit_push", "delete_push"}
      /\ req'[r].user = req[r].user /\ req'[r].msg = m
      /\ \A q \in Requests \ {r} : req'[q] = req[q]
  BY <1>1, <1>3, GotoFacts DEF Labels
<1>6. \A q \in Requests : At(q, "link")' <=> At(q, "link")
  BY <1>3, <1>5
<1>7. /\ doubtful' \in [Users -> SUBSET Messages]
      /\ raced' \in SUBSET Messages
      /\ fetch' \in [Fetches -> Fetch] /\ FetchInv'
  <2>1. /\ fetch' \in [Fetches -> Fetch]
        /\ \A f \in Fetches : /\ fetch'[f].pc = fetch[f].pc
                              /\ fetch'[f].user = fetch[f].user
    BY <1>1, <1>2, <1>3, OutdateFacts
  <2> QED BY <1>1, <1>2, <1>3, <2>1, RaceFacts DEF IInv, FetchInv
<1>8. TypeOK'
  BY <1>1, <1>3, <1>4, <1>5, <1>7 DEF TypeOK
<1>9. TextInv'
  BY <1>2, <1>4 DEF IInv, TextInv
<1>10. LogInv'
  BY <1>1, <1>2, <1>3, <1>4, <1>6 DEF IInv, LogInv
<1>11. LastMessageIsRecent'
  BY <1>1, <1>3, <1>6 DEF IInv, LastMessageIsRecent
<1>12. \A q \in Requests : RequestInv(q)'
  <2>1. \A n \in Messages : row'[n] = Absent <=> row[n] = Absent
    BY <1>2, <1>4
  <2> QED BY <1>1, <1>2, <1>3, <1>5, <2>1 DEF RequestInv
<1> QED BY <1>7, <1>8, <1>9, <1>10, <1>11, <1>12 DEF IInv

\* A message is stored under an id that nothing was stored under, after all the
\* others; it is unordered when another one is to become the last message.
LEMMA InsertInv ==
  ASSUME IInv, NEW r \in Requests, InsertMessage(r)
  PROVE  IInv'
<1>1. /\ TypeOK /\ RequestInv(r) /\ \A q \in Requests : RequestInv(q)
      /\ row \in [Messages -> Row \union {Absent}]
      /\ log \in Seq(Messages) /\ row[r] = Absent /\ req[r].msg = r
      /\ Partner(req[r].user) \in Users /\ req[r].user \in Users
  BY PartnerType DEF IInv, TypeOK, RequestInv, InsertMessage
<1> DEFINE x == [sender |-> req[r].user, content |-> r, deleted |-> FALSE]
<1>2. x \in Row /\ x # Absent /\ x.content # Null
  <2>1. x \in Row /\ x.content = r
    BY <1>1 DEF Row, Texts
  <2> QED BY <2>1, Values
<1>3. row' = [row EXCEPT ![r] = x]
  BY DEF InsertMessage
<1> HIDE DEF x
<1>4. /\ row' \in [Messages -> Row \union {Absent}] /\ row'[r] = x
      /\ \A n \in Messages \ {r} : row'[n] = row[n]
  BY <1>1, <1>2, <1>3
<1>5. /\ UNCHANGED <<created, last, hidden, page, fetch, raced, doubtful>>
      /\ log' = Append(log, r) /\ Goto(r, "link") /\ At(r, "insert")
      /\ unordered' = IF \E s \in Requests : At(s, "link")
                        THEN unordered \union {r} ELSE unordered
  BY DEF InsertMessage, pages
<1>6. /\ req' \in [Requests -> Request]
      /\ req'[r].pc = "link" /\ req'[r].user = req[r].user
      /\ req'[r].msg = r
      /\ \A q \in Requests \ {r} : req'[q] = req[q]
  BY <1>1, <1>5, GotoFacts DEF Labels
<1>7. FetchInv'
  BY <1>5 DEF IInv, FetchInv
<1> DEFINE new == Len(log) + 1
<1>8. /\ log' \in Seq(Messages) /\ new \in DOMAIN log' /\ log'[new] = r
      /\ \A i \in DOMAIN log' : i \in DOMAIN log \/ i = new
      /\ \A i \in DOMAIN log : /\ i \in DOMAIN log' /\ i < new
                              /\ log'[i] = log[i] /\ log[i] \in Messages
      /\ \A i, j \in DOMAIN log' : i < j => i # new
  BY <1>1, <1>5
<1> HIDE DEF new
<1>9. \A i \in DOMAIN log : log[i] # r
  BY <1>1 DEF IInv, LogInv
<1>10. TypeOK'
  BY <1>1, <1>4, <1>5, <1>6, <1>8 DEF TypeOK
<1>11. TextInv'
  BY <1>2, <1>4 DEF IInv, TextInv
<1>12. LogInv'
  <2>1. ASSUME NEW i \in DOMAIN log' PROVE row'[log'[i]] # Absent
    BY <1>2, <1>4, <1>8, <1>9 DEF IInv, LogInv
  <2>2. ASSUME NEW i \in DOMAIN log', NEW j \in DOMAIN log', i < j,
               req'[log'[i]].pc = "link"
        PROVE  log'[j] \in unordered'
    <3>1. i \in DOMAIN log /\ At(log[i], "link") /\ log[i] \in Requests
      BY <1>6, <1>8, <1>9, <2>2
    <3>2. CASE j = new
      BY <1>5, <1>8, <3>1, <3>2
    <3>3. CASE j \in DOMAIN log
      BY <1>5, <1>8, <2>2, <3>1, <3>3 DEF IInv, LogInv
    <3> QED BY <1>8, <3>2, <3>3
  <2> QED BY <2>1, <2>2 DEF LogInv
<1>13. LastMessageIsRecent'
  <2> SUFFICES ASSUME NEW j \in DOMAIN log', j # new,
                      last # Absent =>
                        \E i \in DOMAIN log' : i < j /\ log'[i] = last
               PROVE  log'[j] \in unordered' \/ req'[log'[j]].pc = "link"
    BY <1>5, <1>6, <1>8 DEF LastMessageIsRecent
  <2>1. j \in DOMAIN log
    BY <1>8
  <2>2. last # Absent => \E i \in DOMAIN log : i < j /\ log[i] = last
    BY <1>8, <2>1
  <2>3. log[j] \in unordered \/ At(log[j], "link")
    BY <2>1, <2>2 DEF IInv, LastMessageIsRecent
  <2> QED BY <1>5, <1>6, <1>8, <1>9, <2>1, <2>3
<1>14. \A q \in Requests : RequestInv(q)'
  BY <1>1, <1>2, <1>4, <1>5, <1>6 DEF RequestInv
<1> QED BY <1>7, <1>10, <1>11, <1>12, <1>13, <1>14 DEF IInv

\* The messages stored after the one that becomes the last were stored while it
\* was about to.
LEMMA LinkInv ==
  ASSUME IInv, NEW r \in Requests, LinkMessage(r)
  PROVE  IInv'
<1>1. /\ TypeOK /\ \A q \in Requests : RequestInv(q)
      /\ \A i \in DOMAIN log : log[i] \in Messages
      /\ UNCHANGED <<created, row, log, hidden, pages, history>>
      /\ At(r, "link") /\ last' = r /\ r # Absent
      /\ r \in DOMAIN row /\ Sent(r)
  BY ChatAssumption DEF IInv, TypeOK, LinkMessage, LastIs, RequestInv, Texts
<1>2. /\ req' \in [Requests -> Request]
      /\ req'[r].pc = "refresh" /\ req'[r].user = req[r].user
      /\ req'[r].msg = req[r].msg
      /\ \A q \in Requests \ {r} : req'[q] = req[q]
  BY <1>1, GotoFacts DEF LinkMessage, Labels
<1>3. TypeOK'
  BY <1>1, <1>2 DEF TypeOK, pages, history
<1>4. TextInv'
  BY <1>1 DEF IInv, TextInv
<1>5. LogInv'
  BY <1>1, <1>2 DEF IInv, LogInv, history
<1>6. LastMessageIsRecent'
  <2> SUFFICES ASSUME NEW j \in DOMAIN log, NEW i \in DOMAIN log,
                      i < j, log[i] = r
               PROVE  log[j] \in unordered
    BY <1>1 DEF LastMessageIsRecent, history
  <2> QED BY <1>1 DEF IInv, LogInv
<1>7. \A q \in Requests : RequestInv(q)'
  BY <1>1, <1>2 DEF RequestInv
<1>8. FetchInv'
  BY <1>1 DEF IInv, FetchInv, pages
<1> QED BY <1>3, <1>4, <1>5, <1>6, <1>7, <1>8 DEF IInv

\* A handler stops half way: its message may never become the last.
LEMMA FailInv ==
  ASSUME IInv, NEW r \in Requests, Fail(r)
  PROVE  IInv'
<1>1. /\ TypeOK /\ RequestInv(r) /\ \A q \in Requests : RequestInv(q)
      /\ UNCHANGED <<rows, pages>>
      /\ unordered' = IF At(r, "link") THEN unordered \union {r}
                                       ELSE unordered
  BY DEF IInv, Fail
<1>2. /\ req' \in [Requests -> Request]
      /\ req'[r].pc = "done"
      /\ \A q \in Requests \ {r} : req'[q] = req[q]
  BY <1>1, EndFacts DEF Fail
<1>3. /\ doubtful' \in [Users -> SUBSET Messages]
      /\ raced' \in SUBSET Messages
  <2> DEFINE m == req[r].msg
  <2>1. CASE Telling(r)
    <3>1. m \in Messages /\ Reader(m) \in Users
      BY <1>1, <2>1, ReaderType DEF Telling, RequestInv
    <3>2. /\ doubtful' = [doubtful EXCEPT ![Reader(m)] = @ \union {m}]
          /\ Settle(r)
      BY <2>1 DEF Fail
    <3> QED BY <1>1, <3>1, <3>2 DEF TypeOK, Settle
  <2>2. CASE ~Telling(r)
    BY <1>1, <2>2 DEF Fail, TypeOK
  <2> QED BY <2>1, <2>2
<1>4. \A q \in Requests : RequestInv(q)'
  BY <1>1, <1>2 DEF RequestInv, rows
<1>5. \A q \in Requests :
        /\ At(q, "link") => At(q, "link")' \/ q \in unordered'
        /\ At(q, "link")' => At(q, "link")
  BY <1>1, <1>2
<1> QED BY <1>1, <1>2, <1>3, <1>4, <1>5, QuietInv DEF rows, pages, TypeOK

\* What the history has is a list.
LEMMA HistoryType ==
  ASSUME TypeOK, NEW u
  PROVE  History(u) \in Listing /\ Nothing \in Listing
BY DEF History, Nothing, Listing, TypeOK, Row, Shown

\* Pages leave the chat-server alone.
LEMMA ClientKeeps ==
  ASSUME \/ \E u \in Users : Client(u)
         \/ \E f \in Fetches : Loading(f)
  PROVE  UNCHANGED <<rows, req>>
<1>1. ASSUME NEW u \in Users, Client(u) PROVE UNCHANGED <<rows, req>>
  BY <1>1 DEF Client, OpenConversation, OpenOther, CloseConversation, LeavePage
<1>2. ASSUME NEW f \in Fetches, Loading(f) PROVE UNCHANGED <<rows, req>>
  BY <1>2 DEF Loading, ReadHistory, ListHistory, ListOther, FetchFails
<1> QED BY <1>1, <1>2

\* A page views, loads, lists and leaves the conversation.
LEMMA ClientInv ==
  ASSUME IInv,
         \/ \E u \in Users : Client(u)
         \/ \E f \in Fetches : Loading(f)
         \/ UNCHANGED vars
  PROVE  IInv'
<1>1. /\ TypeOK /\ \A q \in Requests : RequestInv(q)
      /\ page \in [Users -> Page] /\ fetch \in [Fetches -> Fetch]
      /\ doubtful \in [Users -> SUBSET Messages]
      /\ raced \in SUBSET Messages /\ unordered \in SUBSET Messages
      /\ NoFetch \in Fetch /\ NoFetch.pc = "idle" /\ Nothing \in Listing
      /\ \A v : Received(v) \in SUBSET Messages
  BY HistoryType DEF IInv, TypeOK, NoFetch, Fetch, Received
<1>2. ASSUME UNCHANGED <<rows, req, unordered, raced>>,
             page' \in [Users -> Page],
             doubtful' \in [Users -> SUBSET Messages],
             \/ UNCHANGED fetch
             \/ fetch' \in [Fetches -> Fetch] /\ FetchInv'
      PROVE  IInv'
  <2>1. \A q \in Requests : RequestInv(q)'
    BY <1>1, <1>2 DEF RequestInv, rows
  <2> QED BY <1>1, <1>2, <2>1, QuietInv DEF rows, TypeOK
<1>3. ASSUME NEW u \in Users, NEW b \in BOOLEAN
      PROVE  /\ View(u, b) => page' \in [Users -> Page]
             /\ Emptied(u, b) => /\ page' \in [Users -> Page]
                                /\ doubtful' \in [Users -> SUBSET Messages]
  <2>1. [page[u] EXCEPT !.viewing = b] \in Page
    BY <1>1 DEF Page
  <2>2. [viewing |-> b, shown |-> Nothing] \in Page
    BY <1>1 DEF Page
  <2> QED BY <1>1, <2>1, <2>2 DEF View, Emptied
<1>4. ASSUME NEW f \in Fetches, Finish(f)
      PROVE  fetch' \in [Fetches -> Fetch] /\ FetchInv'
  BY <1>1, <1>4 DEF Finish, IInv, FetchInv
<1>5. ASSUME NEW f \in Fetches, NEW u \in Users,
             NEW what \in {"asked", "other"}, Ask(u, f, what)
      PROVE  fetch' \in [Fetches -> Fetch] /\ FetchInv'
  <2> DEFINE x == [fetch[f] EXCEPT !.pc = what, !.user = u]
  <2>1. x \in Fetch /\ x.user = u
    BY <1>1 DEF Fetch
  <2>2. fetch' = [fetch EXCEPT ![f] = x]
    BY <1>5 DEF Ask
  <2> HIDE DEF x
  <2> QED BY <1>1, <2>1, <2>2 DEF IInv, FetchInv
<1>6. ASSUME NEW u \in Users, Client(u) PROVE IInv'
  <2>1. ASSUME NEW f \in Fetches, OpenConversation(u, f) PROVE IInv'
    BY <1>1, <1>2, <1>3, <1>5, <2>1 DEF OpenConversation, history
  <2>2. ASSUME NEW f \in Fetches, OpenOther(u, f) PROVE IInv'
    BY <1>1, <1>2, <1>3, <1>5, <2>2 DEF OpenOther, history
  <2>3. CASE CloseConversation(u)
    BY <1>2, <1>3, <2>3 DEF CloseConversation
  <2>4. CASE LeavePage(u)
    <3>1. fetch' = [f \in Fetches |->
                      IF fetch[f].user = u THEN NoFetch ELSE fetch[f]]
      BY <2>4 DEF LeavePage
    <3>2. fetch' \in [Fetches -> Fetch] /\ FetchInv'
      BY <1>1, <3>1 DEF IInv, FetchInv
    <3> QED BY <1>2, <1>3, <2>4, <3>2 DEF LeavePage
  <2> QED BY <1>6, <2>1, <2>2, <2>3, <2>4 DEF Client
<1>7. ASSUME NEW f \in Fetches, Loading(f) PROVE IInv'
  <2> DEFINE u == fetch[f].user
  <2>1. u \in Users /\ page[u].viewing \in BOOLEAN
                    /\ fetch[f].answer \in Listing
    BY <1>1, <1>7 DEF IInv, FetchInv, Loading, ReadHistory, ListHistory,
                      ListOther, FetchFails, Fetch, Page
  <2>2. CASE ReadHistory(f)
    <3> DEFINE x == [fetch[f] EXCEPT !.pc = "given", !.answer = History(u),
                                     !.fresh = Received(u)]
    <3>1. x \in Fetch /\ x.user = u
      BY <1>1, HistoryType DEF Fetch
    <3>2. fetch' = [fetch EXCEPT ![f] = x]
      BY <2>2 DEF ReadHistory
    <3> HIDE DEF x
    <3>3. fetch' \in [Fetches -> Fetch] /\ FetchInv'
      BY <1>1, <2>1, <3>1, <3>2 DEF IInv, FetchInv
    <3> QED BY <1>1, <1>2, <2>2, <3>3 DEF ReadHistory, history
  <2>3. CASE ListHistory(f)
    <3>1. [page[u] EXCEPT !.shown = fetch[f].answer] \in Page
      BY <1>1, <2>1 DEF Page
    <3>2. page' \in [Users -> Page]
      BY <1>1, <2>1, <2>3, <3>1 DEF ListHistory
    <3>3. doubtful' \in [Users -> SUBSET Messages]
      BY <1>1, <2>1, <2>3 DEF ListHistory
    <3> QED BY <1>2, <1>4, <2>3, <3>2, <3>3 DEF ListHistory
  <2>4. CASE ListOther(f)
    BY <1>2, <1>3, <1>4, <2>1, <2>4 DEF ListOther
  <2>5. CASE FetchFails(f)
    BY <1>1, <1>2, <1>4, <2>5 DEF FetchFails, history
  <2> QED BY <1>7, <2>2, <2>3, <2>4, <2>5 DEF Loading
<1>8. CASE UNCHANGED vars
  BY <1>1, <1>2, <1>8 DEF vars, pages, history
<1> QED BY <1>6, <1>7, <1>8

-----------------------------------------------------------------------------
(* What a page shows.  The inductive invariant follows one message: what the *)
(* page lists of it, and what the handler that is telling of it will push.  *)

\* What the history has of a message for the one who reads it.
Current(m) == IF row[m].deleted THEN Absent ELSE row[m].content

\* Only its author hides a message.
HiddenInv ==
  /\ \A d \in hidden : Sent(d[1]) /\ row[d[1]].sender = d[2]
  /\ \A r \in Requests : req[r].pc \in {"hide_get", "hide"} =>
                          row[req[r].msg].sender = req[r].user

\* A page lists and is given nothing of messages that are not there or its
\* user's own; nobody has committed to one that is not there.
Elsewhere ==
  \A m \in Messages :
    /\ \A u \in Users : ~Sent(m) \/ u # Reader(m) => page[u].shown[m] = Absent
    /\ \A f \in Fetches :
         fetch[f].pc = "given" /\ (~Sent(m) \/ fetch[f].user # Reader(m))
           => fetch[f].answer[m] = Absent /\ m \notin fetch[f].fresh
    /\ ~Sent(m) => m \notin raced

\* What r is to push is what the row has.
Agrees(r, m) ==
  /\ req[r].pc \in {"link", "refresh", "push"} => Current(m) # Absent
  /\ req[r].pc = "push" => req[r].text = Current(m)
  /\ req[r].pc = "edit_push" => Current(m) \in {Absent, r}
  /\ req[r].pc = "delete_push" => Current(m) = Absent

\* It makes a list that has shown for m agree with the row.
Follows(r, m, shown) ==
  /\ req[r].pc \in {"link", "refresh", "push"} => shown \in {Absent, Current(m)}
  /\ req[r].pc = "edit_push" => (Current(m) = Absent <=> shown = Absent)

\* Handlers that overlap at a message race, and its reader is doubtful of it as
\* long as they do; otherwise the only one is to push what the row has.  What
\* is fresh of an answer is what the row has; the list has it as well, but for
\* what the only handler is to push.
SoleInv(m) ==
  m \notin raced => /\ \A q, r \in Told(m) : q = r
                   /\ \A r \in Told(m) : Agrees(r, m)
RacedInv(m, u) == m \in raced => m \in doubtful[u]
FreshInv(m) ==
  \A f \in Fetches : fetch[f].pc = "given" /\ m \in fetch[f].fresh
                       => fetch[f].answer[m] = Current(m)
ListsInv(m, u) ==
  m \notin doubtful[u] =>
    /\ Told(m) = {} => page[u].shown[m] = Current(m)
    /\ \A r \in Told(m) : Follows(r, m, page[u].shown[m])
MessageInv(m, u) ==
  SoleInv(m) /\ RacedInv(m, u) /\ FreshInv(m) /\ ListsInv(m, u)

PageInv ==
  /\ HiddenInv
  /\ Elsewhere
  /\ \A m \in Messages : Sent(m) => MessageInv(m, Reader(m))

\* A step at m changes no fetch but for what is fresh of it.
FetchesKept ==
  \A f \in Fetches :
    /\ fetch'[f].pc = fetch[f].pc /\ fetch'[f].user = fetch[f].user
    /\ fetch'[f].answer = fetch[f].answer
    /\ fetch'[f].fresh \subseteq fetch[f].fresh

\* Nor does it touch any list but for what that of u has of m.
PagesKept(m, u) ==
  /\ FetchesKept
  /\ \A v \in Users : \A n \in Messages : n # m \/ v # u =>
       /\ page'[v].shown[n] = page[v].shown[n]
       /\ n \in doubtful'[v] <=> n \in doubtful[v]
  /\ \A n \in Messages \ {m} : n \in raced' <=> n \in raced

\* The other participant is the only other one.
LEMMA Pair ==
  ASSUME NEW u \in Users
  PROVE  Partner(u) # u /\ \A v \in Users : v = u \/ v = Partner(u)
<1>1. PICK a \in Users, b \in Users : a # b /\ Users = {a, b}
  BY ChatAssumption
<1>2. \E v \in Users : v # u
  BY <1>1
<1>3. Partner(u) \in Users /\ Partner(u) # u
  BY <1>2 DEF Partner
<1> QED BY <1>1, <1>3

\* A text is not the value that stands for no message.
LEMMA TextIs ==
  \A x \in Texts : x # Absent
BY ChatAssumption

\* What is known of the row of a stored message.
LEMMA RowType ==
  ASSUME TypeOK, NEW m \in Messages, Sent(m)
  PROVE  /\ row[m] \in Row /\ row[m].sender \in Users
         /\ row[m].content \in Texts /\ row[m].content # Absent
         /\ Reader(m) \in Users
         /\ Current(m) = Absent <=> row[m].deleted
         /\ ~row[m].deleted => Current(m) = row[m].content
BY ReaderType, TextIs DEF TypeOK, Row, Current

\* The history has a message for its reader, as it is.
LEMMA HistoryIs ==
  ASSUME TypeOK, HiddenInv, NEW u \in Users, NEW m \in Messages
  PROVE  History(u)[m] = IF Sent(m) /\ u = Reader(m) THEN Current(m)
                                                     ELSE Absent
<1>1. History(u)[m] = IF Shown(u, m) /\ row[m].sender # u
                        THEN row[m].content ELSE Absent
  BY DEF History
<1>2. CASE ~Sent(m)
  BY <1>1, <1>2 DEF Shown
<1>3. CASE Sent(m)
  <2>1. row[m].sender \in Users
    BY <1>3, RowType
  <2>2. u = Reader(m) <=> row[m].sender # u
    BY <2>1, Pair DEF Reader
  <2>3. row[m].sender # u => <<m, u>> \notin hidden
    BY DEF HiddenInv
  <2> QED BY <1>1, <1>3, <2>2, <2>3 DEF Shown, Current
<1> QED BY <1>2, <1>3

\* A step at m leaves what is known of the other messages.
LEMMA OthersInv ==
  ASSUME IInv, PageInv, NEW r \in Requests, NEW m \in Messages, NEW u \in Users,
         PagesKept(m, u),
         \A q \in Requests \ {r} : req'[q] = req[q],
         Telling(r) => req[r].msg = m, Telling(r)' => req'[r].msg = m,
         \A n \in Messages \ {m} : row'[n] = row[n],
         Sent(m)', Reader(m)' = u, Sent(m) => Reader(m) = u,
         HiddenInv', MessageInv(m, u)'
  PROVE  PageInv'
<1>1. TypeOK
  BY DEF IInv
<1>2. Elsewhere'
  <2> SUFFICES ASSUME NEW n \in Messages
               PROVE  /\ \A v \in Users : ~Sent(n)' \/ v # Reader(n)' =>
                                            page'[v].shown[n] = Absent
                      /\ \A f \in Fetches :
                           /\ fetch'[f].pc = "given"
                           /\ ~Sent(n)' \/ fetch'[f].user # Reader(n)'
                           => /\ fetch'[f].answer[n] = Absent
                              /\ n \notin fetch'[f].fresh
                      /\ ~Sent(n)' => n \notin raced'
    BY DEF Elsewhere
  <2>1. CASE n # m
    <3>1. /\ Sent(n)' <=> Sent(n)
          /\ Reader(n)' = Reader(n)
      BY <2>1 DEF Reader
    <3> QED BY <2>1, <3>1 DEF PageInv, Elsewhere, PagesKept, FetchesKept
  <2>2. CASE n = m
    <3>1. \A v : v # u => ~Sent(n) \/ v # Reader(n)
      BY <2>2
    <3> QED BY <2>2, <3>1 DEF PageInv, Elsewhere, PagesKept, FetchesKept
  <2> QED BY <2>1, <2>2
<1>3. ASSUME NEW n \in Messages \ {m}, Sent(n)'
      PROVE  MessageInv(n, Reader(n))'
  <2> PICK v \in Users : v = Reader(n)
    BY <1>1, <1>3, ReaderType
  <2>1. /\ row'[n] = row[n] /\ Sent(n) /\ Reader(n)' = v
        /\ MessageInv(n, v) /\ Current(n)' = Current(n)
    BY <1>1, <1>3 DEF PageInv, Reader, Current
  <2>2. \A q \in Requests :
          /\ q \in Told(n)' <=> q \in Told(n)
          /\ q \in Told(n) => req'[q] = req[q]
    BY DEF Told, Telling
  <2>3. Told(n)' = Told(n)
    BY <2>2 DEF Told
  <2>4. /\ page'[v].shown[n] = page[v].shown[n]
        /\ n \in doubtful'[v] <=> n \in doubtful[v]
        /\ n \in raced' <=> n \in raced
    BY <2>1 DEF PagesKept
  <2>5. MessageInv(n, v)'
    <3>1. RacedInv(n, v)'
      BY <2>1, <2>4 DEF MessageInv, RacedInv
    <3>2. FreshInv(n)'
      BY <2>1 DEF MessageInv, FreshInv, PagesKept, FetchesKept
    <3>3. \A q \in Told(n) : req'[q] = req[q]
      BY <2>2 DEF Told, Telling
    <3>4. SoleInv(n)'
      BY <2>1, <2>3, <2>4, <3>3 DEF MessageInv, SoleInv, Agrees
    <3>5. ListsInv(n, v)'
      BY <2>1, <2>3, <2>4, <3>3 DEF MessageInv, ListsInv, Follows
    <3> QED BY <3>1, <3>2, <3>4, <3>5 DEF MessageInv
  <2> QED BY <2>1, <2>5
<1>4. MessageInv(m, Reader(m))'
  OBVIOUS
<1> QED BY <1>2, <1>3, <1>4 DEF PageInv

\* A step that commits and pushes nothing leaves all of it.
LEMMA QuietPages ==
  ASSUME IInv, PageInv, UNCHANGED <<row, pages, raced, doubtful>>, HiddenInv',
         \A q \in Requests : Telling(q) \/ Telling(q)' => req'[q] = req[q]
  PROVE  PageInv'
<1>1. \A q \in Requests : Telling(q) <=> Telling(q)'
  BY DEF Telling
<1>2. \A n \in Messages : Told(n)' = Told(n)
  BY <1>1 DEF Told
<1>3. Elsewhere'
  BY DEF PageInv, Elsewhere, Reader, pages
<1>4. ASSUME NEW n \in Messages, Sent(n)
      PROVE  MessageInv(n, Reader(n))'
  <2> DEFINE v == Reader(n)
  <2>1. MessageInv(n, v) /\ v' = v /\ Current(n)' = Current(n)
    BY <1>4 DEF PageInv, Reader, Current
  <2> HIDE DEF v
  <2>2. RacedInv(n, v)' /\ FreshInv(n)'
    BY <2>1 DEF MessageInv, RacedInv, FreshInv, pages
  <2>3. \A q \in Told(n) : req'[q] = req[q]
    BY DEF Told
  <2>4. SoleInv(n)'
    BY <1>2, <2>1, <2>3 DEF MessageInv, SoleInv, Agrees
  <2>5. ListsInv(n, v)'
    BY <1>2, <2>1, <2>3 DEF MessageInv, ListsInv, Follows, pages
  <2>6. MessageInv(n, v)'
    BY <2>2, <2>4, <2>5 DEF MessageInv
  <2> QED BY <2>6 DEF v
<1> QED BY <1>3, <1>4 DEF PageInv

\* The last handler of m that is telling of it ends the race.
LEMMA SettleFacts ==
  ASSUME NEW r \in Requests, NEW m \in Messages, m = req[r].msg, Settle(r)
  PROVE  /\ raced' \subseteq raced
         /\ \A n \in Messages \ {m} : n \in raced' <=> n \in raced
         /\ m \notin raced' => m \notin raced \/ Told(m) = {r}
BY DEF Settle

\* A push of m: the page lists what it should, or is doubtful of m.
LEMMA PushPages ==
  ASSUME TypeOK, NEW m \in Messages, NEW u \in Users, NEW shown \in Listing,
         \A n \in Messages \ {m} : shown[n] = page[u].shown[n],
         Push(m, u, shown)
  PROVE  /\ \A v \in Users : \A n \in Messages : n # m \/ v # u =>
              /\ page'[v].shown[n] = page[v].shown[n]
              /\ n \in doubtful'[v] <=> n \in doubtful[v]
         /\ \/ m \in doubtful'[u]
            \/ UNCHANGED doubtful /\ page'[u].shown = shown
<1>1. /\ page \in [Users -> Page] /\ doubtful \in [Users -> SUBSET Messages]
      /\ page[u] \in Page
  BY DEF TypeOK
<1>2. CASE page' = [page EXCEPT ![u].shown = shown] /\ UNCHANGED doubtful
  <2>1. /\ \A v \in Users \ {u} : page'[v] = page[v]
        /\ page'[u] = [page[u] EXCEPT !.shown = shown]
    BY <1>1, <1>2
  <2>2. page'[u].shown = shown
    BY <1>1, <2>1 DEF Page
  <2> QED BY <1>2, <2>1, <2>2
<1>3. CASE /\ doubtful' = [doubtful EXCEPT ![u] = @ \union {m}]
           /\ UNCHANGED page
  BY <1>1, <1>3
<1> QED BY <1>2, <1>3 DEF Push

\* A stored message stays so, and keeps its sender.
LEMMA SenderStays ==
  ASSUME IInv, Next, NEW m \in Messages, Sent(m)
  PROVE  Sent(m)' /\ row'[m].sender = row[m].sender
<1>1. CASE UNCHANGED row
  BY <1>1
<1>2. /\ row \in [Messages -> Row \union {Absent}] /\ row[m] \in Row
      /\ \A q \in Requests : RequestInv(q)
  BY DEF IInv, TypeOK
<1>3. ASSUME NEW r \in Requests, InsertMessage(r)
      PROVE  Sent(m)' /\ row'[m].sender = row[m].sender
  BY <1>2, <1>3 DEF InsertMessage, RequestInv
<1>4. ASSUME NEW r \in Requests, EditMessage(r)
      PROVE  Sent(m)' /\ row'[m].sender = row[m].sender
  <2>1. [row[m] EXCEPT !.content = r] \in Row
    BY <1>2 DEF Row, Texts
  <2> QED BY <1>2, <1>4, <2>1, Values DEF EditMessage, Edited, Row
<1>5. ASSUME NEW r \in Requests, DeleteMessage(r)
      PROVE  Sent(m)' /\ row'[m].sender = row[m].sender
  <2> DEFINE x == Deleted(row[m], req[r].seen)
  <2>1. x \in Row /\ x.sender = row[m].sender
    BY <1>2 DEF Row, Texts, Deleted
  <2>2. row'[m] = row[m] \/ row'[m] = x
    BY <1>2, <1>5 DEF DeleteMessage
  <2> HIDE DEF x
  <2> QED BY <1>2, <2>1, <2>2, Values
<1> QED
  BY <1>1, <1>3, <1>4, <1>5
     DEF Next, Step, Client, Loading, rows, CreateStart, SendStart, EditStart,
         DeleteStart, HideStart, GetConversation, CreateConversation,
         LinkMessage, RefreshMessage, PushMessage, PushEdit, PushDelete,
         GetDeletion, HideMessage, Fail, OpenConversation, OpenOther,
         CloseConversation, LeavePage, ReadHistory, ListHistory, ListOther,
         FetchFails

\* The one a handler hides a message from is its author.
LEMMA HiddenStep ==
  ASSUME IInv, HiddenInv, Next
  PROVE  HiddenInv'
<1>1. /\ TypeOK /\ req \in [Requests -> Request]
      /\ \A q \in Requests : RequestInv(q)
      /\ \A d \in hidden : d[1] \in Messages
      /\ Readers \subseteq Users
  BY ChatAssumption DEF IInv, TypeOK, Deletion
<1>2. \A n \in Messages : Sent(n) => Sent(n)' /\ row'[n].sender = row[n].sender
  BY SenderStays
<1>3. ASSUME NEW r \in Requests,
             \A q \in Requests \ {r} : req'[q] = req[q],
             req'[r].pc \in {"hide_get", "hide"} =>
               \/ req[r].pc = "hide_get" /\ req'[r].msg = req[r].msg
                                         /\ req'[r].user = req[r].user
               \/ /\ req'[r].msg \in Messages /\ Sent(req'[r].msg)
                  /\ row[req'[r].msg].sender = req'[r].user,
             \A d \in hidden' :
               \/ d \in hidden
               \/ /\ d = <<req[r].msg, req[r].user>> /\ At(r, "hide")
      PROVE  HiddenInv'
  <2>1. \A d \in hidden' : Sent(d[1])' /\ row'[d[1]].sender = d[2]
    BY <1>1, <1>2, <1>3 DEF HiddenInv, RequestInv
  <2>2. \A q \in Requests : req'[q].pc \in {"hide_get", "hide"} =>
                              row'[req'[q].msg].sender = req'[q].user
    BY <1>1, <1>2, <1>3 DEF HiddenInv, RequestInv
  <2> QED BY <2>1, <2>2 DEF HiddenInv
<1>4. ASSUME NEW r \in Requests, Step(r) PROVE HiddenInv'
  <2>1. ASSUME NEW l \in Labels \ {"hide", "hide_get"}, Goto(r, l),
               UNCHANGED hidden
        PROVE  HiddenInv'
    BY <1>1, <1>3, <2>1, GotoFacts
  <2>2. ASSUME End(r), UNCHANGED hidden
        PROVE  HiddenInv'
    BY <1>1, <1>3, <2>2, EndFacts
  <2>3. CASE GetConversation(r)
    BY <2>1, <2>2, <2>3 DEF GetConversation, rows, Labels
  <2>4. CASE \/ CreateConversation(r) \/ InsertMessage(r) \/ LinkMessage(r)
             \/ PushMessage(r) \/ EditMessage(r) \/ PushEdit(r)
             \/ DeleteMessage(r) \/ PushDelete(r) \/ Fail(r)
    BY <2>1, <2>2, <2>4
       DEF CreateConversation, InsertMessage, LinkMessage, PushMessage,
           EditMessage, PushEdit, DeleteMessage, PushDelete, Fail, rows, Labels
  <2>5. CASE RefreshMessage(r)
    <3>1. /\ \A q \in Requests \ {r} : req'[q] = req[q]
          /\ req'[r].pc = "push" /\ UNCHANGED hidden
      BY <1>1, <2>5 DEF RefreshMessage, rows, Request
    <3> QED BY <1>3, <3>1
  <2>6. CASE GetDeletion(r)
    <3>1. CASE End(r)
      BY <2>2, <2>6, <3>1 DEF GetDeletion, rows
    <3>2. CASE Goto(r, "hide")
      <4>1. /\ \A q \in Requests \ {r} : req'[q] = req[q]
            /\ req[r].pc = "hide_get" /\ req'[r].msg = req[r].msg
            /\ req'[r].user = req[r].user /\ UNCHANGED hidden
        BY <1>1, <2>6, <3>2, GotoFacts DEF GetDeletion, Labels, rows
      <4> QED BY <1>3, <4>1
    <3> QED BY <2>6, <3>1, <3>2 DEF GetDeletion
  <2>7. CASE HideMessage(r)
    <3>1. /\ \A q \in Requests \ {r} : req'[q] = req[q]
          /\ req'[r].pc = "done" /\ At(r, "hide")
          /\ hidden' = hidden \union {<<req[r].msg, req[r].user>>}
      BY <1>1, <2>7, EndFacts DEF HideMessage
    <3> QED BY <1>3, <3>1
  <2> QED BY <1>4, <2>3, <2>4, <2>5, <2>6, <2>7 DEF Step
<1>5. ASSUME NEW r \in Requests, NEW u \in Users, NEW m \in Messages,
             \/ CreateStart(r) \/ SendStart(r, u) \/ EditStart(r, u, m)
             \/ DeleteStart(r, u, m) \/ HideStart(r, u, m)
      PROVE  HiddenInv'
  <2>1. ASSUME NEW l \in Labels, NEW n \in Messages,
               NEW x \in Row \union {Absent}, Start(r, u, l, n, x),
               l \in {"hide_get"} => Sent(n) /\ row[n].sender = u,
               l # "hide", UNCHANGED hidden
        PROVE  HiddenInv'
    <3>1. /\ req'[r].pc = l /\ req'[r].user = u /\ req'[r].msg = n
          /\ \A q \in Requests \ {r} : req'[q] = req[q]
      BY <1>1, <2>1, StartFacts
    <3> QED BY <1>3, <2>1, <3>1
  <2>2. CASE CreateStart(r)
    <3>1. /\ \A q \in Requests \ {r} : req'[q] = req[q]
          /\ req'[r].pc = "create_get" /\ UNCHANGED hidden
      BY <1>1, <2>2, GotoFacts DEF CreateStart, rows, Labels
    <3> QED BY <1>3, <3>1
  <2>3. CASE SendStart(r, u) \/ EditStart(r, u, m) \/ DeleteStart(r, u, m)
    BY <1>1, <2>1, <2>3
       DEF TypeOK, SendStart, EditStart, DeleteStart, rows, Labels
  <2>4. CASE HideStart(r, u, m)
    BY <2>1, <2>4 DEF HideStart, rows, Labels
  <2> QED BY <1>5, <2>2, <2>3, <2>4
<1>6. CASE \/ \E u \in Readers : Client(u)
           \/ \E f \in Fetches : Loading(f)
  <2>1. UNCHANGED <<row, hidden, req>>
    BY <1>1, <1>6, ClientKeeps DEF rows
  <2> QED BY <2>1 DEF HiddenInv
<1>7. ASSUME NEW r \in Requests, CreateStart(r) PROVE HiddenInv'
  BY <1>5, <1>7, ChatAssumption
<1>8. ASSUME NEW r \in Requests, NEW u \in Users, SendStart(r, u)
      PROVE  HiddenInv'
  BY <1>5, <1>8
<1> QED BY <1>4, <1>5, <1>6, <1>7, <1>8 DEF Next

\* A message is stored: its reader does not have it, and will be told.
LEMMA InsertPages ==
  ASSUME IInv, PageInv, HiddenInv', NEW r \in Requests, InsertMessage(r)
  PROVE  PageInv'
<1>1. /\ TypeOK /\ RequestInv(r) /\ At(r, "insert") /\ req[r].msg = r
      /\ \A q \in Requests : RequestInv(q)
      /\ row \in [Messages -> Row \union {Absent}] /\ row[r] = Absent
      /\ req[r].user \in Users /\ page \in [Users -> Page]
  BY DEF IInv, TypeOK, RequestInv, InsertMessage
<1>2. PICK u \in Users : u = Partner(req[r].user)
  BY <1>1, PartnerType
<1> DEFINE x == [sender |-> req[r].user, content |-> r, deleted |-> FALSE]
<1>3. /\ x.sender = req[r].user /\ x.content = r /\ ~x.deleted /\ x # Absent
      /\ r # Absent
  <2>1. x \in Row
    BY <1>1 DEF Row, Texts
  <2> QED BY <2>1, Values, TextIs DEF Texts
<1>4. /\ row'[r] = x /\ \A n \in Messages \ {r} : row'[n] = row[n]
  BY <1>1 DEF InsertMessage
<1> HIDE DEF x
<1>5. UNCHANGED <<pages, raced, doubtful>> /\ Goto(r, "link")
  BY DEF InsertMessage
<1>6. /\ req'[r].pc = "link" /\ req'[r].msg = r
      /\ \A q \in Requests \ {r} : req'[q] = req[q]
  BY <1>1, <1>5, GotoFacts DEF Labels
<1>7. PagesKept(r, u)
  BY <1>5 DEF PagesKept, FetchesKept, pages
<1>8. Told(r)' = {r}
  BY <1>1, <1>6 DEF Told, Telling, RequestInv
<1>9. /\ page'[u].shown[r] = Absent /\ r \notin raced'
      /\ \A f \in Fetches : fetch'[f].pc = "given" => r \notin fetch'[f].fresh
  BY <1>1, <1>5 DEF PageInv, Elsewhere, pages
<1>10. Reader(r)' = u /\ Current(r)' = r
  BY <1>2, <1>3, <1>4 DEF Reader, Current
<1>11. MessageInv(r, u)'
  <2>1. RacedInv(r, u)' /\ FreshInv(r)'
    BY <1>9 DEF RacedInv, FreshInv
  <2>2. SoleInv(r)'
    BY <1>3, <1>6, <1>8, <1>10 DEF SoleInv, Agrees
  <2>3. ListsInv(r, u)'
    BY <1>6, <1>8, <1>9 DEF ListsInv, Follows
  <2> QED BY <2>1, <2>2, <2>3 DEF MessageInv
<1> QED BY <1>1, <1>3, <1>4, <1>6, <1>7, <1>10, <1>11, OthersInv DEF Telling

\* The handler of a message goes on to its push, with the text it reads again.
LEMMA TellerPages ==
  ASSUME IInv, PageInv, HiddenInv', NEW r \in Requests,
         LinkMessage(r) \/ RefreshMessage(r)
  PROVE  PageInv'
<1>1. /\ TypeOK /\ RequestInv(r) /\ req[r].msg = r /\ Sent(r)
      /\ req \in [Requests -> Request]
      /\ UNCHANGED <<row, page, fetch, raced, doubtful>>
      /\ req[r].pc \in {"link", "refresh"}
  BY DEF IInv, TypeOK, RequestInv, LinkMessage, RefreshMessage, rows, pages,
         history
<1>2. PICK u \in Users : u = Reader(r)
  BY <1>1, RowType
<1>3. /\ MessageInv(r, u) /\ Current(r)' = Current(r) /\ Reader(r)' = u
      /\ PagesKept(r, u)
  BY <1>1, <1>2 DEF PageInv, Current, Reader, PagesKept, FetchesKept
<1>4. /\ \A q \in Requests \ {r} : req'[q] = req[q]
      /\ req'[r].msg = r
      /\ \/ req'[r].pc = "refresh"
         \/ req'[r].pc = "push" /\ req'[r].text = row[r].content
  <2>1. CASE LinkMessage(r)
    BY <1>1, <2>1, GotoFacts DEF LinkMessage, Labels
  <2>2. CASE RefreshMessage(r)
    BY <1>1, <2>2 DEF RefreshMessage, Request
  <2> QED BY <2>1, <2>2
<1>5. Told(r)' = Told(r) /\ r \in Told(r)
  BY <1>1, <1>4 DEF Told, Telling
<1>6. MessageInv(r, u)'
  <2>1. RacedInv(r, u)' /\ FreshInv(r)'
    BY <1>1, <1>3 DEF MessageInv, RacedInv, FreshInv
  <2>2. ASSUME r \notin raced
        PROVE  /\ \A q \in Told(r) : q = r
               /\ Current(r) # Absent /\ Current(r) = row[r].content
    <3>1. (\A q \in Told(r) : q = r) /\ Agrees(r, r)
      BY <1>3, <1>5, <2>2 DEF MessageInv, SoleInv
    <3>2. Current(r) # Absent
      BY <1>1, <3>1 DEF Agrees
    <3> QED BY <1>1, <3>1, <3>2, RowType
  <2>3. SoleInv(r)'
    BY <1>1, <1>3, <1>4, <1>5, <2>2 DEF SoleInv, Agrees
  <2>4. ASSUME r \notin doubtful[u]
        PROVE  /\ \A q \in Told(r) : q = r
               /\ page[u].shown[r] \in {Absent, Current(r)}
    <3>1. r \notin raced
      BY <1>3, <2>4 DEF MessageInv, RacedInv
    <3> QED BY <1>1, <1>3, <1>5, <2>2, <2>4, <3>1
            DEF MessageInv, ListsInv, Follows
  <2>5. ListsInv(r, u)'
    BY <1>1, <1>3, <1>4, <1>5, <2>4 DEF ListsInv, Follows
  <2> QED BY <2>1, <2>3, <2>5 DEF MessageInv
<1> QED BY <1>1, <1>2, <1>3, <1>4, <1>6, OthersInv

\* The only handler that is telling of a message is done: the page lists what
\* the row has, or is doubtful of it.
LEMMA ToldPages ==
  ASSUME IInv, PageInv, HiddenInv', NEW r \in Requests, Telling(r), End(r),
         UNCHANGED row, NEW m \in Messages, m = req[r].msg, Sent(m),
         NEW u \in Users, u = Reader(m), Settle(r), UNCHANGED fetch,
         \A v \in Users : \A n \in Messages : n # m \/ v # u =>
           /\ page'[v].shown[n] = page[v].shown[n]
           /\ n \in doubtful'[v] <=> n \in doubtful[v],
         \/ m \in doubtful'[u]
         \/ /\ UNCHANGED doubtful
            /\ Agrees(r, m) /\ Follows(r, m, page[u].shown[m]) =>
                 page'[u].shown[m] = Current(m)
  PROVE  PageInv'
<1>1. /\ MessageInv(m, u) /\ Current(m)' = Current(m) /\ Reader(m)' = u
      /\ TypeOK
  BY DEF IInv, PageInv, Current, Reader
<1>2. /\ \A q \in Requests \ {r} : req'[q] = req[q]
      /\ req'[r].pc = "done"
  BY <1>1, EndFacts
<1>3. Told(m)' = Told(m) \ {r} /\ r \in Told(m) /\ ~Telling(r)'
  BY <1>2 DEF Told, Telling
<1>4. /\ raced' \subseteq raced
      /\ m \notin raced' => m \notin raced \/ Told(m)' = {}
      /\ PagesKept(m, u)
  BY <1>3, SettleFacts DEF PagesKept, FetchesKept
<1>5. MessageInv(m, u)'
  <2>1. SoleInv(m)'
    <3>1. CASE Told(m)' = {}
      BY <3>1 DEF SoleInv
    <3>2. CASE m \notin raced
      BY <1>1, <1>2, <1>3, <3>2 DEF MessageInv, SoleInv
    <3>3. CASE m \in raced'
      BY <3>3 DEF SoleInv
    <3> QED BY <1>4, <3>1, <3>2, <3>3
  <2>2. FreshInv(m)'
    BY <1>1 DEF MessageInv, FreshInv
  <2>3. RacedInv(m, u)'
    BY <1>1, <1>4 DEF MessageInv, RacedInv
  <2>4. ASSUME m \notin doubtful'[u]
        PROVE  Told(m)' = {} /\ page'[u].shown[m] = Current(m)
    <3>1. m \notin doubtful[u] /\ m \notin raced
      BY <1>1, <2>4 DEF MessageInv, RacedInv
    <3>2. Told(m)' = {} /\ Agrees(r, m)
      BY <1>1, <1>3, <3>1 DEF MessageInv, SoleInv
    <3>3. Follows(r, m, page[u].shown[m])
      BY <1>1, <1>3, <3>1 DEF MessageInv, ListsInv
    <3> QED BY <2>4, <3>2, <3>3
  <2>5. ListsInv(m, u)'
    BY <1>1, <2>4 DEF ListsInv
  <2> QED BY <2>1, <2>2, <2>3, <2>5 DEF MessageInv
<1> QED BY <1>1, <1>2, <1>3, <1>4, <1>5, OthersInv

\* The pushes.
LEMMA PushedPages ==
  ASSUME IInv, PageInv, HiddenInv', NEW r \in Requests,
         PushMessage(r) \/ PushEdit(r) \/ PushDelete(r)
  PROVE  PageInv'
<1>1. PICK m \in Messages : m = req[r].msg
  BY DEF IInv, RequestInv, PushMessage, PushEdit, PushDelete
<1>2. /\ TypeOK /\ Sent(m) /\ Telling(r) /\ End(r) /\ UNCHANGED row
      /\ page \in [Users -> Page] /\ req[r].text \in Texts
      /\ At(r, "push") => m = r
      /\ Settle(r) /\ UNCHANGED fetch
  BY <1>1 DEF IInv, TypeOK, RequestInv, PushMessage, PushEdit, PushDelete,
              Telling, rows, Request
<1>3. PICK u \in Users : u = Reader(m)
  BY <1>2, RowType
<1>4. /\ page[u].shown \in Listing /\ page[u].shown[m] \in Texts \union {Absent}
  BY <1>2, PageType
<1>5. ASSUME NEW shown \in Listing, Push(m, u, shown),
             \A n \in Messages \ {m} : shown[n] = page[u].shown[n],
             Agrees(r, m) /\ Follows(r, m, page[u].shown[m])
               => shown[m] = Current(m)
      PROVE  PageInv'
  BY <1>1, <1>2, <1>3, <1>5, PushPages, ToldPages
<1>6. CASE PushMessage(r)
  <2> DEFINE shown == Listed(page[u].shown, m, req[r].text)
  <2>1. Push(m, u, shown) /\ At(r, "push")
    BY <1>1, <1>2, <1>3, <1>6 DEF PushMessage
  <2>2. /\ shown \in Listing
        /\ \A n \in Messages \ {m} : shown[n] = page[u].shown[n]
        /\ shown[m] = IF page[u].shown[m] = Absent THEN req[r].text
                                                   ELSE page[u].shown[m]
    BY <1>2, <1>4 DEF Listed, Listing
  <2> HIDE DEF shown
  <2>3. Agrees(r, m) /\ Follows(r, m, page[u].shown[m])
          => shown[m] = Current(m)
    BY <2>1, <2>2 DEF Agrees, Follows
  <2> QED BY <1>5, <2>1, <2>2, <2>3
<1>7. CASE PushEdit(r)
  <2> DEFINE shown == Relisted(page[u].shown, m, r)
  <2>1. Push(m, u, shown) /\ At(r, "edit_push")
    BY <1>1, <1>3, <1>7 DEF PushEdit, Pushed
  <2>2. /\ shown \in Listing
        /\ \A n \in Messages \ {m} : shown[n] = page[u].shown[n]
        /\ shown[m] = IF page[u].shown[m] = Absent THEN Absent ELSE r
    BY <1>2, <1>4 DEF Relisted, Listing, Texts
  <2> HIDE DEF shown
  <2>3. Agrees(r, m) /\ Follows(r, m, page[u].shown[m])
          => shown[m] = Current(m)
    BY <2>1, <2>2 DEF Agrees, Follows
  <2> QED BY <1>5, <2>1, <2>2, <2>3
<1>8. CASE PushDelete(r)
  <2> DEFINE shown == [page[u].shown EXCEPT ![m] = Absent]
  <2>1. Push(m, u, shown) /\ At(r, "delete_push")
    BY <1>1, <1>3, <1>8 DEF PushDelete
  <2>2. /\ shown \in Listing
        /\ \A n \in Messages \ {m} : shown[n] = page[u].shown[n]
        /\ shown[m] = Absent
    BY <1>4 DEF Listing
  <2> HIDE DEF shown
  <2>3. Agrees(r, m) /\ Follows(r, m, page[u].shown[m])
          => shown[m] = Current(m)
    BY <2>1, <2>2 DEF Agrees, Follows
  <2> QED BY <1>5, <2>1, <2>2, <2>3
<1> QED BY <1>6, <1>7, <1>8

\* A handler stops half way: what it was telling of is doubtful.
LEMMA FailPages ==
  ASSUME IInv, PageInv, HiddenInv', NEW r \in Requests, Fail(r)
  PROVE  PageInv'
<1>1. /\ TypeOK /\ RequestInv(r) /\ End(r)
      /\ UNCHANGED <<row, hidden, pages>>
  BY DEF IInv, Fail, rows
<1>2. CASE Telling(r)
  <2>1. PICK m \in Messages : m = req[r].msg /\ Sent(m)
    BY <1>1, <1>2 DEF Telling, RequestInv
  <2>2. PICK u \in Users : u = Reader(m)
    BY <1>1, <2>1, RowType
  <2>3. /\ doubtful' = [doubtful EXCEPT ![u] = @ \union {m}]
        /\ Settle(r)
    BY <1>2, <2>1, <2>2 DEF Fail
  <2>4. /\ m \in doubtful'[u]
        /\ \A v \in Users : \A n \in Messages : n # m \/ v # u =>
             n \in doubtful'[v] <=> n \in doubtful[v]
    BY <1>1, <2>3 DEF TypeOK
  <2> QED BY <1>1, <1>2, <2>1, <2>2, <2>3, <2>4, ToldPages DEF pages
<1>3. CASE ~Telling(r)
  <2>1. /\ \A q \in Requests \ {r} : req'[q] = req[q]
        /\ req'[r].pc = "done"
    BY <1>1, EndFacts
  <2> QED BY <1>1, <1>3, <2>1, QuietPages DEF Fail, Telling
<1> QED BY <1>2, <1>3

\* An edit or a deletion is committed: the page lists the message as it was.
LEMMA ChangePages ==
  ASSUME IInv, PageInv, HiddenInv', NEW r \in Requests,
         EditMessage(r) \/ DeleteMessage(r)
  PROVE  PageInv'
<1>1. PICK m \in Messages : m = req[r].msg
  BY DEF IInv, RequestInv, EditMessage, DeleteMessage
<1>2. /\ TypeOK /\ Sent(m) /\ row[m] \in Row /\ ~Telling(r)
      /\ row \in [Messages -> Row \union {Absent}]
  BY <1>1 DEF IInv, TypeOK, RequestInv, EditMessage, DeleteMessage, Telling
<1>3. PICK u \in Users : u = Reader(m)
  BY <1>2, RowType
<1>4. /\ Outdate(m) /\ Race(m) /\ UNCHANGED page
      /\ \A n \in Messages \ {m} : row'[n] = row[n]
  BY <1>1, <1>2 DEF EditMessage, DeleteMessage
<1>5. /\ PagesKept(m, u)
      /\ \A f \in Fetches : m \notin fetch'[f].fresh
      /\ m \in raced' => m \in raced \/ m \in doubtful'[u]
      /\ m \in doubtful[u] => m \in doubtful'[u]
      /\ m \notin raced' => m \notin raced /\ Told(m) = {}
      /\ m \notin doubtful'[u] => Told(m) = {}
  <2>1. /\ FetchesKept
        /\ \A f \in Fetches : m \notin fetch'[f].fresh
    BY <1>2, <1>4, OutdateFacts DEF FetchesKept
  <2>2. CASE Told(m) = {}
    BY <1>4, <2>1, <2>2 DEF Race, PagesKept
  <2>3. CASE Told(m) # {}
    <3>1. /\ raced' = raced \union {m}
          /\ doubtful' = [doubtful EXCEPT ![u] = @ \union {m}]
          /\ doubtful \in [Users -> SUBSET Messages]
      BY <1>2, <1>3, <1>4, <2>3 DEF Race, TypeOK
    <3> QED BY <1>4, <2>1, <3>1 DEF PagesKept
  <2> QED BY <2>2, <2>3
<1>6. /\ \A q \in Requests \ {r} : req'[q] = req[q]
      /\ req'[r].msg = m
      /\ \/ EditMessage(r) /\ req'[r].pc = "edit_push"
         \/ DeleteMessage(r) /\ req'[r].pc = "delete_push"
  BY <1>1, <1>2, GotoFacts DEF EditMessage, DeleteMessage, Labels
<1>7. /\ Sent(m)' /\ Reader(m)' = u
      /\ EditMessage(r) => Current(m)' = IF row[m].deleted THEN Absent ELSE r
      /\ DeleteMessage(r) => Current(m)' = Absent
  <2>1. CASE EditMessage(r)
    <3>1. row'[m] = [row[m] EXCEPT !.content = r]
      BY <1>1, <1>2, <2>1 DEF EditMessage, Edited
    <3>2. /\ row'[m] \in Row /\ row'[m].content = r
          /\ row'[m].deleted = row[m].deleted /\ row'[m].sender = row[m].sender
      BY <1>2, <3>1 DEF Row, Texts
    <3>3. ~DeleteMessage(r)
      BY <2>1 DEF EditMessage, DeleteMessage
    <3> QED BY <1>3, <3>2, <3>3, Values DEF Reader, Current
  <2>2. CASE DeleteMessage(r)
    <3>1. row'[m] = Deleted(row[m], req[r].seen)
      BY <1>1, <1>2, <2>2 DEF DeleteMessage
    <3>2. row'[m] \in Row /\ row'[m].deleted /\ row'[m].sender = row[m].sender
      BY <1>2, <3>1 DEF Row, Texts, Deleted
    <3>3. ~EditMessage(r)
      BY <2>2 DEF EditMessage, DeleteMessage
    <3> QED BY <1>3, <3>2, <3>3, Values DEF Reader, Current
  <2> QED BY <2>1, <2>2, <1>6
<1>8. Told(m)' = Told(m) \union {r} /\ r \notin Told(m)
  BY <1>2, <1>6 DEF Told, Telling
<1>9. m \notin doubtful'[u] => page[u].shown[m] = Current(m)
  BY <1>2, <1>3, <1>5 DEF PageInv, MessageInv, ListsInv
<1>10. MessageInv(m, u)'
  <2>1. RacedInv(m, u) /\ r # Absent
    BY <1>2, <1>3, TextIs DEF PageInv, MessageInv, Texts
  <2>2. RacedInv(m, u)' /\ FreshInv(m)'
    BY <1>5, <2>1 DEF RacedInv, FreshInv
  <2>3. SoleInv(m)'
    <3> SUFFICES ASSUME m \notin raced' PROVE Told(m)' = {r} /\ Agrees(r, m)'
      BY DEF SoleInv
    <3>1. Told(m)' = {r}
      BY <1>5, <1>8
    <3> QED BY <1>6, <1>7, <3>1 DEF Agrees
  <2>4. ListsInv(m, u)'
    <3> SUFFICES ASSUME m \notin doubtful'[u]
                 PROVE  Follows(r, m, page[u].shown[m])'
      BY <1>5, <1>8 DEF ListsInv
    <3>1. page'[u].shown[m] = Current(m)
      BY <1>4, <1>9
    <3>2. Current(m) = Absent <=> row[m].deleted
      BY <1>2, RowType
    <3> QED BY <1>6, <1>7, <2>1, <3>1, <3>2 DEF Follows
  <2> QED BY <2>2, <2>3, <2>4 DEF MessageInv
<1> QED BY <1>1, <1>2, <1>3, <1>4, <1>5, <1>6, <1>7, <1>10, OthersInv

\* Requests start, look, create the conversation, and hide messages.
LEMMA SilentPages ==
  ASSUME IInv, PageInv, HiddenInv', NEW r \in Requests,
         NEW u \in Users, NEW m \in Messages,
         \/ CreateStart(r) \/ SendStart(r, u) \/ EditStart(r, u, m)
         \/ DeleteStart(r, u, m) \/ HideStart(r, u, m)
         \/ GetConversation(r) \/ CreateConversation(r)
         \/ GetDeletion(r) \/ HideMessage(r)
  PROVE  PageInv'
<1>1. /\ TypeOK /\ req \in [Requests -> Request]
      /\ row[m] \in Row \union {Absent}
  BY DEF IInv, TypeOK
<1>2. UNCHANGED <<row, pages, raced, doubtful>> /\ ~Telling(r)
  BY DEF rows, history, CreateStart, SendStart, EditStart, DeleteStart,
         HideStart, GetConversation, CreateConversation, GetDeletion,
         HideMessage, Telling, Start
<1>3. \/ CreateStart(r)
      \/ \E l \in {"insert", "edit", "delete", "hide_get"}, n \in Messages,
            x \in Row \union {Absent} : Start(r, u, l, n, x)
      \/ End(r) \/ Goto(r, "create") \/ Goto(r, "hide")
  BY <1>1 DEF SendStart, EditStart, DeleteStart, HideStart, GetConversation,
              CreateConversation, GetDeletion, HideMessage
<1>4. /\ \A q \in Requests \ {r} : req'[q] = req[q]
      /\ ~Telling(r)'
  <2>1. CASE CreateStart(r)
    BY <1>1, <2>1, GotoFacts DEF CreateStart, Labels, Telling
  <2>2. ASSUME NEW l \in {"insert", "edit", "delete", "hide_get"},
               NEW n \in Messages, NEW x \in Row \union {Absent},
               Start(r, u, l, n, x)
        PROVE  (\A q \in Requests \ {r} : req'[q] = req[q]) /\ ~Telling(r)'
    <3>1. l \in Labels
      BY DEF Labels
    <3>2. req'[r].pc = l /\ \A q \in Requests \ {r} : req'[q] = req[q]
      BY <1>1, <2>2, <3>1, StartFacts
    <3> QED BY <3>2 DEF Telling
  <2>3. CASE End(r) \/ Goto(r, "create") \/ Goto(r, "hide")
    <3>1. "create" \in Labels /\ "hide" \in Labels
      BY DEF Labels
    <3>2. /\ req'[r].pc \in {"done", "create", "hide"}
          /\ \A q \in Requests \ {r} : req'[q] = req[q]
      BY <1>1, <2>3, <3>1, EndFacts, GotoFacts
    <3> QED BY <3>2 DEF Telling
  <2> QED BY <1>3, <2>1, <2>2, <2>3
<1> QED BY <1>2, <1>4, QuietPages

\* A step of the page of u: what it lists from then on, and is not doubtful of,
\* it listed before, or is what the row has; a fetch is what it was, or has
\* just been given the history.
LEMMA UserPages ==
  ASSUME IInv, PageInv, UNCHANGED <<rows, req, raced>>, NEW u \in Users,
         \A v \in Users \ {u} : /\ page'[v].shown = page[v].shown
                               /\ doubtful'[v] = doubtful[v],
         \A n \in Messages :
           ~Sent(n) \/ u # Reader(n) => page'[u].shown[n] = Absent,
         \A n \in Messages :
           Sent(n) /\ Reader(n) = u /\ n \notin doubtful'[u] =>
             \/ /\ n \notin doubtful[u]
                /\ page'[u].shown[n] = page[u].shown[n]
             \/ n \notin raced /\ page'[u].shown[n] = Current(n),
         \A f \in Fetches : fetch'[f].pc = "given" =>
           \/ fetch'[f] = fetch[f]
           \/ \E v \in Users : /\ fetch'[f].user = v
                              /\ fetch'[f].answer = History(v)
                              /\ fetch'[f].fresh = Received(v)
  PROVE  PageInv'
<1>1. TypeOK
  BY DEF IInv
<1>2. HiddenInv' /\ UNCHANGED <<row, req>>
  BY DEF PageInv, HiddenInv, rows
<1>3. \A n \in Messages :
        /\ Told(n)' = Told(n) /\ Reader(n)' = Reader(n)
        /\ Current(n)' = Current(n)
  BY <1>2 DEF Told, Telling, Reader, Current
<1>4. ASSUME NEW v \in Users, NEW n \in Messages
      PROVE  /\ n \in Received(v) => Sent(n) /\ Reader(n) = v
             /\ History(v)[n] = IF Sent(n) /\ v = Reader(n) THEN Current(n)
                                                            ELSE Absent
  <2>1. Sent(n) /\ row[n].sender # v => Reader(n) = v
    BY <1>1, RowType, Pair DEF Reader
  <2> QED BY <1>1, <2>1, HistoryIs DEF Received, PageInv
<1>5. Elsewhere'
  <2>1. ASSUME NEW n \in Messages, NEW f \in Fetches, fetch'[f].pc = "given",
               ~Sent(n) \/ fetch'[f].user # Reader(n)
        PROVE  fetch'[f].answer[n] = Absent /\ n \notin fetch'[f].fresh
    <3>1. CASE fetch'[f] = fetch[f]
      BY <2>1, <3>1 DEF PageInv, Elsewhere
    <3>2. ASSUME NEW v \in Users, fetch'[f].user = v,
                 fetch'[f].answer = History(v), fetch'[f].fresh = Received(v)
          PROVE  fetch'[f].answer[n] = Absent /\ n \notin fetch'[f].fresh
      BY <1>4, <2>1, <3>2
    <3> QED BY <2>1, <3>1, <3>2
  <2> QED BY <1>2, <1>3, <2>1 DEF PageInv, Elsewhere
<1>6. ASSUME NEW n \in Messages, Sent(n)
      PROVE  MessageInv(n, Reader(n))'
  <2>1. PICK v \in Users : v = Reader(n)
    BY <1>1, <1>6, RowType
  <2>2. MessageInv(n, v)
    BY <1>6, <2>1 DEF PageInv
  <2>3. SoleInv(n)'
    BY <1>2, <1>3, <2>2 DEF MessageInv, SoleInv, Agrees
  <2>4. FreshInv(n)'
    <3> SUFFICES ASSUME NEW f \in Fetches, fetch'[f].pc = "given",
                        n \in fetch'[f].fresh
                 PROVE  fetch'[f].answer[n] = Current(n)
      BY <1>3 DEF FreshInv
    <3>1. CASE fetch'[f] = fetch[f]
      BY <2>2, <3>1 DEF MessageInv, FreshInv
    <3> QED BY <1>4, <3>1
  <2>5. RacedInv(n, v)'
    BY <1>6, <2>1, <2>2 DEF MessageInv, RacedInv
  <2>6. ListsInv(n, v)'
    <3> SUFFICES ASSUME n \notin doubtful'[v]
                 PROVE  /\ Told(n) = {} => page'[v].shown[n] = Current(n)
                        /\ \A r \in Told(n) :
                             Follows(r, n, page[v].shown[n])'
      BY <1>3 DEF ListsInv
    <3>1. CASE n \notin doubtful[v] /\ page'[v].shown[n] = page[v].shown[n]
      BY <1>2, <1>3, <2>2, <3>1 DEF MessageInv, ListsInv, Follows
    <3>2. CASE n \notin raced /\ page'[v].shown[n] = Current(n)
      BY <1>2, <1>3, <3>2 DEF Follows
    <3> QED BY <1>6, <2>1, <3>1, <3>2
  <2>7. MessageInv(n, v)'
    BY <2>3, <2>4, <2>5, <2>6 DEF MessageInv
  <2> QED BY <1>3, <2>1, <2>7
<1> QED BY <1>2, <1>5, <1>6 DEF PageInv

\* A page views, loads, lists and leaves the conversation.
LEMMA ClientPages ==
  ASSUME IInv, PageInv,
         \/ \E u \in Users : Client(u)
         \/ \E f \in Fetches : Loading(f)
  PROVE  PageInv'
<1>1. /\ page \in [Users -> Page] /\ fetch \in [Fetches -> Fetch]
      /\ doubtful \in [Users -> SUBSET Messages]
      /\ NoFetch.pc = "idle" /\ \A n \in Messages : Nothing[n] = Absent
      /\ TypeOK
  BY DEF IInv, TypeOK, NoFetch, Nothing
<1>2. \A u \in Users, n \in Messages :
        ~Sent(n) \/ u # Reader(n) => page[u].shown[n] = Absent
  BY DEF PageInv, Elsewhere
<1>3. ASSUME NEW u \in Users, NEW n \in Messages, Sent(n), Reader(n) = u
      PROVE  n \in Received(u)
  <2>1. row[n].sender \in Users
    BY <1>1, <1>3, RowType
  <2> QED BY <1>3, <2>1, Pair DEF Received, Reader
<1>4. ASSUME NEW u \in Users, NEW b \in BOOLEAN, View(u, b)
      PROVE  \A v \in Users : page'[v].shown = page[v].shown
  <2>1. /\ \A v \in Users \ {u} : page'[v] = page[v]
        /\ page'[u] = [page[u] EXCEPT !.viewing = b] /\ page[u] \in Page
    BY <1>1, <1>4 DEF View
  <2> QED BY <2>1 DEF Page
<1>5. ASSUME NEW u \in Users, NEW b \in BOOLEAN, Emptied(u, b)
      PROVE  /\ \A v \in Users \ {u} : /\ page'[v].shown = page[v].shown
                                       /\ doubtful'[v] = doubtful[v]
             /\ page'[u].shown = Nothing /\ doubtful'[u] = Received(u)
  BY <1>1, <1>5 DEF Emptied
<1>6. ASSUME NEW f \in Fetches, Finish(f)
      PROVE  \A g \in Fetches : fetch'[g].pc = "given" => fetch'[g] = fetch[g]
  BY <1>1, <1>6 DEF Finish
<1>7. ASSUME NEW f \in Fetches, NEW u \in Users,
             NEW what \in {"asked", "other"}, Ask(u, f, what)
      PROVE  \A g \in Fetches : fetch'[g].pc = "given" => fetch'[g] = fetch[g]
  <2> DEFINE x == [fetch[f] EXCEPT !.pc = what, !.user = u]
  <2>1. x.pc = what
    BY <1>1 DEF Fetch
  <2>2. fetch' = [fetch EXCEPT ![f] = x]
    BY <1>7 DEF Ask
  <2> HIDE DEF x
  <2> QED BY <1>1, <2>1, <2>2
<1>8. ASSUME NEW u \in Users, Client(u) PROVE PageInv'
  <2>1. UNCHANGED <<rows, req, raced>>
    BY <1>8 DEF Client, OpenConversation, OpenOther, CloseConversation,
                LeavePage, history
  <2>2. ASSUME NEW f \in Fetches, OpenConversation(u, f) \/ OpenOther(u, f)
        PROVE  PageInv'
    <3>1. /\ \A v \in Users : page'[v].shown = page[v].shown
          /\ UNCHANGED doubtful
          /\ \A g \in Fetches : fetch'[g].pc = "given" => fetch'[g] = fetch[g]
      BY <1>4, <1>7, <2>2 DEF OpenConversation, OpenOther, history
    <3> QED BY <1>2, <2>1, <3>1, UserPages
  <2>3. CASE CloseConversation(u) \/ LeavePage(u)
    <3>1. Emptied(u, FALSE)
      BY <2>3 DEF CloseConversation, LeavePage
    <3>2. \A g \in Fetches : fetch'[g].pc = "given" => fetch'[g] = fetch[g]
      <4>1. CASE CloseConversation(u)
        BY <4>1 DEF CloseConversation
      <4>2. CASE LeavePage(u)
        <5>1. fetch' = [f \in Fetches |->
                          IF fetch[f].user = u THEN NoFetch ELSE fetch[f]]
          BY <4>2 DEF LeavePage
        <5> QED BY <1>1, <5>1
      <4> QED BY <2>3, <4>1, <4>2
    <3>3. /\ \A v \in Users \ {u} : /\ page'[v].shown = page[v].shown
                                    /\ doubtful'[v] = doubtful[v]
          /\ page'[u].shown = Nothing /\ doubtful'[u] = Received(u)
      BY <1>5, <3>1
    <3> QED BY <1>1, <1>3, <2>1, <3>2, <3>3, UserPages
  <2> QED BY <1>8, <2>2, <2>3 DEF Client
<1>9. ASSUME NEW f \in Fetches, Loading(f) PROVE PageInv'
  <2>1. UNCHANGED <<rows, req, raced>>
    BY <1>9 DEF Loading, ReadHistory, ListHistory, ListOther, FetchFails,
                history
  <2>2. PICK u \in Users : u = fetch[f].user
    BY <1>9 DEF IInv, FetchInv, Loading, ReadHistory, ListHistory,
                ListOther, FetchFails
  <2>3. CASE ReadHistory(f)
    <3> DEFINE x == [fetch[f] EXCEPT !.pc = "given", !.answer = History(u),
                                     !.fresh = Received(u)]
    <3>1. /\ x.user = u /\ x.answer = History(u) /\ x.fresh = Received(u)
      BY <1>1, <2>2 DEF Fetch
    <3>2. fetch' = [fetch EXCEPT ![f] = x] /\ UNCHANGED <<page, doubtful>>
      BY <2>2, <2>3 DEF ReadHistory, history
    <3> HIDE DEF x
    <3>3. \A g \in Fetches : fetch'[g] = fetch[g] \/ fetch'[g] = x
      BY <1>1, <3>2
    <3> QED BY <1>2, <2>1, <3>1, <3>2, <3>3, UserPages
  <2>4. CASE ListHistory(f)
    <3>1. /\ \A v \in Users \ {u} : /\ page'[v] = page[v]
                                    /\ doubtful'[v] = doubtful[v]
          /\ page'[u] = [page[u] EXCEPT !.shown = fetch[f].answer]
          /\ doubtful'[u] = Received(u) \ (fetch[f].fresh \ raced)
          /\ fetch[f].pc = "given" /\ Finish(f) /\ page[u] \in Page
      BY <1>1, <2>2, <2>4 DEF ListHistory
    <3>2. page'[u].shown = fetch[f].answer
      BY <3>1 DEF Page
    <3>3. \A n \in Messages :
            ~Sent(n) \/ u # Reader(n) => page'[u].shown[n] = Absent
      BY <2>2, <3>1, <3>2 DEF PageInv, Elsewhere
    <3>4. ASSUME NEW n \in Messages, Sent(n), Reader(n) = u,
                 n \notin doubtful'[u]
          PROVE  n \notin raced /\ page'[u].shown[n] = Current(n)
      <4>1. n \in fetch[f].fresh /\ n \notin raced
        BY <1>3, <3>1, <3>4
      <4> QED BY <3>1, <3>2, <3>4, <4>1 DEF PageInv, MessageInv, FreshInv
    <3> QED BY <1>6, <2>1, <3>1, <3>3, <3>4, UserPages
  <2>5. CASE ListOther(f)
    <3>1. Emptied(u, page[u].viewing) /\ page[u].viewing \in BOOLEAN
          /\ Finish(f)
      BY <1>1, <2>2, <2>5 DEF ListOther, Page
    <3> QED BY <1>1, <1>3, <1>5, <1>6, <2>1, <3>1, UserPages
  <2>6. CASE FetchFails(f)
    <3>1. UNCHANGED <<page, doubtful>> /\ Finish(f)
      BY <2>6 DEF FetchFails, history
    <3> QED BY <1>2, <1>6, <2>1, <3>1, UserPages
  <2> QED BY <1>9, <2>3, <2>4, <2>5, <2>6 DEF Loading
<1> QED BY <1>8, <1>9

-----------------------------------------------------------------------------
(* Theorems *)

\* Rows, handlers and the last message fit together in every state.
THEOREM Invariance == Spec => []IInv
<1>1. ASSUME IInv, [Next]_vars
      PROVE  IInv'
  <2>1. ASSUME NEW r \in Requests, Step(r) PROVE IInv'
    BY <1>1, <2>1, StepInv, ChangeInv, InsertInv, LinkInv, FailInv DEF Step
  <2>2. Readers \subseteq Users /\ Users # {}
    BY ChatAssumption
  <2>3. ASSUME NEW r \in Requests, CreateStart(r) PROVE IInv'
    BY <1>1, <2>2, <2>3, StartInv
  <2> QED BY <1>1, <2>1, <2>2, <2>3, StartInv, ClientInv DEF Next
<1> QED BY <1>1, InitInv, PTL DEF Spec

\* The history of a conversation can be served whatever edits and deletions of
\* a message overlap: a message that would be listed has a content.
THEOREM HistoryServable == Spec => []RowsAreServable
<1>1. IInv => RowsAreServable
  BY DEF IInv, RowsAreServable, HistoryIsServable, TextInv, Shown
<1> QED BY <1>1, Invariance, PTL

\* last_message_id is the newest message, up to those stored while another was
\* on its way to become it.
THEOREM LastMessageCorrect == Spec => []LastMessageIsRecent
<1>1. IInv => LastMessageIsRecent
  BY DEF IInv
<1> QED BY <1>1, Invariance, PTL

\* A page shows what the history would give, of every message whose handlers
\* have pushed what they did, unless it has a reason to be doubtful of it.
THEOREM PagesAgree == Spec => []PagesAgreeUnlessRaced
<1>1. Init => PageInv
  BY DEF Init, PageInv, HiddenInv, Elsewhere, Nothing, Idle, NoFetch
<1>2. ASSUME IInv, PageInv, [Next]_vars
      PROVE  PageInv'
  <2>1. CASE UNCHANGED vars
    BY <1>2, <2>1, QuietPages
       DEF vars, rows, history, PageInv, HiddenInv
  <2>2. CASE Next
    <3>1. HiddenInv'
      BY <1>2, <2>2, HiddenStep DEF PageInv
    <3>2. ASSUME NEW r \in Requests, Step(r) PROVE PageInv'
      <4>1. PICK u \in Users : TRUE
        BY ChatAssumption
      <4> QED BY <1>2, <3>1, <3>2, <4>1, InsertPages, TellerPages, PushedPages,
                 FailPages, ChangePages, SilentPages DEF Step
    <3>3. Readers \subseteq Users
      BY ChatAssumption
    <3>4. Requests # {} => \A r \in Requests : CreateStart(r) => PageInv'
      <4>1. PICK u \in Users : TRUE
        BY ChatAssumption
      <4> QED BY <1>2, <3>1, <4>1, SilentPages
    <3> QED BY <1>2, <2>2, <3>1, <3>2, <3>3, <3>4, SilentPages, ClientPages
            DEF Next
  <2> QED BY <1>2, <2>1, <2>2
<1>3. ASSUME IInv, PageInv
      PROVE  PagesAgreeUnlessRaced
  <2> SUFFICES ASSUME NEW u \in Users, NEW m \in Messages, Told(m) = {},
                      m \notin doubtful[u]
               PROVE  page[u].shown[m] = History(u)[m]
    BY DEF PagesAgreeUnlessRaced
  <2>1. History(u)[m] = IF Sent(m) /\ u = Reader(m) THEN Current(m) ELSE Absent
    BY <1>3, HistoryIs DEF IInv, PageInv
  <2> QED BY <1>3, <2>1 DEF PageInv, Elsewhere, MessageInv, ListsInv
<1> QED BY <1>1, <1>2, <1>3, Invariance, PTL DEF Spec

-----------------------------------------------------------------------------
(* The conversation is what ChatLedger promises *)

\* All but five steps leave the rows of the conversation alone.
LEMMA RowsMove ==
  ASSUME Next
  PROVE  \/ UNCHANGED <<created, row, hidden>>
         \/ \E r \in Requests :
              \/ CreateConversation(r) \/ HideMessage(r)
              \/ InsertMessage(r) \/ EditMessage(r) \/ DeleteMessage(r)
<1> DEFINE Quiet == UNCHANGED <<created, row, hidden>>
<1>1. ASSUME NEW r \in Requests,
             \/ GetConversation(r) \/ LinkMessage(r) \/ RefreshMessage(r)
             \/ PushMessage(r) \/ PushEdit(r) \/ PushDelete(r)
             \/ GetDeletion(r) \/ Fail(r)
      PROVE  Quiet
  BY <1>1 DEF rows, GetConversation, LinkMessage, RefreshMessage, PushMessage,
              PushEdit, PushDelete, GetDeletion, Fail
<1>2. ASSUME \/ \E u \in Readers : Client(u)
             \/ \E f \in Fetches : Loading(f)
      PROVE  Quiet
  BY <1>2, ClientKeeps, ChatAssumption DEF rows
<1>3. ASSUME NEW r \in Requests,
             CreateStart(r) \/ \E u \in Users : SendStart(r, u)
      PROVE  Quiet
  BY <1>3 DEF rows, CreateStart, SendStart
<1>4. ASSUME NEW r \in Requests, NEW u \in Users, NEW m \in Messages,
             EditStart(r, u, m) \/ DeleteStart(r, u, m) \/ HideStart(r, u, m)
      PROVE  Quiet
  BY <1>4 DEF rows, EditStart, DeleteStart, HideStart
<1> HIDE DEF Quiet
<1>5. Quiet \/ \E r \in Requests : Step(r)
  BY <1>2, <1>3, <1>4 DEF Next
<1>6. CASE Quiet
  BY <1>6 DEF Quiet
<1>7. ASSUME NEW r \in Requests, Step(r)
      PROVE  \/ Quiet
             \/ CreateConversation(r) \/ HideMessage(r)
             \/ InsertMessage(r) \/ EditMessage(r) \/ DeleteMessage(r)
  BY <1>1, <1>7 DEF Step
<1> QED BY <1>5, <1>6, <1>7

\* There is a conversation when a message of it is to be stored.
BegunInv == \A r \in Requests : At(r, "insert") => created

LEMMA BegunStep ==
  ASSUME IInv, BegunInv, Next
  PROVE  BegunInv'
<1>1. created' = created \/ created' = TRUE
  BY RowsMove DEF CreateConversation, InsertMessage, EditMessage, DeleteMessage,
                  HideMessage
<1>2. TypeOK /\ req \in [Requests -> Request]
  BY DEF IInv, TypeOK
<1>3. ASSUME NEW r \in Requests,
             \A q \in Requests \ {r} : req'[q] = req[q],
             req'[r].pc = "insert" => created
      PROVE  BegunInv'
  BY <1>1, <1>3 DEF BegunInv
<1>4. ASSUME NEW r \in Requests, Step(r) PROVE BegunInv'
  <2>1. ASSUME NEW l \in Labels \ {"insert"}, Goto(r, l) PROVE BegunInv'
    BY <1>2, <1>3, <2>1, GotoFacts
  <2>2. ASSUME End(r) PROVE BegunInv'
    BY <1>2, <1>3, <2>2, EndFacts
  <2>3. CASE RefreshMessage(r)
    BY <1>2, <1>3, <2>3 DEF RefreshMessage
  <2> QED
    BY <1>4, <2>1, <2>2, <2>3
       DEF Step, GetConversation, CreateConversation, InsertMessage,
           LinkMessage, PushMessage, EditMessage, PushEdit, DeleteMessage,
           PushDelete, GetDeletion, HideMessage, Fail, Labels
<1>5. CASE \/ \E u \in Readers : Client(u)
           \/ \E f \in Fetches : Loading(f)
  BY <1>1, <1>5, ClientKeeps, ChatAssumption DEF BegunInv
<1>6. ASSUME NEW r \in Requests,
             CreateStart(r) \/ \E u \in Users : SendStart(r, u)
      PROVE  BegunInv'
  <2>1. CASE CreateStart(r)
    BY <1>2, <1>3, <2>1, GotoFacts DEF CreateStart, Labels
  <2>2. ASSUME NEW u \in Users, SendStart(r, u) PROVE BegunInv'
    <3>1. created /\ Start(r, u, "insert", r, Absent)
      BY <2>2 DEF SendStart
    <3> QED BY <1>2, <1>3, <3>1, StartFacts DEF Labels
  <2> QED BY <1>6, <2>1, <2>2
<1>7. ASSUME NEW r \in Requests, NEW u \in Users, NEW m \in Messages,
             EditStart(r, u, m) \/ DeleteStart(r, u, m) \/ HideStart(r, u, m)
      PROVE  BegunInv'
  <2>1. PICK l \in {"edit", "delete", "hide_get"}, x \in Row \union {Absent} :
          Start(r, u, l, m, x)
    BY <1>2, <1>7 DEF TypeOK, EditStart, DeleteStart, HideStart
  <2> QED BY <1>2, <1>3, <2>1, StartFacts DEF Labels
<1> QED BY <1>4, <1>5, <1>6, <1>7 DEF Next

\* What neither a row says nor the columns that the ledger looks at is no
\* concern of the ledger.
LEMMA StutterStep ==
  ASSUME UNCHANGED <<created, hidden>>,
         \A m \in Messages : /\ Stage(m)' = Stage(m)
                             /\ Author(m)' = Author(m)
                             /\ Readable(m)' = Readable(m)
  PROVE  UNCHANGED Ledger!vars
BY DEF Ledger!vars

\* The INSERT sends the message of its request, in the conversation there is.
LEMMA InsertSends ==
  ASSUME IInv, BegunInv, NEW r \in Requests, InsertMessage(r)
  PROVE  \E u \in Users : Ledger!Send(r, u)
<1> DEFINE u == req[r].user
           x == [sender |-> u, content |-> r, deleted |-> FALSE]
<1>1. /\ row \in [Messages -> Row \union {Absent}] /\ row[r] = Absent
      /\ u \in Users /\ created /\ UNCHANGED <<created, hidden>>
  BY DEF IInv, TypeOK, RequestInv, InsertMessage, BegunInv
<1>2. x \in Row /\ x.sender = u /\ x.content = r /\ x.deleted = FALSE
  BY <1>1 DEF Row, Texts
<1>3. row' = [row EXCEPT ![r] = x]
  BY DEF InsertMessage
<1> HIDE DEF u, x
<1>4. /\ row'[r] = x /\ x # Absent
      /\ \A n \in Messages \ {r} : row'[n] = row[n]
  BY <1>1, <1>2, <1>3, Values
<1>5. /\ Stage(r) = "unsent" /\ Stage(r)' = "sent"
      /\ Author(r)' = u /\ Readable(r)' = r
  BY <1>1, <1>2, <1>4 DEF Stage, Author, Readable
<1>6. \A n \in Messages \ {r} : /\ Stage(n)' = Stage(n)
                                /\ Author(n)' = Author(n)
                                /\ Readable(n)' = Readable(n)
  BY <1>4 DEF Stage, Author, Readable
<1>7. Ledger!Send(r, u)
  BY <1>1, <1>5, <1>6 DEF Ledger!Send
<1> QED BY <1>1, <1>7

\* The UPDATE of an edit gives a message its text, if it can be read at all.
LEMMA EditEdits ==
  ASSUME IInv, NEW r \in Requests, EditMessage(r)
  PROVE  \/ UNCHANGED Ledger!vars
         \/ \E m, t \in Messages : Ledger!Edit(m, t)
<1>1. PICK m \in Messages : m = req[r].msg /\ Sent(m)
  BY DEF EditMessage, IInv, RequestInv
<1>2. /\ row \in [Messages -> Row \union {Absent}] /\ row[m] \in Row
      /\ UNCHANGED <<created, hidden>>
  BY <1>1 DEF IInv, TypeOK, EditMessage
<1> DEFINE x == [row[m] EXCEPT !.content = r]
<1>3. /\ x \in Row /\ x.sender = row[m].sender /\ x.content = r
      /\ x.deleted = row[m].deleted
  BY <1>2 DEF Row, Texts
<1>4. row' = [row EXCEPT ![m] = x]
  BY <1>1 DEF EditMessage, Edited
<1> HIDE DEF x
<1>5. /\ row'[m] = x /\ x # Absent
      /\ \A n \in Messages \ {m} : row'[n] = row[n]
  BY <1>2, <1>3, <1>4, Values
<1>6. Stage(m)' = Stage(m) /\ Author(m)' = Author(m)
  BY <1>1, <1>3, <1>5 DEF Stage, Author
<1>7. \A n \in Messages \ {m} : /\ Stage(n)' = Stage(n)
                                /\ Author(n)' = Author(n)
                                /\ Readable(n)' = Readable(n)
  BY <1>5 DEF Stage, Author, Readable
<1>8. CASE Stage(m) = "sent"
  <2>1. Readable(m)' = r
    BY <1>3, <1>5, <1>6, <1>8 DEF Readable
  <2>2. Ledger!Edit(m, r)
    BY <1>2, <1>6, <1>7, <1>8, <2>1 DEF Ledger!Edit
  <2> QED BY <2>2
<1>9. CASE Stage(m) # "sent"
  <2>1. Readable(m)' = Readable(m)
    BY <1>6, <1>9 DEF Readable
  <2> QED BY <1>2, <1>6, <1>7, <2>1, StutterStep
<1> QED BY <1>8, <1>9

\* The UPDATE of a deletion takes a message back from everyone, once.
LEMMA DeleteDeletes ==
  ASSUME IInv, NEW r \in Requests, DeleteMessage(r)
  PROVE  UNCHANGED Ledger!vars \/ \E m \in Messages : Ledger!Delete(m)
<1>1. PICK m \in Messages : m = req[r].msg /\ Sent(m)
  BY DEF DeleteMessage, IInv, RequestInv
<1>2. /\ row \in [Messages -> Row \union {Absent}] /\ row[m] \in Row
      /\ UNCHANGED <<created, hidden>>
  BY <1>1 DEF IInv, TypeOK, DeleteMessage
<1> DEFINE x == Deleted(row[m], req[r].seen)
<1>3. x \in Row /\ x.sender = row[m].sender /\ x.deleted = TRUE
  BY <1>2 DEF Row, Texts, Deleted
<1>4. row' = [row EXCEPT ![m] = x]
  BY <1>1 DEF DeleteMessage
<1> HIDE DEF x
<1>5. /\ row'[m] = x /\ x # Absent
      /\ \A n \in Messages \ {m} : row'[n] = row[n]
  BY <1>2, <1>3, <1>4, Values
<1>6. /\ Stage(m) \in {"sent", "deleted"} /\ Stage(m)' = "deleted"
      /\ Author(m)' = Author(m) /\ Readable(m)' = Absent
  BY <1>1, <1>3, <1>5 DEF Stage, Author, Readable
<1>7. \A n \in Messages \ {m} : /\ Stage(n)' = Stage(n)
                                /\ Author(n)' = Author(n)
                                /\ Readable(n)' = Readable(n)
  BY <1>5 DEF Stage, Author, Readable
<1>8. CASE Stage(m) = "sent"
  <2>1. Ledger!Delete(m)
    BY <1>2, <1>6, <1>7, <1>8 DEF Ledger!Delete
  <2> QED BY <2>1
<1>9. CASE Stage(m) = "deleted"
  <2>1. Readable(m) = Absent
    BY <1>9 DEF Readable
  <2> QED BY <1>2, <1>6, <1>7, <1>9, <2>1, StutterStep
<1> QED BY <1>6, <1>8, <1>9

\* What is hidden is hidden from the author of the message.
LEMMA HideHides ==
  ASSUME IInv, HiddenInv, NEW r \in Requests, HideMessage(r)
  PROVE  \E m \in Messages : Ledger!Hide(m)
<1>1. PICK m \in Messages : /\ m = req[r].msg /\ Sent(m)
                            /\ row[m].sender = req[r].user
  BY DEF HideMessage, IInv, RequestInv, HiddenInv
<1>2. /\ UNCHANGED <<created, row>>
      /\ hidden' = hidden \union {<<m, Author(m)>>}
  BY <1>1 DEF HideMessage, Author
<1>3. Stage(m) # "unsent"
  BY <1>1 DEF Stage
<1>4. Ledger!Hide(m)
  BY <1>2, <1>3 DEF Ledger!Hide, Stage, Author, Readable
<1> QED BY <1>4

\* Every step is one of the ledger, or none.
LEMMA StepImplements ==
  ASSUME IInv, HiddenInv, BegunInv, [Next]_vars
  PROVE  [Ledger!Next]_Ledger!vars
<1>1. CASE UNCHANGED <<created, row, hidden>>
  BY <1>1, StutterStep DEF Stage, Author, Readable
<1>2. ASSUME NEW r \in Requests, CreateConversation(r)
      PROVE  Ledger!Next
  BY <1>2 DEF CreateConversation, Ledger!Next, Ledger!Begin, Stage, Author,
              Readable
<1>3. ASSUME NEW r \in Requests,
             InsertMessage(r) \/ EditMessage(r) \/ DeleteMessage(r)
               \/ HideMessage(r)
      PROVE  [Ledger!Next]_Ledger!vars
  <2>1. r \in Messages
    OBVIOUS
  <2> QED
    BY <1>3, <2>1, InsertSends, EditEdits, DeleteDeletes, HideHides
       DEF Ledger!Next
<1>4. CASE UNCHANGED vars
  BY <1>1, <1>4 DEF vars, rows
<1> QED BY <1>1, <1>2, <1>3, <1>4, RowsMove

LEMMA InitImplements == Init => Ledger!Init
BY DEF Init, Nothing, Ledger!Init, Stage, Author, Readable

\* Handlers that overlap, each with a row loaded before the others wrote, do
\* to the messages of a conversation what ChatLedger allows: none is sent
\* twice, read after it was deleted for everyone, or hidden from its reader.
THEOREM LedgerImplemented == Spec => ImplementsLedger
<1>1. Init => HiddenInv /\ BegunInv
  BY DEF Init, Idle, HiddenInv, BegunInv
<1>2. ASSUME IInv, HiddenInv, BegunInv, [Next]_vars
      PROVE  HiddenInv' /\ BegunInv'
  <2>1. CASE UNCHANGED vars
    BY <1>2, <2>1 DEF vars, rows, HiddenInv, BegunInv
  <2> QED BY <1>2, <2>1, HiddenStep, BegunStep
<1> USE DEF Spec, ImplementsLedger, Ledger!Spec
<1> QED BY <1>1, <1>2, InitImplements, StepImplements, Invariance, PTL
=============================================================================
