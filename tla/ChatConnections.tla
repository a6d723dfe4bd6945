-------------------------- MODULE ChatConnections --------------------------
(***************************************************************************)
(* The WebSocket connections of the chat-server and the presence keys      *)
(* user:active:{user} it keeps in Redis.  Each connection has a coroutine  *)
(* that registers it, handles its events one at a time and removes it.     *)
(* A message is sent by walking a list of connections with an await at     *)
(* every send, and the list walked is the live one: other coroutines       *)
(* append to it and remove from it meanwhile.  A list is named after the   *)
(* connection it was made for; the dict active_connections is the sequence *)
(* of its lists, in insertion order.                                       *)
(***************************************************************************)
EXTENDS SequencesExt

CONSTANTS
  Users,
  Conns,      \* the WebSockets that may be opened, once each
  UserOf(_),  \* the user of the token a connection presents
  MaxEvents   \* bound on the events the handlers serve

ASSUME ConnectionAssumption ==
  /\ \A c \in Conns : UserOf(c) \in Users
  /\ MaxEvents \in Nat

VARIABLES
  dict,     \* active_connections: the lists it holds, one per connected user
  list,     \* the connections in each list
  online,   \* the users whose presence key exists
  co,       \* the coroutine of each connection
  events,   \* events served so far
  shifted,  \* history: coroutines that walk a list something was removed from
  lost      \* history: users whose key the server failed to delete

vars == <<dict, list, online, co, events, shifted, lost>>

Walking    == {"announce", "send", "withdraw"}
Registered == {"set_active", "announce", "open", "send"}
Labels     == Registered \union {"new", "set_inactive", "withdraw", "closed"}

\* walk: the lists left to walk, the first from position idx on; to: the users
\* to send to afterwards; due: the connections listed when the walk began;
\* sent: those a send was tried on.
Coroutine == [pc : Labels, walk : Seq(Conns), idx : Nat \ {0}, to : Seq(Users),
              due : SUBSET Conns, sent : SUBSET Conns]
Resting(label) == [pc |-> label, walk |-> <<>>, idx |-> 1, to |-> <<>>,
                   due |-> {}, sent |-> {}]

TypeOK ==
  /\ dict \in Seq(Conns) /\ list \in [Conns -> Seq(Conns)]
  /\ online \in SUBSET Users /\ lost \in SUBSET Users
  /\ co \in [Conns -> Coroutine]
  /\ events \in 0..MaxEvents
  /\ shifted \in SUBSET Conns

Init ==
  /\ dict = <<>> /\ list = [c \in Conns |-> <<>>]
  /\ online = {} /\ lost = {} /\ shifted = {} /\ events = 0
  /\ co = [c \in Conns |-> Resting("new")]

At(c, label)   == co[c].pc = label
Rest(c, label) == co' = [co EXCEPT ![c] = Resting(label)]

\* The list of a user, as a sequence of at most one list.
ListsOf(u) ==
  LET mine == {h \in ToSet(dict) : UserOf(h) = u}
  IN IF mine = {} THEN <<>> ELSE <<CHOOSE h \in mine : TRUE>>

\* The keys that have a time to live: all, as set_active gives ex=60.
WithoutExpiry(keys) == {}
Expiring(keys)      == keys

\* The keys that set_inactive leaves.
WentOffline(u) == online \ {u}

PutsFirst(l, c) == <<c>> \o l
Added(l, c)     == Append(l, c)

\* A sequence without the first of its elements that is e.
Without(s, e) ==
  RemoveAt(s, CHOOSE i \in DOMAIN s : s[i] = e /\ \A j \in 1..(i-1) : s[j] # e)

KeepsEmpty(c, h) == dict
Kept(c, h)       == IF list[h] = <<c>> THEN Without(dict, h) ELSE dict

StartWalk(c, label, lists, to) ==
  /\ co' = [co EXCEPT ![c] =
       [pc |-> label, walk |-> lists, idx |-> 1, to |-> to, sent |-> {},
        due |-> UNION {ToSet(list[h]) : h \in ToSet(lists)}]]
  /\ shifted' = shifted \ {c}

-----------------------------------------------------------------------------
(* connect *)

Connect(c) ==
  LET mine == ListsOf(UserOf(c)) IN
  /\ At(c, "new")
  /\ IF mine = <<>>
       THEN /\ dict' = Append(dict, c)
            /\ list' = [list EXCEPT ![c] = <<c>>]
            /\ Rest(c, "set_active")
       ELSE /\ list' = [list EXCEPT ![mine[1]] = Added(@, c)]
            /\ Rest(c, "open")
            /\ UNCHANGED dict
  /\ UNCHANGED <<online, events, shifted, lost>>

SetActive(c) ==
  /\ At(c, "set_active")
  /\ online' = online \union {UserOf(c)}
  /\ StartWalk(c, "announce", dict, <<>>)
  /\ UNCHANGED <<dict, list, events, lost>>

SetActiveFails(c) ==
  /\ At(c, "set_active")
  /\ Rest(c, "open")
  /\ UNCHANGED <<dict, list, online, events, shifted, lost>>

(* disconnect: the client is gone and the coroutine was waiting for an event *)

Disconnect(c) ==
  \E h \in ToSet(ListsOf(UserOf(c))) :
    /\ At(c, "open")
    /\ dict' = Kept(c, h)
    /\ list' = [list EXCEPT ![h] = Without(@, c)]
    /\ Rest(c, IF list[h] = <<c>> THEN "set_inactive" ELSE "closed")
    /\ shifted' = shifted \union {d \in Conns : c \in co[d].due}
    /\ UNCHANGED <<online, events, lost>>

SetInactive(c) ==
  /\ At(c, "set_inactive")
  /\ online' = WentOffline(UserOf(c))
  /\ StartWalk(c, "withdraw", dict, <<>>)
  /\ UNCHANGED <<dict, list, events, lost>>

SetInactiveFails(c) ==
  /\ At(c, "set_inactive")
  /\ lost' = lost \union {UserOf(c)}
  /\ Rest(c, "closed")
  /\ UNCHANGED <<dict, list, online, events, shifted>>

-----------------------------------------------------------------------------
(* the event handlers: chat.message goes to the partner, message.edit and   *)
(* message.delete to the partner and back, deletion for oneself only back   *)

HandleEvent(c) ==
  /\ At(c, "open")
  /\ events < MaxEvents
  /\ events' = events + 1
  /\ \E v \in Users \ {UserOf(c)} :
       \E to \in {<<v>>, <<v, UserOf(c)>>, <<UserOf(c)>>} :
          StartWalk(c, "send", ListsOf(to[1]), Tail(to))
  /\ UNCHANGED <<dict, list, online, lost>>

\* A walk is at a position of its first list, and has all of the others left.
From(c, j) == IF j = 1 THEN co[c].idx ELSE 1

\* Whether a list of a walk has connections left, and a walk of one list only.
LeftInFirst(c, j) == j = 1 /\ From(c, j) <= Len(list[co[c].walk[j]])
Left(c, j)        == From(c, j) <= Len(list[co[c].walk[j]])

\* The list in which a walk goes on, and the connection it comes to.
Ahead(c)     == {j \in DOMAIN co[c].walk :
                   Left(c, j) /\ \A i \in 1..(j-1) : ~Left(c, i)}
Coming(c, j) == list[co[c].walk[j]][From(c, j)]

Done(c) == co[c].pc \in Walking /\ \A j \in DOMAIN co[c].walk : ~Left(c, j)

\* One send, which may raise: that is only logged.
AfterSend(c, j) ==
  [co[c] EXCEPT !.walk = SubSeq(co[c].walk, j, Len(co[c].walk)),
                !.idx = From(c, j) + 1,
                !.sent = co[c].sent \union {Coming(c, j)}]

Send(c) ==
  /\ co[c].pc \in Walking
  /\ \E j \in Ahead(c) : co' = [co EXCEPT ![c] = AfterSend(c, j)]
  /\ UNCHANGED <<dict, list, online, events, shifted, lost>>

Finish(c) ==
  /\ Done(c)
  /\ IF co[c].to # <<>>
       THEN StartWalk(c, "send", ListsOf(co[c].to[1]), Tail(co[c].to))
       ELSE /\ Rest(c, IF At(c, "withdraw") THEN "closed" ELSE "open")
            /\ shifted' = shifted \ {c}
  /\ UNCHANGED <<dict, list, online, events, lost>>

-----------------------------------------------------------------------------
(* time and crashes *)

\* A presence key reaches its time to live.
KeyExpires(u) ==
  /\ u \in Expiring(online)
  /\ online' = online \ {u}
  /\ UNCHANGED <<dict, list, co, events, shifted, lost>>

\* The server stops: what it holds in memory is gone, the keys stay.
ServerStops ==
  /\ dict # <<>>
  /\ dict' = <<>> /\ list' = [c \in Conns |-> <<>>]
  /\ co' = [c \in Conns |-> IF At(c, "new") THEN co[c] ELSE Resting("closed")]
  /\ shifted' = {} /\ lost' = lost \union online
  /\ UNCHANGED <<online, events>>

Step(c) ==
  \/ SetActive(c) \/ SetActiveFails(c) \/ SetInactive(c) \/ SetInactiveFails(c)
  \/ Send(c) \/ Finish(c)

Next ==
  \/ \E c \in Conns : Connect(c) \/ Disconnect(c) \/ HandleEvent(c) \/ Step(c)
  \/ \E u \in Users : KeyExpires(u)
  \/ ServerStops

Spec == Init /\ [][Next]_vars

\* The event loop runs every coroutine that can go on, and time passes; clients
\* connect, send and leave as they like.
FairSpec ==
  /\ Spec
  /\ \A c \in Conns : WF_vars(Step(c))
  /\ \A u \in Users : WF_vars(KeyExpires(u))

-----------------------------------------------------------------------------
(* Properties *)

\* active_connections holds exactly the connections between connect and
\* disconnect, each once and in a list of its own user, no user has two lists,
\* and none is empty: the test that tells a first connection relies on it.
ListsAreExact ==
  /\ \A i, j \in DOMAIN dict : UserOf(dict[i]) = UserOf(dict[j]) => i = j
  /\ \A h \in ToSet(dict) : list[h] # <<>> /\ IsInjective(list[h])
  /\ \A u \in Users :
       UNION {ToSet(list[h]) : h \in ToSet(ListsOf(u))}
         = {c \in Conns : UserOf(c) = u /\ co[c].pc \in Registered}

\* A presence key outlives the connections of its user only while the disconnect
\* that deletes it is in progress, unless Redis or the server failed: set_active
\* of a period online is over before its set_inactive starts, though that may
\* overlap the next period.
OfflineIsForgotten ==
  \A u \in online :
     \/ ListsOf(u) # <<>>
     \/ \E c \in Conns : UserOf(c) = u /\ At(c, "set_inactive")
     \/ u \in lost

\* What the server holds in memory and what it keeps in Redis agree with the
\* connections there are, and have their types.
PresenceIsExact == TypeOK /\ ListsAreExact /\ OfflineIsForgotten

\* Whatever failed, a user who has left does not stay online for ever.
AbsenceShowsUp ==
  \A u \in Users :
     u \in online /\ ListsOf(u) = <<>> ~> u \notin online \/ ListsOf(u) # <<>>

\* A walk sends a message to no connection twice, though the list it walks grows
\* and shrinks at every await.
NoSecondSend ==
  \A c \in Conns : co[c].pc \in Walking =>
     \A j \in Ahead(c) : Coming(c, j) \notin co[c].sent

\* When a walk ends, it has tried every connection listed when it began, unless
\* one of these was removed meanwhile.
MissedOnlyByRemoval ==
  \A c \in Conns : Done(c) /\ c \notin shifted => co[c].due \subseteq co[c].sent
=============================================================================
