----------------------- MODULE ChatConnections_proofs -----------------------
(***************************************************************************)
(* Proofs about ChatConnections for every set of connections and every     *)
(* bound on the events: the lists hold exactly the connections there are,  *)
(* and a walk over them sends to none twice and misses none, though they   *)
(* change at every await.                                                  *)
(***************************************************************************)
EXTENDS ChatConnections, TLAPS

\* The connections that were opened.
Old == {c \in Conns : ~At(c, "new")}

\* A list is in the dict as long as it has connections, which are open, each
\* once, and of the user the list is for.
ListInv(h) ==
  /\ h \in ToSet(dict) => h \in Old /\ list[h] # <<>>
  /\ h \notin ToSet(dict) => list[h] = <<>>
  /\ \A i \in DOMAIN list[h] : /\ co[list[h][i]].pc \in Registered
                               /\ UserOf(list[h][i]) = UserOf(h)
  /\ \A i, j \in DOMAIN list[h] : list[h][i] = list[h][j] => i = j

\* No user has two lists, and every open connection is in one of its user.
DictInv ==
  /\ \A i, j \in DOMAIN dict : UserOf(dict[i]) = UserOf(dict[j]) => i = j
  /\ \A h \in Conns : ListInv(h)
  /\ \A c \in Conns : co[c].pc \in Registered =>
       \E h \in ToSet(dict) : UserOf(h) = UserOf(c) /\ c \in ToSet(list[h])

\* A connection that a walk has yet to come to.
IsAhead(c, x) ==
  \E j \in DOMAIN co[c].walk : \E p \in DOMAIN list[co[c].walk[j]] :
    From(c, j) <= p /\ list[co[c].walk[j]][p] = x

\* A walk has nothing ahead that it has sent to; what was listed when it began
\* was sent to or is ahead, unless something was removed; and in each of its
\* lists what was listed then comes before what was not.
WalkInv(c) ==
  /\ ToSet(co[c].walk) \union co[c].due \union co[c].sent \subseteq Old
  /\ \A i, j \in DOMAIN co[c].walk : co[c].walk[i] = co[c].walk[j] => i = j
  /\ \A x \in co[c].sent : ~IsAhead(c, x)
  /\ c \notin shifted => \A x \in co[c].due : x \in co[c].sent \/ IsAhead(c, x)
  /\ \A h \in ToSet(co[c].walk) : \A p, q \in DOMAIN list[h] :
       p < q /\ list[h][q] \in co[c].due => list[h][p] \in co[c].due

\* Nothing is walked before a connection registers, and nobody is sent to
\* after it withdrew.
CoroutineInv(c) ==
  /\ At(c, "new") => co[c] = Resting("new")
  /\ At(c, "withdraw") => co[c].to = <<>>

IInv ==
  /\ TypeOK
  /\ DictInv
  /\ OfflineIsForgotten
  /\ \A c \in Conns : WalkInv(c) /\ CoroutineInv(c)

-----------------------------------------------------------------------------
(* Sequences *)

\* The elements of a sequence are those at its positions.
LEMMA ToSetIs ==
  ASSUME NEW S, NEW s \in Seq(S)
  PROVE  /\ ToSet(s) \subseteq S
         /\ \A x : x \in ToSet(s) <=> \E i \in DOMAIN s : s[i] = x
         /\ s = <<>> <=> ToSet(s) = {}
<1>1. /\ ToSet(s) \subseteq S
      /\ \A x : x \in ToSet(s) <=> \E i \in DOMAIN s : s[i] = x
  BY DEF ToSet
<1>2. s = <<>> => ToSet(s) = {}
  BY DEF ToSet
<1>3. s # <<>> => s[1] \in ToSet(s)
  <2>1. s # <<>> => 1 \in DOMAIN s
    OBVIOUS
  <2> QED BY <1>1, <2>1
<1> QED BY <1>1, <1>2, <1>3

\* What an append adds.
LEMMA AppendIs ==
  ASSUME NEW S, NEW s \in Seq(S), NEW x \in S
  PROVE  /\ Append(s, x) \in Seq(S)
         /\ Len(Append(s, x)) = Len(s) + 1
         /\ DOMAIN Append(s, x) = DOMAIN s \union {Len(s) + 1}
         /\ \A i \in DOMAIN s : Append(s, x)[i] = s[i]
         /\ Append(s, x)[Len(s) + 1] = x
         /\ ToSet(Append(s, x)) = ToSet(s) \union {x}
<1>1. /\ Append(s, x) \in Seq(S)
      /\ Len(Append(s, x)) = Len(s) + 1
      /\ DOMAIN Append(s, x) = DOMAIN s \union {Len(s) + 1}
      /\ \A i \in DOMAIN s : Append(s, x)[i] = s[i]
      /\ Append(s, x)[Len(s) + 1] = x
  OBVIOUS
<1>2. ToSet(Append(s, x)) = ToSet(s) \union {x}
  BY <1>1 DEF ToSet
<1> QED BY <1>1, <1>2

\* What is left of a sequence from a position on.
LEMMA SuffixIs ==
  ASSUME NEW S, NEW s \in Seq(S), NEW k \in DOMAIN s
  PROVE  LET t == SubSeq(s, k, Len(s)) IN
         /\ t \in Seq(S)
         /\ Len(t) = Len(s) - k + 1
         /\ DOMAIN t = 1..(Len(s) - k + 1)
         /\ \A i \in DOMAIN t : t[i] = s[i + k - 1] /\ i + k - 1 \in DOMAIN s
<1>1. k \in 1..Len(s) /\ Len(s) \in Nat
  OBVIOUS
<1> QED BY <1>1

\* A sequence of different elements loses just the one that is removed, and
\* those behind it move up.
LEMMA WithoutIs ==
  ASSUME NEW S, NEW s \in Seq(S), NEW x \in ToSet(s),
         \A i, j \in DOMAIN s : s[i] = s[j] => i = j
  PROVE  \E k \in DOMAIN s :
           /\ s[k] = x
           /\ Without(s, x) \in Seq(S)
           /\ Len(Without(s, x)) = Len(s) - 1
           /\ DOMAIN Without(s, x) = 1..(Len(s) - 1)
           /\ \A i \in 1..(Len(s) - 1) :
                Without(s, x)[i] = IF i < k THEN s[i] ELSE s[i + 1]
           /\ \A i, j \in DOMAIN Without(s, x) :
                Without(s, x)[i] = Without(s, x)[j] => i = j
           /\ ToSet(Without(s, x)) = ToSet(s) \ {x}
<1>1. PICK k \in DOMAIN s : s[k] = x
  BY ToSetIs
<1>2. k \in 1..Len(s) /\ Len(s) \in Nat
  OBVIOUS
<1>3. k = CHOOSE i \in DOMAIN s : s[i] = x /\ \A j \in 1..(i-1) : s[j] # x
  <2>1. \A j \in 1..(k-1) : j \in DOMAIN s /\ j # k
    BY <1>2
  <2>2. \A j \in 1..(k-1) : s[j] # x
    BY <1>1, <2>1
  <2>3. \A i \in DOMAIN s : s[i] = x => i = k
    BY <1>1
  <2> QED BY <1>1, <2>2, <2>3
<1>4. Without(s, x) = SubSeq(s, 1, k-1) \o SubSeq(s, k+1, Len(s))
  BY <1>3 DEF Without, RemoveAt
<1> DEFINE a == SubSeq(s, 1, k-1)
           b == SubSeq(s, k+1, Len(s))
<1>5. /\ a \in Seq(S) /\ Len(a) = k - 1
      /\ \A i \in 1..(k-1) : a[i] = s[i]
  BY <1>2
<1>6. /\ b \in Seq(S) /\ Len(b) = Len(s) - k
      /\ \A i \in 1..(Len(s) - k) : b[i] = s[i + k]
  BY <1>2
<1> HIDE DEF a, b
<1>7. /\ a \o b \in Seq(S) /\ Len(a \o b) = Len(s) - 1
      /\ DOMAIN (a \o b) = 1..(Len(s) - 1)
  BY <1>2, <1>5, <1>6
<1>8. ASSUME NEW i \in 1..(Len(s) - 1)
      PROVE  (a \o b)[i] = IF i < k THEN s[i] ELSE s[i + 1]
  <2>1. CASE i < k
    BY <1>2, <1>5, <1>6, <2>1
  <2>2. CASE ~(i < k)
    <3>1. (a \o b)[i] = b[i - (k - 1)] /\ i - (k - 1) \in 1..(Len(s) - k)
      BY <1>2, <1>5, <1>6, <2>2
    <3> QED BY <1>2, <1>6, <2>2, <3>1
  <2> QED BY <2>1, <2>2
<1>9. Without(s, x) = a \o b
  BY <1>4 DEF a, b
<1> PICK t \in Seq(S) : t = Without(s, x)
  BY <1>7, <1>9
<1>10. /\ Len(t) = Len(s) - 1 /\ DOMAIN t = 1..(Len(s) - 1)
       /\ \A i \in 1..(Len(s) - 1) : t[i] = IF i < k THEN s[i] ELSE s[i + 1]
  BY <1>7, <1>8, <1>9
<1> DEFINE old(i) == IF i < k THEN i ELSE i + 1
<1>11. \A i \in DOMAIN t : t[i] = s[old(i)] /\ old(i) \in DOMAIN s \ {k}
  BY <1>2, <1>10
<1>12. \A i, j \in DOMAIN t : old(i) = old(j) => i = j
  BY <1>2, <1>10
<1>13. \A j \in DOMAIN s \ {k} : \E i \in DOMAIN t : old(i) = j
  <2> SUFFICES ASSUME NEW j \in DOMAIN s \ {k}
               PROVE  \E i \in DOMAIN t : old(i) = j
    OBVIOUS
  <2>1. CASE j < k
    BY <1>2, <1>10, <2>1
  <2>2. CASE ~(j < k)
    <3>1. j - 1 \in DOMAIN t /\ old(j - 1) = j
      BY <1>2, <1>10, <2>2
    <3> QED BY <3>1
  <2> QED BY <2>1, <2>2
<1> HIDE DEF old
<1>14. \A i, j \in DOMAIN t : t[i] = t[j] => i = j
  BY <1>11, <1>12
<1>15. ToSet(t) = ToSet(s) \ {x}
  BY <1>1, <1>11, <1>13 DEF ToSet
<1> QED BY <1>1, <1>10, <1>14, <1>15

-----------------------------------------------------------------------------
(* The dict and its lists *)

\* Two lists have no connection in common, and no list has one twice.
LEMMA Disjoint ==
  ASSUME TypeOK, DictInv, NEW g \in Conns, NEW h \in Conns,
         NEW i \in DOMAIN list[g], NEW j \in DOMAIN list[h],
         list[g][i] = list[h][j]
  PROVE  g = h /\ i = j
<1>1. /\ dict \in Seq(Conns) /\ list[g] \in Seq(Conns) /\ list[h] \in Seq(Conns)
      /\ ListInv(g) /\ ListInv(h)
  BY DEF TypeOK, DictInv
<1>2. list[g] # <<>> /\ list[h] # <<>>
  BY <1>1
<1>3. g \in ToSet(dict) /\ h \in ToSet(dict)
  BY <1>1, <1>2 DEF ListInv
<1>4. UserOf(g) = UserOf(h)
  BY <1>1 DEF ListInv
<1>5. g = h
  BY <1>1, <1>3, <1>4, ToSetIs DEF DictInv
<1> QED BY <1>1, <1>5 DEF ListInv

\* The list of a user is the one in the dict, if there is one.
LEMMA ListsOfIs ==
  ASSUME TypeOK, DictInv, NEW u
  PROVE  /\ ListsOf(u) \in Seq(Conns)
         /\ ListsOf(u) = <<>> <=> \A h \in ToSet(dict) : UserOf(h) # u
         /\ \A h : h \in ToSet(ListsOf(u)) <=>
                    h \in ToSet(dict) /\ UserOf(h) = u
         /\ \A i, j \in DOMAIN ListsOf(u) : i = j
         /\ ListsOf(u) # <<>> => ListsOf(u)[1] \in ToSet(ListsOf(u))
<1> DEFINE mine == {h \in ToSet(dict) : UserOf(h) = u}
           one  == CHOOSE h \in mine : TRUE
<1>1. dict \in Seq(Conns) /\ ToSet(dict) \subseteq Conns
  BY ToSetIs DEF TypeOK
<1>2. ListsOf(u) = IF mine = {} THEN <<>> ELSE <<one>>
  BY DEF ListsOf
<1>3. CASE mine = {}
  BY <1>2, <1>3 DEF ToSet
<1>4. CASE mine # {}
  <2>1. one \in mine
    BY <1>4
  <2>2. \A h \in mine : h = one
    BY <1>1, <2>1, ToSetIs DEF DictInv
  <2> HIDE DEF one
  <2>3. ListsOf(u) = <<one>> /\ one \in Conns
    BY <1>1, <1>2, <1>4, <2>1
  <2>4. \A h : h \in ToSet(<<one>>) <=> h = one
    BY DEF ToSet
  <2> QED BY <2>1, <2>2, <2>3, <2>4
<1> QED BY <1>3, <1>4

\* Every name in the dict is that of a connection.
LEMMA DictIs ==
  ASSUME TypeOK, DictInv
  PROVE  /\ dict \in Seq(Conns) /\ ToSet(dict) \subseteq Conns
         /\ \A i, j \in DOMAIN dict : dict[i] = dict[j] => i = j
         /\ dict = <<>> <=> ToSet(dict) = {}
BY ToSetIs DEF TypeOK, DictInv

-----------------------------------------------------------------------------
(* Walks *)

\* A coroutine that rests has nothing to walk.
LEMMA RestFacts ==
  ASSUME TypeOK, NEW c \in Conns, NEW l \in Labels, Rest(c, l)
  PROVE  /\ co' \in [Conns -> Coroutine]
         /\ co'[c].pc = l /\ co'[c].to = <<>>
         /\ \A d \in Conns \ {c} : co'[d] = co[d]
         /\ WalkInv(c)'
<1>1. Resting(l) \in Coroutine
  BY DEF Resting, Coroutine
<1>2. /\ co' \in [Conns -> Coroutine] /\ co'[c] = Resting(l)
      /\ \A d \in Conns \ {c} : co'[d] = co[d]
  BY <1>1 DEF TypeOK, Rest
<1>3. /\ co'[c].pc = l /\ co'[c].walk = <<>> /\ co'[c].to = <<>>
      /\ co'[c].due = {} /\ co'[c].sent = {}
  BY <1>2 DEF Resting
<1>4. WalkInv(c)'
  BY <1>3 DEF WalkInv, ToSet
<1> QED BY <1>2, <1>3, <1>4

\* A walk that begins has everything ahead and nothing behind.
LEMMA StartWalkFacts ==
  ASSUME TypeOK, DictInv, NEW c \in Conns, NEW l \in Labels,
         NEW lists \in Seq(Conns), NEW to \in Seq(Users),
         ToSet(lists) \subseteq ToSet(dict),
         \A i, j \in DOMAIN lists : lists[i] = lists[j] => i = j,
         StartWalk(c, l, lists, to), UNCHANGED list, l # "new"
  PROVE  /\ co' \in [Conns -> Coroutine] /\ shifted' \in SUBSET Conns
         /\ co'[c].pc = l /\ co'[c].to = to
         /\ \A d \in Conns \ {c} : co'[d] = co[d]
         /\ \A d \in Conns \ {c} : d \in shifted' <=> d \in shifted
         /\ WalkInv(c)'
<1> DEFINE due == UNION {ToSet(list[h]) : h \in ToSet(lists)}
           walk == [pc |-> l, walk |-> lists, idx |-> 1, to |-> to,
                    sent |-> {}, due |-> due]
<1>1. /\ list \in [Conns -> Seq(Conns)] /\ co \in [Conns -> Coroutine]
      /\ shifted \in SUBSET Conns /\ ToSet(lists) \subseteq Conns
  BY ToSetIs DEF TypeOK
<1>2. due \subseteq Old
  <2> SUFFICES ASSUME NEW h \in ToSet(lists), NEW x \in ToSet(list[h])
               PROVE  x \in Old
    OBVIOUS
  <2>1. PICK i \in DOMAIN list[h] : list[h][i] = x
    BY <1>1, ToSetIs
  <2>2. x \in Conns /\ co[x].pc \in Registered
    BY <1>1, <2>1 DEF DictInv, ListInv
  <2> QED BY <2>2 DEF Old, At, Registered
<1>3. \A x \in due : \E h \in ToSet(lists) : x \in ToSet(list[h])
  OBVIOUS
<1>4. \A h \in ToSet(lists) : ToSet(list[h]) \subseteq due
  OBVIOUS
<1>5. walk \in Coroutine
  BY <1>2 DEF Coroutine, Old
<1>6. /\ co' = [co EXCEPT ![c] = walk] /\ shifted' = shifted \ {c}
  BY DEF StartWalk
<1> HIDE DEF due
<1>7. /\ co' \in [Conns -> Coroutine]
      /\ \A d \in Conns \ {c} : co'[d] = co[d]
      /\ co'[c].pc = l /\ co'[c].walk = lists /\ co'[c].idx = 1
      /\ co'[c].sent = {} /\ co'[c].due = due /\ co'[c].to = to
  BY <1>1, <1>5, <1>6
<1>8. Old \subseteq Old'
  BY <1>7 DEF Old, At
<1>9. ToSet(lists) \subseteq Old
  BY <1>1 DEF DictInv, ListInv
<1>10. ASSUME NEW x \in due PROVE IsAhead(c, x)'
  <2>1. PICK h \in ToSet(lists) : x \in ToSet(list[h])
    BY <1>3
  <2>2. PICK j \in DOMAIN lists : lists[j] = h
    BY ToSetIs
  <2>3. PICK p \in DOMAIN list[h] : list[h][p] = x
    BY <1>1, <2>1, ToSetIs
  <2>4. From(c, j)' = 1 /\ 1 <= p
    BY <1>1, <1>7, <2>3 DEF From
  <2> QED BY <1>7, <2>2, <2>3, <2>4 DEF IsAhead
<1>11. ASSUME NEW h \in ToSet(lists), NEW p \in DOMAIN list[h]
       PROVE  list[h][p] \in due
  BY <1>1, <1>4, ToSetIs
<1>12. WalkInv(c)'
  BY <1>2, <1>7, <1>8, <1>9, <1>10, <1>11 DEF WalkInv
<1> QED BY <1>1, <1>6, <1>7, <1>12

\* A walk is not affected by what happens to others.
LEMMA WalkStays ==
  ASSUME NEW d \in Conns, WalkInv(d), UNCHANGED list, co'[d] = co[d],
         d \in shifted' <=> d \in shifted, Old \subseteq Old'
  PROVE  WalkInv(d)'
<1>1. \A x : IsAhead(d, x)' <=> IsAhead(d, x)
  BY DEF IsAhead, From
<1> QED BY <1>1 DEF WalkInv

\* A step of one coroutine that leaves the lists alone, and after which it is
\* connected if it was.
LEMMA QuietInv ==
  ASSUME IInv, NEW c \in Conns, UNCHANGED <<dict, list>>,
         co' \in [Conns -> Coroutine], shifted' \in SUBSET Conns,
         online' \in SUBSET Users, lost' \in SUBSET Users,
         events' \in 0..MaxEvents,
         \A d \in Conns \ {c} : co'[d] = co[d],
         \A d \in Conns \ {c} : d \in shifted' <=> d \in shifted,
         co[c].pc # "new", co'[c].pc # "new",
         co'[c].pc \in Registered <=> co[c].pc \in Registered,
         WalkInv(c)', CoroutineInv(c)', OfflineIsForgotten'
  PROVE  IInv'
<1>1. TypeOK'
  BY DEF IInv, TypeOK
<1>2. /\ Old' = Old
      /\ \A d \in Conns : co'[d].pc \in Registered <=> co[d].pc \in Registered
  BY DEF Old, At
<1>3. ASSUME NEW h \in Conns PROVE ListInv(h)'
  <2>1. \A i \in DOMAIN list[h] : list[h][i] \in Conns
    BY DEF IInv, TypeOK
  <2> QED BY <1>2, <2>1 DEF IInv, DictInv, ListInv
<1>4. DictInv'
  BY <1>2, <1>3 DEF IInv, DictInv
<1>5. \A d \in Conns : WalkInv(d)'
  BY <1>2, WalkStays DEF IInv
<1>6. \A d \in Conns : CoroutineInv(d)'
  BY DEF IInv, CoroutineInv, At
<1> QED BY <1>1, <1>4, <1>5, <1>6 DEF IInv

-----------------------------------------------------------------------------
(* One step for each action *)

\* A user has no list when none in the dict is theirs.
LEMMA NoList ==
  \A u : /\ ListsOf(u) = <<>> <=> \A h \in ToSet(dict) : UserOf(h) # u
         /\ (ListsOf(u) = <<>>)' <=> \A h \in ToSet(dict)' : UserOf(h) # u
BY DEF ListsOf

\* What is known of every coroutine, list and history variable.
LEMMA Types ==
  ASSUME TypeOK
  PROVE  /\ dict \in Seq(Conns) /\ list \in [Conns -> Seq(Conns)]
         /\ co \in [Conns -> Coroutine]
         /\ online \in SUBSET Users /\ lost \in SUBSET Users
         /\ events \in 0..MaxEvents /\ shifted \in SUBSET Conns
         /\ \A c \in Conns : /\ co[c].walk \in Seq(Conns)
                             /\ co[c].idx \in Nat \ {0}
                             /\ co[c].to \in Seq(Users)
                             /\ UserOf(c) \in Users
BY ConnectionAssumption DEF TypeOK, Coroutine

LEMMA InitInv == Init => IInv
<1> SUFFICES ASSUME Init PROVE IInv
  OBVIOUS
<1>1. Resting("new") \in Coroutine
  BY DEF Resting, Coroutine, Labels
<1>2. TypeOK
  BY <1>1, ConnectionAssumption DEF Init, TypeOK
<1>3. ToSet(dict) = {}
  BY DEF Init, ToSet
<1>4. \A c \in Conns : co[c].pc = "new"
  BY DEF Init, Resting
<1>5. DictInv
  BY <1>3, <1>4 DEF Init, DictInv, ListInv, Registered
<1>6. \A c \in Conns : WalkInv(c) /\ CoroutineInv(c)
  BY DEF Init, WalkInv, CoroutineInv, Resting, ToSet, At
<1>7. OfflineIsForgotten
  BY DEF Init, OfflineIsForgotten
<1> QED BY <1>2, <1>5, <1>6, <1>7 DEF IInv

\* The connection a walk comes to is in its list.
LEMMA ComingIs ==
  ASSUME TypeOK, NEW c \in Conns, NEW j \in Ahead(c)
  PROVE  /\ j \in DOMAIN co[c].walk /\ co[c].walk[j] \in Conns
         /\ From(c, j) \in DOMAIN list[co[c].walk[j]]
         /\ Coming(c, j) \in Conns
         /\ IsAhead(c, Coming(c, j))
<1>1. /\ j \in DOMAIN co[c].walk /\ co[c].walk[j] \in Conns
      /\ From(c, j) \in Nat \ {0}
      /\ From(c, j) <= Len(list[co[c].walk[j]])
      /\ list[co[c].walk[j]] \in Seq(Conns)
  BY Types DEF Ahead, Left, From
<1>2. From(c, j) \in DOMAIN list[co[c].walk[j]]
  BY <1>1
<1> QED BY <1>1, <1>2 DEF Coming, IsAhead

\* What a send changes in the coroutine.
LEMMA SendUpdate ==
  ASSUME TypeOK, NEW c \in Conns, NEW j \in Ahead(c),
         NEW v \in Seq(Conns), v = SubSeq(co[c].walk, j, Len(co[c].walk)),
         co' = [co EXCEPT ![c] = AfterSend(c, j)]
  PROVE  /\ co' \in [Conns -> Coroutine]
         /\ \A d \in Conns \ {c} : co'[d] = co[d]
         /\ co'[c].pc = co[c].pc /\ co'[c].walk = v /\ co'[c].to = co[c].to
         /\ co'[c].idx = From(c, j) + 1 /\ co'[c].due = co[c].due
         /\ co'[c].sent = co[c].sent \union {Coming(c, j)}
<1>1. co \in [Conns -> Coroutine] /\ co[c] \in Coroutine
  BY Types
<1> DEFINE k == From(c, j) + 1
           s == co[c].sent \union {Coming(c, j)}
<1>2. AfterSend(c, j) = [co[c] EXCEPT !.walk = v, !.idx = k, !.sent = s]
  BY DEF AfterSend
<1>3. k \in Nat \ {0}
  BY Types DEF From
<1>4. s \in SUBSET Conns
  BY <1>1, ComingIs DEF Coroutine
<1> HIDE DEF k, s
<1>5. AfterSend(c, j) \in Coroutine
  BY <1>1, <1>2, <1>3, <1>4 DEF Coroutine
<1>6. /\ \A d \in Conns \ {c} : co'[d] = co[d]
      /\ co'[c] = AfterSend(c, j) /\ co' \in [Conns -> Coroutine]
  BY <1>1, <1>5
<1>7. /\ co'[c].pc = co[c].pc /\ co'[c].walk = v /\ co'[c].idx = k
      /\ co'[c].due = co[c].due /\ co'[c].sent = s /\ co'[c].to = co[c].to
  BY <1>1, <1>2, <1>6 DEF Coroutine
<1> QED BY <1>6, <1>7 DEF k, s

\* A send: what is behind grows by what was next.
LEMMA SendInv ==
  ASSUME IInv, NEW c \in Conns, Send(c)
  PROVE  IInv'
<1>1. /\ TypeOK /\ DictInv /\ WalkInv(c)
      /\ list \in [Conns -> Seq(Conns)]
      /\ UNCHANGED <<dict, list, online, events, shifted, lost>>
      /\ co[c].pc \in Walking /\ ~At(c, "new")
      /\ online \in SUBSET Users /\ lost \in SUBSET Users
      /\ events \in 0..MaxEvents /\ shifted \in SUBSET Conns
      /\ co[c].sent \in SUBSET Conns
  BY Types DEF IInv, Send, Walking, At, Coroutine
<1>2. PICK j \in Ahead(c) : co' = [co EXCEPT ![c] = AfterSend(c, j)]
  BY DEF Send
<1> PICK w \in Seq(Conns) : w = co[c].walk
  BY <1>1, Types
<1>3. PICK h \in Conns, p \in Nat \ {0}, x \in Conns :
        /\ j \in DOMAIN w /\ h = w[j]
        /\ p = From(c, j) /\ p \in DOMAIN list[h]
        /\ x = list[h][p] /\ x = Coming(c, j)
  <2>1. From(c, j) \in Nat \ {0}
    BY <1>1, Types DEF From
  <2> QED BY <1>1, <2>1, ComingIs DEF Coming
<1>4. j \in 1..Len(w) /\ Len(w) \in Nat
  BY <1>3
<1>5. PICK v \in Seq(Conns) :
        /\ v = SubSeq(w, j, Len(w)) /\ DOMAIN v = 1..(Len(w) - j + 1)
        /\ \A i \in DOMAIN v : v[i] = w[i + j - 1] /\ i + j - 1 \in DOMAIN w
  BY <1>3, SuffixIs
<1>6. /\ co' \in [Conns -> Coroutine]
      /\ \A d \in Conns \ {c} : co'[d] = co[d]
      /\ co'[c].pc = co[c].pc /\ co'[c].to = co[c].to
      /\ co'[c].walk = v /\ co'[c].idx = p + 1
      /\ co'[c].due = co[c].due /\ co'[c].sent = co[c].sent \union {x}
  <2>1. TypeOK /\ v = SubSeq(co[c].walk, j, Len(co[c].walk))
    BY <1>1, <1>5
  <2>2. /\ co' \in [Conns -> Coroutine]
        /\ \A d \in Conns \ {c} : co'[d] = co[d]
        /\ co'[c].pc = co[c].pc /\ co'[c].walk = v /\ co'[c].to = co[c].to
        /\ co'[c].idx = From(c, j) + 1 /\ co'[c].due = co[c].due
        /\ co'[c].sent = co[c].sent \union {Coming(c, j)}
    BY <1>2, <2>1, SendUpdate
  <2> QED BY <1>3, <2>2
<1>7. Old' = Old /\ x \in Old
  <2>1. co[x].pc \in Registered
    BY <1>1, <1>3 DEF DictInv, ListInv
  <2>2. \A d \in Conns : co'[d].pc = co[d].pc
    BY <1>6
  <2> QED BY <2>1, <2>2 DEF Old, At, Registered
<1>8. ToSet(v) \subseteq ToSet(w)
  BY <1>5 DEF ToSet
<1>9. \A i, k \in DOMAIN w : w[i] = w[k] => i = k
  BY <1>1 DEF WalkInv
<1>10. ASSUME NEW i \in DOMAIN v, NEW k \in DOMAIN v, v[i] = v[k]
       PROVE  i = k
  <2>1. i + j - 1 = k + j - 1
    BY <1>5, <1>9, <1>10
  <2> QED BY <1>4, <1>5, <2>1
<1>11. ASSUME NEW y, IsAhead(c, y)' PROVE IsAhead(c, y) /\ y # x
  <2>1. PICK i \in DOMAIN v : \E q \in DOMAIN list[v[i]] :
          (IF i = 1 THEN p + 1 ELSE 1) <= q /\ list[v[i]][q] = y
    BY <1>1, <1>6, <1>11 DEF IsAhead, From
  <2>2. PICK q \in DOMAIN list[v[i]] :
          (IF i = 1 THEN p + 1 ELSE 1) <= q /\ list[v[i]][q] = y
    BY <2>1
  <2>3. PICK k \in DOMAIN w : k = i + j - 1 /\ v[i] = w[k]
    BY <1>5
  <2>4. /\ i \in Nat \ {0} /\ k \in Nat \ {0} /\ v[i] \in Conns
        /\ list[v[i]] \in Seq(Conns) /\ (k = j <=> i = 1)
    <3>1. i \in Nat \ {0} /\ k \in Nat \ {0} /\ (k = j <=> i = 1)
      BY <1>4, <1>5, <2>3
    <3>2. v[i] \in Conns
      BY <2>3
    <3> QED BY <1>1, <3>1, <3>2
  <2>5. q \in Nat \ {0}
    BY <2>2, <2>4
  <2>6. From(c, k) <= q
    <3>1. CASE i = 1
      <4>1. k = j /\ p + 1 <= q
        BY <2>2, <2>4, <3>1
      <4> QED BY <1>3, <2>5, <4>1
    <3>2. CASE i # 1
      <4>1. k # 1
        BY <1>4, <2>3, <2>4, <3>2
      <4> QED BY <2>5, <4>1 DEF From
    <3> QED BY <3>1, <3>2
  <2>7. IsAhead(c, y)
    BY <2>2, <2>3, <2>6 DEF IsAhead
  <2>8. ASSUME y = x PROVE FALSE
    <3>1. v[i] = h /\ q = p
      <4>1. list[v[i]][q] = list[h][p]
        BY <1>3, <2>2, <2>8
      <4>2. TypeOK /\ DictInv
        BY <1>1
      <4>3. v[i] \in Conns /\ p \in DOMAIN list[h]
        BY <1>3, <2>4
      <4> QED BY <4>1, <4>2, <4>3, Disjoint
    <3>2. i = 1
      BY <1>3, <1>9, <2>3, <2>4, <3>1
    <3> QED BY <2>2, <2>5, <3>1, <3>2
  <2> QED BY <2>7, <2>8
<1>12. ASSUME NEW y, IsAhead(c, y), y # x PROVE IsAhead(c, y)'
  <2>1. PICK i \in DOMAIN w : \E q \in DOMAIN list[w[i]] :
          From(c, i) <= q /\ list[w[i]][q] = y
    BY <1>12 DEF IsAhead
  <2>2. PICK q \in DOMAIN list[w[i]] : From(c, i) <= q /\ list[w[i]][q] = y
    BY <2>1
  <2>3. /\ i \in 1..Len(w) /\ w[i] \in Conns /\ list[w[i]] \in Seq(Conns)
        /\ From(c, i) \in Nat
    <3>1. i \in 1..Len(w) /\ w[i] \in Conns /\ co[c].idx \in Nat
      <4>1. w \in Seq(Conns) /\ i \in DOMAIN w
        OBVIOUS
      <4>2. i \in 1..Len(w) /\ w[i] \in Conns
        BY <4>1
      <4>3. co[c].idx \in Nat
        BY <1>1, Types
      <4> QED BY <4>2, <4>3
    <3>2. list[w[i]] \in Seq(Conns)
      BY <1>1, <3>1, Types
    <3>3. From(c, i) \in Nat
      BY <3>1 DEF From
    <3> QED BY <3>1, <3>2, <3>3
  <2>4. q \in Nat \ {0} /\ q <= Len(list[w[i]])
    BY <2>2, <2>3
  <2>5. i \in j..Len(w)
    <3>1. Left(c, i)
      BY <2>2, <2>3, <2>4 DEF Left
    <3>2. \A k \in 1..(j-1) : ~Left(c, k)
      BY DEF Ahead
    <3> QED BY <1>4, <2>3, <3>1, <3>2
  <2>6. PICK k \in DOMAIN v : k = i - j + 1
    BY <1>4, <1>5, <2>5
  <2>7. v[k] = w[i] /\ (k = 1 <=> i = j)
    <3>1. k + j - 1 = i /\ (k = 1 <=> i = j)
      <4>1. i \in Nat /\ j \in Nat /\ k = i - j + 1
        BY <1>4, <2>5, <2>6
      <4> QED BY <4>1
    <3>2. v[k] = w[k + j - 1]
      BY <1>5
    <3> QED BY <3>1, <3>2
  <2>8. CASE i = j
    <3>1. q # p /\ p <= q
      BY <1>3, <1>12, <2>2, <2>8
    <3>2. p + 1 <= q
      BY <2>4, <3>1
    <3> QED BY <1>1, <1>6, <2>2, <2>7, <2>8, <3>2 DEF IsAhead, From
  <2>9. CASE i # j
    BY <1>1, <1>6, <2>2, <2>4, <2>7, <2>9 DEF IsAhead, From
  <2> QED BY <2>8, <2>9
<1>13. WalkInv(c)'
  BY <1>1, <1>6, <1>7, <1>8, <1>10, <1>11, <1>12 DEF WalkInv
<1>14. OfflineIsForgotten'
  <2>1. \A d \in Conns : At(d, "set_inactive")' <=> At(d, "set_inactive")
    BY <1>6 DEF At
  <2>2. \A u : ListsOf(u)' = ListsOf(u)
    BY <1>1 DEF ListsOf
  <2> QED BY <1>1, <2>1, <2>2 DEF IInv, OfflineIsForgotten
<1>15. co[c].pc # "new" /\ CoroutineInv(c)'
  BY <1>1, <1>6 DEF At, IInv, CoroutineInv
<1> QED BY <1>1, <1>6, <1>13, <1>14, <1>15, QuietInv

\* A presence key of a user without a list is about to be deleted, or lost.
LEMMA OfflineStays ==
  ASSUME IInv, NEW c \in Conns, UNCHANGED dict,
         \A d \in Conns \ {c} : co'[d] = co[d],
         online' \subseteq online \union {u \in Users : ListsOf(u) # <<>>},
         lost \subseteq lost',
         At(c, "set_inactive") =>
           \/ UserOf(c) \notin online' \/ UserOf(c) \in lost'
           \/ At(c, "set_inactive")'
  PROVE  OfflineIsForgotten'
<1>1. \A u : ListsOf(u)' = ListsOf(u)
  BY DEF ListsOf
<1> SUFFICES ASSUME NEW u \in online', ListsOf(u) = <<>>, u \notin lost'
             PROVE  \E d \in Conns : UserOf(d) = u /\ At(d, "set_inactive")'
  BY <1>1 DEF OfflineIsForgotten
<1>2. u \in online /\ u \notin lost
  OBVIOUS
<1>3. PICK d \in Conns : UserOf(d) = u /\ At(d, "set_inactive")
  BY <1>2 DEF IInv, OfflineIsForgotten
<1>4. At(d, "set_inactive")'
  BY <1>3 DEF At
<1> QED BY <1>3, <1>4

\* The user of an open connection has a list.
LEMMA HasList ==
  ASSUME IInv, NEW c \in Conns, co[c].pc \in Registered
  PROVE  ListsOf(UserOf(c)) # <<>>
<1>1. PICK h \in ToSet(dict) : UserOf(h) = UserOf(c)
  BY DEF IInv, DictInv
<1> QED BY <1>1, NoList

\* A coroutine that rests after a step, its connection open or not as before.
LEMMA RestInv ==
  ASSUME IInv, NEW c \in Conns, NEW l \in Labels, Rest(c, l),
         UNCHANGED <<dict, list, events>>,
         shifted' \in {shifted, shifted \ {c}},
         online' = online, lost' \in {lost, lost \union {UserOf(c)}},
         co[c].pc # "new", l # "new",
         l \in Registered <=> co[c].pc \in Registered,
         At(c, "set_inactive") => UserOf(c) \in lost'
  PROVE  IInv'
<1>1. TypeOK
  BY DEF IInv
<1>2. /\ co' \in [Conns -> Coroutine]
      /\ co'[c].pc = l /\ co'[c].to = <<>>
      /\ \A d \in Conns \ {c} : co'[d] = co[d]
      /\ WalkInv(c)'
  BY <1>1, RestFacts
<1>3. /\ shifted' \in SUBSET Conns /\ online' \in SUBSET Users
      /\ lost' \in SUBSET Users /\ events' \in 0..MaxEvents
  BY <1>1, Types
<1>4. CoroutineInv(c)'
  BY <1>2 DEF CoroutineInv, At
<1>5. OfflineIsForgotten'
  BY <1>2, OfflineStays
<1>6. \A d \in Conns \ {c} : d \in shifted' <=> d \in shifted
  OBVIOUS
<1> QED BY <1>2, <1>3, <1>4, <1>5, <1>6, QuietInv

\* A walk begins, over the dict or the list of a user.
LEMMA StartWalkInv ==
  ASSUME IInv, NEW c \in Conns, NEW l \in Labels,
         NEW lists \in Seq(Conns), NEW to \in Seq(Users),
         lists = dict \/ \E u : lists = ListsOf(u),
         StartWalk(c, l, lists, to),
         UNCHANGED <<dict, list, lost>>, events' \in 0..MaxEvents,
         online' \in SUBSET Users,
         online' \subseteq online \union {u \in Users : ListsOf(u) # <<>>},
         co[c].pc # "new", l # "new",
         l \in Registered <=> co[c].pc \in Registered,
         l = "withdraw" => to = <<>>,
         At(c, "set_inactive") => UserOf(c) \notin online'
  PROVE  IInv'
<1>1. TypeOK /\ DictInv
  BY DEF IInv
<1>2. /\ ToSet(lists) \subseteq ToSet(dict)
      /\ \A i, j \in DOMAIN lists : lists[i] = lists[j] => i = j
  BY <1>1, DictIs, ListsOfIs
<1>3. /\ co' \in [Conns -> Coroutine] /\ shifted' \in SUBSET Conns
      /\ co'[c].pc = l /\ co'[c].to = to
      /\ \A d \in Conns \ {c} : co'[d] = co[d]
      /\ \A d \in Conns \ {c} : d \in shifted' <=> d \in shifted
      /\ WalkInv(c)'
  BY <1>1, <1>2, StartWalkFacts
<1>4. lost' \in SUBSET Users
  BY <1>1, Types
<1>5. CoroutineInv(c)'
  BY <1>3 DEF CoroutineInv, At
<1>6. OfflineIsForgotten'
  BY <1>3, OfflineStays
<1> QED BY <1>3, <1>4, <1>5, <1>6, QuietInv

\* Steps between the awaits of one coroutine.
LEMMA CoroutineStep ==
  ASSUME IInv, NEW c \in Conns,
         \/ SetActive(c) \/ SetActiveFails(c) \/ SetInactive(c)
         \/ SetInactiveFails(c) \/ HandleEvent(c) \/ Finish(c)
  PROVE  IInv'
<1>1. /\ TypeOK /\ DictInv /\ CoroutineInv(c)
      /\ dict \in Seq(Conns) /\ events \in 0..MaxEvents /\ MaxEvents \in Nat
      /\ online \in SUBSET Users /\ UserOf(c) \in Users
      /\ co[c].to \in Seq(Users)
      /\ <<>> \in Seq(Users)
  BY Types, ConnectionAssumption DEF IInv
<1>2. \A u : ListsOf(u) \in Seq(Conns)
  BY <1>1, ListsOfIs
<1>3. CASE SetActive(c)
  <2>1. /\ co[c].pc = "set_active" /\ "announce" \in Labels
        /\ {"announce", "set_active"} \subseteq Registered
    BY <1>3 DEF SetActive, At, Labels, Registered
  <2>2. ListsOf(UserOf(c)) # <<>>
    BY <2>1, HasList
  <2>3. /\ online' \in SUBSET Users
        /\ online' \subseteq online \union {u \in Users : ListsOf(u) # <<>>}
    BY <1>1, <1>3, <2>2 DEF SetActive
  <2>4. /\ StartWalk(c, "announce", dict, <<>>)
        /\ UNCHANGED <<dict, list, events, lost>>
    BY <1>3 DEF SetActive
  <2> QED BY <1>1, <2>1, <2>3, <2>4, StartWalkInv DEF At
<1>4. CASE SetActiveFails(c)
  <2>1. /\ co[c].pc = "set_active" /\ "open" \in Labels
        /\ {"open", "set_active"} \subseteq Registered
        /\ Rest(c, "open")
        /\ UNCHANGED <<dict, list, online, events, shifted, lost>>
    BY <1>4 DEF SetActiveFails, At, Labels, Registered
  <2> QED BY <2>1, RestInv DEF At
<1>5. CASE SetInactive(c)
  <2>1. /\ co[c].pc = "set_inactive" /\ "withdraw" \in Labels
        /\ "withdraw" \notin Registered /\ "set_inactive" \notin Registered
    BY <1>5 DEF SetInactive, At, Labels, Registered
  <2>2. /\ StartWalk(c, "withdraw", dict, <<>>)
        /\ online' = online \ {UserOf(c)}
        /\ UNCHANGED <<dict, list, events, lost>>
    BY <1>5 DEF SetInactive, WentOffline
  <2>3. online' \in SUBSET Users /\ UserOf(c) \notin online'
    BY <1>1, <2>2
  <2>4. online' \subseteq online \union {u \in Users : ListsOf(u) # <<>>}
    BY <2>2
  <2> QED BY <1>1, <2>1, <2>2, <2>3, <2>4, StartWalkInv
<1>6. CASE SetInactiveFails(c)
  <2>1. /\ co[c].pc = "set_inactive" /\ "closed" \in Labels
        /\ "closed" \notin Registered /\ "set_inactive" \notin Registered
        /\ Rest(c, "closed") /\ lost' = lost \union {UserOf(c)}
        /\ UNCHANGED <<dict, list, online, events, shifted>>
    BY <1>6 DEF SetInactiveFails, At, Labels, Registered
  <2> QED BY <2>1, RestInv
<1>7. CASE HandleEvent(c)
  <2>1. /\ co[c].pc = "open" /\ "send" \in Labels
        /\ {"open", "send"} \subseteq Registered
        /\ UNCHANGED <<dict, list, online, lost>>
        /\ events' \in 0..MaxEvents
    BY <1>1, <1>7 DEF HandleEvent, At, Labels, Registered
  <2>2. PICK v \in Users : \E to \in {<<v>>, <<v, UserOf(c)>>, <<UserOf(c)>>} :
          StartWalk(c, "send", ListsOf(to[1]), Tail(to))
    BY <1>7 DEF HandleEvent
  <2>3. PICK to \in {<<v>>, <<v, UserOf(c)>>, <<UserOf(c)>>} :
          StartWalk(c, "send", ListsOf(to[1]), Tail(to))
    BY <2>2
  <2>4. to \in Seq(Users) /\ to # <<>>
    <3>1. v \in Users /\ UserOf(c) \in Users
      BY <1>1
    <3>2. /\ <<v>> \in Seq(Users) /\ <<v>> # <<>>
          /\ <<UserOf(c)>> \in Seq(Users) /\ <<UserOf(c)>> # <<>>
      BY <3>1
    <3>3. <<v, UserOf(c)>> \in Seq(Users) /\ <<v, UserOf(c)>> # <<>>
      BY <3>1
    <3> QED BY <3>2, <3>3
  <2>5. Tail(to) \in Seq(Users)
    BY <2>4
  <2> QED BY <1>1, <1>2, <2>1, <2>3, <2>5, StartWalkInv DEF At
<1>8. CASE Finish(c)
  <2>1. /\ co[c].pc \in Walking
        /\ UNCHANGED <<dict, list, online, events, lost>>
    BY <1>8 DEF Finish, Done
  <2>2. CASE co[c].to # <<>>
    <3>1. /\ StartWalk(c, "send", ListsOf(co[c].to[1]), Tail(co[c].to))
          /\ Tail(co[c].to) \in Seq(Users)
      BY <1>1, <1>8, <2>2 DEF Finish
    <3>2. co[c].pc \in {"announce", "send"}
      BY <1>1, <2>1, <2>2 DEF CoroutineInv, At, Walking
    <3>3. "send" \in Labels /\ {"announce", "send"} \subseteq Registered
      BY DEF Labels, Registered
    <3> QED BY <1>1, <1>2, <2>1, <3>1, <3>2, <3>3, StartWalkInv DEF At
  <2>3. CASE co[c].to = <<>>
    <3> DEFINE l == IF At(c, "withdraw") THEN "closed" ELSE "open"
    <3>1. Rest(c, l) /\ shifted' = shifted \ {c}
      BY <1>8, <2>3 DEF Finish
    <3>2. /\ l \in Labels /\ l # "new"
          /\ l \in Registered <=> co[c].pc \in Registered
          /\ co[c].pc # "new" /\ ~At(c, "set_inactive")
      BY <2>1 DEF Labels, Registered, Walking, At
    <3> HIDE DEF l
    <3> QED BY <2>1, <3>1, <3>2, RestInv
  <2> QED BY <2>2, <2>3
<1> QED BY <1>3, <1>4, <1>5, <1>6, <1>7, <1>8

\* Time passes, or nothing happens.
LEMMA TimeInv ==
  ASSUME IInv, UNCHANGED vars \/ \E u \in Users : KeyExpires(u)
  PROVE  IInv'
<1>1. /\ UNCHANGED <<dict, list, co, events, shifted, lost>>
      /\ online' \subseteq online
  BY DEF vars, KeyExpires
<1>2. TypeOK'
  BY <1>1 DEF IInv, TypeOK
<1>3. DictInv'
  BY <1>1 DEF IInv, DictInv, ListInv, Old, At
<1>4. \A u : ListsOf(u)' = ListsOf(u)
  BY <1>1 DEF ListsOf
<1>5. OfflineIsForgotten'
  BY <1>1, <1>4 DEF IInv, OfflineIsForgotten, At
<1>6. Old' = Old
  BY <1>1 DEF Old, At
<1>7. ASSUME NEW d \in Conns PROVE WalkInv(d)' /\ CoroutineInv(d)'
  BY <1>1, <1>6, WalkStays DEF IInv, CoroutineInv, At
<1> QED BY <1>2, <1>3, <1>5, <1>7 DEF IInv

\* The server stops: there are no lists, and nobody is left to walk them.
LEMMA StopInv ==
  ASSUME IInv, ServerStops
  PROVE  IInv'
<1>1. /\ TypeOK /\ dict' = <<>> /\ list' = [c \in Conns |-> <<>>]
      /\ co' = [c \in Conns |-> IF At(c, "new") THEN co[c]
                                ELSE Resting("closed")]
      /\ shifted' = {} /\ lost' = lost \union online
      /\ UNCHANGED <<online, events>>
      /\ co \in [Conns -> Coroutine]
  BY Types DEF IInv, ServerStops
<1>2. Resting("closed") \in Coroutine
  BY DEF Resting, Coroutine, Labels
<1>3. TypeOK'
  <2>1. co' \in [Conns -> Coroutine]
    BY <1>1, <1>2
  <2> QED BY <1>1, <2>1 DEF TypeOK
<1>4. ASSUME NEW c \in Conns
      PROVE  \/ co'[c] = Resting("new") \/ co'[c] = Resting("closed")
  BY <1>1 DEF IInv, CoroutineInv
<1>5. ASSUME NEW c \in Conns
      PROVE  /\ co'[c].pc \in {"new", "closed"} /\ co'[c].walk = <<>>
             /\ co'[c].due = {} /\ co'[c].sent = {}
             /\ co'[c].pc = "new" => co'[c] = Resting("new")
  BY <1>4 DEF Resting
<1>6. ToSet(dict)' = {}
  BY <1>1 DEF ToSet
<1>7. DictInv'
  BY <1>1, <1>5, <1>6 DEF DictInv, ListInv, Registered
<1>8. OfflineIsForgotten'
  BY <1>1 DEF OfflineIsForgotten
<1>9. ASSUME NEW c \in Conns PROVE WalkInv(c)' /\ CoroutineInv(c)'
  BY <1>5 DEF WalkInv, CoroutineInv, ToSet, At
<1> QED BY <1>3, <1>7, <1>8, <1>9 DEF IInv

\* A walk goes on over a list that grew at its end by a connection that was new.
LEMMA WalkGrows ==
  ASSUME IInv, NEW c \in Conns, At(c, "new"), NEW d \in Conns \ {c},
         NEW h \in Conns, co'[d] = co[d], d \in shifted' <=> d \in shifted,
         Old \subseteq Old',
         list' = [list EXCEPT ![h] = Append(list[h], c)]
  PROVE  WalkInv(d)'
<1>1. /\ TypeOK /\ WalkInv(d) /\ list \in [Conns -> Seq(Conns)]
      /\ co[d].walk \in Seq(Conns)
  BY Types DEF IInv
<1> PICK old \in Seq(Conns) : old = list[h]
  BY <1>1
<1> PICK grown \in Seq(Conns) : grown = Append(old, c)
  BY AppendIs
<1>2. /\ list'[h] = grown
      /\ \A g \in Conns \ {h} : list'[g] = list[g]
  BY <1>1
<1>3. /\ DOMAIN grown = DOMAIN old \union {Len(old) + 1}
      /\ \A i \in DOMAIN old : grown[i] = old[i]
      /\ grown[Len(old) + 1] = c
      /\ \A i \in DOMAIN old : i < Len(old) + 1
      /\ Len(old) + 1 \notin DOMAIN old /\ Len(old) + 1 \in Nat
      /\ DOMAIN old \subseteq Nat
  BY AppendIs
<1>4. c \notin co[d].due /\ c \notin co[d].sent
  BY <1>1 DEF WalkInv, Old
<1>5. ASSUME NEW y, y # c
      PROVE  IsAhead(d, y)' <=> IsAhead(d, y)
  <2>1. ASSUME NEW g \in Conns, NEW n \in Nat
        PROVE  (\E p \in DOMAIN list'[g] : n <= p /\ list'[g][p] = y)
                 <=> (\E p \in DOMAIN list[g] : n <= p /\ list[g][p] = y)
    <3>1. CASE g = h
      BY <1>2, <1>3, <1>5, <3>1
    <3>2. CASE g # h
      BY <1>2, <3>2
    <3> QED BY <3>1, <3>2
  <2>2. \A j \in DOMAIN co[d].walk :
          /\ co[d].walk[j] \in Conns /\ From(d, j) \in Nat
          /\ From(d, j)' = From(d, j)
    BY <1>1, Types DEF From
  <2> QED BY <2>1, <2>2 DEF IsAhead
<1>6. ASSUME NEW g \in ToSet(co[d].walk),
             NEW p \in DOMAIN list'[g], NEW q \in DOMAIN list'[g],
             p < q, list'[g][q] \in co[d].due
      PROVE  list'[g][p] \in co[d].due
  <2>1. g \in Conns
    BY <1>1, ToSetIs
  <2>2. CASE g # h
    BY <1>1, <1>2, <1>6, <2>1, <2>2 DEF WalkInv
  <2>3. CASE g = h
    <3>1. q \in DOMAIN old
      BY <1>2, <1>3, <1>4, <1>6, <2>3
    <3>2. p \in DOMAIN old
      BY <1>2, <1>3, <1>6, <2>3, <3>1
    <3>3. /\ h \in ToSet(co[d].walk) /\ p < q
          /\ list'[h][p] = old[p] /\ list'[h][q] = old[q]
          /\ old[q] \in co[d].due
      BY <1>2, <1>3, <1>6, <2>3, <3>1, <3>2
    <3>4. old[p] \in co[d].due
      BY <1>1, <3>1, <3>2, <3>3 DEF WalkInv
    <3> QED BY <2>3, <3>3, <3>4
  <2> QED BY <2>2, <2>3
<1> QED BY <1>1, <1>4, <1>5, <1>6 DEF WalkInv

\* A connection registers, as the first of its user or behind the others.
LEMMA ConnectInv ==
  ASSUME IInv, NEW c \in Conns, Connect(c)
  PROVE  IInv'
<1> DEFINE mine == ListsOf(UserOf(c))
<1>1. /\ TypeOK /\ DictInv /\ At(c, "new")
      /\ UNCHANGED <<online, events, shifted, lost>>
      /\ dict \in Seq(Conns) /\ list \in [Conns -> Seq(Conns)]
      /\ co \in [Conns -> Coroutine]
  BY Types DEF IInv, Connect
<1>2. /\ c \notin ToSet(dict) /\ list[c] = <<>>
      /\ \A h \in Conns : \A i \in DOMAIN list[h] :
           list[h][i] \in Conns /\ list[h][i] # c
  <2>1. ListInv(c) /\ c \notin Old /\ co[c].pc \notin Registered
    BY <1>1 DEF DictInv, Old, At, Registered
  <2>2. c \notin ToSet(dict)
    BY <2>1 DEF ListInv
  <2>3. list[c] = <<>>
    BY <2>1, <2>2 DEF ListInv
  <2>4. ASSUME NEW h \in Conns, NEW i \in DOMAIN list[h]
        PROVE  list[h][i] \in Conns /\ list[h][i] # c
    <3>1. ListInv(h) /\ list[h] \in Seq(Conns)
      BY <1>1 DEF DictInv
    <3>2. co[list[h][i]].pc \in Registered
      BY <3>1 DEF ListInv
    <3> QED BY <2>1, <3>1, <3>2
  <2> QED BY <2>2, <2>3, <2>4
<1>3. ASSUME NEW l \in {"set_active", "open"}, Rest(c, l)
      PROVE  /\ co' \in [Conns -> Coroutine] /\ co'[c].pc = l
             /\ \A d \in Conns \ {c} : co'[d] = co[d]
             /\ WalkInv(c)' /\ Old \subseteq Old' /\ c \in Old'
             /\ \A d \in Conns : co'[d].pc \in Registered <=>
                                   d = c \/ co[d].pc \in Registered
             /\ \A d \in Conns : CoroutineInv(d)'
  <2>1. l \in Labels /\ l \in Registered /\ l # "new"
    BY DEF Labels, Registered
  <2>2. /\ co' \in [Conns -> Coroutine] /\ co'[c].pc = l
        /\ \A d \in Conns \ {c} : co'[d] = co[d]
        /\ WalkInv(c)'
    BY <1>1, <1>3, <2>1, RestFacts
  <2>3. \A d \in Conns : CoroutineInv(d)'
    BY <2>2 DEF IInv, CoroutineInv, At
  <2> QED BY <2>1, <2>2, <2>3 DEF Old, At
<1>4. CASE mine = <<>>
  <2>1. /\ dict' = Append(dict, c) /\ list' = [list EXCEPT ![c] = <<c>>]
        /\ Rest(c, "set_active")
    BY <1>4 DEF Connect
  <2>2. /\ co' \in [Conns -> Coroutine] /\ co'[c].pc = "set_active"
        /\ \A d \in Conns \ {c} : co'[d] = co[d]
        /\ WalkInv(c)' /\ Old \subseteq Old' /\ c \in Old'
        /\ \A d \in Conns : co'[d].pc \in Registered <=>
                              d = c \/ co[d].pc \in Registered
        /\ \A d \in Conns : CoroutineInv(d)'
    BY <1>3, <2>1
  <2>3. /\ list'[c] = <<c>> /\ \A h \in Conns \ {c} : list'[h] = list[h]
        /\ list' \in [Conns -> Seq(Conns)]
    BY <1>1, <2>1
  <2>4. /\ dict' \in Seq(Conns) /\ ToSet(dict)' = ToSet(dict) \union {c}
        /\ DOMAIN dict' = DOMAIN dict \union {Len(dict) + 1}
        /\ \A i \in DOMAIN dict : dict'[i] = dict[i] /\ dict[i] \in ToSet(dict)
        /\ dict'[Len(dict) + 1] = c
    BY <1>1, <2>1, AppendIs, ToSetIs
  <2>5. \A h \in ToSet(dict) : UserOf(h) # UserOf(c)
    BY <1>4, NoList
  <2>6. TypeOK'
    BY <1>1, <2>2, <2>3, <2>4 DEF TypeOK
  <2>7. ASSUME NEW h \in Conns PROVE ListInv(h)'
    <3>1. CASE h = c
      <4>1. /\ list'[c] = <<c>> /\ <<c>> # <<>> /\ DOMAIN <<c>> = {1}
            /\ <<c>>[1] = c
        BY <2>3
      <4>2. /\ c \in ToSet(dict)' /\ c \in Old'
            /\ co'[c].pc \in Registered
        BY <2>2, <2>4
      <4> QED BY <3>1, <4>1, <4>2 DEF ListInv
    <3>2. CASE h # c
      <4>1. ListInv(h) /\ list'[h] = list[h] /\ Old \subseteq Old'
        BY <1>1, <2>2, <2>3, <3>2 DEF DictInv
      <4>2. h \in ToSet(dict)' <=> h \in ToSet(dict)
        BY <2>4, <3>2
      <4>3. \A i \in DOMAIN list[h] : co[list[h][i]].pc \in Registered =>
                                       co'[list[h][i]].pc \in Registered
        BY <1>2, <2>2
      <4> QED BY <4>1, <4>2, <4>3 DEF ListInv
    <3> QED BY <3>1, <3>2
  <2>8. \A i, j \in DOMAIN dict' : UserOf(dict'[i]) = UserOf(dict'[j]) => i = j
    BY <1>1, <2>4, <2>5 DEF DictInv
  <2>9. ASSUME NEW d \in Conns, co'[d].pc \in Registered
        PROVE  \E h \in ToSet(dict)' : /\ UserOf(h) = UserOf(d)
                                       /\ d \in ToSet(list'[h])
    <3>1. CASE d = c
      BY <2>3, <2>4, <3>1 DEF ToSet
    <3>2. CASE d # c
      <4>1. PICK h \in ToSet(dict) : /\ UserOf(h) = UserOf(d)
                                     /\ d \in ToSet(list[h])
        BY <1>1, <2>2, <2>9, <3>2 DEF DictInv
      <4>2. h \in Conns /\ h # c
        BY <1>1, <1>2, ToSetIs
      <4> QED BY <2>3, <2>4, <4>1, <4>2
    <3> QED BY <3>1, <3>2
  <2>10. DictInv'
    BY <2>7, <2>8, <2>9 DEF DictInv, ToSet
  <2>11. ASSUME NEW d \in Conns \ {c} PROVE WalkInv(d)'
    <3>1. WalkInv(d) /\ co'[d] = co[d] /\ co[d].walk \in Seq(Conns)
      BY <1>1, <2>2, Types DEF IInv
    <3>2. /\ \A j \in DOMAIN co[d].walk : co[d].walk[j] \in Conns \ {c}
          /\ \A h \in ToSet(co[d].walk) : h \in Conns \ {c}
      BY <1>1, <3>1, ToSetIs DEF WalkInv, Old
    <3>3. \A x : IsAhead(d, x)' <=> IsAhead(d, x)
      <4>1. \A j \in DOMAIN co[d].walk : /\ From(d, j)' = From(d, j)
                                         /\ list'[co[d].walk[j]]
                                              = list[co[d].walk[j]]
        BY <2>3, <3>1, <3>2 DEF From
      <4> QED BY <3>1, <4>1 DEF IsAhead
    <3>4. \A h \in ToSet(co[d].walk) : list'[h] = list[h]
      BY <2>3, <3>2
    <3> QED BY <1>1, <2>2, <3>1, <3>3, <3>4 DEF WalkInv
  <2>12. OfflineIsForgotten'
    <3> SUFFICES ASSUME NEW u \in online, (ListsOf(u) = <<>>)', u \notin lost
                 PROVE  \E d \in Conns : UserOf(d) = u /\ At(d, "set_inactive")'
      BY <1>1 DEF OfflineIsForgotten
    <3>1. ListsOf(u) = <<>>
      BY <2>4, NoList
    <3>2. PICK d \in Conns : UserOf(d) = u /\ At(d, "set_inactive")
      BY <3>1 DEF IInv, OfflineIsForgotten
    <3> QED BY <1>1, <2>2, <3>2 DEF At
  <2> QED BY <2>2, <2>6, <2>10, <2>11, <2>12 DEF IInv
<1>5. CASE mine # <<>>
  <2>1. PICK h \in Conns :
          /\ h \in ToSet(dict) /\ UserOf(h) = UserOf(c)
          /\ list' = [list EXCEPT ![h] = Append(list[h], c)]
    BY <1>1, <1>5, ListsOfIs, DictIs DEF Connect, Added
  <2>2. dict' = dict /\ Rest(c, "open")
    BY <1>5 DEF Connect
  <2>3. /\ co' \in [Conns -> Coroutine] /\ co'[c].pc = "open"
        /\ \A d \in Conns \ {c} : co'[d] = co[d]
        /\ WalkInv(c)' /\ Old \subseteq Old' /\ c \in Old'
        /\ \A d \in Conns : co'[d].pc \in Registered <=>
                              d = c \/ co[d].pc \in Registered
        /\ \A d \in Conns : CoroutineInv(d)'
    BY <1>3, <2>2
  <2> PICK old \in Seq(Conns) : old = list[h]
    BY <1>1
  <2> PICK grown \in Seq(Conns) : grown = Append(old, c)
    BY AppendIs
  <2>4. /\ list'[h] = grown /\ \A g \in Conns \ {h} : list'[g] = list[g]
        /\ list' \in [Conns -> Seq(Conns)]
    BY <1>1, <2>1
  <2>5. /\ DOMAIN grown = DOMAIN old \union {Len(old) + 1}
        /\ \A i \in DOMAIN old : grown[i] = old[i]
        /\ grown[Len(old) + 1] = c
        /\ ToSet(grown) = ToSet(old) \union {c} /\ grown # <<>>
    BY AppendIs, ToSetIs
  <2>6. TypeOK'
    BY <1>1, <2>2, <2>3, <2>4 DEF TypeOK
  <2>7. ASSUME NEW g \in Conns PROVE ListInv(g)'
    <3>1. ListInv(g)
      BY <1>1 DEF DictInv
    <3>2. CASE g = h
      <4>1. \A i \in DOMAIN grown : /\ co'[grown[i]].pc \in Registered
                                    /\ UserOf(grown[i]) = UserOf(h)
        BY <1>2, <2>1, <2>3, <2>5, <3>1, <3>2 DEF ListInv
      <4>2. \A i, j \in DOMAIN grown : grown[i] = grown[j] => i = j
        BY <1>2, <2>5, <3>1, <3>2 DEF ListInv
      <4>3. h \in Old'
        BY <2>1, <2>3, <3>1, <3>2 DEF ListInv
      <4> QED BY <2>1, <2>2, <2>4, <2>5, <3>2, <4>1, <4>2, <4>3 DEF ListInv
    <3>3. CASE g # h
      <4>1. list'[g] = list[g] /\ dict' = dict /\ Old \subseteq Old'
        BY <2>2, <2>3, <2>4, <3>3
      <4>2. \A i \in DOMAIN list[g] : co[list[g][i]].pc \in Registered =>
                                       co'[list[g][i]].pc \in Registered
        BY <1>2, <2>3
      <4> QED BY <3>1, <4>1, <4>2 DEF ListInv
    <3> QED BY <3>2, <3>3
  <2>8. ASSUME NEW d \in Conns, co'[d].pc \in Registered
        PROVE  \E g \in ToSet(dict) : /\ UserOf(g) = UserOf(d)
                                      /\ d \in ToSet(list'[g])
    <3>1. CASE d = c
      BY <2>1, <2>4, <2>5, <3>1
    <3>2. CASE d # c
      <4>1. PICK g \in ToSet(dict) : /\ UserOf(g) = UserOf(d)
                                     /\ d \in ToSet(list[g])
        BY <1>1, <2>3, <2>8, <3>2 DEF DictInv
      <4>2. g \in Conns
        BY <1>1, ToSetIs
      <4> QED BY <2>4, <2>5, <4>1, <4>2
    <3> QED BY <3>1, <3>2
  <2>9. DictInv'
    BY <1>1, <2>2, <2>7, <2>8 DEF DictInv
  <2>10. ASSUME NEW d \in Conns \ {c} PROVE WalkInv(d)'
    BY <1>1, <2>1, <2>3, WalkGrows
  <2>11. OfflineIsForgotten'
    <3>1. \A u : ListsOf(u)' = ListsOf(u)
      BY <2>2 DEF ListsOf
    <3>2. \A d \in Conns : At(d, "set_inactive") => At(d, "set_inactive")'
      BY <1>1, <2>3 DEF At
    <3> QED BY <1>1, <3>1, <3>2 DEF IInv, OfflineIsForgotten
  <2> QED BY <2>3, <2>6, <2>9, <2>10, <2>11 DEF IInv
<1> QED BY <1>4, <1>5

\* A walk goes on over a list that lost one of its connections: what it has yet
\* to come to it had yet to come to before, and if it began before the lost one
\* was listed, that was behind all of those it was to reach.
LEMMA WalkShrinks ==
  ASSUME IInv, NEW d \in Conns, NEW h \in Conns, NEW c \in ToSet(list[h]),
         co'[d] = co[d], Old \subseteq Old',
         shifted' = shifted \union {e \in Conns : c \in co[e].due},
         list' = [list EXCEPT ![h] = Without(list[h], c)]
  PROVE  WalkInv(d)'
<1>1. /\ TypeOK /\ WalkInv(d) /\ list \in [Conns -> Seq(Conns)]
      /\ co[d].walk \in Seq(Conns)
  BY Types DEF IInv
<1> PICK old \in Seq(Conns) : old = list[h]
  BY <1>1
<1>2. /\ \A i, j \in DOMAIN old : old[i] = old[j] => i = j
      /\ c \in ToSet(old)
  BY DEF IInv, DictInv, ListInv
<1> PICK short : short = Without(old, c)
  OBVIOUS
<1>3. PICK k \in DOMAIN old :
        /\ old[k] = c /\ DOMAIN short = 1..(Len(old) - 1)
        /\ \A i \in 1..(Len(old) - 1) :
             short[i] = IF i < k THEN old[i] ELSE old[i + 1]
  BY <1>2, WithoutIs
<1>4. k \in 1..Len(old) /\ Len(old) \in Nat /\ DOMAIN old = 1..Len(old)
  OBVIOUS
<1>5. list'[h] = short /\ \A g \in Conns \ {h} : list'[g] = list[g]
  BY <1>1
<1> DEFINE pos(i) == IF i < k THEN i ELSE i + 1
<1>6. \A i \in DOMAIN short : /\ pos(i) \in DOMAIN old /\ i <= pos(i)
                              /\ short[i] = old[pos(i)] /\ i \in Nat
  BY <1>3, <1>4
<1>7. \A i, j \in DOMAIN short : i < j => pos(i) < pos(j)
  BY <1>3, <1>4
<1>8. \A q \in DOMAIN old : q < k => q \in DOMAIN short /\ short[q] = old[q]
  BY <1>3, <1>4
<1> HIDE DEF pos
<1>9. \A j \in DOMAIN co[d].walk :
        /\ co[d].walk[j] \in Conns /\ co[d].walk[j] \in ToSet(co[d].walk)
        /\ From(d, j) \in Nat /\ From(d, j)' = From(d, j)
  <2>1. co[d].walk \in Seq(Conns) /\ co[d].idx \in Nat
    BY <1>1, Types
  <2>2. \A j \in DOMAIN co[d].walk :
          co[d].walk[j] \in Conns /\ co[d].walk[j] \in ToSet(co[d].walk)
    BY <2>1, ToSetIs
  <2>3. \A j \in DOMAIN co[d].walk :
          From(d, j) \in Nat /\ From(d, j)' = From(d, j)
    BY <1>1, <2>1 DEF From
  <2> QED BY <2>2, <2>3
<1>10. ASSUME NEW y, IsAhead(d, y)' PROVE IsAhead(d, y)
  <2>1. PICK j \in DOMAIN co[d].walk : \E p \in DOMAIN list'[co[d].walk[j]] :
          From(d, j) <= p /\ list'[co[d].walk[j]][p] = y
    BY <1>9, <1>10 DEF IsAhead
  <2>2. PICK p \in DOMAIN list'[co[d].walk[j]] :
          From(d, j) <= p /\ list'[co[d].walk[j]][p] = y
    BY <2>1
  <2>3. CASE co[d].walk[j] = h
    <3>1. p \in DOMAIN short /\ short[p] = y
      BY <1>5, <2>2, <2>3
    <3>2. pos(p) \in DOMAIN old /\ p <= pos(p) /\ old[pos(p)] = y /\ p \in Nat
      BY <1>6, <3>1
    <3>3. From(d, j) <= pos(p)
      BY <1>4, <1>9, <2>2, <3>2
    <3> QED BY <2>3, <3>2, <3>3 DEF IsAhead
  <2>4. CASE co[d].walk[j] # h
    <3>1. list'[co[d].walk[j]] = list[co[d].walk[j]]
      BY <1>5, <1>9, <2>4
    <3> QED BY <2>2, <3>1 DEF IsAhead
  <2> QED BY <2>3, <2>4
<1>11. ASSUME NEW g \in ToSet(co[d].walk),
              NEW p \in DOMAIN list'[g], NEW q \in DOMAIN list'[g],
              p < q, list'[g][q] \in co[d].due
       PROVE  list'[g][p] \in co[d].due
  <2>1. g \in Conns
    BY <1>1, ToSetIs
  <2>2. \A i, j \in DOMAIN list[g] :
          i < j /\ list[g][j] \in co[d].due => list[g][i] \in co[d].due
    BY <1>1 DEF WalkInv
  <2>3. CASE g # h
    <3>1. list'[g] = list[g]
      BY <1>5, <2>1, <2>3
    <3> QED BY <1>11, <2>2, <3>1
  <2>4. CASE g = h
    <3>1. /\ p \in DOMAIN short /\ q \in DOMAIN short
          /\ list'[g][p] = short[p] /\ list'[g][q] = short[q]
      BY <1>5, <2>4
    <3>2. /\ pos(p) \in DOMAIN old /\ pos(q) \in DOMAIN old
          /\ short[p] = old[pos(p)] /\ short[q] = old[pos(q)]
      BY <1>6, <3>1
    <3>3. pos(p) < pos(q)
      BY <1>7, <1>11, <3>1
    <3> QED BY <1>11, <2>2, <2>4, <3>1, <3>2, <3>3
  <2> QED BY <2>3, <2>4
<1>12. ASSUME d \notin shifted', NEW x \in co[d].due, IsAhead(d, x)
       PROVE  IsAhead(d, x)'
  <2>1. c \notin co[d].due
    BY <1>12
  <2>2. PICK j \in DOMAIN co[d].walk : \E p \in DOMAIN list[co[d].walk[j]] :
          From(d, j) <= p /\ list[co[d].walk[j]][p] = x
    BY <1>12 DEF IsAhead
  <2>3. PICK p \in DOMAIN list[co[d].walk[j]] :
          From(d, j) <= p /\ list[co[d].walk[j]][p] = x
    BY <2>2
  <2>4. p \in DOMAIN list'[co[d].walk[j]] /\ list'[co[d].walk[j]][p] = x
    <3>1. CASE co[d].walk[j] = h
      <4>1. p \in DOMAIN old /\ old[p] = x
        BY <2>3, <3>1
      <4>2. ~(k < p)
        BY <1>1, <1>3, <1>9, <2>1, <3>1, <4>1 DEF WalkInv
      <4>3. p # k
        BY <1>3, <2>1, <4>1
      <4>4. p < k
        BY <1>4, <4>1, <4>2, <4>3
      <4> QED BY <1>5, <1>8, <3>1, <4>1, <4>4
    <3>2. CASE co[d].walk[j] # h
      BY <1>5, <1>9, <2>3, <3>2
    <3> QED BY <3>1, <3>2
  <2> QED BY <1>9, <2>3, <2>4 DEF IsAhead
<1> QED BY <1>1, <1>10, <1>11, <1>12 DEF WalkInv

\* A connection is removed, and with the last of a user the list.
LEMMA DisconnectInv ==
  ASSUME IInv, NEW c \in Conns, Disconnect(c)
  PROVE  IInv'
<1>1. /\ TypeOK /\ DictInv /\ At(c, "open")
      /\ UNCHANGED <<online, events, lost>>
      /\ dict \in Seq(Conns) /\ list \in [Conns -> Seq(Conns)]
      /\ co \in [Conns -> Coroutine] /\ shifted \in SUBSET Conns
  BY Types DEF IInv, Disconnect
<1>2. PICK h \in ToSet(ListsOf(UserOf(c))) :
        /\ dict' = Kept(c, h)
        /\ list' = [list EXCEPT ![h] = Without(list[h], c)]
        /\ Rest(c, IF list[h] = <<c>> THEN "set_inactive" ELSE "closed")
        /\ shifted' = shifted \union {d \in Conns : c \in co[d].due}
  BY DEF Disconnect
<1>3. h \in ToSet(dict) /\ h \in Conns /\ UserOf(h) = UserOf(c)
  BY <1>1, ListsOfIs, DictIs
<1>4. c \in ToSet(list[h]) /\ co[c].pc = "open"
  <2>1. co[c].pc = "open" /\ co[c].pc \in Registered
    BY <1>1 DEF At, Registered
  <2>2. PICK g \in ToSet(dict) : UserOf(g) = UserOf(c) /\ c \in ToSet(list[g])
    BY <1>1, <2>1 DEF DictInv
  <2>3. g = h
    BY <1>1, <1>3, <2>2, ToSetIs DEF DictInv
  <2> QED BY <2>1, <2>2, <2>3
<1> PICK old \in Seq(Conns) : old = list[h]
  BY <1>1, <1>3
<1> PICK short : short = Without(old, c)
  OBVIOUS
<1>5. /\ short \in Seq(Conns) /\ ToSet(short) = ToSet(old) \ {c}
      /\ \A i, j \in DOMAIN short : short[i] = short[j] => i = j
      /\ Len(short) = Len(old) - 1
  <2>1. \A i, j \in DOMAIN old : old[i] = old[j] => i = j
    BY <1>1, <1>3 DEF DictInv, ListInv
  <2>2. c \in ToSet(old)
    BY <1>4
  <2> QED BY <2>1, <2>2, WithoutIs
<1>6. /\ list'[h] = short /\ \A g \in Conns \ {h} : list'[g] = list[g]
      /\ list' \in [Conns -> Seq(Conns)]
  BY <1>1, <1>2, <1>3, <1>5
<1>7. short = <<>> <=> old = <<c>>
  <2>1. old = <<c>> => short = <<>>
    BY <1>5
  <2>2. short = <<>> => old = <<c>>
    <3>1. SUFFICES ASSUME short = <<>> PROVE old = <<c>>
      OBVIOUS
    <3>2. Len(old) = 1
      BY <1>5, <3>1
    <3>3. old[1] = c
      <4>1. PICK i \in DOMAIN old : old[i] = c
        BY <1>4, ToSetIs
      <4> QED BY <3>2, <4>1
    <3> QED BY <3>2, <3>3
  <2> QED BY <2>1, <2>2
<1> PICK l \in {"set_inactive", "closed"} :
      l = IF old = <<c>> THEN "set_inactive" ELSE "closed"
  OBVIOUS
<1>8. l \in Labels /\ l \notin Registered /\ l # "new" /\ l # "withdraw"
  BY DEF Labels, Registered
<1>9. /\ co' \in [Conns -> Coroutine] /\ co'[c].pc = l
      /\ \A d \in Conns \ {c} : co'[d] = co[d]
      /\ WalkInv(c)'
  BY <1>1, <1>2, <1>8, RestFacts
<1>10. /\ Old \subseteq Old'
       /\ \A d \in Conns : co'[d].pc \in Registered <=>
                             d # c /\ co[d].pc \in Registered
  BY <1>1, <1>8, <1>9 DEF Old, At
<1>11. \A d \in Conns : CoroutineInv(d)'
  BY <1>8, <1>9 DEF IInv, CoroutineInv, At
<1>12. /\ dict' \in Seq(Conns)
       /\ ToSet(dict)' = IF old = <<c>> THEN ToSet(dict) \ {h} ELSE ToSet(dict)
       /\ \A i, j \in DOMAIN dict' : dict'[i] = dict'[j] => i = j
  <2>1. CASE old = <<c>>
    <3>1. dict' = Without(dict, h)
      BY <1>2, <2>1 DEF Kept
    <3> QED BY <1>1, <1>3, <2>1, <3>1, DictIs, WithoutIs
  <2>2. CASE old # <<c>>
    BY <1>1, <1>2, <2>2, DictIs DEF Kept
  <2> QED BY <2>1, <2>2
<1>13. TypeOK'
  BY <1>1, <1>2, <1>6, <1>9, <1>12 DEF TypeOK
<1>14. \A i, j \in DOMAIN dict' : UserOf(dict'[i]) = UserOf(dict'[j]) => i = j
  <2>1. \A a, b \in ToSet(dict) : UserOf(a) = UserOf(b) => a = b
    BY <1>1, ToSetIs DEF DictInv
  <2>2. \A i \in DOMAIN dict' : dict'[i] \in ToSet(dict)
    BY <1>12, ToSetIs
  <2> QED BY <1>12, <2>1, <2>2
<1>15. ASSUME NEW g \in Conns PROVE ListInv(g)'
  <2>1. ListInv(g) /\ ListInv(h)
    BY <1>1, <1>3 DEF DictInv
  <2>2. CASE g = h
    <3>1. /\ h \in ToSet(dict)' => h \in Old' /\ short # <<>>
          /\ h \notin ToSet(dict)' => short = <<>>
      BY <1>3, <1>7, <1>10, <1>12, <2>1 DEF ListInv
    <3>2. ASSUME NEW i \in DOMAIN short
          PROVE  co'[short[i]].pc \in Registered /\ UserOf(short[i]) = UserOf(h)
      <4>1. short[i] \in ToSet(old) /\ short[i] # c /\ short[i] \in Conns
        BY <1>5, ToSetIs
      <4>2. co[short[i]].pc \in Registered /\ UserOf(short[i]) = UserOf(h)
        BY <2>1, <4>1, ToSetIs DEF ListInv
      <4> QED BY <1>10, <4>1, <4>2
    <3> QED BY <1>5, <1>6, <2>2, <3>1, <3>2 DEF ListInv
  <2>3. CASE g # h
    <3>1. list'[g] = list[g] /\ Old \subseteq Old'
      BY <1>6, <1>10, <2>3
    <3>2. g \in ToSet(dict)' <=> g \in ToSet(dict)
      BY <1>12, <2>3
    <3>3. ASSUME NEW i \in DOMAIN list[g] PROVE list[g][i] # c
      BY <1>1, <1>3, <1>4, <2>3, Disjoint, ToSetIs
    <3>4. \A i \in DOMAIN list[g] : /\ list[g][i] \in Conns
                                    /\ co'[list[g][i]].pc \in Registered
      BY <1>1, <1>10, <2>1, <3>3 DEF ListInv
    <3> QED BY <2>1, <3>1, <3>2, <3>4 DEF ListInv
  <2> QED BY <2>2, <2>3
<1>16. ASSUME NEW d \in Conns, co'[d].pc \in Registered
       PROVE  \E g \in ToSet(dict)' : /\ UserOf(g) = UserOf(d)
                                      /\ d \in ToSet(list'[g])
  <2>1. d # c /\ co[d].pc \in Registered
    BY <1>10, <1>16
  <2>2. PICK g \in ToSet(dict) : UserOf(g) = UserOf(d) /\ d \in ToSet(list[g])
    BY <1>1, <2>1 DEF DictInv
  <2>3. g \in Conns
    BY <1>1, DictIs
  <2>4. d \in ToSet(list'[g])
    BY <1>5, <1>6, <2>1, <2>2, <2>3
  <2>5. g \in ToSet(dict)'
    <3>1. CASE g = h
      <4>1. short # <<>>
        BY <1>5, <1>6, <2>4, <3>1, ToSetIs
      <4> QED BY <1>7, <1>12, <4>1
    <3>2. CASE g # h
      BY <1>12, <3>2
    <3> QED BY <3>1, <3>2
  <2> QED BY <2>2, <2>4, <2>5
<1>17. DictInv'
  <2>1. ToSet(dict') = ToSet(dict)'
    OBVIOUS
  <2> QED BY <1>14, <1>15, <1>16, <2>1 DEF DictInv
<1>18. ASSUME NEW d \in Conns \ {c} PROVE WalkInv(d)'
  BY <1>2, <1>3, <1>4, <1>9, <1>10, WalkShrinks
<1>19. OfflineIsForgotten'
  <2> SUFFICES ASSUME NEW u \in online, (ListsOf(u) = <<>>)', u \notin lost
               PROVE  \E d \in Conns : UserOf(d) = u /\ At(d, "set_inactive")'
    BY <1>1 DEF OfflineIsForgotten
  <2>1. CASE ListsOf(u) = <<>>
    <3>1. PICK d \in Conns : UserOf(d) = u /\ At(d, "set_inactive")
      BY <2>1 DEF IInv, OfflineIsForgotten
    <3> QED BY <1>1, <1>9, <3>1 DEF At
  <2>2. CASE ListsOf(u) # <<>>
    <3>1. PICK g \in ToSet(dict) : UserOf(g) = u
      BY <2>2, NoList
    <3>2. g \notin ToSet(dict)'
      BY <3>1, NoList
    <3>3. g = h /\ old = <<c>>
      BY <1>12, <3>1, <3>2
    <3> QED BY <1>3, <1>9, <3>1, <3>3 DEF At
  <2> QED BY <2>1, <2>2
<1> QED BY <1>9, <1>11, <1>13, <1>17, <1>18, <1>19 DEF IInv

-----------------------------------------------------------------------------
(* The theorems *)

\* The invariant holds in every state that is reached.
THEOREM Invariance == Spec => []IInv
<1>1. ASSUME IInv, [Next]_vars PROVE IInv'
  <2>1. CASE UNCHANGED vars \/ \E u \in Users : KeyExpires(u)
    BY <1>1, <2>1, TimeInv
  <2>2. CASE \E c \in Conns :
               Connect(c) \/ Disconnect(c) \/ HandleEvent(c) \/ Step(c)
    BY <1>1, <2>2, ConnectInv, DisconnectInv, SendInv, CoroutineStep DEF Step
  <2>3. CASE ServerStops
    BY <1>1, <2>3, StopInv
  <2> QED BY <1>1, <2>1, <2>2, <2>3 DEF Next
<1> QED BY <1>1, InitInv, PTL DEF Spec

\* The lists hold exactly the open connections of each user, each once, and no
\* user has two lists or an empty one.
LEMMA ListsCorrect ==
  ASSUME IInv
  PROVE  ListsAreExact
<1>1. /\ TypeOK /\ DictInv /\ dict \in Seq(Conns)
      /\ ToSet(dict) \subseteq Conns /\ list \in [Conns -> Seq(Conns)]
  BY Types, DictIs DEF IInv
<1>2. \A i, j \in DOMAIN dict : UserOf(dict[i]) = UserOf(dict[j]) => i = j
  BY <1>1 DEF DictInv
<1>3. ASSUME NEW h \in ToSet(dict)
      PROVE  list[h] # <<>> /\ IsInjective(list[h])
  BY <1>1, <1>3 DEF DictInv, ListInv, IsInjective
<1>4. ASSUME NEW u \in Users
      PROVE  UNION {ToSet(list[h]) : h \in ToSet(ListsOf(u))}
               = {c \in Conns : UserOf(c) = u /\ co[c].pc \in Registered}
  <2>1. \A h : h \in ToSet(ListsOf(u)) <=> h \in ToSet(dict) /\ UserOf(h) = u
    BY <1>1, ListsOfIs
  <2>2. ASSUME NEW h \in ToSet(ListsOf(u)), NEW c \in ToSet(list[h])
        PROVE  c \in Conns /\ UserOf(c) = u /\ co[c].pc \in Registered
    <3>1. h \in Conns /\ UserOf(h) = u /\ ListInv(h) /\ list[h] \in Seq(Conns)
      BY <1>1, <2>1 DEF DictInv
    <3> QED BY <3>1, ToSetIs DEF ListInv
  <2>3. ASSUME NEW c \in Conns, UserOf(c) = u, co[c].pc \in Registered
        PROVE  \E h \in ToSet(ListsOf(u)) : c \in ToSet(list[h])
    BY <1>1, <2>1, <2>3 DEF DictInv
  <2> QED BY <2>2, <2>3
<1> QED BY <1>2, <1>3, <1>4 DEF ListsAreExact

\* What the server holds in memory is exactly the open connections, and a user
\* without one has no presence key unless it is about to be deleted, or Redis or
\* the server failed: whatever connects, leaves, walks or crashes in between.
THEOREM PresenceCorrect == Spec => []PresenceIsExact
<1>1. IInv => PresenceIsExact
  BY ListsCorrect DEF IInv, PresenceIsExact
<1> QED BY <1>1, Invariance, PTL

\* No walk sends to the same connection twice, though coroutines append to the
\* list it walks, and remove from it, at every await.
THEOREM NeverTwice == Spec => []NoSecondSend
<1>1. IInv => NoSecondSend
  BY ComingIs DEF IInv, NoSecondSend, WalkInv
<1> QED BY <1>1, Invariance, PTL

\* A walk that ends has tried every connection that was listed when it began,
\* unless one of these was removed from under it.
THEOREM NoneMissed == Spec => []MissedOnlyByRemoval
<1>1. ASSUME IInv, NEW c \in Conns, Done(c), c \notin shifted,
             NEW x \in co[c].due
      PROVE  x \in co[c].sent
  <2>1. ~IsAhead(c, x)
    <3> SUFFICES ASSUME NEW j \in DOMAIN co[c].walk,
                        NEW p \in DOMAIN list[co[c].walk[j]], From(c, j) <= p
                 PROVE  Left(c, j)
      BY <1>1 DEF IsAhead, Done
    <3>1. list[co[c].walk[j]] \in Seq(Conns) /\ From(c, j) \in Nat
      BY <1>1, Types DEF IInv, From
    <3> QED BY <3>1 DEF Left
  <2> QED BY <1>1, <2>1 DEF IInv, WalkInv
<1>2. IInv => MissedOnlyByRemoval
  BY <1>1 DEF MissedOnlyByRemoval
<1> QED BY <1>2, Invariance, PTL
=============================================================================
