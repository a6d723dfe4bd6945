------------------------- MODULE Notifications_proofs -------------------------
(***************************************************************************)
(* Proofs about Notifications for any events, topics and users: whatever   *)
(* ends the consumer or the server, no committed offset skips an event     *)
(* that is not accounted for, and nothing is doubled while every position  *)
(* was committed.  The second part is about Deployment, the start of any   *)
(* service, this one among them, however often it is started.              *)
(***************************************************************************)
EXTENDS Notifications, Deployment, TLAPS

\* The events below the position of the consumer.
Taken(e) == \E t \in Topics : \E i \in 1..position[t] : log[t][i] = e

\* An event is published once, and to its own topic.
LogInv ==
  \A t \in Topics : \A i \in 1..Len(log[t]) :
    /\ log[t][i] \in Events /\ TopicOf(log[t][i]) = t
    /\ \A j \in 1..Len(log[t]) : log[t][i] = log[t][j] => i = j

Mailing == {"connect", "send", "retry", "resend", "sent", "failed"}

\* What the consumer thread is at.
ThreadInv ==
  /\ thread.pc \in {"off", "poll"} <=> thread.event = None
  /\ server = "down" => thread = Off
  /\ thread.event # None => Taken(thread.event)
  /\ thread.pc \in Mailing => EffectOf(thread.event) = "mail"
  /\ thread.pc = "sent" => mails[thread.event] > 0
  /\ thread.pc \in {"retry", "resend"} => thread.event \in retried

Accounted(e) ==
  Done(e) \/ e \in saving \/ e = thread.event \/ e \in lost

\* What was taken is accounted for, committed or not.
AccountInv == \A e \in Events : Taken(e) => Accounted(e)

\* As long as every position was committed, an event is taken once.
OnceInv ==
  \/ unclean
  \/ /\ server = "down" => committed = position
     /\ \A e \in Events :
          /\ ~Taken(e) => rows[e] = 0 /\ mails[e] = 0 /\ e \notin saving
          /\ rows[e] <= 1 /\ (e \in saving => rows[e] = 0)
          /\ mails[e] <= 1 \/ e \in retried
          /\ thread.event = e /\ thread.pc \in {"taken", "connect", "send"} =>
               rows[e] = 0 /\ mails[e] = 0 /\ e \notin saving

IInv == TypeOK /\ LogInv /\ ThreadInv /\ AccountInv /\ OnceInv

-----------------------------------------------------------------------------
(* Logs and positions *)

\* Below and Taken are the same of the position.
LEMMA BelowPosition ==
  ASSUME TypeOK, LogInv, NEW e
  PROVE  /\ e \in Below(position) <=> Taken(e)
         /\ e \in Below(committed) => Taken(e)
         /\ Taken(e) => e \in Events
<1>1. e \in Below(position) <=> Taken(e)
  BY DEF Below, Taken
<1>2. ASSUME e \in Below(committed) PROVE Taken(e)
  <2>1. PICK t \in Topics : \E i \in 1..committed[t] : log[t][i] = e
    BY <1>2 DEF Below
  <2>2. 1..committed[t] \subseteq 1..position[t]
    BY DEF TypeOK
  <2> QED BY <2>1, <2>2 DEF Taken
<1>3. ASSUME Taken(e) PROVE e \in Events
  <2>1. PICK t \in Topics : \E i \in 1..position[t] : log[t][i] = e
    BY <1>3 DEF Taken
  <2>2. 1..position[t] \subseteq 1..Len(log[t])
    BY <2>1 DEF TypeOK
  <2> QED BY <2>1, <2>2 DEF LogInv
<1> QED BY <1>1, <1>2, <1>3

\* A step that moves neither keeps both.
LEMMA SameOffsets ==
  ASSUME UNCHANGED <<log, position>>
  PROVE  /\ LogInv => LogInv'
         /\ \A e : Taken(e)' <=> Taken(e)
BY DEF LogInv, Taken

\* What is published is new in its topic, and not taken yet.
LEMMA PublishOffsets ==
  ASSUME TypeOK, LogInv, NEW e \in Events, Publish(e)
  PROVE  /\ LogInv'
         /\ \A d : Taken(d)' <=> Taken(d)
         /\ log' \in [Topics -> Seq(Events)]
         /\ \A t \in Topics : Len(log[t]) <= Len(log'[t])
<1> DEFINE s == TopicOf(e)
<1>1. s \in Topics
  BY NotificationsAssumption
<1>2. \A t \in Topics \ {s} : log'[t] = log[t]
  BY DEF Publish, TypeOK
<1>3. log'[s] = Append(log[s], e) /\ log[s] \in Seq(Events)
  BY <1>1 DEF Publish, TypeOK
<1>4. /\ Len(log[s]) \in Nat /\ Len(log'[s]) = Len(log[s]) + 1
      /\ \A i \in 1..Len(log[s]) : log'[s][i] = log[s][i]
      /\ log'[s][Len(log[s]) + 1] = e
      /\ log'[s] \in Seq(Events)
  BY <1>3
<1>5. \A i \in 1..Len(log[s]) : log[s][i] # e
  <2> SUFFICES ASSUME NEW i \in 1..Len(log[s]), log[s][i] = e PROVE FALSE
    OBVIOUS
  <2> DEFINE end == [t \in Topics |-> Len(log[t])]
  <2>1. e \in {log[s][j] : j \in 1..end[s]}
    BY <1>1
  <2>2. e \in Published
    BY <1>1, <2>1 DEF Published, Below
  <2> QED BY <2>2 DEF Publish
<1>6. LogInv'
  <2> SUFFICES ASSUME NEW t \in Topics, NEW i \in 1..Len(log'[t]),
                      NEW j \in 1..Len(log'[t])
               PROVE  /\ log'[t][i] \in Events /\ TopicOf(log'[t][i]) = t
                      /\ log'[t][i] = log'[t][j] => i = j
    BY DEF LogInv
  <2>1. CASE t # s
    BY <1>2, <2>1 DEF LogInv
  <2>2. CASE t = s
    <3>1. \A k \in 1..Len(log'[s]) :
            \/ k \in 1..Len(log[s]) /\ log'[s][k] = log[s][k]
            \/ k = Len(log[s]) + 1 /\ log'[s][k] = e
      BY <1>4
    <3>2. \A k \in 1..Len(log[s]) :
            /\ log[s][k] \in Events /\ TopicOf(log[s][k]) = s
            /\ \A l \in 1..Len(log[s]) : log[s][k] = log[s][l] => k = l
      BY <1>1 DEF LogInv
    <3> QED BY <1>5, <2>2, <3>1, <3>2
  <2> QED BY <2>1, <2>2
<1>7. ASSUME NEW d, NEW t \in Topics, NEW i \in 1..position[t]
      PROVE  log'[t][i] = log[t][i]
  <2>1. i \in 1..Len(log[t])
    BY DEF TypeOK
  <2> QED BY <1>2, <1>4, <2>1
<1>8. position' = position
  BY DEF Publish
<1>9. \A d : Taken(d)' <=> Taken(d)
  BY <1>7, <1>8 DEF Taken
<1>10. log' \in [Topics -> Seq(Events)]
  BY <1>1, <1>4 DEF Publish, TypeOK
<1> QED BY <1>2, <1>4, <1>6, <1>9, <1>10

\* The next event of a topic was not taken before.
LEMMA TakeOffsets ==
  ASSUME TypeOK, LogInv, NEW t \in Topics, Take(t)
  PROVE  LET e == log[t][position[t] + 1] IN
         /\ e \in Events /\ ~Taken(e)
         /\ \A d : Taken(d)' <=> Taken(d) \/ d = e
         /\ position' \in [Topics -> Nat] /\ position'[t] = position[t] + 1
         /\ position[t] + 1 <= Len(log[t])
         /\ \A s \in Topics \ {t} : position'[s] = position[s]
<1> DEFINE n == position[t] + 1
           e == log[t][n]
<1>1. /\ position[t] \in Nat /\ n \in 1..Len(log[t]) /\ UNCHANGED log
      /\ position' = [position EXCEPT ![t] = n]
  BY DEF Take, Due, TypeOK
<1>2. /\ position' \in [Topics -> Nat] /\ position'[t] = n
      /\ \A s \in Topics \ {t} : position'[s] = position[s]
  BY <1>1 DEF TypeOK
<1>3. e \in Events /\ TopicOf(e) = t
  BY <1>1 DEF LogInv
<1>4. ~Taken(e)
  <2> SUFFICES ASSUME NEW s \in Topics, NEW i \in 1..position[s],
                      log[s][i] = e
               PROVE  FALSE
    BY DEF Taken
  <2>1. i \in 1..Len(log[s])
    BY DEF TypeOK
  <2>2. s = t
    BY <1>3, <2>1 DEF LogInv
  <2>3. i = n
    BY <1>1, <2>1, <2>2 DEF LogInv
  <2> QED BY <1>1, <2>2, <2>3
<1>5. ASSUME NEW d PROVE Taken(d)' <=> Taken(d) \/ d = e
  <2>1. ASSUME Taken(d) \/ d = e PROVE Taken(d)'
    <3>1. \A s \in Topics : 1..position[s] \subseteq 1..position'[s]
      BY <1>1, <1>2 DEF TypeOK
    <3>2. n \in 1..position'[t]
      BY <1>1, <1>2
    <3> QED BY <1>1, <2>1, <3>1, <3>2 DEF Taken
  <2>2. ASSUME Taken(d)' PROVE Taken(d) \/ d = e
    <3>1. PICK s \in Topics : \E i \in 1..position'[s] : log[s][i] = d
      BY <1>1, <2>2 DEF Taken
    <3>2. \A i \in 1..position'[s] : i \in 1..position[s] \/ (s = t /\ i = n)
      BY <1>1, <1>2, <3>1 DEF TypeOK
    <3> QED BY <3>1, <3>2 DEF Taken
  <2> QED BY <2>1, <2>2
<1> QED BY <1>1, <1>2, <1>3, <1>4, <1>5

-----------------------------------------------------------------------------
(* Kinds of steps *)

\* An event has one of three effects.
LEMMA DoneFacts ==
  ASSUME NEW e \in Events
  PROVE  /\ EffectOf(e) \in {"mail", "row", "none"}
         /\ EffectOf(e) = "mail" => /\ Done(e)  <=> mails[e] > 0
                                    /\ Done(e)' <=> mails'[e] > 0
         /\ EffectOf(e) = "row"  => /\ Done(e)  <=> rows[e] > 0
                                    /\ Done(e)' <=> rows'[e] > 0
         /\ EffectOf(e) = "none" => Done(e) /\ Done(e)'
<1>1. EffectOf(e) \in {"mail", "row", "none"}
  BY NotificationsAssumption
<1> QED BY <1>1 DEF Done

LEMMA InitInv == Init => IInv
<1> SUFFICES ASSUME Init PROVE IInv
  OBVIOUS
<1>1. TypeOK
  <2>1. /\ log \in [Topics -> Seq(Events)]
        /\ position \in [Topics -> Nat] /\ committed \in [Topics -> Nat]
        /\ \A t \in Topics : /\ committed[t] <= position[t]
                             /\ position[t] <= Len(log[t])
    BY DEF Init
  <2>2. thread \in Thread
    BY DEF Init, Thread, Off
  <2>3. /\ rows \in [Events -> Nat] /\ mails \in [Events -> Nat]
        /\ read \in [Events -> Nat] /\ \A e \in Events : read[e] <= rows[e]
    BY DEF Init
  <2>4. runs \in 0..MaxRuns
    BY NotificationsAssumption DEF Init
  <2> QED BY <2>1, <2>2, <2>3, <2>4 DEF Init, TypeOK
<1>2. /\ \A t \in Topics : position[t] = 0 /\ Len(log[t]) = 0
      /\ thread.pc = "off" /\ thread.event = None /\ thread = Off
      /\ committed = position /\ saving = {}
      /\ \A e \in Events : rows[e] = 0 /\ mails[e] = 0
  BY DEF Init, Off
<1>3. LogInv
  BY <1>2 DEF LogInv
<1>4. \A e : ~Taken(e)
  <2>1. \A t \in Topics : 1..position[t] = {}
    BY <1>2
  <2> QED BY <2>1 DEF Taken
<1>5. ThreadInv
  BY <1>2 DEF ThreadInv, Mailing
<1>6. AccountInv
  BY <1>4 DEF AccountInv
<1>7. OnceInv
  BY <1>2 DEF OnceInv
<1> QED BY <1>1, <1>3, <1>5, <1>6, <1>7 DEF IInv

\* A step that neither takes an event nor does anything with one.
LEMMA QuietInv ==
  ASSUME IInv, TypeOK',
         UNCHANGED <<log, position, thread, saving, rows, mails, lost,
                     retried>>,
         server' = "down" => server = "down" /\ committed' = committed,
         unclean => unclean'
  PROVE  IInv'
<1>1. LogInv' /\ \A e : Taken(e)' <=> Taken(e)
  BY SameOffsets DEF IInv
<1>2. ThreadInv'
  BY <1>1 DEF IInv, ThreadInv
<1>3. AccountInv'
  BY <1>1 DEF IInv, AccountInv, Accounted, Done
<1>4. OnceInv'
  BY <1>1 DEF IInv, OnceInv
<1> QED BY <1>1, <1>2, <1>3, <1>4 DEF IInv

\* A step of the consumer thread: what is done stays done, and the event it had
\* stays accounted for.
LEMMA ThreadStepInv ==
  ASSUME IInv, TypeOK', UNCHANGED <<log, position, rows>>,
         server' # "down", ThreadInv',
         saving \subseteq saving', lost \subseteq lost',
         \A e \in Events : mails[e] <= mails'[e],
         \A e \in Events : e = thread.event => Accounted(e)',
         OnceInv'
  PROVE  IInv'
<1>1. LogInv' /\ \A e : Taken(e)' <=> Taken(e)
  BY SameOffsets DEF IInv
<1>2. ASSUME NEW e \in Events, Accounted(e) PROVE Accounted(e)'
  <2>1. CASE e = thread.event
    BY <2>1
  <2>2. CASE Done(e)
    <3>1. mails[e] \in Nat /\ mails'[e] \in Nat /\ rows' = rows
      BY DEF IInv, TypeOK
    <3> QED BY <2>2, <3>1, DoneFacts DEF Accounted
  <2>3. CASE e \in saving \/ e \in lost
    BY <2>3 DEF Accounted
  <2> QED BY <1>2, <2>1, <2>2, <2>3 DEF Accounted
<1>3. AccountInv'
  BY <1>1, <1>2 DEF IInv, AccountInv
<1> QED BY <1>1, <1>3 DEF IInv

-----------------------------------------------------------------------------
(* One lemma for each action that moves events *)

\* Steps of the main thread, commits and readers.
LEMMA MainInv ==
  ASSUME IInv,
         \/ OpenSmtp \/ Login \/ StopConsumer \/ Commit \/ UNCHANGED vars
         \/ \E e \in Events : MarkAsRead(e)
         \/ \E u \in Users : MarkAllAsRead(u)
  PROVE  IInv'
<1>1. TypeOK
  BY DEF IInv
<1>2. CASE OpenSmtp \/ Login \/ UNCHANGED vars
  <2>1. TypeOK'
    BY <1>1, <1>2 DEF OpenSmtp, Login, vars, TypeOK, kafka, history
  <2> QED BY <1>2, <2>1, QuietInv DEF OpenSmtp, Login, vars, kafka, history
<1>3. CASE StopConsumer \/ Commit
  <2>1. committed' \in {committed, position} /\ unclean' \in BOOLEAN
    BY <1>1, <1>3 DEF StopConsumer, Commit, Close, Polled, TypeOK, history
  <2>2. TypeOK'
    <3>1. CASE StopConsumer
      <4>1. /\ committed' \in [Topics -> Nat]
            /\ \A t \in Topics : committed'[t] <= position[t]
        BY <1>1, <2>1 DEF TypeOK
      <4>2. /\ UNCHANGED <<log, position, runs, thread, smtp, saving, rows,
                            read, mails, lost, raised, retried>>
            /\ server' = "stopping"
        BY <3>1 DEF StopConsumer
      <4> QED BY <1>1, <2>1, <4>1, <4>2 DEF TypeOK
    <3>2. CASE Commit
      BY <1>1, <2>1, <3>2 DEF Commit, TypeOK, history
    <3> QED BY <1>3, <3>1, <3>2
  <2>3. unclean => unclean'
    BY <1>3 DEF StopConsumer, Commit, Close, history
  <2>4. server' = "down" => server = "down" /\ committed' = committed
    <3>1. CASE StopConsumer
      BY <3>1 DEF StopConsumer
    <3>2. CASE Commit
      BY <3>2 DEF Commit, IInv, ThreadInv, Off
    <3> QED BY <1>3, <3>1, <3>2
  <2> QED BY <1>3, <2>2, <2>3, <2>4, QuietInv
          DEF StopConsumer, Commit, history
<1>4. ASSUME \/ \E e \in Events : MarkAsRead(e)
             \/ \E u \in Users : MarkAllAsRead(u)
      PROVE  IInv'
  <2>1. /\ read' \in [Events -> Nat] /\ \A e \in Events : read'[e] <= rows[e]
        /\ UNCHANGED <<kafka, server, runs, thread, smtp, saving, rows, mails,
                       history>>
    <3>1. ASSUME NEW e \in Events, MarkAsRead(e)
          PROVE  /\ read' \in [Events -> Nat]
                 /\ \A d \in Events : read'[d] <= rows[d]
      BY <1>1, <3>1 DEF MarkAsRead, TypeOK
    <3>2. ASSUME NEW u \in Users, MarkAllAsRead(u)
          PROVE  /\ read' \in [Events -> Nat]
                 /\ \A d \in Events : read'[d] <= rows[d]
      <4>1. \A d \in Events : rows[d] \in Nat /\ rows[d] <= rows[d]
        BY <1>1 DEF TypeOK
      <4> QED BY <1>1, <3>2, <4>1 DEF MarkAllAsRead, TypeOK
    <3> QED BY <1>4, <3>1, <3>2 DEF MarkAsRead, MarkAllAsRead
  <2>2. TypeOK'
    BY <1>1, <2>1 DEF TypeOK, kafka, history
  <2> QED BY <2>1, <2>2, QuietInv DEF kafka, history
<1> QED BY <1>2, <1>3, <1>4

LEMMA PublishInv ==
  ASSUME IInv, NEW e \in Events, Publish(e)
  PROVE  IInv'
<1>1. /\ TypeOK /\ LogInv /\ LogInv' /\ \A d : Taken(d)' <=> Taken(d)
      /\ log' \in [Topics -> Seq(Events)]
      /\ \A t \in Topics : Len(log[t]) <= Len(log'[t])
      /\ UNCHANGED <<position, committed, server, runs, thread, smtp, saving,
                     rows, read, mails, history>>
  BY PublishOffsets DEF IInv, Publish
<1>2. \A t \in Topics : position[t] <= Len(log'[t])
  BY <1>1 DEF TypeOK
<1>3. TypeOK'
  BY <1>1, <1>2 DEF TypeOK, history
<1>4. ThreadInv'
  BY <1>1 DEF IInv, ThreadInv, history
<1>5. AccountInv'
  BY <1>1 DEF IInv, AccountInv, Accounted, Done, history
<1>6. OnceInv'
  BY <1>1 DEF IInv, OnceInv, history
<1> QED BY <1>1, <1>3, <1>4, <1>5, <1>6 DEF IInv

\* A restart goes back to what was committed, which is less or, if every
\* position was committed, the same.
LEMMA StartInv ==
  ASSUME IInv, StartConsumer
  PROVE  IInv'
<1>1. /\ TypeOK /\ server = "down" /\ server' = "opening" /\ thread' = Poll
      /\ position' = committed /\ runs' = runs + 1 /\ runs < MaxRuns
      /\ raised' = FALSE /\ thread = Off
      /\ UNCHANGED <<log, committed, smtp, saving, rows, read, mails, lost,
                     unclean, retried>>
  BY DEF IInv, StartConsumer, Resumes, ThreadInv
<1>2. TypeOK'
  <2>1. Poll \in Thread
    BY DEF Poll, Thread
  <2>2. runs' \in 0..MaxRuns
    BY <1>1, NotificationsAssumption DEF TypeOK
  <2>3. \A t \in Topics : /\ committed[t] <= committed[t]
                          /\ committed[t] <= Len(log[t])
    BY <1>1 DEF TypeOK
  <2> QED BY <1>1, <2>1, <2>2, <2>3 DEF TypeOK
<1>3. LogInv'
  BY <1>1 DEF IInv, LogInv
<1>4. ASSUME NEW e, Taken(e)' PROVE Taken(e)
  <2>1. \A t \in Topics : 1..committed[t] \subseteq 1..position[t]
    BY <1>1 DEF TypeOK
  <2> QED BY <1>1, <1>4, <2>1 DEF Taken
<1>5. ThreadInv'
  BY <1>1 DEF ThreadInv, Poll, Mailing
<1>6. AccountInv'
  <2>1. ASSUME NEW e \in Events, Accounted(e) PROVE Accounted(e)'
    BY <1>1, <2>1, NotificationsAssumption DEF Accounted, Done, Off
  <2> QED BY <1>4, <2>1 DEF IInv, AccountInv
<1>7. OnceInv'
  <2>1. CASE unclean
    BY <1>1, <2>1 DEF OnceInv
  <2>2. CASE ~unclean
    <3>1. position' = position
      BY <1>1, <2>2 DEF IInv, OnceInv
    <3>2. \A e : Taken(e)' <=> Taken(e)
      BY <1>1, <3>1 DEF Taken
    <3> QED BY <1>1, <2>2, <3>2 DEF IInv, OnceInv, Poll
  <2> QED BY <2>1, <2>2
<1> QED BY <1>2, <1>3, <1>5, <1>6, <1>7 DEF IInv

\* What ends with the process is lost.
LEMMA ExitInv ==
  ASSUME IInv, Exit
  PROVE  IInv'
<1>1. /\ TypeOK /\ server' = "down" /\ thread' = Off /\ smtp' = FALSE
      /\ saving' = {} /\ lost' = lost \union saving \union
                                   ({thread.event} \ {None})
      /\ unclean' = (unclean \/ committed # position)
      /\ UNCHANGED <<kafka, runs, rows, read, mails, raised, retried>>
  BY DEF IInv, Exit
<1>2. LogInv' /\ \A e : Taken(e)' <=> Taken(e)
  BY <1>1, SameOffsets DEF IInv, kafka
<1>3. TypeOK'
  <2>1. Off \in Thread /\ thread.event \in Events \union {None}
    BY <1>1 DEF Off, Thread, TypeOK
  <2>2. lost' \in SUBSET Events
    BY <1>1, <2>1 DEF TypeOK
  <2>3. unclean' \in BOOLEAN
    BY <1>1
  <2> QED BY <1>1, <2>1, <2>2, <2>3 DEF TypeOK, kafka
<1>4. ThreadInv'
  BY <1>1 DEF ThreadInv, Off, Mailing
<1>5. AccountInv'
  <2>1. ASSUME NEW e \in Events, Accounted(e) PROVE Accounted(e)'
    BY <1>1, <2>1, NotificationsAssumption DEF Accounted, Done
  <2> QED BY <1>2, <2>1 DEF IInv, AccountInv
<1>6. OnceInv'
  BY <1>1, <1>2 DEF IInv, OnceInv, kafka, Off
<1> QED BY <1>2, <1>3, <1>4, <1>5, <1>6 DEF IInv

\* The event that is taken was not taken before.
LEMMA TakeInv ==
  ASSUME IInv, NEW t \in Topics, Take(t)
  PROVE  IInv'
<1>1. /\ TypeOK /\ LogInv /\ thread.pc = "poll" /\ server # "stopping"
      /\ UNCHANGED <<log, committed, server, runs, smtp, saving, rows, read,
                     mails, history>>
  BY DEF IInv, Take
<1>2. PICK e \in Events :
        /\ thread' = [Poll EXCEPT !.pc = "taken", !.event = e] /\ ~Taken(e)
        /\ \A d : Taken(d)' <=> Taken(d) \/ d = e
  BY <1>1, TakeOffsets DEF Take
<1>3. /\ position' \in [Topics -> Nat] /\ position'[t] = position[t] + 1
      /\ position[t] + 1 <= Len(log[t])
      /\ \A s \in Topics \ {t} : position'[s] = position[s]
  BY <1>1, TakeOffsets
<1>4. /\ thread' \in Thread /\ thread'.pc = "taken" /\ thread'.event = e
      /\ thread.event = None /\ server # "down" /\ e # None
  <2>1. thread' \in Thread /\ thread'.pc = "taken" /\ thread'.event = e
    BY <1>2 DEF Poll, Thread
  <2>2. thread.event = None /\ server # "down"
    BY <1>1 DEF IInv, ThreadInv, Off
  <2> QED BY <2>1, <2>2, NotificationsAssumption
<1>5. TypeOK'
  <2>1. ASSUME NEW s \in Topics
        PROVE  committed[s] <= position'[s] /\ position'[s] <= Len(log[s])
    <3>1. /\ committed[s] \in Nat /\ position[s] \in Nat
          /\ committed[s] <= position[s] /\ position[s] <= Len(log[s])
          /\ Len(log[s]) \in Nat
      BY <1>1 DEF TypeOK
    <3>2. position'[s] \in {position[s], position[s] + 1}
          /\ (position'[s] # position[s] => position[s] + 1 <= Len(log[s]))
      BY <1>3
    <3> QED BY <3>1, <3>2
  <2> QED BY <1>1, <1>4, <1>3, <2>1 DEF TypeOK, history
<1>6. LogInv'
  BY <1>1 DEF LogInv
<1>7. ThreadInv'
  BY <1>1, <1>2, <1>4 DEF ThreadInv, Mailing
<1>8. AccountInv'
  <2>1. ASSUME NEW d \in Events, Accounted(d) PROVE Accounted(d)'
    BY <1>1, <1>4, <2>1, NotificationsAssumption DEF Accounted, Done, history
  <2>2. Accounted(e)'
    BY <1>4 DEF Accounted
  <2> QED BY <1>2, <2>1, <2>2 DEF IInv, AccountInv
<1>9. OnceInv'
  BY <1>1, <1>2, <1>4 DEF IInv, OnceInv, history
<1> QED BY <1>5, <1>6, <1>7, <1>8, <1>9 DEF IInv

\* An event is handed to its handler, or passed by.
LEMMA DispatchInv ==
  ASSUME IInv, NEW e \in Events,
         DispatchMail(e) \/ DispatchRow(e) \/ DispatchNone(e)
  PROVE  IInv'
<1>1. /\ TypeOK /\ ThreadInv /\ thread.pc = "taken" /\ thread.event = e
      /\ e # None /\ server # "down"
      /\ UNCHANGED <<kafka, server, runs, smtp, rows, read, mails, history>>
  BY NotificationsAssumption
     DEF IInv, DispatchMail, DispatchRow, DispatchNone, Hands, ThreadInv, Off
<1>2. \/ /\ EffectOf(e) = "mail" /\ UNCHANGED saving
         /\ thread' = [thread EXCEPT !.pc = "connect"]
      \/ /\ EffectOf(e) = "row" /\ saving' = saving \union {e}
         /\ thread' = Poll
      \/ EffectOf(e) = "none" /\ UNCHANGED saving /\ thread' = Poll
  BY DEF DispatchMail, DispatchRow, DispatchNone, PassesBy
<1>3. /\ thread' \in Thread
      /\ \/ EffectOf(e) = "mail" /\ thread'.pc = "connect" /\ thread'.event = e
         \/ EffectOf(e) # "mail" /\ thread' = Poll
  <2>1. Poll \in Thread
    BY DEF Poll, Thread
  <2>2. /\ [thread EXCEPT !.pc = "connect"] \in Thread
        /\ [thread EXCEPT !.pc = "connect"].pc = "connect"
        /\ [thread EXCEPT !.pc = "connect"].event = e
    BY <1>1 DEF TypeOK, Thread
  <2> QED BY <1>2, <2>1, <2>2
<1>4. TypeOK'
  BY <1>1, <1>2, <1>3 DEF TypeOK, kafka, history
<1>5. \A d : Taken(d)' <=> Taken(d)
  BY <1>1, SameOffsets DEF kafka
<1>6. ThreadInv'
  BY <1>1, <1>3, <1>5 DEF ThreadInv, Mailing, Poll, history
<1>7. OnceInv'
  <2>1. CASE unclean
    BY <1>1, <2>1 DEF OnceInv, history
  <2>2. CASE ~unclean
    BY <1>1, <1>2, <1>3, <1>5, <2>2
       DEF IInv, OnceInv, ThreadInv, Poll, history, kafka
  <2> QED BY <2>1, <2>2
<1>8. Accounted(e)'
  BY <1>1, <1>2, <1>3, DoneFacts DEF Accounted
<1>9. \A d \in Events : mails[d] <= mails'[d]
  BY <1>1 DEF TypeOK
<1>10. saving \subseteq saving' /\ lost' = lost
  BY <1>1, <1>2 DEF history
<1> QED BY <1>1, <1>4, <1>6, <1>7, <1>8, <1>9, <1>10, ThreadStepInv DEF kafka

\* The mail is on its way: whether an attempt was accepted is not known when it
\* fails, and there is a second one.
LEMMA MailInv ==
  ASSUME IInv, Connect \/ Send \/ Reconnect \/ Resend
  PROVE  IInv'
<1> DEFINE e == thread.event
<1>1. /\ TypeOK /\ ThreadInv /\ e \in Events /\ EffectOf(e) = "mail"
      /\ thread.pc \in {"connect", "send", "retry", "resend"} /\ e # None
      /\ server # "down"
      /\ UNCHANGED <<kafka, server, runs, saving, rows, read, lost, raised,
                     unclean>>
  <2>1. /\ thread.pc \in {"connect", "send", "retry", "resend"}
        /\ UNCHANGED <<kafka, server, runs, saving, rows, read, lost, raised,
                       unclean>>
    BY DEF Connect, Send, Reconnect, Resend, history
  <2>2. /\ TypeOK /\ ThreadInv /\ None \notin Events
        /\ thread \in Thread
    BY NotificationsAssumption DEF IInv, TypeOK
  <2>3. e # None /\ e \in Events
    BY <2>1, <2>2 DEF ThreadInv, Thread
  <2>4. EffectOf(e) = "mail" /\ server # "down"
    BY <2>1, <2>2 DEF ThreadInv, Mailing, Off
  <2> QED BY <2>1, <2>2, <2>3, <2>4
<1>2. /\ thread' \in Thread /\ thread'.event = e
      /\ \/ thread.pc = "connect" /\ thread'.pc \in {"send", "failed"}
         \/ thread.pc = "send" /\ thread'.pc \in {"sent", "retry"}
         \/ thread.pc = "retry" /\ thread'.pc \in {"resend", "failed"}
         \/ thread.pc = "resend" /\ thread'.pc \in {"sent", "failed"}
  BY <1>1 DEF Connect, Send, Reconnect, Resend, Sends, To, TypeOK, Thread
<1>3. /\ mails' \in [Events -> Nat] /\ \A d \in Events : mails[d] <= mails'[d]
      /\ \A d \in Events \ {e} : mails'[d] = mails[d]
      /\ \/ mails'[e] = mails[e]
         \/ /\ mails'[e] = mails[e] + 1 /\ thread.pc \in {"send", "resend"}
      /\ thread'.pc = "sent" => mails'[e] = mails[e] + 1
  <2>1. ASSUME UNCHANGED mails
        PROVE  /\ mails' \in [Events -> Nat]
               /\ \A d \in Events : mails[d] <= mails'[d]
    BY <1>1, <2>1 DEF TypeOK
  <2>2. ASSUME Accepted(e)
        PROVE  /\ mails' \in [Events -> Nat] /\ mails'[e] = mails[e] + 1
               /\ \A d \in Events : mails[d] <= mails'[d]
               /\ \A d \in Events \ {e} : mails'[d] = mails[d]
    BY <1>1, <2>2 DEF TypeOK, Accepted
  <2>3. \/ Accepted(e) /\ thread.pc \in {"send", "resend"}
        \/ UNCHANGED mails /\ thread'.pc # "sent"
    BY <1>1, <1>2 DEF Connect, Send, Reconnect, Resend, Sends, To, TypeOK,
                      Thread, history
  <2> QED BY <2>1, <2>2, <2>3
<1>4. /\ retried \subseteq retried' /\ retried' \subseteq Events
      /\ thread'.pc = "retry" => e \in retried'
  BY <1>1, <1>2 DEF Connect, Send, Reconnect, Resend, TypeOK, history
<1>5. TypeOK'
  <2>1. smtp' \in BOOLEAN
    BY <1>1 DEF Connect, Send, Reconnect, Resend, TypeOK
  <2> QED BY <1>1, <1>2, <1>3, <1>4, <2>1 DEF TypeOK, kafka
<1>6. \A d : Taken(d)' <=> Taken(d)
  BY <1>1, SameOffsets DEF kafka
<1>7. ThreadInv'
  <2>1. thread'.pc = "sent" => mails'[e] > 0
    BY <1>1, <1>3 DEF TypeOK
  <2> QED BY <1>1, <1>2, <1>4, <1>6, <2>1 DEF ThreadInv, Mailing
<1>8. OnceInv'
  <2>1. CASE unclean
    BY <1>1, <2>1 DEF OnceInv
  <2>2. CASE ~unclean
    <3>1. \A d \in Events : mails'[d] <= 1 \/ d \in retried'
      <4>1. mails[e] \in Nat
        BY <1>1 DEF TypeOK
      <4>2. thread.pc = "send" => mails[e] = 0
        BY <1>1, <2>2 DEF IInv, OnceInv
      <4>3. thread.pc = "resend" => e \in retried
        BY <1>1 DEF ThreadInv
      <4>4. \A d \in Events : mails[d] <= 1 \/ d \in retried
        BY <2>2 DEF IInv, OnceInv
      <4> QED BY <1>3, <1>4, <4>1, <4>2, <4>3, <4>4
    <3>2. \A d \in Events : ~Taken(d)' => mails'[d] = 0
      <4>1. Taken(e)
        BY <1>1 DEF ThreadInv
      <4> QED BY <1>3, <1>6, <2>2, <4>1 DEF IInv, OnceInv
    <3>3. thread'.pc \in {"taken", "connect", "send"} =>
            rows[e] = 0 /\ mails'[e] = 0 /\ e \notin saving
      BY <1>1, <1>2, <1>3, <2>2 DEF IInv, OnceInv
    <3> QED BY <1>1, <1>2, <1>6, <2>2, <3>1, <3>2, <3>3
            DEF IInv, OnceInv, kafka
  <2> QED BY <2>1, <2>2
<1>9. \A d \in Events : d = thread.event => Accounted(d)'
  BY <1>2 DEF Accounted
<1> QED BY <1>1, <1>3, <1>5, <1>7, <1>8, <1>9, ThreadStepInv DEF kafka

\* The thread goes back to polling, or ends: its event was handled, or is lost.
LEMMA MailEndInv ==
  ASSUME IInv,
         MailSent \/ QuitFails \/ MailFails \/ PollFails \/ DropTaken
  PROVE  IInv'
<1>1. /\ TypeOK /\ ThreadInv /\ server # "down"
      /\ UNCHANGED <<log, position, server, runs, saving, rows, read, mails,
                     retried>>
  BY DEF IInv, MailSent, QuitFails, MailFails, PollFails, DropTaken, LeavesLoop,
         ThreadInv, Off, kafka, history
<1>2. /\ thread' \in {Poll, Off} /\ thread' \in Thread
      /\ smtp' \in BOOLEAN /\ raised' \in BOOLEAN
  <2>1. thread' \in {Poll, Off}
    BY DEF MailSent, QuitFails, MailFails, PollFails, DropTaken, LeavesLoop
  <2>2. Poll \in Thread /\ Off \in Thread
    BY DEF Poll, Off, Thread
  <2>3. smtp' \in BOOLEAN
    BY <1>1 DEF MailSent, QuitFails, MailFails, PollFails, DropTaken, TypeOK,
                Disconnected
  <2>4. raised' \in BOOLEAN
    BY <1>1 DEF MailSent, QuitFails, MailFails, PollFails, DropTaken,
                LeavesLoop, TypeOK, history
  <2> QED BY <2>1, <2>2, <2>3, <2>4
<1>3. /\ committed' \in {committed, position} /\ unclean' \in BOOLEAN
      /\ unclean => unclean'
  BY <1>1 DEF MailSent, QuitFails, MailFails, PollFails, DropTaken, LeavesLoop,
              Close, TypeOK, kafka, history
<1>4. /\ lost \subseteq lost' /\ lost' \subseteq Events
      /\ \A e \in Events : e = thread.event => Done(e)' \/ e \in lost'
  <2>1. CASE MailSent \/ QuitFails
    <3>1. \A e \in Events : e = thread.event => Done(e)'
      BY <1>1, <2>1, DoneFacts DEF MailSent, QuitFails, ThreadInv, Mailing
    <3> QED BY <1>1, <2>1, <3>1 DEF MailSent, QuitFails, history, TypeOK
  <2>2. CASE MailFails
    <3>1. thread.event \in Events
      BY <1>1, <2>2 DEF MailFails, TypeOK, Thread, ThreadInv
    <3> QED BY <1>1, <2>2, <3>1 DEF MailFails, TypeOK
  <2>3. CASE DropTaken
    <3>1. thread.event \in Events \union {None}
      BY <1>1 DEF TypeOK, Thread
    <3> QED BY <1>1, <2>3, <3>1, NotificationsAssumption DEF DropTaken, TypeOK
  <2>4. CASE PollFails
    <3>1. thread.event \notin Events
      BY <1>1, <2>4, NotificationsAssumption DEF PollFails, ThreadInv
    <3> QED BY <1>1, <2>4, <3>1 DEF PollFails, TypeOK
  <2> QED BY <2>1, <2>2, <2>3, <2>4
<1>5. TypeOK'
  BY <1>1, <1>2, <1>3, <1>4 DEF TypeOK
<1>6. \A d : Taken(d)' <=> Taken(d)
  BY <1>1, SameOffsets
<1>7. ThreadInv'
  BY <1>1, <1>2 DEF ThreadInv, Mailing, Poll, Off
<1>8. OnceInv'
  BY <1>1, <1>2, <1>3, <1>6 DEF IInv, OnceInv, Poll, Off
<1>9. \A d \in Events : d = thread.event => Accounted(d)'
  BY <1>4 DEF Accounted
<1> QED BY <1>1, <1>4, <1>5, <1>7, <1>8, <1>9, ThreadStepInv DEF TypeOK

\* A coroutine saves the row, or fails to.
LEMMA SaveInv ==
  ASSUME IInv, NEW e \in Events, Save(e)
  PROVE  IInv'
<1>1. /\ TypeOK /\ e \in saving /\ saving' = saving \ {e}
      /\ EffectOf(e) = "row"
      /\ UNCHANGED <<kafka, server, runs, thread, smtp, read, mails, raised,
                     unclean, retried>>
  BY DEF IInv, Save, SaveNotification, SaveFails, history, TypeOK
<1>2. /\ rows' \in [Events -> Nat]
      /\ \A d \in Events \ {e} : rows'[d] = rows[d]
      /\ rows'[e] \in {rows[e], rows[e] + 1}
      /\ lost \subseteq lost' /\ lost' \subseteq Events
      /\ rows'[e] > 0 \/ e \in lost'
  <2>1. rows[e] \in Nat
    BY <1>1 DEF TypeOK
  <2>2. CASE SaveNotification(e)
    <3>1. rows' = [rows EXCEPT ![e] = rows[e] + 1] /\ lost' = lost
      BY <2>2 DEF SaveNotification, history
    <3> QED BY <1>1, <2>1, <3>1 DEF TypeOK
  <2>3. CASE SaveFails(e)
    <3>1. rows' = rows /\ lost' = lost \union {e}
      BY <2>3 DEF SaveFails
    <3> QED BY <1>1, <2>1, <3>1 DEF TypeOK
  <2> QED BY <2>2, <2>3 DEF Save
<1>3. TypeOK'
  <2>1. ASSUME NEW d \in Events PROVE read[d] <= rows'[d]
    <3>1. rows[d] \in Nat /\ read[d] \in Nat /\ read[d] <= rows[d]
      BY <1>1 DEF TypeOK
    <3>2. rows'[d] \in {rows[d], rows[d] + 1}
      BY <1>2
    <3> QED BY <3>1, <3>2
  <2> QED BY <1>1, <1>2, <2>1 DEF TypeOK, kafka
<1>4. LogInv' /\ \A d : Taken(d)' <=> Taken(d)
  BY <1>1, SameOffsets DEF IInv, kafka
<1>5. ThreadInv'
  BY <1>1, <1>4 DEF IInv, ThreadInv
<1>6. ASSUME NEW d \in Events, Accounted(d) PROVE Accounted(d)'
  <2>1. CASE d = e
    BY <1>1, <1>2, <2>1, DoneFacts DEF Accounted
  <2>2. CASE d # e
    BY <1>1, <1>2, <1>6, <2>2 DEF Accounted, Done
  <2> QED BY <2>1, <2>2
<1>7. AccountInv'
  BY <1>4, <1>6 DEF IInv, AccountInv
<1>8. OnceInv'
  <2>1. CASE unclean
    BY <1>1, <2>1 DEF OnceInv
  <2>2. CASE ~unclean
    <3>1. Taken(e) /\ rows[e] = 0
      BY <1>1, <2>2 DEF IInv, OnceInv
    <3>2. \A d \in Events : thread.event = d /\
                            thread.pc \in {"taken", "connect", "send"} => d # e
      BY <1>1, <2>2 DEF IInv, OnceInv
    <3> QED BY <1>1, <1>2, <1>4, <2>2, <3>1, <3>2 DEF IInv, OnceInv, kafka
  <2> QED BY <2>1, <2>2
<1> QED BY <1>3, <1>4, <1>5, <1>7, <1>8 DEF IInv

-----------------------------------------------------------------------------
(* Theorems *)

\* Logs, offsets, the consumer thread and what was done fit together in every
\* state.
THEOREM Invariance == Spec => []IInv
<1>1. ASSUME IInv, [Next]_vars
      PROVE  IInv'
  BY <1>1, MainInv, PublishInv, StartInv, ExitInv, TakeInv, DispatchInv,
     MailInv, MailEndInv, SaveInv DEF Next, Consume, Dispatch
<1> QED BY <1>1, InitInv, PTL DEF Spec

\* No committed offset is beyond an event that is neither handled nor known to
\* be lost, whatever failed, stopped and was restarted.
THEOREM OffsetsCorrect == Spec => []OffsetsAreSound
<1>1. IInv => OffsetsAreSound
  <2> SUFFICES ASSUME IInv PROVE CommittedIsAccounted
    BY DEF IInv, OffsetsAreSound
  <2>1. ASSUME NEW e \in Below(committed) PROVE Accounted(e)
    BY BelowPosition DEF IInv, AccountInv
  <2> QED BY <2>1 DEF CommittedIsAccounted, Accounted
<1> QED BY <1>1, Invariance, PTL

\* A row or mail is doubled only after a position was not committed, or when
\* the first attempt to send the mail failed.
THEOREM DuplicatesCorrect == Spec => []DuplicatesAreExplained
<1>1. IInv => DuplicatesAreExplained
  <2> SUFFICES ASSUME IInv, NEW e \in Events, ~unclean, e \notin retried
               PROVE  ~(rows[e] > 1 \/ mails[e] > 1)
    BY DEF DuplicatesAreExplained
  <2>1. rows[e] \in Nat /\ mails[e] \in Nat
    BY DEF IInv, TypeOK
  <2>2. rows[e] <= 1 /\ mails[e] <= 1
    BY DEF IInv, OnceInv
  <2> QED BY <2>1, <2>2
<1> QED BY <1>1, Invariance, PTL

-----------------------------------------------------------------------------
(* The start of a service: Deployment                                       *)

USE DeploymentAssumption

\* The steps of the start that come after the migrations.
Later == {Steps[i] : i \in {n \in 1..Len(Steps) :
                              \E m \in 1..(n - 1) : Steps[m] = "migrate"}}

\* Past the migrations, the schema is that of the newest revision.
DInv ==
  /\ StartsTypeOK
  /\ pc \in Later \union {"serving"} => revision = Newest

\* The steps of a start differ, and one of them runs the migrations.
LEMMA Starts ==
  ASSUME NEW s \in Services
  PROVE  /\ Len(StartOf(s)) \in Nat \ {0}
         /\ \A i, j \in 1..Len(StartOf(s)) :
              StartOf(s)[i] = StartOf(s)[j] => i = j
         /\ \A i \in 1..Len(StartOf(s)) :
              StartOf(s)[i] \notin {"down", "serving", "stuck"}
         /\ \E m \in 1..Len(StartOf(s)) : StartOf(s)[m] = "migrate"
<1>1. CASE s = "auth"
  <2>1. StartOf(s) = <<"schema", "redis", "kafka", "migrate", "grpc">>
    BY <1>1 DEF StartOf, AuthStart
  <2>2. StartOf(s)[4] = "migrate" /\ Len(StartOf(s)) = 5
    BY <2>1
  <2> QED BY <2>1, <2>2
<1>2. CASE s = "user"
  <2>1. StartOf(s) = <<"database", "minio", "kafka", "migrate", "grpc">>
    BY <1>2 DEF StartOf, UserStart
  <2>2. StartOf(s)[4] = "migrate" /\ Len(StartOf(s)) = 5
    BY <2>1
  <2> QED BY <2>1, <2>2
<1>3. CASE s = "post"
  <2>1. StartOf(s) = <<"database", "migrate", "minio", "kafka", "consumers">>
    BY <1>3 DEF StartOf, PostStart
  <2>2. StartOf(s)[2] = "migrate" /\ Len(StartOf(s)) = 5
    BY <2>1
  <2> QED BY <2>1, <2>2
<1>4. CASE s = "chat"
  <2>1. StartOf(s) = <<"database", "migrate", "redis">>
    BY <1>4 DEF StartOf, ChatStart
  <2>2. StartOf(s)[2] = "migrate" /\ Len(StartOf(s)) = 3
    BY <2>1
  <2> QED BY <2>1, <2>2
<1>5. CASE s = "notification"
  <2>1. StartOf(s) = <<"launch", "import", "database", "migrate", "kafka",
                       "smtp">>
    BY <1>5 DEF StartOf, NotificationStart
  <2>2. StartOf(s)[4] = "migrate" /\ Len(StartOf(s)) = 6
    BY <2>1
  <2> QED BY <2>1, <2>2
<1> QED BY <1>1, <1>2, <1>3, <1>4, <1>5 DEF Services

\* The revisions of a service are finitely many.
LEMMA ChainLength ==
  ASSUME NEW s \in Services
  PROVE  Len(ChainOf(s)) \in Nat
<1>1. CASE s = "auth"
  BY <1>1 DEF ChainOf
<1>2. CASE s = "user"
  BY <1>2 DEF ChainOf
<1>3. CASE s = "post"
  BY <1>3 DEF ChainOf
<1>4. CASE s = "chat"
  BY <1>4 DEF ChainOf
<1>5. CASE s = "notification"
  BY <1>5 DEF ChainOf
<1> QED BY <1>1, <1>2, <1>3, <1>4, <1>5 DEF Services

\* Without a revision there is no table.
LEMMA FirstSchema == SchemaAt(0) = {}
BY DEF SchemaAt

\* Applying a revision leads from one schema to the next.
LEMMA NextSchema ==
  ASSUME NEW k \in Nat
  PROVE  SchemaAt(k + 1) = After(SchemaAt(k), Chain[k + 1])
<1> DEFINE c == Chain
           Stays(x, n) ==
             \E i \in 1..n : /\ x \in c[i].adds
                             /\ \A j \in (i + 1)..n : x \notin c[j].drops
<1>1. \A n \in Nat : \A x : x \in SchemaAt(n) <=> Stays(x, n)
  BY DEF SchemaAt
<1> HIDE DEF c
<1>2. ASSUME NEW x
      PROVE  Stays(x, k + 1) <=>
               x \in c[k + 1].adds \/ (Stays(x, k) /\ x \notin c[k + 1].drops)
  <2>1. ASSUME Stays(x, k + 1), x \notin c[k + 1].adds
        PROVE  Stays(x, k) /\ x \notin c[k + 1].drops
    <3>1. PICK i \in 1..(k + 1) :
            /\ x \in c[i].adds
            /\ \A j \in (i + 1)..(k + 1) : x \notin c[j].drops
      BY <2>1
    <3>2. i \in 1..k /\ k + 1 \in (i + 1)..(k + 1)
      BY <2>1, <3>1
    <3>3. \A j \in (i + 1)..k : j \in (i + 1)..(k + 1)
      BY <3>2
    <3> QED BY <3>1, <3>2, <3>3
  <2>2. ASSUME x \in c[k + 1].adds PROVE Stays(x, k + 1)
    <3>1. k + 1 \in 1..(k + 1) /\ ((k + 1) + 1)..(k + 1) = {}
      OBVIOUS
    <3> QED BY <2>2, <3>1
  <2>3. ASSUME Stays(x, k), x \notin c[k + 1].drops PROVE Stays(x, k + 1)
    <3>1. PICK i \in 1..k : /\ x \in c[i].adds
                            /\ \A j \in (i + 1)..k : x \notin c[j].drops
      BY <2>3
    <3>2. /\ i \in 1..(k + 1)
          /\ \A j \in (i + 1)..(k + 1) : j \in (i + 1)..k \/ j = k + 1
      BY <3>1
    <3> QED BY <2>3, <3>1, <3>2
  <2> QED BY <2>1, <2>2, <2>3
<1>3. k + 1 \in Nat
  OBVIOUS
<1> HIDE DEF Stays
<1>4. \A x : x \in SchemaAt(k + 1) <=>
               \/ x \in c[k + 1].adds
               \/ x \in SchemaAt(k) /\ x \notin c[k + 1].drops
  BY <1>1, <1>2, <1>3
<1> QED BY <1>4 DEF After, c

\* The revisions of a service end with what its models declare.
LEMMA HeadIsDeclared ==
  ASSUME service \in Services
  PROVE  SchemaAt(Newest) = Declared(service)
<1>0. /\ SchemaAt(1) = After(SchemaAt(0), Chain[1])
      /\ SchemaAt(2) = After(SchemaAt(1), Chain[2])
      /\ SchemaAt(3) = After(SchemaAt(2), Chain[3])
      /\ SchemaAt(4) = After(SchemaAt(3), Chain[4])
      /\ SchemaAt(5) = After(SchemaAt(4), Chain[5])
  <2>1. \A n \in Nat :
          SchemaAt(n + 1) = After(SchemaAt(n), Chain[n + 1])
    BY NextSchema
  <2>2. /\ SchemaAt(0 + 1) = After(SchemaAt(0), Chain[0 + 1])
        /\ SchemaAt(1 + 1) = After(SchemaAt(1), Chain[1 + 1])
        /\ SchemaAt(2 + 1) = After(SchemaAt(2), Chain[2 + 1])
        /\ SchemaAt(3 + 1) = After(SchemaAt(3), Chain[3 + 1])
        /\ SchemaAt(4 + 1) = After(SchemaAt(4), Chain[4 + 1])
    BY <2>1
  <2>3. 0 + 1 = 1 /\ 1 + 1 = 2 /\ 2 + 1 = 3 /\ 3 + 1 = 4 /\ 4 + 1 = 5
    OBVIOUS
  <2> QED BY <2>2, <2>3
<1> USE FirstSchema DEF After, Rev
<1>1. CASE service = "auth"
  <2>1. /\ Newest = 5 /\ Chain[1] = InitialSchema
        /\ Chain[2] = RemoveMfaColumns
        /\ Chain[3] = SyncModels /\ Chain[4] = RemoveRefreshSession
        /\ Chain[5] = RemoveUsername
    BY <1>1 DEF Newest, Chain, ChainOf
  <2>2. SchemaAt(1) = {"users", "users.username", "users.is_verified",
                       "credentials", "credentials.mfa", "sessions"}
    BY <1>0, <2>1 DEF InitialSchema
  <2>3. SchemaAt(2) = {"users", "users.username", "users.is_verified",
                       "credentials", "sessions"}
    BY <1>0, <2>1, <2>2 DEF RemoveMfaColumns
  <2>4. SchemaAt(3) =
          AuthModels \union {"users.username", "refresh_sessions"}
    BY <1>0, <2>1, <2>3 DEF SyncModels, AuthModels
  <2>5. SchemaAt(4) = AuthModels \union {"users.username"}
    BY <1>0, <2>1, <2>4 DEF RemoveRefreshSession, AuthModels
  <2>6. SchemaAt(5) = AuthModels
    BY <1>0, <2>1, <2>5 DEF RemoveUsername, AuthModels
  <2> QED BY <1>1, <2>1, <2>6 DEF Declared
<1>2. CASE service = "user"
  <2>1. /\ Newest = 3 /\ Chain[1] = CreateUserSchemaTables
        /\ Chain[2] = RenamePictureUrlToKey
        /\ Chain[3] = RemoveAllowMessageRequests
    BY <1>2 DEF Newest, Chain, ChainOf
  <2>2. SchemaAt(1) = {"user_profiles", "blocks", "follows",
                       "privacy_settings", "profile_picture_url",
                       "allow_message_requests"}
    BY <1>0, <2>1 DEF CreateUserSchemaTables
  <2>3. SchemaAt(2) = UserModels \union {"allow_message_requests"}
    BY <1>0, <2>1, <2>2 DEF RenamePictureUrlToKey, UserModels
  <2>4. SchemaAt(3) = UserModels
    <3>1. "allow_message_requests" \notin UserModels
      BY DEF UserModels
    <3>2. /\ RemoveAllowMessageRequests.adds = {}
          /\ RemoveAllowMessageRequests.drops = {"allow_message_requests"}
      BY DEF RemoveAllowMessageRequests
    <3>3. SchemaAt(3) =
            (SchemaAt(2) \union {}) \ {"allow_message_requests"}
      BY <1>0, <2>1, <3>2
    <3> QED BY <2>3, <3>1, <3>3
  <2> QED BY <1>2, <2>1, <2>4 DEF Declared
<1>3. CASE service = "post"
  <2>1. /\ Newest = 3 /\ Chain[1] = CreatePostTables
        /\ Chain[2] = RemoveCachedCounts
        /\ Chain[3] = CreateStoriesTable
    BY <1>3 DEF Newest, Chain, ChainOf
  <2>2. SchemaAt(1) = {"posts", "post_comments", "post_likes", "post_media",
                       "posts.counts"}
    BY <1>0, <2>1 DEF CreatePostTables
  <2>3. SchemaAt(2) = {"posts", "post_comments", "post_likes", "post_media"}
    BY <1>0, <2>1, <2>2 DEF RemoveCachedCounts
  <2>4. SchemaAt(3) = PostModels
    BY <1>0, <2>1, <2>3 DEF CreateStoriesTable, PostModels
  <2> QED BY <1>3, <2>1, <2>4 DEF Declared
<1>4. CASE service = "chat"
  <2>1. Newest = 1 /\ Chain[1] = InitialChatSchema
    BY <1>4 DEF Newest, Chain, ChainOf
  <2>2. SchemaAt(1) = ChatModels
    BY <1>0, <2>1 DEF InitialChatSchema, ChatModels
  <2> QED BY <1>4, <2>1, <2>2 DEF Declared
<1>5. CASE service = "notification"
  <2>1. Newest = 1 /\ Chain[1] = CreateNotificationsTable
    BY <1>5 DEF Newest, Chain, ChainOf
  <2>2. SchemaAt(1) = NotificationModels
    BY <1>0, <2>1 DEF CreateNotificationsTable, NotificationModels
  <2> QED BY <1>5, <2>1, <2>2 DEF Declared
<1> QED BY <1>1, <1>2, <1>3, <1>4, <1>5 DEF Services


\* At first no service was started.
LEMMA DInitInv ==
  ASSUME StartsInit
  PROVE  DInv
<1>1. pc = "down" /\ service \in Services
  BY DEF StartsInit
<1>2. pc \notin Later \union {"serving"}
  BY <1>1, Starts DEF Later, Steps
<1>3. StartsTypeOK
  <2>1. data \in SUBSET Data
    <3>1. CASE revision = 0
      BY <3>1 DEF StartsInit
    <3>2. CASE revision # 0
      BY <3>2 DEF StartsInit
    <3> QED BY <3>1, <3>2
  <2>2. 0 \in 0..MaxStarts
    OBVIOUS
  <2> QED BY <2>1, <2>2 DEF StartsInit, StartsTypeOK
<1> QED BY <1>2, <1>3 DEF DInv

\* Where a step of the start goes.
LEMMA GoesOnTo ==
  ASSUME StartsTypeOK, InStart, Goes
  PROVE  /\ pc' \in Names \union {"serving"}
         /\ pc' \in Later \union {"serving"} => pc \in Later \union {"migrate"}
<1> DEFINE t == Steps
           l == Len(Steps)
<1>1. /\ l \in Nat \ {0} /\ t = StartOf(service)
      /\ \A i, j \in 1..l : t[i] = t[j] => i = j
      /\ \A i \in 1..l : t[i] \notin {"down", "serving", "stuck"}
      /\ \E m \in 1..l : t[m] = "migrate"
  BY Starts DEF StartsTypeOK, Steps
<1>2. /\ Names = {t[i] : i \in 1..l}
      /\ Later = {t[i] : i \in {n \in 1..l :
                                  \E m \in 1..(n - 1) : t[m] = "migrate"}}
  BY DEF Names, Later
<1>3. /\ pc \in Names
      /\ Place = CHOOSE i \in 1..l : t[i] = pc
      /\ pc' = IF Place = l THEN "serving" ELSE t[Place + 1]
  BY DEF InStart, Goes, Place
<1> HIDE DEF t, l
<1>4. PICK i \in 1..l : i = Place /\ t[i] = pc
  BY <1>2, <1>3
<1>5. CASE i = l
  <2>1. PICK m \in 1..l : t[m] = "migrate"
    BY <1>1
  <2>2. m = i \/ m \in 1..(i - 1)
    BY <1>1, <1>5
  <2>3. pc = "migrate" \/ pc \in Later
    BY <1>2, <1>4, <2>1, <2>2
  <2> QED BY <1>3, <1>4, <1>5, <2>3
<1>6. CASE i # l
  <2>1. i + 1 \in 1..l /\ pc' = t[i + 1]
    BY <1>1, <1>3, <1>4, <1>6
  <2>2. ASSUME pc' \in Later PROVE pc \in Later \union {"migrate"}
    <3>1. PICK n \in 1..l : t[n] = pc' /\ \E m \in 1..(n - 1) : t[m] = "migrate"
      BY <1>2, <2>2
    <3>2. n = i + 1
      BY <1>1, <2>1, <3>1
    <3>3. PICK m \in 1..(n - 1) : t[m] = "migrate"
      BY <3>1
    <3>4. m = i \/ m \in 1..(i - 1)
      BY <3>2
    <3> QED BY <1>2, <1>4, <3>3, <3>4
  <2> QED BY <1>1, <1>2, <2>1, <2>2
<1> QED BY <1>5, <1>6

\* What belongs to a service does not change.
LEMMA ChainStays ==
  ASSUME UNCHANGED service
  PROVE  /\ Newest' = Newest /\ Names' = Names
         /\ Later' = Later /\ Uses' = Uses
         /\ \A k : SchemaAt(k)' = SchemaAt(k)
<1>1. Steps' = Steps /\ Chain' = Chain
  BY DEF Steps, Chain
<1> QED BY <1>1 DEF Newest, Names, Later, Uses, SchemaAt

\* Every step of a start, and whatever ends it, keeps the invariant.
LEMMA DStep ==
  ASSUME DInv, [StartsNext]_startsVars
  PROVE  DInv'
<1>1. /\ StartsTypeOK /\ service \in Services /\ Newest \in Nat
      /\ revision \in 0..Newest /\ schema = SchemaAt(revision)
      /\ pc \in {"down", "serving", "stuck"} \union Names
      /\ pc \in Later \union {"serving"} => revision = Newest
  BY ChainLength DEF DInv, StartsTypeOK, Newest, Chain
<1>2. "migrate" \notin Later /\ Later \subseteq Names
  <2>1. Later \subseteq Names
    BY DEF Later, Names
  <2>2. ASSUME "migrate" \in Later PROVE FALSE
    <3>1. PICK n \in 1..Len(Steps) :
            /\ Steps[n] = "migrate"
            /\ \E m \in 1..(n - 1) : Steps[m] = "migrate"
      BY <2>2 DEF Later
    <3>2. PICK m \in 1..(n - 1) : Steps[m] = "migrate"
      BY <3>1
    <3>3. Len(Steps) \in Nat /\ m \in 1..Len(Steps) /\ m # n
      BY <1>1, <3>2, Starts DEF Steps
    <3> QED BY <1>1, <3>1, <3>2, <3>3, Starts DEF Steps
  <2> QED BY <2>1, <2>2
<1>3. Steps[1] \in Names /\ Steps[1] \notin Later \union {"serving"}
  <2>1. 1 \in 1..Len(Steps)
    BY <1>1, Starts DEF Steps
  <2>2. ASSUME Steps[1] \in Later PROVE FALSE
    <3>1. PICK n \in 1..Len(Steps) :
            /\ Steps[n] = Steps[1]
            /\ \E m \in 1..(n - 1) : Steps[m] = "migrate"
      BY <2>2 DEF Later
    <3>2. n = 1
      BY <1>1, <2>1, <3>1, Starts DEF Steps
    <3> QED BY <3>1, <3>2
  <2> QED BY <1>1, <2>1, <2>2, Starts DEF Names, Steps
<1>4. \A x \in {"down", "stuck"} : x \notin Later \union {"serving"}
  <2>1. \A x \in Names : x \notin {"down", "stuck"}
    BY <1>1, Starts DEF Names, Steps
  <2> QED BY <1>2, <2>1
<1>5. ASSUME UNCHANGED <<service, reloaded>>
      PROVE  /\ Newest' = Newest /\ Names' = Names /\ Later' = Later
             /\ Uses' = Uses /\ \A k : SchemaAt(k)' = SchemaAt(k)
             /\ service' \in Services /\ reloaded' \in Reloads(service')
  BY <1>1, <1>5, ChainStays DEF StartsTypeOK
<1>6. CASE UNCHANGED startsVars
  BY <1>5, <1>6 DEF startsVars, db, DInv, StartsTypeOK
<1>7. CASE Begin
  <2>1. /\ UNCHANGED <<service, reloaded, avail, db, pending>>
        /\ pc = "down" /\ pc' = Steps[1] /\ starts' \in 0..MaxStarts
    BY <1>1, <1>7 DEF Begin, StartsTypeOK
  <2>2. pending = NoTransaction
    BY <1>1, <2>1 DEF StartsTypeOK
  <2> QED BY <1>1, <1>3, <1>5, <2>1, <2>2 DEF DInv, StartsTypeOK, db
<1>8. CASE Check
  <2>1. /\ UNCHANGED <<service, reloaded, avail, starts, db, pending>>
        /\ InStart /\ pc # "migrate" /\ Goes
    BY <1>8 DEF Check
  <2>2. /\ pc' \in Names \union {"serving"}
        /\ pc' \in Later \union {"serving"} => pc \in Later
    BY <1>1, <2>1, GoesOnTo
  <2>3. pending = NoTransaction
    BY <1>1, <2>1 DEF StartsTypeOK
  <2> QED BY <1>1, <1>5, <2>1, <2>2, <2>3 DEF DInv, StartsTypeOK, db
<1>9. CASE OpenTransaction
  <2>1. /\ UNCHANGED <<service, reloaded, avail, pc, starts, db>>
        /\ pc = "migrate"
        /\ pending' = [revision |-> revision, schema |-> schema]
    BY <1>9 DEF OpenTransaction
  <2> QED BY <1>1, <1>5, <2>1 DEF DInv, StartsTypeOK, db
<1>10. CASE ApplyRevision
  <2>1. /\ UNCHANGED <<service, reloaded, avail, pc, starts, data>>
        /\ UNCHANGED <<revision, schema>>
        /\ pending # NoTransaction /\ pending.revision < Newest
        /\ pending' = Upgrade
    BY <1>10 DEF ApplyRevision, db
  <2>2. /\ pc = "migrate" /\ pending.revision \in revision..Newest
        /\ pending.schema = SchemaAt(pending.revision)
    BY <1>1, <2>1 DEF StartsTypeOK
  <2>3. /\ pending'.revision = pending.revision + 1
        /\ pending'.schema =
             After(pending.schema, Chain[pending.revision + 1])
    BY <2>1 DEF Upgrade, Coming
  <2>4. pending.revision \in Nat /\ pending'.revision \in revision..Newest
    BY <1>1, <2>1, <2>2, <2>3
  <2>5. pending'.schema = SchemaAt(pending'.revision)
    BY <2>2, <2>3, <2>4, NextSchema
  <2>6. StartsTypeOK'
    BY <1>1, <1>5, <2>1, <2>2, <2>4, <2>5 DEF StartsTypeOK
  <2> QED BY <1>1, <1>5, <2>1, <2>6 DEF DInv
<1>11. CASE CommitTransaction
  <2>1. /\ UNCHANGED <<service, reloaded, avail, starts, data>>
        /\ pending # NoTransaction /\ pending.revision = Newest
        /\ revision' = pending.revision /\ schema' = pending.schema
        /\ pending' = NoTransaction /\ Goes
    BY <1>11 DEF CommitTransaction
  <2>2. pc = "migrate" /\ schema' = SchemaAt(Newest) /\ revision' = Newest
    BY <1>1, <2>1 DEF StartsTypeOK
  <2>3. InStart
    <3>1. "migrate" \in Names
      BY <1>1, Starts DEF Names, Steps
    <3> QED BY <2>2, <3>1 DEF InStart
  <2>4. pc' \in Names \union {"serving"}
    BY <1>1, <2>1, <2>3, GoesOnTo
  <2> QED BY <1>1, <1>5, <2>1, <2>2, <2>4 DEF DInv, StartsTypeOK
<1>12. CASE StartFails \/ Kill
  <2>1. /\ UNCHANGED <<service, reloaded, avail, starts, db>>
        /\ pc' \in {"down", "stuck"} /\ pending' = NoTransaction
    BY <1>12 DEF StartFails, Kill, EndsStart, Ended, RollsBack
  <2> QED BY <1>1, <1>4, <1>5, <2>1 DEF DInv, StartsTypeOK, db
<1>13. CASE \E i \in Uses : Change(i)
  <2>1. /\ UNCHANGED <<service, reloaded, pc, starts, db, pending>>
        /\ avail' \in SUBSET Uses
    BY <1>1, <1>13 DEF Change, StartsTypeOK
  <2> QED BY <1>1, <1>5, <2>1 DEF DInv, StartsTypeOK, db
<1> QED BY <1>6, <1>7, <1>8, <1>9, <1>10, <1>11, <1>12, <1>13
        DEF StartsNext, StartStep

\* Whatever ended earlier starts, the schema is that of a revision.
THEOREM StartsInvariance == StartsSpec => []DInv
BY DInitInv, DStep, PTL DEF StartsSpec

\* A service that serves has exactly the schema that its models declare.
THEOREM SchemasCorrect == StartsSpec => []SchemaIsSound
<1>1. DInv => SchemaIsSound
  BY HeadIsDeclared
     DEF DInv, StartsTypeOK, SchemaIsSound,
         ServesWhatIsDeclared
<1> QED BY <1>1, StartsInvariance, PTL
=============================================================================
