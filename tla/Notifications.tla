--------------------------- MODULE Notifications ---------------------------
(***************************************************************************)
(* The Notification-Server: a thread takes the events of other services    *)
(* from Kafka one at a time.  It sends mails itself, and hands a           *)
(* notification to the main thread, whose event loop saves the row by a    *)
(* coroutine nobody waits for.  An exception in it ends the thread         *)
(* for good, while the server goes on; the server may be stopped, crash    *)
(* and be restarted.  Kafka keeps the offset committed for each topic: the *)
(* client commits its position when it polls and when it is closed, and a  *)
(* restarted server goes on from there.                                    *)
(***************************************************************************)
EXTENDS Naturals, Sequences

CONSTANTS
  Events, Topics, Users,
  TopicOf(_),     \* the topic an event is published to
  EffectOf(_),    \* "mail", "row", or "none": no handler, a field is missing,
                  \* or the user did it to their own post
  ReceiverOf(_),  \* whom a row is for
  MaxRuns,        \* bound on how often the server is started
  None

ASSUME NotificationsAssumption ==
  /\ \A e \in Events : /\ TopicOf(e) \in Topics /\ ReceiverOf(e) \in Users
                       /\ EffectOf(e) \in {"mail", "row", "none"}
  /\ MaxRuns \in Nat /\ None \notin Events

VARIABLES
  log, position, committed,  \* of each topic: its events, the offset of the
                             \* consumer, the offset kept by Kafka
  server, runs,    \* the main thread, and how often it was started
  thread,          \* the consumer thread
  smtp,            \* whether email_service holds a connection
  saving,          \* the events a coroutine is saving a row for
  rows, read,      \* how many rows an event has, and how many were read
  mails,           \* how often the mail of an event was accepted
  lost,            \* history: events whose handling ended without effect
  raised, unclean, \* history: an exception ended the loop since the start; a
                   \* position was never committed
  retried          \* history: mails that were tried twice

kafka   == <<log, position, committed>>
history == <<lost, raised, unclean, retried>>
vars    == <<kafka, server, runs, thread, smtp, saving, rows, read, mails,
             history>>

\* own: the connection was opened for this mail, and is closed after it.
Thread == [pc : {"off", "poll", "taken", "connect", "send", "retry", "resend",
                 "sent", "failed"},
           event : Events \union {None}, own : BOOLEAN]
Off  == [pc |-> "off",  event |-> None, own |-> FALSE]
Poll == [pc |-> "poll", event |-> None, own |-> FALSE]

TypeOK ==
  /\ log \in [Topics -> Seq(Events)]
  /\ position \in [Topics -> Nat] /\ committed \in [Topics -> Nat]
  /\ \A t \in Topics : committed[t] <= position[t] /\ position[t] <= Len(log[t])
  /\ server \in {"down", "opening", "login", "serving", "stopping"}
  /\ runs \in 0..MaxRuns /\ thread \in Thread /\ smtp \in BOOLEAN
  /\ saving \in SUBSET {e \in Events : EffectOf(e) = "row"}
  /\ rows \in [Events -> Nat] /\ mails \in [Events -> Nat]
  /\ read \in [Events -> Nat] /\ \A e \in Events : read[e] <= rows[e]
  /\ lost \in SUBSET Events /\ retried \in SUBSET Events
  /\ raised \in BOOLEAN /\ unclean \in BOOLEAN

Init ==
  /\ log = [t \in Topics |-> <<>>]
  /\ position = [t \in Topics |-> 0] /\ committed = position
  /\ server = "down" /\ runs = 0 /\ thread = Off /\ smtp = FALSE
  /\ saving = {} /\ lost = {} /\ retried = {}
  /\ rows = [e \in Events |-> 0] /\ read = rows /\ mails = rows
  /\ raised = FALSE /\ unclean = FALSE

Below(offset) == UNION {{log[t][i] : i \in 1..offset[t]} : t \in Topics}
Published     == Below([t \in Topics |-> Len(log[t])])
Due(t)        == position[t] < Len(log[t])

\* Another service publishes an event, once.
Publish(e) ==
  /\ e \notin Published
  /\ log' = [log EXCEPT ![TopicOf(e)] = Append(@, e)]
  /\ UNCHANGED <<position, committed, server, runs, thread, smtp, saving, rows,
                 read, mails, history>>

-----------------------------------------------------------------------------
(* The main thread: the consumer thread is started, then email_service is   *)
(* connected, which the consumer thread may be using by then                *)

\* The consumer is one of a group: it resumes where the group stands.
FromEarliest == [t \in Topics |-> 0]
Resumes      == committed

StartConsumer ==
  /\ server = "down" /\ runs < MaxRuns
  /\ server' = "opening" /\ runs' = runs + 1
  /\ thread' = Poll /\ raised' = FALSE
  /\ position' = Resumes
  /\ UNCHANGED <<log, committed, smtp, saving, rows, read, mails, lost, unclean,
                 retried>>

OpenSmtp ==
  /\ server = "opening"
  /\ server' = "login" /\ smtp' = TRUE
  /\ UNCHANGED <<kafka, runs, thread, saving, rows, read, mails, history>>

\* The login uses whatever connection email_service holds: when the consumer
\* thread has closed it meanwhile, the server does not start (Exit).
Login ==
  /\ server = "login" /\ smtp
  /\ server' = "serving"
  /\ UNCHANGED <<kafka, runs, thread, smtp, saving, rows, read, mails, history>>

\* What close() commits: the position, which counts the event being handled.
\* When Kafka does not answer, nothing.
Close ==
  /\ committed' \in {committed, position}
  /\ unclean' = (unclean \/ committed' # position)

StopConsumer ==
  /\ server = "serving"
  /\ server' = "stopping"
  /\ IF thread.pc = "off" THEN UNCHANGED <<committed, unclean>> ELSE Close
  /\ UNCHANGED <<log, position, runs, thread, smtp, saving, rows, read, mails,
                 lost, raised, retried>>

\* The process ends, and with it the thread and the coroutines.
Running == server # "down"
Exit ==
  /\ Running
  /\ server' = "down" /\ thread' = Off /\ smtp' = FALSE /\ saving' = {}
  /\ lost' = lost \union saving \union ({thread.event} \ {None})
  /\ unclean' = (unclean \/ committed # position)
  /\ UNCHANGED <<kafka, runs, rows, read, mails, raised, retried>>

-----------------------------------------------------------------------------
(* The consumer thread                                                      *)

\* A poll commits what was taken before, from time to time.
CommitsAll == [t \in Topics |-> Len(log[t])]
Polled     == position

Commit ==
  /\ thread.pc = "poll" /\ server # "stopping"
  /\ committed' = Polled
  /\ UNCHANGED <<log, position, server, runs, thread, smtp, saving, rows, read,
                 mails, history>>

Take(t) ==
  /\ thread.pc = "poll" /\ server # "stopping" /\ Due(t)
  /\ position' = [position EXCEPT ![t] = @ + 1]
  /\ thread' = [Poll EXCEPT !.pc = "taken", !.event = log[t][position[t] + 1]]
  /\ UNCHANGED <<log, committed, server, runs, smtp, saving, rows, read, mails,
                 history>>

\* An exception leaves the loop; the consumer is closed, if it is not yet.
LeavesLoop ==
  /\ thread' = Off /\ raised' = TRUE
  /\ IF server = "stopping" THEN UNCHANGED <<committed, unclean>> ELSE Close

\* The iterator of the client raises.
PollFails ==
  /\ thread.pc = "poll" /\ server # "stopping"
  /\ LeavesLoop
  /\ UNCHANGED <<log, position, server, runs, smtp, saving, rows, read, mails,
                 lost, retried>>

\* The loop looks at running after it took an event: one taken while stop is
\* called is dropped.
DropTaken ==
  /\ server = "stopping" /\ thread.pc \in {"poll", "taken"}
  /\ thread' = Off
  /\ lost' = lost \union ({thread.event} \ {None})
  /\ UNCHANGED <<kafka, server, runs, smtp, saving, rows, read, mails, raised,
                 unclean, retried>>

\* dispatch hands the event to the handler of its topic.
Hands(e) ==
  /\ thread.pc = "taken" /\ server # "stopping" /\ e = thread.event
  /\ UNCHANGED <<kafka, server, runs, smtp, rows, read, mails, history>>

DispatchMail(e) ==
  /\ EffectOf(e) = "mail" /\ Hands(e)
  /\ thread' = [thread EXCEPT !.pc = "connect"]
  /\ UNCHANGED saving

\* The row is saved by a coroutine of the main thread, that is not waited for.
DispatchRow(e) ==
  /\ EffectOf(e) = "row" /\ Hands(e)
  /\ thread' = Poll
  /\ saving' = saving \union {e}

\* An event without a handler, or that its handler cannot use, is passed by.
EndsLoop == Off
PassesBy == Poll

DispatchNone(e) ==
  /\ EffectOf(e) = "none" /\ Hands(e)
  /\ thread' = PassesBy
  /\ UNCHANGED saving

-----------------------------------------------------------------------------
(* send_email, in the consumer thread                                       *)

To(label)   == thread' = [thread EXCEPT !.pc = label]
Accepted(e) == mails' = [mails EXCEPT ![e] = @ + 1]

\* Whether a send that fails was accepted all the same is not known.
Sends(good, bad) ==
  \/ To(good) /\ Accepted(thread.event)
  \/ To(bad)  /\ (Accepted(thread.event) \/ UNCHANGED mails)

\* A connection that was made is kept, also when the login on it raises.
Connect ==
  /\ thread.pc = "connect"
  /\ IF smtp
       THEN To("send") /\ UNCHANGED smtp
       ELSE \/ smtp' = TRUE /\ thread' = [thread EXCEPT !.pc = "send",
                                                        !.own = TRUE]
            \/ smtp' \in BOOLEAN /\ To("failed")
  /\ UNCHANGED <<kafka, server, runs, saving, rows, read, mails, history>>

Send ==
  /\ thread.pc = "send"
  /\ Sends("sent", "retry")
  /\ retried' = IF thread'.pc = "retry" THEN retried \union {thread.event}
                                        ELSE retried
  /\ UNCHANGED <<kafka, server, runs, smtp, saving, rows, read, lost, raised,
                 unclean>>

Reconnect ==
  /\ thread.pc = "retry"
  /\ \/ smtp' = TRUE /\ To("resend")
     \/ smtp' \in BOOLEAN /\ To("failed")
  /\ UNCHANGED <<kafka, server, runs, saving, rows, read, mails, history>>

Resend ==
  /\ thread.pc = "resend"
  /\ Sends("sent", "failed")
  /\ UNCHANGED <<kafka, server, runs, smtp, saving, rows, read, history>>

Disconnected == IF thread.own THEN FALSE ELSE smtp

MailSent ==
  /\ thread.pc = "sent"
  /\ smtp' = Disconnected
  /\ thread' = Poll
  /\ UNCHANGED <<kafka, server, runs, saving, rows, read, mails, history>>

\* The quit that closes it may raise, after the mail was accepted.
QuitFails ==
  /\ thread.pc = "sent" /\ thread.own
  /\ LeavesLoop
  /\ UNCHANGED <<log, position, server, runs, smtp, saving, rows, read, mails,
                 lost, retried>>

MailFails ==
  /\ thread.pc = "failed"
  /\ smtp' \in {smtp, Disconnected}
  /\ lost' = lost \union {thread.event}
  /\ LeavesLoop
  /\ UNCHANGED <<log, position, server, runs, saving, rows, read, mails,
                 retried>>

-----------------------------------------------------------------------------
(* The coroutines of the main thread, and the requests of users             *)

SaveNotification(e) ==
  /\ e \in saving
  /\ saving' = saving \ {e}
  /\ rows' = [rows EXCEPT ![e] = @ + 1]
  /\ UNCHANGED <<kafka, server, runs, thread, smtp, read, mails, history>>

\* Only logged; a message longer than its column always fails.
SaveFails(e) ==
  /\ e \in saving
  /\ saving' = saving \ {e} /\ lost' = lost \union {e}
  /\ UNCHANGED <<kafka, server, runs, thread, smtp, rows, read, mails, raised,
                 unclean, retried>>

MarkAsRead(e) ==
  /\ server = "serving" /\ read[e] < rows[e]
  /\ read' = [read EXCEPT ![e] = @ + 1]
  /\ UNCHANGED <<kafka, server, runs, thread, smtp, saving, rows, mails,
                 history>>

MarkAllAsRead(u) ==
  /\ server = "serving"
  /\ read' = [e \in Events |-> IF ReceiverOf(e) = u THEN rows[e] ELSE read[e]]
  /\ UNCHANGED <<kafka, server, runs, thread, smtp, saving, rows, mails,
                 history>>

-----------------------------------------------------------------------------
Dispatch ==
  \E e \in Events : DispatchMail(e) \/ DispatchRow(e) \/ DispatchNone(e)

Consume ==
  \/ Dispatch \/ Connect \/ Send \/ Reconnect \/ Resend
  \/ MailSent \/ QuitFails \/ MailFails
Save(e) == SaveNotification(e) \/ SaveFails(e)

Next ==
  \/ \E e \in Events : Publish(e) \/ Save(e) \/ MarkAsRead(e)
  \/ \E u \in Users : MarkAllAsRead(u)
  \/ StartConsumer \/ OpenSmtp \/ Login \/ StopConsumer \/ Exit
  \/ Commit \/ PollFails \/ DropTaken \/ Consume
  \/ \E t \in Topics : Take(t)

Spec == Init /\ [][Next]_vars

\* The consumer thread polls every topic and runs on; the event loop of the
\* main thread runs what it was given.
Fairness ==
  /\ WF_vars(Consume)
  /\ \A t \in Topics : WF_vars(Take(t))
  /\ \A e \in Events : WF_vars(Save(e))

FairSpec == Spec /\ Fairness

-----------------------------------------------------------------------------
(* Properties *)

Done(e) == CASE EffectOf(e) = "mail" -> mails[e] > 0
             [] EffectOf(e) = "row"  -> rows[e] > 0
             [] EffectOf(e) = "none" -> TRUE

\* No offset is committed beyond an event that is neither handled, nor being
\* handled, nor known to be lost: by a failed handler or save, by a stop of
\* the server, or because it was taken when the consumer was stopped.
CommittedIsAccounted ==
  \A e \in Below(committed) :
    Done(e) \/ e \in saving \/ e = thread.event \/ e \in lost

\* The same, and every variable keeps its type: the committed offset of a topic
\* is at most the consumer's position, and that at most its end.
OffsetsAreSound == TypeOK /\ CommittedIsAccounted

\* A mail is sent twice only when its first attempt failed, and otherwise mails
\* and rows are doubled only after an end of the server or of its loop that
\* left a position uncommitted.
DuplicatesAreExplained ==
  \A e \in Events :
    (rows[e] > 1 \/ mails[e] > 1) => unclean \/ e \in retried

\* While the server serves and no exception leaves the loop - no mail fails and
\* no poll - every published event is handled, or lost: nothing else ends the
\* loop or stops the other events.
EveryEventIsHandled ==
  \A e \in Events :
    <>[](server = "serving" /\ ~raised)
      => (e \in Published ~> Done(e) \/ e \in lost)
=============================================================================
