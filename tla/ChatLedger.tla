------------------------------ MODULE ChatLedger ------------------------------
(***************************************************************************)
(* What the chat-server promises of a conversation, without the rows, the  *)
(* columns and the handlers that bring it about.  A message is sent once,  *)
(* in a conversation that there is, and has one author for good; it can be *)
(* read, with the text of its latest edit, until it is deleted for         *)
(* everyone, and never again; an author may hide his message from himself, *)
(* for good.                                                               *)
(***************************************************************************)
CONSTANTS Users,
          Messages,  \* texts are named after the messages and edits as well
          Absent

VARIABLES
  begun,   \* whether there is a conversation
  stage,   \* where a message is
  author,  \* who sent it
  text,    \* what can be read of it
  hidden   \* the messages that are hidden, and from whom

vars == <<begun, stage, author, text, hidden>>

Init ==
  /\ begun \in BOOLEAN
  /\ stage = [m \in Messages |-> "unsent"]
  /\ author = [m \in Messages |-> Absent]
  /\ text = [m \in Messages |-> Absent]
  /\ hidden = {}

Begin ==
  /\ begun' = TRUE
  /\ UNCHANGED <<stage, author, text, hidden>>

Send(m, u) ==
  /\ begun
  /\ stage[m] = "unsent" /\ stage' = [stage EXCEPT ![m] = "sent"]
  /\ author' = [author EXCEPT ![m] = u]
  /\ text' = [text EXCEPT ![m] = m]
  /\ UNCHANGED <<begun, hidden>>

Edit(m, t) ==
  /\ stage[m] = "sent"
  /\ text' = [text EXCEPT ![m] = t]
  /\ UNCHANGED <<begun, stage, author, hidden>>

Delete(m) ==
  /\ stage[m] = "sent" /\ stage' = [stage EXCEPT ![m] = "deleted"]
  /\ text' = [text EXCEPT ![m] = Absent]
  /\ UNCHANGED <<begun, author, hidden>>

Hide(m) ==
  /\ stage[m] # "unsent"
  /\ hidden' = hidden \union {<<m, author[m]>>}
  /\ UNCHANGED <<begun, stage, author, text>>

Next ==
  \/ Begin
  \/ \E m \in Messages : \/ \E u \in Users : Send(m, u)
                         \/ \E t \in Messages : Edit(m, t)
                         \/ Delete(m) \/ Hide(m)

Spec == Init /\ [][Next]_vars
=============================================================================
