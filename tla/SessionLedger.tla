---------------------------- MODULE SessionLedger ----------------------------
(***************************************************************************)
(* What the Authentication-Server promises of login sessions, without the  *)
(* Redis keys, the sets and the coroutines that bring it about.  A session *)
(* id is drawn once, for one user; its session is opened at most once, and *)
(* once it is closed, whoever closed it, it stays closed; its tokens are   *)
(* given to a client once, and never before there was a session.           *)
(***************************************************************************)
CONSTANTS Users, Sids, NoUser

VARIABLES
  holder,  \* whom a session id was drawn for
  stage,   \* where its session is
  handed   \* the session ids whose tokens a client was given

vars == <<holder, stage, handed>>

Init ==
  /\ holder = [s \in Sids |-> NoUser]
  /\ stage = [s \in Sids |-> "free"]
  /\ handed = {}

Moves(s, here, next) == stage[s] = here /\ stage' = [stage EXCEPT ![s] = next]

Draw(s, u) ==
  /\ Moves(s, "free", "drawn")
  /\ holder' = [holder EXCEPT ![s] = u]
  /\ UNCHANGED handed

Open(s) ==
  /\ Moves(s, "drawn", "open")
  /\ UNCHANGED <<holder, handed>>

\* Before it was opened: the login was refused, or the request stopped.
Close(s) ==
  /\ Moves(s, "drawn", "closed") \/ Moves(s, "open", "closed")
  /\ UNCHANGED <<holder, handed>>

Hand(s) ==
  /\ stage[s] \in {"open", "closed"} /\ s \notin handed
  /\ handed' = handed \union {s}
  /\ UNCHANGED <<holder, stage>>

Next ==
  \E s \in Sids : \/ \E u \in Users : Draw(s, u)
                  \/ Open(s) \/ Close(s) \/ Hand(s)

Spec == Init /\ [][Next]_vars
=============================================================================
