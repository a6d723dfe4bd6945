--------------------------- MODULE FollowRelations ---------------------------
(***************************************************************************)
(* What the User-Service promises of follow relations, without the rows,   *)
(* the sessions and the commits that bring it about.  A relation begins    *)
(* once, as a request or agreed to, and two of one pair never last at the  *)
(* same time; a request may become a follow; what has ended, whoever ended *)
(* it, does not come back; and nobody is told of a relation before it      *)
(* began, nor that a request was accepted that was not.                    *)
(***************************************************************************)
CONSTANTS Users, Ids

VARIABLES
  stage,    \* where the relation of an id is
  parties,  \* who asked to follow whom, while the relation lasts
  told      \* the messages about relations

vars == <<stage, parties, told>>

Messages == {"following", "requested", "accepted", "you_accepted"}

Init ==
  /\ stage = [i \in Ids |-> "free"]
  /\ parties = [i \in Ids |-> {}]
  /\ told = {}

Moves(i, here, next) == stage[i] = here /\ stage' = [stage EXCEPT ![i] = next]

Begin(i) ==
  /\ Moves(i, "free", "requested") \/ Moves(i, "free", "following")
  /\ \E u, t \in Users :
       /\ u # t
       /\ \A j \in Ids : <<u, t>> \notin parties[j]
       /\ parties' = [parties EXCEPT ![i] = {<<u, t>>}]
  /\ UNCHANGED told

\* There is a relation of the two already: the id is used up.
Refuse(i) ==
  /\ Moves(i, "free", "void")
  /\ UNCHANGED <<parties, told>>

Accept(i) ==
  /\ Moves(i, "requested", "following")
  /\ UNCHANGED <<parties, told>>

End(i) ==
  /\ Moves(i, "requested", "ended") \/ Moves(i, "following", "ended")
  /\ parties' = [parties EXCEPT ![i] = {}]
  /\ UNCHANGED told

\* A message may be late, after the end.
Tell(i) ==
  /\ stage[i] \in {"requested", "following", "ended"}
  /\ \E m \in Messages :
       /\ told' = told \union {<<m, i>>}
       /\ m = "requested" \/ stage[i] # "requested"
  /\ UNCHANGED <<stage, parties>>

Next == \E i \in Ids : Begin(i) \/ Refuse(i) \/ Accept(i) \/ End(i) \/ Tell(i)

Spec == Init /\ [][Next]_vars
=============================================================================
