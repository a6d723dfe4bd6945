----------------------------- MODULE Deployment -----------------------------
(***************************************************************************)
(* How a service starts.  main.py checks what the service depends on, one  *)
(* thing after the other, and runs the migrations of its schema in one     *)
(* transaction; what fails ends the start.  Docker starts a process again  *)
(* that ended; but under uvicorn's reloader, which DEBUG turns on, it is   *)
(* the reloader's child that ends, and nobody starts that again.  A        *)
(* database may be left from an older version of the service, with rows in *)
(* it that a migration does not bear.  The services do not act on one      *)
(* another when they start: the module follows one of them, any.           *)
(***************************************************************************)
EXTENDS Naturals, Sequences, FiniteSets

CONSTANTS
  MaxStarts, \* bound on how often the process is started
  NoTransaction

Services == {"auth", "user", "post", "chat", "notification"}

ASSUME DeploymentAssumption == MaxStarts \in Nat

\* reload=settings.DEBUG; that of the Notification-Server is always on.
Reloads(s) == IF s = "notification" THEN {TRUE} ELSE BOOLEAN

-----------------------------------------------------------------------------
(* What main.py does before the service serves, in its order: a check needs *)
(* the infrastructure of that name; "schema" is a check of the database     *)

AuthStart == <<"schema", "redis", "kafka", "migrate", "grpc">>
UserStart == <<"database", "minio", "kafka", "migrate", "grpc">>
PostStart == <<"database", "migrate", "minio", "kafka", "consumers">>
ChatStart == <<"database", "migrate", "redis">>
NotificationStart ==
  <<"launch", "import", "database", "migrate", "kafka", "smtp">>

StartOf(s) == CASE s = "auth" -> AuthStart [] s = "user" -> UserStart
                [] s = "post" -> PostStart [] s = "chat" -> ChatStart
                [] s = "notification" -> NotificationStart

\* The consumer of the Notification-Server is made when main.py is imported,
\* which the process does before its reloader, and the reloader's child again;
\* that of the Post-Server last, and the service does without.
Needs(step) == CASE step \in {"schema", "migrate"} -> {"database"}
                 [] step \in {"launch", "import"} -> {"kafka"}
                 [] step = "consumers" -> {}
                 [] step = "grpc" -> {"port"}
                 [] OTHER -> {step}

-----------------------------------------------------------------------------
(* The revisions of each schema: the tables and columns that they add and   *)
(* drop, of the columns those that some revision drops or adds later; and   *)
(* the rows that make them fail                                             *)

Rev(adds, drops, fails) == [adds |-> adds, drops |-> drops, fails |-> fails]

InitialSchema == Rev({"users", "users.username", "users.is_verified",
  "credentials", "credentials.mfa", "sessions"}, {}, {})
RemoveMfaColumns == Rev({}, {"credentials.mfa"}, {})
\* password_hash and others are added NOT NULL, without a default.
SyncModels == Rev({"login_history", "password_history", "refresh_sessions",
  "users.phone", "users.password_hash", "users.verified"},
  {"sessions", "credentials", "users.is_verified"}, {"users"})
RemoveRefreshSession == Rev({}, {"refresh_sessions"}, {})
RemoveUsername == Rev({}, {"users.username"}, {})

CreateUserSchemaTables == Rev({"user_profiles", "blocks", "follows",
  "privacy_settings", "profile_picture_url", "allow_message_requests"}, {}, {})
RenamePictureUrlToKey == Rev({"profile_picture_key"},
  {"profile_picture_url"}, {})
\* The key becomes shorter than what its column held.
RemoveAllowMessageRequests == Rev({}, {"allow_message_requests"},
  {"long keys"})

CreatePostTables == Rev({"posts", "post_comments", "post_likes", "post_media",
  "posts.counts"}, {}, {})
RemoveCachedCounts == Rev({}, {"posts.counts"}, {})
CreateStoriesTable == Rev({"stories"}, {}, {})

InitialChatSchema == Rev({"conversations", "messages", "deleted_messages",
  "message_reads"}, {}, {})

CreateNotificationsTable == Rev({"notifications"}, {}, {})

ChainOf(s) ==
  CASE s = "auth" -> <<InitialSchema, RemoveMfaColumns, SyncModels,
                       RemoveRefreshSession, RemoveUsername>>
    [] s = "user" -> <<CreateUserSchemaTables, RenamePictureUrlToKey,
                       RemoveAllowMessageRequests>>
    [] s = "post" -> <<CreatePostTables, RemoveCachedCounts,
                       CreateStoriesTable>>
    [] s = "chat" -> <<InitialChatSchema>>
    [] s = "notification" -> <<CreateNotificationsTable>>

\* What the models of each service declare.
AuthModels == {"users", "users.phone", "users.password_hash",
  "users.verified", "login_history", "password_history"}
UserModels == {"user_profiles", "blocks", "follows", "privacy_settings",
  "profile_picture_key"}
PostModels == {"posts", "post_comments", "post_likes", "post_media", "stories"}
ChatModels == {"conversations", "messages", "deleted_messages",
  "message_reads"}
NotificationModels == {"notifications"}

Declared(s) == CASE s = "auth" -> AuthModels [] s = "user" -> UserModels
                 [] s = "post" -> PostModels [] s = "chat" -> ChatModels
                 [] s = "notification" -> NotificationModels

Data == {"users", "long keys"}

-----------------------------------------------------------------------------
VARIABLES
  service,   \* the service that is followed
  reloaded,  \* whether it runs under the reloader
  avail,     \* the infrastructure that answers
  pc,        \* "down", the step of the start, "serving", or "stuck"
  starts,    \* how often it was started
  revision,  \* the revision of its schema, as committed
  schema,    \* the tables and columns, as committed
  pending,   \* the revision and schema inside the open transaction
  data       \* what rows there were before

db   == <<revision, schema, data>>
startsVars == <<service, reloaded, avail, pc, starts, db, pending>>

Chain == ChainOf(service)
Newest == Len(Chain)
Steps == StartOf(service)
Names == {Steps[i] : i \in 1..Len(Steps)}
Uses  == UNION {Needs(s) : s \in Names}

After(old, r) == (old \ r.drops) \union r.adds

\* What one of the first k revisions adds and none after it drops.
SchemaAt(k) ==
  {x \in UNION {Chain[i].adds : i \in 1..k} :
     \E i \in 1..k : /\ x \in Chain[i].adds
                     /\ \A j \in (i + 1)..k : x \notin Chain[j].drops}

StartsTypeOK ==
  /\ service \in Services /\ reloaded \in Reloads(service)
  /\ avail \in SUBSET Uses
  /\ pc \in {"down", "serving", "stuck"} \union Names
  /\ starts \in 0..MaxStarts
  /\ revision \in 0..Newest /\ schema = SchemaAt(revision)
  /\ data \in SUBSET Data
  /\ \/ pending = NoTransaction
     \/ /\ pc = "migrate"
        /\ pending.revision \in revision..Newest
        /\ pending.schema = SchemaAt(pending.revision)

\* Any version of the service may have left its database behind.
StartsInit ==
  /\ service \in Services /\ reloaded \in Reloads(service)
  /\ avail \in SUBSET Uses
  /\ pc = "down" /\ starts = 0
  /\ revision \in 0..Newest /\ schema = SchemaAt(revision)
  /\ data \in IF revision = 0 THEN {{}} ELSE SUBSET Data
  /\ pending = NoTransaction

\* What answers may stop to answer, and the other way round.
Change(i) ==
  /\ avail' = IF i \in avail THEN avail \ {i} ELSE avail \union {i}
  /\ UNCHANGED <<service, reloaded, pc, starts, db, pending>>

-----------------------------------------------------------------------------
(* The start *)

InStart == pc \in Names
Place   == CHOOSE i \in 1..Len(Steps) : Steps[i] = pc
Goes    == pc' = IF Place = Len(Steps) THEN "serving" ELSE Steps[Place + 1]

\* restart: always
Begin ==
  /\ pc = "down" /\ starts < MaxStarts
  /\ pc' = Steps[1] /\ starts' = starts + 1
  /\ UNCHANGED <<service, reloaded, avail, db, pending>>

Check ==
  /\ InStart /\ pc # "migrate" /\ Needs(pc) \subseteq avail
  /\ Goes
  /\ UNCHANGED <<service, reloaded, avail, starts, db, pending>>

\* alembic upgrade head: env.py opens one transaction for all revisions.
OpenTransaction ==
  /\ pc = "migrate" /\ pending = NoTransaction /\ "database" \in avail
  /\ pending' = [revision |-> revision, schema |-> schema]
  /\ UNCHANGED <<service, reloaded, avail, pc, starts, db>>

Coming  == Chain[pending.revision + 1]
Upgrade == [revision |-> pending.revision + 1,
            schema   |-> After(pending.schema, Coming)]

ApplyRevision ==
  /\ pending # NoTransaction /\ pending.revision < Newest
  /\ "database" \in avail
  /\ Coming.fails \intersect data = {}
  /\ pending' = Upgrade
  /\ UNCHANGED <<service, reloaded, avail, pc, starts, db>>

CommitTransaction ==
  /\ pending # NoTransaction /\ pending.revision = Newest
  /\ "database" \in avail
  /\ revision' = pending.revision /\ schema' = pending.schema
  /\ pending' = NoTransaction
  /\ Goes
  /\ UNCHANGED <<service, reloaded, avail, starts, data>>

\* SystemExit: the process ends, or the child of the reloader does, which is
\* there after the launch.
EndsAnyhow == "stuck"
Ended      == IF reloaded /\ pc # "launch" THEN "stuck" ELSE "down"

\* The database drops the transaction of a connection that closed.
RollsBack == pending' = NoTransaction

\* A revision that fails makes alembic return something else than 0.
Blocked  == pending.revision < Newest /\ Coming.fails \intersect data # {}
CannotGo == \/ pending = NoTransaction /\ ~(Needs(pc) \subseteq avail)
            \/ pending # NoTransaction /\ ("database" \notin avail \/ Blocked)
GoesOn    == Goes
EndsStart == pc' = Ended

StartFails ==
  /\ InStart /\ CannotGo
  /\ EndsStart /\ RollsBack
  /\ UNCHANGED <<service, reloaded, avail, starts, db>>

\* The process is stopped or dies, in its start or later, or someone starts
\* one anew that is stuck.
Kill ==
  /\ pc # "down"
  /\ pc' = "down" /\ RollsBack
  /\ UNCHANGED <<service, reloaded, avail, starts, db>>

-----------------------------------------------------------------------------
StartStep ==
  \/ Begin \/ Check \/ StartFails
  \/ OpenTransaction \/ ApplyRevision \/ CommitTransaction

StartsNext == StartStep \/ Kill \/ \E i \in Uses : Change(i)

StartsSpec == StartsInit /\ [][StartsNext]_startsVars

\* Docker starts what ended, and a start goes on.
StartsFairness == WF_startsVars(StartStep)
FairStarts == StartsSpec /\ StartsFairness

-----------------------------------------------------------------------------
(* Properties *)

\* A service that serves has a schema with exactly what its models declare,
\* whatever its database was left with, and wherever earlier starts ended.
ServesWhatIsDeclared == pc = "serving" => schema = Declared(service)

\* The same, and every variable keeps its type: the schema is always that of
\* one revision, inside the transaction and outside.
SchemaIsSound == StartsTypeOK /\ ServesWhatIsDeclared

\* When all of the infrastructure answers from some time on, and the service
\* is not stopped, it serves in the end: unless an earlier start ended under
\* the reloader, its rows block a revision, or the bound is reached.
Unblocked ==
  \A k \in (revision + 1)..Newest : Chain[k].fails \intersect data = {}
ServesInTheEnd ==
  (/\ <>[](avail = Uses /\ Unblocked /\ starts < MaxStarts)
   /\ <>[][~Kill]_startsVars)
    => <>[](pc = "serving" \/ (pc = "stuck" /\ reloaded))
=============================================================================
