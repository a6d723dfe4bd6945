------------------------------- MODULE Stories -------------------------------
(***************************************************************************)
(* Stories, which last a day.  The client puts the image into a bucket     *)
(* that MinIO empties of what is a day old, and has the Post-Server insert *)
(* a row that expires a day after the insert.  The feed of a user asks the *)
(* User-Service whom the user follows, reads the rows of those that have   *)
(* not expired, and may be answered long after either was true.  Deleting  *)
(* a story removes its row; the call that should remove the image is given *)
(* arguments the storage does not know, and its failure is only logged.    *)
(***************************************************************************)
EXTENDS Naturals

CONSTANTS
  Users,
  Readers,     \* those whose feed is followed here
  Stories,     \* attempts of a client to share a story: the image and the row
  OwnerOf(_),  \* who shares it
  Requests,    \* requests that delete a story
  Day,         \* how many steps of the clock a day takes
  MaxTime,     \* bound on the clock
  LastPut,     \* bound on the time at which an image is put
  None

ASSUME StoriesAssumption ==
  /\ Readers \subseteq Users
  /\ \A s \in Stories : OwnerOf(s) \in Users
  /\ Day \in Nat \ {0} /\ MaxTime \in Nat /\ LastPut \in 0..MaxTime
  /\ None \notin Stories \union Users \union Nat

VARIABLES
  now,
  bucket,    \* temp-media: whether it was made, and has its lifecycle rule
  sharing,   \* where the attempt to share a story is
  image,     \* when the image of a story was put, while it is stored
  putAt,     \* history: when it was put
  created,   \* when a story that is in the database was inserted
  follows,   \* whom each reader follows, as the User-Service has it
  req,       \* the requests that delete: the story that was read
  feed,      \* the request for the feed of a reader: the targets it was told
  shown,     \* the feed the page of each reader shows
  must, may  \* history, of the feed that is being asked for: the stories that
             \* belonged to it ever since; stories and users that did sometime

storage     == <<bucket, image, putAt>>
storiesVars ==
  <<now, storage, sharing, created, follows, req, feed, shown, must, may>>

Time  == 0..MaxTime
Feed  == [pc : {"idle", "following", "read"}, targets : SUBSET Users]
NoFeed == [pc |-> "idle", targets |-> {}]

StoriesTypeOK ==
  /\ now \in Time
  /\ bucket \in [made : BOOLEAN, rule : BOOLEAN] /\ (bucket.rule => bucket.made)
  /\ sharing \in [Stories -> {"idle", "make", "put", "ensure", "insert",
                              "done", "failed"}]
  /\ image \in [Stories -> Time \union {None}]
  /\ putAt \in [Stories -> Time \union {None}]
  /\ \A s \in Stories : image[s] \in {None, putAt[s]}
  /\ created \in [Stories -> Time \union {None}]
  /\ follows \in [Readers -> SUBSET Users]
  /\ req \in [Requests -> Stories \union {None}]
  /\ feed \in [Readers -> Feed]
  /\ shown \in [Readers -> SUBSET Stories]
  /\ must \in [Readers -> SUBSET Stories]
  /\ may \in [Readers -> [stories : SUBSET Stories, users : SUBSET Users]]

\* expires_at > now; a story that was just made expires in a day.
UntilTheEnd(s) == created[s] # None /\ now <= created[s] + Day
Active(s)      == created[s] # None /\ now < created[s] + Day
Circle(u)      == follows[u] \union {u}
Listed(u)      == {s \in Stories : Active(s) /\ OwnerOf(s) \in Circle(u)}
ActiveStories  == {s \in Stories : Active(s)}

StoriesInit ==
  /\ now = 0
  /\ bucket = [made |-> FALSE, rule |-> FALSE]
  /\ sharing = [s \in Stories |-> "idle"]
  /\ image = [s \in Stories |-> None] /\ putAt = image /\ created = image
  /\ follows \in [Readers -> SUBSET Users]
  /\ \A u \in Readers : u \notin follows[u]
  /\ req = [r \in Requests |-> None]
  /\ feed = [u \in Readers |-> NoFeed]
  /\ shown = [u \in Readers |-> {}]
  /\ must = shown
  /\ may = [u \in Readers |-> [stories |-> {}, users |-> {u} \union follows[u]]]

\* What every step adds to the history of the feeds: a feed nobody asks for
\* starts anew.
Watch ==
  /\ must' = [u \in Readers |->
       IF feed[u].pc = "idle" THEN Listed(u)'
                              ELSE must[u] \intersect Listed(u)']
  /\ may' = [u \in Readers |->
       IF feed[u].pc = "idle"
         THEN [stories |-> ActiveStories', users |-> Circle(u)']
         ELSE [stories |-> may[u].stories \union ActiveStories',
               users   |-> may[u].users \union Circle(u)']]

-----------------------------------------------------------------------------
(* Sharing a story *)

Goes(s, here, next) ==
  sharing[s] = here /\ sharing' = [sharing EXCEPT ![s] = next]

\* The rule is set whenever the bucket is looked at; a failure is only logged.
LosesRule(made) == bucket' \in [made : {made}, rule : {FALSE, made}]
SetsRule(made) ==
  bucket' \in [made : {made}, rule : {bucket.rule, made}]

\* generate_presigned_upload_url: ensure_bucket looks for the bucket.
GetUrl(s) ==
  /\ Goes(s, "idle", IF bucket.made THEN "put" ELSE "make")
  /\ SetsRule(bucket.made)
  /\ UNCHANGED <<now, image, putAt, created, follows, req, feed, shown>>
  /\ Watch

\* When someone else made it meanwhile, MinIO refuses, and the request fails.
MakeBucket(s) ==
  /\ Goes(s, "make", IF bucket.made THEN "failed" ELSE "put")
  /\ IF bucket.made THEN UNCHANGED bucket ELSE SetsRule(TRUE)
  /\ UNCHANGED <<now, image, putAt, created, follows, req, feed, shown>>
  /\ Watch

PutImage(s) ==
  /\ Goes(s, "put", "ensure") /\ now <= LastPut
  /\ image' = [image EXCEPT ![s] = now]
  /\ putAt' = [putAt EXCEPT ![s] = now]
  /\ UNCHANGED <<now, bucket, created, follows, req, feed, shown>>
  /\ Watch

\* create_story: ensure_bucket once more, then the insert; whether there is an
\* image is not looked at.
EnsureBucket(s) ==
  /\ Goes(s, "ensure", "insert")
  /\ SetsRule(bucket.made)
  /\ UNCHANGED <<now, image, putAt, created, follows, req, feed, shown>>
  /\ Watch

CreateStory(s) ==
  /\ Goes(s, "insert", "done")
  /\ created' = [created EXCEPT ![s] = now]
  /\ UNCHANGED <<now, storage, follows, req, feed, shown>>
  /\ Watch

\* Any request may fail; the client then starts over as another attempt.
SharingFails(s) ==
  /\ sharing[s] \notin {"idle", "done", "failed"}
  /\ sharing' = [sharing EXCEPT ![s] = "failed"]
  /\ UNCHANGED <<now, storage, created, follows, req, feed, shown>>
  /\ Watch

-----------------------------------------------------------------------------
(* Deleting it, and the clock *)

\* Only the owner's request gets this far.
DeleteStart(r, s) ==
  /\ req[r] = None /\ created[s] # None
  /\ req' = [req EXCEPT ![r] = s]
  /\ UNCHANGED <<now, storage, sharing, created, follows, feed, shown>>
  /\ Watch

\* The image stays: storage.delete is never reached.
DeleteStory(r) ==
  /\ req[r] # None
  /\ req' = [req EXCEPT ![r] = None]
  /\ created' = [created EXCEPT ![req[r]] = None]
  /\ UNCHANGED <<now, storage, sharing, follows, feed, shown>>
  /\ Watch

Tick ==
  /\ now < MaxTime
  /\ now' = now + 1
  /\ UNCHANGED <<storage, sharing, created, follows, req, feed, shown>>
  /\ Watch

\* MinIO removes an image that is a day old, some time after that.
Expire(s) ==
  /\ bucket.rule /\ image[s] # None /\ now >= image[s] + Day
  /\ image' = [image EXCEPT ![s] = None]
  /\ UNCHANGED <<now, bucket, putAt, sharing, created, follows, req, feed,
                 shown>>
  /\ Watch

-----------------------------------------------------------------------------
(* The feed *)

Follow(u, v) ==
  /\ u # v
  /\ \/ follows' = [follows EXCEPT ![u] = @ \union {v}]
     \/ follows' = [follows EXCEPT ![u] = @ \ {v}]
  /\ UNCHANGED <<now, storage, sharing, created, req, feed, shown>>
  /\ Watch

AskFeed(u) ==
  /\ feed[u].pc = "idle"
  /\ feed' = [feed EXCEPT ![u] = [pc |-> "following", targets |-> {u}]]
  /\ shown' = [shown EXCEPT ![u] = {}]
  /\ UNCHANGED <<now, storage, sharing, created, follows, req>>
  /\ Watch

\* When the User-Service does not answer, the targets stay the user alone.
GetFollowing(u) ==
  /\ feed[u].pc = "following"
  /\ \E t \in {{u}, Circle(u)} :
       feed' = [feed EXCEPT ![u] = [pc |-> "read", targets |-> t]]
  /\ UNCHANGED <<now, storage, sharing, created, follows, req, shown>>
  /\ Watch

Everything(u) ==
  {s \in Stories : created[s] # None /\ OwnerOf(s) \in feed[u].targets}
Unexpired(u)  ==
  {s \in Stories : Active(s) /\ OwnerOf(s) \in feed[u].targets}

ReadStories(u) ==
  /\ feed[u].pc = "read"
  /\ shown' = [shown EXCEPT ![u] = Unexpired(u)]
  /\ feed' = [feed EXCEPT ![u] = NoFeed]
  /\ UNCHANGED <<now, storage, sharing, created, follows, req>>
  /\ Watch

FeedFails(u) ==
  /\ feed[u].pc # "idle"
  /\ feed' = [feed EXCEPT ![u] = NoFeed]
  /\ UNCHANGED <<now, storage, sharing, created, follows, req, shown>>
  /\ Watch

-----------------------------------------------------------------------------
StoriesNext ==
  \/ \E s \in Stories :
       \/ GetUrl(s) \/ MakeBucket(s) \/ PutImage(s) \/ EnsureBucket(s)
       \/ CreateStory(s) \/ SharingFails(s) \/ Expire(s)
       \/ \E r \in Requests : DeleteStart(r, s)
  \/ \E r \in Requests : DeleteStory(r)
  \/ \E u \in Readers :
       \/ AskFeed(u) \/ GetFollowing(u) \/ ReadStories(u) \/ FeedFails(u)
       \/ \E v \in Users : Follow(u, v)
  \/ Tick

StoriesSpec == StoriesInit /\ [][StoriesNext]_storiesVars

\* Time goes on, and MinIO looks for what it has to remove again and again.
StoriesFairness ==
  /\ WF_storiesVars(Tick)
  /\ \A s \in Stories : WF_storiesVars(Expire(s))

FairStories == StoriesSpec /\ StoriesFairness

-----------------------------------------------------------------------------
(* Properties *)

\* A story that is not expired has its image, if no time passed between the
\* image and the row; else the image may be removed first.
ActiveStoryHasImage ==
  \A s \in Stories : Active(s) => image[s] # None \/ putAt[s] < created[s]

\* The same, and every variable keeps its type.
ImagesAreSound == StoriesTypeOK /\ ActiveStoryHasImage

\* The page of a user is given what the history of the feed allows.
ShowsTheTruth(u) ==
  ReadStories(u) =>
    /\ {s \in must[u] : OwnerOf(s) = u \/ feed[u].targets # {u}}
         \subseteq shown'[u]
    /\ \A s \in shown'[u] : /\ s \in may[u].stories
                           /\ OwnerOf(s) \in may[u].users

\* A feed lists the unexpired stories that were the user's own ever since it
\* was asked for, those of others that were so too unless the User-Service did
\* not answer, and nothing that was not unexpired, or of someone not followed,
\* at any moment of the request.
FeedIsTrue == [][\A u \in Readers : ShowsTheTruth(u)]_storiesVars

\* Once the bucket has its rule, every image is removed in the end, whether or
\* not its story was published or deleted.
ImagesAreRemoved ==
  \A s \in Stories : (image[s] # None /\ bucket.rule) ~> image[s] = None
=============================================================================
