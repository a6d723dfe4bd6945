----------------------------- MODULE Media_proofs -----------------------------
(***************************************************************************)
(* Proofs about Media for every set of posts, pieces and segments and any  *)
(* number of workers: what the database refers to is stored, and a page    *)
(* that was given a stream can play it, or was given that of a transcoding *)
(* that goes on or failed.  The second part is about Stories, for every    *)
(* set of users, stories and requests and every length of the day: the     *)
(* images of stories go to a bucket that MinIO empties.                    *)
(***************************************************************************)
EXTENDS Media, Stories, TLAPS

\* How far a client got tells what is stored; only a video whose client is done
\* is transcoded.
ClientInv(p) ==
  /\ p \notin Videos => parts[p] = {}
  /\ client[p] = "complete" => p \in Videos
  /\ client[p] \in {"create", "reread", "done"} =>
       MediaOf(p) \subseteq stored[p]
  /\ task[p].pc # "none" => p \in Videos /\ client[p] = "done"

\* While a transcoding uploads, what is not stored is still to be uploaded; a
\* playlist comes from one that uploads, failed, or went through.
StreamInv(p) ==
  /\ task[p].pc = "upload" =>
       Outputs \subseteq stored[p] \union task[p].todo \/ p \in spoiled
  /\ "index" \in stored[p] =>
       \/ Outputs \subseteq stored[p] \/ task[p].pc = "upload" \/ p \in spoiled

IInv ==
  /\ TypeOK
  /\ PublishedIsStored
  /\ StreamsArePlayable
  /\ \A p \in Posts : ClientInv(p) /\ StreamInv(p)

USE MediaAssumption

LEMMA InitInv == Init => IInv
BY DEF Init, IInv, TypeOK, PublishedIsStored, StreamsArePlayable, ClientInv,
       StreamInv, Task, NoTask

-----------------------------------------------------------------------------
(* What keeps the invariant *)

\* A step of a client that only adds media to the storage keeps it.
LEMMA ClientStepInv ==
  ASSUME IInv, NEW p \in Posts,
         UNCHANGED <<task, page, spoiled>>,
         client' \in [Posts -> {"idle", "put", "complete", "create", "reread",
                                "done", "failed"}],
         parts' \in [Posts -> SUBSET Pieces],
         stored' \in [Posts -> SUBSET ({"raw"} \union Pieces \union Outputs)],
         row' \in SUBSET Posts, up' \in BOOLEAN,
         \A q \in Posts : /\ stored[q] \subseteq stored'[q]
                          /\ stored'[q] \ stored[q]
                               \subseteq {"raw"} \union Pieces,
         \A q \in Posts \ {p} : client'[q] = client[q] /\ parts'[q] = parts[q],
         p \notin Videos => parts'[p] = {},
         client[p] # "done",
         client'[p] = "complete" => p \in Videos,
         client'[p] \in {"create", "reread", "done"} =>
           MediaOf(p) \subseteq stored'[p],
         row' \ row \subseteq {p},
         p \in row' \ row => MediaOf(p) \subseteq stored[p]
  PROVE  IInv'
<1>1. TypeOK'
  BY DEF IInv, TypeOK
<1>2. PublishedIsStored'
  BY DEF IInv, PublishedIsStored, MediaOf
<1>3. \A q \in Posts : "index" \in stored'[q] => "index" \in stored[q]
  OBVIOUS
<1>4. StreamsArePlayable'
  BY DEF IInv, StreamsArePlayable
<1>5. ASSUME NEW q \in Posts PROVE ClientInv(q)'
  BY DEF IInv, ClientInv, MediaOf
<1>6. ASSUME NEW q \in Posts PROVE StreamInv(q)'
  BY <1>3 DEF IInv, StreamInv
<1> QED BY <1>1, <1>2, <1>4, <1>5, <1>6 DEF IInv

\* A step of a transcoding keeps it that leaves StreamInv true, and stores only
\* outputs.
LEMMA TaskStepInv ==
  ASSUME IInv, NEW p \in Posts,
         UNCHANGED <<up, client, parts, row, page>>,
         task[p].pc # "none",
         task' \in [Posts -> Task],
         task'[p].todo # {} => task'[p].pc = "upload",
         stored' \in [Posts -> SUBSET ({"raw"} \union Pieces \union Outputs)],
         spoiled \subseteq spoiled', spoiled' \subseteq spoiled \union {p},
         \A q \in Posts \ {p} : task'[q] = task[q] /\ stored'[q] = stored[q],
         stored[p] \subseteq stored'[p],
         StreamInv(p)'
  PROVE  IInv'
<1>1. p \in Videos
  BY DEF IInv, ClientInv
<1>2. TypeOK'
  BY <1>1 DEF IInv, TypeOK
<1>3. PublishedIsStored'
  BY DEF IInv, PublishedIsStored, MediaOf, TypeOK
<1>4. StreamsArePlayable'
  BY DEF IInv, StreamsArePlayable, StreamInv
<1>5. ASSUME NEW q \in Posts PROVE ClientInv(q)'
  BY DEF IInv, ClientInv, MediaOf
<1>6. ASSUME NEW q \in Posts PROVE StreamInv(q)'
  BY DEF IInv, StreamInv
<1> QED BY <1>2, <1>3, <1>4, <1>5, <1>6 DEF IInv

-----------------------------------------------------------------------------
(* One step for each action *)

LEMMA ClientInvs ==
  ASSUME IInv, NEW p \in Posts,
         \/ GetUrls(p) \/ PutAll(p) \/ CompleteUpload(p) \/ CreatePost(p)
         \/ \E n \in Pieces : Put(p, n)
  PROVE  IInv'
<1>1. TypeOK /\ ClientInv(p)
  BY DEF IInv
<1>2. CASE GetUrls(p)
  BY <1>1, <1>2, ClientStepInv DEF TypeOK, ClientInv, GetUrls, From
<1>3. CASE PutAll(p)
  BY <1>1, <1>3, ClientStepInv
     DEF TypeOK, ClientInv, PutAll, AllPut, From, MediaOf
<1>4. CASE CompleteUpload(p)
  BY <1>1, <1>4, ClientStepInv
     DEF TypeOK, ClientInv, CompleteUpload, From, MediaOf
<1>5. CASE CreatePost(p)
  BY <1>1, <1>5, ClientStepInv DEF TypeOK, ClientInv, CreatePost, From
<1>6. ASSUME NEW n \in Pieces, Put(p, n) PROVE IInv'
  BY <1>1, <1>6, ClientStepInv DEF TypeOK, ClientInv, Put
<1> QED BY <1>2, <1>3, <1>4, <1>5, <1>6

\* The second read succeeds, and the transcoding of a video is queued.
LEMMA RereadInv ==
  ASSUME IInv, NEW p \in Posts, Reread(p)
  PROVE  IInv'
<1>1. /\ TypeOK /\ ClientInv(p) /\ StreamInv(p)
      /\ client[p] = "reread" /\ task[p].pc = "none"
      /\ UNCHANGED <<up, parts, stored, row, page, spoiled>>
  BY DEF IInv, Reread, From, ClientInv
<1>2. /\ client' \in [Posts -> {"idle", "put", "complete", "create", "reread",
                                "done", "failed"}]
      /\ client'[p] = "done"
      /\ \A q \in Posts \ {p} : client'[q] = client[q]
  BY <1>1 DEF TypeOK, Reread, From
<1>3. /\ task' \in [Posts -> Task]
      /\ task'[p].pc \in {"none", "queued"} /\ task'[p].todo = task[p].todo
      /\ task'[p].pc # "none" => p \in Videos
      /\ \A q \in Posts \ {p} : task'[q] = task[q]
  BY <1>1 DEF TypeOK, Reread, Task
<1>4. TypeOK'
  BY <1>1, <1>2, <1>3 DEF TypeOK
<1>5. PublishedIsStored'
  BY <1>1 DEF IInv, PublishedIsStored, MediaOf
<1>6. StreamsArePlayable'
  BY <1>1, <1>3 DEF IInv, StreamsArePlayable
<1>7. ASSUME NEW q \in Posts PROVE ClientInv(q)'
  BY <1>1, <1>2, <1>3 DEF IInv, ClientInv, MediaOf
<1>8. ASSUME NEW q \in Posts PROVE StreamInv(q)'
  BY <1>1, <1>3 DEF IInv, StreamInv
<1> QED BY <1>4, <1>5, <1>6, <1>7, <1>8 DEF IInv

\* A client that fails before it is done has no transcoding.
LEMMA ClientFailsInv ==
  ASSUME IInv, NEW p \in Posts, ClientFails(p)
  PROVE  IInv'
<1>1. /\ TypeOK /\ client'[p] = "failed" /\ client[p] # "done"
      /\ client' \in [Posts -> {"idle", "put", "complete", "create", "reread",
                                "done", "failed"}]
      /\ \A q \in Posts \ {p} : client'[q] = client[q]
      /\ UNCHANGED <<up, parts, stored, row, task, page>>
      /\ spoiled \subseteq spoiled' /\ spoiled' \in SUBSET Videos
  BY DEF IInv, TypeOK, ClientFails
<1>2. TypeOK'
  BY <1>1 DEF TypeOK
<1>3. PublishedIsStored' /\ StreamsArePlayable'
  BY <1>1 DEF IInv, PublishedIsStored, StreamsArePlayable, MediaOf
<1>4. ASSUME NEW q \in Posts PROVE ClientInv(q)' /\ StreamInv(q)'
  BY <1>1 DEF IInv, ClientInv, StreamInv, MediaOf
<1> QED BY <1>2, <1>3, <1>4 DEF IInv

\* Before it uploads, a transcoding has stored nothing.
LEMMA TaskInvs ==
  ASSUME IInv, NEW p \in Posts, TaskStep(p)
  PROVE  IInv'
<1>1. TypeOK /\ ClientInv(p) /\ StreamInv(p) /\ p \in DOMAIN task
  BY DEF IInv, TypeOK
<1>2. CASE TakeWorker(p)
  <2>1. /\ task' \in [Posts -> Task] /\ task'[p].pc = "download"
        /\ task'[p].todo = task[p].todo
        /\ \A q \in Posts \ {p} : task'[q] = task[q]
    BY <1>1, <1>2 DEF TypeOK, Task, TakeWorker, Become
  <2> QED BY <1>1, <1>2, <2>1, TaskStepInv DEF TypeOK, StreamInv, TakeWorker
<1>3. CASE Download(p)
  <2>1. /\ task' \in [Posts -> Task] /\ task'[p].pc = "transcode"
        /\ task'[p].todo = task[p].todo
        /\ \A q \in Posts \ {p} : task'[q] = task[q]
    BY <1>1, <1>3 DEF TypeOK, Task, Download, Become
  <2> QED BY <1>1, <1>3, <2>1, TaskStepInv DEF TypeOK, StreamInv, Download
<1>4. CASE Transcode(p)
  <2>1. /\ task' \in [Posts -> Task] /\ task'[p].pc = "upload"
        /\ task'[p].todo = Outputs
        /\ \A q \in Posts \ {p} : task'[q] = task[q]
    BY <1>1, <1>4 DEF TypeOK, Task, Transcode
  <2> QED BY <1>1, <1>4, <2>1, TaskStepInv DEF TypeOK, StreamInv, Transcode
<1>5. CASE TaskFails(p)
  <2>1. /\ task' \in [Posts -> Task] /\ task'[p].pc = "ended"
        /\ task'[p].todo = task[p].todo
        /\ \A q \in Posts \ {p} : task'[q] = task[q]
    BY <1>1, <1>5 DEF TypeOK, Task, TaskFails, Become
  <2> QED BY <1>1, <1>5, <2>1, TaskStepInv DEF TypeOK, StreamInv, TaskFails
<1>6. CASE TaskEnds(p)
  <2>1. /\ task' \in [Posts -> Task] /\ task'[p].pc = "ended"
        /\ task'[p].todo = {} /\ task[p].todo = {}
        /\ \A q \in Posts \ {p} : task'[q] = task[q]
    BY <1>1, <1>6 DEF TypeOK, Task, TaskEnds, Become, NothingLeft
  <2> QED BY <1>1, <1>6, <2>1, TaskStepInv DEF TypeOK, StreamInv, TaskEnds
<1>7. ASSUME NEW f \in Outputs, UploadOutput(p, f) PROVE IInv'
  <2>1. /\ task' \in [Posts -> Task] /\ task'[p].pc = "upload"
        /\ task'[p].todo = task[p].todo \ {f} /\ task[p].pc = "upload"
        /\ \A q \in Posts \ {p} : task'[q] = task[q]
        /\ UNCHANGED <<up, client, parts, row, page>>
    BY <1>1, <1>7 DEF TypeOK, Task, UploadOutput
  <2>2. CASE UNCHANGED stored /\ spoiled' = Logged(p)
    BY <1>1, <2>1, <2>2, TaskStepInv DEF TypeOK, StreamInv, Logged
  <2>3. CASE stored' = [stored EXCEPT ![p] = @ \union {f}] /\ UNCHANGED spoiled
    <3>1. /\ stored'[p] = stored[p] \union {f}
          /\ \A q \in Posts \ {p} : stored'[q] = stored[q]
          /\ stored' \in
               [Posts -> SUBSET ({"raw"} \union Pieces \union Outputs)]
      BY <1>1, <2>3 DEF TypeOK
    <3>2. StreamInv(p)'
      BY <1>1, <2>1, <2>3, <3>1 DEF StreamInv
    <3> QED BY <1>1, <2>1, <2>3, <3>1, <3>2, TaskStepInv
  <2> QED BY <1>7, <2>2, <2>3 DEF UploadOutput
<1> QED BY <1>2, <1>3, <1>4, <1>5, <1>6, <1>7 DEF TaskStep

\* A page is given a stream when its playlist is there.
LEMMA PageInv ==
  ASSUME IInv, NEW p \in Posts, AskPage(p) \/ AnswerPage(p)
  PROVE  IInv'
<1>1. /\ TypeOK /\ StreamInv(p)
      /\ UNCHANGED <<up, client, parts, stored, row, task, spoiled>>
      /\ page' \in [Posts -> {"none", "asked", "file", "stream"}]
      /\ \A q \in Posts \ {p} : page'[q] = page[q]
      /\ page'[p] = "stream" => "index" \in stored[p]
  BY DEF IInv, TypeOK, AskPage, AnswerPage, Exists
<1>2. TypeOK' /\ PublishedIsStored'
  BY <1>1 DEF IInv, TypeOK, PublishedIsStored, MediaOf
<1>3. StreamsArePlayable'
  BY <1>1 DEF IInv, StreamsArePlayable, StreamInv
<1>4. ASSUME NEW q \in Posts PROVE ClientInv(q)' /\ StreamInv(q)'
  BY <1>1 DEF IInv, ClientInv, StreamInv, MediaOf
<1> QED BY <1>2, <1>3, <1>4 DEF IInv

\* A transcoding that a crash stops has failed.
LEMMA CrashInv ==
  ASSUME IInv, Crash
  PROVE  IInv'
<1>1. TypeOK /\ UNCHANGED <<parts, stored, row>>
  BY DEF IInv, Crash
<1>2. \A p \in Posts : client'[p] \in {client[p], "failed"}
                         /\ (client[p] = "done" => client'[p] = "done")
  BY DEF Crash
<1>3. \A p \in Posts : /\ task'[p].todo = {}
                       /\ task'[p].pc = IF task[p].pc = "none" THEN "none"
                                                              ELSE "ended"
  BY DEF Crash, NoTask
<1>4. /\ spoiled \subseteq spoiled' /\ spoiled' \subseteq Videos
      /\ \A p \in Videos : task[p].pc = "upload" => p \in spoiled'
  BY <1>1 DEF Crash, Working, TypeOK
<1>5. \A p \in Posts : page'[p] = "stream" => page[p] = "stream"
  BY DEF Crash
<1>6. TypeOK'
  <2>1. task' \in [Posts -> Task]
    BY <1>1 DEF Crash, Task, NoTask, TypeOK
  <2>2. client' \in [Posts -> {"idle", "put", "complete", "create", "reread",
                               "done", "failed"}]
    BY <1>1 DEF Crash, TypeOK
  <2>3. page' \in [Posts -> {"none", "asked", "file", "stream"}]
    BY <1>1 DEF Crash, TypeOK
  <2>4. up' \in BOOLEAN
    BY DEF Crash
  <2> QED BY <1>1, <1>3, <1>4, <2>1, <2>2, <2>3, <2>4 DEF TypeOK
<1>7. PublishedIsStored'
  BY <1>1 DEF IInv, PublishedIsStored, MediaOf
<1>8. \A p \in Posts : task[p].pc # "none" => p \in Videos
  BY DEF IInv, ClientInv
<1>9. StreamsArePlayable'
  BY <1>1, <1>3, <1>4, <1>5, <1>8 DEF IInv, StreamsArePlayable
<1>10. ASSUME NEW p \in Posts PROVE ClientInv(p)'
  BY <1>1, <1>2, <1>3 DEF IInv, ClientInv, MediaOf
<1>11. ASSUME NEW p \in Posts PROVE StreamInv(p)'
  BY <1>1, <1>3, <1>4, <1>8 DEF IInv, StreamInv
<1> QED BY <1>6, <1>7, <1>9, <1>10, <1>11 DEF IInv

\* Restart changes nothing but that the server runs.
LEMMA RestartInv ==
  ASSUME IInv, Restart \/ UNCHANGED vars
  PROVE  IInv'
BY DEF Restart, vars, IInv, TypeOK, PublishedIsStored, StreamsArePlayable,
       ClientInv, StreamInv, MediaOf

-----------------------------------------------------------------------------
(* Theorems *)

\* Clients, storage, transcodings and pages fit together in every state.
THEOREM Invariance == Spec => []IInv
<1>1. ASSUME IInv, [Next]_vars
      PROVE  IInv'
  BY <1>1, ClientInvs, RereadInv, ClientFailsInv, TaskInvs, PageInv, CrashInv,
     RestartInv DEF Next
<1> QED BY <1>1, InitInv, PTL DEF Spec

\* Every post in the database has all its media in the storage, wherever its
\* client or the server stopped.
THEOREM StorageCorrect == Spec => []StorageIsSound
<1>1. IInv => StorageIsSound
  BY DEF IInv, StorageIsSound
<1> QED BY <1>1, Invariance, PTL

\* A page that plays a stream has every segment, unless the transcoding goes on
\* or failed.
THEOREM StreamsCorrect == Spec => []StreamsArePlayable
<1>1. IInv => StreamsArePlayable
  BY DEF IInv
<1> QED BY <1>1, Invariance, PTL

-----------------------------------------------------------------------------
(* The stories: Stories                                                    *)

HIDE MediaAssumption
USE StoriesAssumption

\* A row comes after its image, and an image is not removed before its day.
ImageInv(s) ==
  /\ sharing[s] # "done" => created[s] = None
  /\ sharing[s] \in {"ensure", "insert"} => putAt[s] # None /\ putAt[s] <= now
  /\ created[s] # None => putAt[s] # None /\ putAt[s] <= created[s]
  /\ putAt[s] # None /\ image[s] = None => now >= putAt[s] + Day

\* What must be shown is to be shown now, and what is now is among what may be.
WatchInv(u) ==
  /\ must[u] \subseteq Listed(u)
  /\ ActiveStories \subseteq may[u].stories
  /\ Circle(u) \subseteq may[u].users

\* The targets of a feed were in the circle of the user at some moment of the
\* request; unless they are the user alone, they hold the owner of every story
\* that must be shown.
FeedInv(u) ==
  /\ feed[u].pc = "following" => feed[u].targets = {u}
  /\ feed[u].pc = "read" =>
       /\ feed[u].targets \subseteq may[u].users
       /\ feed[u].targets # {u} =>
            \A s \in must[u] : OwnerOf(s) \in feed[u].targets
       /\ u \in feed[u].targets

\* The inductive invariant of Stories.
SInv ==
  /\ StoriesTypeOK
  /\ \A s \in Stories : ImageInv(s)
  /\ \A u \in Readers : WatchInv(u) /\ FeedInv(u)

\* At first there is no story.
LEMMA StoriesInitInv ==
  ASSUME StoriesInit
  PROVE  SInv
<1>1. StoriesTypeOK
  BY DEF StoriesInit, StoriesTypeOK, Time, Feed, NoFeed
<1>2. \A s \in Stories : ImageInv(s) /\ created[s] = None
  BY DEF StoriesInit, ImageInv
<1>3. \A u \in Readers : WatchInv(u) /\ FeedInv(u)
  BY <1>2
     DEF StoriesInit, WatchInv, FeedInv, Circle, ActiveStories, Active, NoFeed
<1> QED BY <1>1, <1>2, <1>3 DEF SInv

\* The history follows whatever a step does to the stories and the follows.
LEMMA WatchStep ==
  ASSUME SInv, Watch
  PROVE  /\ must' \in [Readers -> SUBSET Stories]
         /\ follows' \in [Readers -> SUBSET Users] =>
              may' \in [Readers ->
                          [stories : SUBSET Stories, users : SUBSET Users]]
         /\ \A u \in Readers :
              /\ WatchInv(u)'
              /\ feed[u].pc # "idle" =>
                   /\ must'[u] \subseteq must[u]
                   /\ may[u].users \subseteq may'[u].users
<1>1. /\ must \in [Readers -> SUBSET Stories]
      /\ may \in [Readers -> [stories : SUBSET Stories, users : SUBSET Users]]
  BY DEF SInv, StoriesTypeOK
<1>2. \A u \in Readers : Listed(u)' \subseteq Stories
  BY DEF Listed
<1>3. must' \in [Readers -> SUBSET Stories]
  BY <1>1, <1>2 DEF Watch
<1>4. \A u \in Readers :
        /\ must'[u] \subseteq Listed(u)'
        /\ feed[u].pc # "idle" => must'[u] \subseteq must[u]
  BY <1>1, <1>2 DEF Watch
<1>5. ASSUME NEW u \in Readers
      PROVE  /\ ActiveStories' \subseteq may'[u].stories
             /\ Circle(u)' \subseteq may'[u].users
             /\ feed[u].pc # "idle" => may[u].users \subseteq may'[u].users
  <2>1. CASE feed[u].pc = "idle"
    BY <2>1 DEF Watch
  <2>2. CASE feed[u].pc # "idle"
    BY <2>2 DEF Watch
  <2> QED BY <2>1, <2>2
<1>6. ASSUME follows' \in [Readers -> SUBSET Users]
      PROVE  may' \in [Readers ->
                         [stories : SUBSET Stories, users : SUBSET Users]]
  <2>1. ASSUME NEW u \in Readers
        PROVE  /\ ActiveStories' \in SUBSET Stories
               /\ Circle(u)' \in SUBSET Users
    BY <1>6 DEF ActiveStories, Circle
  <2>2. ASSUME NEW u \in Readers
        PROVE  /\ may[u].stories \union ActiveStories' \in SUBSET Stories
               /\ may[u].users \union Circle(u)' \in SUBSET Users
    BY <1>1, <2>1
  <2> QED BY <2>1, <2>2 DEF Watch
<1> QED BY <1>3, <1>4, <1>5, <1>6 DEF WatchInv

\* A step that leaves the feeds leaves what is known of them.
LEMMA FeedsStay ==
  ASSUME SInv, Watch, UNCHANGED feed
  PROVE  \A u \in Readers : WatchInv(u)' /\ FeedInv(u)'
<1> SUFFICES ASSUME NEW u \in Readers PROVE FeedInv(u)'
  BY WatchStep
<1>1. FeedInv(u)
  BY DEF SInv
<1>2. feed[u].pc = "read" =>
        must'[u] \subseteq must[u] /\ may[u].users \subseteq may'[u].users
  BY WatchStep
<1> QED BY <1>1, <1>2 DEF FeedInv

\* Sharing a story, and removing its image.
LEMMA SharingInv ==
  ASSUME SInv, NEW s \in Stories,
         \/ GetUrl(s) \/ MakeBucket(s) \/ PutImage(s) \/ EnsureBucket(s)
         \/ CreateStory(s) \/ SharingFails(s) \/ Expire(s)
  PROVE  SInv'
<1>1. Watch /\ UNCHANGED <<now, follows, req, feed, shown>>
  BY DEF GetUrl, MakeBucket, PutImage, EnsureBucket, CreateStory,
         SharingFails, Expire, storage
<1>2. \A u \in Readers : WatchInv(u)' /\ FeedInv(u)'
  BY <1>1, FeedsStay
<1>3. StoriesTypeOK /\ ImageInv(s)
  BY DEF SInv
<1>4. /\ bucket' \in [made : BOOLEAN, rule : BOOLEAN]
      /\ (bucket'.rule => bucket'.made)
  <2>1. /\ bucket \in [made : BOOLEAN, rule : BOOLEAN]
        /\ (bucket.rule => bucket.made)
    BY <1>3 DEF StoriesTypeOK
  <2>2. ASSUME SetsRule(bucket.made) PROVE <1>4!1 /\ <1>4!2
    BY <2>1, <2>2 DEF SetsRule
  <2>3. ASSUME SetsRule(TRUE) PROVE <1>4!1 /\ <1>4!2
    BY <2>1, <2>3 DEF SetsRule
  <2> QED BY <2>1, <2>2, <2>3
          DEF GetUrl, MakeBucket, PutImage, EnsureBucket, CreateStory,
              SharingFails, Expire, storage
<1>5. now \in Time /\ Time \subseteq Nat
  BY <1>3 DEF StoriesTypeOK, Time
<1>6. /\ sharing' \in [Stories -> {"idle", "make", "put", "ensure", "insert",
                                  "done", "failed"}]
      /\ image' \in [Stories -> Time \union {None}]
      /\ putAt' \in [Stories -> Time \union {None}]
      /\ created' \in [Stories -> Time \union {None}]
      /\ image'[s] \in {None, putAt'[s]}
      /\ ImageInv(s)'
  <2>1. /\ sharing \in [Stories -> {"idle", "make", "put", "ensure", "insert",
                                   "done", "failed"}]
        /\ image \in [Stories -> Time \union {None}]
        /\ putAt \in [Stories -> Time \union {None}]
        /\ created \in [Stories -> Time \union {None}]
        /\ image[s] \in {None, putAt[s]}
    BY <1>3 DEF StoriesTypeOK
  <2>2. CASE \/ GetUrl(s) \/ MakeBucket(s)
             \/ EnsureBucket(s) \/ SharingFails(s)
    <3>1. /\ UNCHANGED <<image, putAt, created>> /\ sharing[s] # "done"
          /\ sharing'[s] # "done"
          /\ sharing'[s] = "insert" => sharing[s] = "ensure"
          /\ sharing'[s] # "ensure"
          /\ sharing' \in [Stories -> {"idle", "make", "put", "ensure",
                                      "insert", "done", "failed"}]
      BY <2>1, <2>2 DEF Goes, GetUrl, MakeBucket, EnsureBucket,
                        SharingFails, storage
    <3> QED BY <1>1, <1>3, <2>1, <3>1 DEF ImageInv
  <2>3. CASE PutImage(s)
    <3>1. /\ UNCHANGED created /\ sharing[s] = "put"
          /\ sharing' = [sharing EXCEPT ![s] = "ensure"]
          /\ image' = [image EXCEPT ![s] = now]
          /\ putAt' = [putAt EXCEPT ![s] = now]
      BY <2>3 DEF Goes, PutImage
    <3> QED BY <1>1, <1>3, <1>5, <2>1, <3>1 DEF ImageInv
  <2>4. CASE CreateStory(s)
    <3>1. /\ UNCHANGED <<image, putAt>> /\ sharing[s] = "insert"
          /\ sharing' = [sharing EXCEPT ![s] = "done"]
          /\ created' = [created EXCEPT ![s] = now]
      BY <2>4 DEF Goes, CreateStory, storage
    <3> QED BY <1>1, <1>3, <1>5, <2>1, <3>1 DEF ImageInv
  <2>5. CASE Expire(s)
    <3>1. /\ UNCHANGED <<sharing, putAt, created>>
          /\ image[s] # None /\ now >= image[s] + Day
          /\ image' = [image EXCEPT ![s] = None]
      BY <2>5 DEF Expire
    <3> QED BY <1>1, <1>3, <1>5, <2>1, <3>1 DEF ImageInv
  <2> QED BY <2>2, <2>3, <2>4, <2>5
<1>7. ASSUME NEW t \in Stories \ {s}
      PROVE  /\ sharing'[t] = sharing[t] /\ image'[t] = image[t]
             /\ putAt'[t] = putAt[t] /\ created'[t] = created[t]
  BY <1>3
     DEF StoriesTypeOK, Goes, GetUrl, MakeBucket, PutImage, EnsureBucket,
         CreateStory, SharingFails, Expire, storage
<1>8. \A t \in Stories : image'[t] \in {None, putAt'[t]} /\ ImageInv(t)'
  <2>1. ASSUME NEW t \in Stories \ {s}
        PROVE  image'[t] \in {None, putAt'[t]} /\ ImageInv(t)'
    BY <1>1, <1>7 DEF SInv, StoriesTypeOK, ImageInv
  <2> QED BY <1>6, <2>1
<1>9. StoriesTypeOK'
  <2>1. must' \in [Readers -> SUBSET Stories]
    BY <1>1, WatchStep
  <2>2. may' \in [Readers -> [stories : SUBSET Stories, users : SUBSET Users]]
    BY <1>1, <1>3, WatchStep DEF StoriesTypeOK
  <2> QED BY <1>1, <1>3, <1>4, <1>6, <1>8, <2>1, <2>2 DEF StoriesTypeOK
<1> QED BY <1>2, <1>8, <1>9 DEF SInv

\* Deleting it, and the clock.
LEMMA DeletingInv ==
  ASSUME SInv,
         \/ \E r \in Requests, s \in Stories : DeleteStart(r, s)
         \/ \E r \in Requests : DeleteStory(r)
         \/ Tick
  PROVE  SInv'
<1>1. Watch /\ UNCHANGED <<storage, sharing, follows, feed, shown>>
  BY DEF DeleteStart, DeleteStory, Tick
<1>2. \A u \in Readers : WatchInv(u)' /\ FeedInv(u)'
  BY <1>1, FeedsStay
<1>3. StoriesTypeOK
  BY DEF SInv
<1>4. /\ now' \in Time /\ Time \subseteq Nat
      /\ now \in Time /\ now <= now'
      /\ req' \in [Requests -> Stories \union {None}]
      /\ created' \in [Stories -> Time \union {None}]
      /\ \A s \in Stories : created'[s] \in {None, created[s]}
  <2>1. ASSUME NEW r \in Requests, NEW s \in Stories, DeleteStart(r, s)
        PROVE  /\ UNCHANGED <<now, created>>
               /\ req' \in [Requests -> Stories \union {None}]
    BY <1>3, <2>1 DEF StoriesTypeOK, DeleteStart
  <2>2. ASSUME NEW r \in Requests, DeleteStory(r)
        PROVE  /\ UNCHANGED now
               /\ req' \in [Requests -> Stories \union {None}]
               /\ created' \in [Stories -> Time \union {None}]
               /\ \A s \in Stories : created'[s] \in {None, created[s]}
    BY <1>3, <2>2 DEF StoriesTypeOK, DeleteStory
  <2>3. ASSUME Tick
        PROVE  /\ now' \in Time /\ now <= now'
               /\ UNCHANGED <<created, req>>
    BY <1>3, <2>3 DEF StoriesTypeOK, Tick, Time
  <2>4. /\ Time \subseteq Nat /\ now \in Time /\ now <= now
        /\ created \in [Stories -> Time \union {None}]
        /\ req \in [Requests -> Stories \union {None}]
    BY <1>3 DEF StoriesTypeOK, Time
  <2> QED BY <2>1, <2>2, <2>3, <2>4
<1>5. ASSUME NEW s \in Stories PROVE ImageInv(s)'
  <2>1. putAt[s] \in Nat \union {None}
    BY <1>3, <1>4 DEF StoriesTypeOK
  <2> QED BY <1>1, <1>4, <2>1 DEF SInv, ImageInv, storage
<1>6. StoriesTypeOK'
  <2>1. must' \in [Readers -> SUBSET Stories]
    BY <1>1, WatchStep
  <2>2. may' \in [Readers -> [stories : SUBSET Stories, users : SUBSET Users]]
    BY <1>1, <1>3, WatchStep DEF StoriesTypeOK
  <2> QED BY <1>1, <1>3, <1>4, <2>1, <2>2 DEF StoriesTypeOK, storage
<1> QED BY <1>2, <1>5, <1>6 DEF SInv

\* The feed.
LEMMA FeedStepInv ==
  ASSUME SInv, NEW u \in Readers,
         \/ AskFeed(u) \/ GetFollowing(u)
         \/ ReadStories(u) \/ FeedFails(u)
         \/ \E v \in Users : Follow(u, v)
  PROVE  SInv'
<1>1. Watch /\ UNCHANGED <<now, storage, sharing, created, req>>
  BY DEF AskFeed, GetFollowing, ReadStories, FeedFails, Follow
<1>2. StoriesTypeOK
  BY DEF SInv
<1>3. ASSUME NEW s \in Stories PROVE ImageInv(s)'
  BY <1>1 DEF SInv, ImageInv, storage
<1>4. /\ follows' \in [Readers -> SUBSET Users]
      /\ shown' \in [Readers -> SUBSET Stories]
  <2>1. Unexpired(u) \in SUBSET Stories
    BY DEF Unexpired
  <2>2. /\ follows \in [Readers -> SUBSET Users]
        /\ shown \in [Readers -> SUBSET Stories]
    BY <1>2 DEF StoriesTypeOK
  <2>3. CASE UNCHANGED follows
    <3>1. shown' = shown \/ shown' = [shown EXCEPT ![u] = {}]
            \/ shown' = [shown EXCEPT ![u] = Unexpired(u)]
      BY DEF AskFeed, GetFollowing, ReadStories, FeedFails, Follow
    <3> QED BY <2>1, <2>2, <2>3, <3>1
  <2>4. ASSUME NEW v \in Users, Follow(u, v) PROVE <1>4!1 /\ <1>4!2
    BY <2>2, <2>4 DEF Follow
  <2> QED BY <2>3, <2>4
          DEF AskFeed, GetFollowing, ReadStories, FeedFails
<1>5. /\ feed' \in [Readers -> Feed]
      /\ \A v \in Readers \ {u} : feed'[v] = feed[v]
  <2>1. Circle(u) \in SUBSET Users /\ {u} \in SUBSET Users
    BY <1>2 DEF StoriesTypeOK, Circle
  <2>2. NoFeed \in Feed
    BY DEF NoFeed, Feed
  <2>3. \A t \in SUBSET Users :
          /\ [pc |-> "following", targets |-> t] \in Feed
          /\ [pc |-> "read", targets |-> t] \in Feed
    BY DEF Feed
  <2>4. ASSUME NEW f \in Feed, feed' = [feed EXCEPT ![u] = f]
        PROVE  <1>5!1 /\ <1>5!2
    BY <1>2, <2>4 DEF StoriesTypeOK
  <2>5. CASE UNCHANGED feed
    BY <1>2, <2>5 DEF StoriesTypeOK
  <2> HIDE DEF NoFeed, Feed
  <2> QED BY <2>1, <2>2, <2>3, <2>4, <2>5
          DEF AskFeed, GetFollowing, ReadStories, FeedFails, Follow
<1>6. /\ must' \in [Readers -> SUBSET Stories]
      /\ may' \in [Readers -> [stories : SUBSET Stories, users : SUBSET Users]]
      /\ \A v \in Readers : WatchInv(v)'
  BY <1>1, <1>4, WatchStep
<1>7. StoriesTypeOK'
  BY <1>1, <1>2, <1>4, <1>5, <1>6 DEF StoriesTypeOK, storage
<1>8. ASSUME NEW v \in Readers PROVE FeedInv(v)'
  <2>1. FeedInv(v) /\ WatchInv(v)
    BY DEF SInv
  <2>2. feed[v].pc # "idle" =>
          must'[v] \subseteq must[v] /\ may[v].users \subseteq may'[v].users
    BY <1>1, WatchStep
  <2>3. CASE feed'[v] = feed[v]
    BY <2>1, <2>2, <2>3 DEF FeedInv
  <2>4. CASE v = u /\ (AskFeed(u) \/ ReadStories(u) \/ FeedFails(u))
    <3>1. \/ feed'[v].pc = "idle"
          \/ feed'[v] = [pc |-> "following", targets |-> {u}]
      <4>1. \/ feed' = [feed EXCEPT ![u] = NoFeed]
            \/ feed' = [feed EXCEPT ![u] =
                          [pc |-> "following", targets |-> {u}]]
        BY <2>4 DEF AskFeed, ReadStories, FeedFails
      <4>2. feed \in [Readers -> Feed]
        BY <1>2 DEF StoriesTypeOK
      <4> QED BY <2>4, <4>1, <4>2 DEF NoFeed
    <3> QED BY <2>4, <3>1 DEF FeedInv
  <2>5. CASE v = u /\ GetFollowing(u)
    <3>1. PICK t \in {{u}, Circle(u)} :
            feed'[v] = [pc |-> "read", targets |-> t]
      BY <1>2, <2>5 DEF StoriesTypeOK, GetFollowing
    <3>2. u \in Circle(u) /\ t \subseteq Circle(u) /\ u \in t
      BY DEF Circle
    <3>3. t \subseteq may'[u].users
      BY <2>1, <2>2, <2>5, <3>2 DEF WatchInv, GetFollowing
    <3>4. ASSUME t # {u}, NEW s \in must'[u] PROVE OwnerOf(s) \in t
      <4>1. s \in must[u]
        BY <2>2, <2>5, <3>4 DEF GetFollowing
      <4> QED BY <2>1, <2>5, <3>4, <4>1 DEF WatchInv, Listed
    <3> QED BY <2>5, <3>1, <3>2, <3>3, <3>4 DEF FeedInv
  <2>6. CASE \E w \in Users : Follow(u, w)
    BY <2>3, <2>6 DEF Follow
  <2> QED BY <1>5, <2>3, <2>4, <2>5, <2>6
<1> QED BY <1>3, <1>6, <1>7, <1>8 DEF SInv

\* Every step keeps the invariant.
LEMMA StoriesStep ==
  ASSUME SInv, [StoriesNext]_storiesVars
  PROVE  SInv'
<1>1. CASE UNCHANGED storiesVars
  BY <1>1 DEF SInv, StoriesTypeOK, ImageInv, WatchInv, FeedInv, Listed, Active,
              ActiveStories, Circle, storiesVars, storage
<1>2. CASE StoriesNext
  BY <1>2, SharingInv, DeletingInv, FeedStepInv DEF StoriesNext
<1> QED BY <1>1, <1>2

\* The history of the feeds, and what the User-Service answered, are in order in
\* every state.
THEOREM StoriesInvariance == StoriesSpec => []SInv
BY StoriesInitInv, StoriesStep, PTL DEF StoriesSpec

\* An unexpired story has its image, unless time passed between the image and
\* the row.
THEOREM StoriesKeepImages == StoriesSpec => []ImagesAreSound
<1>1. ASSUME SInv PROVE ActiveStoryHasImage
  <2> SUFFICES ASSUME NEW s \in Stories, Active(s)
               PROVE  image[s] # None \/ putAt[s] < created[s]
    BY DEF ActiveStoryHasImage
  <2>1. /\ putAt[s] \in Nat \union {None} /\ created[s] \in Nat \union {None}
        /\ now \in Nat /\ ImageInv(s)
    BY <1>1 DEF SInv, StoriesTypeOK, Time
  <2> QED BY <2>1 DEF ImageInv, Active
<1>2. SInv => ImagesAreSound
  BY <1>1 DEF SInv, ImagesAreSound
<1> QED BY <1>2, StoriesInvariance, PTL

\* Every feed holds what was to be shown all along, and nothing that was to be
\* shown at no moment of the request.
THEOREM FeedsAreTrue == StoriesSpec => FeedIsTrue
<1>1. ASSUME SInv, NEW u \in Readers PROVE ShowsTheTruth(u)
  <2> SUFFICES ASSUME ReadStories(u)
               PROVE  /\ \A s \in must[u] :
                             OwnerOf(s) = u \/ feed[u].targets # {u} =>
                               s \in shown'[u]
                      /\ \A s \in shown'[u] : /\ s \in may[u].stories
                                             /\ OwnerOf(s) \in may[u].users
    BY DEF ShowsTheTruth
  <2>1. /\ WatchInv(u) /\ FeedInv(u) /\ feed[u].pc = "read"
        /\ shown'[u] = {s \in Stories :
                         Active(s) /\ OwnerOf(s) \in feed[u].targets}
    BY <1>1 DEF SInv, StoriesTypeOK, ReadStories, Unexpired
  <2> QED BY <2>1 DEF WatchInv, FeedInv, Listed, ActiveStories
<1>2. SInv => \A u \in Readers : ShowsTheTruth(u)
  BY <1>1
<1> QED BY <1>2, StoriesInvariance, PTL DEF StoriesSpec, FeedIsTrue
=============================================================================
