-------------------------------- MODULE Media --------------------------------
(***************************************************************************)
(* From the files of a post to the page that plays them.  The client puts  *)
(* the files into MinIO itself, by signed URLs, and then has the           *)
(* Post-Server create the post.  A video is sent in parts, assembled at    *)
(* the end, and made into a stream, a playlist and its segments, by a      *)
(* thread that nobody waits for, whose failures are only logged, and that  *)
(* is gone when the server ends.  Whoever loads the post is given the      *)
(* stream once its playlist is there, and the file before.  Threads and    *)
(* calls of the storage share one pool of workers.                         *)
(***************************************************************************)
EXTENDS Naturals, FiniteSets

CONSTANTS
  Posts,     \* post ids, one for each attempt of a client to share something
  Videos,    \* the posts of one video; the others are of images
  Pieces,    \* the parts of a video, or the images of a post
  Segments,  \* the segments ffmpeg makes of a video
  Workers    \* how many threads the pool has

ASSUME MediaAssumption ==
  /\ Videos \subseteq Posts /\ Workers \in Nat \ {0}
  /\ IsFiniteSet(Posts) /\ IsFiniteSet(Pieces) /\ IsFiniteSet(Segments)
  /\ Pieces \intersect Segments = {}
  /\ {"raw", "index"} \intersect (Pieces \union Segments) = {}

VARIABLES
  up,       \* whether the Post-Server runs
  client,   \* where the client that shares a post is
  parts,    \* the parts of the multipart upload of a video
  stored,   \* the objects of each post: its media, the playlist, the segments
  row,      \* the posts in the database
  task,     \* the transcoding of each post: where it is, what it has to upload
  page,     \* what a page that shows the post was given to play
  spoiled   \* history: videos whose transcoding failed, or was never started

vars == <<up, client, parts, stored, row, task, page, spoiled>>

Outputs  == {"index"} \union Segments
MediaOf(p) == IF p \in Videos THEN {"raw"} ELSE Pieces

Task == [pc : {"none", "queued", "download", "transcode", "upload", "ended"},
         todo : SUBSET Outputs]
NoTask == [pc |-> "none", todo |-> {}]

TypeOK ==
  /\ up \in BOOLEAN
  /\ client \in [Posts -> {"idle", "put", "complete", "create", "reread",
                           "done", "failed"}]
  /\ parts  \in [Posts -> SUBSET Pieces]
  /\ stored \in [Posts -> SUBSET ({"raw"} \union Pieces \union Outputs)]
  /\ row \in SUBSET Posts
  /\ task \in [Posts -> Task]
  /\ \A p \in Posts : task[p].todo # {} => task[p].pc = "upload"
  /\ page \in [Posts -> {"none", "asked", "file", "stream"}]
  /\ spoiled \in SUBSET Videos

Init ==
  /\ up = TRUE
  /\ client = [p \in Posts |-> "idle"]
  /\ parts = [p \in Posts |-> {}] /\ stored = parts
  /\ row = {} /\ spoiled = {}
  /\ task = [p \in Posts |-> NoTask]
  /\ page = [p \in Posts |-> "none"]

\* A worker is held from the start of a transcoding to its end.
Working(p) == task[p].pc \in {"download", "transcode", "upload"}
Leaking(p) == task[p].pc \in {"download", "transcode", "upload", "ended"}
Holds(p)   == Working(p)
Free       == Cardinality({p \in Posts : Holds(p)}) < Workers

-----------------------------------------------------------------------------
(* The client that shares a post: each request is answered, or it gives up  *)

From(p, here, next) == client[p] = here /\ client' = [client EXCEPT ![p] = next]

\* generate_presigned_upload_urls, initiate_multipart_upload and
\* presign_multipart_parts: the ids and URLs the client goes on with.
GetUrls(p) ==
  /\ up /\ Free
  /\ From(p, "idle", "put")
  /\ UNCHANGED <<up, parts, stored, row, task, page, spoiled>>

\* All pieces are sent at once, and arrive in any order.
Put(p, n) ==
  /\ client[p] = "put"
  /\ IF p \in Videos
       THEN /\ n \notin parts[p] /\ UNCHANGED stored
            /\ parts' = [parts EXCEPT ![p] = @ \union {n}]
       ELSE /\ n \notin stored[p] /\ UNCHANGED parts
            /\ stored' = [stored EXCEPT ![p] = @ \union {n}]
  /\ UNCHANGED <<up, client, row, task, page, spoiled>>

\* The client waits for all of them.
SomePut(p) == (parts[p] \union stored[p]) # {}
AllPut(p)  == Pieces \subseteq (parts[p] \union stored[p])

PutAll(p) ==
  /\ AllPut(p)
  /\ From(p, "put", IF p \in Videos THEN "complete" ELSE "create")
  /\ UNCHANGED <<up, parts, stored, row, task, page, spoiled>>

\* MinIO assembles the parts the client lists; the answer may be lost.
CompleteUpload(p) ==
  /\ up /\ Free
  /\ \/ From(p, "complete", "create") \/ From(p, "complete", "failed")
  /\ stored' = [stored EXCEPT ![p] = @ \union {"raw"}]
  /\ parts' = [parts EXCEPT ![p] = {}]
  /\ UNCHANGED <<up, row, task, page, spoiled>>

-----------------------------------------------------------------------------
(* create_post commits the rows, reads the post once more, and starts the   *)
(* transcoding; when the second read fails, so does the request             *)

CreatePost(p) ==
  /\ up
  /\ From(p, "create", "reread")
  /\ row' = row \union {p}
  /\ UNCHANGED <<up, parts, stored, task, page, spoiled>>

Reread(p) ==
  /\ up
  /\ From(p, "reread", "done")
  /\ task' = IF p \in Videos THEN [task EXCEPT ![p].pc = "queued"] ELSE task
  /\ UNCHANGED <<up, parts, stored, row, page, spoiled>>

\* Any request may fail, that of "reread" when the database does not answer;
\* the client then starts over with another post.
ClientFails(p) ==
  /\ client[p] \notin {"idle", "done", "failed"}
  /\ client' = [client EXCEPT ![p] = "failed"]
  /\ spoiled' = IF client[p] = "reread" /\ p \in Videos THEN spoiled \union {p}
                                                        ELSE spoiled
  /\ UNCHANGED <<up, parts, stored, row, task, page>>

-----------------------------------------------------------------------------
(* generate_hls_stream, in a thread                                         *)

Become(p, label) == task' = [task EXCEPT ![p].pc = label]

TakeWorker(p) ==
  /\ task[p].pc = "queued" /\ Free
  /\ Become(p, "download")
  /\ UNCHANGED <<up, client, parts, stored, row, page, spoiled>>

Download(p) ==
  /\ task[p].pc = "download" /\ "raw" \in stored[p]
  /\ Become(p, "transcode")
  /\ UNCHANGED <<up, client, parts, stored, row, page, spoiled>>

Transcode(p) ==
  /\ task[p].pc = "transcode"
  /\ task' = [task EXCEPT ![p] = [pc |-> "upload", todo |-> Outputs]]
  /\ UNCHANGED <<up, client, parts, stored, row, page, spoiled>>

\* The file is not there or cannot be read, or ffmpeg is not there or fails.
TaskFails(p) ==
  /\ task[p].pc \in {"download", "transcode"}
  /\ Become(p, "ended")
  /\ spoiled' = spoiled \union {p}
  /\ UNCHANGED <<up, client, parts, stored, row, page>>

\* The outputs are uploaded in the order of the directory, which is any; one
\* that cannot be is only logged.
Quiet(p)  == spoiled
Logged(p) == spoiled \union {p}

UploadOutput(p, f) ==
  /\ task[p].pc = "upload" /\ f \in task[p].todo
  /\ task' = [task EXCEPT ![p].todo = @ \ {f}]
  /\ \/ stored' = [stored EXCEPT ![p] = @ \union {f}] /\ UNCHANGED spoiled
     \/ UNCHANGED stored /\ spoiled' = Logged(p)
  /\ UNCHANGED <<up, client, parts, row, page>>

\* The thread ends when all were tried.
FirstUp(p)     == task[p].todo # Outputs
NothingLeft(p) == task[p].todo = {}

TaskEnds(p) ==
  /\ task[p].pc = "upload" /\ NothingLeft(p)
  /\ Become(p, "ended")
  /\ UNCHANGED <<up, client, parts, stored, row, page, spoiled>>

-----------------------------------------------------------------------------
(* _enrich_post_with_urls, for a page that loads the post                   *)

AskPage(p) ==
  /\ up /\ p \in row /\ page[p] # "asked"
  /\ page' = [page EXCEPT ![p] = "asked"]
  /\ UNCHANGED <<up, client, parts, stored, row, task, spoiled>>

\* storage.exists of the playlist, for which a worker is needed.
Exists(p)    == "index" \in stored[p]

AnswerPage(p) ==
  /\ page[p] = "asked" /\ Free
  /\ page' = [page EXCEPT ![p] = IF Exists(p) THEN "stream" ELSE "file"]
  /\ UNCHANGED <<up, client, parts, stored, row, task, spoiled>>

-----------------------------------------------------------------------------
\* Requests and transcodings end with the server; no one resumes the latter.
Crash ==
  /\ up
  /\ up' = FALSE
  /\ client' = [p \in Posts |->
                  IF client[p] \in {"complete", "create", "reread"}
                    THEN "failed" ELSE client[p]]
  /\ task' = [p \in Posts |-> IF task[p].pc = "none" THEN NoTask
                              ELSE [pc |-> "ended", todo |-> {}]]
  /\ page' = [p \in Posts |-> IF page[p] = "asked" THEN "none" ELSE page[p]]
  /\ spoiled' = spoiled \union
       {p \in Videos : \/ client[p] = "reread" \/ Working(p)
                       \/ task[p].pc = "queued"}
  /\ UNCHANGED <<parts, stored, row>>

Restart == ~up /\ up' = TRUE
           /\ UNCHANGED <<client, parts, stored, row, task, page, spoiled>>

TaskStep(p) ==
  \/ TakeWorker(p) \/ Download(p) \/ Transcode(p) \/ TaskFails(p) \/ TaskEnds(p)
  \/ \E f \in Outputs : UploadOutput(p, f)

Next ==
  \/ \E p \in Posts :
       \/ GetUrls(p) \/ PutAll(p) \/ CompleteUpload(p)
       \/ CreatePost(p) \/ Reread(p) \/ ClientFails(p)
       \/ \E n \in Pieces : Put(p, n)
       \/ TaskStep(p) \/ AskPage(p) \/ AnswerPage(p)
  \/ Crash \/ Restart

Spec == Init /\ [][Next]_vars

\* Threads run on, the database answers or fails, and what waits for a worker
\* is given one that is free.
Fairness ==
  \A p \in Posts : /\ WF_vars(TaskStep(p)) /\ WF_vars(AnswerPage(p))
                   /\ WF_vars(Reread(p) \/ ClientFails(p))

FairSpec == Spec /\ Fairness

-----------------------------------------------------------------------------
(* Properties *)

\* What a post refers to is in the storage before the post is in the database,
\* and stays there.
PublishedIsStored == \A p \in row : MediaOf(p) \subseteq stored[p]

\* The same, and every variable keeps its type.
StorageIsSound == TypeOK /\ PublishedIsStored

\* A page that was given a stream finds every segment of it, unless some are
\* still being uploaded or the transcoding failed on the way.
StreamsArePlayable ==
  \A p \in Posts :
    page[p] = "stream" =>
      \/ Outputs \subseteq stored[p]
      \/ "index" \in stored[p] /\ (task[p].pc = "upload" \/ p \in spoiled)

\* Every video that is in the database gets its stream, unless its transcoding
\* failed, or never started: whoever waits for it does not wait for ever.
EveryVideoIsStreamed ==
  \A p \in Videos :
    p \in row ~> (Outputs \subseteq stored[p] \/ p \in spoiled)

\* Transcodings that hold the workers do not keep a page waiting for ever.
EveryPageIsAnswered == \A p \in Posts : page[p] = "asked" ~> page[p] # "asked"
=============================================================================
