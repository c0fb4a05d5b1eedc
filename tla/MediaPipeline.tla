---- MODULE MediaPipeline ----
(* The media of one photo: uploads to the object store, commit and reprocess
   (media/media.service.ts), the processing job (media/media-process.worker.ts)
   and the pushes of the photo's metadata beside them. A request and a job are
   processes whose steps end at the next awaited call; the object store knows no
   transactions. Contents, edits and stamps are numbered in the order they are
   made. *)
EXTENDS Naturals

CONSTANTS
    Keys,         \* raw object keys: one per file extension
    Requests,     \* API requests that may be in flight at a time
    Jobs,         \* jobs that may be in the queue or in work at a time
    NumVariants,  \* derivatives per photo, the last of them watermarked
    Attempts,     \* how often the queue tries a job
    MaxUploads,   \* bound
    MaxCalls,     \* bound: commits and reprocesses
    MaxEdits,     \* bound: metadata edits the client makes
    MaxMishaps,   \* bound: crashes and calls that throw
    None

ASSUME NoneAssumption == None \notin Keys
ASSUME NumberAssumption ==
    /\ NumVariants \in Nat /\ NumVariants > 0
    /\ Attempts \in Nat /\ Attempts > 0
    /\ MaxUploads \in Nat /\ MaxCalls \in Nat /\ MaxEdits \in Nat /\ MaxMishaps \in Nat

VARIABLES
    processingStatus,  \* photos.processing_status; "absent" without the row
    rawObjectKey,      \* photos.raw_object_key
    evidence,          \* the edit whose capture columns the row has; 0: defaults
    updatedAt,         \* photos.updated_at, in edits
    seal,              \* photos.capture_verification .. signed_at: the stamp, of an evidence
    objects,           \* objects[k]: the content at raw key k; 0: none
    variants,          \* variants[v]: the content derivative v was made from; 0: none
    baked,             \* seal and evidence drawn into the watermark
    pc,                \* pc[r]: the call request r awaits
    sealing,           \* sealing[r]: the evidence r has read to seal it
    jobs,              \* jobs[j]: the job in slot j
    uploads, calls, stamps, mishaps,  \* counters
    wanted,            \* history: the content the last commit linked
    told,              \* history: the newest edit a push was answered for
    insertedAt,        \* history: now() of the commit that made the row; 0: a push did
    crossed,           \* history: an upload or a commit met a job, or another commit
    restamped,         \* history: the row was stamped behind a job's back
    outrun,            \* history: a photo was published under a reprocess
    stranded           \* history: a call or a job ended half way

row     == <<processingStatus, rawObjectKey, evidence, updatedAt, seal>>
store   == <<objects, variants, baked>>
request == <<pc, sealing>>
counter == <<uploads, calls, stamps, mishaps>>
history == <<wanted, told, insertedAt, crossed, restamped, outrun, stranded>>
vars    == <<row, store, request, jobs, counter, history>>

Statuses == {"absent", "pending", "queued", "processing", "done", "failed"}
CommitPoints == {"seal", "sign"}
RequestPoints == {"idle", "requeue", "enqueue"} \cup CommitPoints
DerivePoints == {"mark", "download", "store", "publish"}
JobPoints == {"none", "waiting", "free", "markFailed"} \cup DerivePoints

Seal == [nr : Nat, of : Nat]
Mark == [seal : Seal, evidence : Nat]
Job  == [pc : JobPoints, raw : Keys \cup {None}, mark : Mark, content : Nat,
         stored : 0 .. NumVariants, failures : 0 .. Attempts - 1, stalled : BOOLEAN]

NoSeal == [nr |-> 0, of |-> 0]
NoMark == [seal |-> NoSeal, evidence |-> 0]
NoJob  == [pc |-> "none", raw |-> None, mark |-> NoMark, content |-> 0,
           stored |-> 0, failures |-> 0, stalled |-> FALSE]

RowOK ==
    /\ processingStatus \in Statuses
    /\ rawObjectKey \in Keys \cup {None}
    /\ evidence \in Nat /\ updatedAt \in Nat
    /\ seal \in Seal

StoreOK ==
    /\ objects \in [Keys -> Nat]
    /\ variants \in [1 .. NumVariants -> Nat]
    /\ baked \in Mark

RequestsOK ==
    /\ pc \in [Requests -> RequestPoints]
    /\ sealing \in [Requests -> Nat]

(* A job at work has read the key of a raw object. *)
JobsOK ==
    /\ jobs \in [Jobs -> Job]
    /\ \A j \in Jobs : jobs[j].pc \notin {"none", "waiting"} => jobs[j].raw # None

CountersOK ==
    uploads \in Nat /\ calls \in Nat /\ stamps \in Nat /\ mishaps \in Nat

HistoryOK ==
    /\ wanted \in Nat /\ told \in Nat /\ insertedAt \in Nat
    /\ {crossed, restamped, outrun, stranded} \subseteq BOOLEAN

TypeOK == RowOK /\ StoreOK /\ RequestsOK /\ JobsOK /\ CountersOK /\ HistoryOK

Init ==
    /\ processingStatus = "absent" /\ rawObjectKey = None
    /\ evidence = 0 /\ updatedAt = 0 /\ seal = NoSeal
    /\ objects = [k \in Keys |-> 0]
    /\ variants = [v \in 1 .. NumVariants |-> 0]
    /\ baked = NoMark
    /\ pc = [r \in Requests |-> "idle"]
    /\ sealing = [r \in Requests |-> 0]
    /\ jobs = [j \in Jobs |-> NoJob]
    /\ uploads = 0 /\ calls = 0 /\ stamps = 0 /\ mishaps = 0
    /\ wanted = 0 /\ told = 0 /\ insertedAt = 0
    /\ crossed = FALSE /\ restamped = FALSE /\ outrun = FALSE /\ stranded = FALSE

Goto(r, point) == pc' = [pc EXCEPT ![r] = point]
JobGoto(j, point) == jobs' = [jobs EXCEPT ![j].pc = point]
Mishap == mishaps < MaxMishaps /\ mishaps' = mishaps + 1

----------------------------------------------------------------------------
(* The client: edits, pushed in any order and repeatedly, and uploads. *)

(* SyncPush on the photo's row, as one step: the LWW test, then the write of
   the pushed columns. The pipeline writes none of them but media_type. *)
PushMetadata(e) ==
    /\ told' = IF e > told THEN e ELSE told
    /\ IF processingStatus = "absent" \/ updatedAt < e
       THEN /\ evidence' = e /\ updatedAt' = e
            /\ processingStatus' = IF processingStatus = "absent" THEN "pending"
                                   ELSE processingStatus
       ELSE UNCHANGED <<evidence, updatedAt, processingStatus>>
    /\ UNCHANGED <<rawObjectKey, seal, store, request, jobs, counter,
                   wanted, insertedAt, crossed, restamped, outrun, stranded>>

(* createUploadTicket and handleUpload: whatever was at the key is replaced. *)
Upload(k) ==
    /\ uploads < MaxUploads
    /\ uploads' = uploads + 1
    /\ objects' = [objects EXCEPT ![k] = uploads + 1]
    /\ crossed' = (crossed \/ \E j \in Jobs : jobs[j].raw = k)
    /\ UNCHANGED <<row, variants, baked, request, jobs, calls, stamps, mishaps,
                   wanted, told, insertedAt, restamped, outrun, stranded>>

----------------------------------------------------------------------------
UpsertTouching(k) ==                                                \* mutant
    /\ processingStatus' = "queued"
    /\ rawObjectKey' = k
    /\ \E now \in 0 .. MaxEdits :
         /\ updatedAt' = now
         /\ insertedAt' = IF processingStatus = "absent" THEN now ELSE insertedAt
    /\ UNCHANGED <<evidence, seal>>

(* commit: INSERT .. ON CONFLICT DO UPDATE. The key is one of the photo's; that
   something was uploaded there is not tested. *)
UpsertPhoto(k) ==
    /\ processingStatus' = "queued"
    /\ rawObjectKey' = k
    /\ IF processingStatus = "absent"
       THEN \E now \in 0 .. MaxEdits : updatedAt' = now /\ insertedAt' = now
       ELSE UNCHANGED <<updatedAt, insertedAt>>
    /\ UNCHANGED <<evidence, seal>>

Commit(r, k) ==
    /\ pc[r] = "idle"
    /\ calls < MaxCalls
    /\ calls' = calls + 1
    /\ UpsertPhoto(k)
    /\ Goto(r, "seal")
    /\ wanted' = IF objects[k] # 0 THEN objects[k] ELSE wanted
    /\ crossed' = \/ crossed
                  \/ \E j \in Jobs : jobs[j].raw # None
                  \/ objects[k] = 0 /\ rawObjectKey \notin {None, k}
    /\ outrun' = FALSE
    /\ UNCHANGED <<store, sealing, jobs, uploads, stamps, mishaps,
                   told, restamped, stranded>>

(* stampVerification: read the row, then write verdict and signature. Behind the
   back of the jobs at work, or of those that published: no job comes after. *)
StampRead(r) ==
    /\ pc[r] = "seal"
    /\ sealing' = [sealing EXCEPT ![r] = evidence]
    /\ Goto(r, "sign")
    /\ UNCHANGED <<row, store, jobs, counter, history>>

StampWrite(r) ==
    /\ pc[r] = "sign"
    /\ stamps' = stamps + 1
    /\ seal' = [nr |-> stamps + 1, of |-> sealing[r]]
    /\ sealing' = [sealing EXCEPT ![r] = 0]
    /\ Goto(r, "enqueue")
    /\ restamped' = (restamped \/ rawObjectKey = None \/ \E j \in Jobs : jobs[j].raw # None)
    /\ UNCHANGED <<processingStatus, rawObjectKey, evidence, updatedAt, store, jobs,
                   uploads, calls, mishaps, wanted, told, insertedAt, crossed,
                   outrun, stranded>>

LoadPhoto(r) ==
    /\ pc[r] = "idle"
    /\ calls < MaxCalls
    /\ processingStatus # "absent" /\ rawObjectKey # None
    /\ calls' = calls + 1
    /\ Goto(r, "requeue")
    /\ UNCHANGED <<row, store, sealing, jobs, uploads, stamps, mishaps, history>>

(* The raw key was there when it was loaded; if a job has published the photo
   since, the job enqueued next will find none, and leave it queued. *)
Requeue(r) ==
    /\ pc[r] = "requeue"
    /\ processingStatus' = "queued"
    /\ outrun' = (outrun \/ rawObjectKey = None)
    /\ Goto(r, "enqueue")
    /\ UNCHANGED <<rawObjectKey, evidence, updatedAt, seal, store, sealing, jobs, counter,
                   wanted, told, insertedAt, crossed, restamped, stranded>>

EnqueueNothing(r) ==                                                \* mutant
    /\ pc[r] = "enqueue"
    /\ Goto(r, "idle")
    /\ UNCHANGED <<row, store, sealing, jobs, counter, history>>

Enqueue(r) ==
    /\ pc[r] = "enqueue"
    /\ \E j \in Jobs :
        /\ jobs[j].pc = "none"
        /\ jobs' = [jobs EXCEPT ![j] = [NoJob EXCEPT !.pc = "waiting"]]
    /\ Goto(r, "idle")
    /\ UNCHANGED <<row, store, sealing, counter, history>>

(* A call throws or the process dies: what was written stays. *)
CrashRequest(r) ==
    /\ pc[r] # "idle"
    /\ Mishap
    /\ stranded' = (stranded \/ pc[r] # "requeue")
    /\ sealing' = [sealing EXCEPT ![r] = 0]
    /\ Goto(r, "idle")
    /\ UNCHANGED <<row, store, jobs, uploads, calls, stamps,
                   wanted, told, insertedAt, crossed, restamped, outrun>>

----------------------------------------------------------------------------
(* The worker. The job's data is the photo's id: it reads the row. *)

Skip(j) ==
    /\ jobs[j].pc = "waiting"
    /\ rawObjectKey = None
    /\ jobs' = [jobs EXCEPT ![j] = NoJob]
    /\ UNCHANGED <<row, store, request, counter, history>>

ReadAnyPhoto(j) ==                                                  \* mutant
    /\ jobs[j].pc = "waiting"
    /\ jobs' = [jobs EXCEPT ![j].pc = "mark", ![j].raw = rawObjectKey,
                            ![j].mark = [seal |-> seal, evidence |-> evidence]]
    /\ UNCHANGED <<row, store, request, counter, history>>

ReadPhoto(j) ==
    /\ jobs[j].pc = "waiting"
    /\ rawObjectKey # None
    /\ jobs' = [jobs EXCEPT ![j].pc = "mark", ![j].raw = rawObjectKey,
                            ![j].mark = [seal |-> seal, evidence |-> evidence]]
    /\ restamped' = (restamped /\ \E i \in Jobs \ {j} : jobs[i].raw # None)
    /\ UNCHANGED <<row, store, request, counter,
                   wanted, told, insertedAt, crossed, outrun, stranded>>

MarkProcessing(j) ==
    /\ jobs[j].pc = "mark"
    /\ processingStatus' = "processing"
    /\ JobGoto(j, "download")
    /\ UNCHANGED <<rawObjectKey, evidence, updatedAt, seal, store, request, counter, history>>

DownloadAndDelete(j) ==                                             \* mutant
    /\ jobs[j].pc = "download"
    /\ objects[jobs[j].raw] # 0
    /\ jobs' = [jobs EXCEPT ![j].pc = "store", ![j].content = objects[jobs[j].raw]]
    /\ objects' = [objects EXCEPT ![jobs[j].raw] = 0]
    /\ UNCHANGED <<row, variants, baked, request, counter, history>>

Download(j) ==
    /\ jobs[j].pc = "download"
    /\ objects[jobs[j].raw] # 0
    /\ jobs' = [jobs EXCEPT ![j].pc = "store", ![j].content = objects[jobs[j].raw]]
    /\ UNCHANGED <<row, store, request, counter, history>>

DownloadNothing(j) ==
    /\ jobs[j].pc = "download"
    /\ objects[jobs[j].raw] = 0
    /\ JobGoto(j, "markFailed")
    /\ UNCHANGED <<row, store, request, counter, history>>

AllStoredEarly(n) == n >= NumVariants - 1                           \* mutant

AllStored(n) == n = NumVariants

(* One derivative after the other goes to its key, over the one before. *)
StoreOnce(j) ==                                                     \* mutant
    LET v == jobs[j].stored + 1 IN
    /\ jobs[j].pc = "store"
    /\ jobs' = [jobs EXCEPT ![j].stored = v, ![j].pc = IF AllStored(v) THEN "publish" ELSE "store"]
    /\ variants' = [variants EXCEPT ![v] = IF @ = 0 THEN jobs[j].content ELSE @]
    /\ baked' = IF v = NumVariants /\ variants[v] = 0 THEN jobs[j].mark ELSE baked
    /\ UNCHANGED <<row, objects, request, counter, history>>

Store(j) ==
    LET v == jobs[j].stored + 1 IN
    /\ jobs[j].pc = "store"
    /\ jobs' = [jobs EXCEPT ![j].stored = v, ![j].pc = IF AllStored(v) THEN "publish" ELSE "store"]
    /\ variants' = [variants EXCEPT ![v] = jobs[j].content]
    /\ baked' = IF v = NumVariants THEN jobs[j].mark ELSE baked
    /\ UNCHANGED <<row, objects, request, counter, history>>

(* The row of the photo, whatever it names by now. *)
Publish(j) ==
    /\ jobs[j].pc = "publish"
    /\ processingStatus' = "done"
    /\ rawObjectKey' = None
    /\ JobGoto(j, "free")
    /\ UNCHANGED <<evidence, updatedAt, seal, store, request, counter, history>>

(* The key that was read; an error of the store is swallowed. *)
FreeRaw(j) ==
    /\ jobs[j].pc = "free"
    /\ jobs' = [jobs EXCEPT ![j] = NoJob]
    /\ \/ /\ objects' = [objects EXCEPT ![jobs[j].raw] = 0]
          /\ UNCHANGED mishaps
       \/ /\ Mishap
          /\ UNCHANGED objects
    /\ UNCHANGED <<row, variants, baked, request, uploads, calls, stamps, history>>

(* An attempt failed: the queue tries again, up to Attempts times. *)
LastAttempt(j) == jobs[j].failures + 1 = Attempts

EndAttempt(j) ==
    jobs' = [jobs EXCEPT ![j] =
        IF LastAttempt(j) THEN NoJob
        ELSE [NoJob EXCEPT !.pc = "waiting", !.failures = jobs[j].failures + 1,
                           !.stalled = jobs[j].stalled]]

MarkFailed(j) ==
    /\ jobs[j].pc = "markFailed"
    /\ processingStatus' = "failed"
    /\ EndAttempt(j)
    /\ UNCHANGED <<rawObjectKey, evidence, updatedAt, seal, store, request, counter, history>>

(* A call inside the try block throws. *)
Throw(j) ==
    /\ jobs[j].pc \in {"download", "store", "publish"}
    /\ Mishap
    /\ JobGoto(j, "markFailed")
    /\ UNCHANGED <<row, store, request, uploads, calls, stamps, history>>

Deriving(j) == jobs[j].pc \in {"download", "store", "publish", "markFailed"}

(* The job will not write the outcome it owes: it is over, or will skip. *)
LeavesUnmarked(j, last) ==
    jobs[j].pc # "free" /\ IF rawObjectKey = None THEN Deriving(j) ELSE last

(* ... or one outside: no status tells of it. *)
ThrowUnmarked(j) ==
    /\ jobs[j].pc \in {"waiting", "mark", "markFailed"}
    /\ Mishap
    /\ EndAttempt(j)
    /\ stranded' = (stranded \/ LeavesUnmarked(j, LastAttempt(j)))
    /\ UNCHANGED <<row, store, request, uploads, calls, stamps,
                   wanted, told, insertedAt, crossed, restamped, outrun>>

(* The worker dies. The queue gives a stalled job to another worker, once. *)
CrashWorker(j) ==
    /\ jobs[j].pc \notin {"none", "waiting"}
    /\ Mishap
    /\ jobs' = [jobs EXCEPT ![j] =
           IF jobs[j].stalled THEN NoJob
           ELSE [NoJob EXCEPT !.pc = "waiting", !.failures = jobs[j].failures,
                              !.stalled = TRUE]]
    /\ stranded' = (stranded \/ LeavesUnmarked(j, jobs[j].stalled))
    /\ UNCHANGED <<row, store, request, uploads, calls, stamps,
                   wanted, told, insertedAt, crossed, restamped, outrun>>

----------------------------------------------------------------------------
RequestStep(r) == StampRead(r) \/ StampWrite(r) \/ Requeue(r) \/ Enqueue(r)

JobStep(j) ==
    \/ Skip(j) \/ ReadPhoto(j) \/ MarkProcessing(j) \/ Download(j) \/ DownloadNothing(j)
    \/ Store(j) \/ Publish(j) \/ FreeRaw(j) \/ MarkFailed(j)

Next ==
    \/ \E e \in 1 .. MaxEdits : PushMetadata(e)
    \/ \E k \in Keys : Upload(k)
    \/ \E r \in Requests : RequestStep(r) \/ LoadPhoto(r) \/ CrashRequest(r)
    \/ \E r \in Requests, k \in Keys : Commit(r, k)
    \/ \E j \in Jobs : JobStep(j) \/ Throw(j) \/ ThrowUnmarked(j) \/ CrashWorker(j)

Spec == Init /\ [][Next]_vars

(* Handlers and workers go on; clients, edits and mishaps need not come. *)
FairSpec ==
    /\ Spec
    /\ \A r \in Requests : WF_vars(RequestStep(r))
    /\ \A j \in Jobs : WF_vars(JobStep(j))

----------------------------------------------------------------------------
(* Unless an upload or a commit met a running job, what was committed last is
   there: as the raw object the row names, or in every derivative. Crashes,
   failures, retries and duplicate jobs lose nothing. *)
KeptOrProcessed ==
    ~ crossed =>
        \/ rawObjectKey # None /\ objects[rawObjectKey] >= wanted
        \/ \A v \in 1 .. NumVariants : variants[v] >= wanted

(* A photo shown as done has every derivative, though they are stored one by one;
   and unless an upload or a commit met a job (crossed: two jobs may then store
   different contents over each other), they are all made from one content, which
   is no older than what was committed last. *)
DoneIsShown ==
    processingStatus = "done" =>
        \A v, w \in 1 .. NumVariants :
            variants[v] # 0 /\ (~ crossed => variants[v] >= wanted /\ variants[v] = variants[w])

(* The watermark of a finished photo bears the stamp the row has and the evidence
   the row shows, provided the stamp is of that evidence (no edit came after it)
   and was not written behind a job's back: while one that had read the row was
   at work, or after the photo was published (restamped). *)
WatermarkMatches ==
    processingStatus = "done" /\ ~ restamped /\ seal.of = evidence =>
        baked = [seal |-> seal, evidence |-> evidence]

(* Commit, stamp and worker bump row_version and leave updated_at: a pushed edit
   is refused only for a newer edit, or for the commit that made the row after
   the edit was made. *)
MetadataKept == told > evidence => told <= insertedAt

(* A photo that is queued or in process is finished or marked as failed, unless
   a request or a last attempt ended between the row and the queue (stranded), or
   a job published the photo between a reprocess's read and its write (outrun). *)
Settles ==
    processingStatus \in {"queued", "processing"} ~>
        (processingStatus \in {"done", "failed"} \/ stranded \/ outrun)
====
