---- MODULE MediaPipelineProofs ----
(* What holds of MediaPipeline for any number of requests, jobs, keys,
   derivatives, attempts, uploads, calls, edits and mishaps. *)
EXTENDS MediaPipeline, TLAPS

USE NoneAssumption, NumberAssumption

Taken(j) == jobs[j].raw # None
Past(j)  == jobs[j].pc \in {"store", "publish", "free"}
Whole(j) == jobs[j].pc \in {"publish", "free"}

(* A job has taken the photo exactly while it works, and counts what it stores. *)
JobInv ==
    \A j \in Jobs :
        /\ jobs[j].pc \in {"none", "waiting"} => ~ Taken(j)
        /\ jobs[j].pc \in {"none", "waiting", "mark", "download"} => jobs[j].stored = 0
        /\ jobs[j].pc = "store" => jobs[j].stored < NumVariants
        /\ Whole(j) => jobs[j].stored = NumVariants

TypeInv == TypeOK /\ JobInv

CountInv ==
    /\ wanted <= uploads
    /\ \A k \in Keys : objects[k] <= uploads

(* Unless calls crossed: jobs at work share one raw object; it is gone, or holds
   what was committed or something newer, and so does what they derived. *)
RowObjects ==
    rawObjectKey # None => objects[rawObjectKey] = 0 \/ objects[rawObjectKey] >= wanted

JobObjects(j) ==
    /\ rawObjectKey \in {None, jobs[j].raw}
    /\ objects[jobs[j].raw] = 0 \/ objects[jobs[j].raw] >= wanted
    /\ Past(j) =>
        /\ jobs[j].content >= wanted
        /\ objects[jobs[j].raw] \in {0, jobs[j].content}
        /\ \A v \in 1 .. jobs[j].stored : variants[v] = jobs[j].content

ObjectsInv == ~ crossed => RowObjects /\ \A j \in Jobs : Taken(j) => JobObjects(j)

SharedInv ==
    ~ crossed =>
        \A i, j \in Jobs :
            /\ Taken(i) /\ Taken(j) => jobs[i].raw = jobs[j].raw
            /\ Taken(i) /\ Taken(j) /\ Past(i) /\ Past(j) => jobs[i].content = jobs[j].content

KeptInv == CountInv /\ ObjectsInv /\ SharedInv /\ KeptOrProcessed

(* ... and what is done stays as it is, whatever duplicate jobs still store. *)
DoneJob(j) ==
    /\ objects[jobs[j].raw] \in {0, variants[1]}
    /\ Past(j) => jobs[j].content = variants[1]

Settled ==
    /\ rawObjectKey = None
    /\ \A v \in 1 .. NumVariants : variants[v] >= wanted /\ variants[v] = variants[1]
    /\ \A j \in Jobs : Taken(j) => DoneJob(j)

DoneInv == processingStatus = "done" /\ ~ crossed => Settled

(* A stamp is of no later evidence than the row has; edits only move forward. *)
EvidenceInv ==
    /\ seal.of <= evidence
    /\ \A r \in Requests : sealing[r] <= evidence
    /\ evidence <= updatedAt
    /\ processingStatus = "absent" => updatedAt = 0

(* Whatever crossed: what is stored came from an upload, and nothing is done
   that has not all of it, nor keeps its raw object. *)
WholeInv ==
    /\ \A j \in Jobs : Past(j) =>
        jobs[j].content # 0 /\ \A v \in 1 .. jobs[j].stored : variants[v] # 0
    /\ processingStatus = "done" =>
        rawObjectKey = None /\ \A v \in 1 .. NumVariants : variants[v] # 0

(* A mark made under the row's stamp, no older than the evidence it signs. *)
Current(mark) == mark.seal = seal /\ seal.of <= mark.evidence /\ mark.evidence <= evidence

MarkJob(j) == Current(jobs[j].mark) /\ (Whole(j) => Current(baked))

MarkInv ==
    ~ restamped =>
        /\ \A j \in Jobs : Taken(j) => MarkJob(j)
        /\ processingStatus = "done" => Current(baked)

(* The row's clock is that of the edit it shows, or of the commit that made it. *)
MetadataInv ==
    /\ updatedAt \in {evidence, insertedAt}
    /\ insertedAt <= updatedAt /\ told <= updatedAt

----------------------------------------------------------------------------
LEMMA RowStep ==
    ASSUME TypeInv, [Next]_vars
    PROVE  RowOK'
<1>1. ASSUME NEW e \in 1 .. MaxEdits, PushMetadata(e) PROVE RowOK'
    BY <1>1 DEF PushMetadata, store, request, counter, TypeInv, TypeOK, RowOK, CountersOK, RequestsOK, Statuses, Seal
<1>2. ASSUME NEW k \in Keys, Upload(k) PROVE RowOK'
    BY <1>2 DEF Upload, row, request, TypeInv, TypeOK, RowOK, CountersOK, RequestsOK, Statuses, Seal
<1>3. ASSUME NEW r \in Requests, NEW k \in Keys, Commit(r, k) PROVE RowOK'
    BY <1>3 DEF Commit, Goto, UpsertPhoto, store, TypeInv, TypeOK, RowOK, CountersOK, RequestsOK, Statuses, Seal
<1>4. ASSUME NEW r \in Requests, StampRead(r) PROVE RowOK'
    BY <1>4 DEF StampRead, Goto, row, store, counter, history, TypeInv, TypeOK, RowOK, CountersOK, RequestsOK, Statuses, Seal
<1>5. ASSUME NEW r \in Requests, StampWrite(r) PROVE RowOK'
    BY <1>5 DEF StampWrite, Goto, store, history, TypeInv, TypeOK, RowOK, CountersOK, RequestsOK, Statuses, Seal
<1>6. ASSUME NEW r \in Requests, LoadPhoto(r) PROVE RowOK'
    BY <1>6 DEF LoadPhoto, Goto, row, store, history, TypeInv, TypeOK, RowOK, CountersOK, RequestsOK, Statuses, Seal
<1>7. ASSUME NEW r \in Requests, Requeue(r) PROVE RowOK'
    BY <1>7 DEF Requeue, Goto, store, counter, TypeInv, TypeOK, RowOK, CountersOK, RequestsOK, Statuses, Seal
<1>8. ASSUME NEW r \in Requests, Enqueue(r) PROVE RowOK'
    BY <1>8 DEF Enqueue, Goto, NoJob, NoMark, NoSeal, row, store, counter, history, TypeInv, TypeOK, RowOK, CountersOK, RequestsOK, Statuses, Seal
<1>9. ASSUME NEW r \in Requests, CrashRequest(r) PROVE RowOK'
    BY <1>9 DEF CrashRequest, Mishap, Goto, row, store, TypeInv, TypeOK, RowOK, CountersOK, RequestsOK, Statuses, Seal
<1>10. ASSUME NEW j \in Jobs, Skip(j) PROVE RowOK'
    BY <1>10 DEF Skip, NoJob, NoMark, NoSeal, row, store, request, counter, history, TypeInv, TypeOK, RowOK, CountersOK, RequestsOK, Statuses, Seal
<1>11. ASSUME NEW j \in Jobs, ReadPhoto(j) PROVE RowOK'
    BY <1>11 DEF ReadPhoto, row, store, request, counter, TypeInv, TypeOK, RowOK, CountersOK, RequestsOK, Statuses, Seal
<1>12. ASSUME NEW j \in Jobs, MarkProcessing(j) PROVE RowOK'
    BY <1>12 DEF MarkProcessing, JobGoto, store, request, counter, history, TypeInv, TypeOK, RowOK, CountersOK, RequestsOK, Statuses, Seal
<1>13. ASSUME NEW j \in Jobs, Download(j) PROVE RowOK'
    BY <1>13 DEF Download, row, store, request, counter, history, TypeInv, TypeOK, RowOK, CountersOK, RequestsOK, Statuses, Seal
<1>14. ASSUME NEW j \in Jobs, DownloadNothing(j) PROVE RowOK'
    BY <1>14 DEF DownloadNothing, JobGoto, row, store, request, counter, history, TypeInv, TypeOK, RowOK, CountersOK, RequestsOK, Statuses, Seal
<1>15. ASSUME NEW j \in Jobs, Store(j) PROVE RowOK'
    BY <1>15 DEF Store, AllStored, row, request, counter, history, TypeInv, TypeOK, RowOK, CountersOK, RequestsOK, Statuses, Seal
<1>16. ASSUME NEW j \in Jobs, Publish(j) PROVE RowOK'
    BY <1>16 DEF Publish, JobGoto, store, request, counter, history, TypeInv, TypeOK, RowOK, CountersOK, RequestsOK, Statuses, Seal
<1>17. ASSUME NEW j \in Jobs, FreeRaw(j) PROVE RowOK'
    BY <1>17 DEF FreeRaw, Mishap, NoJob, NoMark, NoSeal, row, request, history, TypeInv, TypeOK, RowOK, CountersOK, RequestsOK, Statuses, Seal
<1>18. ASSUME NEW j \in Jobs, MarkFailed(j) PROVE RowOK'
    BY <1>18 DEF MarkFailed, EndAttempt, LastAttempt, NoJob, NoMark, NoSeal, store, request, counter, history, TypeInv, TypeOK, RowOK, CountersOK, RequestsOK, Statuses, Seal
<1>19. ASSUME NEW j \in Jobs, Throw(j) PROVE RowOK'
    BY <1>19 DEF Throw, Mishap, JobGoto, row, store, request, history, TypeInv, TypeOK, RowOK, CountersOK, RequestsOK, Statuses, Seal
<1>20. ASSUME NEW j \in Jobs, ThrowUnmarked(j) PROVE RowOK'
    BY <1>20 DEF ThrowUnmarked, Mishap, EndAttempt, LastAttempt, NoJob, NoMark, NoSeal, row, store, request, TypeInv, TypeOK, RowOK, CountersOK, RequestsOK, Statuses, Seal
<1>21. ASSUME NEW j \in Jobs, CrashWorker(j) PROVE RowOK'
    BY <1>21 DEF CrashWorker, Mishap, NoJob, NoMark, NoSeal, row, store, request, TypeInv, TypeOK, RowOK, CountersOK, RequestsOK, Statuses, Seal
<1>22. ASSUME UNCHANGED vars PROVE RowOK'
    BY <1>22 DEF vars, row, store, request, counter, history, TypeInv, TypeOK, RowOK, CountersOK, RequestsOK, Statuses, Seal
<1> QED
    BY <1>1, <1>2, <1>3, <1>4, <1>5, <1>6, <1>7, <1>8, <1>9, <1>10, <1>11, <1>12, <1>13, <1>14, <1>15, <1>16, <1>17, <1>18, <1>19, <1>20, <1>21, <1>22 DEF Next, RequestStep, JobStep

LEMMA StoreStep ==
    ASSUME TypeInv, [Next]_vars
    PROVE  StoreOK'
<1>1. ASSUME NEW e \in 1 .. MaxEdits, PushMetadata(e) PROVE StoreOK'
    BY <1>1 DEF PushMetadata, store, request, counter, TypeInv, TypeOK, StoreOK, CountersOK, JobsOK, JobInv, Job, Mark
<1>2. ASSUME NEW k \in Keys, Upload(k) PROVE StoreOK'
    BY <1>2 DEF Upload, row, request, TypeInv, TypeOK, StoreOK, CountersOK, JobsOK, JobInv, Job, Mark
<1>3. ASSUME NEW r \in Requests, NEW k \in Keys, Commit(r, k) PROVE StoreOK'
    BY <1>3 DEF Commit, Goto, UpsertPhoto, store, TypeInv, TypeOK, StoreOK, CountersOK, JobsOK, JobInv, Job, Mark
<1>4. ASSUME NEW r \in Requests, StampRead(r) PROVE StoreOK'
    BY <1>4 DEF StampRead, Goto, row, store, counter, history, TypeInv, TypeOK, StoreOK, CountersOK, JobsOK, JobInv, Job, Mark
<1>5. ASSUME NEW r \in Requests, StampWrite(r) PROVE StoreOK'
    BY <1>5 DEF StampWrite, Goto, store, history, TypeInv, TypeOK, StoreOK, CountersOK, JobsOK, JobInv, Job, Mark
<1>6. ASSUME NEW r \in Requests, LoadPhoto(r) PROVE StoreOK'
    BY <1>6 DEF LoadPhoto, Goto, row, store, history, TypeInv, TypeOK, StoreOK, CountersOK, JobsOK, JobInv, Job, Mark
<1>7. ASSUME NEW r \in Requests, Requeue(r) PROVE StoreOK'
    BY <1>7 DEF Requeue, Goto, store, counter, TypeInv, TypeOK, StoreOK, CountersOK, JobsOK, JobInv, Job, Mark
<1>8. ASSUME NEW r \in Requests, Enqueue(r) PROVE StoreOK'
    BY <1>8 DEF Enqueue, Goto, NoJob, NoMark, NoSeal, row, store, counter, history, TypeInv, TypeOK, StoreOK, CountersOK, JobsOK, JobInv, Job, Mark
<1>9. ASSUME NEW r \in Requests, CrashRequest(r) PROVE StoreOK'
    BY <1>9 DEF CrashRequest, Mishap, Goto, row, store, TypeInv, TypeOK, StoreOK, CountersOK, JobsOK, JobInv, Job, Mark
<1>10. ASSUME NEW j \in Jobs, Skip(j) PROVE StoreOK'
    BY <1>10 DEF Skip, NoJob, NoMark, NoSeal, row, store, request, counter, history, TypeInv, TypeOK, StoreOK, CountersOK, JobsOK, JobInv, Job, Mark
<1>11. ASSUME NEW j \in Jobs, ReadPhoto(j) PROVE StoreOK'
    BY <1>11 DEF ReadPhoto, row, store, request, counter, TypeInv, TypeOK, StoreOK, CountersOK, JobsOK, JobInv, Job, Mark
<1>12. ASSUME NEW j \in Jobs, MarkProcessing(j) PROVE StoreOK'
    BY <1>12 DEF MarkProcessing, JobGoto, store, request, counter, history, TypeInv, TypeOK, StoreOK, CountersOK, JobsOK, JobInv, Job, Mark
<1>13. ASSUME NEW j \in Jobs, Download(j) PROVE StoreOK'
    BY <1>13 DEF Download, row, store, request, counter, history, TypeInv, TypeOK, StoreOK, CountersOK, JobsOK, JobInv, Job, Mark
<1>14. ASSUME NEW j \in Jobs, DownloadNothing(j) PROVE StoreOK'
    BY <1>14 DEF DownloadNothing, JobGoto, row, store, request, counter, history, TypeInv, TypeOK, StoreOK, CountersOK, JobsOK, JobInv, Job, Mark
<1>15. ASSUME NEW j \in Jobs, Store(j) PROVE StoreOK'
    BY <1>15 DEF Store, AllStored, row, request, counter, history, TypeInv, TypeOK, StoreOK, CountersOK, JobsOK, JobInv, Job, Mark
<1>16. ASSUME NEW j \in Jobs, Publish(j) PROVE StoreOK'
    BY <1>16 DEF Publish, JobGoto, store, request, counter, history, TypeInv, TypeOK, StoreOK, CountersOK, JobsOK, JobInv, Job, Mark
<1>17. ASSUME NEW j \in Jobs, FreeRaw(j) PROVE StoreOK'
    <2>1. jobs[j].raw \in Keys
        BY <1>17 DEF FreeRaw, TypeInv, TypeOK, JobsOK, Job
    <2> QED
        BY <1>17, <2>1 DEF FreeRaw, TypeInv, TypeOK, StoreOK
<1>18. ASSUME NEW j \in Jobs, MarkFailed(j) PROVE StoreOK'
    BY <1>18 DEF MarkFailed, EndAttempt, LastAttempt, NoJob, NoMark, NoSeal, store, request, counter, history, TypeInv, TypeOK, StoreOK, CountersOK, JobsOK, JobInv, Job, Mark
<1>19. ASSUME NEW j \in Jobs, Throw(j) PROVE StoreOK'
    BY <1>19 DEF Throw, Mishap, JobGoto, row, store, request, history, TypeInv, TypeOK, StoreOK, CountersOK, JobsOK, JobInv, Job, Mark
<1>20. ASSUME NEW j \in Jobs, ThrowUnmarked(j) PROVE StoreOK'
    BY <1>20 DEF ThrowUnmarked, Mishap, EndAttempt, LastAttempt, NoJob, NoMark, NoSeal, row, store, request, TypeInv, TypeOK, StoreOK, CountersOK, JobsOK, JobInv, Job, Mark
<1>21. ASSUME NEW j \in Jobs, CrashWorker(j) PROVE StoreOK'
    BY <1>21 DEF CrashWorker, Mishap, NoJob, NoMark, NoSeal, row, store, request, TypeInv, TypeOK, StoreOK, CountersOK, JobsOK, JobInv, Job, Mark
<1>22. ASSUME UNCHANGED vars PROVE StoreOK'
    BY <1>22 DEF vars, row, store, request, counter, history, TypeInv, TypeOK, StoreOK, CountersOK, JobsOK, JobInv, Job, Mark
<1> QED
    BY <1>1, <1>2, <1>3, <1>4, <1>5, <1>6, <1>7, <1>8, <1>9, <1>10, <1>11, <1>12, <1>13, <1>14, <1>15, <1>16, <1>17, <1>18, <1>19, <1>20, <1>21, <1>22 DEF Next, RequestStep, JobStep

LEMMA RequestsStep ==
    ASSUME TypeInv, [Next]_vars
    PROVE  RequestsOK'
<1>1. ASSUME NEW e \in 1 .. MaxEdits, PushMetadata(e) PROVE RequestsOK'
    BY <1>1 DEF PushMetadata, store, request, counter, TypeInv, TypeOK, RequestsOK, RowOK, RequestPoints, CommitPoints
<1>2. ASSUME NEW k \in Keys, Upload(k) PROVE RequestsOK'
    BY <1>2 DEF Upload, row, request, TypeInv, TypeOK, RequestsOK, RowOK, RequestPoints, CommitPoints
<1>3. ASSUME NEW r \in Requests, NEW k \in Keys, Commit(r, k) PROVE RequestsOK'
    BY <1>3 DEF Commit, Goto, UpsertPhoto, store, TypeInv, TypeOK, RequestsOK, RowOK, RequestPoints, CommitPoints
<1>4. ASSUME NEW r \in Requests, StampRead(r) PROVE RequestsOK'
    BY <1>4 DEF StampRead, Goto, row, store, counter, history, TypeInv, TypeOK, RequestsOK, RowOK, RequestPoints, CommitPoints
<1>5. ASSUME NEW r \in Requests, StampWrite(r) PROVE RequestsOK'
    BY <1>5 DEF StampWrite, Goto, store, history, TypeInv, TypeOK, RequestsOK, RowOK, RequestPoints, CommitPoints
<1>6. ASSUME NEW r \in Requests, LoadPhoto(r) PROVE RequestsOK'
    BY <1>6 DEF LoadPhoto, Goto, row, store, history, TypeInv, TypeOK, RequestsOK, RowOK, RequestPoints, CommitPoints
<1>7. ASSUME NEW r \in Requests, Requeue(r) PROVE RequestsOK'
    BY <1>7 DEF Requeue, Goto, store, counter, TypeInv, TypeOK, RequestsOK, RowOK, RequestPoints, CommitPoints
<1>8. ASSUME NEW r \in Requests, Enqueue(r) PROVE RequestsOK'
    BY <1>8 DEF Enqueue, Goto, NoJob, NoMark, NoSeal, row, store, counter, history, TypeInv, TypeOK, RequestsOK, RowOK, RequestPoints, CommitPoints
<1>9. ASSUME NEW r \in Requests, CrashRequest(r) PROVE RequestsOK'
    BY <1>9 DEF CrashRequest, Mishap, Goto, row, store, TypeInv, TypeOK, RequestsOK, RowOK, RequestPoints, CommitPoints
<1>10. ASSUME NEW j \in Jobs, Skip(j) PROVE RequestsOK'
    BY <1>10 DEF Skip, NoJob, NoMark, NoSeal, row, store, request, counter, history, TypeInv, TypeOK, RequestsOK, RowOK, RequestPoints, CommitPoints
<1>11. ASSUME NEW j \in Jobs, ReadPhoto(j) PROVE RequestsOK'
    BY <1>11 DEF ReadPhoto, row, store, request, counter, TypeInv, TypeOK, RequestsOK, RowOK, RequestPoints, CommitPoints
<1>12. ASSUME NEW j \in Jobs, MarkProcessing(j) PROVE RequestsOK'
    BY <1>12 DEF MarkProcessing, JobGoto, store, request, counter, history, TypeInv, TypeOK, RequestsOK, RowOK, RequestPoints, CommitPoints
<1>13. ASSUME NEW j \in Jobs, Download(j) PROVE RequestsOK'
    BY <1>13 DEF Download, row, store, request, counter, history, TypeInv, TypeOK, RequestsOK, RowOK, RequestPoints, CommitPoints
<1>14. ASSUME NEW j \in Jobs, DownloadNothing(j) PROVE RequestsOK'
    BY <1>14 DEF DownloadNothing, JobGoto, row, store, request, counter, history, TypeInv, TypeOK, RequestsOK, RowOK, RequestPoints, CommitPoints
<1>15. ASSUME NEW j \in Jobs, Store(j) PROVE RequestsOK'
    BY <1>15 DEF Store, AllStored, row, request, counter, history, TypeInv, TypeOK, RequestsOK, RowOK, RequestPoints, CommitPoints
<1>16. ASSUME NEW j \in Jobs, Publish(j) PROVE RequestsOK'
    BY <1>16 DEF Publish, JobGoto, store, request, counter, history, TypeInv, TypeOK, RequestsOK, RowOK, RequestPoints, CommitPoints
<1>17. ASSUME NEW j \in Jobs, FreeRaw(j) PROVE RequestsOK'
    BY <1>17 DEF FreeRaw, Mishap, NoJob, NoMark, NoSeal, row, request, history, TypeInv, TypeOK, RequestsOK, RowOK, RequestPoints, CommitPoints
<1>18. ASSUME NEW j \in Jobs, MarkFailed(j) PROVE RequestsOK'
    BY <1>18 DEF MarkFailed, EndAttempt, LastAttempt, NoJob, NoMark, NoSeal, store, request, counter, history, TypeInv, TypeOK, RequestsOK, RowOK, RequestPoints, CommitPoints
<1>19. ASSUME NEW j \in Jobs, Throw(j) PROVE RequestsOK'
    BY <1>19 DEF Throw, Mishap, JobGoto, row, store, request, history, TypeInv, TypeOK, RequestsOK, RowOK, RequestPoints, CommitPoints
<1>20. ASSUME NEW j \in Jobs, ThrowUnmarked(j) PROVE RequestsOK'
    BY <1>20 DEF ThrowUnmarked, Mishap, EndAttempt, LastAttempt, NoJob, NoMark, NoSeal, row, store, request, TypeInv, TypeOK, RequestsOK, RowOK, RequestPoints, CommitPoints
<1>21. ASSUME NEW j \in Jobs, CrashWorker(j) PROVE RequestsOK'
    BY <1>21 DEF CrashWorker, Mishap, NoJob, NoMark, NoSeal, row, store, request, TypeInv, TypeOK, RequestsOK, RowOK, RequestPoints, CommitPoints
<1>22. ASSUME UNCHANGED vars PROVE RequestsOK'
    BY <1>22 DEF vars, row, store, request, counter, history, TypeInv, TypeOK, RequestsOK, RowOK, RequestPoints, CommitPoints
<1> QED
    BY <1>1, <1>2, <1>3, <1>4, <1>5, <1>6, <1>7, <1>8, <1>9, <1>10, <1>11, <1>12, <1>13, <1>14, <1>15, <1>16, <1>17, <1>18, <1>19, <1>20, <1>21, <1>22 DEF Next, RequestStep, JobStep

(* One job changes: it stays a job, and works only on a raw object. *)
JobOK(x) == x \in Job /\ (x.pc \notin {"none", "waiting"} => x.raw # None)

LEMMA OneJob ==
    ASSUME JobsOK, NEW j \in Jobs, NEW x, JobOK(x), jobs' = [jobs EXCEPT ![j] = x]
    PROVE  JobsOK'
    BY DEF JobOK, JobsOK

LEMMA NoJobOK == /\ JobOK(NoJob)
                 /\ \A n \in 0 .. Attempts - 1, s \in BOOLEAN :
                        JobOK([NoJob EXCEPT !.pc = "waiting", !.failures = n, !.stalled = s])
                 /\ JobOK([NoJob EXCEPT !.pc = "waiting"])
<1>1. NoMark \in Mark
    BY DEF NoMark, NoSeal, Mark, Seal
<1>2. NoJob \in Job
    BY <1>1 DEF Job, JobPoints, NoJob
<1>3. "waiting" \in JobPoints
    BY DEF JobPoints
<1> QED
    BY <1>1, <1>2, <1>3 DEF JobOK, Job, NoJob

LEMMA JobsStep ==
    ASSUME TypeInv, [Next]_vars
    PROVE  JobsOK'
<1>1. ASSUME NEW e \in 1 .. MaxEdits, PushMetadata(e) PROVE JobsOK'
    BY <1>1 DEF PushMetadata, store, request, counter, TypeInv, TypeOK, JobsOK
<1>2. ASSUME NEW k \in Keys, Upload(k) PROVE JobsOK'
    BY <1>2 DEF Upload, row, request, TypeInv, TypeOK, JobsOK
<1>3. ASSUME NEW r \in Requests, NEW k \in Keys, Commit(r, k) PROVE JobsOK'
    BY <1>3 DEF Commit, Goto, UpsertPhoto, store, TypeInv, TypeOK, JobsOK
<1>4. ASSUME NEW r \in Requests, StampRead(r) PROVE JobsOK'
    BY <1>4 DEF StampRead, Goto, row, store, counter, history, TypeInv, TypeOK, JobsOK
<1>5. ASSUME NEW r \in Requests, StampWrite(r) PROVE JobsOK'
    BY <1>5 DEF StampWrite, Goto, store, history, TypeInv, TypeOK, JobsOK
<1>6. ASSUME NEW r \in Requests, LoadPhoto(r) PROVE JobsOK'
    BY <1>6 DEF LoadPhoto, Goto, row, store, history, TypeInv, TypeOK, JobsOK
<1>7. ASSUME NEW r \in Requests, Requeue(r) PROVE JobsOK'
    BY <1>7 DEF Requeue, Goto, store, counter, TypeInv, TypeOK, JobsOK
<1>8. ASSUME NEW r \in Requests, Enqueue(r) PROVE JobsOK'
    <2>1. PICK j \in Jobs : jobs' = [jobs EXCEPT ![j] = [NoJob EXCEPT !.pc = "waiting"]]
        BY <1>8 DEF Enqueue
    <2> QED
        BY <2>1, NoJobOK, OneJob DEF TypeInv, TypeOK
<1>9. ASSUME NEW r \in Requests, CrashRequest(r) PROVE JobsOK'
    BY <1>9 DEF CrashRequest, Mishap, Goto, row, store, TypeInv, TypeOK, JobsOK
<1>10. ASSUME NEW j \in Jobs, Skip(j) PROVE JobsOK'
    BY <1>10, NoJobOK, OneJob DEF Skip, TypeInv, TypeOK
<1>11. ASSUME NEW j \in Jobs, ReadPhoto(j) PROVE JobsOK'
    <2>0. [seal |-> seal, evidence |-> evidence] \in Mark /\ rawObjectKey \in Keys /\ jobs[j] \in Job
        BY <1>11 DEF ReadPhoto, TypeInv, TypeOK, RowOK, JobsOK, Mark
    <2>1. JobOK([jobs[j] EXCEPT !.pc = "mark", !.raw = rawObjectKey,
                     !.mark = [seal |-> seal, evidence |-> evidence]])
        BY <2>0 DEF JobOK, Job, JobPoints, DerivePoints
    <2>2. jobs' = [jobs EXCEPT ![j] = [jobs[j] EXCEPT !.pc = "mark", !.raw = rawObjectKey,
                     !.mark = [seal |-> seal, evidence |-> evidence]]]
        BY <1>11 DEF TypeInv, TypeOK, JobsOK, Job, ReadPhoto
    <2> QED
        BY <2>1, <2>2, OneJob DEF TypeInv, TypeOK
<1>12. ASSUME NEW j \in Jobs, MarkProcessing(j) PROVE JobsOK'
    <2>0. jobs[j] \in Job /\ jobs[j].raw # None
        BY <1>12 DEF MarkProcessing, TypeInv, TypeOK, JobsOK, JobInv
    <2>1. JobOK([jobs[j] EXCEPT !.pc = "download"])
        BY <2>0 DEF JobOK, Job, JobPoints, DerivePoints
    <2>2. jobs' = [jobs EXCEPT ![j] = [jobs[j] EXCEPT !.pc = "download"]]
        BY <1>12 DEF TypeInv, TypeOK, JobsOK, Job, JobGoto, MarkProcessing
    <2> QED
        BY <2>1, <2>2, OneJob DEF TypeInv, TypeOK
<1>13. ASSUME NEW j \in Jobs, Download(j) PROVE JobsOK'
    <2>0. jobs[j] \in Job /\ jobs[j].raw # None /\ objects[jobs[j].raw] \in Nat
        BY <1>13 DEF Download, TypeInv, TypeOK, JobsOK, JobInv, StoreOK, Job
    <2>1. JobOK([jobs[j] EXCEPT !.pc = "store", !.content = objects[jobs[j].raw]])
        BY <2>0 DEF JobOK, Job, JobPoints, DerivePoints
    <2>2. jobs' = [jobs EXCEPT ![j] = [jobs[j] EXCEPT !.pc = "store", !.content = objects[jobs[j].raw]]]
        BY <1>13 DEF TypeInv, TypeOK, JobsOK, Job, Download
    <2> QED
        BY <2>1, <2>2, OneJob DEF TypeInv, TypeOK
<1>14. ASSUME NEW j \in Jobs, DownloadNothing(j) PROVE JobsOK'
    <2>0. jobs[j] \in Job /\ jobs[j].raw # None
        BY <1>14 DEF DownloadNothing, TypeInv, TypeOK, JobsOK, JobInv
    <2>1. JobOK([jobs[j] EXCEPT !.pc = "markFailed"])
        BY <2>0 DEF JobOK, Job, JobPoints, DerivePoints
    <2>2. jobs' = [jobs EXCEPT ![j] = [jobs[j] EXCEPT !.pc = "markFailed"]]
        BY <1>14 DEF TypeInv, TypeOK, JobsOK, Job, JobGoto, DownloadNothing
    <2> QED
        BY <2>1, <2>2, OneJob DEF TypeInv, TypeOK
<1>15. ASSUME NEW j \in Jobs, Store(j) PROVE JobsOK'
    <2>0. jobs[j].stored + 1 \in 0 .. NumVariants /\ jobs[j] \in Job /\ jobs[j].raw # None
        BY <1>15 DEF Store, TypeInv, TypeOK, JobsOK, JobInv, Job
    <2>1. JobOK([jobs[j] EXCEPT !.stored = jobs[j].stored + 1,
                     !.pc = IF AllStored(jobs[j].stored + 1) THEN "publish" ELSE "store"])
        BY <2>0 DEF JobOK, Job, JobPoints, DerivePoints
    <2>2. jobs' = [jobs EXCEPT ![j] = [jobs[j] EXCEPT !.stored = jobs[j].stored + 1,
                     !.pc = IF AllStored(jobs[j].stored + 1) THEN "publish" ELSE "store"]]
        BY <1>15 DEF TypeInv, TypeOK, JobsOK, Job, Store
    <2> QED
        BY <2>1, <2>2, OneJob DEF TypeInv, TypeOK
<1>16. ASSUME NEW j \in Jobs, Publish(j) PROVE JobsOK'
    <2>0. jobs[j] \in Job /\ jobs[j].raw # None
        BY <1>16 DEF Publish, TypeInv, TypeOK, JobsOK, JobInv
    <2>1. JobOK([jobs[j] EXCEPT !.pc = "free"])
        BY <2>0 DEF JobOK, Job, JobPoints, DerivePoints
    <2>2. jobs' = [jobs EXCEPT ![j] = [jobs[j] EXCEPT !.pc = "free"]]
        BY <1>16 DEF TypeInv, TypeOK, JobsOK, Job, JobGoto, Publish
    <2> QED
        BY <2>1, <2>2, OneJob DEF TypeInv, TypeOK
<1>17. ASSUME NEW j \in Jobs, FreeRaw(j) PROVE JobsOK'
    BY <1>17, NoJobOK, OneJob DEF FreeRaw, TypeInv, TypeOK
<1>18. ASSUME NEW j \in Jobs, MarkFailed(j) PROVE JobsOK'
    <2>1. jobs[j] \in Job
        BY DEF TypeInv, TypeOK, JobsOK
    <2>2. CASE LastAttempt(j)
        BY <1>18, <2>2, NoJobOK, OneJob DEF MarkFailed, EndAttempt, TypeInv, TypeOK
    <2>3. CASE ~ LastAttempt(j)
        <3>1. jobs[j].failures + 1 \in 0 .. Attempts - 1 /\ jobs[j].stalled \in BOOLEAN
            BY <2>1, <2>3 DEF Job, LastAttempt
        <3> QED
            BY <1>18, <2>3, <3>1, NoJobOK, OneJob DEF MarkFailed, EndAttempt, TypeInv, TypeOK
    <2> QED
        BY <2>2, <2>3
<1>19. ASSUME NEW j \in Jobs, Throw(j) PROVE JobsOK'
    <2>0. jobs[j] \in Job /\ jobs[j].raw # None
        BY <1>19 DEF Throw, TypeInv, TypeOK, JobsOK, JobInv
    <2>1. JobOK([jobs[j] EXCEPT !.pc = "markFailed"])
        BY <2>0 DEF JobOK, Job, JobPoints, DerivePoints
    <2>2. jobs' = [jobs EXCEPT ![j] = [jobs[j] EXCEPT !.pc = "markFailed"]]
        BY <1>19 DEF TypeInv, TypeOK, JobsOK, Job, JobGoto, Throw
    <2> QED
        BY <2>1, <2>2, OneJob DEF TypeInv, TypeOK
<1>20. ASSUME NEW j \in Jobs, ThrowUnmarked(j) PROVE JobsOK'
    <2>1. jobs[j] \in Job
        BY DEF TypeInv, TypeOK, JobsOK
    <2>2. CASE LastAttempt(j)
        BY <1>20, <2>2, NoJobOK, OneJob DEF ThrowUnmarked, EndAttempt, TypeInv, TypeOK
    <2>3. CASE ~ LastAttempt(j)
        <3>1. jobs[j].failures + 1 \in 0 .. Attempts - 1 /\ jobs[j].stalled \in BOOLEAN
            BY <2>1, <2>3 DEF Job, LastAttempt
        <3> QED
            BY <1>20, <2>3, <3>1, NoJobOK, OneJob DEF ThrowUnmarked, EndAttempt, TypeInv, TypeOK
    <2> QED
        BY <2>2, <2>3
<1>21. ASSUME NEW j \in Jobs, CrashWorker(j) PROVE JobsOK'
    <2>1. jobs[j].failures \in 0 .. Attempts - 1
        BY DEF TypeInv, TypeOK, JobsOK, Job
    <2> QED
        BY <1>21, <2>1, NoJobOK, OneJob DEF CrashWorker, TypeInv, TypeOK
<1>22. ASSUME UNCHANGED vars PROVE JobsOK'
    BY <1>22 DEF vars, row, store, request, counter, history, TypeInv, TypeOK, JobsOK
<1> QED
    BY <1>1, <1>2, <1>3, <1>4, <1>5, <1>6, <1>7, <1>8, <1>9, <1>10, <1>11, <1>12, <1>13, <1>14, <1>15, <1>16, <1>17, <1>18, <1>19, <1>20, <1>21, <1>22 DEF Next, RequestStep, JobStep

LEMMA CountersStep ==
    ASSUME TypeInv, [Next]_vars
    PROVE  CountersOK'
<1>1. ASSUME NEW e \in 1 .. MaxEdits, PushMetadata(e) PROVE CountersOK'
    BY <1>1 DEF PushMetadata, store, request, counter, TypeInv, TypeOK, CountersOK
<1>2. ASSUME NEW k \in Keys, Upload(k) PROVE CountersOK'
    BY <1>2 DEF Upload, row, request, TypeInv, TypeOK, CountersOK
<1>3. ASSUME NEW r \in Requests, NEW k \in Keys, Commit(r, k) PROVE CountersOK'
    BY <1>3 DEF Commit, Goto, UpsertPhoto, store, TypeInv, TypeOK, CountersOK
<1>4. ASSUME NEW r \in Requests, StampRead(r) PROVE CountersOK'
    BY <1>4 DEF StampRead, Goto, row, store, counter, history, TypeInv, TypeOK, CountersOK
<1>5. ASSUME NEW r \in Requests, StampWrite(r) PROVE CountersOK'
    BY <1>5 DEF StampWrite, Goto, store, history, TypeInv, TypeOK, CountersOK
<1>6. ASSUME NEW r \in Requests, LoadPhoto(r) PROVE CountersOK'
    BY <1>6 DEF LoadPhoto, Goto, row, store, history, TypeInv, TypeOK, CountersOK
<1>7. ASSUME NEW r \in Requests, Requeue(r) PROVE CountersOK'
    BY <1>7 DEF Requeue, Goto, store, counter, TypeInv, TypeOK, CountersOK
<1>8. ASSUME NEW r \in Requests, Enqueue(r) PROVE CountersOK'
    BY <1>8 DEF Enqueue, Goto, NoJob, NoMark, NoSeal, row, store, counter, history, TypeInv, TypeOK, CountersOK
<1>9. ASSUME NEW r \in Requests, CrashRequest(r) PROVE CountersOK'
    BY <1>9 DEF CrashRequest, Mishap, Goto, row, store, TypeInv, TypeOK, CountersOK
<1>10. ASSUME NEW j \in Jobs, Skip(j) PROVE CountersOK'
    BY <1>10 DEF Skip, NoJob, NoMark, NoSeal, row, store, request, counter, history, TypeInv, TypeOK, CountersOK
<1>11. ASSUME NEW j \in Jobs, ReadPhoto(j) PROVE CountersOK'
    BY <1>11 DEF ReadPhoto, row, store, request, counter, TypeInv, TypeOK, CountersOK
<1>12. ASSUME NEW j \in Jobs, MarkProcessing(j) PROVE CountersOK'
    BY <1>12 DEF MarkProcessing, JobGoto, store, request, counter, history, TypeInv, TypeOK, CountersOK
<1>13. ASSUME NEW j \in Jobs, Download(j) PROVE CountersOK'
    BY <1>13 DEF Download, row, store, request, counter, history, TypeInv, TypeOK, CountersOK
<1>14. ASSUME NEW j \in Jobs, DownloadNothing(j) PROVE CountersOK'
    BY <1>14 DEF DownloadNothing, JobGoto, row, store, request, counter, history, TypeInv, TypeOK, CountersOK
<1>15. ASSUME NEW j \in Jobs, Store(j) PROVE CountersOK'
    BY <1>15 DEF Store, AllStored, row, request, counter, history, TypeInv, TypeOK, CountersOK
<1>16. ASSUME NEW j \in Jobs, Publish(j) PROVE CountersOK'
    BY <1>16 DEF Publish, JobGoto, store, request, counter, history, TypeInv, TypeOK, CountersOK
<1>17. ASSUME NEW j \in Jobs, FreeRaw(j) PROVE CountersOK'
    BY <1>17 DEF FreeRaw, Mishap, NoJob, NoMark, NoSeal, row, request, history, TypeInv, TypeOK, CountersOK
<1>18. ASSUME NEW j \in Jobs, MarkFailed(j) PROVE CountersOK'
    BY <1>18 DEF MarkFailed, EndAttempt, LastAttempt, NoJob, NoMark, NoSeal, store, request, counter, history, TypeInv, TypeOK, CountersOK
<1>19. ASSUME NEW j \in Jobs, Throw(j) PROVE CountersOK'
    BY <1>19 DEF Throw, Mishap, JobGoto, row, store, request, history, TypeInv, TypeOK, CountersOK
<1>20. ASSUME NEW j \in Jobs, ThrowUnmarked(j) PROVE CountersOK'
    BY <1>20 DEF ThrowUnmarked, Mishap, EndAttempt, LastAttempt, NoJob, NoMark, NoSeal, row, store, request, TypeInv, TypeOK, CountersOK
<1>21. ASSUME NEW j \in Jobs, CrashWorker(j) PROVE CountersOK'
    BY <1>21 DEF CrashWorker, Mishap, NoJob, NoMark, NoSeal, row, store, request, TypeInv, TypeOK, CountersOK
<1>22. ASSUME UNCHANGED vars PROVE CountersOK'
    BY <1>22 DEF vars, row, store, request, counter, history, TypeInv, TypeOK, CountersOK
<1> QED
    BY <1>1, <1>2, <1>3, <1>4, <1>5, <1>6, <1>7, <1>8, <1>9, <1>10, <1>11, <1>12, <1>13, <1>14, <1>15, <1>16, <1>17, <1>18, <1>19, <1>20, <1>21, <1>22 DEF Next, RequestStep, JobStep

LEMMA HistoryStep ==
    ASSUME TypeInv, [Next]_vars
    PROVE  HistoryOK'
<1>1. ASSUME NEW e \in 1 .. MaxEdits, PushMetadata(e) PROVE HistoryOK'
    BY <1>1 DEF PushMetadata, store, request, counter, TypeInv, TypeOK, HistoryOK, StoreOK
<1>2. ASSUME NEW k \in Keys, Upload(k) PROVE HistoryOK'
    BY <1>2 DEF Upload, row, request, TypeInv, TypeOK, HistoryOK, StoreOK
<1>3. ASSUME NEW r \in Requests, NEW k \in Keys, Commit(r, k) PROVE HistoryOK'
    <2>1. insertedAt' \in Nat
        BY <1>3 DEF Commit, UpsertPhoto, TypeInv, TypeOK, HistoryOK
    <2>2. wanted' \in Nat
        BY <1>3 DEF Commit, TypeInv, TypeOK, HistoryOK, StoreOK
    <2>3. crossed' \in BOOLEAN /\ outrun' \in BOOLEAN
        BY <1>3 DEF Commit
    <2> QED
        BY <1>3, <2>1, <2>2, <2>3 DEF Commit, TypeInv, TypeOK, HistoryOK
<1>4. ASSUME NEW r \in Requests, StampRead(r) PROVE HistoryOK'
    BY <1>4 DEF StampRead, Goto, row, store, counter, history, TypeInv, TypeOK, HistoryOK, StoreOK
<1>5. ASSUME NEW r \in Requests, StampWrite(r) PROVE HistoryOK'
    BY <1>5 DEF StampWrite, Goto, store, history, TypeInv, TypeOK, HistoryOK, StoreOK
<1>6. ASSUME NEW r \in Requests, LoadPhoto(r) PROVE HistoryOK'
    BY <1>6 DEF LoadPhoto, Goto, row, store, history, TypeInv, TypeOK, HistoryOK, StoreOK
<1>7. ASSUME NEW r \in Requests, Requeue(r) PROVE HistoryOK'
    BY <1>7 DEF Requeue, Goto, store, counter, TypeInv, TypeOK, HistoryOK, StoreOK
<1>8. ASSUME NEW r \in Requests, Enqueue(r) PROVE HistoryOK'
    BY <1>8 DEF Enqueue, Goto, NoJob, NoMark, NoSeal, row, store, counter, history, TypeInv, TypeOK, HistoryOK, StoreOK
<1>9. ASSUME NEW r \in Requests, CrashRequest(r) PROVE HistoryOK'
    BY <1>9 DEF CrashRequest, Mishap, Goto, row, store, TypeInv, TypeOK, HistoryOK, StoreOK
<1>10. ASSUME NEW j \in Jobs, Skip(j) PROVE HistoryOK'
    BY <1>10 DEF Skip, NoJob, NoMark, NoSeal, row, store, request, counter, history, TypeInv, TypeOK, HistoryOK, StoreOK
<1>11. ASSUME NEW j \in Jobs, ReadPhoto(j) PROVE HistoryOK'
    BY <1>11 DEF ReadPhoto, row, store, request, counter, TypeInv, TypeOK, HistoryOK, StoreOK
<1>12. ASSUME NEW j \in Jobs, MarkProcessing(j) PROVE HistoryOK'
    BY <1>12 DEF MarkProcessing, JobGoto, store, request, counter, history, TypeInv, TypeOK, HistoryOK, StoreOK
<1>13. ASSUME NEW j \in Jobs, Download(j) PROVE HistoryOK'
    BY <1>13 DEF Download, row, store, request, counter, history, TypeInv, TypeOK, HistoryOK, StoreOK
<1>14. ASSUME NEW j \in Jobs, DownloadNothing(j) PROVE HistoryOK'
    BY <1>14 DEF DownloadNothing, JobGoto, row, store, request, counter, history, TypeInv, TypeOK, HistoryOK, StoreOK
<1>15. ASSUME NEW j \in Jobs, Store(j) PROVE HistoryOK'
    BY <1>15 DEF Store, AllStored, row, request, counter, history, TypeInv, TypeOK, HistoryOK, StoreOK
<1>16. ASSUME NEW j \in Jobs, Publish(j) PROVE HistoryOK'
    BY <1>16 DEF Publish, JobGoto, store, request, counter, history, TypeInv, TypeOK, HistoryOK, StoreOK
<1>17. ASSUME NEW j \in Jobs, FreeRaw(j) PROVE HistoryOK'
    BY <1>17 DEF FreeRaw, Mishap, NoJob, NoMark, NoSeal, row, request, history, TypeInv, TypeOK, HistoryOK, StoreOK
<1>18. ASSUME NEW j \in Jobs, MarkFailed(j) PROVE HistoryOK'
    BY <1>18 DEF MarkFailed, EndAttempt, LastAttempt, NoJob, NoMark, NoSeal, store, request, counter, history, TypeInv, TypeOK, HistoryOK, StoreOK
<1>19. ASSUME NEW j \in Jobs, Throw(j) PROVE HistoryOK'
    BY <1>19 DEF Throw, Mishap, JobGoto, row, store, request, history, TypeInv, TypeOK, HistoryOK, StoreOK
<1>20. ASSUME NEW j \in Jobs, ThrowUnmarked(j) PROVE HistoryOK'
    BY <1>20 DEF ThrowUnmarked, Mishap, EndAttempt, LastAttempt, NoJob, NoMark, NoSeal, row, store, request, TypeInv, TypeOK, HistoryOK, StoreOK
<1>21. ASSUME NEW j \in Jobs, CrashWorker(j) PROVE HistoryOK'
    BY <1>21 DEF CrashWorker, Mishap, NoJob, NoMark, NoSeal, row, store, request, TypeInv, TypeOK, HistoryOK, StoreOK
<1>22. ASSUME UNCHANGED vars PROVE HistoryOK'
    BY <1>22 DEF vars, row, store, request, counter, history, TypeInv, TypeOK, HistoryOK, StoreOK
<1> QED
    BY <1>1, <1>2, <1>3, <1>4, <1>5, <1>6, <1>7, <1>8, <1>9, <1>10, <1>11, <1>12, <1>13, <1>14, <1>15, <1>16, <1>17, <1>18, <1>19, <1>20, <1>21, <1>22 DEF Next, RequestStep, JobStep

LEMMA JobInvStep ==
    ASSUME TypeInv, [Next]_vars
    PROVE  JobInv'
<1>1. ASSUME NEW e \in 1 .. MaxEdits, PushMetadata(e) PROVE JobInv'
    BY <1>1 DEF PushMetadata, store, request, counter, TypeInv, TypeOK, JobsOK, JobInv, Taken, Whole, RowOK, Job, JobPoints, DerivePoints
<1>2. ASSUME NEW k \in Keys, Upload(k) PROVE JobInv'
    BY <1>2 DEF Upload, row, request, TypeInv, TypeOK, JobsOK, JobInv, Taken, Whole, RowOK, Job, JobPoints, DerivePoints
<1>3. ASSUME NEW r \in Requests, NEW k \in Keys, Commit(r, k) PROVE JobInv'
    BY <1>3 DEF Commit, Goto, UpsertPhoto, store, TypeInv, TypeOK, JobsOK, JobInv, Taken, Whole, RowOK, Job, JobPoints, DerivePoints
<1>4. ASSUME NEW r \in Requests, StampRead(r) PROVE JobInv'
    BY <1>4 DEF StampRead, Goto, row, store, counter, history, TypeInv, TypeOK, JobsOK, JobInv, Taken, Whole, RowOK, Job, JobPoints, DerivePoints
<1>5. ASSUME NEW r \in Requests, StampWrite(r) PROVE JobInv'
    BY <1>5 DEF StampWrite, Goto, store, history, TypeInv, TypeOK, JobsOK, JobInv, Taken, Whole, RowOK, Job, JobPoints, DerivePoints
<1>6. ASSUME NEW r \in Requests, LoadPhoto(r) PROVE JobInv'
    BY <1>6 DEF LoadPhoto, Goto, row, store, history, TypeInv, TypeOK, JobsOK, JobInv, Taken, Whole, RowOK, Job, JobPoints, DerivePoints
<1>7. ASSUME NEW r \in Requests, Requeue(r) PROVE JobInv'
    BY <1>7 DEF Requeue, Goto, store, counter, TypeInv, TypeOK, JobsOK, JobInv, Taken, Whole, RowOK, Job, JobPoints, DerivePoints
<1>8. ASSUME NEW r \in Requests, Enqueue(r) PROVE JobInv'
    BY <1>8 DEF Enqueue, Goto, NoJob, NoMark, NoSeal, row, store, counter, history, TypeInv, TypeOK, JobsOK, JobInv, Taken, Whole, RowOK, Job, JobPoints, DerivePoints
<1>9. ASSUME NEW r \in Requests, CrashRequest(r) PROVE JobInv'
    BY <1>9 DEF CrashRequest, Mishap, Goto, row, store, TypeInv, TypeOK, JobsOK, JobInv, Taken, Whole, RowOK, Job, JobPoints, DerivePoints
<1>10. ASSUME NEW j \in Jobs, Skip(j) PROVE JobInv'
    BY <1>10 DEF Skip, NoJob, NoMark, NoSeal, row, store, request, counter, history, TypeInv, TypeOK, JobsOK, JobInv, Taken, Whole, RowOK, Job, JobPoints, DerivePoints
<1>11. ASSUME NEW j \in Jobs, ReadPhoto(j) PROVE JobInv'
    BY <1>11 DEF ReadPhoto, row, store, request, counter, TypeInv, TypeOK, JobsOK, JobInv, Taken, Whole, RowOK, Job, JobPoints, DerivePoints
<1>12. ASSUME NEW j \in Jobs, MarkProcessing(j) PROVE JobInv'
    BY <1>12 DEF MarkProcessing, JobGoto, store, request, counter, history, TypeInv, TypeOK, JobsOK, JobInv, Taken, Whole, RowOK, Job, JobPoints, DerivePoints
<1>13. ASSUME NEW j \in Jobs, Download(j) PROVE JobInv'
    BY <1>13 DEF Download, history, TypeInv, TypeOK, JobsOK, JobInv, Taken, Whole, Job
<1>14. ASSUME NEW j \in Jobs, DownloadNothing(j) PROVE JobInv'
    BY <1>14 DEF DownloadNothing, JobGoto, row, store, request, counter, history, TypeInv, TypeOK, JobsOK, JobInv, Taken, Whole, RowOK, Job, JobPoints, DerivePoints
<1>15. ASSUME NEW j \in Jobs, Store(j) PROVE JobInv'
    BY <1>15 DEF Store, AllStored, row, request, counter, history, TypeInv, TypeOK, JobsOK, JobInv, Taken, Whole, RowOK, Job, JobPoints, DerivePoints
<1>16. ASSUME NEW j \in Jobs, Publish(j) PROVE JobInv'
    BY <1>16 DEF Publish, JobGoto, store, request, counter, history, TypeInv, TypeOK, JobsOK, JobInv, Taken, Whole, RowOK, Job, JobPoints, DerivePoints
<1>17. ASSUME NEW j \in Jobs, FreeRaw(j) PROVE JobInv'
    BY <1>17 DEF FreeRaw, Mishap, NoJob, NoMark, NoSeal, row, request, history, TypeInv, TypeOK, JobsOK, JobInv, Taken, Whole, RowOK, Job, JobPoints, DerivePoints
<1>18. ASSUME NEW j \in Jobs, MarkFailed(j) PROVE JobInv'
    BY <1>18 DEF MarkFailed, EndAttempt, LastAttempt, NoJob, NoMark, NoSeal, store, request, counter, history, TypeInv, TypeOK, JobsOK, JobInv, Taken, Whole, RowOK, Job, JobPoints, DerivePoints
<1>19. ASSUME NEW j \in Jobs, Throw(j) PROVE JobInv'
    BY <1>19 DEF Throw, Mishap, JobGoto, row, store, request, history, TypeInv, TypeOK, JobsOK, JobInv, Taken, Whole, RowOK, Job, JobPoints, DerivePoints
<1>20. ASSUME NEW j \in Jobs, ThrowUnmarked(j) PROVE JobInv'
    BY <1>20 DEF ThrowUnmarked, Mishap, EndAttempt, LastAttempt, NoJob, NoMark, NoSeal, row, store, request, TypeInv, TypeOK, JobsOK, JobInv, Taken, Whole, RowOK, Job, JobPoints, DerivePoints
<1>21. ASSUME NEW j \in Jobs, CrashWorker(j) PROVE JobInv'
    BY <1>21 DEF CrashWorker, Mishap, NoJob, NoMark, NoSeal, row, store, request, TypeInv, TypeOK, JobsOK, JobInv, Taken, Whole, RowOK, Job, JobPoints, DerivePoints
<1>22. ASSUME UNCHANGED vars PROVE JobInv'
    BY <1>22 DEF vars, row, store, request, counter, history, TypeInv, TypeOK, JobsOK, JobInv, Taken, Whole, RowOK, Job, JobPoints, DerivePoints
<1> QED
    BY <1>1, <1>2, <1>3, <1>4, <1>5, <1>6, <1>7, <1>8, <1>9, <1>10, <1>11, <1>12, <1>13, <1>14, <1>15, <1>16, <1>17, <1>18, <1>19, <1>20, <1>21, <1>22 DEF Next, RequestStep, JobStep

LEMMA TypeInvInit == Init => TypeInv
<1> SUFFICES ASSUME Init PROVE TypeInv
    OBVIOUS
<1>1. RowOK
    BY DEF Init, RowOK, Statuses, NoSeal, Seal
<1>2. StoreOK
    BY DEF Init, StoreOK, NoMark, NoSeal, Mark, Seal
<1>3. RequestsOK /\ CountersOK /\ HistoryOK
    BY DEF Init, RequestsOK, RequestPoints, CommitPoints, CountersOK, HistoryOK
<1>4. JobsOK
    BY NoJobOK DEF Init, JobsOK, JobOK
<1>5. JobInv
    BY DEF Init, JobInv, Taken, Whole, NoJob
<1> QED
    BY <1>1, <1>2, <1>3, <1>4, <1>5 DEF TypeInv, TypeOK

LEMMA TypeInvStep == ASSUME TypeInv, [Next]_vars PROVE TypeInv'
    BY RowStep, StoreStep, RequestsStep, JobsStep, CountersStep, HistoryStep, JobInvStep DEF TypeInv, TypeOK

(* Every reachable state is well typed. *)
THEOREM TypeCorrect == Spec => []TypeOK
<1>1. Spec => []TypeInv
    BY TypeInvInit, TypeInvStep, PTL DEF Spec
<1>2. TypeInv => TypeOK
    BY DEF TypeInv
<1> QED
    BY <1>1, <1>2, PTL

(* No job gets ahead: who has the photo had it, under the same key, and who is
   past its download was, with the same content. *)
Lag ==
    \A i \in Jobs : Taken(i)' =>
        /\ Taken(i) /\ jobs'[i].raw = jobs[i].raw /\ jobs'[i].mark = jobs[i].mark
        /\ Whole(i)' => Whole(i)
        /\ Past(i)' => /\ Past(i)
                      /\ jobs'[i].content = jobs[i].content
                      /\ jobs'[i].stored = jobs[i].stored

LEMMA LagSame == ASSUME jobs' = jobs PROVE Lag
    BY DEF Lag, Taken, Past, Whole

LEMMA LagBack ==
    ASSUME TypeInv, NEW j \in Jobs, jobs[j].raw # None,
           \/ jobs' = [jobs EXCEPT ![j].pc = "download"]
           \/ jobs' = [jobs EXCEPT ![j].pc = "markFailed"]
           \/ jobs' = [jobs EXCEPT ![j].pc = "free"] /\ jobs[j].pc = "publish"
    PROVE  Lag
    BY DEF TypeInv, TypeOK, JobsOK, Job, Lag, Taken, Past, Whole

LEMMA LagEnd ==
    ASSUME TypeInv, NEW j \in Jobs, NEW x, x.raw = None, jobs' = [jobs EXCEPT ![j] = x]
    PROVE  Lag
    BY DEF TypeInv, TypeOK, JobsOK, Lag, Taken, Past, Whole

LEMMA LagEnqueue == ASSUME TypeInv, NEW r \in Requests, Enqueue(r) PROVE Lag
<1>1. PICK j \in Jobs : jobs' = [jobs EXCEPT ![j] = [NoJob EXCEPT !.pc = "waiting"]]
    BY DEF Enqueue
<1>2. [NoJob EXCEPT !.pc = "waiting"].raw = None
    BY DEF NoJob
<1> QED
    BY <1>1, <1>2, LagEnd

LEMMA LagEndAttempt == ASSUME TypeInv, NEW j \in Jobs, EndAttempt(j) PROVE Lag
<1>1. NoJob.raw = None
    BY DEF NoJob
<1>2. \A n, s : [NoJob EXCEPT !.pc = "waiting", !.failures = n, !.stalled = s].raw = None
    BY DEF NoJob
<1> QED
    BY <1>1, <1>2, LagEnd DEF EndAttempt

LEMMA LagStep ==
    ASSUME TypeInv, NEW j \in Jobs,
           \/ Skip(j) \/ MarkProcessing(j) \/ DownloadNothing(j) \/ Publish(j) \/ FreeRaw(j)
           \/ MarkFailed(j) \/ Throw(j) \/ ThrowUnmarked(j) \/ CrashWorker(j)
    PROVE  Lag
<1> USE DEF JobGoto
<1>1. CASE Skip(j)
    BY <1>1, LagEnd DEF Skip, NoJob
<1>2. CASE MarkProcessing(j)
    BY <1>2, LagBack DEF MarkProcessing, TypeInv, TypeOK, JobsOK
<1>3. CASE DownloadNothing(j)
    BY <1>3, LagBack DEF DownloadNothing, TypeInv, TypeOK, JobsOK
<1>4. CASE Publish(j)
    BY <1>4, LagBack DEF Publish, TypeInv, TypeOK, JobsOK
<1>5. CASE FreeRaw(j)
    BY <1>5, LagEnd DEF FreeRaw, NoJob
<1>6. CASE MarkFailed(j)
    BY <1>6, LagEndAttempt DEF MarkFailed
<1>7. CASE Throw(j)
    BY <1>7, LagBack DEF Throw, TypeInv, TypeOK, JobsOK
<1>8. CASE ThrowUnmarked(j)
    BY <1>8, LagEndAttempt DEF ThrowUnmarked
<1>9. CASE CrashWorker(j)
    <2>1. NoJob.raw = None
        BY DEF NoJob
    <2>2. \A n, s : [NoJob EXCEPT !.pc = "waiting", !.failures = n, !.stalled = s].raw = None
        BY DEF NoJob
    <2> QED
        BY <1>9, <2>1, <2>2, LagEnd DEF CrashWorker
<1> QED
    BY <1>1, <1>2, <1>3, <1>4, <1>5, <1>6, <1>7, <1>8, <1>9

LEMMA CountStep ==
    ASSUME TypeInv, CountInv, [Next]_vars
    PROVE  CountInv'
<1>1. ASSUME NEW e \in 1 .. MaxEdits, PushMetadata(e) PROVE CountInv'
    BY <1>1 DEF PushMetadata, store, request, counter, TypeInv, TypeOK, StoreOK, JobsOK, CountersOK, HistoryOK, CountInv
<1>2. ASSUME NEW k \in Keys, Upload(k) PROVE CountInv'
    BY <1>2 DEF Upload, row, request, TypeInv, TypeOK, StoreOK, JobsOK, CountersOK, HistoryOK, CountInv
<1>3. ASSUME NEW r \in Requests, NEW k \in Keys, Commit(r, k) PROVE CountInv'
    BY <1>3 DEF Commit, Goto, UpsertPhoto, store, TypeInv, TypeOK, StoreOK, JobsOK, CountersOK, HistoryOK, CountInv
<1>4. ASSUME NEW r \in Requests, StampRead(r) PROVE CountInv'
    BY <1>4 DEF StampRead, Goto, row, store, counter, history, TypeInv, TypeOK, StoreOK, JobsOK, CountersOK, HistoryOK, CountInv
<1>5. ASSUME NEW r \in Requests, StampWrite(r) PROVE CountInv'
    BY <1>5 DEF StampWrite, Goto, store, history, TypeInv, TypeOK, StoreOK, JobsOK, CountersOK, HistoryOK, CountInv
<1>6. ASSUME NEW r \in Requests, LoadPhoto(r) PROVE CountInv'
    BY <1>6 DEF LoadPhoto, Goto, row, store, history, TypeInv, TypeOK, StoreOK, JobsOK, CountersOK, HistoryOK, CountInv
<1>7. ASSUME NEW r \in Requests, Requeue(r) PROVE CountInv'
    BY <1>7 DEF Requeue, Goto, store, counter, TypeInv, TypeOK, StoreOK, JobsOK, CountersOK, HistoryOK, CountInv
<1>8. ASSUME NEW r \in Requests, Enqueue(r) PROVE CountInv'
    BY <1>8 DEF Enqueue, Goto, NoJob, NoMark, NoSeal, row, store, counter, history, TypeInv, TypeOK, StoreOK, JobsOK, CountersOK, HistoryOK, CountInv
<1>9. ASSUME NEW r \in Requests, CrashRequest(r) PROVE CountInv'
    BY <1>9 DEF CrashRequest, Mishap, Goto, row, store, TypeInv, TypeOK, StoreOK, JobsOK, CountersOK, HistoryOK, CountInv
<1>10. ASSUME NEW j \in Jobs, Skip(j) PROVE CountInv'
    BY <1>10 DEF Skip, NoJob, NoMark, NoSeal, row, store, request, counter, history, TypeInv, TypeOK, StoreOK, JobsOK, CountersOK, HistoryOK, CountInv
<1>11. ASSUME NEW j \in Jobs, ReadPhoto(j) PROVE CountInv'
    BY <1>11 DEF ReadPhoto, row, store, request, counter, TypeInv, TypeOK, StoreOK, JobsOK, CountersOK, HistoryOK, CountInv
<1>12. ASSUME NEW j \in Jobs, MarkProcessing(j) PROVE CountInv'
    BY <1>12 DEF MarkProcessing, JobGoto, store, request, counter, history, TypeInv, TypeOK, StoreOK, JobsOK, CountersOK, HistoryOK, CountInv
<1>13. ASSUME NEW j \in Jobs, Download(j) PROVE CountInv'
    BY <1>13 DEF Download, row, store, request, counter, history, TypeInv, TypeOK, StoreOK, JobsOK, CountersOK, HistoryOK, CountInv
<1>14. ASSUME NEW j \in Jobs, DownloadNothing(j) PROVE CountInv'
    BY <1>14 DEF DownloadNothing, JobGoto, row, store, request, counter, history, TypeInv, TypeOK, StoreOK, JobsOK, CountersOK, HistoryOK, CountInv
<1>15. ASSUME NEW j \in Jobs, Store(j) PROVE CountInv'
    BY <1>15 DEF Store, AllStored, row, request, counter, history, TypeInv, TypeOK, StoreOK, JobsOK, CountersOK, HistoryOK, CountInv
<1>16. ASSUME NEW j \in Jobs, Publish(j) PROVE CountInv'
    BY <1>16 DEF Publish, JobGoto, store, request, counter, history, TypeInv, TypeOK, StoreOK, JobsOK, CountersOK, HistoryOK, CountInv
<1>17. ASSUME NEW j \in Jobs, FreeRaw(j) PROVE CountInv'
    BY <1>17 DEF FreeRaw, Mishap, NoJob, NoMark, NoSeal, row, request, history, TypeInv, TypeOK, StoreOK, JobsOK, CountersOK, HistoryOK, CountInv
<1>18. ASSUME NEW j \in Jobs, MarkFailed(j) PROVE CountInv'
    BY <1>18 DEF MarkFailed, EndAttempt, LastAttempt, NoJob, NoMark, NoSeal, store, request, counter, history, TypeInv, TypeOK, StoreOK, JobsOK, CountersOK, HistoryOK, CountInv
<1>19. ASSUME NEW j \in Jobs, Throw(j) PROVE CountInv'
    BY <1>19 DEF Throw, Mishap, JobGoto, row, store, request, history, TypeInv, TypeOK, StoreOK, JobsOK, CountersOK, HistoryOK, CountInv
<1>20. ASSUME NEW j \in Jobs, ThrowUnmarked(j) PROVE CountInv'
    BY <1>20 DEF ThrowUnmarked, Mishap, EndAttempt, LastAttempt, NoJob, NoMark, NoSeal, row, store, request, TypeInv, TypeOK, StoreOK, JobsOK, CountersOK, HistoryOK, CountInv
<1>21. ASSUME NEW j \in Jobs, CrashWorker(j) PROVE CountInv'
    BY <1>21 DEF CrashWorker, Mishap, NoJob, NoMark, NoSeal, row, store, request, TypeInv, TypeOK, StoreOK, JobsOK, CountersOK, HistoryOK, CountInv
<1>22. ASSUME UNCHANGED vars PROVE CountInv'
    BY <1>22 DEF vars, row, store, request, counter, history, TypeInv, TypeOK, StoreOK, JobsOK, CountersOK, HistoryOK, CountInv
<1> QED
    BY <1>1, <1>2, <1>3, <1>4, <1>5, <1>6, <1>7, <1>8, <1>9, <1>10, <1>11, <1>12, <1>13, <1>14, <1>15, <1>16, <1>17, <1>18, <1>19, <1>20, <1>21, <1>22 DEF Next, RequestStep, JobStep

(* What the three steps that get ahead do to the job. *)
LEMMA ReadEffect ==
    ASSUME TypeInv, NEW j \in Jobs, ReadPhoto(j)
    PROVE  /\ \A i \in Jobs \ {j} : jobs'[i] = jobs[i]
           /\ jobs'[j].pc = "mark" /\ jobs'[j].raw = rawObjectKey
           /\ jobs'[j].mark = [seal |-> seal, evidence |-> evidence]
           /\ ~ Taken(j)
    BY DEF ReadPhoto, TypeInv, TypeOK, JobsOK, JobInv, Job

LEMMA DownloadEffect ==
    ASSUME TypeInv, NEW j \in Jobs, Download(j)
    PROVE  /\ \A i \in Jobs \ {j} : jobs'[i] = jobs[i]
           /\ jobs'[j].pc = "store" /\ jobs'[j].raw = jobs[j].raw
           /\ jobs'[j].content = objects[jobs[j].raw] /\ jobs'[j].content # 0
           /\ jobs'[j].mark = jobs[j].mark /\ jobs'[j].stored = 0
           /\ Taken(j)
<1>1. jobs[j].stored = 0 /\ Taken(j)
    BY DEF Download, TypeInv, TypeOK, JobsOK, JobInv, Taken
<1> QED
    BY <1>1 DEF Download, TypeInv, TypeOK, JobsOK, Job

LEMMA StoreEffect ==
    ASSUME TypeInv, NEW j \in Jobs, Store(j)
    PROVE  /\ \A i \in Jobs \ {j} : jobs'[i] = jobs[i]
           /\ jobs[j].pc = "store" /\ Taken(j)
           /\ jobs'[j].pc = IF jobs[j].stored + 1 = NumVariants THEN "publish" ELSE "store"
           /\ jobs'[j].raw = jobs[j].raw /\ jobs'[j].content = jobs[j].content
           /\ jobs'[j].mark = jobs[j].mark /\ jobs'[j].stored = jobs[j].stored + 1
           /\ jobs[j].stored + 1 \in 1 .. NumVariants
           /\ variants' = [variants EXCEPT ![jobs[j].stored + 1] = jobs[j].content]
<1>1. jobs[j].stored + 1 \in 1 .. NumVariants /\ Taken(j)
    BY DEF Store, TypeInv, TypeOK, JobsOK, JobInv, Job, Taken
<1> QED
    BY <1>1 DEF Store, AllStored, TypeInv, TypeOK, JobsOK, Job

LEMMA JobTypes ==
    ASSUME TypeInv, NEW j \in Jobs
    PROVE  /\ jobs[j] \in Job /\ jobs[j].content \in Nat /\ jobs[j].stored \in 0 .. NumVariants
           /\ Taken(j) => jobs[j].raw \in Keys
           /\ Past(j) => Taken(j)
    BY DEF TypeInv, TypeOK, JobsOK, Job, Taken, Past

LEMMA ObjectsStep ==
    ASSUME TypeInv, KeptInv, [Next]_vars
    PROVE  ObjectsInv'
<1>1. ASSUME NEW e \in 1 .. MaxEdits, PushMetadata(e) PROVE ObjectsInv'
    <2>1. Lag
        BY <1>1, LagSame DEF PushMetadata
    <2> QED
        BY <1>1, <2>1 DEF PushMetadata, store, request, counter, Lag, KeptInv, ObjectsInv, RowObjects, JobObjects, Taken, Past
<1>2. ASSUME NEW k \in Keys, Upload(k) PROVE ObjectsInv'
    <2>1. uploads + 1 >= wanted /\ objects'[k] = uploads + 1 /\ wanted' = wanted
        BY <1>2 DEF Upload, TypeInv, TypeOK, StoreOK, CountersOK, HistoryOK, KeptInv, CountInv
    <2>2. \A l \in Keys \ {k} : objects'[l] = objects[l]
        BY <1>2 DEF Upload, TypeInv, TypeOK, StoreOK
    <2>3. rawObjectKey' = rawObjectKey /\ variants' = variants /\ jobs' = jobs
        BY <1>2 DEF Upload, row
    <2>4. ~ crossed' => ~ crossed /\ \A j \in Jobs : jobs[j].raw # k
        BY <1>2 DEF Upload
    <2>5. ~ crossed' => RowObjects'
        BY <2>1, <2>2, <2>3, <2>4 DEF KeptInv, ObjectsInv, RowObjects, TypeInv, TypeOK, RowOK
    <2>6. ASSUME ~ crossed', NEW j \in Jobs, Taken(j)' PROVE JobObjects(j)'
        <3>1. Taken(j) /\ JobObjects(j) /\ jobs[j].raw \in Keys \ {k} /\ (Past(j)' <=> Past(j))
            BY <2>3, <2>4, <2>6, JobTypes DEF Taken, Past, KeptInv, ObjectsInv
        <3> QED
            BY <3>1, <2>1, <2>2, <2>3 DEF JobObjects
    <2> QED
        BY <2>5, <2>6 DEF ObjectsInv
<1>3. ASSUME NEW r \in Requests, NEW k \in Keys, Commit(r, k) PROVE ObjectsInv'
    <2>1. ~ crossed' => \A j \in Jobs : ~ Taken(j)'
        BY <1>3 DEF Commit, Taken
    <2>2. objects'[k] = objects[k] /\ objects[k] \in Nat /\ rawObjectKey' = k
        BY <1>3 DEF Commit, UpsertPhoto, store, TypeInv, TypeOK, StoreOK
    <2>3. objects'[k] = 0 \/ objects'[k] >= wanted'
        BY <1>3, <2>2 DEF Commit
    <2> QED
        BY <2>1, <2>2, <2>3 DEF ObjectsInv, RowObjects
<1>4. ASSUME NEW r \in Requests, StampRead(r) PROVE ObjectsInv'
    <2>1. Lag
        BY <1>4, LagSame DEF StampRead
    <2> QED
        BY <1>4, <2>1 DEF StampRead, row, store, counter, history, Lag, KeptInv, ObjectsInv, RowObjects, JobObjects, Taken, Past
<1>5. ASSUME NEW r \in Requests, StampWrite(r) PROVE ObjectsInv'
    <2>1. Lag
        BY <1>5, LagSame DEF StampWrite
    <2> QED
        BY <1>5, <2>1 DEF StampWrite, store, history, Lag, KeptInv, ObjectsInv, RowObjects, JobObjects, Taken, Past
<1>6. ASSUME NEW r \in Requests, LoadPhoto(r) PROVE ObjectsInv'
    <2>1. Lag
        BY <1>6, LagSame DEF LoadPhoto
    <2> QED
        BY <1>6, <2>1 DEF LoadPhoto, row, store, history, Lag, KeptInv, ObjectsInv, RowObjects, JobObjects, Taken, Past
<1>7. ASSUME NEW r \in Requests, Requeue(r) PROVE ObjectsInv'
    <2>1. Lag
        BY <1>7, LagSame DEF Requeue
    <2> QED
        BY <1>7, <2>1 DEF Requeue, store, counter, Lag, KeptInv, ObjectsInv, RowObjects, JobObjects, Taken, Past
<1>8. ASSUME NEW r \in Requests, Enqueue(r) PROVE ObjectsInv'
    <2>1. Lag
        BY <1>8, LagEnqueue
    <2> QED
        BY <1>8, <2>1 DEF Enqueue, row, store, counter, history, Lag, KeptInv, ObjectsInv, RowObjects, JobObjects, Taken, Past
<1>9. ASSUME NEW r \in Requests, CrashRequest(r) PROVE ObjectsInv'
    <2>1. Lag
        BY <1>9, LagSame DEF CrashRequest
    <2> QED
        BY <1>9, <2>1 DEF CrashRequest, row, store, Lag, KeptInv, ObjectsInv, RowObjects, JobObjects, Taken, Past
<1>10. ASSUME NEW j \in Jobs, Skip(j) PROVE ObjectsInv'
    <2>1. Lag
        BY <1>10, LagStep
    <2> QED
        BY <1>10, <2>1 DEF Skip, row, store, request, counter, history, Lag, KeptInv, ObjectsInv, RowObjects, JobObjects, Taken, Past
<1>11. ASSUME NEW j \in Jobs, ReadPhoto(j) PROVE ObjectsInv'
    <2>1. \A i \in Jobs \ {j} : (Taken(i)' <=> Taken(i)) /\ (Past(i)' <=> Past(i))
        BY <1>11, ReadEffect DEF Taken, Past
    <2>2. ~ Past(j)'
        BY <1>11, ReadEffect DEF Past
    <2>3. /\ rawObjectKey' = rawObjectKey /\ rawObjectKey # None /\ objects' = objects
          /\ variants' = variants /\ wanted' = wanted
        BY <1>11 DEF ReadPhoto, row, store
    <2>4. ~ crossed' => ~ crossed
        BY <1>11 DEF ReadPhoto
    <2>5. ~ crossed' => RowObjects'
        BY <2>3, <2>4 DEF KeptInv, ObjectsInv, RowObjects
    <2>6. ~ crossed' => JobObjects(j)'
        BY <1>11, <2>2, <2>3, <2>4, ReadEffect DEF KeptInv, ObjectsInv, RowObjects, JobObjects
    <2>7. ASSUME ~ crossed', NEW i \in Jobs \ {j}, Taken(i)' PROVE JobObjects(i)'
        BY <1>11, <2>1, <2>3, <2>4, <2>7, ReadEffect DEF KeptInv, ObjectsInv, JobObjects
    <2> QED
        BY <2>5, <2>6, <2>7 DEF ObjectsInv
<1>12. ASSUME NEW j \in Jobs, MarkProcessing(j) PROVE ObjectsInv'
    <2>1. Lag
        BY <1>12, LagStep
    <2> QED
        BY <1>12, <2>1 DEF MarkProcessing, store, request, counter, history, Lag, KeptInv, ObjectsInv, RowObjects, JobObjects, Taken, Past
<1>13. ASSUME NEW j \in Jobs, Download(j) PROVE ObjectsInv'
    <2>1. \A i \in Jobs \ {j} : (Taken(i)' <=> Taken(i)) /\ (Past(i)' <=> Past(i))
        BY <1>13, DownloadEffect DEF Taken, Past
    <2>2. /\ rawObjectKey' = rawObjectKey /\ objects' = objects /\ variants' = variants
          /\ wanted' = wanted /\ crossed' = crossed
        BY <1>13 DEF Download, row, store, history
    <2>3. ~ crossed => JobObjects(j)'
        <3>1. ~ crossed => JobObjects(j)
            BY <1>13, DownloadEffect DEF KeptInv, ObjectsInv
        <3>2. (1 .. jobs'[j].stored) = {}
            BY <1>13, DownloadEffect
        <3> QED
            BY <1>13, <2>2, <3>1, <3>2, DownloadEffect DEF JobObjects
    <2>4. ASSUME ~ crossed, NEW i \in Jobs \ {j}, Taken(i)' PROVE JobObjects(i)'
        BY <1>13, <2>1, <2>2, <2>4, DownloadEffect DEF KeptInv, ObjectsInv, JobObjects
    <2>5. RowObjects' <=> RowObjects
        BY <2>2 DEF RowObjects
    <2> QED
        BY <2>2, <2>3, <2>4, <2>5 DEF KeptInv, ObjectsInv
<1>14. ASSUME NEW j \in Jobs, DownloadNothing(j) PROVE ObjectsInv'
    <2>1. Lag
        BY <1>14, LagStep
    <2> QED
        BY <1>14, <2>1 DEF DownloadNothing, row, store, request, counter, history, Lag, KeptInv, ObjectsInv, RowObjects, JobObjects, Taken, Past
<1>15. ASSUME NEW j \in Jobs, Store(j) PROVE ObjectsInv'
    <2>1. \A i \in Jobs \ {j} : (Taken(i)' <=> Taken(i)) /\ (Past(i)' <=> Past(i))
        BY <1>15, StoreEffect DEF Taken, Past
    <2>2. Past(j)
        BY <1>15, StoreEffect DEF Past
    <2>3. \A i \in Jobs : Taken(i) /\ Past(i) /\ ~ crossed => jobs[i].content = jobs[j].content
        BY <1>15, <2>2, StoreEffect DEF KeptInv, SharedInv
    <2>4. ASSUME ~ crossed, NEW i \in Jobs, Taken(i), Past(i), NEW v \in 1 .. jobs'[i].stored
          PROVE  variants'[v] = jobs'[i].content
        <3>1. v \in 1 .. NumVariants /\ jobs[i].content = jobs'[i].content
            BY <1>15, <2>4, StoreEffect, JobTypes
        <3>2. v # jobs[j].stored + 1 => v \in 1 .. jobs[i].stored
            BY <1>15, <2>4, StoreEffect, JobTypes
        <3>3. v # jobs[j].stored + 1 => variants[v] = jobs[i].content
            BY <2>4, <3>2 DEF KeptInv, ObjectsInv, JobObjects
        <3> QED
            BY <1>15, <2>3, <2>4, <3>1, <3>3, StoreEffect DEF TypeInv, TypeOK, StoreOK
    <2>5. objects' = objects /\ rawObjectKey' = rawObjectKey /\ wanted' = wanted /\ crossed' = crossed
        BY <1>15 DEF Store, row, history
    <2> QED
        BY <1>15, <2>1, <2>2, <2>4, <2>5, StoreEffect DEF KeptInv, ObjectsInv, RowObjects, JobObjects, Taken
<1>16. ASSUME NEW j \in Jobs, Publish(j) PROVE ObjectsInv'
    <2>1. Lag
        BY <1>16, LagStep
    <2> QED
        BY <1>16, <2>1 DEF Publish, store, request, counter, history, Lag, KeptInv, ObjectsInv, RowObjects, JobObjects, Taken, Past
<1>17. ASSUME NEW j \in Jobs, FreeRaw(j) PROVE ObjectsInv'
    <2>1. Lag
        BY <1>17, LagStep
    <2>2. \A k \in Keys : objects'[k] \in {0, objects[k]}
        BY <1>17 DEF FreeRaw, TypeInv, TypeOK, StoreOK
    <2>3. \A i \in Jobs : Taken(i) => jobs[i].raw \in Keys
        BY JobTypes
    <2> QED
        BY <1>17, <2>1, <2>2, <2>3 DEF FreeRaw, row, history, Lag, KeptInv, ObjectsInv, RowObjects, JobObjects, Taken, TypeInv, TypeOK, RowOK
<1>18. ASSUME NEW j \in Jobs, MarkFailed(j) PROVE ObjectsInv'
    <2>1. Lag
        BY <1>18, LagStep
    <2> QED
        BY <1>18, <2>1 DEF MarkFailed, store, request, counter, history, Lag, KeptInv, ObjectsInv, RowObjects, JobObjects, Taken, Past
<1>19. ASSUME NEW j \in Jobs, Throw(j) PROVE ObjectsInv'
    <2>1. Lag
        BY <1>19, LagStep
    <2> QED
        BY <1>19, <2>1 DEF Throw, row, store, request, history, Lag, KeptInv, ObjectsInv, RowObjects, JobObjects, Taken, Past
<1>20. ASSUME NEW j \in Jobs, ThrowUnmarked(j) PROVE ObjectsInv'
    <2>1. Lag
        BY <1>20, LagStep
    <2> QED
        BY <1>20, <2>1 DEF ThrowUnmarked, row, store, request, Lag, KeptInv, ObjectsInv, RowObjects, JobObjects, Taken, Past
<1>21. ASSUME NEW j \in Jobs, CrashWorker(j) PROVE ObjectsInv'
    <2>1. Lag
        BY <1>21, LagStep
    <2> QED
        BY <1>21, <2>1 DEF CrashWorker, row, store, request, Lag, KeptInv, ObjectsInv, RowObjects, JobObjects, Taken, Past
<1>22. ASSUME UNCHANGED vars PROVE ObjectsInv'
    <2>1. Lag
        BY <1>22, LagSame DEF vars
    <2> QED
        BY <1>22, <2>1 DEF vars, row, store, request, counter, history, Lag, KeptInv, ObjectsInv, RowObjects, JobObjects, Taken, Past
<1> QED
    BY <1>1, <1>2, <1>3, <1>4, <1>5, <1>6, <1>7, <1>8, <1>9, <1>10, <1>11, <1>12, <1>13, <1>14, <1>15, <1>16, <1>17, <1>18, <1>19, <1>20, <1>21, <1>22 DEF Next, RequestStep, JobStep

LEMMA SharedStep ==
    ASSUME TypeInv, KeptInv, [Next]_vars
    PROVE  SharedInv'
<1>1. ASSUME NEW e \in 1 .. MaxEdits, PushMetadata(e) PROVE SharedInv'
    <2>1. Lag
        BY <1>1, LagSame DEF PushMetadata
    <2> QED
        BY <1>1, <2>1 DEF PushMetadata, store, request, counter, Lag, KeptInv, SharedInv
<1>2. ASSUME NEW k \in Keys, Upload(k) PROVE SharedInv'
    <2>1. Lag
        BY <1>2, LagSame DEF Upload
    <2> QED
        BY <1>2, <2>1 DEF Upload, row, request, Lag, KeptInv, SharedInv
<1>3. ASSUME NEW r \in Requests, NEW k \in Keys, Commit(r, k) PROVE SharedInv'
    <2>1. Lag
        BY <1>3, LagSame DEF Commit
    <2> QED
        BY <1>3, <2>1 DEF Commit, UpsertPhoto, store, Lag, KeptInv, SharedInv
<1>4. ASSUME NEW r \in Requests, StampRead(r) PROVE SharedInv'
    <2>1. Lag
        BY <1>4, LagSame DEF StampRead
    <2> QED
        BY <1>4, <2>1 DEF StampRead, row, store, counter, history, Lag, KeptInv, SharedInv
<1>5. ASSUME NEW r \in Requests, StampWrite(r) PROVE SharedInv'
    <2>1. Lag
        BY <1>5, LagSame DEF StampWrite
    <2> QED
        BY <1>5, <2>1 DEF StampWrite, store, history, Lag, KeptInv, SharedInv
<1>6. ASSUME NEW r \in Requests, LoadPhoto(r) PROVE SharedInv'
    <2>1. Lag
        BY <1>6, LagSame DEF LoadPhoto
    <2> QED
        BY <1>6, <2>1 DEF LoadPhoto, row, store, history, Lag, KeptInv, SharedInv
<1>7. ASSUME NEW r \in Requests, Requeue(r) PROVE SharedInv'
    <2>1. Lag
        BY <1>7, LagSame DEF Requeue
    <2> QED
        BY <1>7, <2>1 DEF Requeue, store, counter, Lag, KeptInv, SharedInv
<1>8. ASSUME NEW r \in Requests, Enqueue(r) PROVE SharedInv'
    <2>1. Lag
        BY <1>8, LagEnqueue
    <2> QED
        BY <1>8, <2>1 DEF Enqueue, row, store, counter, history, Lag, KeptInv, SharedInv
<1>9. ASSUME NEW r \in Requests, CrashRequest(r) PROVE SharedInv'
    <2>1. Lag
        BY <1>9, LagSame DEF CrashRequest
    <2> QED
        BY <1>9, <2>1 DEF CrashRequest, row, store, Lag, KeptInv, SharedInv
<1>10. ASSUME NEW j \in Jobs, Skip(j) PROVE SharedInv'
    <2>1. Lag
        BY <1>10, LagStep
    <2> QED
        BY <1>10, <2>1 DEF Skip, row, store, request, counter, history, Lag, KeptInv, SharedInv
<1>11. ASSUME NEW j \in Jobs, ReadPhoto(j) PROVE SharedInv'
    <2>1. \A i \in Jobs \ {j} : (Taken(i)' <=> Taken(i)) /\ (Past(i)' <=> Past(i))
        BY <1>11, ReadEffect DEF Taken, Past
    <2>2. ~ Past(j)'
        BY <1>11, ReadEffect DEF Past
    <2>3. \A i \in Jobs : ~ crossed /\ Taken(i) => jobs[i].raw = rawObjectKey
        BY <1>11 DEF ReadPhoto, KeptInv, ObjectsInv, JobObjects
    <2>4. ~ crossed' => ~ crossed
        BY <1>11 DEF ReadPhoto
    <2> QED
        BY <1>11, ReadEffect, <2>1, <2>2, <2>3, <2>4 DEF KeptInv, SharedInv
<1>12. ASSUME NEW j \in Jobs, MarkProcessing(j) PROVE SharedInv'
    <2>1. Lag
        BY <1>12, LagStep
    <2> QED
        BY <1>12, <2>1 DEF MarkProcessing, store, request, counter, history, Lag, KeptInv, SharedInv
<1>13. ASSUME NEW j \in Jobs, Download(j) PROVE SharedInv'
    <2>1. \A i \in Jobs \ {j} : (Taken(i)' <=> Taken(i)) /\ (Past(i)' <=> Past(i))
        BY <1>13, DownloadEffect DEF Taken, Past
    <2>2. \A i \in Jobs : ~ crossed /\ Taken(i) =>
            /\ jobs[i].raw = jobs[j].raw
            /\ Past(i) => jobs[i].content = objects[jobs[j].raw]
        BY <1>13, DownloadEffect DEF KeptInv, ObjectsInv, JobObjects, SharedInv
    <2>3. crossed' = crossed
        BY <1>13 DEF Download, history
    <2> QED
        BY <1>13, DownloadEffect, <2>1, <2>2, <2>3 DEF SharedInv
<1>14. ASSUME NEW j \in Jobs, DownloadNothing(j) PROVE SharedInv'
    <2>1. Lag
        BY <1>14, LagStep
    <2> QED
        BY <1>14, <2>1 DEF DownloadNothing, row, store, request, counter, history, Lag, KeptInv, SharedInv
<1>15. ASSUME NEW j \in Jobs, Store(j) PROVE SharedInv'
    <2>1. \A i \in Jobs \ {j} : (Taken(i)' <=> Taken(i)) /\ (Past(i)' <=> Past(i))
        BY <1>15, StoreEffect DEF Taken, Past
    <2>2. Past(j)
        BY <1>15, StoreEffect DEF Past
    <2>3. crossed' = crossed
        BY <1>15 DEF Store, history
    <2> QED
        BY <1>15, StoreEffect, <2>1, <2>2, <2>3 DEF KeptInv, SharedInv
<1>16. ASSUME NEW j \in Jobs, Publish(j) PROVE SharedInv'
    <2>1. Lag
        BY <1>16, LagStep
    <2> QED
        BY <1>16, <2>1 DEF Publish, store, request, counter, history, Lag, KeptInv, SharedInv
<1>17. ASSUME NEW j \in Jobs, FreeRaw(j) PROVE SharedInv'
    <2>1. Lag
        BY <1>17, LagStep
    <2> QED
        BY <1>17, <2>1 DEF FreeRaw, row, request, history, Lag, KeptInv, SharedInv
<1>18. ASSUME NEW j \in Jobs, MarkFailed(j) PROVE SharedInv'
    <2>1. Lag
        BY <1>18, LagStep
    <2> QED
        BY <1>18, <2>1 DEF MarkFailed, store, request, counter, history, Lag, KeptInv, SharedInv
<1>19. ASSUME NEW j \in Jobs, Throw(j) PROVE SharedInv'
    <2>1. Lag
        BY <1>19, LagStep
    <2> QED
        BY <1>19, <2>1 DEF Throw, row, store, request, history, Lag, KeptInv, SharedInv
<1>20. ASSUME NEW j \in Jobs, ThrowUnmarked(j) PROVE SharedInv'
    <2>1. Lag
        BY <1>20, LagStep
    <2> QED
        BY <1>20, <2>1 DEF ThrowUnmarked, row, store, request, Lag, KeptInv, SharedInv
<1>21. ASSUME NEW j \in Jobs, CrashWorker(j) PROVE SharedInv'
    <2>1. Lag
        BY <1>21, LagStep
    <2> QED
        BY <1>21, <2>1 DEF CrashWorker, row, store, request, Lag, KeptInv, SharedInv
<1>22. ASSUME UNCHANGED vars PROVE SharedInv'
    <2>1. Lag
        BY <1>22, LagSame DEF vars
    <2> QED
        BY <1>22, <2>1 DEF vars, row, store, request, counter, history, Lag, KeptInv, SharedInv
<1> QED
    BY <1>1, <1>2, <1>3, <1>4, <1>5, <1>6, <1>7, <1>8, <1>9, <1>10, <1>11, <1>12, <1>13, <1>14, <1>15, <1>16, <1>17, <1>18, <1>19, <1>20, <1>21, <1>22 DEF Next, RequestStep, JobStep

(* A job that has stored everything leaves what was committed in every derivative. *)
LEMMA WholeDerived ==
    ASSUME TypeInv, KeptInv, NEW j \in Jobs, Whole(j), ~ crossed
    PROVE  /\ \A v \in 1 .. NumVariants : variants[v] = jobs[j].content
           /\ jobs[j].content >= wanted /\ Taken(j) /\ Past(j)
<1>1. Taken(j) /\ Past(j) /\ jobs[j].stored = NumVariants
    BY DEF Whole, Past, Taken, TypeInv, TypeOK, JobsOK, JobInv
<1> QED
    BY <1>1 DEF KeptInv, ObjectsInv, JobObjects

LEMMA KeptStep ==
    ASSUME TypeInv, KeptInv, [Next]_vars
    PROVE  KeptOrProcessed'
<1>1. ASSUME NEW e \in 1 .. MaxEdits, PushMetadata(e) PROVE KeptOrProcessed'
    BY <1>1 DEF PushMetadata, store, request, counter, KeptInv, KeptOrProcessed
<1>2. ASSUME NEW k \in Keys, Upload(k) PROVE KeptOrProcessed'
    <2>1. uploads + 1 >= wanted /\ objects'[k] = uploads + 1 /\ wanted' = wanted
        BY <1>2 DEF Upload, TypeInv, TypeOK, StoreOK, CountersOK, HistoryOK, KeptInv, CountInv
    <2>2. \A l \in Keys \ {k} : objects'[l] = objects[l]
        BY <1>2 DEF Upload, TypeInv, TypeOK, StoreOK
    <2>3. rawObjectKey' = rawObjectKey /\ variants' = variants /\ (~ crossed' => ~ crossed)
        BY <1>2 DEF Upload, row
    <2> QED
        BY <2>1, <2>2, <2>3 DEF KeptInv, KeptOrProcessed, TypeInv, TypeOK, RowOK
<1>3. ASSUME NEW r \in Requests, NEW k \in Keys, Commit(r, k) PROVE KeptOrProcessed'
    <2>1. objects' = objects /\ objects[k] \in Nat /\ rawObjectKey' = k /\ k # None /\ variants' = variants
        BY <1>3 DEF Commit, UpsertPhoto, store, TypeInv, TypeOK, StoreOK
    <2>2. CASE objects[k] # 0
        BY <1>3, <2>1, <2>2 DEF Commit, KeptOrProcessed
    <2>3. CASE objects[k] = 0
        BY <1>3, <2>1, <2>3 DEF Commit, KeptInv, KeptOrProcessed
    <2> QED
        BY <2>2, <2>3
<1>4. ASSUME NEW r \in Requests, StampRead(r) PROVE KeptOrProcessed'
    BY <1>4 DEF StampRead, Goto, row, store, counter, history, KeptInv, KeptOrProcessed
<1>5. ASSUME NEW r \in Requests, StampWrite(r) PROVE KeptOrProcessed'
    BY <1>5 DEF StampWrite, Goto, store, history, KeptInv, KeptOrProcessed
<1>6. ASSUME NEW r \in Requests, LoadPhoto(r) PROVE KeptOrProcessed'
    BY <1>6 DEF LoadPhoto, Goto, row, store, history, KeptInv, KeptOrProcessed
<1>7. ASSUME NEW r \in Requests, Requeue(r) PROVE KeptOrProcessed'
    BY <1>7 DEF Requeue, Goto, store, counter, KeptInv, KeptOrProcessed
<1>8. ASSUME NEW r \in Requests, Enqueue(r) PROVE KeptOrProcessed'
    BY <1>8 DEF Enqueue, Goto, NoJob, NoMark, NoSeal, row, store, counter, history, KeptInv, KeptOrProcessed
<1>9. ASSUME NEW r \in Requests, CrashRequest(r) PROVE KeptOrProcessed'
    BY <1>9 DEF CrashRequest, Mishap, Goto, row, store, KeptInv, KeptOrProcessed
<1>10. ASSUME NEW j \in Jobs, Skip(j) PROVE KeptOrProcessed'
    BY <1>10 DEF Skip, NoJob, NoMark, NoSeal, row, store, request, counter, history, KeptInv, KeptOrProcessed
<1>11. ASSUME NEW j \in Jobs, ReadPhoto(j) PROVE KeptOrProcessed'
    BY <1>11 DEF ReadPhoto, row, store, request, counter, KeptInv, KeptOrProcessed
<1>12. ASSUME NEW j \in Jobs, MarkProcessing(j) PROVE KeptOrProcessed'
    BY <1>12 DEF MarkProcessing, JobGoto, store, request, counter, history, KeptInv, KeptOrProcessed
<1>13. ASSUME NEW j \in Jobs, Download(j) PROVE KeptOrProcessed'
    BY <1>13 DEF Download, row, store, request, counter, history, KeptInv, KeptOrProcessed
<1>14. ASSUME NEW j \in Jobs, DownloadNothing(j) PROVE KeptOrProcessed'
    BY <1>14 DEF DownloadNothing, JobGoto, row, store, request, counter, history, KeptInv, KeptOrProcessed
<1>15. ASSUME NEW j \in Jobs, Store(j) PROVE KeptOrProcessed'
    <2>1. ~ crossed => jobs[j].content >= wanted
        BY <1>15, StoreEffect DEF Past, KeptInv, ObjectsInv, JobObjects
    <2>2. objects' = objects /\ rawObjectKey' = rawObjectKey /\ wanted' = wanted /\ crossed' = crossed
        BY <1>15 DEF Store, row, history
    <2>3. \A v \in 1 .. NumVariants : variants'[v] \in {variants[v], jobs[j].content}
        BY <1>15, StoreEffect DEF TypeInv, TypeOK, StoreOK
    <2> QED
        BY <2>1, <2>2, <2>3 DEF KeptInv, KeptOrProcessed
<1>16. ASSUME NEW j \in Jobs, Publish(j) PROVE KeptOrProcessed'
    <2>1. Whole(j)
        BY <1>16 DEF Publish, Whole
    <2> QED
        BY <1>16, <2>1, WholeDerived DEF Publish, store, history, KeptOrProcessed
<1>17. ASSUME NEW j \in Jobs, FreeRaw(j) PROVE KeptOrProcessed'
    <2>1. Whole(j)
        BY <1>17 DEF FreeRaw, Whole
    <2> QED
        BY <1>17, <2>1, WholeDerived DEF FreeRaw, row, history, KeptOrProcessed
<1>18. ASSUME NEW j \in Jobs, MarkFailed(j) PROVE KeptOrProcessed'
    BY <1>18 DEF MarkFailed, EndAttempt, LastAttempt, NoJob, NoMark, NoSeal, store, request, counter, history, KeptInv, KeptOrProcessed
<1>19. ASSUME NEW j \in Jobs, Throw(j) PROVE KeptOrProcessed'
    BY <1>19 DEF Throw, Mishap, JobGoto, row, store, request, history, KeptInv, KeptOrProcessed
<1>20. ASSUME NEW j \in Jobs, ThrowUnmarked(j) PROVE KeptOrProcessed'
    BY <1>20 DEF ThrowUnmarked, Mishap, EndAttempt, LastAttempt, NoJob, NoMark, NoSeal, row, store, request, KeptInv, KeptOrProcessed
<1>21. ASSUME NEW j \in Jobs, CrashWorker(j) PROVE KeptOrProcessed'
    BY <1>21 DEF CrashWorker, Mishap, NoJob, NoMark, NoSeal, row, store, request, KeptInv, KeptOrProcessed
<1>22. ASSUME UNCHANGED vars PROVE KeptOrProcessed'
    BY <1>22 DEF vars, row, store, request, counter, history, KeptInv, KeptOrProcessed
<1> QED
    BY <1>1, <1>2, <1>3, <1>4, <1>5, <1>6, <1>7, <1>8, <1>9, <1>10, <1>11, <1>12, <1>13, <1>14, <1>15, <1>16, <1>17, <1>18, <1>19, <1>20, <1>21, <1>22 DEF Next, RequestStep, JobStep

LEMMA KeptInvStep == ASSUME TypeInv, KeptInv, [Next]_vars PROVE KeptInv'
    BY CountStep, ObjectsStep, SharedStep, KeptStep DEF KeptInv

LEMMA DoneStep ==
    ASSUME TypeInv, KeptInv, DoneInv, [Next]_vars
    PROVE  DoneInv'
<1>1. ASSUME NEW e \in 1 .. MaxEdits, PushMetadata(e) PROVE DoneInv'
    <2>1. Lag
        BY <1>1, LagSame DEF PushMetadata
    <2> QED
        BY <1>1, <2>1 DEF PushMetadata, store, request, counter, Lag, DoneInv, Settled, DoneJob
<1>2. ASSUME NEW k \in Keys, Upload(k) PROVE DoneInv'
    <2>1. \A l \in Keys \ {k} : objects'[l] = objects[l]
        BY <1>2 DEF Upload, TypeInv, TypeOK, StoreOK
    <2>2. ~ crossed' => ~ crossed /\ \A j \in Jobs : jobs[j].raw # k
        BY <1>2 DEF Upload
    <2>3. \A j \in Jobs : (Taken(j)' <=> Taken(j)) /\ (Past(j)' <=> Past(j)) /\ (Taken(j) => jobs[j].raw \in Keys)
        BY <1>2, JobTypes DEF Upload, Taken, Past
    <2> QED
        BY <1>2, <2>1, <2>2, <2>3 DEF Upload, row, DoneInv, Settled, DoneJob
<1>3. ASSUME NEW r \in Requests, NEW k \in Keys, Commit(r, k) PROVE DoneInv'
    <2>1. Lag
        BY <1>3, LagSame DEF Commit
    <2> QED
        BY <1>3, <2>1 DEF Commit, UpsertPhoto, store, Lag, DoneInv, Settled, DoneJob
<1>4. ASSUME NEW r \in Requests, StampRead(r) PROVE DoneInv'
    <2>1. Lag
        BY <1>4, LagSame DEF StampRead
    <2> QED
        BY <1>4, <2>1 DEF StampRead, row, store, counter, history, Lag, DoneInv, Settled, DoneJob
<1>5. ASSUME NEW r \in Requests, StampWrite(r) PROVE DoneInv'
    <2>1. Lag
        BY <1>5, LagSame DEF StampWrite
    <2> QED
        BY <1>5, <2>1 DEF StampWrite, store, history, Lag, DoneInv, Settled, DoneJob
<1>6. ASSUME NEW r \in Requests, LoadPhoto(r) PROVE DoneInv'
    <2>1. Lag
        BY <1>6, LagSame DEF LoadPhoto
    <2> QED
        BY <1>6, <2>1 DEF LoadPhoto, row, store, history, Lag, DoneInv, Settled, DoneJob
<1>7. ASSUME NEW r \in Requests, Requeue(r) PROVE DoneInv'
    <2>1. Lag
        BY <1>7, LagSame DEF Requeue
    <2> QED
        BY <1>7, <2>1 DEF Requeue, store, counter, Lag, DoneInv, Settled, DoneJob
<1>8. ASSUME NEW r \in Requests, Enqueue(r) PROVE DoneInv'
    <2>1. Lag
        BY <1>8, LagEnqueue
    <2> QED
        BY <1>8, <2>1 DEF Enqueue, row, store, counter, history, Lag, DoneInv, Settled, DoneJob
<1>9. ASSUME NEW r \in Requests, CrashRequest(r) PROVE DoneInv'
    <2>1. Lag
        BY <1>9, LagSame DEF CrashRequest
    <2> QED
        BY <1>9, <2>1 DEF CrashRequest, row, store, Lag, DoneInv, Settled, DoneJob
<1>10. ASSUME NEW j \in Jobs, Skip(j) PROVE DoneInv'
    <2>1. Lag
        BY <1>10, LagStep
    <2> QED
        BY <1>10, <2>1 DEF Skip, row, store, request, counter, history, Lag, DoneInv, Settled, DoneJob
<1>11. ASSUME NEW j \in Jobs, ReadPhoto(j) PROVE DoneInv'
    BY <1>11 DEF ReadPhoto, row, store, request, counter, DoneInv, Settled, DoneJob
<1>12. ASSUME NEW j \in Jobs, MarkProcessing(j) PROVE DoneInv'
    <2>1. Lag
        BY <1>12, LagStep
    <2> QED
        BY <1>12, <2>1 DEF MarkProcessing, store, request, counter, history, Lag, DoneInv, Settled, DoneJob
<1>13. ASSUME NEW j \in Jobs, Download(j) PROVE DoneInv'
    <2>1. \A i \in Jobs \ {j} : (Taken(i)' <=> Taken(i)) /\ (Past(i)' <=> Past(i))
        BY <1>13, DownloadEffect DEF Taken, Past
    <2>2. processingStatus' = processingStatus /\ rawObjectKey' = rawObjectKey /\ objects' = objects
          /\ variants' = variants /\ wanted' = wanted /\ crossed' = crossed
        BY <1>13 DEF Download, row, store, history
    <2>3. Settled => DoneJob(j)'
        BY <1>13, <2>2, DownloadEffect DEF Settled, DoneJob
    <2>4. ASSUME Settled, NEW i \in Jobs \ {j}, Taken(i)' PROVE DoneJob(i)'
        BY <1>13, <2>1, <2>2, <2>4, DownloadEffect DEF Settled, DoneJob
    <2> QED
        BY <2>2, <2>3, <2>4 DEF DoneInv, Settled
<1>14. ASSUME NEW j \in Jobs, DownloadNothing(j) PROVE DoneInv'
    <2>1. Lag
        BY <1>14, LagStep
    <2> QED
        BY <1>14, <2>1 DEF DownloadNothing, row, store, request, counter, history, Lag, DoneInv, Settled, DoneJob
<1>15. ASSUME NEW j \in Jobs, Store(j) PROVE DoneInv'
    <2>1. \A i \in Jobs \ {j} : (Taken(i)' <=> Taken(i)) /\ (Past(i)' <=> Past(i))
        BY <1>15, StoreEffect DEF Taken, Past
    <2>2. /\ processingStatus' = processingStatus /\ rawObjectKey' = rawObjectKey
          /\ objects' = objects /\ wanted' = wanted /\ crossed' = crossed
        BY <1>15 DEF Store, row, history
    <2>3. Past(j) /\ Taken(j)
        BY <1>15, StoreEffect DEF Past
    <2>4. Settled => variants' = variants
        BY <1>15, <2>3, StoreEffect DEF Settled, DoneJob, TypeInv, TypeOK, StoreOK
    <2>5. Settled => DoneJob(j)'
        BY <1>15, <2>2, <2>3, <2>4, StoreEffect DEF Settled, DoneJob
    <2>6. ASSUME Settled, NEW i \in Jobs \ {j}, Taken(i)' PROVE DoneJob(i)'
        BY <1>15, <2>1, <2>2, <2>4, <2>6, StoreEffect DEF Settled, DoneJob
    <2> QED
        BY <2>2, <2>4, <2>5, <2>6 DEF DoneInv, Settled
<1>16. ASSUME NEW j \in Jobs, Publish(j) PROVE DoneInv'
    <2>1. Lag /\ Whole(j)
        BY <1>16, LagStep DEF Publish, Whole
    <2>2. rawObjectKey' = None /\ objects' = objects /\ variants' = variants /\ wanted' = wanted /\ crossed' = crossed
        BY <1>16 DEF Publish, store, history
    <2>3. SUFFICES ASSUME ~ crossed PROVE Settled'
        BY <2>2 DEF DoneInv
    <2>4. 1 \in 1 .. NumVariants
        OBVIOUS
    <2>5. \A v \in 1 .. NumVariants : variants[v] = jobs[j].content /\ variants[v] >= wanted
        BY <2>1, <2>3, WholeDerived
    <2>6. JobObjects(j) /\ Taken(j) /\ Past(j)
        BY <2>1, <2>3, WholeDerived DEF KeptInv, ObjectsInv
    <2>7. ASSUME NEW i \in Jobs, Taken(i)' PROVE DoneJob(i)'
        BY <2>1, <2>2, <2>3, <2>4, <2>5, <2>6, <2>7 DEF Lag, KeptInv, SharedInv, JobObjects, DoneJob
    <2> QED
        BY <2>2, <2>4, <2>5, <2>7 DEF Settled
<1>17. ASSUME NEW j \in Jobs, FreeRaw(j) PROVE DoneInv'
    <2>1. Lag
        BY <1>17, LagStep
    <2>2. \A k \in Keys : objects'[k] \in {0, objects[k]}
        BY <1>17 DEF FreeRaw, TypeInv, TypeOK, StoreOK
    <2>3. /\ processingStatus' = processingStatus /\ rawObjectKey' = rawObjectKey
          /\ variants' = variants /\ wanted' = wanted /\ crossed' = crossed
        BY <1>17 DEF FreeRaw, row, history
    <2>4. ASSUME Settled, NEW i \in Jobs, Taken(i)' PROVE DoneJob(i)'
        BY <2>1, <2>2, <2>3, <2>4, JobTypes DEF Lag, Settled, DoneJob
    <2> QED
        BY <2>3, <2>4 DEF DoneInv, Settled
<1>18. ASSUME NEW j \in Jobs, MarkFailed(j) PROVE DoneInv'
    <2>1. Lag
        BY <1>18, LagStep
    <2> QED
        BY <1>18, <2>1 DEF MarkFailed, store, request, counter, history, Lag, DoneInv, Settled, DoneJob
<1>19. ASSUME NEW j \in Jobs, Throw(j) PROVE DoneInv'
    <2>1. Lag
        BY <1>19, LagStep
    <2> QED
        BY <1>19, <2>1 DEF Throw, row, store, request, history, Lag, DoneInv, Settled, DoneJob
<1>20. ASSUME NEW j \in Jobs, ThrowUnmarked(j) PROVE DoneInv'
    <2>1. Lag
        BY <1>20, LagStep
    <2> QED
        BY <1>20, <2>1 DEF ThrowUnmarked, row, store, request, Lag, DoneInv, Settled, DoneJob
<1>21. ASSUME NEW j \in Jobs, CrashWorker(j) PROVE DoneInv'
    <2>1. Lag
        BY <1>21, LagStep
    <2> QED
        BY <1>21, <2>1 DEF CrashWorker, row, store, request, Lag, DoneInv, Settled, DoneJob
<1>22. ASSUME UNCHANGED vars PROVE DoneInv'
    <2>1. Lag
        BY <1>22, LagSame DEF vars
    <2> QED
        BY <1>22, <2>1 DEF vars, row, store, request, counter, history, Lag, DoneInv, Settled, DoneJob
<1> QED
    BY <1>1, <1>2, <1>3, <1>4, <1>5, <1>6, <1>7, <1>8, <1>9, <1>10, <1>11, <1>12, <1>13, <1>14, <1>15, <1>16, <1>17, <1>18, <1>19, <1>20, <1>21, <1>22 DEF Next, RequestStep, JobStep

LEMMA EvidenceStep ==
    ASSUME TypeInv, EvidenceInv, [Next]_vars
    PROVE  EvidenceInv'
<1>1. ASSUME NEW e \in 1 .. MaxEdits, PushMetadata(e) PROVE EvidenceInv'
    <2>1. e \in Nat /\ evidence \in Nat /\ updatedAt \in Nat /\ seal.of \in Nat /\ \A r \in Requests : sealing[r] \in Nat
        BY DEF TypeInv, TypeOK, RowOK, RequestsOK, Seal
    <2>2. CASE processingStatus = "absent" \/ updatedAt < e
        <3>1. evidence <= e
            BY <2>1, <2>2 DEF EvidenceInv
        <3>2. evidence' = e /\ updatedAt' = e /\ processingStatus' # "absent" /\ seal' = seal /\ sealing' = sealing
            BY <1>1, <2>2 DEF PushMetadata, request
        <3> QED
            BY <2>1, <3>1, <3>2 DEF EvidenceInv
    <2>3. CASE ~ (processingStatus = "absent" \/ updatedAt < e)
        BY <1>1, <2>3 DEF PushMetadata, request, EvidenceInv
    <2> QED
        BY <2>2, <2>3
<1>2. ASSUME NEW k \in Keys, Upload(k) PROVE EvidenceInv'
    BY <1>2 DEF Upload, row, request, TypeInv, TypeOK, RowOK, RequestsOK, EvidenceInv
<1>3. ASSUME NEW r \in Requests, NEW k \in Keys, Commit(r, k) PROVE EvidenceInv'
    <2>1. evidence <= updatedAt' /\ processingStatus' # "absent"
        BY <1>3 DEF Commit, UpsertPhoto, TypeInv, TypeOK, RowOK, CountersOK, EvidenceInv
    <2> QED
        BY <1>3, <2>1 DEF Commit, UpsertPhoto, EvidenceInv
<1>4. ASSUME NEW r \in Requests, StampRead(r) PROVE EvidenceInv'
    BY <1>4 DEF StampRead, Goto, row, store, counter, history, TypeInv, TypeOK, RowOK, RequestsOK, EvidenceInv
<1>5. ASSUME NEW r \in Requests, StampWrite(r) PROVE EvidenceInv'
    BY <1>5 DEF StampWrite, Goto, store, history, TypeInv, TypeOK, RowOK, RequestsOK, EvidenceInv
<1>6. ASSUME NEW r \in Requests, LoadPhoto(r) PROVE EvidenceInv'
    BY <1>6 DEF LoadPhoto, Goto, row, store, history, TypeInv, TypeOK, RowOK, RequestsOK, EvidenceInv
<1>7. ASSUME NEW r \in Requests, Requeue(r) PROVE EvidenceInv'
    BY <1>7 DEF Requeue, Goto, store, counter, TypeInv, TypeOK, RowOK, RequestsOK, EvidenceInv
<1>8. ASSUME NEW r \in Requests, Enqueue(r) PROVE EvidenceInv'
    BY <1>8 DEF Enqueue, Goto, NoJob, NoMark, NoSeal, row, store, counter, history, TypeInv, TypeOK, RowOK, RequestsOK, EvidenceInv
<1>9. ASSUME NEW r \in Requests, CrashRequest(r) PROVE EvidenceInv'
    BY <1>9 DEF CrashRequest, Mishap, Goto, row, store, TypeInv, TypeOK, RowOK, RequestsOK, EvidenceInv
<1>10. ASSUME NEW j \in Jobs, Skip(j) PROVE EvidenceInv'
    BY <1>10 DEF Skip, NoJob, NoMark, NoSeal, row, store, request, counter, history, TypeInv, TypeOK, RowOK, RequestsOK, EvidenceInv
<1>11. ASSUME NEW j \in Jobs, ReadPhoto(j) PROVE EvidenceInv'
    BY <1>11 DEF ReadPhoto, row, store, request, counter, TypeInv, TypeOK, RowOK, RequestsOK, EvidenceInv
<1>12. ASSUME NEW j \in Jobs, MarkProcessing(j) PROVE EvidenceInv'
    BY <1>12 DEF MarkProcessing, JobGoto, store, request, counter, history, TypeInv, TypeOK, RowOK, RequestsOK, EvidenceInv
<1>13. ASSUME NEW j \in Jobs, Download(j) PROVE EvidenceInv'
    BY <1>13 DEF Download, row, store, request, counter, history, TypeInv, TypeOK, RowOK, RequestsOK, EvidenceInv
<1>14. ASSUME NEW j \in Jobs, DownloadNothing(j) PROVE EvidenceInv'
    BY <1>14 DEF DownloadNothing, JobGoto, row, store, request, counter, history, TypeInv, TypeOK, RowOK, RequestsOK, EvidenceInv
<1>15. ASSUME NEW j \in Jobs, Store(j) PROVE EvidenceInv'
    BY <1>15 DEF Store, AllStored, row, request, counter, history, TypeInv, TypeOK, RowOK, RequestsOK, EvidenceInv
<1>16. ASSUME NEW j \in Jobs, Publish(j) PROVE EvidenceInv'
    BY <1>16 DEF Publish, JobGoto, store, request, counter, history, TypeInv, TypeOK, RowOK, RequestsOK, EvidenceInv
<1>17. ASSUME NEW j \in Jobs, FreeRaw(j) PROVE EvidenceInv'
    BY <1>17 DEF FreeRaw, Mishap, NoJob, NoMark, NoSeal, row, request, history, TypeInv, TypeOK, RowOK, RequestsOK, EvidenceInv
<1>18. ASSUME NEW j \in Jobs, MarkFailed(j) PROVE EvidenceInv'
    BY <1>18 DEF MarkFailed, EndAttempt, LastAttempt, NoJob, NoMark, NoSeal, store, request, counter, history, TypeInv, TypeOK, RowOK, RequestsOK, EvidenceInv
<1>19. ASSUME NEW j \in Jobs, Throw(j) PROVE EvidenceInv'
    BY <1>19 DEF Throw, Mishap, JobGoto, row, store, request, history, TypeInv, TypeOK, RowOK, RequestsOK, EvidenceInv
<1>20. ASSUME NEW j \in Jobs, ThrowUnmarked(j) PROVE EvidenceInv'
    BY <1>20 DEF ThrowUnmarked, Mishap, EndAttempt, LastAttempt, NoJob, NoMark, NoSeal, row, store, request, TypeInv, TypeOK, RowOK, RequestsOK, EvidenceInv
<1>21. ASSUME NEW j \in Jobs, CrashWorker(j) PROVE EvidenceInv'
    BY <1>21 DEF CrashWorker, Mishap, NoJob, NoMark, NoSeal, row, store, request, TypeInv, TypeOK, RowOK, RequestsOK, EvidenceInv
<1>22. ASSUME UNCHANGED vars PROVE EvidenceInv'
    BY <1>22 DEF vars, row, store, request, counter, history, TypeInv, TypeOK, RowOK, RequestsOK, EvidenceInv
<1> QED
    BY <1>1, <1>2, <1>3, <1>4, <1>5, <1>6, <1>7, <1>8, <1>9, <1>10, <1>11, <1>12, <1>13, <1>14, <1>15, <1>16, <1>17, <1>18, <1>19, <1>20, <1>21, <1>22 DEF Next, RequestStep, JobStep

LEMMA MetadataStep ==
    ASSUME TypeInv, EvidenceInv, MetadataInv, [Next]_vars
    PROVE  MetadataInv'
<1>1. ASSUME NEW e \in 1 .. MaxEdits, PushMetadata(e) PROVE MetadataInv'
    BY <1>1 DEF PushMetadata, store, request, counter, TypeInv, TypeOK, RowOK, RequestsOK, HistoryOK, EvidenceInv, MetadataInv
<1>2. ASSUME NEW k \in Keys, Upload(k) PROVE MetadataInv'
    BY <1>2 DEF Upload, row, request, TypeInv, TypeOK, RowOK, RequestsOK, HistoryOK, EvidenceInv, MetadataInv
<1>3. ASSUME NEW r \in Requests, NEW k \in Keys, Commit(r, k) PROVE MetadataInv'
    BY <1>3 DEF Commit, Goto, UpsertPhoto, store, TypeInv, TypeOK, RowOK, RequestsOK, HistoryOK, EvidenceInv, MetadataInv
<1>4. ASSUME NEW r \in Requests, StampRead(r) PROVE MetadataInv'
    BY <1>4 DEF StampRead, Goto, row, store, counter, history, TypeInv, TypeOK, RowOK, RequestsOK, HistoryOK, EvidenceInv, MetadataInv
<1>5. ASSUME NEW r \in Requests, StampWrite(r) PROVE MetadataInv'
    BY <1>5 DEF StampWrite, Goto, store, history, TypeInv, TypeOK, RowOK, RequestsOK, HistoryOK, EvidenceInv, MetadataInv
<1>6. ASSUME NEW r \in Requests, LoadPhoto(r) PROVE MetadataInv'
    BY <1>6 DEF LoadPhoto, Goto, row, store, history, TypeInv, TypeOK, RowOK, RequestsOK, HistoryOK, EvidenceInv, MetadataInv
<1>7. ASSUME NEW r \in Requests, Requeue(r) PROVE MetadataInv'
    BY <1>7 DEF Requeue, Goto, store, counter, TypeInv, TypeOK, RowOK, RequestsOK, HistoryOK, EvidenceInv, MetadataInv
<1>8. ASSUME NEW r \in Requests, Enqueue(r) PROVE MetadataInv'
    BY <1>8 DEF Enqueue, Goto, NoJob, NoMark, NoSeal, row, store, counter, history, TypeInv, TypeOK, RowOK, RequestsOK, HistoryOK, EvidenceInv, MetadataInv
<1>9. ASSUME NEW r \in Requests, CrashRequest(r) PROVE MetadataInv'
    BY <1>9 DEF CrashRequest, Mishap, Goto, row, store, TypeInv, TypeOK, RowOK, RequestsOK, HistoryOK, EvidenceInv, MetadataInv
<1>10. ASSUME NEW j \in Jobs, Skip(j) PROVE MetadataInv'
    BY <1>10 DEF Skip, NoJob, NoMark, NoSeal, row, store, request, counter, history, TypeInv, TypeOK, RowOK, RequestsOK, HistoryOK, EvidenceInv, MetadataInv
<1>11. ASSUME NEW j \in Jobs, ReadPhoto(j) PROVE MetadataInv'
    BY <1>11 DEF ReadPhoto, row, store, request, counter, TypeInv, TypeOK, RowOK, RequestsOK, HistoryOK, EvidenceInv, MetadataInv
<1>12. ASSUME NEW j \in Jobs, MarkProcessing(j) PROVE MetadataInv'
    BY <1>12 DEF MarkProcessing, JobGoto, store, request, counter, history, TypeInv, TypeOK, RowOK, RequestsOK, HistoryOK, EvidenceInv, MetadataInv
<1>13. ASSUME NEW j \in Jobs, Download(j) PROVE MetadataInv'
    BY <1>13 DEF Download, row, store, request, counter, history, TypeInv, TypeOK, RowOK, RequestsOK, HistoryOK, EvidenceInv, MetadataInv
<1>14. ASSUME NEW j \in Jobs, DownloadNothing(j) PROVE MetadataInv'
    BY <1>14 DEF DownloadNothing, JobGoto, row, store, request, counter, history, TypeInv, TypeOK, RowOK, RequestsOK, HistoryOK, EvidenceInv, MetadataInv
<1>15. ASSUME NEW j \in Jobs, Store(j) PROVE MetadataInv'
    BY <1>15 DEF Store, AllStored, row, request, counter, history, TypeInv, TypeOK, RowOK, RequestsOK, HistoryOK, EvidenceInv, MetadataInv
<1>16. ASSUME NEW j \in Jobs, Publish(j) PROVE MetadataInv'
    BY <1>16 DEF Publish, JobGoto, store, request, counter, history, TypeInv, TypeOK, RowOK, RequestsOK, HistoryOK, EvidenceInv, MetadataInv
<1>17. ASSUME NEW j \in Jobs, FreeRaw(j) PROVE MetadataInv'
    BY <1>17 DEF FreeRaw, Mishap, NoJob, NoMark, NoSeal, row, request, history, TypeInv, TypeOK, RowOK, RequestsOK, HistoryOK, EvidenceInv, MetadataInv
<1>18. ASSUME NEW j \in Jobs, MarkFailed(j) PROVE MetadataInv'
    BY <1>18 DEF MarkFailed, EndAttempt, LastAttempt, NoJob, NoMark, NoSeal, store, request, counter, history, TypeInv, TypeOK, RowOK, RequestsOK, HistoryOK, EvidenceInv, MetadataInv
<1>19. ASSUME NEW j \in Jobs, Throw(j) PROVE MetadataInv'
    BY <1>19 DEF Throw, Mishap, JobGoto, row, store, request, history, TypeInv, TypeOK, RowOK, RequestsOK, HistoryOK, EvidenceInv, MetadataInv
<1>20. ASSUME NEW j \in Jobs, ThrowUnmarked(j) PROVE MetadataInv'
    BY <1>20 DEF ThrowUnmarked, Mishap, EndAttempt, LastAttempt, NoJob, NoMark, NoSeal, row, store, request, TypeInv, TypeOK, RowOK, RequestsOK, HistoryOK, EvidenceInv, MetadataInv
<1>21. ASSUME NEW j \in Jobs, CrashWorker(j) PROVE MetadataInv'
    BY <1>21 DEF CrashWorker, Mishap, NoJob, NoMark, NoSeal, row, store, request, TypeInv, TypeOK, RowOK, RequestsOK, HistoryOK, EvidenceInv, MetadataInv
<1>22. ASSUME UNCHANGED vars PROVE MetadataInv'
    BY <1>22 DEF vars, row, store, request, counter, history, TypeInv, TypeOK, RowOK, RequestsOK, HistoryOK, EvidenceInv, MetadataInv
<1> QED
    BY <1>1, <1>2, <1>3, <1>4, <1>5, <1>6, <1>7, <1>8, <1>9, <1>10, <1>11, <1>12, <1>13, <1>14, <1>15, <1>16, <1>17, <1>18, <1>19, <1>20, <1>21, <1>22 DEF Next, RequestStep, JobStep

(* What most steps leave alone: no job gets ahead, nothing is drawn or shown anew. *)
Still ==
    /\ Lag
    /\ variants' = variants /\ baked' = baked
    /\ seal' = seal /\ evidence' = evidence /\ restamped' = restamped
    /\ processingStatus' = "done" => processingStatus = "done" /\ rawObjectKey' = rawObjectKey

LEMMA Quiet ==
    ASSUME TypeInv,
           \/ \E k \in Keys : Upload(k)
           \/ \E r \in Requests :
                \/ StampRead(r) \/ LoadPhoto(r) \/ Requeue(r) \/ Enqueue(r) \/ CrashRequest(r)
                \/ \E k \in Keys : Commit(r, k)
           \/ \E j \in Jobs :
                \/ Skip(j) \/ MarkProcessing(j) \/ DownloadNothing(j) \/ FreeRaw(j)
                \/ MarkFailed(j) \/ Throw(j) \/ ThrowUnmarked(j) \/ CrashWorker(j)
           \/ UNCHANGED vars
    PROVE  Still
<1>1. ASSUME NEW k \in Keys, Upload(k) PROVE Still
    <2>1. Lag
        BY <1>1, LagSame DEF Upload
    <2> QED
        BY <1>1, <2>1 DEF Upload, row, Still
<1>2. ASSUME NEW r \in Requests, NEW k \in Keys, Commit(r, k) PROVE Still
    <2>1. Lag
        BY <1>2, LagSame DEF Commit
    <2> QED
        BY <1>2, <2>1 DEF Commit, UpsertPhoto, store, Still
<1>3. ASSUME NEW r \in Requests, StampRead(r) PROVE Still
    <2>1. Lag
        BY <1>3, LagSame DEF StampRead
    <2> QED
        BY <1>3, <2>1 DEF StampRead, row, store, history, Still
<1>4. ASSUME NEW r \in Requests, LoadPhoto(r) PROVE Still
    <2>1. Lag
        BY <1>4, LagSame DEF LoadPhoto
    <2> QED
        BY <1>4, <2>1 DEF LoadPhoto, row, store, history, Still
<1>5. ASSUME NEW r \in Requests, Requeue(r) PROVE Still
    <2>1. Lag
        BY <1>5, LagSame DEF Requeue
    <2> QED
        BY <1>5, <2>1 DEF Requeue, store, Still
<1>6. ASSUME NEW r \in Requests, Enqueue(r) PROVE Still
    <2>1. Lag
        BY <1>6, LagEnqueue
    <2> QED
        BY <1>6, <2>1 DEF Enqueue, row, store, history, Still
<1>7. ASSUME NEW r \in Requests, CrashRequest(r) PROVE Still
    <2>1. Lag
        BY <1>7, LagSame DEF CrashRequest
    <2> QED
        BY <1>7, <2>1 DEF CrashRequest, row, store, Still
<1>8. ASSUME NEW j \in Jobs, Skip(j) PROVE Still
    <2>1. Lag
        BY <1>8, LagStep
    <2> QED
        BY <1>8, <2>1 DEF Skip, row, store, history, Still
<1>9. ASSUME NEW j \in Jobs, MarkProcessing(j) PROVE Still
    <2>1. Lag
        BY <1>9, LagStep
    <2> QED
        BY <1>9, <2>1 DEF MarkProcessing, store, history, Still
<1>10. ASSUME NEW j \in Jobs, DownloadNothing(j) PROVE Still
    <2>1. Lag
        BY <1>10, LagStep
    <2> QED
        BY <1>10, <2>1 DEF DownloadNothing, row, store, history, Still
<1>11. ASSUME NEW j \in Jobs, FreeRaw(j) PROVE Still
    <2>1. Lag
        BY <1>11, LagStep
    <2> QED
        BY <1>11, <2>1 DEF FreeRaw, row, history, Still
<1>12. ASSUME NEW j \in Jobs, MarkFailed(j) PROVE Still
    <2>1. Lag
        BY <1>12, LagStep
    <2> QED
        BY <1>12, <2>1 DEF MarkFailed, store, history, Still
<1>13. ASSUME NEW j \in Jobs, Throw(j) PROVE Still
    <2>1. Lag
        BY <1>13, LagStep
    <2> QED
        BY <1>13, <2>1 DEF Throw, row, store, history, Still
<1>14. ASSUME NEW j \in Jobs, ThrowUnmarked(j) PROVE Still
    <2>1. Lag
        BY <1>14, LagStep
    <2> QED
        BY <1>14, <2>1 DEF ThrowUnmarked, row, store, Still
<1>15. ASSUME NEW j \in Jobs, CrashWorker(j) PROVE Still
    <2>1. Lag
        BY <1>15, LagStep
    <2> QED
        BY <1>15, <2>1 DEF CrashWorker, row, store, Still
<1>16. CASE UNCHANGED vars
    <2>1. Lag
        BY <1>16, LagSame DEF vars
    <2> QED
        BY <1>16, <2>1 DEF vars, row, store, history, Still
<1> QED
    BY <1>1, <1>2, <1>3, <1>4, <1>5, <1>6, <1>7, <1>8, <1>9, <1>10, <1>11, <1>12, <1>13, <1>14, <1>15, <1>16

(* What a job has taken and where it stands, if its own step is of another job. *)
LEMMA PastTaken == ASSUME TypeInv', NEW i \in Jobs, Past(i)' PROVE Taken(i)'
    BY DEF TypeInv, TypeOK, JobsOK, Taken, Past

LEMMA WholeStep ==
    ASSUME TypeInv, WholeInv, [Next]_vars
    PROVE  WholeInv'
<1>1. TypeInv'
    BY TypeInvStep
<1>2. ASSUME Still PROVE WholeInv'
    BY <1>1, <1>2, PastTaken DEF Still, Lag, WholeInv
<1>3. ASSUME NEW e \in 1 .. MaxEdits, PushMetadata(e) PROVE WholeInv'
    BY <1>3 DEF PushMetadata, store, WholeInv, Past
<1>4. ASSUME NEW r \in Requests, StampWrite(r) PROVE WholeInv'
    BY <1>4 DEF StampWrite, store, WholeInv, Past
<1>5. ASSUME NEW j \in Jobs, ReadPhoto(j) PROVE WholeInv'
    <2>1. \A i \in Jobs : Past(i)' => Past(i) /\ jobs'[i] = jobs[i]
        BY <1>5, ReadEffect DEF Past
    <2> QED
        BY <1>5, <2>1 DEF ReadPhoto, row, store, WholeInv
<1>6. ASSUME NEW j \in Jobs, Download(j) PROVE WholeInv'
    <2>1. \A i \in Jobs \ {j} : Past(i)' => Past(i) /\ jobs'[i] = jobs[i]
        BY <1>6, DownloadEffect DEF Past
    <2>2. jobs'[j].content # 0 /\ jobs'[j].stored = 0
        BY <1>6, DownloadEffect
    <2>3. \A v \in 1 .. jobs'[j].stored : FALSE
        BY <2>2
    <2> QED
        BY <1>6, <2>1, <2>2, <2>3 DEF Download, row, store, WholeInv
<1>7. ASSUME NEW j \in Jobs, Store(j) PROVE WholeInv'
    <2>1. \A i \in Jobs \ {j} : Past(i)' => Past(i) /\ jobs'[i] = jobs[i]
        BY <1>7, StoreEffect DEF Past
    <2>2. Past(j) /\ jobs[j].content # 0
        BY <1>7, StoreEffect DEF WholeInv, Past
    <2>3. variants \in [1 .. NumVariants -> Nat] /\ jobs[j].stored \in Nat
        BY <1>7, JobTypes DEF TypeInv, TypeOK, StoreOK
    <2>4. \A v \in 1 .. NumVariants :
             variants'[v] # 0 <=> (v = jobs[j].stored + 1 \/ variants[v] # 0)
        BY <1>7, <2>2, <2>3, StoreEffect
    <2>5. jobs'[j].content = jobs[j].content /\ jobs'[j].stored = jobs[j].stored + 1
          /\ jobs[j].stored + 1 \in 1 .. NumVariants
        BY <1>7, StoreEffect
    <2>6. ASSUME NEW v \in 1 .. jobs'[j].stored PROVE variants'[v] # 0
        <3>1. v \in 1 .. NumVariants
            BY <2>3, <2>5
        <3>2. v = jobs[j].stored + 1 \/ v \in 1 .. jobs[j].stored
            BY <2>3, <2>5
        <3> QED
            BY <2>2, <2>4, <3>1, <3>2 DEF WholeInv
    <2>7. ASSUME NEW i \in Jobs \ {j}, Past(i)', NEW v \in 1 .. jobs'[i].stored
          PROVE  variants'[v] # 0
        <3>1. jobs'[i] = jobs[i] /\ variants[v] # 0
            BY <2>1, <2>7 DEF WholeInv
        <3>2. v \in 1 .. NumVariants
            BY <3>1, JobTypes
        <3> QED
            BY <2>4, <3>1, <3>2
    <2>8. row' = row
        BY <1>7 DEF Store
    <2> QED
        BY <2>1, <2>2, <2>4, <2>5, <2>6, <2>7, <2>8 DEF row, WholeInv
<1>8. ASSUME NEW j \in Jobs, Publish(j) PROVE WholeInv'
    <2>1. Lag
        BY <1>8, LagStep
    <2>2. Past(j) /\ jobs[j].stored = NumVariants
        BY <1>8 DEF Publish, Past, Whole, TypeInv, JobInv
    <2>3. variants' = variants
        BY <1>8 DEF Publish, store
    <2>4. \A v \in 1 .. NumVariants : variants[v] # 0
        BY <2>2 DEF WholeInv
    <2> QED
        BY <1>1, <1>8, <2>1, <2>3, <2>4, PastTaken DEF Publish, Lag, WholeInv
<1> QED
    BY <1>2, <1>3, <1>4, <1>5, <1>6, <1>7, <1>8, Quiet DEF Next, RequestStep, JobStep

LEMMA MarkStep ==
    ASSUME TypeInv, WholeInv, EvidenceInv, MarkInv, [Next]_vars
    PROVE  MarkInv'
<1>1. ASSUME Still PROVE MarkInv'
    BY <1>1 DEF Still, Lag, MarkInv, MarkJob, Current
<1>2. ASSUME NEW e \in 1 .. MaxEdits, PushMetadata(e) PROVE MarkInv'
    <2>1. Lag
        BY <1>2, LagSame DEF PushMetadata
    <2>2. evidence <= evidence' /\ evidence' \in Nat /\ evidence \in Nat
        BY <1>2 DEF PushMetadata, EvidenceInv, TypeInv, TypeOK, RowOK
    <2>3. /\ (processingStatus' = "done" <=> processingStatus = "done")
          /\ seal' = seal /\ baked' = baked /\ restamped' = restamped
        BY <1>2 DEF PushMetadata, store
    <2>4. baked.evidence \in Nat /\ \A j \in Jobs : jobs[j].mark.evidence \in Nat
        BY DEF TypeInv, TypeOK, StoreOK, JobsOK, Job, Mark
    <2>5. ASSUME NEW mark, mark.evidence \in Nat, Current(mark) PROVE Current(mark)'
        BY <2>2, <2>3, <2>5 DEF Current
    <2> QED
        BY <2>1, <2>3, <2>4, <2>5 DEF Lag, MarkInv, MarkJob
<1>3. ASSUME NEW r \in Requests, StampWrite(r) PROVE MarkInv'
    <2>1. Lag
        BY <1>3, LagSame DEF StampWrite
    <2>2. ~ restamped' => rawObjectKey # None /\ \A j \in Jobs : ~ Taken(j)
        BY <1>3 DEF StampWrite, Taken
    <2>3. processingStatus' = processingStatus
        BY <1>3 DEF StampWrite
    <2> QED
        BY <2>1, <2>2, <2>3 DEF Lag, MarkInv, WholeInv
<1>4. ASSUME NEW j \in Jobs, ReadPhoto(j), ~ restamped' PROVE MarkInv'
    <2>1. \A i \in Jobs \ {j} : (Taken(i)' <=> Taken(i)) /\ (Whole(i)' <=> Whole(i))
        BY <1>4, ReadEffect DEF Taken, Whole
    <2>2. row' = row /\ baked' = baked /\ rawObjectKey # None
        BY <1>4 DEF ReadPhoto, store
    <2>3. \A mark : Current(mark)' <=> Current(mark)
        BY <2>2 DEF row, Current
    <2>4. ~ Whole(j)'
        BY <1>4, ReadEffect DEF Whole
    <2>5. seal.of <= evidence /\ evidence \in Nat
        BY DEF EvidenceInv, TypeInv, TypeOK, RowOK
    <2>6. Current([seal |-> seal, evidence |-> evidence])
        BY <2>5 DEF Current
    <2>7. Current(jobs'[j].mark)
        BY <1>4, <2>6, ReadEffect
    <2>8. MarkJob(j)'
        BY <2>3, <2>4, <2>7 DEF MarkJob
    <2>9. ASSUME NEW i \in Jobs \ {j}, Taken(i)' PROVE MarkJob(i)'
        <3>1. Taken(i) /\ ~ restamped
            BY <1>4, <2>1, <2>9 DEF ReadPhoto, Taken
        <3>2. MarkJob(i)
            BY <3>1 DEF MarkInv
        <3> QED
            BY <1>4, <2>1, <2>2, <2>3, <3>2, ReadEffect DEF MarkJob
    <2>10. processingStatus' # "done"
        BY <2>2 DEF row, WholeInv
    <2> QED
        BY <2>8, <2>9, <2>10 DEF MarkInv
<1>5. ASSUME NEW j \in Jobs, Download(j) PROVE MarkInv'
    <2>1. (\A i \in Jobs \ {j} : (Taken(i)' <=> Taken(i)) /\ (Whole(i)' <=> Whole(i))) /\ ~ Whole(j)'
        BY <1>5, DownloadEffect DEF Taken, Whole
    <2>2. row' = row /\ baked' = baked /\ restamped' = restamped
        BY <1>5 DEF Download, store, history
    <2>3. \A i \in Jobs : Taken(i)' => Taken(i) /\ jobs'[i].mark = jobs[i].mark /\ (Whole(i)' => Whole(i))
        BY <1>5, <2>1, DownloadEffect
    <2> QED
        BY <2>2, <2>3 DEF row, MarkInv, MarkJob, Current
<1>6. ASSUME NEW j \in Jobs, Store(j) PROVE MarkInv'
    <2>1. \A i \in Jobs \ {j} : (Taken(i)' <=> Taken(i)) /\ (Whole(i)' <=> Whole(i))
        BY <1>6, StoreEffect DEF Taken, Whole
    <2>2. row' = row /\ restamped' = restamped
        BY <1>6 DEF Store, history
    <2>3. baked' = IF jobs[j].stored + 1 = NumVariants THEN jobs[j].mark ELSE baked
        BY <1>6 DEF Store, AllStored
    <2>4. Whole(j)' => jobs[j].stored + 1 = NumVariants
        BY <1>6, StoreEffect DEF Whole
    <2>5. ~ restamped => Current(jobs[j].mark)
        BY <1>6, StoreEffect DEF MarkInv, MarkJob
    <2>6. ~ restamped /\ Current(baked) => Current(baked')
        BY <2>3, <2>5
    <2>7. ~ restamped /\ Whole(j)' => Current(baked')
        BY <2>3, <2>4, <2>5
    <2>8. \A i \in Jobs : Taken(i)' => Taken(i) /\ jobs'[i].mark = jobs[i].mark
        BY <1>6, <2>1, StoreEffect
    <2> QED
        BY <2>1, <2>2, <2>6, <2>7, <2>8 DEF row, MarkInv, MarkJob, Current
<1>7. ASSUME NEW j \in Jobs, Publish(j) PROVE MarkInv'
    <2>1. Lag /\ Whole(j) /\ Taken(j)
        BY <1>7, LagStep DEF Publish, Whole, Taken, TypeInv, TypeOK, JobsOK
    <2>2. ~ restamped => MarkJob(j)
        BY <2>1 DEF MarkInv
    <2>3. seal' = seal /\ evidence' = evidence /\ baked' = baked /\ restamped' = restamped
        BY <1>7 DEF Publish, store, history
    <2> QED
        BY <2>1, <2>2, <2>3 DEF Lag, MarkInv, MarkJob, Current
<1>8. ASSUME NEW j \in Jobs, ReadPhoto(j), restamped' PROVE MarkInv'
    BY <1>8 DEF MarkInv
<1> QED
    BY <1>1, <1>2, <1>3, <1>4, <1>5, <1>6, <1>7, <1>8, Quiet DEF Next, RequestStep, JobStep

AllInv == TypeInv /\ KeptInv /\ DoneInv /\ WholeInv /\ EvidenceInv /\ MarkInv /\ MetadataInv

LEMMA Invariance == Spec => []AllInv
<1>1. Init => AllInv
    <2> SUFFICES ASSUME Init PROVE AllInv
        OBVIOUS
    <2>1. \A j \in Jobs : ~ Taken(j)
        BY DEF Init, Taken, NoJob
    <2>2. KeptInv
        BY <2>1 DEF Init, KeptInv, CountInv, ObjectsInv, RowObjects, SharedInv, KeptOrProcessed
    <2>3. EvidenceInv /\ MetadataInv
        BY DEF Init, EvidenceInv, MetadataInv, NoSeal
    <2>4. DoneInv /\ WholeInv /\ MarkInv
        BY <2>1 DEF Init, DoneInv, WholeInv, MarkInv, Past, NoJob
    <2> QED
        BY <2>2, <2>3, <2>4, TypeInvInit DEF AllInv
<1>2. AllInv /\ [Next]_vars => AllInv'
    BY TypeInvStep, KeptInvStep, DoneStep, WholeStep, EvidenceStep, MarkStep, MetadataStep DEF AllInv
<1> QED
    BY <1>1, <1>2, PTL DEF Spec

(* Unless calls crossed, what was committed last is kept or processed. *)
THEOREM NothingLost == Spec => []KeptOrProcessed
<1>1. AllInv => KeptOrProcessed
    BY DEF AllInv, KeptInv
<1> QED
    BY <1>1, Invariance, PTL

(* A photo that is done has all its derivatives, whatever crossed; and unless an
   upload or a commit met a job they show one content, and no older one than what
   was committed last. *)
THEOREM DoneIsWhole == Spec => []DoneIsShown
<1>1. AllInv => DoneIsShown
    BY DEF AllInv, DoneInv, WholeInv, Settled, DoneIsShown
<1> QED
    BY <1>1, Invariance, PTL

(* The watermark of a finished photo is of the row's stamp and evidence, if the
   stamp is of that evidence and no job was at work, or done, when it was written. *)
THEOREM WatermarkTrue == Spec => []WatermarkMatches
<1>1. ASSUME AllInv, processingStatus = "done", ~ restamped, seal.of = evidence
      PROVE  baked = [seal |-> seal, evidence |-> evidence]
    <2>1. Current(baked) /\ baked \in Mark /\ evidence \in Nat
        BY <1>1 DEF AllInv, MarkInv, TypeInv, TypeOK, StoreOK, RowOK
    <2> QED
        BY <1>1, <2>1 DEF Current, Mark
<1>2. AllInv => WatermarkMatches
    BY <1>1 DEF WatermarkMatches
<1> QED
    BY <1>2, Invariance, PTL

(* No pushed edit is refused for what the pipeline writes, but for an insert after
   the edit was made. *)
THEOREM EditsWin == Spec => []MetadataKept
<1>1. AllInv => MetadataKept
    BY DEF AllInv, MetadataInv, MetadataKept, TypeInv, TypeOK, RowOK, HistoryOK
<1> QED
    BY <1>1, Invariance, PTL

----------------------------------------------------------------------------
(* The safety half of Settles: someone attends to every photo that waits, and
   every job wears off. *)

Carries(r) == pc[r] \in CommitPoints \cup {"enqueue"}
(* A photo that is queued or in process has a job that will write its outcome,
   or a job or a request that will come to it and finds its raw object named. *)
Attended ==
    processingStatus \in {"queued", "processing"} /\ ~ stranded /\ ~ outrun =>
        \/ \E j \in Jobs : Deriving(j)
        \/ /\ rawObjectKey # None
           /\ \/ \E r \in Requests : Carries(r)
              \/ \E j \in Jobs : jobs[j].pc \in {"waiting", "mark"}

(* The calls an attempt has before it at most. *)
Effort(j) ==
    CASE jobs[j].pc = "waiting"  -> NumVariants + 5
      [] jobs[j].pc = "mark"     -> NumVariants + 4
      [] jobs[j].pc = "download" -> NumVariants + 3
      [] jobs[j].pc = "store"    -> NumVariants - jobs[j].stored + 2
      [] jobs[j].pc = "publish"  -> 2
      [] OTHER -> 1

(* It was restarted, which happens once; or an attempt failed, of which there are
   Attempts; or the attempt has less to do. *)
Nearer(j) ==
    \/ ~ jobs[j].stalled /\ jobs'[j].stalled
    \/ /\ jobs'[j].stalled = jobs[j].stalled
       /\ \/ jobs'[j].failures > jobs[j].failures
          \/ jobs'[j].failures = jobs[j].failures /\ Effort(j)' < Effort(j)

Progress(j) ==
    /\ JobStep(j) => jobs'[j] = NoJob \/ Nearer(j)
    /\ jobs'[j] = jobs[j] \/ jobs[j].pc = "none" \/ jobs'[j] = NoJob \/ Nearer(j)

JobsWear == [][\A j \in Jobs : Progress(j)]_vars

LEMMA EndNearer ==
    ASSUME TypeInv, NEW j \in Jobs, EndAttempt(j)
    PROVE  jobs'[j] = NoJob \/ Nearer(j)
<1>1. jobs[j] \in Job /\ jobs \in [Jobs -> Job]
    BY DEF TypeInv, TypeOK, JobsOK
<1>2. CASE LastAttempt(j)
    BY <1>1, <1>2 DEF EndAttempt
<1>3. CASE ~ LastAttempt(j)
    <2> DEFINE new == [NoJob EXCEPT !.pc = "waiting", !.failures = jobs[j].failures + 1,
                                    !.stalled = jobs[j].stalled]
    <2>1. new.failures = jobs[j].failures + 1 /\ new.stalled = jobs[j].stalled
        BY DEF NoJob
    <2>2. jobs'[j] = new
        BY <1>1, <1>3 DEF EndAttempt
    <2>3. jobs[j].failures \in Nat
        BY <1>1 DEF Job
    <2> HIDE DEF new
    <2> QED
        BY <2>1, <2>2, <2>3 DEF Nearer
<1> QED
    BY <1>2, <1>3

LEMMA GotoNearer ==
    ASSUME TypeInv, NEW j \in Jobs, NEW point \in JobPoints, JobGoto(j, point),
           \/ jobs[j].pc = "mark" /\ point = "download"
           \/ jobs[j].pc \in {"download", "store", "publish"} /\ point = "markFailed"
           \/ jobs[j].pc = "publish" /\ point = "free"
    PROVE  Nearer(j)
<1>1. jobs[j] \in Job /\ jobs \in [Jobs -> Job]
    BY DEF TypeInv, TypeOK, JobsOK
<1>2. /\ jobs'[j].pc = point /\ jobs'[j].failures = jobs[j].failures
      /\ jobs'[j].stalled = jobs[j].stalled
    BY <1>1 DEF JobGoto, Job
<1>3. jobs[j].pc = "store" => jobs[j].stored \in Nat /\ jobs[j].stored < NumVariants
    BY <1>1 DEF TypeInv, JobInv, Job
<1>4. Effort(j)' < Effort(j)
    BY <1>2, <1>3 DEF Effort
<1> QED
    BY <1>2, <1>4 DEF Nearer

(* A job's own steps, and what befalls it. *)
LEMMA OwnNearer ==
    ASSUME TypeInv, NEW j \in Jobs,
           JobStep(j) \/ Throw(j) \/ ThrowUnmarked(j) \/ CrashWorker(j)
    PROVE  jobs'[j] = NoJob \/ Nearer(j)
<1>1. jobs[j] \in Job /\ jobs \in [Jobs -> Job]
    BY DEF TypeInv, TypeOK, JobsOK
<1>2. CASE Skip(j) \/ FreeRaw(j)
    BY <1>1, <1>2 DEF Skip, FreeRaw
<1>3. CASE ReadPhoto(j)
    <2>1. /\ jobs[j].pc = "waiting" /\ jobs'[j].pc = "mark"
          /\ jobs'[j].failures = jobs[j].failures /\ jobs'[j].stalled = jobs[j].stalled
        BY <1>1, <1>3 DEF ReadPhoto, Job
    <2>2. Effort(j)' < Effort(j)
        BY <2>1 DEF Effort
    <2> QED
        BY <2>1, <2>2 DEF Nearer
<1>4. CASE MarkProcessing(j)
    BY <1>4, GotoNearer DEF MarkProcessing, JobPoints, DerivePoints
<1>5. CASE DownloadNothing(j)
    BY <1>5, GotoNearer DEF DownloadNothing, JobPoints, DerivePoints
<1>6. CASE Publish(j)
    BY <1>6, GotoNearer DEF Publish, JobPoints, DerivePoints
<1>7. CASE Throw(j)
    BY <1>7, GotoNearer DEF Throw, JobPoints, DerivePoints
<1>8. CASE Download(j)
    <2>1. /\ jobs[j].pc = "download" /\ jobs'[j].pc = "store" /\ jobs'[j].stored = 0
          /\ jobs'[j].failures = jobs[j].failures /\ jobs'[j].stalled = jobs[j].stalled
        BY <1>1, <1>8 DEF Download, Job, TypeInv, JobInv
    <2>2. Effort(j)' < Effort(j)
        BY <2>1 DEF Effort
    <2> QED
        BY <2>1, <2>2 DEF Nearer
<1>9. CASE Store(j)
    <2>1. /\ jobs[j].pc = "store" /\ jobs'[j].stored = jobs[j].stored + 1
          /\ jobs'[j].pc = IF jobs[j].stored + 1 = NumVariants THEN "publish" ELSE "store"
          /\ jobs'[j].failures = jobs[j].failures /\ jobs'[j].stalled = jobs[j].stalled
        BY <1>1, <1>9, StoreEffect DEF Store, Job
    <2>2. jobs[j].stored \in Nat /\ jobs[j].stored < NumVariants
        BY <1>1, <2>1 DEF TypeInv, JobInv, Job
    <2>3. Effort(j)' < Effort(j)
        BY <2>1, <2>2 DEF Effort
    <2> QED
        BY <2>1, <2>3 DEF Nearer
<1>10. CASE MarkFailed(j) \/ ThrowUnmarked(j)
    BY <1>10, EndNearer DEF MarkFailed, ThrowUnmarked
<1>11. CASE CrashWorker(j)
    <2>1. jobs'[j] = IF jobs[j].stalled THEN NoJob
                     ELSE [NoJob EXCEPT !.pc = "waiting", !.failures = jobs[j].failures,
                                        !.stalled = TRUE]
        BY <1>1, <1>11 DEF CrashWorker
    <2> QED
        BY <2>1 DEF NoJob, Nearer
<1> QED
    BY <1>2, <1>3, <1>4, <1>5, <1>6, <1>7, <1>8, <1>9, <1>10, <1>11 DEF JobStep

LEMMA WearStep ==
    ASSUME TypeInv, [Next]_vars, NEW j \in Jobs
    PROVE  Progress(j)
<1>1. ASSUME NEW i \in Jobs, i # j,
             JobStep(i) \/ Throw(i) \/ ThrowUnmarked(i) \/ CrashWorker(i)
      PROVE  jobs'[j] = jobs[j]
    BY <1>1 DEF JobStep, Skip, ReadPhoto, MarkProcessing, Download, DownloadNothing, Store,
       Publish, FreeRaw, MarkFailed, Throw, ThrowUnmarked, CrashWorker, EndAttempt, JobGoto,
       TypeInv, TypeOK, JobsOK
<1>2. ASSUME NEW r \in Requests, Enqueue(r)
      PROVE  jobs'[j] = jobs[j] \/ jobs[j].pc = "none"
    BY <1>2 DEF Enqueue, TypeInv, TypeOK, JobsOK
<1>3. ASSUME NEW r \in Requests,
             \/ StampRead(r) \/ StampWrite(r) \/ Requeue(r) \/ LoadPhoto(r) \/ CrashRequest(r)
             \/ \E k \in Keys : Commit(r, k)
      PROVE  jobs' = jobs
    BY <1>3 DEF StampRead, StampWrite, Requeue, LoadPhoto, CrashRequest, Commit
<1>4. ASSUME \/ UNCHANGED vars
             \/ \E e \in 1 .. MaxEdits : PushMetadata(e)
             \/ \E k \in Keys : Upload(k)
      PROVE  jobs' = jobs
    BY <1>4 DEF PushMetadata, Upload, vars
<1> QED
    BY <1>1, <1>2, <1>3, <1>4, OwnNearer DEF Next, RequestStep, Progress

(* Every job ends: each of its steps, and each failure and crash that befalls it,
   leaves it with fewer restarts, fewer attempts or fewer calls before it
   (MediaProcessWorker.process, and the attempts of its queue). *)
THEOREM JobsWearOff == Spec => JobsWear
<1>1. AllInv /\ [Next]_vars => \A j \in Jobs : Progress(j)
    BY WearStep DEF AllInv
<1> QED
    BY <1>1, Invariance, PTL DEF Spec, JobsWear

LEMMA AttendedStep ==
    ASSUME TypeInv, Attended, [Next]_vars
    PROVE  Attended'
<1>1. ASSUME NEW e \in 1 .. MaxEdits, PushMetadata(e) PROVE Attended'
    BY <1>1 DEF PushMetadata, request,
       TypeInv, TypeOK, RowOK, JobsOK, RequestsOK, Attended, Deriving, Carries, CommitPoints
<1>2. ASSUME NEW k \in Keys, Upload(k) PROVE Attended'
    BY <1>2 DEF Upload, row, request,
       TypeInv, TypeOK, RowOK, JobsOK, RequestsOK, Attended, Deriving, Carries, CommitPoints
<1>3. ASSUME NEW r \in Requests, NEW k \in Keys, Commit(r, k) PROVE Attended'
    BY <1>3 DEF Commit, Goto, UpsertPhoto,
       TypeInv, TypeOK, RowOK, JobsOK, RequestsOK, Attended, Deriving, Carries, CommitPoints
<1>4. ASSUME NEW r \in Requests, StampRead(r) PROVE Attended'
    BY <1>4 DEF StampRead, Goto, row, history,
       TypeInv, TypeOK, RowOK, JobsOK, RequestsOK, Attended, Deriving, Carries, CommitPoints
<1>5. ASSUME NEW r \in Requests, StampWrite(r) PROVE Attended'
    BY <1>5 DEF StampWrite, Goto, history,
       TypeInv, TypeOK, RowOK, JobsOK, RequestsOK, Attended, Deriving, Carries, CommitPoints
<1>6. ASSUME NEW r \in Requests, LoadPhoto(r) PROVE Attended'
    BY <1>6 DEF LoadPhoto, Goto, row, history,
       TypeInv, TypeOK, RowOK, JobsOK, RequestsOK, Attended, Deriving, Carries, CommitPoints
<1>7. ASSUME NEW r \in Requests, Requeue(r) PROVE Attended'
    BY <1>7 DEF Requeue, Goto,
       TypeInv, TypeOK, RowOK, JobsOK, RequestsOK, Attended, Deriving, Carries, CommitPoints
<1>8. ASSUME NEW r \in Requests, Enqueue(r) PROVE Attended'
    BY <1>8 DEF Enqueue, Goto, NoJob, row, history,
       TypeInv, TypeOK, RowOK, JobsOK, RequestsOK, Attended, Deriving, Carries, CommitPoints
<1>9. ASSUME NEW r \in Requests, CrashRequest(r) PROVE Attended'
    BY <1>9 DEF CrashRequest, Goto, row,
       TypeInv, TypeOK, RowOK, JobsOK, RequestsOK, Attended, Deriving, Carries, CommitPoints
<1>10. ASSUME NEW j \in Jobs, Skip(j) PROVE Attended'
    BY <1>10 DEF Skip, NoJob, row, request, history,
       TypeInv, TypeOK, RowOK, JobsOK, RequestsOK, Attended, Deriving, Carries, CommitPoints
<1>11. ASSUME NEW j \in Jobs, ReadPhoto(j) PROVE Attended'
    BY <1>11 DEF ReadPhoto, row, request,
       TypeInv, TypeOK, RowOK, JobsOK, RequestsOK, Attended, Deriving, Carries, CommitPoints
<1>12. ASSUME NEW j \in Jobs, MarkProcessing(j) PROVE Attended'
    BY <1>12 DEF MarkProcessing, JobGoto, request, history,
       TypeInv, TypeOK, RowOK, JobsOK, RequestsOK, Attended, Deriving, Carries, CommitPoints
<1>13. ASSUME NEW j \in Jobs, Download(j) PROVE Attended'
    BY <1>13 DEF Download, row, request, history,
       TypeInv, TypeOK, RowOK, JobsOK, RequestsOK, Attended, Deriving, Carries, CommitPoints
<1>14. ASSUME NEW j \in Jobs, DownloadNothing(j) PROVE Attended'
    BY <1>14 DEF DownloadNothing, JobGoto, row, request, history,
       TypeInv, TypeOK, RowOK, JobsOK, RequestsOK, Attended, Deriving, Carries, CommitPoints
<1>15. ASSUME NEW j \in Jobs, Store(j) PROVE Attended'
    BY <1>15 DEF Store, row, request, history,
       TypeInv, TypeOK, RowOK, JobsOK, RequestsOK, Attended, Deriving, Carries, CommitPoints
<1>16. ASSUME NEW j \in Jobs, Publish(j) PROVE Attended'
    BY <1>16 DEF Publish, JobGoto, request, history,
       TypeInv, TypeOK, RowOK, JobsOK, RequestsOK, Attended, Deriving, Carries, CommitPoints
<1>17. ASSUME NEW j \in Jobs, FreeRaw(j) PROVE Attended'
    BY <1>17 DEF FreeRaw, NoJob, row, request, history,
       TypeInv, TypeOK, RowOK, JobsOK, RequestsOK, Attended, Deriving, Carries, CommitPoints
<1>18. ASSUME NEW j \in Jobs, MarkFailed(j) PROVE Attended'
    BY <1>18 DEF MarkFailed,
       TypeInv, TypeOK, RowOK, JobsOK, RequestsOK, Attended, Deriving, Carries, CommitPoints
<1>19. ASSUME NEW j \in Jobs, Throw(j) PROVE Attended'
    BY <1>19 DEF Throw, JobGoto, row, request, history,
       TypeInv, TypeOK, RowOK, JobsOK, RequestsOK, Attended, Deriving, Carries, CommitPoints
<1>20. ASSUME NEW j \in Jobs, ThrowUnmarked(j) PROVE Attended'
    BY <1>20 DEF ThrowUnmarked, EndAttempt, LastAttempt, LeavesUnmarked, NoJob, row, request,
       TypeInv, TypeOK, RowOK, JobsOK, RequestsOK, Attended, Deriving, Carries, CommitPoints
<1>21. ASSUME NEW j \in Jobs, CrashWorker(j) PROVE Attended'
    BY <1>21 DEF CrashWorker, LeavesUnmarked, NoJob, row, request,
       TypeInv, TypeOK, RowOK, JobsOK, RequestsOK, Attended, Deriving, Carries, CommitPoints
<1>22. ASSUME UNCHANGED vars PROVE Attended'
    BY <1>22 DEF vars, row, request, history,
       TypeInv, TypeOK, RowOK, JobsOK, RequestsOK, Attended, Deriving, Carries, CommitPoints
<1> QED
    BY <1>1, <1>2, <1>3, <1>4, <1>5, <1>6, <1>7, <1>8, <1>9, <1>10, <1>11, <1>12, <1>13, <1>14, <1>15, <1>16, <1>17, <1>18, <1>19, <1>20, <1>21, <1>22
    DEF Next, RequestStep, JobStep

(* A photo that waits is waited for: while it is shown as queued or in process,
   a request is about to enqueue it or a job has it, and that job finds its raw
   object named or will write the outcome itself, however commits, reprocesses,
   duplicate jobs, failures and retries interleave; unless a request or a last
   attempt ended half way, or the photo was published between a reprocess's read
   and its write (MediaService.commit, reprocess; the worker). *)
THEOREM NobodyForgets == Spec => []Attended
<1>1. Init => Attended
    BY DEF Init, Attended
<1>2. AllInv /\ Attended /\ [Next]_vars => Attended'
    BY AttendedStep DEF AllInv
<1> QED
    BY <1>1, <1>2, Invariance, PTL DEF Spec
====
