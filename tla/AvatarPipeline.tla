---------------------------- MODULE AvatarPipeline ----------------------------
(***************************************************************************)
(* The files of one user's profile picture (services/media.py, the upload   *)
(* in routers/profile.py, the image job of services/job_executor.py).  An   *)
(* upload removes what is there, writes the picture under the extension of  *)
(* its type, saves the session and enqueues a job; the job puts a digest    *)
(* of the file beside it.  The backend is one process, which touches the    *)
(* disk without giving way to another handler; the worker is another, and   *)
(* its job sees the disk between any two operations, each of which may      *)
(* fail: the job is then retried and in the end buried.  Jobs run in any    *)
(* order, since a retry is delayed (module JobQueue).                       *)
(***************************************************************************)
EXTENDS Naturals

CONSTANTS Extensions,   \* jpg, png, gif, webp
          MaxAttempts,  \* job_default_max_attempts; below 1 it counts as 1
          MaxUploads,   \* BOUND: uploads of the user
          MaxFaults     \* BOUND: operations that fail, and crashes of the worker

ASSUME AvatarAssumption == /\ MaxAttempts \in Nat \ {0}
                           /\ MaxUploads \in Nat /\ MaxFaults \in Nat

VARIABLES files,      \* each extension's file: which upload wrote it, and all of it?
          digests,    \* each extension's metadata: of which contents
          uploads,    \* how far each upload is, and its extension
          jobs,       \* jobs that are queued or delayed
          worker,     \* the worker's job and what it has read
          faults,     \* how much has failed
          jobLost     \* history: an upload had no job, the worker died with
                      \*   one, or one was buried after a failing disk

avatarVars == <<files, digests, uploads, jobs, worker, faults, jobLost>>

Uploads == 1..MaxUploads
NoFile == [of |-> 0, whole |-> TRUE]
CutMetadata == [of |-> 0, whole |-> FALSE]     \* opened, not filled to the end
NoJob == [of |-> 0, ext |-> "none", attempt |-> 0]

AvatarInit ==
    /\ files = [e \in Extensions |-> NoFile] /\ digests = [e \in Extensions |-> NoFile]
    /\ uploads = [n \in Uploads |-> [at |-> "none", ext |-> "none"]]
    /\ jobs = {} /\ worker = [at |-> "idle", job |-> NoJob, read |-> NoFile]
    /\ faults = 0 /\ jobLost = FALSE

Fault == faults < MaxFaults /\ faults' = faults + 1
Stage(n, stage) == uploads' = [uploads EXCEPT ![n].at = stage]

Present == {e \in Extensions : files[e] # NoFile}

\* Uploads that are on the disk right now: at most one.
Saving == {n \in Uploads : uploads[n].at \in {"removed", "writing"}}

-----------------------------------------------------------------------------
(* The upload                                                                *)

\* Everything that is called like the subject goes, pictures and metadata; a
\* file that cannot be removed stays.
RemoveOld(n, e) ==
    /\ uploads[n].at = "none" /\ \A k \in 1..(n - 1) : uploads[k].at # "none"
    /\ Saving = {}
    /\ uploads' = [uploads EXCEPT ![n] = [at |-> "removed", ext |-> e]]
    /\ \E kept \in SUBSET Present, beside \in SUBSET {x \in Extensions : digests[x] # NoFile} :
          /\ files' = [x \in Extensions |-> IF x \in kept THEN files[x] ELSE NoFile]
          /\ digests' = [x \in Extensions |-> IF x \in beside THEN digests[x] ELSE NoFile]
          /\ IF kept \cup beside = {} THEN UNCHANGED faults ELSE Fault
    /\ UNCHANGED <<jobs, worker, jobLost>>

\* write_bytes opens, then fills; the first leaves an empty file.
BeginWrite(n) ==
    /\ uploads[n].at = "removed" /\ Stage(n, "writing")
    /\ files' = [files EXCEPT ![uploads[n].ext] = [of |-> n, whole |-> FALSE]]
    /\ UNCHANGED <<digests, jobs, worker, faults, jobLost>>

EndWrite(n) ==
    /\ uploads[n].at = "writing" /\ Stage(n, "written")
    /\ files' = [files EXCEPT ![uploads[n].ext].whole = TRUE]
    /\ UNCHANGED <<digests, jobs, worker, faults, jobLost>>

\* The disk is full: the old picture is gone, the new one is cut or missing.
WriteFails(n) ==
    /\ n \in Saving /\ Fault
    /\ Stage(n, IF uploads[n].at = "removed" THEN "missing" ELSE "cut")
    /\ jobLost' = TRUE
    /\ UNCHANGED <<files, digests, jobs, worker>>

\* The session is saved and the job enqueued; if the one fails the other is
\* not tried, if the other fails nobody is told.
EnqueueJob(n) ==
    /\ uploads[n].at = "written" /\ Stage(n, "done")
    /\ \/ /\ jobs' = jobs \cup {[of |-> n, ext |-> uploads[n].ext, attempt |-> 1]}
          /\ UNCHANGED <<faults, jobLost>>
       \/ Fault /\ jobLost' = TRUE /\ UNCHANGED jobs
    /\ UNCHANGED <<files, digests, worker>>

-----------------------------------------------------------------------------
(* The image job                                                             *)

Work(at, job, read) == worker' = [at |-> at, job |-> job, read |-> read]

TakeJob(j) ==
    /\ worker.at = "idle"
    /\ jobs' = jobs \ {j} /\ Work("taken", j, NoFile)
    /\ UNCHANGED <<files, digests, uploads, faults, jobLost>>

BytesFault(j) == [of |-> j.of, whole |-> TRUE]    \* fault: the digest comes with the job
Bytes(j) == files[j.ext]

ReadImage ==
    /\ worker.at = "taken" /\ files[worker.job.ext] # NoFile
    /\ Work("read", worker.job, Bytes(worker.job))
    /\ UNCHANGED <<files, digests, uploads, jobs, faults, jobLost>>

\* A job that fails is retried, and buried after its last attempt.
Retried(j) == IF j.attempt < MaxAttempts THEN jobs \cup {[j EXCEPT !.attempt = @ + 1]} ELSE jobs
JobFails == jobs' = Retried(worker.job) /\ Work("idle", NoJob, NoFile)

\* The file is gone.
ImageMissing ==
    /\ worker.at = "taken" /\ files[worker.job.ext] = NoFile
    /\ JobFails
    /\ UNCHANGED <<files, digests, uploads, faults, jobLost>>

\* Reading, opening or filling fails; the metadata stay as they are by then.
DiskFails ==
    /\ worker.at # "idle" /\ Fault
    /\ JobFails
    /\ jobLost' = (jobLost \/ worker.job.attempt = MaxAttempts)
    /\ UNCHANGED <<files, digests, uploads>>

\* write_text opens, then fills.  The metadata go beside the file's name,
\* whatever has become of the file; if they are removed in between, what is
\* filled is gone.
OpenMetadata ==
    /\ worker.at = "read"
    /\ digests' = [digests EXCEPT ![worker.job.ext] = CutMetadata]
    /\ Work("writing", worker.job, worker.read)
    /\ UNCHANGED <<files, uploads, jobs, faults, jobLost>>

FillMetadata ==
    /\ worker.at = "writing"
    /\ digests' = [e \in Extensions |-> IF e = worker.job.ext /\ digests[e] = CutMetadata
                                        THEN worker.read ELSE digests[e]]
    /\ Work("idle", NoJob, NoFile)
    /\ UNCHANGED <<files, uploads, jobs, faults, jobLost>>

WorkerCrashes ==
    /\ worker.at # "idle" /\ Fault /\ Work("idle", NoJob, NoFile)
    /\ jobLost' = TRUE
    /\ UNCHANGED <<files, digests, uploads, jobs>>

AvatarNext ==
    \/ \E n \in Uploads : \/ \E e \in Extensions : RemoveOld(n, e)
                          \/ BeginWrite(n) \/ EndWrite(n) \/ WriteFails(n) \/ EnqueueJob(n)
    \/ \E j \in jobs : TakeJob(j)
    \/ ReadImage \/ ImageMissing \/ OpenMetadata \/ FillMetadata \/ DiskFails \/ WorkerCrashes

AvatarSpec == AvatarInit /\ [][AvatarNext]_avatarVars

-----------------------------------------------------------------------------
(* What a login finds                                                        *)

\* find_profile_picture_url: the file that was written last.
FoundPicture(e) == e \in Present /\ \A x \in Present : files[x].of <= files[e].of

-----------------------------------------------------------------------------
(* What is checked                                                           *)

Contents == [of : 0..MaxUploads, whole : BOOLEAN]
ImageJobs == [of : Uploads, ext : Extensions, attempt : 1..MaxAttempts]

\* The values every variable may have.
AvatarTypeOK ==
    /\ files \in [Extensions -> Contents] /\ digests \in [Extensions -> Contents]
    /\ uploads \in [Uploads -> [at : {"none", "removed", "writing", "written", "missing", "cut", "done"},
                                ext : Extensions \cup {"none"}]]
    /\ jobs \subseteq ImageJobs
    /\ worker \in [at : {"idle", "taken", "read", "writing"}, job : ImageJobs \cup {NoJob}, read : Contents]
    /\ faults \in 0..MaxFaults /\ jobLost \in BOOLEAN

\* A login between uploads finds the last picture that was written, also when
\* an older one could not be removed, and all of it unless its writing failed;
\* an older one only if a later upload removed the last and then wrote nothing.
\* Once the jobs are done, and unless one was lost or buried, the metadata beside it
\* describe it and no other picture: a job may have read half of it, or one
\* that was there before, but then a later job is still to come.
PictureSettled ==
    Saving = {} => \A e \in Extensions : FoundPicture(e) =>
        /\ \A n \in Uploads : uploads[n].at \in {"written", "cut", "done"} =>
              n <= files[e].of \/ \E m \in n..MaxUploads : uploads[m].at = "missing"
        /\ files[e].whole \/ uploads[files[e].of].at = "cut"
        /\ (\A n \in Uploads : uploads[n].at # "written") /\ jobs = {}
           /\ worker.at = "idle" /\ ~jobLost => digests[e] = files[e]

-----------------------------------------------------------------------------
(* The invariant that the proofs are by                                      *)

Begun(n) == uploads[n].at # "none"
Newest(n) == Begun(n) /\ \A m \in Uploads : m > n => ~Begun(m)
OnDisk == {"writing", "written", "cut", "done"}

\* Uploads start in their order, and the one that is saving is the newest.
OneByOne ==
    /\ \A n \in Uploads : Begun(n) =>
          uploads[n].ext \in Extensions /\ \A k \in 1..n : Begun(k)
    /\ \A n \in Saving : Newest(n)

\* Jobs belong to uploads whose picture was written.
JobsOfUploads ==
    /\ \A j \in jobs : Begun(j.of) /\ j.ext = uploads[j.of].ext
    /\ worker.at # "idle" => /\ worker.job \in ImageJobs
                             /\ Begun(worker.job.of)
                             /\ worker.job.ext = uploads[worker.job.of].ext

\* A file is its upload's, whole once it was written.
FilesOfUploads ==
    \A e \in Present : LET n == files[e].of
                       IN /\ n \in Uploads /\ uploads[n].ext = e /\ uploads[n].at \in OnDisk
                          /\ files[e].whole <=> uploads[n].at \in {"written", "done"}

\* A picture that was written is there, or a later one, unless a still later
\* upload has removed it.
LastIsThere ==
    \A n \in Uploads : uploads[n].at \in OnDisk
        /\ (\A m \in Uploads : m > n => uploads[m].at \notin {"removed", "missing"})
        => \E e \in Present : files[e].of >= n

\* The picture of an extension has its digest beside it, or a job that will
\* put it there, certainly while the worker holds what it read from an older.
Awaited(e) == \E j \in jobs : j.ext = e
Worked(e, stages) == worker.at \in stages /\ worker.job.ext = e
DigestComes(e) ==
    /\ Worked(e, {"read", "writing"}) /\ worker.read # files[e] => Awaited(e)
    /\ \/ digests[e] = files[e] \/ Awaited(e) \/ Worked(e, {"taken", "read"})
       \/ Worked(e, {"writing"}) /\ digests[e] = CutMetadata

\* While no job was lost no upload failed, and the newest gets its digest.
DigestToCome ==
    ~jobLost =>
        /\ \A n \in Uploads : uploads[n].at \notin {"cut", "missing"}
        /\ \A n \in Uploads : Newest(n) /\ uploads[n].at = "done" => DigestComes(uploads[n].ext)

AvatarIInv == /\ AvatarTypeOK /\ OneByOne /\ JobsOfUploads /\ FilesOfUploads
              /\ LastIsThere /\ DigestToCome
=============================================================================
