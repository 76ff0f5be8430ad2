----------------------------- MODULE Transcoder -----------------------------
(***************************************************************************)
(* The transcoder processes: the loop of Worker.Run, which takes tasks off *)
(* the Redis list and starts a goroutine for each under a semaphore, and   *)
(* Worker.process, one action for each stage of it that calls a service or *)
(* that leaves something in the work directory.                            *)
(***************************************************************************)
EXTENDS Services

CONSTANTS
    Worker,     \* the transcoder processes, which may run on several machines
    Slot        \* the slots of one worker's semaphore (WORKERS)

ASSUME SlotAssumption == Slot # {}

VARIABLES
    phase,      \* per worker: "up", "stopping" once ctx is cancelled, "down"
    held,       \* per worker: the task its loop has popped and not yet started
    job,        \* per worker and slot: the goroutine that runs there
    work        \* per worker and video: what is in <TempDir>/<video>

transcoderVars == <<phase, held, job, work>>

Stage == {"idle", "start", "fetch", "probe", "transcode", "tracks", "package",
          "upload", "thumbs", "publish", "cleanup", "failing"}

\* "tmp" is the directory itself, "original" the fetched file, "hls" the
\* directory hls in it; the others are files below hls.
Local == {"tmp", "original", "hls"} \union File

\* todo: the files that uploadHLS has listed and not yet uploaded;
\* bad: one of its uploads, and then process itself, returned an error.
Job == [video : Video \union {NoVideo}, stage : Stage, todo : SUBSET File, bad : BOOLEAN]
Idle == [video |-> NoVideo, stage |-> "idle", todo |-> {}, bad |-> FALSE]

TranscoderInit ==
    /\ phase = [w \in Worker |-> "up"]
    /\ held = [w \in Worker |-> NoVideo]
    /\ job = [w \in Worker |-> [s \in Slot |-> Idle]]
    /\ work = [w \in Worker |-> [v \in Video |-> {}]]

TranscoderTypeOK ==
    /\ phase \in [Worker -> {"up", "stopping", "down"}]
    /\ held \in [Worker -> Video \union {NoVideo}]
    /\ job \in [Worker -> [Slot -> Job]]
    /\ work \in [Worker -> [Video -> SUBSET Local]]

-----------------------------------------------------------------------------
(* Worker.Run *)

\* Mutant of Pop: the task is read and left in the list.
PopPeeks(w) ==
    /\ phase[w] = "up"
    /\ held[w] = NoVideo
    /\ queue # << >>
    /\ held' = [held EXCEPT ![w] = Head(queue)]
    /\ UNCHANGED <<phase, job, work, services>>

\* BRPOP took a task off the list.  When its reply is lost, so is the task:
\* the loop logs the error, or sees ctx cancelled, and goes on.
Pop(w) ==
    /\ phase[w] = "up"
    /\ held[w] = NoVideo
    /\ queue # << >>
    /\ queue' = Tail(queue)
    /\ \/ /\ Free
          /\ held' = [held EXCEPT ![w] = Head(queue)]
       \/ /\ Pay("lost")
          /\ UNCHANGED held
    /\ UNCHANGED <<phase, job, work, rows, blobs>>

\* BRPOP timed out (redis.Nil), and the loop polls again.
PollAgain(w) ==
    /\ phase[w] = "up"
    /\ held[w] = NoVideo
    /\ queue = << >>
    /\ UNCHANGED <<transcoderVars, services>>

\* Mutant of StartJob: the wait for the semaphore gives way to ctx.Done(), and
\* the popped task is still accounted for.
StartJobIfUp(w, s) ==
    /\ phase[w] = "up"
    /\ held[w] # NoVideo
    /\ job[w][s] = Idle
    /\ job' = [job EXCEPT ![w][s] = [Idle EXCEPT !.video = held[w], !.stage = "start"]]
    /\ held' = [held EXCEPT ![w] = NoVideo]
    /\ UNCHANGED <<phase, work, services>>

\* The loop gets the semaphore and starts the goroutine.  It blocks at the
\* semaphore with the popped task in hand, and does not look at ctx there.
StartJob(w, s) ==
    /\ held[w] # NoVideo
    /\ job[w][s] = Idle
    /\ job' = [job EXCEPT ![w][s] = [Idle EXCEPT !.video = held[w], !.stage = "start"]]
    /\ held' = [held EXCEPT ![w] = NoVideo]
    /\ UNCHANGED <<phase, work, services>>

\* SIGTERM cancels the one context that the loop and all jobs use.
Stop(w) ==
    /\ phase[w] = "up"
    /\ phase' = [phase EXCEPT ![w] = "stopping"]
    /\ Pay("stop")
    /\ UNCHANGED <<held, job, work, rows, queue, blobs>>

\* Run sees ctx.Done(), waits for the goroutines and returns.
Exit(w) ==
    /\ phase[w] = "stopping"
    /\ held[w] = NoVideo
    /\ \A s \in Slot : job[w][s] = Idle
    /\ phase' = [phase EXCEPT ![w] = "down"]
    /\ UNCHANGED <<held, job, work, services>>

\* The process dies.  Its work directory outlives it, unless the container
\* is replaced.
Crash(w) ==
    /\ phase[w] # "down"
    /\ phase' = [phase EXCEPT ![w] = "down"]
    /\ held' = [held EXCEPT ![w] = NoVideo]
    /\ job' = [job EXCEPT ![w] = [s \in Slot |-> Idle]]
    /\ \/ UNCHANGED work
       \/ work' = [work EXCEPT ![w] = [v \in Video |-> {}]]
    /\ Pay("crash")
    /\ UNCHANGED <<rows, queue, blobs>>

\* restart: unless-stopped
Restart(w) ==
    /\ phase[w] = "down"
    /\ phase' = [phase EXCEPT ![w] = "up"]
    /\ UNCHANGED <<held, job, work, services>>

-----------------------------------------------------------------------------
(* Worker.process, for the task of video v in slot s of worker w *)

At(w, s, v, stage) ==
    /\ phase[w] = "up"
    /\ job[w][s].video = v
    /\ job[w][s].stage = stage
    /\ UNCHANGED <<phase, held>>

Goes(w, s, stage) == job' = [job EXCEPT ![w][s].stage = stage]
Leaves(w, v, files) == work' = [work EXCEPT ![w][v] = files]

\* process returns, with an error or without: its deferred call is next.
Returns(w, s, failed) ==
    job' = [job EXCEPT ![w][s].stage = "cleanup", ![w][s].bad = failed]

Abort(w, s) == Returns(w, s, TRUE) /\ UNCHANGED work

\* A step fails because what it needs is not there, or by a fault.
Breaks(missing) == IF missing THEN Free ELSE Pay("fail")

\* setStatus(processing) and MkdirAll, the two steps that can fail before
\* the deferred RemoveAll is set up.
MarkProcessing(w, s, v) ==
    /\ At(w, s, v, "start")
    /\ \/ /\ Free
          /\ SetStatus(v, "processing")
          /\ Leaves(w, v, work[w][v] \union {"tmp"})
          /\ Goes(w, s, "fetch")
       \/ /\ \/ Pay("fail") /\ UNCHANGED status
             \/ (Pay("lost") \/ Pay("fail")) /\ SetStatus(v, "processing")
          /\ Goes(w, s, "failing")
          /\ UNCHANGED work
    /\ UNCHANGED <<progress, duration, queue, blobs>>

\* downloadFile
FetchOriginal(w, s, v) ==
    /\ At(w, s, v, "fetch")
    /\ \/ /\ v \in originals
          /\ "tmp" \in work[w][v]
          /\ Leaves(w, v, work[w][v] \union {"original"})
          /\ Goes(w, s, "probe")
          /\ SetProgress(v, 10)
       \/ /\ Breaks(v \notin originals \/ "tmp" \notin work[w][v])
          /\ Abort(w, s)
          /\ UNCHANGED progress
    /\ UNCHANGED <<status, duration, queue, blobs>>

\* ffmpeg.Probe and updateMetadata
ProbeOriginal(w, s, v) ==
    /\ At(w, s, v, "probe")
    /\ \/ /\ "original" \in work[w][v]
          /\ duration' = IF HasRow(v) THEN duration \union {v} ELSE duration
          /\ \/ SetProgress(v, 15) /\ Goes(w, s, "transcode") /\ UNCHANGED work
             \/ Pay("lost") /\ Abort(w, s) /\ UNCHANGED progress
       \/ /\ Breaks("original" \notin work[w][v])
          /\ Abort(w, s)
          /\ UNCHANGED <<duration, progress>>
    /\ UNCHANGED <<status, queue, blobs>>

\* ffmpeg.TranscodeHLS, which creates the directory hls
TranscodeMedia(w, s, v) ==
    /\ At(w, s, v, "transcode")
    /\ \/ /\ "original" \in work[w][v]
          /\ Leaves(w, v, work[w][v] \union {"tmp", "hls", "media"})
          /\ Goes(w, s, "tracks")
          /\ SetProgress(v, 65)
       \/ /\ Breaks("original" \notin work[w][v])
          /\ Abort(w, s)
          /\ UNCHANGED progress
    /\ UNCHANGED <<status, duration, queue, blobs>>

\* ExtractAudio, ExtractSubtitles, updateTracks, the preview and the sprite:
\* none of their errors is fatal.  Each makes its directory with MkdirAll and
\* so brings back the work directory, and hls in it, if they are gone.
ExtractTracks(w, s, v) ==
    /\ At(w, s, v, "tracks")
    /\ \E made \in {{"tmp"}, {"tmp", "hls"}} : Leaves(w, v, work[w][v] \union made)
    /\ Goes(w, s, "package")
    /\ \/ SetProgress(v, 85)
       \/ /\ Pay("slip")    \* of the three updates, 72, 78 and 85, not all went through
          /\ HasRow(v)
          /\ \E pct \in {72, 78} : progress' = [progress EXCEPT ![v] = pct]
    /\ UNCHANGED <<status, duration, queue, blobs>>

\* WriteMasterManifest, and the Walk of uploadHLS over what is in hls
Package(w, s, v) ==
    /\ At(w, s, v, "package")
    /\ \/ /\ "hls" \in work[w][v]
          /\ Free
          /\ Leaves(w, v, work[w][v] \union {"master"})
          /\ job' = [job EXCEPT ![w][s].stage = "upload",
                                ![w][s].todo = (work[w][v] \intersect File) \union {"master"}]
       \/ /\ Breaks("hls" \notin work[w][v])
          /\ Abort(w, s)
    /\ UNCHANGED <<rows, queue, blobs>>

\* The upload of file f is over, with an error or without.
Tried(w, s, f, failed) ==
    job' = [job EXCEPT ![w][s].todo = @ \ {f}, ![w][s].bad = @ \/ failed]

\* Mutant of UploadFile: errc has no capacity, and an upload that fails waits
\* forever to report it.
UploadFileBlocks(w, s, v, f) ==
    /\ At(w, s, v, "upload")
    /\ f \in job[w][s].todo
    /\ ~job[w][s].bad
    /\ \/ /\ f \in work[w][v]
          /\ Free
          /\ Tried(w, s, f, FALSE)
          /\ hls' = [hls EXCEPT ![v] = @ \union {f}]
       \/ /\ Breaks(f \notin work[w][v])
          /\ job' = [job EXCEPT ![w][s].bad = TRUE]
          /\ UNCHANGED hls
    /\ UNCHANGED <<work, rows, queue, originals, thumbs>>

\* One of the concurrent uploads of uploadHLS ends.  An error is kept, and
\* the other uploads go on.
UploadFile(w, s, v, f) ==
    /\ At(w, s, v, "upload")
    /\ f \in job[w][s].todo
    /\ \/ /\ f \in work[w][v]
          /\ \E o \in {"ok", "lost"} : Ends(o) /\ Tried(w, s, f, o = "lost")
          /\ hls' = [hls EXCEPT ![v] = @ \union {f}]
       \/ /\ Breaks(f \notin work[w][v])
          /\ Tried(w, s, f, TRUE)
          /\ UNCHANGED hls
    /\ UNCHANGED <<work, rows, queue, originals, thumbs>>

\* Mutant of UploadDone: the errors of the uploads are not looked at.
UploadDoneUnchecked(w, s, v) ==
    /\ At(w, s, v, "upload")
    /\ job[w][s].todo = {}
    /\ Goes(w, s, "thumbs")
    /\ SetProgress(v, 95)
    /\ UNCHANGED <<work, status, duration, queue, blobs>>

\* Mutant of UploadDone: progress is written before the errors are looked at.
UploadDoneEarly(w, s, v) ==
    /\ At(w, s, v, "upload")
    /\ job[w][s].todo = {}
    /\ SetProgress(v, 95)
    /\ \/ ~job[w][s].bad /\ Goes(w, s, "thumbs") /\ UNCHANGED work
       \/ job[w][s].bad /\ Abort(w, s)
    /\ UNCHANGED <<status, duration, queue, blobs>>

\* All uploads have ended: uploadHLS returns the first error, if there is one.
UploadDone(w, s, v) ==
    /\ At(w, s, v, "upload")
    /\ job[w][s].todo = {}
    /\ \/ /\ ~job[w][s].bad
          /\ Goes(w, s, "thumbs")
          /\ SetProgress(v, 95)
          /\ UNCHANGED work
       \/ /\ job[w][s].bad
          /\ Free
          /\ Abort(w, s)
          /\ UNCHANGED progress
    /\ UNCHANGED <<status, duration, queue, blobs>>

\* The upload of preview.jpg and sprite.jpg, as far as they were generated:
\* no error of it is fatal.
UploadThumbs(w, s, v) ==
    /\ At(w, s, v, "thumbs")
    /\ Goes(w, s, "publish")
    /\ \/ thumbs' = thumbs \union {v}
       \/ UNCHANGED thumbs
    /\ SetProgress(v, 100)
    /\ UNCHANGED <<work, status, duration, queue, originals, hls>>

\* Mutant of Publish: an error of setStatus(ready) is only logged.
PublishLogs(w, s, v) ==
    /\ At(w, s, v, "publish")
    /\ \E o \in Outcome :
        /\ Ends(o)
        /\ IF Took(o) THEN SetStatus(v, "ready") ELSE UNCHANGED status
    /\ Returns(w, s, FALSE)
    /\ UNCHANGED <<work, progress, duration, queue, blobs>>

\* setStatus(ready), the last call of process
Publish(w, s, v) ==
    /\ At(w, s, v, "publish")
    /\ \E o \in Outcome :
        /\ Ends(o)
        /\ IF Took(o) THEN SetStatus(v, "ready") ELSE UNCHANGED status
        /\ Returns(w, s, o # "ok")
    /\ UNCHANGED <<work, progress, duration, queue, blobs>>

\* The deferred RemoveAll of a work directory: an error of it is only logged,
\* and what could not be removed stays.
Removes(w, v) ==
    \/ Free /\ Leaves(w, v, {})
    \/ /\ Pay("keep")
       /\ \E rest \in SUBSET work[w][v] :
           /\ "tmp" \in rest
           /\ rest \intersect File # {} => "hls" \in rest
           /\ Leaves(w, v, rest)

\* The job gives back its slot, or Run goes on to mark its row failed.
Cleaned(w, s) ==
    job' = [job EXCEPT ![w][s] = IF @.bad THEN [@ EXCEPT !.stage = "failing"] ELSE Idle]

\* Mutant of RemoveWorkDir: the directory is removed only when process fails.
RemoveWorkDirOnError(w, s, v) ==
    /\ At(w, s, v, "cleanup")
    /\ Cleaned(w, s)
    /\ IF job[w][s].bad THEN Removes(w, v) ELSE Free /\ UNCHANGED work
    /\ UNCHANGED <<rows, queue, blobs>>

RemoveWorkDir(w, s, v) ==
    /\ At(w, s, v, "cleanup")
    /\ Cleaned(w, s)
    /\ Removes(w, v)
    /\ UNCHANGED <<rows, queue, blobs>>

\* Mutant of MarkFailed: the error of a job is logged, and its row left alone.
MarkFailedLogs(w, s, v) ==
    /\ At(w, s, v, "failing")
    /\ job' = [job EXCEPT ![w][s] = Idle]
    /\ UNCHANGED <<work, services>>

\* Mutant of MarkFailed: a failed row starts again at 0 percent.
MarkFailedResets(w, s, v) ==
    /\ At(w, s, v, "failing")
    /\ SetStatus(v, "failed")
    /\ progress' = [progress EXCEPT ![v] = 0]
    /\ job' = [job EXCEPT ![w][s] = Idle]
    /\ Free
    /\ UNCHANGED <<work, duration, queue, blobs>>

\* Run marks the row of a job that failed; an error of that is only logged.
MarkFailed(w, s, v) ==
    /\ At(w, s, v, "failing")
    /\ \/ Free /\ SetStatus(v, "failed")
       \/ Pay("fail") /\ UNCHANGED status
    /\ job' = [job EXCEPT ![w][s] = Idle]
    /\ UNCHANGED <<work, progress, duration, queue, blobs>>

\* ctx is cancelled: every call under it, ffmpeg included, fails at once and
\* without effect, the UPDATE to failed as well, so that the job ends and
\* leaves its row as it is.
Abandon(w, s) ==
    /\ phase[w] = "stopping"
    /\ job[w][s] # Idle
    /\ IF job[w][s].stage \in {"start", "failing"} THEN Free /\ UNCHANGED work
       ELSE Removes(w, job[w][s].video)
    /\ job' = [job EXCEPT ![w][s] = Idle]
    /\ UNCHANGED <<phase, held, rows, queue, blobs>>

-----------------------------------------------------------------------------
ProcessStep(w, s, v) ==
    \/ MarkProcessing(w, s, v) \/ FetchOriginal(w, s, v) \/ ProbeOriginal(w, s, v)
    \/ TranscodeMedia(w, s, v) \/ ExtractTracks(w, s, v) \/ Package(w, s, v)
    \/ \E f \in File : UploadFile(w, s, v, f)
    \/ UploadDone(w, s, v) \/ UploadThumbs(w, s, v) \/ Publish(w, s, v)
    \/ RemoveWorkDir(w, s, v) \/ MarkFailed(w, s, v)

JobStep(w, s) == Abandon(w, s) \/ \E v \in Video : ProcessStep(w, s, v)

LoopStep(w) ==
    Pop(w) \/ PollAgain(w) \/ Exit(w) \/ \E s \in Slot : StartJob(w, s)

TranscoderNext ==
    \E w \in Worker :
        \/ LoopStep(w) \/ Stop(w) \/ Crash(w) \/ Restart(w)
        \/ \E s \in Slot : JobStep(w, s)
=============================================================================
