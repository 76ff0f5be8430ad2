------------------------------ MODULE Pipeline ------------------------------
(***************************************************************************)
(* The way of a video from its upload to a stream that can be played: the  *)
(* handlers of the API server (UploadApi) and the transcoder processes     *)
(* (Transcoder), which meet only in PostgreSQL, Redis and SeaweedFS        *)
(* (Services).                                                             *)
(***************************************************************************)
EXTENDS UploadApi, Transcoder

vars == <<services, apiVars, transcoderVars>>

Init == ServicesInit /\ ApiInit /\ TranscoderInit

Next ==
    \/ ApiNext /\ UNCHANGED transcoderVars
    \/ TranscoderNext /\ UNCHANGED apiVars

Spec == Init /\ [][Next]_vars

(***************************************************************************)
(* An upload that has reached the API runs to its end, and so do the loop  *)
(* and the goroutines of a worker.  Docker restarts a worker that is down. *)
(* Nothing is assumed of clients, of DELETE requests and of faults.        *)
(***************************************************************************)
Fairness ==
    /\ \A v \in Video : WF_vars(UploadStep(v) /\ UNCHANGED transcoderVars)
    /\ \A w \in Worker :
        /\ WF_vars(LoopStep(w) /\ UNCHANGED apiVars)
        /\ WF_vars(Restart(w) /\ UNCHANGED apiVars)
        /\ \A s \in Slot : WF_vars(JobStep(w, s) /\ UNCHANGED apiVars)

FairSpec == Spec /\ Fairness

-----------------------------------------------------------------------------
(* Where the task of a video is. *)

Queued(v) == \E i \in 1..Len(queue) : queue[i] = v
HeldBy(w, v) == held[w] = v
RunBy(w, s, v) == job[w][s].video = v

HasTask(v) ==
    \/ Queued(v)
    \/ \E w \in Worker : HeldBy(w, v) \/ \E s \in Slot : RunBy(w, s, v)

\* How often faults of kind k have happened so far.
Spent(k) == Budget[k] - budget[k]

Playable(v) == File \subseteq hls[v] /\ v \in duration

-----------------------------------------------------------------------------
TypeOK == ServicesTypeOK /\ ApiTypeOK /\ TranscoderTypeOK

(***************************************************************************)
(* A row that says ready has its whole stream, the master playlist and     *)
(* what it refers to, under hls/, and its duration: GET /videos/{id} hands *)
(* out the manifest URL on that word alone.  Only a task that was enqueued *)
(* twice can break this, as two jobs then share a work directory.          *)
(***************************************************************************)
ReadyIsPlayable ==
    None("dup") => \A v \in Video : status[v] = "ready" => Playable(v)

(***************************************************************************)
(* While no LPUSH was repeated a video has at most one task, wherever it   *)
(* is: in the list, in the hands of a loop, or in a slot.  Every write to  *)
(* the work directory <TempDir>/<video> and every status write of process  *)
(* counts on it.                                                           *)
(***************************************************************************)
OneTaskPerVideo ==
    None("dup") =>
        /\ \A i, j \in 1..Len(queue) : queue[i] = queue[j] => i = j
        /\ \A w \in Worker, v \in Video : HeldBy(w, v) => ~Queued(v)
        /\ \A w, x \in Worker, v \in Video : HeldBy(w, v) /\ HeldBy(x, v) => w = x
        /\ \A w \in Worker, s \in Slot, v \in Video :
            RunBy(w, s, v) =>
                /\ ~Queued(v)
                /\ \A x \in Worker : ~HeldBy(x, v)
                /\ \A x \in Worker, t \in Slot : RunBy(x, t, v) => x = w /\ t = s

(***************************************************************************)
(* The original that a row names is in storage as long as there is a row:  *)
(* GET /videos/{id}/download and the transcoder rely on it.  An INSERT     *)
(* that took effect with its reply lost is the exception: its original is  *)
(* deleted by the undo.                                                    *)
(***************************************************************************)
RowHasOriginal ==
    None("lost") => \A v \in Video : HasRow(v) => v \in originals

(***************************************************************************)
(* Once storage.Upload has returned, no single mishap leaves an upload     *)
(* half undone, neither a call that fails, nor a lost reply, nor a client  *)
(* that hangs up (the undo has a context of its own): when the request     *)
(* ended before a row was made, its original is gone.  Only the end of the *)
(* process leaves one.  A request that ends in storage.Upload itself is    *)
(* not among these: the filer may have the file by then, and nothing       *)
(* removes it (state "unstored").                                          *)
(***************************************************************************)
Mishaps == Spent("fail") + Spent("lost") + Spent("gone")

RejectedLeavesNoOriginal ==
    None("crash") /\ Mishaps <= 1 =>
        \A v \in Video : upload[v] = "rejected" /\ status[v] = "none" => v \notin originals

(***************************************************************************)
(* A row is stranded when it says pending or processing and no task and no *)
(* request will ever change that.                                          *)
(***************************************************************************)
Stranded(v) ==
    /\ status[v] \in {"pending", "processing"}
    /\ ~HasTask(v)
    /\ upload[v] \notin InFlight

(***************************************************************************)
(* One failing call never strands a row: the error is answered by marking  *)
(* the row failed.  It takes a second failure, of that UPDATE, or a lost   *)
(* reply (also of an LPUSH that is then repeated), a client that hangs up, *)
(* a crash or a shutdown.                                                  *)
(***************************************************************************)
StrandedNeedsMore ==
    \A v \in Video : Stranded(v) =>
        \/ Spent("fail") >= 2
        \/ \E k \in {"lost", "dup", "gone", "crash", "stop"} : ~None(k)

(***************************************************************************)
(* The percentage a client polls is never ahead of the work: from 15 the   *)
(* duration is known, from 95 the stream is stored.                        *)
(***************************************************************************)
ProgressIsEarned ==
    None("dup") =>
        \A v \in Video : HasRow(v) =>
            /\ progress[v] >= 15 => v \in duration
            /\ progress[v] >= 95 => File \subseteq hls[v]

(***************************************************************************)
(* A worker that did not crash and whose RemoveAll had no error leaves no  *)
(* work directory behind, whichever step failed and also when two jobs     *)
(* share it or the worker is shut down: only a job that is between         *)
(* MkdirAll and the end of process has one.                                *)
(***************************************************************************)
WorkDirsRemoved ==
    None("crash") /\ None("keep") =>
        \A w \in Worker, v \in Video : work[w][v] # {} =>
            \E s \in Slot : RunBy(w, s, v) /\ job[w][s].stage # "start"

-----------------------------------------------------------------------------
(***************************************************************************)
(* Why ReadyIsPlayable holds: the conjuncts below are inductive together.  *)
(***************************************************************************)

\* Faults are only ever spent.
BudgetInv == \A k \in FaultKind : budget[k] <= Budget[k]

\* What the request of a video has done before there is a row, a task, or a
\* directory to delete.
RequestInv ==
    \A v \in Video :
        /\ upload[v] \in {"new", "stored"} => status[v] = "none"
        /\ HasTask(v) => upload[v] \in {"unqueued", "accepted", "rejected"}
        /\ del[v] # "idle" => status[v] = "deleted"

\* What a job can count on when it has come to its stage.
StageOK(w, s, v) ==
    /\ job[w][s].stage \in {"tracks", "package"} => {"hls", "media"} \subseteq work[w][v]
    /\ HasRow(v) =>
        /\ job[w][s].stage \in
             {"transcode", "tracks", "package", "upload", "thumbs", "publish"} => v \in duration
        /\ job[w][s].stage = "upload" /\ ~job[w][s].bad =>
             \A f \in File : f \in job[w][s].todo \/ f \in hls[v]
        /\ job[w][s].stage \in {"thumbs", "publish"} => File \subseteq hls[v]

StageInv ==
    None("dup") =>
        \A w \in Worker, s \in Slot, v \in Video : RunBy(w, s, v) => StageOK(w, s, v)

PlayableInv ==
    TypeOK /\ BudgetInv /\ RequestInv /\ OneTaskPerVideo /\ StageInv /\ ReadyIsPlayable

-----------------------------------------------------------------------------
(***************************************************************************)
(* Why the other invariants and the action properties hold: each of these  *)
(* is inductive together with PlayableInv and the ones before it.          *)
(***************************************************************************)

\* While no reply is lost, the undo finds no row, and a row its original.
OriginalInv ==
    None("lost") =>
        \A v \in Video :
            /\ upload[v] = "stored" \/ HasRow(v) => v \in originals
            /\ upload[v] = "undo" => status[v] = "none"

\* An original without a row has cost as many mishaps as its request is steps
\* away from the end that should have removed it.
RejectInv ==
    None("crash") =>
        \A v \in Video :
            /\ upload[v] \in {"created", "unqueued"} => status[v] # "none"
            /\ upload[v] = "undo" => Mishaps >= 1
            /\ upload[v] = "rejected" /\ status[v] = "none" /\ v \in originals => Mishaps >= 2

\* A work directory belongs to a job that will remove it.
DirInv ==
    None("crash") /\ None("keep") =>
        \A w \in Worker, v \in Video : work[w][v] # {} =>
            \E s \in Slot : RunBy(w, s, v) /\ job[w][s].stage \notin {"start", "failing"}

\* A row starts at 0 percent.
EarnedInv ==
    /\ \A v \in Video : status[v] = "none" => progress[v] = 0
    /\ ProgressIsEarned

\* What the row of job j may say at its stage, unless it was deleted
StatusAt(j) ==
    IF j.stage = "start" THEN {"pending"}
    ELSE IF j.stage = "failing" THEN {"pending", "processing"}
    ELSE IF j.stage = "cleanup" /\ ~j.bad THEN {"ready"} ELSE {"processing"}

\* Only an accepted video has a task, and its row is as far as its task.
OrderInv ==
    None("lost") /\ None("dup") =>
        \A v \in Video :
            /\ upload[v] \in {"created", "unqueued"} => status[v] \in {"pending", "deleted"}
            /\ HasTask(v) => upload[v] = "accepted"
            /\ Queued(v) \/ (\E w \in Worker : HeldBy(w, v)) => status[v] \in {"pending", "deleted"}
            /\ \A w \in Worker, s \in Slot :
                 RunBy(w, s, v) => status[v] \in StatusAt(job[w][s]) \union {"deleted"}

\* The percentage that a job has reached at most when it comes to its stage
Reached(stage) ==
    IF stage \in {"start", "fetch"} THEN 0
    ELSE IF stage = "probe" THEN 10
    ELSE IF stage = "transcode" THEN 15
    ELSE IF stage = "tracks" THEN 65
    ELSE IF stage \in {"package", "upload"} THEN 85
    ELSE IF stage = "thumbs" THEN 95 ELSE 100

\* The percentage is not ahead of the one job of its video.
ForwardInv ==
    None("dup") =>
        \A v \in Video :
            /\ upload[v] \in {"new", "stored", "created", "undo"} => progress[v] = 0
            /\ Queued(v) \/ (\E w \in Worker : HeldBy(w, v)) => progress[v] = 0
            /\ \A w \in Worker, s \in Slot :
                 RunBy(w, s, v) => progress[v] <= Reached(job[w][s].stage)

\* Nothing happened but calls that failed.
Calm == \A k \in {"lost", "dup", "gone", "crash", "stop"} : None(k)

\* A job lacks nothing, so that only a failing call makes it fail.
Equipped(w, s, v) ==
    /\ job[w][s].stage = "fetch" => "tmp" \in work[w][v]
    /\ job[w][s].stage \in {"probe", "transcode"} => "original" \in work[w][v]
    /\ job[w][s].stage \in {"tracks", "package"} => "hls" \in work[w][v]
    /\ job[w][s].stage = "upload" => job[w][s].todo \subseteq work[w][v]
    /\ job[w][s].bad /\ HasRow(v) => Spent("fail") >= 1
    /\ job[w][s].stage = "failing" /\ HasRow(v) => Spent("fail") >= 1
    /\ job[w][s].stage = "cleanup" /\ ~job[w][s].bad => status[v] \notin {"pending", "processing"}

StrandInv ==
    Calm =>
        /\ \A w \in Worker : phase[w] = "up"
        /\ \A v \in Video : upload[v] = "unqueued" => Spent("fail") >= 1
        /\ \A w \in Worker, s \in Slot, v \in Video : RunBy(w, s, v) => Equipped(w, s, v)
        /\ Spent("fail") <= 1 => \A v \in Video : ~Stranded(v)

-----------------------------------------------------------------------------
(* What a step may never do. *)

StatusStep ==
    {<<"none", "pending">>, <<"pending", "processing">>, <<"pending", "failed">>,
     <<"processing", "ready">>, <<"processing", "failed">>}
        \union {<<s, "deleted">> : s \in VideoStatus}

StatusMoves(v) == status'[v] # status[v] => <<status[v], status'[v]>> \in StatusStep

(***************************************************************************)
(* A status moves along pending, processing, ready or failed, and neither  *)
(* a settled nor a deleted video comes back, as long as no reply is lost   *)
(* and no task is enqueued twice.                                          *)
(***************************************************************************)
StatusOrder == [][None("lost") /\ None("dup") => \A v \in Video : StatusMoves(v)]_vars

(***************************************************************************)
(* The percentage never goes back while a video has one task.              *)
(***************************************************************************)
ProgressForward == [][None("dup") => \A v \in Video : progress'[v] >= progress[v]]_vars

-----------------------------------------------------------------------------
(* What must eventually happen, under FairSpec. *)

(***************************************************************************)
(* A video whose upload was accepted ends up ready, failed or deleted: no  *)
(* job, loop or slot is stuck for good because of what another one does.   *)
(* It takes a lost reply (of BRPOP, say), a crash or a shutdown to stop    *)
(* it, or two failing calls, or one when a repeated LPUSH made a second    *)
(* job that removes the work directory of the first.                       *)
(***************************************************************************)
AcceptedSettles ==
    \A v \in Video :
        upload[v] = "accepted" ~>
            \/ status[v] \in {"ready", "failed", "deleted"}
            \/ Spent("fail") + Spent("dup") >= 2
            \/ \E k \in {"lost", "crash", "stop"} : ~None(k)

(***************************************************************************)
(* The same without the exception: README says that a video ends ready or  *)
(* failed, and tells clients to poll for it.  A shutdown breaks it, as it  *)
(* cancels the UPDATE that marks the video failed along with the job.      *)
(***************************************************************************)
AcceptedAlwaysSettles ==
    \A v \in Video :
        upload[v] = "accepted" ~> status[v] \in {"ready", "failed", "deleted"}

(***************************************************************************)
(* Every task comes to an end, also that of a video deleted meanwhile and  *)
(* also when workers crash and stop: no job waits forever, and no task     *)
(* stays in the list or in the hands of a loop that waits for a slot.      *)
(***************************************************************************)
TasksEnd == \A v \in Video : HasTask(v) ~> ~HasTask(v)

(***************************************************************************)
(* After SIGTERM a worker process ends: Run does not wait forever for its  *)
(* goroutines, nor at the semaphore.                                       *)
(***************************************************************************)
ShutdownEnds == \A w \in Worker : phase[w] = "stopping" ~> phase[w] = "down"

-----------------------------------------------------------------------------
(***************************************************************************)
(* The pipeline implements the life of a video that the API promises: each *)
(* step is one of VideoLifecycle or nothing to be seen, up to and with the *)
(* first reply that is lost or task that is enqueued twice; calls that     *)
(* fail, clients that hang up, crashes and shutdowns do no harm to it.     *)
(***************************************************************************)
Lifecycle == INSTANCE VideoLifecycle
    WITH life <- status, stream <- {v \in Video : File \subseteq hls[v]}

ImplementsLifecycle ==
    /\ Lifecycle!LifecycleInit
    /\ [][None("lost") /\ None("dup")
            => Lifecycle!LifecycleNext \/ UNCHANGED Lifecycle!lifecycle]_vars

(***************************************************************************)
(* A DELETE that was answered, with no task left that could still upload,  *)
(* has removed all files of the video.  A job that was running when the    *)
(* row went away breaks this: its UPDATEs touch no row, which is no error, *)
(* and its upload brings the stream back.                                  *)
(***************************************************************************)
DeletedLeavesNothing ==
    \A v \in Video :
        status[v] = "deleted" /\ del[v] = "idle" /\ ~HasTask(v) =>
            v \notin originals /\ hls[v] = {} /\ v \notin thumbs
=============================================================================
