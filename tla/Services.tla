------------------------------ MODULE Services ------------------------------
(***************************************************************************)
(* The three external services that the API server and the transcoder      *)
(* workers share, and the only way the two programs interact:              *)
(*                                                                         *)
(*   PostgreSQL   one row of table videos per video (migrations/001)       *)
(*   Redis        one list, the FIFO of transcode tasks                    *)
(*   SeaweedFS    the files originals/<id>, hls/<id>/..., thumbnails/<id>  *)
(*                                                                         *)
(* Every call to a service is one atomic step with an outcome.  A faulty   *)
(* outcome is paid for from the finite Budget, so a run explores every     *)
(* placement of a bounded number of faults.                                *)
(***************************************************************************)
EXTENDS Naturals, Sequences

CONSTANTS
    Video,      \* the ids that uuid.New() hands out, one per upload request
    NoVideo,    \* "no task": no member of Video
    Budget      \* how many faults of each kind a behaviour may contain

(***************************************************************************)
(* fail   a call returns an error and had no effect; ffmpeg or a local     *)
(*        file operation fails                                             *)
(* slip   an UPDATE of progress fails, which is only logged                *)
(* lost   a call took effect, and its reply was lost: the caller gets an   *)
(*        error (a broken connection, a context cancelled in flight)       *)
(* dup    go-redis retries an LPUSH whose reply was lost: two list entries *)
(* gone   the HTTP client disconnects, so that the request context of the  *)
(*        handler is cancelled                                             *)
(* keep   os.RemoveAll cannot remove all of a work directory, which is     *)
(*        only logged                                                      *)
(* crash  a process ends without running its deferred code                 *)
(* stop   a transcoder gets SIGTERM                                        *)
(***************************************************************************)
FaultKind == {"fail", "slip", "lost", "dup", "gone", "keep", "crash", "stop"}

ASSUME NoVideoAssumption == NoVideo \notin Video
ASSUME BudgetAssumption == Budget \in [FaultKind -> Nat]

VARIABLES
    status,     \* column status, or "none" / "deleted" when there is no row
    progress,   \* column progress
    duration,   \* the videos whose column duration is not NULL
    queue,      \* the Redis list, its next task first
    originals,  \* the videos with a file under originals/
    hls,        \* the files under hls/<video>/
    thumbs,     \* the videos with a file under thumbnails/
    budget      \* the faults still to come

rows == <<status, progress, duration>>
blobs == <<originals, hls, thumbs>>
services == <<status, progress, duration, queue, originals, hls, thumbs, budget>>

-----------------------------------------------------------------------------
(* What the services hold. *)

VideoStatus == {"pending", "processing", "ready", "failed"}
RowState == VideoStatus \union {"none", "deleted"}

\* "master" is master.m3u8; "media" stands for all that the transcode of the
\* video and its tracks wrote: variant playlists, init segments and segments.
File == {"master", "media"}

Percent == {0, 10, 15, 65, 72, 78, 85, 95, 100}

HasRow(v) == status[v] \in VideoStatus

ServicesInit ==
    /\ status = [v \in Video |-> "none"]
    /\ progress = [v \in Video |-> 0]
    /\ duration = {}
    /\ queue = << >>
    /\ originals = {}
    /\ hls = [v \in Video |-> {}]
    /\ thumbs = {}
    /\ budget = Budget

ServicesTypeOK ==
    /\ status \in [Video -> RowState]
    /\ progress \in [Video -> Percent]
    /\ duration \subseteq Video
    /\ queue \in Seq(Video)
    /\ originals \subseteq Video
    /\ hls \in [Video -> SUBSET File]
    /\ thumbs \subseteq Video
    /\ budget \in [FaultKind -> Nat]

-----------------------------------------------------------------------------
(* Calls and their outcomes. *)

\* The action draws a fault of kind k from the budget.
Pay(k) ==
    /\ budget[k] > 0
    /\ budget' = [budget EXCEPT ![k] = @ - 1]

Free == UNCHANGED budget

Outcome == {"ok", "fail", "lost"}

\* A call ends with outcome o; its effect takes place unless it failed.
Ends(o) == IF o = "ok" THEN Free ELSE Pay(o)
Took(o) == o # "fail"

\* Mutant of SetStatus: an upsert, which brings back the row of a deleted video.
SetStatusUpserts(v, s) == status' = [status EXCEPT ![v] = s]

\* UPDATE videos SET status = s WHERE id = v: no row, no effect and no error.
SetStatus(v, s) ==
    status' = IF HasRow(v) THEN [status EXCEPT ![v] = s] ELSE status

\* Mutant of SetProgress: SET progress = progress + $1.
SetProgressAdds(v, pct) ==
    /\ Free
    /\ progress' = [progress EXCEPT ![v] = @ + pct]

\* The video's row, if there is one, shows progress pct.  An error is only
\* logged, so a lost reply is as good as none.
SetProgress(v, pct) ==
    \/ /\ Free
       /\ progress' = IF HasRow(v) THEN [progress EXCEPT ![v] = pct] ELSE progress
    \/ /\ Pay("slip")
       /\ UNCHANGED progress

\* No fault of kind k has happened so far.
None(k) == budget[k] = Budget[k]
=============================================================================
