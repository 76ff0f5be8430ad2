--------------------------- MODULE LifecycleProofs ---------------------------
(***************************************************************************)
(* How a video moves on, for every instance of Pipeline: its progress, its *)
(* status, when it is stranded, and that the pipeline implements the life  *)
(* of a video that VideoLifecycle promises.                                *)
(***************************************************************************)
EXTENDS RowsProofs

-----------------------------------------------------------------------------
(* Where a task comes from. *)

Waits(v) == Queued(v) \/ \E w \in Worker : HeldBy(w, v)

\* A request goes forward.
LEMMA UploadMoves ==
    ASSUME ApiTypeOK, Next, NEW v \in Video
    PROVE  /\ upload[v] = "accepted" => upload'[v] = "accepted"
           /\ upload'[v] \in {"new", "stored", "created", "undo"} =>
                upload[v] \in {"new", "stored", "created", "undo"}
  <1> USE DEF ApiTypeOK
  <1> DEFINE Forward == /\ upload[v] = "accepted" => upload'[v] = "accepted"
                        /\ upload'[v] \in {"new", "stored", "created", "undo"} =>
                             upload[v] \in {"new", "stored", "created", "undo"}
  <1>1. ASSUME NEW u \in Video, NEW from, NEW to, UploadGoes(u, from, to),
               from \in {"new", "stored", "created", "undo", "unqueued"},
               from = "unqueued" => to = "rejected"
        PROVE  Forward
    BY <1>1 DEF UploadGoes
  <1>2. ASSUME NEW u \in Video,
               \/ StoreOriginal(u) \/ CreateRow(u) \/ UndoStore(u) \/ Enqueue(u)
               \/ MarkEnqueueFailed(u) \/ UploadGone(u)
        PROVE  Forward
    BY <1>1, <1>2 DEF StoreOriginal, CreateRow, UndoStore, Enqueue, MarkEnqueueFailed, UploadGone
  <1>3. ASSUME NEW u \in Video, DeleteRow(u) \/ DeleteDir(u) \/ DeleteGone(u)
        PROVE  upload' = upload
    BY <1>3 DEF DeleteRow, DeleteDir, DeleteGone
  <1>4. CASE ApiCrash
    BY <1>4 DEF ApiCrash, InFlight
  <1>5. CASE TranscoderNext /\ UNCHANGED apiVars
    BY <1>5 DEF apiVars
  <1> QED BY <1>2, <1>3, <1>4, <1>5 DEF Next, ApiNext, UploadStep

\* Where a task that waits, or that is in a slot, was before.
LEMMA TaskMoves ==
    ASSUME TypeOK, Next, NEW v \in Video
    PROVE  /\ Waits(v)' =>
                \/ Waits(v)
                \/ /\ upload[v] = "created" /\ UNCHANGED <<status, progress>>
                   /\ upload'[v] = "accepted" \/ (upload'[v] = "unqueued" /\ Pay("lost"))
           /\ \A w \in Worker, s \in Slot : RunBy(w, s, v)' =>
                \/ HeldBy(w, v) /\ StartJob(w, s)
                \/ RunBy(w, s, v) /\ job'[w][s] = job[w][s]
                \/ ProcessStep(w, s, v)
  <1> USE DEF TypeOK
  <1> DEFINE Pushed == /\ upload[v] = "created" /\ UNCHANGED <<status, progress>>
                       /\ upload'[v] = "accepted" \/ (upload'[v] = "unqueued" /\ Pay("lost"))
             Starts(w, s) == \/ HeldBy(w, v) /\ StartJob(w, s)
                             \/ RunBy(w, s, v) /\ job'[w][s] = job[w][s]
                             \/ ProcessStep(w, s, v)
             Good == /\ Waits(v)' => Waits(v) \/ Pushed
                     /\ \A w \in Worker, s \in Slot : RunBy(w, s, v)' => Starts(w, s)
  <1>1. CASE UNCHANGED <<queue, held, job>>
    BY <1>1 DEF Waits, Queued, HeldBy, RunBy
  <1>2. ASSUME NEW u \in Video, Enqueue(u), UNCHANGED transcoderVars
        PROVE  Good
    <2>1. \A w \in Worker, s \in Slot : RunBy(w, s, v)' => Starts(w, s)
      BY <1>2 DEF transcoderVars, RunBy
    <2>2. CASE u = v
      <3>1. CASE queue' = queue
        BY <1>2, <2>1, <3>1 DEF Waits, Queued, HeldBy, transcoderVars
      <3>2. CASE queue' # queue
        <4>1. Pushed
          BY <1>2, <2>2, <3>2 DEF Enqueue, UploadGoes, Ends, rows, ApiTypeOK
        <4> QED BY <2>1, <4>1
      <3> QED BY <3>1, <3>2
    <2>3. CASE u # v
      <3>1. Queued(v)' => Queued(v)
        <4>1. queue \in Seq(Video) /\ queue' \in {queue, Append(queue, u), Append(Append(queue, u), u)}
          BY <1>2 DEF Enqueue, ServicesTypeOK, Outcome
        <4> QED BY <1>2, <2>3, <4>1 DEF Queued
      <3> QED BY <1>2, <2>1, <3>1 DEF Waits, HeldBy, transcoderVars
    <2> QED BY <2>2, <2>3
  <1>3. CASE ApiNext /\ UNCHANGED transcoderVars
    <2>1. ASSUME NEW u \in Video,
                 \/ StoreOriginal(u) \/ CreateRow(u) \/ UndoStore(u) \/ MarkEnqueueFailed(u)
                 \/ UploadGone(u) \/ DeleteRow(u) \/ DeleteDir(u) \/ DeleteGone(u)
          PROVE  queue' = queue
      BY <2>1 DEF StoreOriginal, CreateRow, UndoStore, MarkEnqueueFailed, UploadGone, DeleteRow,
                  DeleteDir, DeleteGone
    <2>2. CASE ApiCrash
      BY <1>1, <1>3, <2>2 DEF ApiCrash, transcoderVars
    <2> QED BY <1>1, <1>2, <1>3, <2>1, <2>2 DEF ApiNext, UploadStep, transcoderVars
  <1>4. ASSUME NEW w \in Worker, Pop(w)
        PROVE  Good
    <2>1. /\ Len(queue) \in Nat \ {0}
          /\ Head(queue) = queue[1]
          /\ Len(queue') = Len(queue) - 1
          /\ \A i \in 1..Len(queue') : queue'[i] = queue[i + 1]
      BY <1>4 DEF Pop, ServicesTypeOK
    <2>2. Queued(v)' => Queued(v)
      BY <2>1 DEF Queued
    <2>3. Head(queue) = v => Queued(v)
      BY <2>1 DEF Queued
    <2>4. \A x \in Worker : HeldBy(x, v)' => HeldBy(x, v) \/ Queued(v)
      BY <1>4, <2>3 DEF Pop, HeldBy, TranscoderTypeOK
    <2> QED BY <1>4, <2>2, <2>4 DEF Waits, Pop, RunBy
  <1>5. ASSUME NEW w \in Worker, NEW s \in Slot, StartJob(w, s)
        PROVE  Good
    <2>1. \A x \in Worker : HeldBy(x, v)' => HeldBy(x, v)
      BY <1>5, NoVideoAssumption DEF StartJob, HeldBy, TranscoderTypeOK
    <2>2. Queued(v)' => Queued(v)
      BY <1>5 DEF StartJob, services, Queued
    <2>3. OtherSlots(w, s) /\ job'[w][s] = [Idle EXCEPT !.video = held[w], !.stage = "start"]
      BY <1>5 DEF StartJob, OtherSlots, TranscoderTypeOK
    <2>4. job'[w][s].video = held[w]
      BY <2>3 DEF Idle
    <2>5. \A x \in Worker, t \in Slot : RunBy(x, t, v)' => Starts(x, t)
      BY <1>5, <2>3, <2>4 DEF OtherSlots, RunBy, HeldBy
    <2> QED BY <2>1, <2>2, <2>5 DEF Waits
  <1>6. ASSUME NEW w \in Worker, Crash(w)
        PROVE  Good
    <2>1. /\ queue' = queue
          /\ \A x \in Worker : held'[x] \in {held[x], NoVideo}
      BY <1>6 DEF Crash, TranscoderTypeOK
    <2>2. \A x \in Worker, t \in Slot : job'[x][t] = job[x][t] \/ job'[x][t] = Idle
      BY <1>6 DEF Crash, TranscoderTypeOK
    <2>3. \A x \in Worker, t \in Slot : RunBy(x, t, v)' => Starts(x, t)
      BY <2>2, NoVideoAssumption DEF RunBy, Idle
    <2> QED BY <2>1, <2>3, NoVideoAssumption DEF Waits, Queued, HeldBy
  <1>7. ASSUME NEW w \in Worker, NEW s \in Slot, Abandon(w, s)
        PROVE  Good
    <2>1. OtherSlots(w, s) /\ job'[w][s].video = NoVideo
      BY <1>7, IdleSlot DEF Abandon
    <2>2. \A x \in Worker, t \in Slot : RunBy(x, t, v)' => Starts(x, t)
      BY <2>1, NoVideoAssumption DEF OtherSlots, RunBy
    <2> QED BY <1>7, <2>2 DEF Abandon, services, Waits, Queued, HeldBy
  <1>8. ASSUME NEW w \in Worker, NEW s \in Slot, NEW u \in Video, ProcessStep(w, s, u)
        PROVE  Good
    <2>1. SlotStep(w, s, u) /\ job[w][s].video = u
      BY <1>8, ProcessSlot
    <2>2. \A x \in Worker, t \in Slot : RunBy(x, t, v)' => Starts(x, t)
      BY <1>8, <2>1, NoVideoAssumption DEF SlotStep, OtherSlots, RunBy
    <2> QED BY <2>1, <2>2 DEF SlotStep, Waits, Queued, HeldBy
  <1>9. ASSUME NEW w \in Worker, PollAgain(w) \/ Exit(w) \/ Stop(w) \/ Restart(w)
        PROVE  UNCHANGED <<queue, held, job>>
    BY <1>9 DEF PollAgain, Exit, Stop, Restart, transcoderVars, services
  <1>10. CASE TranscoderNext
    BY <1>1, <1>4, <1>5, <1>6, <1>7, <1>8, <1>9, <1>10 DEF TranscoderNext, LoopStep, JobStep
  <1> QED BY <1>3, <1>10 DEF Next
-----------------------------------------------------------------------------
(* Progress goes forward. *)

LEMMA ReachedNat == \A stage : Reached(stage) \in Nat
  BY DEF Reached

\* A percentage is written by the job of the video, and only upwards.
LEMMA ProgressMoves ==
    ASSUME TypeOK, Next, NEW u \in Video
    PROVE  \/ progress'[u] = progress[u]
           \/ /\ TranscoderNext /\ UNCHANGED apiVars
              /\ \E w \in Worker, s \in Slot : RunBy(w, s, u) /\ Advances(w, s, u)
  <1>1. CASE ApiNext
    BY <1>1, OthersProgress
  <1>2. CASE TranscoderNext /\ UNCHANGED apiVars
    <2>1. ASSUME NEW w \in Worker, NEW s \in Slot, NEW v \in Video, ProcessStep(w, s, v)
          PROVE  \/ progress'[u] = progress[u]
                 \/ \E x \in Worker, t \in Slot : RunBy(x, t, u) /\ Advances(x, t, u)
      <3>1. RunBy(w, s, v)
        BY <2>1, ProcessSlot DEF TypeOK, RunBy
      <3> QED BY <2>1, <3>1, ProcessProgress DEF TypeOK
    <2> QED BY <1>2, <2>1, OthersProgress DEF TranscoderNext, JobStep
  <1> QED BY <1>1, <1>2 DEF Next

LEMMA ForwardStep ==
    ASSUME PlayableInv, PlayableInv', ForwardInv, Next
    PROVE  ForwardInv' /\ (None("dup") => \A v \in Video : progress'[v] >= progress[v])
  <1> USE DEF PlayableInv, Waits
  <1>n. \A v \in Video : progress[v] \in Nat /\ progress'[v] \in Nat
    <2>1. progress \in [Video -> Percent] /\ progress' \in [Video -> Percent]
      BY DEF TypeOK, ServicesTypeOK
    <2>2. Percent \subseteq Nat
      BY DEF Percent
    <2> QED BY <2>1, <2>2
  <1>1. ASSUME None("dup"), NEW v \in Video
        PROVE  progress'[v] >= progress[v]
    <2>1. ASSUME NEW w \in Worker, NEW s \in Slot, RunBy(w, s, v), Advances(w, s, v)
          PROVE  progress'[v] >= progress[v]
      <3>1. progress[v] <= Reached(job[w][s].stage)
        BY <1>1, <2>1 DEF ForwardInv
      <3>2. Reached(job[w][s].stage) <= progress'[v]
        BY <2>1 DEF Advances
      <3> QED BY <1>n, <3>1, <3>2, ReachedNat
    <2> QED BY <1>n, <2>1, ProgressMoves
  <1>2. ASSUME None("dup")', NEW v \in Video
        PROVE  /\ upload'[v] \in {"new", "stored", "created", "undo"} => progress'[v] = 0
               /\ Waits(v)' => progress'[v] = 0
               /\ \A w \in Worker, s \in Slot :
                    RunBy(w, s, v)' => progress'[v] <= Reached(job'[w][s].stage)
    <2>d. None("dup")
      BY <1>2, StepCounts DEF FaultKind
    <2>f. /\ upload[v] \in {"new", "stored", "created", "undo"} => progress[v] = 0
          /\ Waits(v) => progress[v] = 0
          /\ \A w \in Worker, s \in Slot :
               RunBy(w, s, v) => progress[v] <= Reached(job[w][s].stage)
      BY <2>d DEF ForwardInv
    <2>1. CASE progress'[v] = progress[v]
      <3>1. upload'[v] \in {"new", "stored", "created", "undo"} => progress'[v] = 0
        BY <2>1, <2>f, UploadMoves DEF TypeOK
      <3>2. Waits(v)' => progress'[v] = 0
        BY <2>1, <2>f, TaskMoves
      <3>3. ASSUME NEW w \in Worker, NEW s \in Slot, RunBy(w, s, v)'
            PROVE  progress'[v] <= Reached(job'[w][s].stage)
        <4>1. CASE HeldBy(w, v)
          BY <1>n, <2>1, <2>f, <4>1, ReachedNat
        <4>2. CASE RunBy(w, s, v) /\ job'[w][s] = job[w][s]
          BY <2>1, <2>f, <4>2
        <4>3. CASE ProcessStep(w, s, v)
          <5>1. job'[w][s].video # NoVideo
            BY <3>3, NoVideoAssumption DEF RunBy
          <5>2. Reached(job[w][s].stage) <= Reached(job'[w][s].stage)
            BY <4>3, <5>1, ProcessProgress DEF TypeOK
          <5>3. RunBy(w, s, v)
            BY <4>3, ProcessSlot DEF TypeOK, RunBy
          <5> QED BY <1>n, <2>1, <2>f, <5>2, <5>3, ReachedNat
        <4> QED BY <3>3, <4>1, <4>2, <4>3, TaskMoves
      <3> QED BY <3>1, <3>2, <3>3
    <2>2. ASSUME NEW w \in Worker, NEW s \in Slot, RunBy(w, s, v), Advances(w, s, v),
                 UNCHANGED apiVars
          PROVE  /\ upload'[v] \in {"new", "stored", "created", "undo"} => progress'[v] = 0
                 /\ Waits(v)' => progress'[v] = 0
                 /\ \A x \in Worker, t \in Slot :
                      RunBy(x, t, v)' => progress'[v] <= Reached(job'[x][t].stage)
      <3>1. upload'[v] \notin {"new", "stored", "created", "undo"}
        BY <2>2 DEF RequestInv, HasTask, apiVars
      <3>2. RunBy(w, s, v)'
        BY <2>2 DEF Advances, RunBy
      <3>3. /\ ~Waits(v)'
            /\ \A x \in Worker, t \in Slot : RunBy(x, t, v)' => x = w /\ t = s
        BY <1>2, <3>2 DEF OneTaskPerVideo
      <3> QED BY <2>2, <3>1, <3>3 DEF Advances
    <2> QED BY <2>1, <2>2, ProgressMoves
  <1> QED BY <1>1, <1>2 DEF ForwardInv

\* ForwardInv is inductive relative to PlayableInv.
THEOREM ForwardInvCorrect == Spec => []ForwardInv
  <1>1. Init => ForwardInv
    <2> SUFFICES ASSUME Init
                 PROVE  ForwardInv
      OBVIOUS
    <2>1. \A v \in Video : progress[v] = 0
      BY DEF Init, ServicesInit
    <2>2. \A w \in Worker, s \in Slot, v \in Video : ~RunBy(w, s, v)
      BY NoVideoAssumption DEF Init, TranscoderInit, Idle, RunBy
    <2> QED BY <2>1, <2>2 DEF ForwardInv
  <1>2. PlayableInv /\ PlayableInv' /\ ForwardInv /\ [Next]_vars => ForwardInv'
    <2> SUFFICES ASSUME PlayableInv, PlayableInv', ForwardInv, [Next]_vars
                 PROVE  ForwardInv'
      OBVIOUS
    <2>1. CASE UNCHANGED vars
      BY <2>1 DEF vars, services, apiVars, transcoderVars, ForwardInv, Queued, HeldBy, RunBy, None
    <2> QED BY <2>1, ForwardStep
  <1> QED BY <1>1, <1>2, PlayableInvCorrect, PTL DEF Spec

(***************************************************************************)
(* The percentage that a client polls never goes back, unless a task was   *)
(* enqueued twice: it is at most what the one job of the video has reached *)
(* when it comes to its stage, and a job writes no less than that.         *)
(***************************************************************************)
THEOREM ProgressForwardCorrect == Spec => ProgressForward
  <1>1. PlayableInv /\ PlayableInv' /\ ForwardInv /\ [Next]_vars =>
          [None("dup") => \A v \in Video : progress'[v] >= progress[v]]_vars
    BY ForwardStep
  <1> QED BY <1>1, PlayableInvCorrect, ForwardInvCorrect, PTL DEF Spec, ProgressForward
-----------------------------------------------------------------------------
(* A status goes forward. *)

\* What a request leaves for the transcoder, while no reply is lost
LEMMA ApiOrder ==
    ASSUME TypeOK, RequestInv, ApiNext, ~Pay("lost"), NEW v \in Video,
           upload[v] \in {"created", "unqueued"} => status[v] \in {"pending", "deleted"}
    PROVE  upload'[v] \in {"created", "unqueued"} => status'[v] \in {"pending", "deleted"}
  <1> USE DEF TypeOK, ApiTypeOK, ServicesTypeOK, rows
  <1> DEFINE Good == upload'[v] \in {"created", "unqueued"} => status'[v] \in {"pending", "deleted"}
  <1>1. ASSUME NEW u \in Video, CreateRow(u)
        PROVE  Good
    BY <1>1 DEF CreateRow, UploadGoes, Ends, Took, Outcome
  <1>2. ASSUME NEW u \in Video, MarkEnqueueFailed(u)
        PROVE  Good
    BY <1>2 DEF MarkEnqueueFailed, UploadGoes, SetStatus
  <1>3. ASSUME NEW u \in Video, DeleteRow(u)
        PROVE  Good
    BY <1>3 DEF DeleteRow
  <1>4. ASSUME NEW u \in Video, StoreOriginal(u) \/ UndoStore(u) \/ Enqueue(u) \/ UploadGone(u)
        PROVE  Good
    BY <1>4 DEF StoreOriginal, UndoStore, Enqueue, UploadGone, UploadGoes
  <1>5. ASSUME NEW u \in Video, DeleteDir(u) \/ DeleteGone(u)
        PROVE  Good
    BY <1>5 DEF DeleteDir, DeleteGone
  <1>6. CASE ApiCrash
    BY <1>6 DEF ApiCrash
  <1> QED BY <1>1, <1>2, <1>3, <1>4, <1>5, <1>6 DEF ApiNext, UploadStep

\* What a job makes of the status of its video, while no reply is lost
LEMMA ProcessOrder ==
    ASSUME ServicesTypeOK, TranscoderTypeOK, NEW w \in Worker, NEW s \in Slot, NEW v \in Video,
           ProcessStep(w, s, v), ~Pay("lost"), RunBy(w, s, v)',
           status[v] \in StatusAt(job[w][s]) \union {"deleted"}
    PROVE  status'[v] \in StatusAt(job'[w][s]) \union {"deleted"}
  <1> DEFINE Good == status'[v] \in StatusAt(job'[w][s]) \union {"deleted"}
  <1> USE DEF At
  <1>a. ASSUME Abort(w, s), status' = status,
               job[w][s].stage \notin {"start", "failing", "cleanup"}
        PROVE  Good
    BY <1>a, AbortSlot DEF StatusAt
  <1>g. ASSUME NEW to, Goes(w, s, to), status' = status,
               job[w][s].stage \notin {"start", "failing", "cleanup"},
               to \notin {"start", "failing", "cleanup"}
        PROVE  Good
    BY <1>g, GoesSlot DEF StatusAt
  <1>1. CASE MarkProcessing(w, s, v)
    <2>1. \/ SetStatus(v, "processing") /\ job'[w][s].stage = "fetch"
          \/ job'[w][s].stage = "failing" /\ (status' = status \/ SetStatus(v, "processing"))
      BY <1>1, GoesSlot DEF MarkProcessing
    <2>2. status[v] \in {"pending", "deleted"}
      BY <1>1 DEF MarkProcessing, StatusAt
    <2>3. SetStatus(v, "processing") => status'[v] \in {"processing", "deleted"}
      BY <2>2 DEF SetStatus, HasRow, VideoStatus, ServicesTypeOK
    <2> QED BY <2>1, <2>2, <2>3 DEF StatusAt
  <1>2. CASE FetchOriginal(w, s, v)
    BY <1>2, <1>a, <1>g DEF FetchOriginal
  <1>3. CASE ProbeOriginal(w, s, v)
    BY <1>3, <1>a, <1>g DEF ProbeOriginal
  <1>4. CASE TranscodeMedia(w, s, v)
    BY <1>4, <1>a, <1>g DEF TranscodeMedia
  <1>5. CASE ExtractTracks(w, s, v)
    BY <1>5, <1>g DEF ExtractTracks
  <1>6. CASE Package(w, s, v)
    <2>1. CASE Abort(w, s)
      BY <1>6, <2>1, <1>a DEF Package, rows
    <2>2. CASE ~Abort(w, s)
      <3> DEFINE files == (work[w][v] \intersect File) \union {"master"}
      <3>1. job' = [job EXCEPT ![w][s].stage = "upload", ![w][s].todo = files]
        BY <1>6, <2>2 DEF Package
      <3> HIDE DEF files
      <3>2. job'[w][s].stage = "upload"
        BY <3>1, PackageSlot
      <3> QED BY <1>6, <3>2 DEF Package, rows, StatusAt
    <2> QED BY <2>1, <2>2
  <1>7. ASSUME NEW f \in File, UploadFile(w, s, v, f)
        PROVE  Good
    <2>1. job'[w][s].stage = job[w][s].stage
      BY <1>7, TriedSlot DEF UploadFile
    <2> QED BY <1>7, <2>1 DEF UploadFile, rows, StatusAt
  <1>8. CASE UploadDone(w, s, v)
    BY <1>8, <1>a, <1>g DEF UploadDone
  <1>9. CASE UploadThumbs(w, s, v)
    BY <1>9, <1>g DEF UploadThumbs
  <1>10. CASE Publish(w, s, v)
    <2>1. PICK o \in Outcome :
                 /\ Ends(o)
                 /\ IF Took(o) THEN SetStatus(v, "ready") ELSE UNCHANGED status
                 /\ Returns(w, s, o # "ok")
      BY <1>10 DEF Publish
    <2>2. job'[w][s].stage = "cleanup" /\ job'[w][s].bad = (o # "ok")
      BY <2>1, ReturnsSlot
    <2>3. status[v] \in {"processing", "deleted"}
      BY <1>10 DEF Publish, StatusAt
    <2>4. CASE o = "ok"
      <3>1. status'[v] \in {"ready", "deleted"}
        BY <2>1, <2>3, <2>4 DEF Took, SetStatus, HasRow, VideoStatus, ServicesTypeOK
      <3> QED BY <2>2, <2>4, <3>1 DEF StatusAt
    <2>5. CASE o # "ok"
      <3>1. status' = status
        BY <2>1, <2>5 DEF Outcome, Ends, Took
      <3> QED BY <2>2, <2>3, <2>5, <3>1 DEF StatusAt
    <2> QED BY <2>4, <2>5
  <1>11. CASE MarkFailed(w, s, v)
    BY <1>11, IdleSlot, NoVideoAssumption DEF MarkFailed, RunBy
  <1>12. CASE RemoveWorkDir(w, s, v)
    <2>1. job'[w][s].stage = "failing" /\ job[w][s].bad
      BY <1>12, CleanedSlot, NoVideoAssumption DEF RemoveWorkDir, RunBy
    <2>2. status' = status /\ status[v] \in {"processing", "deleted"}
      BY <1>12, <2>1 DEF RemoveWorkDir, rows, StatusAt
    <2> QED BY <2>1, <2>2 DEF StatusAt
  <1> QED
    BY <1>1, <1>2, <1>3, <1>4, <1>5, <1>6, <1>7, <1>8, <1>9, <1>10, <1>11, <1>12
       DEF ProcessStep

\* OrderInv is inductive relative to PlayableInv.
LEMMA OrderStep ==
    ASSUME PlayableInv, OrderInv, Next
    PROVE  OrderInv'
  <1> USE DEF PlayableInv
  <1> SUFFICES ASSUME None("lost")', None("dup")', NEW v \in Video
               PROVE  /\ upload'[v] \in {"created", "unqueued"} =>
                           status'[v] \in {"pending", "deleted"}
                      /\ HasTask(v)' => upload'[v] = "accepted"
                      /\ Waits(v)' => status'[v] \in {"pending", "deleted"}
                      /\ \A w \in Worker, s \in Slot : RunBy(w, s, v)' =>
                           status'[v] \in StatusAt(job'[w][s]) \union {"deleted"}
    BY DEF OrderInv, Waits
  <1>p. ~Pay("lost") /\ None("lost") /\ None("dup")
    BY PayCounts, StepCounts DEF FaultKind, TypeOK
  <1>o. /\ upload[v] \in {"created", "unqueued"} => status[v] \in {"pending", "deleted"}
        /\ HasTask(v) => upload[v] = "accepted"
        /\ Waits(v) => status[v] \in {"pending", "deleted"}
        /\ \A w \in Worker, s \in Slot : RunBy(w, s, v) =>
             status[v] \in StatusAt(job[w][s]) \union {"deleted"}
    BY <1>p DEF OrderInv, Waits
  <1>t. HasTask(v) <=> Waits(v) \/ \E w \in Worker, s \in Slot : RunBy(w, s, v)
    BY DEF HasTask, Waits
  <1>r. \A w \in Worker, s \in Slot : RunBy(w, s, v) =>
          /\ ~Waits(v)
          /\ \A x \in Worker, t \in Slot : RunBy(x, t, v) => x = w /\ t = s
    BY <1>p DEF OneTaskPerVideo, Waits
  <1>m. /\ Waits(v)' => Waits(v) \/ (upload[v] = "created" /\ upload'[v] = "accepted"
                                       /\ UNCHANGED status)
        /\ \A w \in Worker, s \in Slot : RunBy(w, s, v)' =>
             \/ HeldBy(w, v) /\ StartJob(w, s)
             \/ RunBy(w, s, v) /\ job'[w][s] = job[w][s]
             \/ ProcessStep(w, s, v)
    BY <1>p, TaskMoves
  <1>u. \A w \in Worker, s \in Slot : ProcessStep(w, s, v) => RunBy(w, s, v)
    BY ProcessSlot DEF TypeOK, RunBy
  \* whoever has a task had one, or was just accepted
  <1>2. HasTask(v)' => upload'[v] = "accepted"
    <2>1. HasTask(v) => upload'[v] = "accepted"
      BY <1>o, UploadMoves DEF TypeOK
    <2>2. HasTask(v)' => HasTask(v) \/ upload'[v] = "accepted"
      <3>1. HasTask(v)' <=> Waits(v)' \/ \E w \in Worker, s \in Slot : RunBy(w, s, v)'
        BY DEF HasTask, Waits
      <3> QED BY <1>m, <1>t, <1>u, <3>1 DEF Waits
    <2> QED BY <2>1, <2>2
  \* the status of a video with a task, when its job does not move
  <1>s. ASSUME HasTask(v), \A w \in Worker, s \in Slot : ~ProcessStep(w, s, v)
        PROVE  status'[v] \in {status[v], "deleted"}
    <2>1. CASE ApiNext
      BY <1>o, <1>s, <2>1, ApiStatus DEF RequestInv
    <2>2. CASE TranscoderNext
      <3>1. ASSUME NEW w \in Worker, NEW s \in Slot, NEW u \in Video, ProcessStep(w, s, u)
            PROVE  status'[v] = status[v]
        BY <1>s, <3>1, ProcessStatus DEF TypeOK
      <3> QED BY <2>2, <3>1, OthersStatus DEF TranscoderNext, JobStep
    <2> QED BY <2>1, <2>2 DEF Next
  <1>1. upload'[v] \in {"created", "unqueued"} => status'[v] \in {"pending", "deleted"}
    <2>1. CASE ApiNext
      BY <1>o, <1>p, <2>1, ApiOrder
    <2>2. CASE TranscoderNext /\ UNCHANGED apiVars
      <3> SUFFICES ASSUME upload[v] \in {"created", "unqueued"}
                   PROVE  status'[v] = status[v]
        BY <1>o, <2>2 DEF apiVars
      <3>1. ~HasTask(v)
        BY <1>o
      <3>2. ASSUME NEW w \in Worker, NEW s \in Slot, NEW u \in Video, ProcessStep(w, s, u)
            PROVE  status'[v] = status[v]
        BY <1>t, <1>u, <3>1, <3>2, ProcessStatus DEF TypeOK
      <3> QED BY <2>2, <3>2, OthersStatus DEF TranscoderNext, JobStep
    <2> QED BY <2>1, <2>2 DEF Next
  <1>3. Waits(v)' => status'[v] \in {"pending", "deleted"}
    <2> SUFFICES ASSUME Waits(v)
                 PROVE  status'[v] \in {"pending", "deleted"}
      BY <1>m, <1>o
    <2>1. \A w \in Worker, s \in Slot : ~ProcessStep(w, s, v)
      BY <1>r, <1>u
    <2> QED BY <1>o, <1>s, <1>t, <2>1
  <1>4. ASSUME NEW w \in Worker, NEW s \in Slot, RunBy(w, s, v)'
        PROVE  status'[v] \in StatusAt(job'[w][s]) \union {"deleted"}
    <2>1. CASE HeldBy(w, v) /\ StartJob(w, s)
      <3>1. status' = status /\ job'[w][s] = [Idle EXCEPT !.video = held[w], !.stage = "start"]
        BY <2>1 DEF StartJob, services, TypeOK, TranscoderTypeOK
      <3>2. job'[w][s].stage = "start"
        BY <3>1 DEF Idle
      <3>3. status[v] \in {"pending", "deleted"}
        BY <1>o, <2>1 DEF Waits
      <3> QED BY <3>1, <3>2, <3>3 DEF StatusAt
    <2>2. CASE ProcessStep(w, s, v)
      BY <1>4, <1>o, <1>p, <1>u, <2>2, ProcessOrder DEF TypeOK
    <2>3. CASE RunBy(w, s, v) /\ job'[w][s] = job[w][s] /\ ~ProcessStep(w, s, v)
      <3>1. \A x \in Worker, t \in Slot : ~ProcessStep(x, t, v)
        BY <1>r, <1>u, <2>3
      <3> QED BY <1>o, <1>s, <1>t, <2>3, <3>1
    <2> QED BY <1>4, <1>m, <2>1, <2>2, <2>3
  <1> QED BY <1>1, <1>2, <1>3, <1>4

\* A task belongs to an accepted video, and its row is as far as the task.
THEOREM OrderInvCorrect == Spec => []OrderInv
  <1>1. Init /\ PlayableInv => OrderInv
    <2> SUFFICES ASSUME Init, PlayableInv
                 PROVE  OrderInv
      OBVIOUS
    <2>1. \A v \in Video : upload[v] = "new"
      BY DEF Init, ApiInit
    <2>2. \A v \in Video : ~HasTask(v)
      BY <2>1 DEF PlayableInv, RequestInv
    <2> QED BY <2>1, <2>2 DEF OrderInv, HasTask
  <1>2. PlayableInv /\ OrderInv /\ [Next]_vars => OrderInv'
    <2> SUFFICES ASSUME PlayableInv, OrderInv, [Next]_vars
                 PROVE  OrderInv'
      OBVIOUS
    <2>1. CASE UNCHANGED vars
      BY <2>1 DEF vars, services, apiVars, transcoderVars, OrderInv, HasTask, Queued, HeldBy,
                  RunBy, None
    <2> QED BY <2>1, OrderStep
  <1> QED BY <1>1, <1>2, PlayableInvCorrect, PTL DEF Spec

LEMMA StatusStepOK ==
    ASSUME PlayableInv, OrderInv, Next, None("lost"), None("dup"), NEW v \in Video
    PROVE  StatusMoves(v)
  <1> USE DEF PlayableInv, StatusMoves, StatusStep, HasRow, VideoStatus
  <1>o. /\ upload[v] \in {"created", "unqueued"} => status[v] \in {"pending", "deleted"}
        /\ \A w \in Worker, s \in Slot : RunBy(w, s, v) =>
             status[v] \in StatusAt(job[w][s]) \union {"deleted"}
    BY DEF OrderInv
  <1>1. CASE ApiNext
    BY <1>1, <1>o, ApiStatus
  <1>2. CASE TranscoderNext
    <2>1. ASSUME NEW w \in Worker, NEW s \in Slot, NEW u \in Video, ProcessStep(w, s, u)
          PROVE  StatusMoves(v)
      <3>1. RunBy(w, s, u)
        BY <2>1, ProcessSlot DEF TypeOK, RunBy
      <3>2. \/ status'[v] = status[v]
            \/ /\ u = v /\ HasRow(v)
               /\ \/ job[w][s].stage = "start" /\ status'[v] = "processing"
                  \/ job[w][s].stage = "publish" /\ status'[v] = "ready"
                  \/ job[w][s].stage = "failing" /\ status'[v] = "failed"
        <4>1. \/ status'[v] = status[v]
              \/ /\ u = v /\ HasRow(v)
                 /\ \/ MarkProcessing(w, s, v) /\ status'[v] = "processing"
                    \/ Publish(w, s, v) /\ status'[v] = "ready"
                    \/ MarkFailed(w, s, v) /\ status'[v] = "failed"
          BY <2>1, ProcessStatus DEF TypeOK
        <4> QED BY <4>1 DEF MarkProcessing, Publish, MarkFailed, At
      <3> QED BY <1>o, <3>1, <3>2 DEF StatusAt
    <2> QED BY <1>2, <2>1, OthersStatus DEF TranscoderNext, JobStep
  <1> QED BY <1>1, <1>2 DEF Next

(***************************************************************************)
(* A status moves along pending, processing, ready or failed, and neither  *)
(* a settled nor a deleted video comes back, unless a reply was lost or a  *)
(* task enqueued twice.                                                    *)
(***************************************************************************)
THEOREM StatusOrderCorrect == Spec => StatusOrder
  <1>1. PlayableInv /\ OrderInv /\ [Next]_vars =>
          [None("lost") /\ None("dup") => \A v \in Video : StatusMoves(v)]_vars
    BY StatusStepOK
  <1> QED BY <1>1, PlayableInvCorrect, OrderInvCorrect, PTL DEF Spec, StatusOrder
-----------------------------------------------------------------------------
(* The pipeline implements the life of a video. *)

Stream == {v \in Video : File \subseteq hls[v]}

\* A step of the pipeline is one of VideoLifecycle, or nothing to be seen.
Maps == Lifecycle!LifecycleNext \/ (status' = status /\ Stream' = Stream)

\* An UPDATE, as VideoLifecycle sees it
LEMMA UpdateMaps ==
    ASSUME ServicesTypeOK, NEW v \in Video, NEW st \in VideoStatus, NEW from,
           SetStatus(v, st), hls' = hls, HasRow(v) => status[v] \in from,
           Lifecycle!Moves(v, from, st) /\ Stream' = Stream => Lifecycle!LifecycleNext
    PROVE  Maps
  <1>1. Stream' = Stream
    BY DEF Stream
  <1>2. CASE HasRow(v)
    <2>1. status' = [status EXCEPT ![v] = st]
      BY <1>2 DEF SetStatus
    <2>2. Lifecycle!Moves(v, from, st)
      BY <1>2, <2>1 DEF Lifecycle!Moves
    <2> QED BY <1>1, <2>2 DEF Maps
  <1>3. CASE ~HasRow(v)
    BY <1>1, <1>3 DEF SetStatus, Maps
  <1> QED BY <1>2, <1>3

\* What the handlers do
LEMMA ApiMaps ==
    ASSUME PlayableInv, OrderInv, None("lost"), None("dup"), ApiNext
    PROVE  Maps
  <1> USE DEF PlayableInv, TypeOK, ServicesTypeOK, rows, blobs, Stream
  <1>1. ASSUME NEW v \in Video, CreateRow(v)
        PROVE  Maps
    <2>1. status[v] = "none"
      BY <1>1 DEF CreateRow, UploadGoes, RequestInv
    <2>2. hls' = hls /\ (status' = status \/ status' = [status EXCEPT ![v] = "pending"])
      BY <1>1 DEF CreateRow
    <2> QED BY <2>1, <2>2 DEF Maps, Lifecycle!LifecycleNext, Lifecycle!Register, Lifecycle!Moves
  <1>2. ASSUME NEW v \in Video, MarkEnqueueFailed(v)
        PROVE  Maps
    <2>1. hls' = hls /\ (status' = status \/ SetStatus(v, "failed"))
      BY <1>2 DEF MarkEnqueueFailed
    <2>2. HasRow(v) => status[v] \in {"pending", "processing"}
      BY <1>2 DEF MarkEnqueueFailed, UploadGoes, OrderInv, HasRow, VideoStatus
    <2>3. Lifecycle!Moves(v, {"pending", "processing"}, "failed") /\ Stream' = Stream
            => Lifecycle!LifecycleNext
      BY DEF Lifecycle!LifecycleNext, Lifecycle!Fail
    <2>4. "failed" \in VideoStatus
      BY DEF VideoStatus
    <2>5. CASE SetStatus(v, "failed")
      BY <2>1, <2>2, <2>3, <2>4, <2>5, UpdateMaps
    <2> QED BY <2>1, <2>5 DEF Maps
  <1>3. ASSUME NEW v \in Video, DeleteRow(v)
        PROVE  Maps
    BY <1>3 DEF DeleteRow, HasRow, VideoStatus, Maps, Lifecycle!LifecycleNext, Lifecycle!Delete,
                Lifecycle!Moves
  <1>4. ASSUME NEW v \in Video, DeleteDir(v)
        PROVE  Maps
    <2>1. status[v] = "deleted" /\ status' = status
      BY <1>4 DEF DeleteDir, RequestInv, Directory
    <2>2. hls' = hls \/ hls' = [hls EXCEPT ![v] = {}]
      BY <1>4 DEF DeleteDir
    <2>3. Stream' = Stream \/ Stream' = Stream \ {v}
      BY <2>2 DEF File
    <2> QED BY <2>1, <2>3 DEF Maps, Lifecycle!LifecycleNext, Lifecycle!Discard
  <1>5. ASSUME NEW v \in Video, \/ StoreOriginal(v) \/ UndoStore(v) \/ Enqueue(v)
                                \/ UploadGone(v) \/ DeleteGone(v)
        PROVE  status' = status /\ hls' = hls
    BY <1>5 DEF StoreOriginal, UndoStore, Enqueue, UploadGone, DeleteGone
  <1>6. CASE ApiCrash
    BY <1>6 DEF ApiCrash, Maps
  <1> QED BY <1>1, <1>2, <1>3, <1>4, <1>5, <1>6 DEF ApiNext, UploadStep, Maps

\* What a job does
LEMMA ProcessMaps ==
    ASSUME PlayableInv, OrderInv, None("lost"), None("dup"),
           NEW w \in Worker, NEW s \in Slot, NEW v \in Video, ProcessStep(w, s, v)
    PROVE  Maps
  <1> USE DEF PlayableInv, TypeOK, rows, blobs
  <1>1. RunBy(w, s, v)
    BY ProcessSlot DEF RunBy
  <1>2. HasRow(v) => status[v] \in StatusAt(job[w][s])
    BY <1>1 DEF OrderInv, HasRow, VideoStatus
  <1>3. status[v] \in StatusAt(job[w][s]) \union {"deleted"}
    BY <1>1 DEF OrderInv
  <1>4. HasRow(v) /\ job[w][s].stage = "publish" => v \in Stream
    BY <1>1 DEF StageInv, StageOK, Stream
  <1>q. ASSUME status' = status, hls' = hls
        PROVE  Maps
    BY <1>q DEF Maps, Stream
  <1>5. CASE MarkProcessing(w, s, v)
    <2>1. hls' = hls /\ (status' = status \/ SetStatus(v, "processing"))
      BY <1>5 DEF MarkProcessing
    <2>2. HasRow(v) => status[v] \in {"pending"}
      BY <1>2, <1>5 DEF MarkProcessing, At, StatusAt
    <2>3. Lifecycle!Moves(v, {"pending"}, "processing") /\ Stream' = Stream
            => Lifecycle!LifecycleNext
      BY DEF Lifecycle!LifecycleNext, Lifecycle!Begin, Stream
    <2>4. "processing" \in VideoStatus
      BY DEF VideoStatus
    <2> QED BY <1>q, <2>1, <2>2, <2>3, <2>4, UpdateMaps
  <1>6. CASE Publish(w, s, v)
    <2>1. hls' = hls /\ (status' = status \/ SetStatus(v, "ready"))
      BY <1>6 DEF Publish
    <2>2. HasRow(v) => status[v] \in {"processing"} /\ v \in Stream
      BY <1>2, <1>4, <1>6 DEF Publish, At, StatusAt
    <2>3. v \in Stream /\ Lifecycle!Moves(v, {"processing"}, "ready") /\ Stream' = Stream
            => Lifecycle!LifecycleNext
      BY DEF Lifecycle!LifecycleNext, Lifecycle!Finish, Stream
    <2>4. "ready" \in VideoStatus
      BY DEF VideoStatus
    <2>5. CASE HasRow(v)
      BY <1>q, <2>1, <2>2, <2>3, <2>4, <2>5, UpdateMaps
    <2>6. CASE ~HasRow(v)
      BY <1>q, <2>1, <2>6 DEF SetStatus
    <2> QED BY <2>5, <2>6
  <1>7. CASE MarkFailed(w, s, v)
    <2>1. hls' = hls /\ (status' = status \/ SetStatus(v, "failed"))
      BY <1>7 DEF MarkFailed
    <2>2. HasRow(v) => status[v] \in {"pending", "processing"}
      BY <1>2, <1>7 DEF MarkFailed, At, StatusAt
    <2>3. Lifecycle!Moves(v, {"pending", "processing"}, "failed") /\ Stream' = Stream
            => Lifecycle!LifecycleNext
      BY DEF Lifecycle!LifecycleNext, Lifecycle!Fail, Stream
    <2>4. "failed" \in VideoStatus
      BY DEF VideoStatus
    <2> QED BY <1>q, <2>1, <2>2, <2>3, <2>4, UpdateMaps
  <1>8. ASSUME NEW f \in File, UploadFile(w, s, v, f)
        PROVE  Maps
    <2>1. status' = status /\ status[v] \in {"processing", "deleted"}
      BY <1>3, <1>8 DEF UploadFile, At, StatusAt
    <2>2. hls' = hls \/ hls' = [hls EXCEPT ![v] = hls[v] \union {f}]
      BY <1>8 DEF UploadFile
    <2>3. Stream' = Stream \/ Stream' = Stream \union {v}
      BY <2>2 DEF Stream, ServicesTypeOK
    <2> QED BY <2>1, <2>3 DEF Maps, Lifecycle!LifecycleNext, Lifecycle!StoreStream, Stream
  <1>9. ASSUME \/ FetchOriginal(w, s, v) \/ ProbeOriginal(w, s, v) \/ TranscodeMedia(w, s, v)
               \/ ExtractTracks(w, s, v) \/ Package(w, s, v) \/ UploadDone(w, s, v)
               \/ UploadThumbs(w, s, v) \/ RemoveWorkDir(w, s, v)
        PROVE  status' = status /\ hls' = hls
    BY <1>9 DEF FetchOriginal, ProbeOriginal, TranscodeMedia, ExtractTracks, Package, UploadDone,
                UploadThumbs, RemoveWorkDir
  <1> QED BY <1>q, <1>5, <1>6, <1>7, <1>8, <1>9 DEF ProcessStep

LEMMA StepMaps ==
    ASSUME PlayableInv, OrderInv, None("lost"), None("dup"), Next
    PROVE  Maps
  <1>1. ASSUME NEW w \in Worker,
               \/ LoopStep(w) \/ Stop(w) \/ Crash(w) \/ Restart(w)
               \/ \E s \in Slot : Abandon(w, s)
        PROVE  status' = status /\ hls' = hls
    BY <1>1 DEF LoopStep, Pop, PollAgain, Exit, StartJob, Stop, Crash, Restart, Abandon,
                services, rows, blobs
  <1>2. status' = status /\ hls' = hls => Maps
    BY DEF Maps, Stream
  <1> QED BY <1>1, <1>2, ApiMaps, ProcessMaps DEF Next, TranscoderNext, JobStep

(***************************************************************************)
(* Until a reply is lost or an LPUSH repeated, the API server and the      *)
(* transcoders together implement the life of a video that the API         *)
(* promises, whatever calls fail, whoever hangs up, crashes or stops, and  *)
(* whenever a video is deleted.                                            *)
(***************************************************************************)
THEOREM LifecycleCorrect == Spec => ImplementsLifecycle
  <1>1. Init => Lifecycle!LifecycleInit
    BY DEF Init, ServicesInit, Lifecycle!LifecycleInit, File
  <1> DEFINE Step == Lifecycle!LifecycleNext \/ UNCHANGED Lifecycle!lifecycle
  <1>2. PlayableInv /\ OrderInv /\ [Next]_vars
          => [None("lost") /\ None("dup") => Step]_vars
    <2> SUFFICES ASSUME PlayableInv, OrderInv, Next, None("lost"), None("dup")
                 PROVE  Step
      OBVIOUS
    <2> QED BY StepMaps DEF Maps, Stream, Lifecycle!lifecycle
  <1> QED
    BY <1>1, <1>2, PlayableInvCorrect, OrderInvCorrect, PTL DEF Spec, ImplementsLifecycle
-----------------------------------------------------------------------------
(* When a row is stranded. *)

\* A job that goes on has what its next stage needs, and one that fails has
\* cost a failing call.
LEMMA ProcessEquipped ==
    ASSUME PlayableInv, OriginalInv, Next, None("lost"), ~Pay("lost"),
           NEW w \in Worker, NEW s \in Slot, NEW v \in Video, ProcessStep(w, s, v),
           Equipped(w, s, v), RunBy(w, s, v)'
    PROVE  Equipped(w, s, v)'
  <1> USE DEF PlayableInv, TypeOK, At
  <1> DEFINE Good == Equipped(w, s, v)'
             fails == Spent("fail")
  <1>n. fails \in Nat /\ fails' \in Nat /\ fails <= fails'
    BY StepCounts DEF FaultKind
  <1>p. Pay("fail") => fails' >= 1
    BY <1>n, PayCounts DEF FaultKind
  <1>v. job[w][s].video = v /\ job[w][s] \in Job
    BY ProcessSlot DEF TranscoderTypeOK
  <1>r. HasRow(v)' => HasRow(v) /\ v \in originals
    BY ProcessRows DEF OriginalInv
  <1>b. job[w][s].bad /\ HasRow(v) => fails' >= 1
    BY <1>n DEF Equipped
  <1>a. ASSUME Abort(w, s), fails' >= 1 \/ v \notin originals
        PROVE  Good
    <2>1. job'[w][s].stage = "cleanup" /\ job'[w][s].bad
      BY <1>a, AbortSlot
    <2> QED BY <1>a, <1>r, <2>1 DEF Equipped
  <1>g. ASSUME NEW to, Goes(w, s, to), to \notin {"upload", "failing", "cleanup"},
               to = "fetch" => "tmp" \in work'[w][v],
               to \in {"probe", "transcode"} => "original" \in work'[w][v],
               to \in {"tracks", "package"} => "hls" \in work'[w][v]
        PROVE  Good
    <2>1. job'[w][s].stage = to /\ job'[w][s].bad = job[w][s].bad
      BY <1>g, GoesSlot
    <2> QED BY <1>b, <1>g, <1>r, <2>1 DEF Equipped
  <1>1. CASE MarkProcessing(w, s, v)
    <2>1. CASE Goes(w, s, "fetch") /\ Leaves(w, v, work[w][v] \union {"tmp"})
      BY <1>g, <2>1, LeavesDirs
    <2>2. CASE Goes(w, s, "failing") /\ Pay("fail")
      <3>1. job'[w][s].stage = "failing" /\ job'[w][s].bad = job[w][s].bad
        BY <2>2, GoesSlot
      <3> QED BY <1>b, <1>p, <1>r, <2>2, <3>1 DEF Equipped
    <2> QED BY <1>1, <2>1, <2>2 DEF MarkProcessing
  <1>2. CASE FetchOriginal(w, s, v)
    <2>1. CASE Abort(w, s) /\ Breaks(v \notin originals \/ "tmp" \notin work[w][v])
      BY <1>2, <1>a, <1>p, <2>1 DEF FetchOriginal, Breaks, Equipped
    <2>2. CASE Leaves(w, v, work[w][v] \union {"original"}) /\ Goes(w, s, "probe")
      BY <1>g, <2>2, LeavesDirs
    <2> QED BY <1>2, <2>1, <2>2 DEF FetchOriginal
  <1>3. CASE ProbeOriginal(w, s, v)
    <2>1. CASE Abort(w, s) /\ Breaks("original" \notin work[w][v])
      BY <1>3, <1>a, <1>p, <2>1 DEF ProbeOriginal, Breaks, Equipped
    <2>2. CASE work' = work /\ Goes(w, s, "transcode")
      BY <1>3, <1>g, <2>2 DEF ProbeOriginal, Equipped
    <2> QED BY <1>3, <2>1, <2>2 DEF ProbeOriginal
  <1>4. CASE TranscodeMedia(w, s, v)
    <2>1. CASE Abort(w, s) /\ Breaks("original" \notin work[w][v])
      BY <1>4, <1>a, <1>p, <2>1 DEF TranscodeMedia, Breaks, Equipped
    <2>2. CASE Leaves(w, v, work[w][v] \union {"tmp", "hls", "media"}) /\ Goes(w, s, "tracks")
      BY <1>g, <2>2, LeavesDirs
    <2> QED BY <1>4, <2>1, <2>2 DEF TranscodeMedia
  <1>5. CASE ExtractTracks(w, s, v)
    <2>1. "hls" \in work[w][v] /\ Goes(w, s, "package")
      BY <1>5 DEF ExtractTracks, Equipped
    <2>2. PICK made \in {{"tmp"}, {"tmp", "hls"}} : Leaves(w, v, work[w][v] \union made)
      BY <1>5 DEF ExtractTracks
    <2>3. "hls" \in work'[w][v]
      BY <2>1, <2>2, LeavesDirs
    <2> QED BY <1>g, <2>1, <2>3
  <1>6. CASE Package(w, s, v)
    <2>1. CASE Abort(w, s) /\ Breaks("hls" \notin work[w][v])
      BY <1>6, <1>a, <1>p, <2>1 DEF Package, Breaks, Equipped
    <2>2. CASE ~(Abort(w, s) /\ Breaks("hls" \notin work[w][v]))
      <3> DEFINE files == (work[w][v] \intersect File) \union {"master"}
      <3>1. /\ job' = [job EXCEPT ![w][s].stage = "upload", ![w][s].todo = files]
            /\ Leaves(w, v, work[w][v] \union {"master"})
        BY <1>6, <2>2 DEF Package
      <3>2. work'[w][v] = work[w][v] \union {"master"}
        BY <3>1, LeavesDirs
      <3>3. files \subseteq work'[w][v]
        BY <3>2
      <3> HIDE DEF files
      <3>4. job' = [job EXCEPT ![w][s].stage = "upload", ![w][s].todo = files]
        BY <3>1
      <3>6. job'[w][s].stage = "upload" /\ job'[w][s].todo = files
        BY <3>4, <1>v DEF TranscoderTypeOK, Job
      <3>5. job'[w][s].bad = job[w][s].bad
        BY <3>1, <1>v DEF TranscoderTypeOK, Job
      <3> QED BY <1>b, <1>r, <3>3, <3>5, <3>6 DEF Equipped
    <2> QED BY <2>1, <2>2
  <1>7. ASSUME NEW f \in File, UploadFile(w, s, v, f)
        PROVE  Good
    <2>1. f \in work[w][v] /\ work' = work /\ job[w][s].stage = "upload"
      BY <1>7 DEF UploadFile, Equipped
    <2>2. PICK failed \in BOOLEAN : Tried(w, s, f, failed) /\ (failed => Pay("fail"))
      BY <1>7, <2>1 DEF UploadFile, Breaks, Ends
    <2>3. /\ job'[w][s].stage = "upload"
          /\ job'[w][s].todo \subseteq job[w][s].todo
          /\ job'[w][s].bad = (job[w][s].bad \/ failed)
      BY <2>1, <2>2, TriedSlot
    <2> QED BY <1>b, <1>p, <1>r, <2>1, <2>2, <2>3 DEF Equipped
  <1>8. CASE UploadDone(w, s, v)
    <2>1. CASE job[w][s].bad /\ Abort(w, s)
      <3>1. HasRow(v)' => fails' >= 1
        BY <1>b, <1>r, <2>1
      <3>2. job'[w][s].stage = "cleanup" /\ job'[w][s].bad
        BY <2>1, AbortSlot
      <3> QED BY <3>1, <3>2 DEF Equipped
    <2>2. CASE Goes(w, s, "thumbs")
      BY <1>g, <2>2
    <2> QED BY <1>8, <2>1, <2>2 DEF UploadDone
  <1>9. CASE UploadThumbs(w, s, v)
    BY <1>9, <1>g DEF UploadThumbs
  <1>10. CASE Publish(w, s, v)
    <2>1. PICK o \in Outcome :
                 /\ Ends(o)
                 /\ IF Took(o) THEN SetStatus(v, "ready") ELSE UNCHANGED status
                 /\ Returns(w, s, o # "ok")
      BY <1>10 DEF Publish
    <2>2. job'[w][s].stage = "cleanup" /\ job'[w][s].bad = (o # "ok")
      BY <2>1, ReturnsSlot
    <2>3. o # "ok" => fails' >= 1
      BY <1>p, <2>1 DEF Outcome, Ends
    <2>4. o = "ok" => status'[v] \notin {"pending", "processing"}
      BY <2>1 DEF Took, SetStatus, HasRow, VideoStatus, ServicesTypeOK
    <2> QED BY <2>2, <2>3, <2>4 DEF Equipped
  <1>11. CASE MarkFailed(w, s, v)
    BY <1>11, IdleSlot, NoVideoAssumption DEF MarkFailed, RunBy
  <1>12. CASE RemoveWorkDir(w, s, v)
    <2>1. job[w][s].bad /\ job'[w][s].stage = "failing"
      BY <1>12, CleanedSlot, NoVideoAssumption DEF RemoveWorkDir, RunBy
    <2> QED BY <1>b, <1>r, <2>1 DEF Equipped
  <1> QED
    BY <1>1, <1>2, <1>3, <1>4, <1>5, <1>6, <1>7, <1>8, <1>9, <1>10, <1>11, <1>12
       DEF ProcessStep

\* A job ends with its row marked failed, if there is a row, or with a call
\* that failed although the job was failing already, or after a good end.
LEMMA ProcessEnds ==
    ASSUME ServicesTypeOK, TranscoderTypeOK, NEW w \in Worker, NEW s \in Slot, NEW v \in Video,
           ProcessStep(w, s, v), ~Pay("lost"), ~RunBy(w, s, v)'
    PROVE  \/ SetStatus(v, "failed")
           \/ job[w][s].stage = "failing" /\ Pay("fail")
           \/ job[w][s].stage = "cleanup" /\ ~job[w][s].bad /\ status' = status
  <1> USE DEF At
  <1>v. job[w][s].video = v
    BY ProcessSlot
  <1>g. ASSUME NEW to
        PROVE  ~Goes(w, s, to)
    BY <1>v, GoesSlot DEF RunBy
  <1>a. ~Abort(w, s)
    BY <1>v, AbortSlot DEF RunBy
  <1>1. ~MarkProcessing(w, s, v) /\ ~FetchOriginal(w, s, v) /\ ~ProbeOriginal(w, s, v)
    BY <1>a, <1>g DEF MarkProcessing, FetchOriginal, ProbeOriginal
  <1>2. ~TranscodeMedia(w, s, v) /\ ~ExtractTracks(w, s, v)
    BY <1>a, <1>g DEF TranscodeMedia, ExtractTracks
  <1>3. ~UploadDone(w, s, v) /\ ~UploadThumbs(w, s, v)
    BY <1>a, <1>g DEF UploadDone, UploadThumbs
  <1>4. ~Package(w, s, v)
    <2> SUFFICES ASSUME Package(w, s, v)
                 PROVE  FALSE
      OBVIOUS
    <2> DEFINE files == (work[w][v] \intersect File) \union {"master"}
    <2>1. job' = [job EXCEPT ![w][s].stage = "upload", ![w][s].todo = files]
      BY <1>a DEF Package
    <2> HIDE DEF files
    <2> QED BY <1>v, <2>1, PackageSlot DEF RunBy
  <1>5. ASSUME NEW f \in File
        PROVE  ~UploadFile(w, s, v, f)
    BY <1>v, TriedSlot DEF UploadFile, RunBy
  <1>6. ~Publish(w, s, v)
    BY <1>v, PublishSlot DEF RunBy
  <1>7. CASE MarkFailed(w, s, v)
    BY <1>7 DEF MarkFailed
  <1>8. CASE RemoveWorkDir(w, s, v)
    BY <1>8, <1>v, CleanedSlot DEF RemoveWorkDir, RunBy, rows
  <1> QED BY <1>1, <1>2, <1>3, <1>4, <1>5, <1>6, <1>7, <1>8 DEF ProcessStep

\* While nothing but a failing call happens, a task ends with its job.
LEMMA TaskEnds ==
    ASSUME TypeOK, Next, NEW v \in Video, HasTask(v), ~HasTask(v)',
           ~Pay("lost"), ~Pay("crash"), \A w \in Worker : phase[w] = "up"
    PROVE  \E w \in Worker, s \in Slot : ProcessStep(w, s, v) /\ ~RunBy(w, s, v)'
  <1> USE DEF TypeOK
  <1>h. /\ ~Queued(v)'
        /\ \A w \in Worker : ~HeldBy(w, v)' /\ \A s \in Slot : ~RunBy(w, s, v)'
    BY DEF HasTask
  <1>1. CASE UNCHANGED <<queue, held, job>>
    BY <1>1 DEF HasTask, Queued, HeldBy, RunBy
  <1>2. ASSUME ApiNext, UNCHANGED transcoderVars
        PROVE  FALSE
    <2>1. ASSUME NEW u \in Video, Enqueue(u)
          PROVE  FALSE
      <3>1. queue' \in {queue, Append(queue, u), Append(Append(queue, u), u)}
        BY <2>1 DEF Enqueue, Outcome
      <3>2. ASSUME NEW i \in 1..Len(queue)
            PROVE  i \in 1..Len(queue') /\ queue'[i] = queue[i]
        <4>1. queue \in Seq(Video)
          BY DEF ServicesTypeOK
        <4>2. Append(queue, u) \in Seq(Video) /\ Len(Append(queue, u)) = Len(queue) + 1
          BY <4>1
        <4> QED BY <3>1, <4>1, <4>2
      <3>3. Queued(v) => Queued(v)'
        BY <3>2 DEF Queued
      <3> QED BY <1>2, <1>h, <3>3 DEF transcoderVars, HasTask, HeldBy, RunBy
    <2>2. ASSUME NEW u \in Video,
                 \/ StoreOriginal(u) \/ CreateRow(u) \/ UndoStore(u) \/ MarkEnqueueFailed(u)
                 \/ UploadGone(u) \/ DeleteRow(u) \/ DeleteDir(u) \/ DeleteGone(u)
          PROVE  queue' = queue
      BY <2>2 DEF StoreOriginal, CreateRow, UndoStore, MarkEnqueueFailed, UploadGone, DeleteRow,
                  DeleteDir, DeleteGone
    <2>3. ~ApiCrash
      BY DEF ApiCrash
    <2>4. queue' # queue
      BY <1>2, <1>h DEF transcoderVars, HasTask, Queued, HeldBy, RunBy
    <2> QED BY <1>2, <2>1, <2>2, <2>3, <2>4 DEF ApiNext, UploadStep
  <1>3. ASSUME NEW w \in Worker, Pop(w)
        PROVE  FALSE
    <2>1. /\ Len(queue) \in Nat \ {0}
          /\ Head(queue) = queue[1]
          /\ Len(queue') = Len(queue) - 1
          /\ \A i \in 1..Len(queue') : queue'[i] = queue[i + 1]
          /\ \A i \in 2..Len(queue) : i - 1 \in 1..Len(queue') /\ queue'[i - 1] = queue[i]
      BY <1>3 DEF Pop, ServicesTypeOK
    <2>2. held' = [held EXCEPT ![w] = Head(queue)] /\ held[w] = NoVideo /\ job' = job
      BY <1>3 DEF Pop
    <2>3. Queued(v)
      BY <1>h, <2>2, NoVideoAssumption DEF HasTask, HeldBy, RunBy, TranscoderTypeOK
    <2>4. PICK i \in 1..Len(queue) : queue[i] = v
      BY <2>3 DEF Queued
    <2>5. i # 1
      BY <1>h, <2>1, <2>2, <2>4 DEF HeldBy, TranscoderTypeOK
    <2>6. i \in 2..Len(queue)
      BY <2>1, <2>4, <2>5
    <2> QED BY <1>h, <2>1, <2>4, <2>6 DEF Queued
  <1>4. ASSUME NEW w \in Worker, NEW s \in Slot, StartJob(w, s)
        PROVE  FALSE
    <2>1. OtherSlots(w, s) /\ job'[w][s] = [Idle EXCEPT !.video = held[w], !.stage = "start"]
      BY <1>4 DEF StartJob, OtherSlots, TranscoderTypeOK
    <2>2. job'[w][s].video = held[w] /\ job[w][s].video = NoVideo
      <3>1. job'[w][s].video = held[w]
        BY <2>1 DEF Idle
      <3>2. job[w][s] = Idle
        BY <1>4 DEF StartJob
      <3>3. job[w][s].video = NoVideo
        BY <3>2 DEF Idle
      <3> QED BY <3>1, <3>3
    <2>3. ~HeldBy(w, v)
      BY <1>h, <2>2 DEF RunBy, HeldBy
    <2>4. \A x \in Worker : ~HeldBy(x, v)
      BY <1>4, <1>h, <2>3 DEF StartJob, HeldBy, TranscoderTypeOK
    <2>5. \A x \in Worker, t \in Slot : ~RunBy(x, t, v)
      BY <1>h, <2>1, <2>2, NoVideoAssumption DEF RunBy, OtherSlots
    <2>6. ~Queued(v)
      BY <1>4, <1>h DEF StartJob, services, Queued
    <2> QED BY <2>4, <2>5, <2>6 DEF HasTask
  <1>5. ASSUME NEW w \in Worker, NEW s \in Slot, NEW u \in Video, ProcessStep(w, s, u)
        PROVE  u = v
    <2>1. SlotStep(w, s, u) /\ job[w][s].video = u
      BY <1>5, ProcessSlot
    <2>2. ~Queued(v) /\ \A x \in Worker : ~HeldBy(x, v)
      BY <1>h, <2>1 DEF SlotStep, Queued, HeldBy
    <2>3. \A x \in Worker, t \in Slot : x # w \/ t # s => ~RunBy(x, t, v)
      BY <1>h, <2>1 DEF SlotStep, OtherSlots, RunBy
    <2> QED BY <2>1, <2>2, <2>3 DEF HasTask, RunBy
  <1>6. ASSUME NEW w \in Worker
        PROVE  ~Crash(w) /\ ~Exit(w) /\ \A s \in Slot : ~Abandon(w, s)
    BY DEF Crash, Exit, Abandon
  <1>7. ASSUME NEW w \in Worker, PollAgain(w) \/ Stop(w) \/ Restart(w)
        PROVE  UNCHANGED <<queue, held, job>>
    BY <1>7 DEF PollAgain, Stop, Restart, transcoderVars, services
  <1>8. CASE TranscoderNext
    BY <1>1, <1>3, <1>4, <1>5, <1>6, <1>7, <1>8, <1>h DEF TranscoderNext, LoopStep, JobStep
  <1> QED BY <1>2, <1>8 DEF Next
\* What the handlers leave of a video that has no task and gets none: a row
\* that waits for nobody has cost two failing calls.
LEMMA ApiStrands ==
    ASSUME PlayableInv, OriginalInv, ApiNext, None("lost"), NEW v \in Video,
           \A k \in {"lost", "dup", "gone", "crash", "stop"} : ~Pay(k),
           upload[v] = "unqueued" => Spent("fail") >= 1,
           ~HasTask(v), ~HasTask(v)', UNCHANGED transcoderVars,
           ~Stranded(v), Stranded(v)'
    PROVE  Spent("fail")' >= 2
  <1> USE DEF PlayableInv, TypeOK, ServicesTypeOK, ApiTypeOK, rows
  <1>s. /\ status'[v] \in {"pending", "processing"} /\ upload'[v] \notin InFlight
        /\ status[v] \in {"pending", "processing"} => upload[v] \in InFlight
    BY DEF Stranded
  <1>p. Pay("fail") => Spent("fail")' = Spent("fail") + 1 /\ Spent("fail") \in Nat
    BY PayCounts DEF FaultKind
  <1>1. ASSUME NEW u \in Video, StoreOriginal(u)
        PROVE  FALSE
    BY <1>1, <1>s DEF StoreOriginal, UploadGoes, RequestInv, InFlight
  <1>2. ASSUME NEW u \in Video, CreateRow(u)
        PROVE  FALSE
    BY <1>2, <1>s DEF CreateRow, UploadGoes, InFlight
  <1>3. ASSUME NEW u \in Video, UndoStore(u)
        PROVE  FALSE
    BY <1>3, <1>s DEF UndoStore, UploadGoes, OriginalInv, InFlight
  <1>4. ASSUME NEW u \in Video, Enqueue(u)
        PROVE  FALSE
    <2>1. u = v
      BY <1>4, <1>s DEF Enqueue, UploadGoes
    <2>2. PICK o \in Outcome \union {"dup"} :
                 /\ UploadGoes(v, "created", IF o \in {"ok", "dup"} THEN "accepted" ELSE "unqueued")
                 /\ Ends(o)
                 /\ \/ o = "fail" /\ UNCHANGED queue
                    \/ o \in {"ok", "lost"} /\ queue' = Append(queue, v)
                    \/ o = "dup" /\ queue' = Append(Append(queue, v), v)
      BY <1>4, <2>1 DEF Enqueue
    <2>3. o = "ok"
      BY <1>s, <2>2 DEF UploadGoes, InFlight, Ends, Outcome
    <2>4. queue' = Append(queue, v)
      BY <2>2, <2>3
    <2>5. Len(queue) + 1 \in 1..Len(queue') /\ queue'[Len(queue) + 1] = v
      BY <2>4
    <2>6. Queued(v)'
      BY <2>5 DEF Queued
    <2> QED BY <2>6 DEF HasTask
  <1>5. ASSUME NEW u \in Video, MarkEnqueueFailed(u)
        PROVE  Spent("fail")' >= 2
    <2>1. u = v
      <3> SUFFICES ASSUME u # v
                   PROVE  FALSE
        OBVIOUS
      <3>1. upload'[v] = upload[v] /\ status'[v] = status[v]
        BY <1>5 DEF MarkEnqueueFailed, UploadGoes, SetStatus
      <3> QED BY <1>s, <3>1
    <2>2. ~SetStatus(v, "failed")
      BY <1>s DEF SetStatus, HasRow, VideoStatus
    <2>3. Pay("fail") /\ upload[v] = "unqueued"
      BY <1>5, <2>1, <2>2 DEF MarkEnqueueFailed, UploadGoes
    <2> QED BY <1>p, <2>3
  <1>6. ASSUME NEW u \in Video, DeleteRow(u)
        PROVE  FALSE
    BY <1>6, <1>s DEF DeleteRow
  <1>7. ASSUME NEW u \in Video, DeleteDir(u)
        PROVE  FALSE
    BY <1>7, <1>s DEF DeleteDir
  <1>8. \A u \in Video : ~UploadGone(u) /\ ~DeleteGone(u)
    BY DEF UploadGone, DeleteGone
  <1>9. ~ApiCrash
    BY DEF ApiCrash
  <1> QED BY <1>1, <1>2, <1>3, <1>4, <1>5, <1>6, <1>7, <1>8, <1>9 DEF ApiNext, UploadStep

LEMMA StrandStep ==
    ASSUME PlayableInv, OriginalInv, StrandInv, Next
    PROVE  StrandInv'
  <1> USE DEF PlayableInv
  <1> DEFINE fails == Spent("fail")
  <1> SUFFICES ASSUME Calm'
               PROVE  /\ \A w \in Worker : phase'[w] = "up"
                      /\ \A v \in Video : upload'[v] = "unqueued" => fails' >= 1
                      /\ \A w \in Worker, s \in Slot, v \in Video :
                           RunBy(w, s, v)' => Equipped(w, s, v)'
                      /\ fails' <= 1 => \A v \in Video : ~Stranded(v)'
    BY DEF StrandInv
  <1>n. fails \in Nat /\ fails' \in Nat /\ fails <= fails'
    BY StepCounts DEF FaultKind
  <1>k. \A k \in {"lost", "dup", "gone", "crash", "stop"} : None(k) /\ ~Pay(k)
    BY PayCounts, StepCounts DEF Calm, FaultKind, TypeOK
  <1>c. Calm
    BY <1>k DEF Calm
  <1>p. Pay("fail") => fails' = fails + 1
    BY PayCounts DEF FaultKind, TypeOK
  <1>s. /\ \A w \in Worker : phase[w] = "up"
        /\ \A v \in Video : upload[v] = "unqueued" => fails >= 1
        /\ \A w \in Worker, s \in Slot, v \in Video : RunBy(w, s, v) => Equipped(w, s, v)
        /\ fails <= 1 => \A v \in Video : ~Stranded(v)
    BY <1>c DEF StrandInv
  <1>x. \A w \in Worker : /\ ~Stop(w) /\ ~Crash(w) /\ ~Exit(w) /\ ~Restart(w)
                          /\ \A s \in Slot : ~Abandon(w, s)
    BY <1>k, <1>s DEF Stop, Crash, Exit, Restart, Abandon
  <1>1. \A w \in Worker : phase'[w] = "up"
    <2>1. ASSUME NEW w \in Worker, LoopStep(w)
          PROVE  phase' = phase
      BY <1>x, <2>1 DEF LoopStep, Pop, PollAgain, StartJob, transcoderVars
    <2>2. ASSUME NEW w \in Worker, NEW s \in Slot, NEW v \in Video, ProcessStep(w, s, v)
          PROVE  phase' = phase
      BY <2>2 DEF ProcessStep, MarkProcessing, FetchOriginal, ProbeOriginal, TranscodeMedia,
                  ExtractTracks, Package, UploadFile, UploadDone, UploadThumbs, Publish,
                  RemoveWorkDir, MarkFailed, At
    <2>3. ASSUME UNCHANGED transcoderVars
          PROVE  phase' = phase
      BY <2>3 DEF transcoderVars
    <2> QED BY <1>s, <1>x, <2>1, <2>2, <2>3 DEF Next, TranscoderNext, JobStep
  <1>2. ASSUME NEW v \in Video, upload'[v] = "unqueued"
        PROVE  fails' >= 1
    <2>1. CASE upload[v] = "unqueued"
      BY <1>n, <1>s, <2>1
    <2>2. CASE upload[v] # "unqueued"
      <3>1. Enqueue(v)
        BY <1>2, <2>2 DEF Next, ApiNext, UploadStep, StoreOriginal, CreateRow, UndoStore, Enqueue,
                          MarkEnqueueFailed, UploadGone, UploadGoes, DeleteRow, DeleteDir,
                          DeleteGone, ApiCrash, apiVars, TypeOK, ApiTypeOK
      <3>2. Pay("fail")
        BY <1>2, <1>k, <3>1 DEF Enqueue, UploadGoes, Outcome, Ends, TypeOK, ApiTypeOK
      <3> QED BY <1>n, <1>p, <3>2
    <2> QED BY <2>1, <2>2
  <1>3. ASSUME NEW w \in Worker, NEW s \in Slot, NEW v \in Video, RunBy(w, s, v)'
        PROVE  Equipped(w, s, v)'
    <2>1. CASE HeldBy(w, v) /\ StartJob(w, s)
      <3>1. job'[w][s] = [Idle EXCEPT !.video = held[w], !.stage = "start"]
        BY <2>1 DEF StartJob, TypeOK, TranscoderTypeOK
      <3>2. job'[w][s].stage = "start" /\ job'[w][s].bad = FALSE
        BY <3>1 DEF Idle
      <3> QED BY <3>2 DEF Equipped
    <2>2. CASE ProcessStep(w, s, v)
      <3>1. Equipped(w, s, v)
        BY <1>s, <2>2, ProcessSlot DEF TypeOK, RunBy
      <3> QED BY <1>3, <1>k, <2>2, <3>1, ProcessEquipped
    <2>3. CASE RunBy(w, s, v) /\ job'[w][s] = job[w][s] /\ ~ProcessStep(w, s, v)
      <3>1. Equipped(w, s, v)
        BY <1>s, <2>3
      <3>2. work'[w][v] = work[w][v]
        <4>1. ASSUME NEW x \in Worker, NEW t \in Slot, NEW u \in Video, ProcessStep(x, t, u)
              PROVE  work'[w][v] = work[w][v]
          <5>1. OtherDirs(x, u) /\ RunBy(x, t, u)
            BY <4>1, ProcessSlot DEF TypeOK, SlotStep, RunBy
          <5>2. x # w \/ u # v
            BY <1>k, <2>3, <4>1, <5>1 DEF OneTaskPerVideo
          <5> QED BY <5>1, <5>2 DEF OtherDirs
        <4>2. ASSUME NEW x \in Worker, LoopStep(x)
              PROVE  work' = work
          BY <1>x, <4>2 DEF LoopStep, Pop, PollAgain, StartJob, transcoderVars
        <4>3. ASSUME UNCHANGED transcoderVars
              PROVE  work' = work
          BY <4>3 DEF transcoderVars
        <4> QED BY <1>x, <4>1, <4>2, <4>3 DEF Next, TranscoderNext, JobStep
      <3>3. HasRow(v)' => HasRow(v)
        <4>1. KeepsRows
          BY RowsKept DEF Next
        <4> QED BY <2>3, <4>1 DEF KeepsRows, HasTask
      <3>4. status'[v] \in {status[v], "failed", "deleted"}
        <4>1. HasTask(v)
          BY <2>3 DEF HasTask
        <4>2. upload[v] # "stored"
          BY <4>1 DEF RequestInv
        <4>3. ASSUME ApiNext
              PROVE  status'[v] \in {status[v], "failed", "deleted"}
          BY <4>2, <4>3, ApiStatus
        <4>4. ASSUME NEW x \in Worker, NEW t \in Slot, NEW u \in Video, ProcessStep(x, t, u)
              PROVE  status'[v] = status[v]
          <5>1. RunBy(x, t, u)
            BY <4>4, ProcessSlot DEF TypeOK, RunBy
          <5>2. u # v
            BY <1>k, <2>3, <4>4, <5>1 DEF OneTaskPerVideo
          <5> QED BY <4>4, <5>2, ProcessStatus DEF TypeOK
        <4> QED BY <4>3, <4>4, OthersStatus DEF Next, TranscoderNext, JobStep
      <3> QED BY <1>n, <2>3, <3>1, <3>2, <3>3, <3>4 DEF Equipped
    <2> QED BY <1>3, <2>1, <2>2, <2>3, TaskMoves
  <1>4. ASSUME fails' <= 1, NEW v \in Video, Stranded(v)'
        PROVE  FALSE
    <2>1. fails <= 1 /\ ~Stranded(v) /\ ~HasTask(v)'
      BY <1>4, <1>n, <1>s DEF Stranded
    <2>2. CASE HasTask(v)
      <3>1. PICK w \in Worker, s \in Slot : ProcessStep(w, s, v) /\ ~RunBy(w, s, v)'
        BY <1>k, <1>s, <2>1, <2>2, TaskEnds
      <3>2. RunBy(w, s, v)
        BY <3>1, ProcessSlot DEF TypeOK, RunBy
      <3>3. status'[v] \in {"pending", "processing"}
        BY <1>4 DEF Stranded
      <3>4. HasRow(v)
        BY <3>1, <3>3, ProcessRows DEF TypeOK, HasRow, VideoStatus
      <3>5. ~SetStatus(v, "failed")
        BY <3>3, <3>4 DEF SetStatus, TypeOK, ServicesTypeOK
      <3>8. ~(job[w][s].stage = "cleanup" /\ ~job[w][s].bad /\ status' = status)
        BY <1>s, <3>2, <3>3 DEF Equipped
      <3>6. job[w][s].stage = "failing" /\ Pay("fail")
        BY <1>k, <3>1, <3>5, <3>8, ProcessEnds DEF TypeOK
      <3>7. fails >= 1
        BY <1>s, <3>2, <3>4, <3>6 DEF Equipped
      <3> QED BY <1>4, <1>n, <1>p, <3>6, <3>7
    <2>3. CASE ~HasTask(v) /\ ApiNext /\ UNCHANGED transcoderVars
      BY <1>4, <1>k, <1>n, <1>s, <2>1, <2>3, ApiStrands
    <2>4. CASE ~HasTask(v) /\ TranscoderNext /\ UNCHANGED apiVars
      <3>1. ASSUME NEW w \in Worker, NEW s \in Slot, NEW u \in Video, ProcessStep(w, s, u)
            PROVE  status'[v] = status[v]
        <4>1. RunBy(w, s, u)
          BY <3>1, ProcessSlot DEF TypeOK, RunBy
        <4>2. u # v
          BY <2>4, <4>1 DEF HasTask
        <4> QED BY <3>1, <4>2, ProcessStatus DEF TypeOK
      <3>2. status'[v] = status[v]
        BY <2>4, <3>1, OthersStatus DEF TranscoderNext, JobStep
      <3> QED BY <1>4, <2>1, <2>4, <3>2 DEF Stranded, apiVars
    <2> QED BY <2>2, <2>3, <2>4 DEF Next
  <1> QED BY <1>1, <1>2, <1>3, <1>4

(***************************************************************************)
(* One failing call never strands a row that says pending or processing:   *)
(* it takes a second failure or another kind of mishap.                    *)
(***************************************************************************)
THEOREM StrandedCorrect == Spec => []StrandedNeedsMore
  <1>1. Init /\ PlayableInv => StrandInv
    <2> SUFFICES ASSUME Init, PlayableInv
                 PROVE  StrandInv
      OBVIOUS
    <2>1. \A v \in Video : upload[v] = "new" /\ status[v] = "none"
      BY DEF Init, ApiInit, ServicesInit
    <2>2. \A w \in Worker, s \in Slot, v \in Video : ~RunBy(w, s, v)
      BY NoVideoAssumption DEF Init, TranscoderInit, Idle, RunBy
    <2>3. \A w \in Worker : phase[w] = "up"
      BY DEF Init, TranscoderInit
    <2> QED BY <2>1, <2>2, <2>3 DEF StrandInv, Stranded
  <1>2. PlayableInv /\ OriginalInv /\ StrandInv /\ [Next]_vars => StrandInv'
    <2> SUFFICES ASSUME PlayableInv, OriginalInv, StrandInv, [Next]_vars
                 PROVE  StrandInv'
      OBVIOUS
    <2>1. CASE UNCHANGED vars
      BY <2>1 DEF vars, services, apiVars, transcoderVars, StrandInv, Calm, None, Spent, Equipped,
                  Stranded, HasTask, Queued, HeldBy, RunBy, HasRow
    <2> QED BY <2>1, StrandStep
  <1>3. PlayableInv /\ StrandInv => StrandedNeedsMore
    <2>1. PlayableInv => Spent("fail") \in Nat
      BY BudgetAssumption DEF PlayableInv, TypeOK, ServicesTypeOK, BudgetInv, Spent, FaultKind
    <2> QED BY <2>1 DEF StrandInv, StrandedNeedsMore, Calm
  <1> QED BY <1>1, <1>2, <1>3, PlayableInvCorrect, RowHasOriginalCorrect, PTL DEF Spec
=============================================================================
