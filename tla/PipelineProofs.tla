--------------------------- MODULE PipelineProofs ---------------------------
(***************************************************************************)
(* Theorems about Pipeline for every set of videos, workers and slots and  *)
(* every budget of faults: the state is well formed, and a video that says *)
(* ready can be played, by the inductive invariant PlayableInv, with one   *)
(* lemma for each of its conjuncts.                                        *)
(***************************************************************************)
EXTENDS Pipeline, SequenceTheorems, TLAPS

-----------------------------------------------------------------------------
(* What the calls of Services do to the types. *)

\* A fault that is paid for leaves a budget.
LEMMA PayTyped ==
    ASSUME ServicesTypeOK, NEW k \in FaultKind, Pay(k)
    PROVE  budget' \in [FaultKind -> Nat]
  BY DEF ServicesTypeOK, Pay

\* So does the outcome of a call.
LEMMA EndsTyped ==
    ASSUME ServicesTypeOK, NEW o \in Outcome \union {"dup"}, Ends(o)
    PROVE  budget' \in [FaultKind -> Nat]
  <1>1. CASE o = "ok"
    BY <1>1 DEF ServicesTypeOK, Ends, Free
  <1>2. CASE o # "ok"
    <2>1. o \in FaultKind
      BY <1>2 DEF Outcome, FaultKind
    <2> QED BY <1>2, <2>1, PayTyped DEF Ends
  <1> QED BY <1>1, <1>2

\* The status column keeps its type.
LEMMA SetStatusTyped ==
    ASSUME ServicesTypeOK, NEW v \in Video, NEW s \in VideoStatus, SetStatus(v, s)
    PROVE  status' \in [Video -> RowState]
  BY DEF ServicesTypeOK, SetStatus, RowState

\* And so does the progress column.
LEMMA SetProgressTyped ==
    ASSUME ServicesTypeOK, NEW v \in Video, NEW pct \in Percent, SetProgress(v, pct)
    PROVE  /\ progress' \in [Video -> Percent]
           /\ budget' \in [FaultKind -> Nat]
  <1>1. CASE Free /\ progress' = IF HasRow(v) THEN [progress EXCEPT ![v] = pct] ELSE progress
    BY <1>1 DEF ServicesTypeOK, Free
  <1>2. CASE Pay("slip") /\ UNCHANGED progress
    BY <1>2, PayTyped DEF ServicesTypeOK, FaultKind
  <1> QED BY <1>1, <1>2 DEF SetProgress

-----------------------------------------------------------------------------
(* The API server. *)

\* A request that goes to another state of UploadState keeps the types.
LEMMA UploadGoesTyped ==
    ASSUME ApiTypeOK, NEW v \in Video, NEW from, NEW to \in UploadState, UploadGoes(v, from, to)
    PROVE  ApiTypeOK'
  BY DEF ApiTypeOK, UploadGoes

\* Every step of a handler keeps the types.
LEMMA ApiTyped ==
    ASSUME ServicesTypeOK, ApiTypeOK, ApiNext
    PROVE  ServicesTypeOK' /\ ApiTypeOK'
  <1>1. ASSUME NEW v \in Video, StoreOriginal(v)
        PROVE  ServicesTypeOK' /\ ApiTypeOK'
    <2>1. PICK o \in Outcome :
            /\ UploadGoes(v, "new", IF o = "ok" THEN "stored" ELSE "unstored")
            /\ Ends(o)
            /\ originals' = IF Took(o) THEN originals \union {v} ELSE originals
            /\ UNCHANGED <<rows, queue, hls, thumbs>>
      BY <1>1 DEF StoreOriginal
    <2>2. ApiTypeOK'
      BY <2>1, UploadGoesTyped DEF UploadState
    <2>3. budget' \in [FaultKind -> Nat]
      BY <2>1, EndsTyped
    <2> QED BY <2>1, <2>2, <2>3 DEF ServicesTypeOK, rows
  <1>2. ASSUME NEW v \in Video, CreateRow(v)
        PROVE  ServicesTypeOK' /\ ApiTypeOK'
    <2>1. PICK o \in Outcome :
            /\ UploadGoes(v, "stored", IF o = "ok" THEN "created" ELSE "undo")
            /\ Ends(o)
            /\ status' = IF Took(o) THEN [status EXCEPT ![v] = "pending"] ELSE status
            /\ UNCHANGED <<progress, duration, queue, blobs>>
      BY <1>2 DEF CreateRow
    <2>2. ApiTypeOK'
      BY <2>1, UploadGoesTyped DEF UploadState
    <2>3. budget' \in [FaultKind -> Nat]
      BY <2>1, EndsTyped
    <2> QED BY <2>1, <2>2, <2>3 DEF ServicesTypeOK, blobs, RowState, VideoStatus
  <1>3. ASSUME NEW v \in Video, UndoStore(v)
        PROVE  ServicesTypeOK' /\ ApiTypeOK'
    <2>1. ApiTypeOK'
      BY <1>3, UploadGoesTyped DEF UndoStore, UploadState
    <2>2. budget' \in [FaultKind -> Nat]
      BY <1>3, PayTyped DEF UndoStore, Free, ServicesTypeOK, FaultKind
    <2> QED BY <1>3, <2>1, <2>2 DEF UndoStore, ServicesTypeOK, rows
  <1>4. ASSUME NEW v \in Video, Enqueue(v)
        PROVE  ServicesTypeOK' /\ ApiTypeOK'
    <2>1. PICK o \in Outcome \union {"dup"} :
            /\ UploadGoes(v, "created", IF o \in {"ok", "dup"} THEN "accepted" ELSE "unqueued")
            /\ Ends(o)
            /\ \/ o = "fail" /\ UNCHANGED queue
               \/ o \in {"ok", "lost"} /\ queue' = Append(queue, v)
               \/ o = "dup" /\ queue' = Append(Append(queue, v), v)
            /\ UNCHANGED <<rows, blobs>>
      BY <1>4 DEF Enqueue
    <2>2. ApiTypeOK'
      BY <2>1, UploadGoesTyped DEF UploadState
    <2>3. budget' \in [FaultKind -> Nat]
      BY <2>1, EndsTyped
    <2>4. queue' \in Seq(Video)
      <3>1. Append(queue, v) \in Seq(Video)
        BY AppendProperties DEF ServicesTypeOK
      <3>2. Append(Append(queue, v), v) \in Seq(Video)
        BY <3>1, AppendProperties
      <3> QED BY <2>1, <3>1, <3>2 DEF ServicesTypeOK
    <2> QED BY <2>1, <2>2, <2>3, <2>4 DEF ServicesTypeOK, rows, blobs
  <1>5. ASSUME NEW v \in Video, MarkEnqueueFailed(v)
        PROVE  ServicesTypeOK' /\ ApiTypeOK'
    <2>1. ApiTypeOK'
      BY <1>5, UploadGoesTyped DEF MarkEnqueueFailed, UploadState
    <2>2. budget' \in [FaultKind -> Nat]
      BY <1>5, PayTyped DEF MarkEnqueueFailed, Free, ServicesTypeOK, FaultKind
    <2>3. status' \in [Video -> RowState]
      BY <1>5, SetStatusTyped DEF MarkEnqueueFailed, ServicesTypeOK, VideoStatus
    <2> QED BY <1>5, <2>1, <2>2, <2>3 DEF MarkEnqueueFailed, ServicesTypeOK, blobs
  <1>6. ASSUME NEW v \in Video, UploadGone(v)
        PROVE  ServicesTypeOK' /\ ApiTypeOK'
    <2>1. ApiTypeOK'
      BY <1>6, UploadGoesTyped DEF UploadGone, UploadState
    <2>2. budget' \in [FaultKind -> Nat]
      BY <1>6, PayTyped DEF UploadGone, FaultKind
    <2> QED BY <1>6, <2>1, <2>2 DEF UploadGone, ServicesTypeOK, rows, blobs
  <1>7. ASSUME NEW v \in Video, DeleteRow(v)
        PROVE  ServicesTypeOK' /\ ApiTypeOK'
    <2>1. budget' \in [FaultKind -> Nat]
      BY <1>7, EndsTyped DEF DeleteRow, Outcome
    <2> QED BY <1>7, <2>1 DEF DeleteRow, ServicesTypeOK, ApiTypeOK, blobs, RowState, Directory
  <1>8. ASSUME NEW v \in Video, DeleteDir(v)
        PROVE  ServicesTypeOK' /\ ApiTypeOK'
    <2>1. budget' \in [FaultKind -> Nat]
      BY <1>8, PayTyped DEF DeleteDir, Free, ServicesTypeOK, FaultKind
    <2>2. NextDirectory(del[v]) \in Directory \union {"idle"}
      BY <1>8 DEF DeleteDir, NextDirectory, Directory
    <2>3. ApiTypeOK'
      BY <1>8, <2>2 DEF DeleteDir, ApiTypeOK
    <2> QED BY <1>8, <2>1, <2>3 DEF DeleteDir, ServicesTypeOK, rows, blobs
  <1>9. ASSUME NEW v \in Video, DeleteGone(v)
        PROVE  ServicesTypeOK' /\ ApiTypeOK'
    <2>1. budget' \in [FaultKind -> Nat]
      BY <1>9, PayTyped DEF DeleteGone, FaultKind
    <2> QED BY <1>9, <2>1 DEF DeleteGone, ServicesTypeOK, ApiTypeOK, rows, blobs
  <1>10. ASSUME ApiCrash
         PROVE  ServicesTypeOK' /\ ApiTypeOK'
    <2>1. budget' \in [FaultKind -> Nat]
      BY <1>10, PayTyped DEF ApiCrash, FaultKind
    <2> QED BY <1>10, <2>1 DEF ApiCrash, ServicesTypeOK, ApiTypeOK, UploadState, rows, blobs
  <1> QED
    BY <1>1, <1>2, <1>3, <1>4, <1>5, <1>6, <1>7, <1>8, <1>9, <1>10 DEF ApiNext, UploadStep

-----------------------------------------------------------------------------
(* The transcoder. *)

\* A free slot is a slot.
LEMMA IdleTyped == Idle \in Job
  BY DEF Idle, Job, Stage

\* What the stages do to the record of a job.
LEMMA StageTyped ==
    ASSUME NEW j \in Job, NEW stage \in Stage
    PROVE  [j EXCEPT !.stage = stage] \in Job
  BY DEF Job

\* A job that has listed its files is a job.
LEMMA ListedTyped ==
    ASSUME NEW j \in Job, NEW stage \in Stage, NEW todo \in SUBSET File
    PROVE  [j EXCEPT !.stage = stage, !.todo = todo] \in Job
  BY DEF Job

\* So is a job with an upload less to do.
LEMMA TriedTyped ==
    ASSUME NEW j \in Job, NEW todo \in SUBSET File, NEW bad \in BOOLEAN
    PROVE  [j EXCEPT !.todo = todo, !.bad = bad] \in Job
  BY DEF Job

\* So is a job whose process has returned.
LEMMA ReturnedTyped ==
    ASSUME NEW j \in Job, NEW bad \in BOOLEAN
    PROVE  [j EXCEPT !.stage = "cleanup", !.bad = bad] \in Job
  BY DEF Job, Stage

\* What is in a slot has the type of a job, and any job may be put there.
LEMMA SlotTyped ==
    ASSUME TranscoderTypeOK, NEW w \in Worker, NEW s \in Slot
    PROVE  /\ job[w][s] \in Job
           /\ job[w][s].todo \in SUBSET File
           /\ job[w][s].bad \in BOOLEAN
           /\ \A j \in Job : [job EXCEPT ![w][s] = j] \in [Worker -> [Slot -> Job]]
  <1>1. job[w][s] \in Job
    BY DEF TranscoderTypeOK
  <1>2. job[w][s].todo \in SUBSET File /\ job[w][s].bad \in BOOLEAN
    BY <1>1 DEF Job
  <1> QED BY <1>1, <1>2 DEF TranscoderTypeOK

\* A job that goes to another stage stays a job.
LEMMA GoesTyped ==
    ASSUME TranscoderTypeOK, NEW w \in Worker, NEW s \in Slot, NEW stage \in Stage,
           Goes(w, s, stage)
    PROVE  job' \in [Worker -> [Slot -> Job]]
  <1>1. job' = [job EXCEPT ![w][s] = [job[w][s] EXCEPT !.stage = stage]]
    BY DEF Goes, TranscoderTypeOK
  <1> QED BY <1>1, SlotTyped, StageTyped

\* A work directory holds local files only.
LEMMA LeavesTyped ==
    ASSUME TranscoderTypeOK, NEW w \in Worker, NEW v \in Video, NEW files \in SUBSET Local,
           Leaves(w, v, files)
    PROVE  work' \in [Worker -> [Video -> SUBSET Local]]
  BY DEF TranscoderTypeOK, Leaves

\* The result of process is kept with its job.
LEMMA ReturnsTyped ==
    ASSUME TranscoderTypeOK, NEW w \in Worker, NEW s \in Slot, NEW failed \in BOOLEAN,
           Returns(w, s, failed)
    PROVE  job' \in [Worker -> [Slot -> Job]]
  <1>1. job' = [job EXCEPT ![w][s] = [job[w][s] EXCEPT !.stage = "cleanup", !.bad = failed]]
    BY DEF Returns, TranscoderTypeOK
  <1>2. [job[w][s] EXCEPT !.stage = "cleanup", !.bad = failed] \in Job
    BY SlotTyped, ReturnedTyped
  <1> QED BY <1>1, <1>2, SlotTyped

\* What RemoveAll leaves is what was there.
LEMMA RemovesTyped ==
    ASSUME ServicesTypeOK, TranscoderTypeOK, NEW w \in Worker, NEW v \in Video, Removes(w, v)
    PROVE  /\ budget' \in [FaultKind -> Nat]
           /\ work' \in [Worker -> [Video -> SUBSET Local]]
  <1>1. work[w][v] \in SUBSET Local
    BY DEF TranscoderTypeOK
  <1>2. \E rest \in SUBSET Local : Leaves(w, v, rest)
    BY <1>1 DEF Removes
  <1>3. budget' \in [FaultKind -> Nat]
    BY PayTyped DEF Removes, Free, FaultKind, ServicesTypeOK
  <1> QED BY <1>2, <1>3, LeavesTyped

\* A job that fails keeps the types.
LEMMA AbortTyped ==
    ASSUME TranscoderTypeOK, NEW w \in Worker, NEW s \in Slot, Abort(w, s)
    PROVE  /\ job' \in [Worker -> [Slot -> Job]]
           /\ work' \in [Worker -> [Video -> SUBSET Local]]
  BY ReturnsTyped DEF Abort, TranscoderTypeOK

\* So does a slot that is freed.
LEMMA EmptySlotTyped ==
    ASSUME TranscoderTypeOK, NEW w \in Worker, NEW s \in Slot,
           job' = [job EXCEPT ![w][s] = Idle]
    PROVE  job' \in [Worker -> [Slot -> Job]]
  BY IdleTyped DEF TranscoderTypeOK

\* A step of a job leaves the phase and the loop of its worker alone.
LEMMA AtTyped ==
    ASSUME TranscoderTypeOK, NEW w, NEW s, NEW v, NEW stage, At(w, s, v, stage)
    PROVE  /\ phase' \in [Worker -> {"up", "stopping", "down"}]
           /\ held' \in [Worker -> Video \union {NoVideo}]
  BY DEF TranscoderTypeOK, At

\* A step that fails leaves a budget.
LEMMA BreaksTyped ==
    ASSUME ServicesTypeOK, NEW missing, Breaks(missing)
    PROVE  budget' \in [FaultKind -> Nat]
  BY PayTyped DEF Breaks, Free, FaultKind, ServicesTypeOK

\* Every step of the loop keeps the types.
LEMMA LoopTyped ==
    ASSUME ServicesTypeOK, TranscoderTypeOK, NEW w \in Worker,
           LoopStep(w) \/ Stop(w) \/ Crash(w) \/ Restart(w)
    PROVE  ServicesTypeOK' /\ TranscoderTypeOK'
  <1>1. CASE Pop(w)
    <2>1. budget' \in [FaultKind -> Nat]
      BY <1>1, PayTyped DEF Pop, Free, ServicesTypeOK, FaultKind
    <2>2. Head(queue) \in Video /\ Tail(queue) \in Seq(Video)
      BY <1>1, HeadTailProperties DEF Pop, ServicesTypeOK
    <2>3. held' \in [Worker -> Video \union {NoVideo}]
      BY <1>1, <2>2 DEF Pop, TranscoderTypeOK
    <2> QED BY <1>1, <2>1, <2>2, <2>3 DEF Pop, ServicesTypeOK, TranscoderTypeOK, rows, blobs
  <1>2. CASE PollAgain(w)
    BY <1>2 DEF PollAgain, ServicesTypeOK, TranscoderTypeOK, services, transcoderVars
  <1>3. CASE Exit(w)
    BY <1>3 DEF Exit, ServicesTypeOK, TranscoderTypeOK, services
  <1>4. ASSUME NEW s \in Slot, StartJob(w, s)
        PROVE  ServicesTypeOK' /\ TranscoderTypeOK'
    <2>1. [Idle EXCEPT !.video = held[w], !.stage = "start"] \in Job
      BY <1>4 DEF TranscoderTypeOK, Idle, Job, Stage
    <2> QED BY <1>4, <2>1 DEF StartJob, ServicesTypeOK, TranscoderTypeOK, services
  <1>5. CASE Stop(w)
    <2>1. budget' \in [FaultKind -> Nat]
      BY <1>5, PayTyped DEF Stop, FaultKind
    <2> QED BY <1>5, <2>1 DEF Stop, ServicesTypeOK, TranscoderTypeOK, rows, blobs
  <1>6. CASE Crash(w)
    <2>1. budget' \in [FaultKind -> Nat]
      BY <1>6, PayTyped DEF Crash, FaultKind
    <2>2. job' \in [Worker -> [Slot -> Job]]
      BY <1>6, IdleTyped DEF Crash, TranscoderTypeOK
    <2>3. work' \in [Worker -> [Video -> SUBSET Local]]
      BY <1>6 DEF Crash, TranscoderTypeOK
    <2> QED
      BY <1>6, <2>1, <2>2, <2>3 DEF Crash, ServicesTypeOK, TranscoderTypeOK, rows, blobs
  <1>7. CASE Restart(w)
    BY <1>7 DEF Restart, ServicesTypeOK, TranscoderTypeOK, services
  <1> QED BY <1>1, <1>2, <1>3, <1>4, <1>5, <1>6, <1>7 DEF LoopStep

\* Every step of a job keeps the types.
LEMMA ProcessTyped ==
    ASSUME ServicesTypeOK, TranscoderTypeOK, NEW w \in Worker, NEW s \in Slot, NEW v \in Video,
           ProcessStep(w, s, v)
    PROVE  ServicesTypeOK' /\ TranscoderTypeOK'
  <1> USE DEF Local
  <1>w. work[w][v] \in SUBSET Local
    BY DEF TranscoderTypeOK
  <1>1. CASE MarkProcessing(w, s, v)
    <2>1. budget' \in [FaultKind -> Nat]
      BY <1>1, PayTyped DEF MarkProcessing, Free, ServicesTypeOK, FaultKind
    <2>2. status' \in [Video -> RowState]
      BY <1>1, SetStatusTyped DEF MarkProcessing, VideoStatus, ServicesTypeOK
    <2>3. job' \in [Worker -> [Slot -> Job]]
      BY <1>1, GoesTyped DEF MarkProcessing, Stage
    <2>4. work' \in [Worker -> [Video -> SUBSET Local]]
      BY <1>1, <1>w, LeavesTyped DEF MarkProcessing, TranscoderTypeOK
    <2>5. TranscoderTypeOK'
      BY <1>1, <2>3, <2>4, AtTyped DEF MarkProcessing, TranscoderTypeOK
    <2> QED BY <1>1, <2>1, <2>2, <2>5 DEF MarkProcessing, ServicesTypeOK, blobs
  <1>2. CASE FetchOriginal(w, s, v)
    <2>1. budget' \in [FaultKind -> Nat] /\ progress' \in [Video -> Percent]
      BY <1>2, SetProgressTyped, BreaksTyped DEF FetchOriginal, Percent, ServicesTypeOK
    <2>2. /\ job' \in [Worker -> [Slot -> Job]]
          /\ work' \in [Worker -> [Video -> SUBSET Local]]
      BY <1>2, <1>w, GoesTyped, LeavesTyped, AbortTyped DEF FetchOriginal, Stage
    <2>3. TranscoderTypeOK'
      BY <1>2, <2>2, AtTyped DEF FetchOriginal, TranscoderTypeOK
    <2> QED BY <1>2, <2>1, <2>3 DEF FetchOriginal, ServicesTypeOK, blobs
  <1>3. CASE ProbeOriginal(w, s, v)
    <2>1. budget' \in [FaultKind -> Nat] /\ progress' \in [Video -> Percent]
      BY <1>3, SetProgressTyped, BreaksTyped, PayTyped
         DEF ProbeOriginal, Percent, ServicesTypeOK, FaultKind
    <2>2. /\ job' \in [Worker -> [Slot -> Job]]
          /\ work' \in [Worker -> [Video -> SUBSET Local]]
      BY <1>3, GoesTyped, AbortTyped DEF ProbeOriginal, Stage, TranscoderTypeOK
    <2>3. TranscoderTypeOK'
      BY <1>3, <2>2, AtTyped DEF ProbeOriginal, TranscoderTypeOK
    <2>4. duration' \subseteq Video
      BY <1>3 DEF ProbeOriginal, ServicesTypeOK
    <2> QED BY <1>3, <2>1, <2>3, <2>4 DEF ProbeOriginal, ServicesTypeOK, blobs
  <1>4. CASE TranscodeMedia(w, s, v)
    <2>1. budget' \in [FaultKind -> Nat] /\ progress' \in [Video -> Percent]
      BY <1>4, SetProgressTyped, BreaksTyped DEF TranscodeMedia, Percent, ServicesTypeOK
    <2>2. /\ job' \in [Worker -> [Slot -> Job]]
          /\ work' \in [Worker -> [Video -> SUBSET Local]]
      BY <1>4, <1>w, GoesTyped, LeavesTyped, AbortTyped DEF TranscodeMedia, Stage, File
    <2>3. TranscoderTypeOK'
      BY <1>4, <2>2, AtTyped DEF TranscodeMedia, TranscoderTypeOK
    <2> QED BY <1>4, <2>1, <2>3 DEF TranscodeMedia, ServicesTypeOK, blobs
  <1>5. CASE ExtractTracks(w, s, v)
    <2>1. budget' \in [FaultKind -> Nat] /\ progress' \in [Video -> Percent]
      <3>1. CASE SetProgress(v, 85)
        BY <3>1, SetProgressTyped DEF Percent
      <3>2. CASE /\ Pay("slip")
                 /\ \E pct \in {72, 78} : progress' = [progress EXCEPT ![v] = pct]
        BY <3>2, PayTyped DEF FaultKind, Percent, ServicesTypeOK
      <3> QED BY <1>5, <3>1, <3>2 DEF ExtractTracks
    <2>2. /\ job' \in [Worker -> [Slot -> Job]]
          /\ work' \in [Worker -> [Video -> SUBSET Local]]
      BY <1>5, <1>w, GoesTyped, LeavesTyped DEF ExtractTracks, Stage
    <2>3. TranscoderTypeOK'
      BY <1>5, <2>2, AtTyped DEF ExtractTracks, TranscoderTypeOK
    <2> QED BY <1>5, <2>1, <2>3 DEF ExtractTracks, ServicesTypeOK, blobs
  <1>6. CASE Package(w, s, v)
    <2>1. budget' \in [FaultKind -> Nat]
      BY <1>6, BreaksTyped DEF Package, Free, ServicesTypeOK
    <2>2. /\ job' \in [Worker -> [Slot -> Job]]
          /\ work' \in [Worker -> [Video -> SUBSET Local]]
      <3>1. CASE /\ Leaves(w, v, work[w][v] \union {"master"})
                 /\ job' = [job EXCEPT ![w][s].stage = "upload",
                         ![w][s].todo = (work[w][v] \intersect File) \union {"master"}]
        <4>1. work' \in [Worker -> [Video -> SUBSET Local]]
          BY <3>1, <1>w, LeavesTyped DEF File
        <4>2. [job[w][s] EXCEPT !.stage = "upload",
                                !.todo = (work[w][v] \intersect File) \union {"master"}] \in Job
          BY SlotTyped, ListedTyped DEF Stage, File
        <4>3. job' = [job EXCEPT ![w][s] =
                [job[w][s] EXCEPT !.stage = "upload",
                                  !.todo = (work[w][v] \intersect File) \union {"master"}]]
          BY <3>1 DEF TranscoderTypeOK
        <4> QED BY <4>1, <4>2, <4>3, SlotTyped
      <3>2. CASE Abort(w, s)
        BY <3>2, AbortTyped
      <3> QED BY <1>6, <3>1, <3>2 DEF Package
    <2>3. TranscoderTypeOK'
      BY <1>6, <2>2, AtTyped DEF Package, TranscoderTypeOK
    <2> QED BY <1>6, <2>1, <2>3 DEF Package, ServicesTypeOK, rows, blobs
  <1>7. ASSUME NEW f \in File, UploadFile(w, s, v, f)
        PROVE  ServicesTypeOK' /\ TranscoderTypeOK'
    <2>1. budget' \in [FaultKind -> Nat]
      BY <1>7, BreaksTyped, EndsTyped DEF UploadFile, Outcome
    <2>2. PICK b \in BOOLEAN :
            job' = [job EXCEPT ![w][s] =
                      [job[w][s] EXCEPT !.todo = job[w][s].todo \ {f}, !.bad = b]]
      <3>1. ASSUME NEW failed \in BOOLEAN, Tried(w, s, f, failed)
            PROVE  job' = [job EXCEPT ![w][s] =
                     [job[w][s] EXCEPT !.todo = job[w][s].todo \ {f},
                                       !.bad = job[w][s].bad \/ failed]]
        BY <3>1 DEF Tried, TranscoderTypeOK
      <3>2. \A failed \in BOOLEAN : (job[w][s].bad \/ failed) \in BOOLEAN
        OBVIOUS
      <3>3. \E failed \in BOOLEAN : Tried(w, s, f, failed)
        BY <1>7 DEF UploadFile
      <3> QED BY <3>1, <3>2, <3>3
    <2>3. [job[w][s] EXCEPT !.todo = job[w][s].todo \ {f}, !.bad = b] \in Job
      BY SlotTyped, TriedTyped
    <2>4. TranscoderTypeOK'
      BY <1>7, <2>2, <2>3, AtTyped, SlotTyped DEF UploadFile, TranscoderTypeOK
    <2>5. hls' \in [Video -> SUBSET File]
      <3>1. hls[v] \union {f} \in SUBSET File
        BY DEF ServicesTypeOK
      <3>2. hls' = hls \/ hls' = [hls EXCEPT ![v] = hls[v] \union {f}]
        BY <1>7 DEF UploadFile
      <3> QED BY <3>1, <3>2 DEF ServicesTypeOK
    <2> QED BY <1>7, <2>1, <2>4, <2>5 DEF UploadFile, ServicesTypeOK, rows
  <1>8. CASE UploadDone(w, s, v)
    <2>1. budget' \in [FaultKind -> Nat] /\ progress' \in [Video -> Percent]
      BY <1>8, SetProgressTyped DEF UploadDone, Free, Percent, ServicesTypeOK
    <2>2. /\ job' \in [Worker -> [Slot -> Job]]
          /\ work' \in [Worker -> [Video -> SUBSET Local]]
      BY <1>8, GoesTyped, AbortTyped DEF UploadDone, Stage, TranscoderTypeOK
    <2>3. TranscoderTypeOK'
      BY <1>8, <2>2, AtTyped DEF UploadDone, TranscoderTypeOK
    <2> QED BY <1>8, <2>1, <2>3 DEF UploadDone, ServicesTypeOK, blobs
  <1>9. CASE UploadThumbs(w, s, v)
    <2>1. budget' \in [FaultKind -> Nat] /\ progress' \in [Video -> Percent]
      BY <1>9, SetProgressTyped DEF UploadThumbs, Percent
    <2>2. TranscoderTypeOK'
      BY <1>9, GoesTyped, AtTyped DEF UploadThumbs, Stage, TranscoderTypeOK
    <2> QED BY <1>9, <2>1, <2>2 DEF UploadThumbs, ServicesTypeOK
  <1>10. CASE Publish(w, s, v)
    <2>1. PICK o \in Outcome :
            /\ Ends(o)
            /\ IF Took(o) THEN SetStatus(v, "ready") ELSE UNCHANGED status
            /\ Returns(w, s, o # "ok")
      BY <1>10 DEF Publish
    <2>2. budget' \in [FaultKind -> Nat]
      BY <2>1, EndsTyped
    <2>3. status' \in [Video -> RowState]
      BY <2>1, SetStatusTyped DEF VideoStatus, ServicesTypeOK
    <2>4. job' \in [Worker -> [Slot -> Job]]
      BY <2>1, ReturnsTyped
    <2>5. TranscoderTypeOK'
      BY <1>10, <2>4, AtTyped DEF Publish, TranscoderTypeOK
    <2> QED BY <1>10, <2>2, <2>3, <2>5 DEF Publish, ServicesTypeOK, blobs
  <1>11. CASE MarkFailed(w, s, v)
    <2>1. budget' \in [FaultKind -> Nat]
      BY <1>11, PayTyped DEF MarkFailed, Free, ServicesTypeOK, FaultKind
    <2>2. status' \in [Video -> RowState]
      BY <1>11, SetStatusTyped DEF MarkFailed, VideoStatus, ServicesTypeOK
    <2>3. TranscoderTypeOK'
      BY <1>11, EmptySlotTyped, AtTyped DEF MarkFailed, TranscoderTypeOK
    <2> QED BY <1>11, <2>1, <2>2, <2>3 DEF MarkFailed, ServicesTypeOK, blobs
  <1>12. CASE RemoveWorkDir(w, s, v)
    <2>1. [job[w][s] EXCEPT !.stage = "failing"] \in Job
      BY SlotTyped, StageTyped DEF Stage
    <2>2. \/ job' = [job EXCEPT ![w][s] = Idle]
          \/ job' = [job EXCEPT ![w][s] = [job[w][s] EXCEPT !.stage = "failing"]]
      BY <1>12 DEF RemoveWorkDir, Cleaned, TranscoderTypeOK
    <2>3. job' \in [Worker -> [Slot -> Job]]
      BY <2>1, <2>2, SlotTyped, EmptySlotTyped
    <2>4. TranscoderTypeOK'
      BY <1>12, <2>3, RemovesTyped, AtTyped DEF RemoveWorkDir, TranscoderTypeOK
    <2> QED BY <1>12, <2>4, RemovesTyped DEF RemoveWorkDir, ServicesTypeOK, rows, blobs
  <1> QED
    BY <1>1, <1>2, <1>3, <1>4, <1>5, <1>6, <1>7, <1>8, <1>9, <1>10, <1>11, <1>12
       DEF ProcessStep

\* Every step of a transcoder keeps the types.
LEMMA TranscoderTyped ==
    ASSUME ServicesTypeOK, TranscoderTypeOK, TranscoderNext
    PROVE  ServicesTypeOK' /\ TranscoderTypeOK'
  <1>1. ASSUME NEW w \in Worker, NEW s \in Slot, Abandon(w, s)
        PROVE  ServicesTypeOK' /\ TranscoderTypeOK'
    <2>1. /\ budget' \in [FaultKind -> Nat]
          /\ work' \in [Worker -> [Video -> SUBSET Local]]
      <3>1. CASE Free /\ UNCHANGED work
        BY <3>1 DEF TranscoderTypeOK, ServicesTypeOK, Free
      <3>2. CASE Removes(w, job[w][s].video) /\ job[w][s].video \in Video
        BY <3>2, RemovesTyped
      <3>3. CASE Removes(w, job[w][s].video) /\ job[w][s].video \notin Video
        <4>1. UNCHANGED work
          BY <3>3 DEF Removes, Leaves, TranscoderTypeOK
        <4> QED
          BY <3>3, <4>1, PayTyped DEF Removes, TranscoderTypeOK, ServicesTypeOK, Free, FaultKind
      <3> QED BY <1>1, <3>1, <3>2, <3>3 DEF Abandon
    <2> QED
      BY <1>1, <2>1, EmptySlotTyped DEF Abandon, TranscoderTypeOK, ServicesTypeOK, rows, blobs
  <1> QED BY <1>1, LoopTyped, ProcessTyped DEF TranscoderNext, JobStep

-----------------------------------------------------------------------------
(***************************************************************************)
(* Every reachable state of the pipeline has the type that TypeOK states:  *)
(* all writes of the two programs, in any order and with any faults, keep  *)
(* the rows, the list, the files and the workers well formed.              *)
(***************************************************************************)
THEOREM TypeCorrect == Spec => []TypeOK
  <1>1. Init => TypeOK
    <2> SUFFICES ASSUME Init PROVE TypeOK
      OBVIOUS
    <2>1. ServicesTypeOK
      <3>1. << >> \in Seq(Video)
        BY EmptySeq
      <3> QED BY <3>1, BudgetAssumption
              DEF Init, ServicesInit, ServicesTypeOK, RowState, Percent
    <2>2. ApiTypeOK
      BY DEF Init, ApiInit, ApiTypeOK, UploadState
    <2>3. TranscoderTypeOK
      BY IdleTyped DEF Init, TranscoderInit, TranscoderTypeOK
    <2> QED BY <2>1, <2>2, <2>3 DEF TypeOK
  <1>2. TypeOK /\ [Next]_vars => TypeOK'
    <2> SUFFICES ASSUME TypeOK, [Next]_vars PROVE TypeOK'
      OBVIOUS
    <2> USE DEF TypeOK
    <2>1. CASE ApiNext /\ UNCHANGED transcoderVars
      BY <2>1, ApiTyped DEF TranscoderTypeOK, transcoderVars
    <2>2. CASE TranscoderNext /\ UNCHANGED apiVars
      BY <2>2, TranscoderTyped DEF ApiTypeOK, apiVars
    <2>3. CASE UNCHANGED vars
      BY <2>3 DEF vars, services, apiVars, transcoderVars,
                  ServicesTypeOK, ApiTypeOK, TranscoderTypeOK
    <2> QED BY <2>1, <2>2, <2>3 DEF Next
  <1> QED BY <1>1, <1>2, PTL DEF Spec

-----------------------------------------------------------------------------
(* Faults. *)

\* A step of the API draws at most one fault.
LEMMA ApiPays ==
    ASSUME ApiNext
    PROVE  Free \/ \E k \in FaultKind : Pay(k)
  <1> USE DEF FaultKind, Outcome, Ends
  <1>1. ASSUME NEW v \in Video, StoreOriginal(v) \/ CreateRow(v) \/ Enqueue(v) \/ DeleteRow(v)
        PROVE  Free \/ \E k \in FaultKind : Pay(k)
    BY <1>1 DEF StoreOriginal, CreateRow, Enqueue, DeleteRow
  <1>2. ASSUME NEW v \in Video,
               UndoStore(v) \/ MarkEnqueueFailed(v) \/ UploadGone(v) \/ DeleteDir(v) \/ DeleteGone(v)
        PROVE  Free \/ \E k \in FaultKind : Pay(k)
    BY <1>2 DEF UndoStore, MarkEnqueueFailed, UploadGone, DeleteDir, DeleteGone
  <1>3. ASSUME ApiCrash
        PROVE  Free \/ \E k \in FaultKind : Pay(k)
    BY <1>3 DEF ApiCrash
  <1> QED BY <1>1, <1>2, <1>3 DEF ApiNext, UploadStep

\* So does a step of a transcoder.
LEMMA TranscoderPays ==
    ASSUME TranscoderNext
    PROVE  Free \/ \E k \in FaultKind : Pay(k)
  <1> USE DEF FaultKind, Outcome, Ends, Breaks, SetProgress
  <1>1. ASSUME NEW w \in Worker, LoopStep(w) \/ Stop(w) \/ Crash(w) \/ Restart(w)
        PROVE  Free \/ \E k \in FaultKind : Pay(k)
    BY <1>1 DEF LoopStep, Pop, PollAgain, Exit, StartJob, Stop, Crash, Restart, services, Free
  <1>2. ASSUME NEW w \in Worker, NEW s \in Slot, Abandon(w, s)
        PROVE  Free \/ \E k \in FaultKind : Pay(k)
    BY <1>2 DEF Abandon, Removes
  <1>3. ASSUME NEW w \in Worker, NEW s \in Slot, NEW v \in Video, ProcessStep(w, s, v)
        PROVE  Free \/ \E k \in FaultKind : Pay(k)
    <2>1. CASE MarkProcessing(w, s, v)
      BY <2>1 DEF MarkProcessing
    <2>2. CASE FetchOriginal(w, s, v) \/ ProbeOriginal(w, s, v) \/ TranscodeMedia(w, s, v)
      BY <2>2 DEF FetchOriginal, ProbeOriginal, TranscodeMedia
    <2>3. CASE ExtractTracks(w, s, v) \/ Package(w, s, v) \/ UploadDone(w, s, v)
      BY <2>3 DEF ExtractTracks, Package, UploadDone
    <2>4. ASSUME NEW f \in File, UploadFile(w, s, v, f)
          PROVE  Free \/ \E k \in FaultKind : Pay(k)
      BY <2>4 DEF UploadFile
    <2>5. CASE \/ UploadThumbs(w, s, v) \/ Publish(w, s, v)
               \/ RemoveWorkDir(w, s, v) \/ MarkFailed(w, s, v)
      BY <2>5 DEF UploadThumbs, Publish, RemoveWorkDir, Removes, MarkFailed
    <2> QED BY <1>3, <2>1, <2>2, <2>3, <2>4, <2>5 DEF ProcessStep
  <1> QED BY <1>1, <1>2, <1>3 DEF TranscoderNext, JobStep

\* Faults are only spent, and a fault that has happened stays so.
LEMMA BudgetShrinks ==
    ASSUME ServicesTypeOK, BudgetInv, Free \/ \E k \in FaultKind : Pay(k)
    PROVE  /\ BudgetInv'
           /\ \A k \in FaultKind : None(k)' => None(k)
  <1>1. ASSUME NEW k \in FaultKind
        PROVE  /\ budget[k] \in Nat /\ Budget[k] \in Nat
               /\ budget'[k] \in Nat
               /\ budget'[k] <= budget[k]
    <2>1. CASE Free
      BY <2>1, BudgetAssumption DEF ServicesTypeOK, Free
    <2>2. ASSUME NEW i \in FaultKind, Pay(i)
          PROVE  budget[k] \in Nat /\ budget'[k] \in Nat /\ budget'[k] <= budget[k]
      BY <2>2 DEF ServicesTypeOK, Pay
    <2> QED BY <2>1, <2>2, BudgetAssumption
  <1> QED BY <1>1 DEF BudgetInv, None

-----------------------------------------------------------------------------
(* Where a task is. *)

\* A step that hands no task on: it leaves the list alone, and a loop or a
\* slot keeps its task or drops it.
Quiet ==
    /\ queue' = queue
    /\ \A w \in Worker : held'[w] \in {held[w], NoVideo}
    /\ \A w \in Worker, s \in Slot : job'[w][s].video \in {job[w][s].video, NoVideo}

OneTask ==
    /\ \A i, j \in 1..Len(queue) : queue[i] = queue[j] => i = j
    /\ \A w \in Worker, v \in Video : HeldBy(w, v) => ~Queued(v)
    /\ \A w, x \in Worker, v \in Video : HeldBy(w, v) /\ HeldBy(x, v) => w = x
    /\ \A w \in Worker, s \in Slot, v \in Video :
        RunBy(w, s, v) =>
            /\ ~Queued(v)
            /\ \A x \in Worker : ~HeldBy(x, v)
            /\ \A x \in Worker, t \in Slot : RunBy(x, t, v) => x = w /\ t = s

\* A quiet step makes no task.
LEMMA QuietTasks ==
    ASSUME Quiet
    PROVE  /\ \A v \in Video : Queued(v)' <=> Queued(v)
           /\ \A v \in Video, w \in Worker : HeldBy(w, v)' => HeldBy(w, v)
           /\ \A v \in Video, w \in Worker, s \in Slot : RunBy(w, s, v)' => RunBy(w, s, v)
           /\ \A v \in Video : HasTask(v)' => HasTask(v)
  <1>1. \A v \in Video : Queued(v)' <=> Queued(v)
    BY DEF Quiet, Queued
  <1>2. \A v \in Video, w \in Worker : HeldBy(w, v)' => HeldBy(w, v)
    BY NoVideoAssumption DEF Quiet, HeldBy
  <1>3. \A v \in Video, w \in Worker, s \in Slot : RunBy(w, s, v)' => RunBy(w, s, v)
    BY NoVideoAssumption DEF Quiet, RunBy
  <1> QED BY <1>1, <1>2, <1>3 DEF HasTask

\* A quiet step keeps the tasks unique.
LEMMA QuietOneTask ==
    ASSUME OneTask, Quiet
    PROVE  OneTask'
  <1>1. \A i, j \in 1..Len(queue') : queue'[i] = queue'[j] => i = j
    BY DEF OneTask, Quiet
  <1> QED BY <1>1, QuietTasks DEF OneTask

\* LPUSH of the task of a video that has none.
LEMMA PushOneTask ==
    ASSUME TypeOK, OneTask, NEW v \in Video, ~HasTask(v),
           queue' = Append(queue, v), UNCHANGED <<held, job>>
    PROVE  OneTask'
  <1> DEFINE n == Len(queue)
  <1>1. /\ n \in Nat
        /\ Len(queue') = n + 1
        /\ \A i \in 1..n : queue'[i] = queue[i]
        /\ queue'[n + 1] = v
    BY AppendProperties, LenProperties DEF TypeOK, ServicesTypeOK
  <1>2. \A i \in 1..n : queue[i] # v
    BY DEF HasTask, Queued
  <1>3. \A i, j \in 1..Len(queue') : queue'[i] = queue'[j] => i = j
    <2> SUFFICES ASSUME NEW i \in 1..Len(queue'), NEW j \in 1..Len(queue'),
                        queue'[i] = queue'[j]
                 PROVE  i = j
      OBVIOUS
    <2>1. (i \in 1..n \/ i = n + 1) /\ (j \in 1..n \/ j = n + 1)
      BY <1>1
    <2> QED BY <1>1, <1>2, <2>1 DEF OneTask
  <1>4. \A u \in Video : Queued(u)' => Queued(u) \/ u = v
    <2> SUFFICES ASSUME NEW u \in Video, NEW i \in 1..Len(queue'), queue'[i] = u
                 PROVE  Queued(u) \/ u = v
      BY DEF Queued
    <2>1. i \in 1..n \/ i = n + 1
      BY <1>1
    <2> QED BY <1>1, <2>1 DEF Queued
  <1>5. \A w \in Worker : ~HeldBy(w, v) /\ \A s \in Slot : ~RunBy(w, s, v)
    BY DEF HasTask
  <1>6. /\ \A w \in Worker, u \in Video : HeldBy(w, u)' <=> HeldBy(w, u)
        /\ \A w \in Worker, s \in Slot, u \in Video : RunBy(w, s, u)' <=> RunBy(w, s, u)
    BY DEF HeldBy, RunBy
  <1> QED BY <1>3, <1>4, <1>5, <1>6 DEF OneTask

\* BRPOP: the next task goes into the hands of the loop, or is lost.
LEMMA PopOneTask ==
    ASSUME TypeOK, NEW w \in Worker, Pop(w)
    PROVE  /\ OneTask => OneTask'
           /\ \A v \in Video : HasTask(v)' => HasTask(v)
  <1> DEFINE n == Len(queue)
  <1>1. /\ n \in Nat \ {0}
        /\ Head(queue) = queue[1]
        /\ Len(queue') = n - 1
        /\ \A i \in 1..Len(queue') : queue'[i] = queue[i + 1]
    BY HeadTailProperties, EmptySeq, LenProperties DEF TypeOK, ServicesTypeOK, Pop
  <1>2. \A u \in Video : Queued(u)' => \E i \in 2..n : queue[i] = u
    <2> SUFFICES ASSUME NEW u \in Video, NEW i \in 1..Len(queue'), queue'[i] = u
                 PROVE  \E k \in 2..n : queue[k] = u
      BY DEF Queued
    <2>1. i + 1 \in 2..n /\ queue[i + 1] = u
      BY <1>1
    <2> QED BY <2>1
  <1>3. \A u \in Video : Queued(u)' => Queued(u)
    BY <1>1, <1>2 DEF Queued
  <1>4. \A x \in Worker, u \in Video :
            HeldBy(x, u)' => HeldBy(x, u) \/ (x = w /\ u = queue[1])
    BY <1>1, NoVideoAssumption DEF Pop, HeldBy, TypeOK, TranscoderTypeOK
  <1>5. \A x \in Worker, s \in Slot, u \in Video : RunBy(x, s, u)' <=> RunBy(x, s, u)
    BY DEF Pop, RunBy
  <1>6. \A u \in Video : u = queue[1] => Queued(u)
    BY <1>1 DEF Queued
  <1>7. \A v \in Video : HasTask(v)' => HasTask(v)
    BY <1>3, <1>4, <1>5, <1>6 DEF HasTask
  <1>8. ASSUME OneTask
        PROVE  OneTask'
    <2>1. \A i, j \in 1..Len(queue') : queue'[i] = queue'[j] => i = j
      <3> SUFFICES ASSUME NEW i \in 1..Len(queue'), NEW j \in 1..Len(queue'),
                          queue'[i] = queue'[j]
                   PROVE  i = j
        OBVIOUS
      <3>1. i + 1 \in 1..n /\ j + 1 \in 1..n /\ queue[i + 1] = queue[j + 1]
        BY <1>1
      <3>2. i + 1 = j + 1
        BY <1>8, <3>1 DEF OneTask
      <3> QED BY <3>2
    <2>2. \A u \in Video : u = queue[1] => ~Queued(u)'
      <3> SUFFICES ASSUME NEW u \in Video, u = queue[1], Queued(u)'
                   PROVE  FALSE
        OBVIOUS
      <3>1. PICK i \in 2..n : queue[i] = u
        BY <1>2
      <3>2. 1 \in 1..n /\ i \in 1..n
        BY <1>1
      <3>3. i = 1
        BY <1>8, <3>1, <3>2 DEF OneTask
      <3> QED BY <3>3
    <2>3. \A x \in Worker, u \in Video : HeldBy(x, u)' => ~Queued(u)'
      BY <1>8, <1>3, <1>4, <2>2 DEF OneTask
    <2>4. \A x, y \in Worker, u \in Video : HeldBy(x, u)' /\ HeldBy(y, u)' => x = y
      BY <1>8, <1>4, <1>6 DEF OneTask
    <2>5. \A x \in Worker, s \in Slot, u \in Video : RunBy(x, s, u)' =>
            /\ ~Queued(u)'
            /\ \A y \in Worker : ~HeldBy(y, u)'
            /\ \A y \in Worker, t \in Slot : RunBy(y, t, u)' => y = x /\ t = s
      BY <1>8, <1>3, <1>4, <1>5, <1>6 DEF OneTask
    <2> QED BY <2>1, <2>3, <2>4, <2>5 DEF OneTask
  <1> QED BY <1>7, <1>8

\* The loop hands its task to a slot.
LEMMA StartOneTask ==
    ASSUME TypeOK, NEW w \in Worker, NEW s \in Slot, StartJob(w, s)
    PROVE  /\ OneTask => OneTask'
           /\ \A v \in Video : HasTask(v)' => HasTask(v)
  <1>1. queue' = queue
    BY DEF StartJob, services
  <1>2. \A u \in Video : Queued(u)' <=> Queued(u)
    BY <1>1 DEF Queued
  <1>3. \A x \in Worker, u \in Video : HeldBy(x, u)' => HeldBy(x, u) /\ x # w
    BY NoVideoAssumption DEF StartJob, HeldBy, TypeOK, TranscoderTypeOK
  <1>4. \A x \in Worker, t \in Slot, u \in Video :
            RunBy(x, t, u)' => RunBy(x, t, u) \/ (x = w /\ t = s /\ HeldBy(w, u))
    <2>1. [Idle EXCEPT !.video = held[w], !.stage = "start"].video = held[w]
      BY DEF Idle
    <2>2. \A x \in Worker, t \in Slot :
             job'[x][t] = IF x = w /\ t = s
                          THEN [Idle EXCEPT !.video = held[w], !.stage = "start"]
                          ELSE job[x][t]
      BY DEF StartJob, TypeOK, TranscoderTypeOK
    <2> QED BY <2>1, <2>2 DEF RunBy, HeldBy
  <1>5. \A v \in Video : HasTask(v)' => HasTask(v)
    BY <1>2, <1>3, <1>4 DEF HasTask
  <1>6. ASSUME OneTask
        PROVE  OneTask'
    <2>1. \A i, j \in 1..Len(queue') : queue'[i] = queue'[j] => i = j
      BY <1>1, <1>6 DEF OneTask
    <2>2. /\ \A x \in Worker, u \in Video : HeldBy(x, u)' => ~Queued(u)'
          /\ \A x, y \in Worker, u \in Video : HeldBy(x, u)' /\ HeldBy(y, u)' => x = y
      BY <1>2, <1>3, <1>6 DEF OneTask
    <2>3. \A x \in Worker, t \in Slot, u \in Video : RunBy(x, t, u)' =>
            /\ ~Queued(u)'
            /\ \A y \in Worker : ~HeldBy(y, u)'
            /\ \A y \in Worker, r \in Slot : RunBy(y, r, u)' => y = x /\ r = t
      BY <1>2, <1>3, <1>4, <1>6 DEF OneTask
    <2> QED BY <2>1, <2>2, <2>3 DEF OneTask
  <1> QED BY <1>5, <1>6

-----------------------------------------------------------------------------
(* What a step does to the slots and the work directories. *)

OtherSlots(w, s) ==
    \A x \in Worker, t \in Slot : x # w \/ t # s => job'[x][t] = job[x][t]

OtherDirs(w, v) ==
    \A x \in Worker, u \in Video : x # w \/ u # v => work'[x][u] = work[x][u]

\* A job that goes to another stage keeps all else.
LEMMA GoesSlot ==
    ASSUME TranscoderTypeOK, NEW w \in Worker, NEW s \in Slot, NEW stage, Goes(w, s, stage)
    PROVE  /\ OtherSlots(w, s)
           /\ job'[w][s].video = job[w][s].video
           /\ job'[w][s].stage = stage
           /\ job'[w][s].todo = job[w][s].todo
           /\ job'[w][s].bad = job[w][s].bad
  <1>1. job[w][s] \in Job
    BY DEF TranscoderTypeOK
  <1>2. OtherSlots(w, s) /\ job'[w][s] = [job[w][s] EXCEPT !.stage = stage]
    BY DEF Goes, OtherSlots, TranscoderTypeOK
  <1> QED BY <1>1, <1>2 DEF Job

\* An upload that is over is off the list of its job.
LEMMA TriedSlot ==
    ASSUME TranscoderTypeOK, NEW w \in Worker, NEW s \in Slot, NEW f, NEW failed,
           Tried(w, s, f, failed)
    PROVE  /\ OtherSlots(w, s)
           /\ job'[w][s].video = job[w][s].video
           /\ job'[w][s].stage = job[w][s].stage
           /\ job'[w][s].todo = job[w][s].todo \ {f}
           /\ job'[w][s].bad = (job[w][s].bad \/ failed)
  <1>1. job[w][s] \in Job
    BY DEF TranscoderTypeOK
  <1>2. /\ OtherSlots(w, s)
        /\ job'[w][s] = [job[w][s] EXCEPT !.todo = job[w][s].todo \ {f},
                                          !.bad = job[w][s].bad \/ failed]
    BY DEF Tried, OtherSlots, TranscoderTypeOK
  <1> QED BY <1>1, <1>2 DEF Job

\* A job whose slot is freed.
LEMMA IdleSlot ==
    ASSUME TranscoderTypeOK, NEW w \in Worker, NEW s \in Slot,
           job' = [job EXCEPT ![w][s] = Idle]
    PROVE  OtherSlots(w, s) /\ job'[w][s].video = NoVideo
  BY DEF Idle, OtherSlots, TranscoderTypeOK

\* A job touches the work directory of its video and no other.
LEMMA LeavesDirs ==
    ASSUME TranscoderTypeOK, NEW w \in Worker, NEW v \in Video, NEW files,
           Leaves(w, v, files)
    PROVE  work'[w][v] = files /\ OtherDirs(w, v)
  BY DEF Leaves, OtherDirs, TranscoderTypeOK

\* RemoveAll takes from the work directory of its video and from no other.
LEMMA RemovesDirs ==
    ASSUME TranscoderTypeOK, NEW w \in Worker, NEW v \in Video, Removes(w, v)
    PROVE  work'[w][v] \subseteq work[w][v] /\ OtherDirs(w, v)
  <1>1. \E rest \in SUBSET work[w][v] : Leaves(w, v, rest)
    BY DEF Removes
  <1> QED BY <1>1, LeavesDirs

\* A job whose process has returned keeps the result and goes to its cleanup.
LEMMA ReturnsSlot ==
    ASSUME TranscoderTypeOK, NEW w \in Worker, NEW s \in Slot, NEW failed, Returns(w, s, failed)
    PROVE  /\ OtherSlots(w, s)
           /\ job'[w][s].video = job[w][s].video
           /\ job'[w][s].stage = "cleanup"
           /\ job'[w][s].bad = failed
  <1>1. job[w][s] \in Job
    BY DEF TranscoderTypeOK
  <1>2. /\ OtherSlots(w, s)
        /\ job'[w][s] = [job[w][s] EXCEPT !.stage = "cleanup", !.bad = failed]
    BY DEF Returns, OtherSlots, TranscoderTypeOK
  <1> QED BY <1>1, <1>2 DEF Job

\* After its cleanup a job is over, or is to be marked failed.
LEMMA CleanedSlot ==
    ASSUME TranscoderTypeOK, NEW w \in Worker, NEW s \in Slot, Cleaned(w, s)
    PROVE  /\ OtherSlots(w, s)
           /\ \/ ~job[w][s].bad /\ job'[w][s].video = NoVideo
              \/ /\ job[w][s].bad /\ job'[w][s].bad
                 /\ job'[w][s].video = job[w][s].video
                 /\ job'[w][s].stage = "failing"
  <1>1. \/ ~job[w][s].bad /\ job' = [job EXCEPT ![w][s] = Idle]
        \/ job[w][s].bad /\ Goes(w, s, "failing")
    BY DEF Cleaned, Goes, TranscoderTypeOK
  <1> QED BY <1>1, GoesSlot, IdleSlot

\* A job that fails is otherwise where it was, and so is its directory.
LEMMA AbortSlot ==
    ASSUME TranscoderTypeOK, NEW w \in Worker, NEW s \in Slot, Abort(w, s)
    PROVE  /\ OtherSlots(w, s)
           /\ work' = work
           /\ job'[w][s].video = job[w][s].video
           /\ job'[w][s].stage = "cleanup"
           /\ job'[w][s].bad
  BY ReturnsSlot DEF Abort

\* Package lists what is to be uploaded.
LEMMA PackageSlot ==
    ASSUME TranscoderTypeOK, NEW w \in Worker, NEW s \in Slot, NEW files,
           job' = [job EXCEPT ![w][s].stage = "upload", ![w][s].todo = files]
    PROVE  /\ OtherSlots(w, s)
           /\ job'[w][s].video = job[w][s].video
           /\ job'[w][s].stage = "upload"
           /\ job'[w][s].todo = files
  <1>1. job[w][s] \in Job
    BY DEF TranscoderTypeOK
  <1>2. /\ OtherSlots(w, s)
        /\ job'[w][s] = [job[w][s] EXCEPT !.stage = "upload", !.todo = files]
    BY DEF OtherSlots, TranscoderTypeOK
  <1> QED BY <1>1, <1>2 DEF Job

\* Publish is the last call of process.
LEMMA PublishSlot ==
    ASSUME TranscoderTypeOK, NEW w \in Worker, NEW s \in Slot, NEW v \in Video, Publish(w, s, v)
    PROVE  /\ OtherSlots(w, s)
           /\ work' = work
           /\ job'[w][s].video = job[w][s].video
           /\ job'[w][s].stage = "cleanup"
  BY ReturnsSlot DEF Publish

\* What a step of the job of video v in slot s of worker w leaves alone.
SlotStep(w, s, v) ==
    /\ queue' = queue
    /\ held' = held
    /\ OtherSlots(w, s)
    /\ OtherDirs(w, v)
    /\ job'[w][s].video \in {job[w][s].video, NoVideo}

\* A step of a job concerns its slot and its work directory.
LEMMA ProcessSlot ==
    ASSUME TranscoderTypeOK, NEW w \in Worker, NEW s \in Slot, NEW v \in Video,
           ProcessStep(w, s, v)
    PROVE  SlotStep(w, s, v) /\ job[w][s].video = v
  <1> USE DEF SlotStep, At
  <1>1. CASE MarkProcessing(w, s, v)
    BY <1>1, GoesSlot, LeavesDirs DEF MarkProcessing, OtherDirs
  <1>2. CASE FetchOriginal(w, s, v)
    BY <1>2, GoesSlot, LeavesDirs, AbortSlot DEF FetchOriginal, OtherDirs
  <1>3. CASE ProbeOriginal(w, s, v)
    BY <1>3, GoesSlot, AbortSlot DEF ProbeOriginal, OtherDirs
  <1>4. CASE TranscodeMedia(w, s, v)
    BY <1>4, GoesSlot, LeavesDirs, AbortSlot DEF TranscodeMedia, OtherDirs
  <1>5. CASE ExtractTracks(w, s, v)
    BY <1>5, GoesSlot, LeavesDirs DEF ExtractTracks
  <1>6. CASE Package(w, s, v)
    <2>1. CASE /\ Leaves(w, v, work[w][v] \union {"master"})
               /\ job' = [job EXCEPT ![w][s].stage = "upload",
                       ![w][s].todo = (work[w][v] \intersect File) \union {"master"}]
      <3>1. OtherSlots(w, s) /\ job'[w][s].video = job[w][s].video
        BY <2>1, PackageSlot
      <3> QED BY <1>6, <2>1, <3>1, LeavesDirs DEF Package
    <2>2. CASE Abort(w, s)
      BY <1>6, <2>2, AbortSlot DEF Package, OtherDirs
    <2> QED BY <1>6, <2>1, <2>2 DEF Package
  <1>7. ASSUME NEW f \in File, UploadFile(w, s, v, f)
        PROVE  SlotStep(w, s, v) /\ job[w][s].video = v
    BY <1>7, TriedSlot DEF UploadFile, OtherDirs
  <1>8. CASE UploadDone(w, s, v)
    BY <1>8, GoesSlot, AbortSlot DEF UploadDone, OtherDirs
  <1>9. CASE UploadThumbs(w, s, v)
    BY <1>9, GoesSlot DEF UploadThumbs, OtherDirs
  <1>10. CASE Publish(w, s, v)
    BY <1>10, PublishSlot DEF Publish, OtherDirs
  <1>11. CASE MarkFailed(w, s, v)
    BY <1>11, IdleSlot DEF MarkFailed, OtherDirs
  <1>12. CASE RemoveWorkDir(w, s, v)
    BY <1>12, CleanedSlot, RemovesDirs DEF RemoveWorkDir
  <1> QED
    BY <1>1, <1>2, <1>3, <1>4, <1>5, <1>6, <1>7, <1>8, <1>9, <1>10, <1>11, <1>12
       DEF ProcessStep

-----------------------------------------------------------------------------
(* What a step does to the rows and the files. *)

\* A video whose row is there keeps what makes it playable, and no row comes
\* into being while there is a task.
KeepsRows ==
    \A u \in Video :
        /\ HasRow(u)' => hls[u] \subseteq hls'[u]
        /\ u \in duration => u \in duration'
        /\ HasTask(u) /\ HasRow(u)' => HasRow(u)

\* An UPDATE makes no row.
LEMMA SetStatusRows ==
    ASSUME ServicesTypeOK, NEW v \in Video, NEW st \in VideoStatus, SetStatus(v, st)
    PROVE  \A u \in Video :
             /\ HasRow(u)' <=> HasRow(u)
             /\ ~HasRow(u) => status'[u] = status[u]
             /\ status'[u] \in {status[u], st}
             /\ u # v => status'[u] = status[u]
  BY DEF SetStatus, HasRow, ServicesTypeOK

\* A step of a job makes and removes no row, and takes nothing from a row or
\* from the files.  Only Publish makes a video ready.
LEMMA ProcessRows ==
    ASSUME ServicesTypeOK, NEW w \in Worker, NEW s \in Slot, NEW v \in Video,
           ProcessStep(w, s, v)
    PROVE  \A u \in Video :
             /\ HasRow(u)' <=> HasRow(u)
             /\ ~HasRow(u) => status'[u] = status[u]
             /\ hls[u] \subseteq hls'[u]
             /\ u \in duration => u \in duration'
             /\ status'[u] = "ready" => status[u] = "ready" \/ (u = v /\ Publish(w, s, v))
  <1> USE DEF blobs, rows
  <1>1. CASE MarkProcessing(w, s, v)
    <2>1. status' = status \/ SetStatus(v, "processing")
      BY <1>1 DEF MarkProcessing
    <2>2. "processing" \in VideoStatus
      BY DEF VideoStatus
    <2> QED BY <1>1, <2>1, <2>2, SetStatusRows DEF MarkProcessing, HasRow
  <1>2. CASE FetchOriginal(w, s, v) \/ TranscodeMedia(w, s, v) \/ ExtractTracks(w, s, v)
    BY <1>2 DEF FetchOriginal, TranscodeMedia, ExtractTracks, HasRow
  <1>3. CASE ProbeOriginal(w, s, v)
    BY <1>3 DEF ProbeOriginal, HasRow
  <1>4. CASE \/ Package(w, s, v) \/ UploadDone(w, s, v) \/ UploadThumbs(w, s, v)
             \/ RemoveWorkDir(w, s, v)
    BY <1>4 DEF Package, UploadDone, UploadThumbs, RemoveWorkDir, HasRow
  <1>5. ASSUME NEW f \in File, UploadFile(w, s, v, f)
        PROVE  \A u \in Video :
             /\ HasRow(u)' <=> HasRow(u)
             /\ status'[u] = status[u]
             /\ hls[u] \subseteq hls'[u]
             /\ u \in duration => u \in duration'
    <2>1. hls' = hls \/ hls' = [hls EXCEPT ![v] = hls[v] \union {f}]
      BY <1>5 DEF UploadFile
    <2> QED BY <1>5, <2>1 DEF UploadFile, HasRow, ServicesTypeOK
  <1>6. CASE Publish(w, s, v)
    <2>1. status' = status \/ SetStatus(v, "ready")
      BY <1>6 DEF Publish
    <2>2. "ready" \in VideoStatus
      BY DEF VideoStatus
    <2> QED BY <1>6, <2>1, <2>2, SetStatusRows DEF Publish, HasRow
  <1>7. CASE MarkFailed(w, s, v)
    <2>1. status' = status \/ SetStatus(v, "failed")
      BY <1>7 DEF MarkFailed
    <2>2. "failed" \in VideoStatus
      BY DEF VideoStatus
    <2> QED BY <1>7, <2>1, <2>2, SetStatusRows DEF MarkFailed, HasRow
  <1> QED BY <1>1, <1>2, <1>3, <1>4, <1>5, <1>6, <1>7 DEF ProcessStep

\* A handler adds a row only for a video without a task, and takes files only
\* from a video without a row; it makes no video ready.
LEMMA ApiRows ==
    ASSUME TypeOK, RequestInv, ApiNext
    PROVE  /\ KeepsRows
           /\ \A u \in Video : status'[u] = "ready" => status[u] = "ready"
  <1> DEFINE Good == /\ KeepsRows
                     /\ \A u \in Video : status'[u] = "ready" => status[u] = "ready"
  <1> USE DEF TypeOK, blobs, rows
  <1>1. ASSUME NEW v \in Video, StoreOriginal(v) \/ UndoStore(v) \/ Enqueue(v) \/ UploadGone(v)
        PROVE  Good
    BY <1>1 DEF StoreOriginal, UndoStore, Enqueue, UploadGone, KeepsRows, HasRow
  <1>2. ASSUME NEW v \in Video, CreateRow(v)
        PROVE  Good
    <2>1. ~HasTask(v)
      BY <1>2 DEF CreateRow, UploadGoes, RequestInv
    <2>2. status' = status \/ status' = [status EXCEPT ![v] = "pending"]
      BY <1>2 DEF CreateRow
    <2> QED BY <1>2, <2>1, <2>2 DEF CreateRow, KeepsRows, HasRow, ServicesTypeOK
  <1>3. ASSUME NEW v \in Video, MarkEnqueueFailed(v)
        PROVE  Good
    <2>1. status' = status \/ SetStatus(v, "failed")
      BY <1>3 DEF MarkEnqueueFailed
    <2>2. "failed" \in VideoStatus
      BY DEF VideoStatus
    <2> QED BY <1>3, <2>1, <2>2, SetStatusRows DEF MarkEnqueueFailed, KeepsRows, HasRow
  <1>4. ASSUME NEW v \in Video, DeleteRow(v)
        PROVE  Good
    BY <1>4 DEF DeleteRow, KeepsRows, HasRow, ServicesTypeOK, VideoStatus
  <1>5. ASSUME NEW v \in Video, DeleteDir(v)
        PROVE  Good
    <2>1. ~HasRow(v)
      BY <1>5 DEF DeleteDir, RequestInv, HasRow, VideoStatus, Directory
    <2>2. hls' = hls \/ hls' = [hls EXCEPT ![v] = {}]
      BY <1>5 DEF DeleteDir
    <2> QED BY <1>5, <2>1, <2>2 DEF DeleteDir, KeepsRows, HasRow, ServicesTypeOK
  <1>6. ASSUME NEW v \in Video, DeleteGone(v)
        PROVE  Good
    BY <1>6 DEF DeleteGone, KeepsRows, HasRow
  <1>7. CASE ApiCrash
    BY <1>7 DEF ApiCrash, KeepsRows, HasRow
  <1> QED BY <1>1, <1>2, <1>3, <1>4, <1>5, <1>6, <1>7 DEF ApiNext, UploadStep

-----------------------------------------------------------------------------
(* What a job can count on. *)

\* A job that stays at its stage, while its directory and what it has stored
\* do not shrink, can count on what it could count on before.
LEMMA StageKept ==
    ASSUME KeepsRows, NEW w \in Worker, NEW s \in Slot, NEW v \in Video,
           RunBy(w, s, v), StageOK(w, s, v),
           job'[w][s] = job[w][s], work'[w][v] = work[w][v]
    PROVE  StageOK(w, s, v)'
  <1>1. HasTask(v)
    BY DEF HasTask
  <1>2. HasRow(v)' => HasRow(v) /\ hls[v] \subseteq hls'[v] /\ (v \in duration => v \in duration')
    BY <1>1 DEF KeepsRows
  <1> QED BY <1>2 DEF StageOK

\* A job comes to each stage with what the stage needs.
LEMMA StageReached ==
    ASSUME ServicesTypeOK, TranscoderTypeOK, NEW w \in Worker, NEW s \in Slot, NEW v \in Video,
           ProcessStep(w, s, v), StageOK(w, s, v), RunBy(w, s, v)'
    PROVE  StageOK(w, s, v)'
  <1> DEFINE stage == job[w][s].stage
  <1>r. /\ HasRow(v)' => HasRow(v)
        /\ hls[v] \subseteq hls'[v]
        /\ v \in duration => v \in duration'
    BY ProcessRows
  <1>f. job'[w][s].stage \in {"cleanup", "failing"} => StageOK(w, s, v)'
    BY DEF StageOK
  <1>n. job'[w][s].video # NoVideo
    BY NoVideoAssumption DEF RunBy
  <1>1. CASE MarkProcessing(w, s, v)
    <2>1. job'[w][s].stage \in {"fetch", "failing"}
      BY <1>1, GoesSlot DEF MarkProcessing
    <2> QED BY <2>1 DEF StageOK
  <1>2. CASE FetchOriginal(w, s, v)
    <2>1. job'[w][s].stage \in {"probe", "cleanup"}
      BY <1>2, GoesSlot, AbortSlot DEF FetchOriginal
    <2> QED BY <2>1 DEF StageOK
  <1>3. CASE ProbeOriginal(w, s, v)
    <2>1. CASE Abort(w, s)
      BY <2>1, <1>f, AbortSlot
    <2>2. CASE ~Abort(w, s)
      <3>1. job'[w][s].stage = "transcode"
        BY <1>3, <2>2, GoesSlot DEF ProbeOriginal
      <3>2. HasRow(v) => v \in duration'
        BY <1>3, <2>2 DEF ProbeOriginal
      <3> QED BY <3>1, <3>2, <1>r DEF StageOK
    <2> QED BY <2>1, <2>2
  <1>4. CASE TranscodeMedia(w, s, v)
    <2>1. CASE Abort(w, s)
      BY <2>1, <1>f, AbortSlot
    <2>2. CASE ~Abort(w, s)
      <3>1. job'[w][s].stage = "tracks" /\ job[w][s].stage = "transcode"
        BY <1>4, <2>2, GoesSlot DEF TranscodeMedia, At
      <3>2. {"hls", "media"} \subseteq work'[w][v]
        BY <1>4, <2>2, LeavesDirs DEF TranscodeMedia
      <3> QED BY <3>1, <3>2, <1>r DEF StageOK
    <2> QED BY <2>1, <2>2
  <1>5. CASE ExtractTracks(w, s, v)
    <2>1. job'[w][s].stage = "package" /\ job[w][s].stage = "tracks"
      BY <1>5, GoesSlot DEF ExtractTracks, At
    <2>2. work[w][v] \subseteq work'[w][v]
      BY <1>5, LeavesDirs DEF ExtractTracks
    <2> QED BY <2>1, <2>2, <1>r DEF StageOK
  <1>6. CASE Package(w, s, v)
    <2>1. CASE Abort(w, s)
      BY <2>1, <1>f, AbortSlot
    <2>2. CASE ~Abort(w, s)
      <3> DEFINE files == (work[w][v] \intersect File) \union {"master"}
      <3>0. job' = [job EXCEPT ![w][s].stage = "upload", ![w][s].todo = files]
        BY <1>6, <2>2 DEF Package
      <3>1. job'[w][s].stage = "upload" /\ job'[w][s].todo = files
        <4> HIDE DEF files
        <4>1. job[w][s] \in Job
          BY DEF TranscoderTypeOK
        <4>2. job'[w][s] = [job[w][s] EXCEPT !.stage = "upload", !.todo = files]
          BY <3>0 DEF TranscoderTypeOK
        <4> QED BY <4>1, <4>2 DEF Job
      <3>2. job[w][s].stage = "package"
        BY <1>6 DEF Package, At
      <3>3. \A f \in File : f \in job'[w][s].todo
        BY <3>1, <3>2 DEF StageOK, File
      <3> QED BY <3>1, <3>2, <3>3, <1>r DEF StageOK
    <2> QED BY <2>1, <2>2
  <1>7. ASSUME NEW f \in File, UploadFile(w, s, v, f)
        PROVE  StageOK(w, s, v)'
    <2>1. job[w][s].stage = "upload"
      BY <1>7 DEF UploadFile, At
    <2>2. /\ job'[w][s].stage = "upload"
          /\ job'[w][s].todo = job[w][s].todo \ {f}
          /\ job[w][s].bad => job'[w][s].bad
          /\ job'[w][s].bad \/ f \in hls'[v]
      <3>1. CASE f \in work[w][v] /\ hls' = [hls EXCEPT ![v] = @ \union {f}]
                 /\ \E o \in {"ok", "lost"} : Tried(w, s, f, o = "lost")
        <4>1. f \in hls'[v]
          BY <3>1 DEF ServicesTypeOK
        <4> QED BY <2>1, <3>1, <4>1, TriedSlot
      <3>2. CASE Tried(w, s, f, TRUE)
        BY <2>1, <3>2, TriedSlot
      <3> QED BY <1>7, <3>1, <3>2 DEF UploadFile
    <2> QED BY <2>1, <2>2, <1>r DEF StageOK
  <1>8. CASE UploadDone(w, s, v)
    <2>1. CASE Abort(w, s)
      BY <2>1, <1>f, AbortSlot
    <2>2. CASE ~Abort(w, s)
      <3>1. /\ job'[w][s].stage = "thumbs"
            /\ job[w][s].stage = "upload"
            /\ job[w][s].todo = {}
            /\ ~job[w][s].bad
        BY <1>8, <2>2, GoesSlot DEF UploadDone, At
      <3> QED BY <3>1, <1>r DEF StageOK
    <2> QED BY <2>1, <2>2
  <1>9. CASE UploadThumbs(w, s, v)
    <2>1. job'[w][s].stage = "publish" /\ job[w][s].stage = "thumbs"
      BY <1>9, GoesSlot DEF UploadThumbs, At
    <2> QED BY <2>1, <1>r DEF StageOK
  <1>10. CASE Publish(w, s, v)
    BY <1>10, <1>f, PublishSlot
  <1>11. CASE MarkFailed(w, s, v)
    BY <1>11, <1>n, IdleSlot DEF MarkFailed
  <1>12. CASE RemoveWorkDir(w, s, v)
    BY <1>12, <1>f, <1>n, CleanedSlot DEF RemoveWorkDir
  <1> QED
    BY <1>1, <1>2, <1>3, <1>4, <1>5, <1>6, <1>7, <1>8, <1>9, <1>10, <1>11, <1>12
       DEF ProcessStep

-----------------------------------------------------------------------------
(* The conjuncts of PlayableInv, step by step. *)

Stages ==
    \A w \in Worker, s \in Slot, v \in Video : RunBy(w, s, v) => StageOK(w, s, v)

Ready == \A v \in Video : status[v] = "ready" => Playable(v)

\* Only Enqueue gives a video a task, and a second one only when it is repeated.
LEMMA ApiTasks ==
    ASSUME TypeOK, BudgetInv, RequestInv, ApiNext, UNCHANGED transcoderVars
    PROVE  /\ OneTask /\ None("dup")' => OneTask'
           /\ \A v \in Video : HasTask(v)' => HasTask(v) \/ upload'[v] \in {"unqueued", "accepted"}
  <1> USE DEF transcoderVars
  <1>1. ASSUME NEW v \in Video, Enqueue(v)
        PROVE  /\ OneTask /\ None("dup")' => OneTask'
               /\ \A u \in Video : HasTask(u)' => HasTask(u) \/ u = v
    <2>1. ~HasTask(v)
      BY <1>1 DEF Enqueue, UploadGoes, RequestInv
    <2>2. CASE UNCHANGED queue
      <3>1. Quiet
        BY <2>2 DEF Quiet
      <3> QED BY <3>1, QuietTasks, QuietOneTask
    <2>3. CASE queue' = Append(queue, v)
      <3>1. \A u \in Video : Queued(u)' => Queued(u) \/ u = v
        <4>1. /\ Len(queue) \in Nat
              /\ Len(queue') = Len(queue) + 1
              /\ \A i \in 1..Len(queue) : queue'[i] = queue[i]
              /\ queue'[Len(queue) + 1] = v
          BY <2>3, AppendProperties, LenProperties DEF TypeOK, ServicesTypeOK
        <4> SUFFICES ASSUME NEW u \in Video, NEW i \in 1..Len(queue'), queue'[i] = u
                     PROVE  Queued(u) \/ u = v
          BY DEF Queued
        <4>2. i \in 1..Len(queue) \/ i = Len(queue) + 1
          BY <4>1
        <4> QED BY <4>1, <4>2 DEF Queued
      <3>2. \A u \in Video : HasTask(u)' => HasTask(u) \/ u = v
        BY <3>1 DEF HasTask, HeldBy, RunBy
      <3> QED BY <2>1, <2>3, <3>2, PushOneTask
    <2>4. CASE Pay("dup") /\ queue' = Append(Append(queue, v), v)
      <3>1. ~None("dup")'
        <4>1. "dup" \in FaultKind
          BY DEF FaultKind
        <4>2. budget["dup"] \in Nat /\ Budget["dup"] \in Nat /\ budget["dup"] <= Budget["dup"]
          BY <4>1, BudgetAssumption DEF BudgetInv, TypeOK, ServicesTypeOK
        <4>3. budget'["dup"] = budget["dup"] - 1
          BY <2>4, <4>1 DEF Pay, TypeOK, ServicesTypeOK
        <4>4. budget'["dup"] # Budget["dup"]
          BY <4>2, <4>3
        <4> QED BY <4>4 DEF None
      <3>2. \A u \in Video : Queued(u)' => Queued(u) \/ u = v
        <4> DEFINE q == Append(queue, v)
        <4>1. /\ q \in Seq(Video)
              /\ Len(queue) \in Nat
              /\ Len(q) = Len(queue) + 1
              /\ \A i \in 1..Len(queue) : q[i] = queue[i]
              /\ q[Len(queue) + 1] = v
          BY AppendProperties, LenProperties DEF TypeOK, ServicesTypeOK
        <4>2. /\ Len(queue') = Len(q) + 1
              /\ \A i \in 1..Len(q) : queue'[i] = q[i]
              /\ queue'[Len(q) + 1] = v
          BY <2>4, <4>1, AppendProperties
        <4> HIDE DEF q
        <4> SUFFICES ASSUME NEW u \in Video, NEW i \in 1..Len(queue'), queue'[i] = u
                     PROVE  Queued(u) \/ u = v
          BY DEF Queued
        <4>3. i \in 1..Len(queue) \/ i = Len(queue) + 1 \/ i = Len(q) + 1
          BY <4>1, <4>2
        <4> QED BY <4>1, <4>2, <4>3 DEF Queued
      <3>3. \A u \in Video : HasTask(u)' => HasTask(u) \/ u = v
        BY <3>2 DEF HasTask, HeldBy, RunBy
      <3> QED BY <3>1, <3>3
    <2> QED BY <1>1, <2>2, <2>3, <2>4 DEF Enqueue, Ends
  <1>2. ASSUME NEW v \in Video, Enqueue(v)
        PROVE  upload'[v] \in {"unqueued", "accepted"}
    BY <1>2 DEF Enqueue, UploadGoes, TypeOK, ApiTypeOK
  <1>3. ASSUME ~ \E v \in Video : Enqueue(v)
        PROVE  Quiet
    <2>1. queue' = queue
      BY <1>3 DEF ApiNext, UploadStep, StoreOriginal, CreateRow, UndoStore, MarkEnqueueFailed,
                  UploadGone, DeleteRow, DeleteDir, DeleteGone, ApiCrash
    <2> QED BY <2>1 DEF Quiet
  <1>4. CASE \E v \in Video : Enqueue(v)
    BY <1>1, <1>2, <1>4
  <1>5. CASE ~ \E v \in Video : Enqueue(v)
    BY <1>3, <1>5, QuietTasks, QuietOneTask
  <1> QED BY <1>4, <1>5

\* A transcoder hands a task on or drops it, and never makes one.
LEMMA TranscoderTasks ==
    ASSUME TypeOK, TranscoderNext
    PROVE  /\ OneTask => OneTask'
           /\ \A v \in Video : HasTask(v)' => HasTask(v)
  <1>1. ASSUME NEW w \in Worker, Pop(w)
        PROVE  /\ OneTask => OneTask'
               /\ \A v \in Video : HasTask(v)' => HasTask(v)
    BY <1>1, PopOneTask
  <1>2. ASSUME NEW w \in Worker, NEW s \in Slot, StartJob(w, s)
        PROVE  /\ OneTask => OneTask'
               /\ \A v \in Video : HasTask(v)' => HasTask(v)
    BY <1>2, StartOneTask
  <1>3. ASSUME NEW w \in Worker, PollAgain(w) \/ Exit(w) \/ Stop(w) \/ Restart(w)
        PROVE  Quiet
    BY <1>3 DEF PollAgain, Exit, Stop, Restart, services, transcoderVars, Quiet
  <1>4. ASSUME NEW w \in Worker, Crash(w)
        PROVE  Quiet
    <2>1. \A x \in Worker, s \in Slot :
            job'[x][s] = job[x][s] \/ job'[x][s] = Idle
      BY <1>4 DEF Crash, TypeOK, TranscoderTypeOK
    <2>2. Idle.video = NoVideo
      BY DEF Idle
    <2>3. \A x \in Worker, s \in Slot : job'[x][s].video \in {job[x][s].video, NoVideo}
      BY <2>1, <2>2
    <2> QED BY <1>4, <2>3 DEF Crash, Quiet, TypeOK, TranscoderTypeOK
  <1>5. ASSUME NEW w \in Worker, NEW s \in Slot, Abandon(w, s)
        PROVE  Quiet
    <2>1. OtherSlots(w, s) /\ job'[w][s].video = NoVideo
      BY <1>5, IdleSlot DEF Abandon, TypeOK
    <2> QED BY <1>5, <2>1 DEF Abandon, services, Quiet, OtherSlots
  <1>6. ASSUME NEW w \in Worker, NEW s \in Slot, NEW v \in Video, ProcessStep(w, s, v)
        PROVE  Quiet
    <2>1. SlotStep(w, s, v)
      BY <1>6, ProcessSlot DEF TypeOK
    <2> QED BY <2>1 DEF SlotStep, OtherSlots, Quiet
  <1>7. CASE Quiet
    BY <1>7, QuietTasks, QuietOneTask
  <1> QED BY <1>1, <1>2, <1>3, <1>4, <1>5, <1>6, <1>7
          DEF TranscoderNext, LoopStep, JobStep

\* A request does its steps in their order, and a worker touches no row that
\* is not there.
LEMMA RequestStep ==
    ASSUME TypeOK, BudgetInv, RequestInv,
           \/ ApiNext /\ UNCHANGED transcoderVars
           \/ TranscoderNext /\ UNCHANGED apiVars
    PROVE  RequestInv'
  <1> DEFINE Order ==
        \A v \in Video :
            /\ upload'[v] \in {"new", "stored"} => status'[v] = "none"
            /\ del'[v] # "idle" => status'[v] = "deleted"
            /\ upload[v] \in {"unqueued", "accepted", "rejected"} =>
                 upload'[v] \in {"unqueued", "accepted", "rejected"}
  <1>1. CASE ApiNext /\ UNCHANGED transcoderVars
    <2> USE DEF TypeOK, ServicesTypeOK, ApiTypeOK, UploadState, RequestInv, UploadGoes, rows
    <2>1. ASSUME NEW v \in Video,
                 StoreOriginal(v) \/ UndoStore(v) \/ Enqueue(v) \/ UploadGone(v)
          PROVE  Order
      BY <2>1 DEF StoreOriginal, UndoStore, Enqueue, UploadGone
    <2>2. ASSUME NEW v \in Video, CreateRow(v)
          PROVE  Order
      <3>1. status' = status \/ status' = [status EXCEPT ![v] = "pending"]
        BY <2>2 DEF CreateRow
      <3>2. status[v] = "none" /\ upload'[v] \in {"created", "undo"} /\ del' = del
        BY <2>2 DEF CreateRow
      <3>3. \A u \in Video : u # v => upload'[u] = upload[u] /\ status'[u] = status[u]
        BY <2>2, <3>1 DEF CreateRow
      <3>4. upload[v] = "stored"
        BY <2>2 DEF CreateRow
      <3> QED BY <3>2, <3>3, <3>4
    <2>3. ASSUME NEW v \in Video, MarkEnqueueFailed(v)
          PROVE  Order
      <3>1. status' = status \/ SetStatus(v, "failed")
        BY <2>3 DEF MarkEnqueueFailed
      <3>2. \A u \in Video : ~HasRow(u) => status'[u] = status[u]
        BY <3>1, SetStatusRows DEF VideoStatus
      <3>3. \A u \in Video : status[u] \in {"none", "deleted"} => status'[u] = status[u]
        BY <3>2 DEF HasRow, VideoStatus
      <3> QED BY <2>3, <3>3 DEF MarkEnqueueFailed
    <2>4. ASSUME NEW v \in Video, DeleteRow(v)
          PROVE  Order
      <3>1. status[v] # "none" /\ status' = [status EXCEPT ![v] = "deleted"] /\ upload' = upload
        BY <2>4 DEF DeleteRow, HasRow, VideoStatus
      <3>2. \A u \in Video : u # v => del'[u] = del[u] /\ status'[u] = status[u]
        BY <2>4, <3>1 DEF DeleteRow
      <3>3. status'[v] = "deleted"
        BY <3>1
      <3> QED BY <3>1, <3>2, <3>3
    <2>5. ASSUME NEW v \in Video, DeleteDir(v) \/ DeleteGone(v)
          PROVE  Order
      BY <2>5 DEF DeleteDir, DeleteGone, Directory
    <2>6. ASSUME ApiCrash
          PROVE  Order
      BY <2>6 DEF ApiCrash, InFlight
    <2>7. Order
      BY <1>1, <2>1, <2>2, <2>3, <2>4, <2>5, <2>6 DEF ApiNext, UploadStep
    <2>8. \A v \in Video : HasTask(v)' => HasTask(v) \/ upload'[v] \in {"unqueued", "accepted"}
      BY <1>1, ApiTasks
    <2>9. \A v \in Video : HasTask(v)' => upload'[v] \in {"unqueued", "accepted", "rejected"}
      BY <2>7, <2>8
    <2> HIDE DEF RequestInv
    <2> QED BY <2>7, <2>9 DEF RequestInv
  <1>2. CASE TranscoderNext /\ UNCHANGED apiVars
    <2>1. \A v \in Video : ~HasRow(v) => status'[v] = status[v]
      <3>1. ASSUME NEW w \in Worker,
                   \/ LoopStep(w) \/ Stop(w) \/ Crash(w) \/ Restart(w)
                   \/ \E s \in Slot : Abandon(w, s)
            PROVE  status' = status
        BY <3>1 DEF LoopStep, Pop, PollAgain, Exit, StartJob, Stop, Crash, Restart, Abandon,
                    services, rows
      <3>2. ASSUME NEW w \in Worker, NEW s \in Slot, NEW v \in Video, ProcessStep(w, s, v)
            PROVE  \A u \in Video : ~HasRow(u) => status'[u] = status[u]
        BY <3>2, ProcessRows DEF TypeOK
      <3> QED BY <1>2, <3>1, <3>2 DEF TranscoderNext, JobStep
    <2>2. \A v \in Video : status[v] \in {"none", "deleted"} => status'[v] = status[v]
      BY <2>1 DEF HasRow, VideoStatus
    <2>3. \A v \in Video : HasTask(v)' => HasTask(v)
      BY <1>2, TranscoderTasks
    <2>4. upload' = upload /\ del' = del
      BY <1>2 DEF apiVars
    <2> QED BY <2>2, <2>3, <2>4 DEF RequestInv
  <1> QED BY <1>1, <1>2

\* The rows and files of the other videos, and of a video whose job goes on,
\* stay what they are.
LEMMA RowsKept ==
    ASSUME TypeOK, RequestInv,
           \/ ApiNext /\ UNCHANGED transcoderVars
           \/ TranscoderNext /\ UNCHANGED apiVars
    PROVE  KeepsRows
  <1>1. ASSUME NEW w \in Worker,
               \/ LoopStep(w) \/ Stop(w) \/ Crash(w) \/ Restart(w)
               \/ \E s \in Slot : Abandon(w, s)
        PROVE  KeepsRows
    <2>1. UNCHANGED <<status, duration, hls>>
      BY <1>1 DEF LoopStep, Pop, PollAgain, Exit, StartJob, Stop, Crash, Restart, Abandon,
                  services, rows, blobs
    <2> QED BY <2>1 DEF KeepsRows, HasRow
  <1>2. ASSUME NEW w \in Worker, NEW s \in Slot, NEW v \in Video, ProcessStep(w, s, v)
        PROVE  KeepsRows
    BY <1>2, ProcessRows DEF TypeOK, KeepsRows
  <1> QED BY <1>1, <1>2, ApiRows DEF TranscoderNext, JobStep

\* As a video has one task, a step of its job concerns no other job.
LEMMA StagesKept ==
    ASSUME OneTask, Stages, KeepsRows, NEW w \in Worker, NEW s \in Slot,
           NEW v, job[w][s].video = v, OtherSlots(w, s), OtherDirs(w, v),
           \A u \in Video : RunBy(w, s, u)' => StageOK(w, s, u)'
    PROVE  Stages'
  <1> SUFFICES ASSUME NEW x \in Worker, NEW t \in Slot, NEW u \in Video, RunBy(x, t, u)'
               PROVE  StageOK(x, t, u)'
    BY DEF Stages
  <1>1. CASE x = w /\ t = s
    BY <1>1
  <1>2. CASE x # w \/ t # s
    <2>1. job'[x][t] = job[x][t]
      BY <1>2 DEF OtherSlots
    <2>2. RunBy(x, t, u)
      BY <2>1 DEF RunBy
    <2>3. x # w \/ u # v
      BY <1>2, <2>2 DEF OneTask, RunBy
    <2>4. work'[x][u] = work[x][u]
      BY <2>3 DEF OtherDirs
    <2>5. StageOK(x, t, u)
      BY <2>2 DEF Stages
    <2> QED BY <2>1, <2>2, <2>4, <2>5, StageKept
  <1> QED BY <1>1, <1>2

\* Every job can count on what its stage needs.
LEMMA StageStep ==
    ASSUME TypeOK, RequestInv, OneTask, Stages,
           \/ ApiNext /\ UNCHANGED transcoderVars
           \/ TranscoderNext /\ UNCHANGED apiVars
    PROVE  Stages'
  <1>k. KeepsRows
    BY RowsKept
  <1>1. CASE UNCHANGED <<job, work>>
    <2> SUFFICES ASSUME NEW x \in Worker, NEW t \in Slot, NEW u \in Video, RunBy(x, t, u)'
                 PROVE  StageOK(x, t, u)'
      BY DEF Stages
    <2>1. RunBy(x, t, u) /\ StageOK(x, t, u)
      BY <1>1 DEF RunBy, Stages
    <2> QED BY <1>1, <1>k, <2>1, StageKept
  <1>2. ASSUME NEW w \in Worker, NEW s \in Slot, StartJob(w, s)
        PROVE  Stages'
    <2>1. OtherSlots(w, s) /\ job'[w][s] = [Idle EXCEPT !.video = held[w], !.stage = "start"]
      BY <1>2 DEF StartJob, OtherSlots, TypeOK, TranscoderTypeOK
    <2>2. job'[w][s].stage = "start"
      BY <2>1 DEF Idle
    <2>3. \A u \in Video : StageOK(w, s, u)'
      BY <2>2 DEF StageOK
    <2>4. OtherDirs(w, job[w][s].video)
      BY <1>2 DEF StartJob, OtherDirs
    <2> QED BY <1>k, <2>1, <2>3, <2>4, StagesKept
  <1>3. ASSUME NEW w \in Worker, Crash(w)
        PROVE  Stages'
    <2> SUFFICES ASSUME NEW x \in Worker, NEW t \in Slot, NEW u \in Video, RunBy(x, t, u)'
                 PROVE  StageOK(x, t, u)'
      BY DEF Stages
    <2>1. CASE x = w
      <3>1. job'[w][t] = Idle
        BY <1>3 DEF Crash, TypeOK, TranscoderTypeOK
      <3>2. job'[w][t].video = NoVideo
        BY <3>1 DEF Idle
      <3> QED BY <2>1, <3>2, NoVideoAssumption DEF RunBy
    <2>2. CASE x # w
      <3>1. job'[x][t] = job[x][t] /\ work'[x][u] = work[x][u]
        BY <1>3, <2>2 DEF Crash, TypeOK, TranscoderTypeOK
      <3>2. RunBy(x, t, u) /\ StageOK(x, t, u)
        BY <3>1 DEF RunBy, Stages
      <3> QED BY <1>k, <3>1, <3>2, StageKept
    <2> QED BY <2>1, <2>2
  <1>4. ASSUME NEW w \in Worker, NEW s \in Slot, Abandon(w, s)
        PROVE  Stages'
    <2>1. OtherSlots(w, s) /\ job'[w][s].video = NoVideo
      BY <1>4, IdleSlot DEF Abandon, TypeOK
    <2>2. OtherDirs(w, job[w][s].video)
      <3>1. CASE UNCHANGED work
        BY <3>1 DEF OtherDirs
      <3>2. CASE Removes(w, job[w][s].video)
        BY <3>2 DEF Removes, Leaves, OtherDirs, TypeOK, TranscoderTypeOK
      <3> QED BY <1>4, <3>1, <3>2 DEF Abandon
    <2>3. \A u \in Video : ~RunBy(w, s, u)'
      BY <2>1, NoVideoAssumption DEF RunBy
    <2> QED BY <1>k, <2>1, <2>2, <2>3, StagesKept
  <1>5. ASSUME NEW w \in Worker, NEW s \in Slot, NEW v \in Video, ProcessStep(w, s, v)
        PROVE  Stages'
    <2>1. SlotStep(w, s, v) /\ job[w][s].video = v
      BY <1>5, ProcessSlot DEF TypeOK
    <2>2. StageOK(w, s, v)
      BY <2>1 DEF Stages, RunBy
    <2>3. RunBy(w, s, v)' => StageOK(w, s, v)'
      BY <1>5, <2>2, StageReached DEF TypeOK
    <2>4. \A u \in Video : RunBy(w, s, u)' => u = v
      BY <2>1, NoVideoAssumption DEF SlotStep, RunBy
    <2>5. OtherSlots(w, s) /\ OtherDirs(w, v)
      BY <2>1 DEF SlotStep
    <2> QED BY <1>k, <2>1, <2>3, <2>4, <2>5, StagesKept
  <1>6. ASSUME NEW w \in Worker, Pop(w) \/ PollAgain(w) \/ Exit(w) \/ Stop(w) \/ Restart(w)
        PROVE  UNCHANGED <<job, work>>
    BY <1>6 DEF Pop, PollAgain, Exit, Stop, Restart, transcoderVars
  <1>7. CASE ApiNext /\ UNCHANGED transcoderVars
    BY <1>1, <1>7 DEF transcoderVars
  <1>8. CASE TranscoderNext
    BY <1>1, <1>2, <1>3, <1>4, <1>5, <1>6, <1>8 DEF TranscoderNext, LoopStep, JobStep
  <1> QED BY <1>7, <1>8

\* A video that becomes ready can be played, and one that is ready stays so.
LEMMA ReadyStep ==
    ASSUME TypeOK, RequestInv, Stages, Ready,
           \/ ApiNext /\ UNCHANGED transcoderVars
           \/ TranscoderNext /\ UNCHANGED apiVars
    PROVE  Ready'
  <1>k. KeepsRows
    BY RowsKept
  <1> SUFFICES ASSUME NEW u \in Video, status'[u] = "ready"
               PROVE  Playable(u)'
    BY DEF Ready
  <1>1. HasRow(u)'
    BY DEF HasRow, VideoStatus
  <1>2. hls[u] \subseteq hls'[u] /\ (u \in duration => u \in duration')
    BY <1>k, <1>1 DEF KeepsRows
  <1>3. CASE status[u] = "ready"
    BY <1>2, <1>3 DEF Ready, Playable
  <1>4. ASSUME NEW w \in Worker, NEW s \in Slot, Publish(w, s, u)
        PROVE  Playable(u)'
    <2>1. RunBy(w, s, u) /\ job[w][s].stage = "publish"
      BY <1>4 DEF Publish, At, RunBy
    <2>2. HasRow(u)
      <3>1. ProcessStep(w, s, u)
        BY <1>4 DEF ProcessStep
      <3> QED BY <1>1, <3>1, ProcessRows DEF TypeOK
    <2>3. Playable(u)
      BY <2>1, <2>2 DEF Stages, StageOK, Playable
    <2> QED BY <1>2, <2>3 DEF Playable
  <1>5. CASE ApiNext
    BY <1>3, <1>5, ApiRows
  <1>6. CASE TranscoderNext
    <2>1. ASSUME NEW w \in Worker,
                 \/ LoopStep(w) \/ Stop(w) \/ Crash(w) \/ Restart(w)
                 \/ \E s \in Slot : Abandon(w, s)
          PROVE  status' = status
      BY <2>1 DEF LoopStep, Pop, PollAgain, Exit, StartJob, Stop, Crash, Restart, Abandon,
                  services, rows
    <2>2. ASSUME NEW w \in Worker, NEW s \in Slot, NEW v \in Video, ProcessStep(w, s, v)
          PROVE  status[u] = "ready" \/ (u = v /\ Publish(w, s, v))
      BY <2>2, ProcessRows DEF TypeOK
    <2> QED BY <1>3, <1>4, <1>6, <2>1, <2>2 DEF TranscoderNext, JobStep
  <1> QED BY <1>5, <1>6

-----------------------------------------------------------------------------
\* Initially there is no task, no row and no job.
LEMMA PlayableInit ==
    ASSUME Init, TypeOK
    PROVE  PlayableInv
  <1>q. 1..Len(queue) = {}
    <2>1. Len(queue) = 0
      BY EmptySeq DEF Init, ServicesInit
    <2> QED BY <2>1
  <1>1. \A v \in Video : ~Queued(v)
    BY <1>q DEF Queued
  <1> USE DEF Init, ServicesInit, ApiInit, TranscoderInit
  <1>2. \A w \in Worker, v \in Video : ~HeldBy(w, v)
    BY NoVideoAssumption DEF HeldBy
  <1>3. \A w \in Worker, s \in Slot, v \in Video : ~RunBy(w, s, v)
    BY NoVideoAssumption DEF RunBy, Idle
  <1>4. BudgetInv
    BY BudgetAssumption DEF BudgetInv
  <1>5. RequestInv
    BY <1>1, <1>2, <1>3 DEF RequestInv, HasTask
  <1>6. OneTaskPerVideo
    <2>1. \A i, j \in 1..Len(queue) : i = j
      BY <1>q
    <2> QED BY <1>1, <1>2, <1>3, <2>1 DEF OneTaskPerVideo
  <1>7. StageInv
    BY <1>3 DEF StageInv
  <1>8. ReadyIsPlayable
    BY DEF ReadyIsPlayable
  <1> QED BY <1>4, <1>5, <1>6, <1>7, <1>8 DEF PlayableInv

(***************************************************************************)
(* PlayableInv is inductive and so holds in every reachable state: while   *)
(* no LPUSH was repeated, a task is in one place, a job has what its stage *)
(* needs, and a ready row its stream.                                      *)
(***************************************************************************)
THEOREM PlayableInvCorrect == Spec => []PlayableInv
  <1>1. Init /\ TypeOK => PlayableInv
    BY PlayableInit
  <1>2. PlayableInv /\ TypeOK' /\ [Next]_vars => PlayableInv'
    <2> SUFFICES ASSUME PlayableInv, TypeOK', [Next]_vars
                 PROVE  PlayableInv'
      OBVIOUS
    <2>t. TypeOK /\ BudgetInv /\ RequestInv
      BY DEF PlayableInv
    <2>1. CASE Next
      <3>n. \/ ApiNext /\ UNCHANGED transcoderVars
            \/ TranscoderNext /\ UNCHANGED apiVars
        BY <2>1 DEF Next
      <3>1. BudgetInv' /\ (None("dup")' => None("dup"))
        <4>1. Free \/ \E k \in FaultKind : Pay(k)
          BY <3>n, ApiPays, TranscoderPays
        <4>2. "dup" \in FaultKind
          BY DEF FaultKind
        <4> QED BY <2>t, <4>1, <4>2, BudgetShrinks DEF TypeOK
      <3>2. RequestInv'
        BY <2>t, <3>n, RequestStep
      <3>3. ASSUME None("dup")'
            PROVE  OneTask' /\ Stages' /\ Ready'
        <4>1. OneTask /\ Stages /\ Ready
          BY <3>1, <3>3 DEF PlayableInv, OneTaskPerVideo, OneTask, StageInv, Stages,
                            ReadyIsPlayable, Ready
        <4>2. OneTask'
          BY <2>t, <3>n, <3>3, <4>1, ApiTasks, TranscoderTasks
        <4>3. Stages'
          BY <2>t, <3>n, <4>1, StageStep
        <4>4. Ready'
          BY <2>t, <3>n, <4>1, ReadyStep
        <4> QED BY <4>2, <4>3, <4>4
      <3>4. OneTaskPerVideo' /\ StageInv' /\ ReadyIsPlayable'
        BY <3>3 DEF OneTaskPerVideo, OneTask, StageInv, Stages, ReadyIsPlayable, Ready
      <3> QED BY <3>1, <3>2, <3>4 DEF PlayableInv
    <2>2. CASE UNCHANGED vars
      BY <2>2 DEF vars, services, apiVars, transcoderVars, PlayableInv, BudgetInv, RequestInv,
                  OneTaskPerVideo, StageInv, StageOK, ReadyIsPlayable, Playable, HasTask,
                  Queued, HeldBy, RunBy, HasRow, None
    <2> QED BY <2>1, <2>2
  <1> QED BY <1>1, <1>2, TypeCorrect, PTL DEF Spec

(***************************************************************************)
(* A row that says ready has its whole stream and its duration, whatever   *)
(* calls fail or lose their replies, and whoever crashes, stops, hangs up  *)
(* or deletes, unless a task was enqueued twice.                           *)
(***************************************************************************)
THEOREM ReadyCorrect == Spec => []ReadyIsPlayable
  <1>1. PlayableInv => ReadyIsPlayable
    BY DEF PlayableInv
  <1> QED BY <1>1, PlayableInvCorrect, PTL

(***************************************************************************)
(* A video has at most one task: no two jobs of any workers ever work on   *)
(* the same video, unless its LPUSH was repeated.                          *)
(***************************************************************************)
THEOREM OneTaskCorrect == Spec => []OneTaskPerVideo
  <1>1. PlayableInv => OneTaskPerVideo
    BY DEF PlayableInv
  <1> QED BY <1>1, PlayableInvCorrect, PTL
=============================================================================
