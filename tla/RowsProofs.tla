----------------------------- MODULE RowsProofs -----------------------------
(***************************************************************************)
(* What rows, originals and work directories have to do with each other,   *)
(* for every instance of Pipeline: one inductive invariant for each of the *)
(* properties, which rests on PlayableInv and on the ones before it.       *)
(***************************************************************************)
EXTENDS PipelineProofs

-----------------------------------------------------------------------------
(* How many faults there were. *)

\* A fault that is paid for counts once.
LEMMA PayCounts ==
    ASSUME ServicesTypeOK, BudgetInv, NEW k \in FaultKind, Pay(k)
    PROVE  /\ Spent(k)' = Spent(k) + 1
           /\ ~None(k)'
           /\ \A j \in FaultKind : Spent(j) \in Nat /\ (j # k => Spent(j)' = Spent(j))
  <1>1. \A j \in FaultKind : budget[j] \in Nat /\ Budget[j] \in Nat /\ budget[j] <= Budget[j]
    BY BudgetAssumption DEF ServicesTypeOK, BudgetInv
  <1>2. /\ budget[k] > 0
        /\ budget'[k] = budget[k] - 1
        /\ \A j \in FaultKind : j # k => budget'[j] = budget[j]
    BY DEF Pay, ServicesTypeOK
  <1> QED BY <1>1, <1>2 DEF Spent, None

\* The counts never go down.
LEMMA SpentGrows ==
    ASSUME ServicesTypeOK, BudgetInv, Free \/ \E k \in FaultKind : Pay(k)
    PROVE  \A k \in FaultKind :
             /\ Spent(k) \in Nat /\ Spent(k)' \in Nat
             /\ Spent(k) <= Spent(k)'
             /\ None(k)' => None(k)
             /\ None(k) <=> Spent(k) = 0
  <1>1. \A j \in FaultKind : budget[j] \in Nat /\ Budget[j] \in Nat /\ budget[j] <= Budget[j]
    BY BudgetAssumption DEF ServicesTypeOK, BudgetInv
  <1>2. CASE Free
    BY <1>1, <1>2 DEF Free, Spent, None
  <1>3. ASSUME NEW k \in FaultKind, Pay(k)
        PROVE  \A j \in FaultKind :
                 /\ budget'[j] \in Nat
                 /\ budget'[j] <= budget[j]
    BY <1>1, <1>3 DEF Pay, ServicesTypeOK
  <1> QED BY <1>1, <1>2, <1>3 DEF Spent, None

\* Every step counts its faults, and none is forgotten.
LEMMA StepCounts ==
    ASSUME PlayableInv, Next
    PROVE  \A k \in FaultKind :
             /\ Spent(k) \in Nat /\ Spent(k)' \in Nat
             /\ Spent(k) <= Spent(k)'
             /\ None(k)' => None(k)
             /\ None(k) <=> Spent(k) = 0
  <1>1. Free \/ \E k \in FaultKind : Pay(k)
    BY ApiPays, TranscoderPays DEF Next
  <1> QED BY <1>1, SpentGrows DEF PlayableInv, TypeOK

-----------------------------------------------------------------------------
(* Which steps of a transcoder concern rows and originals. *)

\* A transcoder leaves the originals alone, makes and removes no row, and
\* touches status and progress only in the step of a job.
LEMMA TranscoderRows ==
    ASSUME TypeOK, TranscoderNext
    PROVE  /\ originals' = originals
           /\ \A v \in Video : /\ HasRow(v)' <=> HasRow(v)
                               /\ ~HasRow(v) => status'[v] = status[v]
  <1> USE DEF TypeOK, rows, blobs, services
  <1>1. ASSUME NEW w \in Worker,
               \/ LoopStep(w) \/ Stop(w) \/ Crash(w) \/ Restart(w)
               \/ \E s \in Slot : Abandon(w, s)
        PROVE  UNCHANGED <<originals, status>>
    BY <1>1 DEF LoopStep, Pop, PollAgain, Exit, StartJob, Stop, Crash, Restart, Abandon
  <1>2. ASSUME NEW w \in Worker, NEW s \in Slot, NEW v \in Video, ProcessStep(w, s, v)
        PROVE  originals' = originals
    BY <1>2 DEF ProcessStep, MarkProcessing, FetchOriginal, ProbeOriginal, TranscodeMedia,
                ExtractTracks, Package, UploadFile, UploadDone, UploadThumbs, Publish,
                RemoveWorkDir, MarkFailed
  <1>3. ASSUME NEW w \in Worker, NEW s \in Slot, NEW v \in Video, ProcessStep(w, s, v)
        PROVE  \A u \in Video : /\ HasRow(u)' <=> HasRow(u)
                                /\ ~HasRow(u) => status'[u] = status[u]
    BY <1>3, ProcessRows
  <1>4. CASE UNCHANGED <<originals, status>>
    BY <1>4 DEF HasRow
  <1> QED BY <1>1, <1>2, <1>3, <1>4 DEF TranscoderNext, JobStep

-----------------------------------------------------------------------------
(* A row has its original. *)

LEMMA OriginalStep ==
    ASSUME PlayableInv, OriginalInv, Next
    PROVE  OriginalInv'
  <1> DEFINE Kept == \A u \in Video :
                        /\ upload'[u] = "stored" \/ HasRow(u)' => u \in originals'
                        /\ upload'[u] = "undo" => status'[u] = "none"
  <1> SUFFICES ASSUME None("lost")'
               PROVE  Kept
    BY DEF OriginalInv
  <1> USE DEF PlayableInv, TypeOK, ServicesTypeOK, ApiTypeOK
  <1>1. None("lost") /\ "lost" \in FaultKind
    BY StepCounts DEF FaultKind
  <1>2. \A v \in Video :
          /\ upload[v] = "stored" \/ HasRow(v) => v \in originals
          /\ upload[v] = "undo" => status[v] = "none"
          /\ upload[v] \in {"new", "stored"} => status[v] = "none"
          /\ del[v] # "idle" => ~HasRow(v)
    BY <1>1 DEF OriginalInv, RequestInv, HasRow, VideoStatus
  <1>3. CASE ApiNext
    <2>1. ASSUME NEW v \in Video, StoreOriginal(v)
          PROVE  Kept
      BY <1>2, <2>1 DEF StoreOriginal, UploadGoes, Took, rows, HasRow
    <2>2. ASSUME NEW v \in Video, CreateRow(v)
          PROVE  Kept
      <3>1. PICK o \in Outcome :
              /\ upload[v] = "stored"
              /\ upload' = [upload EXCEPT ![v] = IF o = "ok" THEN "created" ELSE "undo"]
              /\ Ends(o)
              /\ status' = IF Took(o) THEN [status EXCEPT ![v] = "pending"] ELSE status
              /\ originals' = originals
        BY <2>2 DEF CreateRow, UploadGoes, blobs
      <3>2. o # "lost"
        BY <1>1, <3>1, PayCounts DEF Ends
      <3>3. o \in {"ok", "fail"}
        BY <3>2 DEF Outcome
      <3> QED BY <1>2, <3>1, <3>3 DEF Took, HasRow
    <2>3. ASSUME NEW v \in Video, UndoStore(v)
          PROVE  Kept
      BY <1>2, <2>3 DEF UndoStore, UploadGoes, rows, HasRow, VideoStatus
    <2>4. ASSUME NEW v \in Video, Enqueue(v) \/ UploadGone(v)
          PROVE  Kept
      BY <1>2, <2>4 DEF Enqueue, UploadGone, UploadGoes, rows, blobs, HasRow
    <2>5. ASSUME NEW v \in Video, MarkEnqueueFailed(v)
          PROVE  Kept
      <3>1. status' = status \/ SetStatus(v, "failed")
        BY <2>5 DEF MarkEnqueueFailed
      <3>2. \A u \in Video : (HasRow(u)' <=> HasRow(u)) /\ (~HasRow(u) => status'[u] = status[u])
        BY <3>1, SetStatusRows DEF VideoStatus, HasRow
      <3>3. \A u \in Video : status[u] = "none" => status'[u] = "none"
        BY <3>2 DEF HasRow, VideoStatus
      <3> QED BY <1>2, <2>5, <3>2, <3>3 DEF MarkEnqueueFailed, UploadGoes, blobs
    <2>6. ASSUME NEW v \in Video, DeleteRow(v)
          PROVE  Kept
      BY <1>2, <2>6 DEF DeleteRow, HasRow, VideoStatus, blobs
    <2>7. ASSUME NEW v \in Video, DeleteDir(v) \/ DeleteGone(v)
          PROVE  Kept
      <3>1. ~HasRow(v) /\ upload[v] # "stored"
        <4>1. del[v] # "idle" /\ status[v] = "deleted"
          BY <2>7 DEF DeleteDir, DeleteGone, Directory, RequestInv
        <4> QED BY <1>2, <4>1
      <3>2. UNCHANGED <<upload, status>> /\ originals \ {v} \subseteq originals'
        BY <2>7 DEF DeleteDir, DeleteGone, rows, blobs
      <3> QED BY <1>2, <3>1, <3>2 DEF HasRow
    <2>8. CASE ApiCrash
      BY <1>2, <2>8 DEF ApiCrash, InFlight, rows, blobs, HasRow
    <2> QED BY <1>3, <2>1, <2>2, <2>3, <2>4, <2>5, <2>6, <2>7, <2>8 DEF ApiNext, UploadStep
  <1>4. CASE TranscoderNext /\ UNCHANGED apiVars
    <2>1. \A v \in Video : status[v] = "none" => status'[v] = "none"
      BY <1>4, TranscoderRows DEF HasRow, VideoStatus
    <2> QED BY <1>2, <1>4, <2>1, TranscoderRows DEF apiVars
  <1> QED BY <1>3, <1>4 DEF Next

(***************************************************************************)
(* A row has its original as long as no reply of the INSERT is lost,       *)
(* through failing calls, clients that hang up, crashes and deletions.     *)
(***************************************************************************)
THEOREM RowHasOriginalCorrect == Spec => [](OriginalInv /\ RowHasOriginal)
  <1>1. Init => OriginalInv
    BY DEF Init, ServicesInit, ApiInit, OriginalInv, HasRow, VideoStatus
  <1>2. PlayableInv /\ OriginalInv /\ [Next]_vars => OriginalInv'
    <2>1. CASE UNCHANGED vars
      BY <2>1 DEF vars, services, apiVars, OriginalInv, HasRow, None
    <2> QED BY <2>1, OriginalStep
  <1>3. OriginalInv => RowHasOriginal
    BY DEF OriginalInv, RowHasOriginal
  <1> QED BY <1>1, <1>2, <1>3, PlayableInvCorrect, PTL DEF Spec
-----------------------------------------------------------------------------
(* A rejected upload leaves no original. *)

LEMMA RejectStep ==
    ASSUME PlayableInv, RejectInv, Next
    PROVE  RejectInv'
  <1> DEFINE Undone == \A u \in Video :
               /\ upload'[u] \in {"created", "unqueued"} => status'[u] # "none"
               /\ upload'[u] = "undo" => Mishaps' >= 1
               /\ upload'[u] = "rejected" /\ status'[u] = "none" /\ u \in originals' =>
                    Mishaps' >= 2
  <1> SUFFICES ASSUME None("crash")'
               PROVE  Undone
    BY DEF RejectInv
  <1> USE DEF PlayableInv, TypeOK, ServicesTypeOK, ApiTypeOK
  <1>1. /\ None("crash")
        /\ {"lost", "crash", "fail", "gone"} \subseteq FaultKind
        /\ Mishaps \in Nat /\ Mishaps' \in Nat /\ Mishaps <= Mishaps'
    <2>1. {"lost", "crash", "fail", "gone"} \subseteq FaultKind
      BY DEF FaultKind
    <2>2. \A k \in {"lost", "crash", "fail", "gone"} :
            /\ Spent(k) \in Nat /\ Spent(k)' \in Nat /\ Spent(k) <= Spent(k)'
            /\ None(k)' => None(k)
      BY <2>1, StepCounts
    <2> QED BY <2>1, <2>2 DEF Mishaps
  <1>2. \A v \in Video :
          /\ upload[v] \in {"created", "unqueued"} => status[v] # "none"
          /\ upload[v] = "undo" => Mishaps >= 1
          /\ upload[v] = "rejected" /\ status[v] = "none" /\ v \in originals => Mishaps >= 2
          /\ upload[v] \in {"new", "stored"} => status[v] = "none"
          /\ del[v] # "idle" => status[v] # "none"
    BY <1>1 DEF RejectInv, RequestInv
  <1>3. ASSUME NEW k \in {"fail", "lost", "gone"}, Pay(k)
        PROVE  Mishaps' = Mishaps + 1
    BY <1>1, <1>3, PayCounts, SMTT(30) DEF Mishaps
  <1>4. ~Pay("crash")
    BY <1>1, PayCounts
  <1>5. CASE ApiNext
    <2>1. ASSUME NEW v \in Video, StoreOriginal(v)
          PROVE  Undone
      <3>1. PICK o \in Outcome :
              /\ upload[v] = "new"
              /\ upload' = [upload EXCEPT ![v] = IF o = "ok" THEN "stored" ELSE "unstored"]
              /\ originals' = IF Took(o) THEN originals \union {v} ELSE originals
              /\ status' = status
        BY <2>1 DEF StoreOriginal, UploadGoes, rows
      <3>2. \A u \in Video : u # v => (u \in originals' => u \in originals)
        BY <3>1
      <3> QED BY <1>1, <1>2, <3>1, <3>2
    <2>2. ASSUME NEW v \in Video, CreateRow(v)
          PROVE  Undone
      <3>1. PICK o \in Outcome :
              /\ upload[v] = "stored"
              /\ upload' = [upload EXCEPT ![v] = IF o = "ok" THEN "created" ELSE "undo"]
              /\ Ends(o)
              /\ status' = IF Took(o) THEN [status EXCEPT ![v] = "pending"] ELSE status
              /\ originals' = originals
        BY <2>2 DEF CreateRow, UploadGoes, blobs
      <3>2. CASE o = "ok"
        BY <1>1, <1>2, <3>1, <3>2 DEF Took
      <3>3. CASE o \in {"fail", "lost"}
        <4>1. Mishaps' = Mishaps + 1
          BY <1>3, <3>1, <3>3 DEF Ends
        <4>2. \A u \in Video : status'[u] \in {status[u], "pending"}
          BY <3>1
        <4> QED BY <1>1, <1>2, <3>1, <3>3, <4>1, <4>2
      <3> QED BY <3>2, <3>3 DEF Outcome
    <2>3. ASSUME NEW v \in Video, UndoStore(v)
          PROVE  Undone
      BY <1>1, <1>2, <1>3, <2>3 DEF UndoStore, UploadGoes, rows
    <2>4. ASSUME NEW v \in Video, Enqueue(v)
          PROVE  Undone
      BY <1>1, <1>2, <2>4 DEF Enqueue, UploadGoes, rows, blobs
    <2>5. ASSUME NEW v \in Video, MarkEnqueueFailed(v)
          PROVE  Undone
      <3>1. status' = status \/ SetStatus(v, "failed")
        BY <2>5 DEF MarkEnqueueFailed
      <3>2. \A u \in Video : status'[u] \in {status[u], "failed"}
        BY <3>1, SetStatusRows DEF VideoStatus
      <3> QED BY <1>1, <1>2, <2>5, <3>2 DEF MarkEnqueueFailed, UploadGoes, blobs
    <2>6. ASSUME NEW v \in Video, UploadGone(v)
          PROVE  Undone
      <3>1. Mishaps' = Mishaps + 1 /\ status' = status
        BY <1>3, <2>6 DEF UploadGone, rows
      <3>2. \/ /\ upload' = [upload EXCEPT ![v] = "unstored"]
               /\ originals' \subseteq originals \union {v}
            \/ /\ \/ upload' = [upload EXCEPT ![v] = "undo"]
                  \/ /\ upload[v] \in {"created", "unqueued"}
                     /\ upload' = [upload EXCEPT ![v] = "rejected"]
               /\ originals' = originals
        BY <2>6 DEF UploadGone, UploadGoes
      <3> QED BY <1>1, <1>2, <3>1, <3>2
    <2>7. ASSUME NEW v \in Video, DeleteRow(v)
          PROVE  Undone
      BY <1>1, <1>2, <2>7 DEF DeleteRow, blobs
    <2>8. ASSUME NEW v \in Video, DeleteDir(v) \/ DeleteGone(v)
          PROVE  Undone
      <3>1. UNCHANGED <<upload, status>> /\ originals' \subseteq originals
        BY <2>8 DEF DeleteDir, DeleteGone, rows, blobs
      <3> QED BY <1>1, <1>2, <3>1
    <2> QED BY <1>4, <1>5, <2>1, <2>2, <2>3, <2>4, <2>5, <2>6, <2>7, <2>8
            DEF ApiNext, UploadStep, ApiCrash
  <1>6. CASE TranscoderNext /\ UNCHANGED apiVars
    <2>1. \A v \in Video : status'[v] = "none" <=> status[v] = "none"
      BY <1>6, TranscoderRows DEF HasRow, VideoStatus
    <2> QED BY <1>1, <1>2, <1>6, <2>1, TranscoderRows DEF apiVars
  <1> QED BY <1>5, <1>6 DEF Next

(***************************************************************************)
(* An upload that ended after storage.Upload and before it had a row       *)
(* leaves no original, unless the process crashed or two mishaps met: the  *)
(* INSERT failed, or its reply was lost, or its client hung up, and then   *)
(* the undo failed as well.                                                *)
(***************************************************************************)
THEOREM RejectedCorrect == Spec => []RejectedLeavesNoOriginal
  <1>1. Init => RejectInv
    BY DEF Init, ServicesInit, ApiInit, RejectInv
  <1>2. PlayableInv /\ RejectInv /\ [Next]_vars => RejectInv'
    <2>1. CASE UNCHANGED vars
      BY <2>1 DEF vars, services, apiVars, RejectInv, Mishaps, None, Spent
    <2> QED BY <2>1, RejectStep
  <1>3. PlayableInv /\ RejectInv => RejectedLeavesNoOriginal
    <2> SUFFICES ASSUME PlayableInv, RejectInv, None("crash"), Mishaps <= 1,
                        NEW v \in Video, upload[v] = "rejected", status[v] = "none"
                 PROVE  v \notin originals
      BY DEF RejectedLeavesNoOriginal
    <2>1. \A k \in FaultKind : Spent(k) \in Nat
      BY BudgetAssumption DEF PlayableInv, TypeOK, ServicesTypeOK, BudgetInv, Spent
    <2>2. Mishaps \in Nat
      BY <2>1 DEF Mishaps, FaultKind
    <2> QED BY <2>2 DEF RejectInv
  <1> QED BY <1>1, <1>2, <1>3, PlayableInvCorrect, PTL DEF Spec
-----------------------------------------------------------------------------
(* A work directory is removed. *)

\* A job that ends takes its directory with it, if RemoveAll has no error, and
\* one that has not begun or has failed does not touch it.
LEMMA ProcessDir ==
    ASSUME TranscoderTypeOK, NEW w \in Worker, NEW s \in Slot, NEW v \in Video,
           ProcessStep(w, s, v), ~Pay("keep")
    PROVE  \/ work'[w][v] = {}
           \/ RunBy(w, s, v)' /\ job'[w][s].stage \notin {"start", "failing"}
           \/ work'[w][v] = work[w][v] /\ job[w][s].stage \in {"start", "failing"}
  <1> DEFINE Owned == RunBy(w, s, v)' /\ job'[w][s].stage \notin {"start", "failing"}
  <1>g. ASSUME NEW stage, stage \notin {"start", "failing"}, Goes(w, s, stage), job[w][s].video = v
        PROVE  Owned
    BY <1>g, GoesSlot DEF RunBy
  <1>v. job[w][s].video = v
    BY ProcessSlot
  <1>a. ASSUME Abort(w, s)
        PROVE  Owned
    BY <1>a, <1>v, AbortSlot DEF RunBy
  <1>1. CASE MarkProcessing(w, s, v)
    BY <1>1, <1>g, <1>v DEF MarkProcessing, At
  <1>2. CASE FetchOriginal(w, s, v) \/ ProbeOriginal(w, s, v) \/ TranscodeMedia(w, s, v)
    BY <1>2, <1>a, <1>g, <1>v DEF FetchOriginal, ProbeOriginal, TranscodeMedia
  <1>3. CASE ExtractTracks(w, s, v) \/ UploadDone(w, s, v) \/ UploadThumbs(w, s, v)
    BY <1>3, <1>a, <1>g, <1>v DEF ExtractTracks, UploadDone, UploadThumbs
  <1>4. CASE Package(w, s, v)
    <2>1. CASE Abort(w, s)
      BY <1>a, <2>1
    <2>2. CASE ~Abort(w, s)
      <3> DEFINE files == (work[w][v] \intersect File) \union {"master"}
      <3>1. job' = [job EXCEPT ![w][s].stage = "upload", ![w][s].todo = files]
        BY <1>4, <2>2 DEF Package
      <3> HIDE DEF files
      <3>2. job'[w][s].video = v /\ job'[w][s].stage = "upload"
        BY <1>v, <3>1, PackageSlot
      <3> QED BY <3>2 DEF RunBy
    <2> QED BY <2>1, <2>2
  <1>5. ASSUME NEW f \in File, UploadFile(w, s, v, f)
        PROVE  Owned
    <2>1. job'[w][s].video = v /\ job'[w][s].stage = job[w][s].stage
      BY <1>5, <1>v, TriedSlot DEF UploadFile
    <2> QED BY <1>5, <2>1 DEF UploadFile, At, RunBy
  <1>6. CASE Publish(w, s, v)
    BY <1>6, <1>v, PublishSlot DEF RunBy
  <1>7. CASE MarkFailed(w, s, v)
    BY <1>7 DEF MarkFailed, At
  <1>8. CASE RemoveWorkDir(w, s, v)
    BY <1>8, LeavesDirs DEF RemoveWorkDir, Removes
  <1> QED BY <1>1, <1>2, <1>3, <1>4, <1>5, <1>6, <1>7, <1>8 DEF ProcessStep

LEMMA DirStep ==
    ASSUME PlayableInv, DirInv, Next
    PROVE  DirInv'
  <1> DEFINE Owner(w, v, s) == RunBy(w, s, v) /\ job[w][s].stage \notin {"start", "failing"}
  <1> SUFFICES ASSUME None("crash")', None("keep")',
                      NEW x \in Worker, NEW u \in Video, work'[x][u] # {}
               PROVE  \E t \in Slot : Owner(x, u, t)'
    BY DEF DirInv
  <1> USE DEF PlayableInv, TypeOK
  <1>0. {"crash", "keep"} \subseteq FaultKind
    BY DEF FaultKind
  <1>1. None("crash") /\ None("keep") /\ ~Pay("crash") /\ ~Pay("keep")
    BY <1>0, StepCounts, PayCounts
  <1>2. ASSUME work[x][u] # {}
        PROVE  \E t \in Slot : Owner(x, u, t)
    BY <1>1, <1>2 DEF DirInv
  <1>3. CASE UNCHANGED <<job, work>>
    BY <1>2, <1>3 DEF RunBy
  <1>4. ASSUME NEW w \in Worker, NEW s \in Slot, StartJob(w, s)
        PROVE  \E t \in Slot : Owner(x, u, t)'
    <2>1. OtherSlots(w, s)
      BY <1>4 DEF StartJob, OtherSlots, TranscoderTypeOK
    <2>2. ~RunBy(w, s, u)
      BY <1>4, NoVideoAssumption DEF StartJob, Idle, RunBy
    <2>3. PICK t \in Slot : Owner(x, u, t)
      BY <1>2, <1>4 DEF StartJob
    <2>4. x # w \/ t # s
      BY <2>2, <2>3
    <2> QED BY <2>1, <2>3, <2>4 DEF OtherSlots, RunBy
  <1>5. ASSUME NEW w \in Worker, NEW s \in Slot, Abandon(w, s)
        PROVE  \E t \in Slot : Owner(x, u, t)'
    <2>0. \/ job[w][s].stage \in {"start", "failing"} /\ work' = work
          \/ Leaves(w, job[w][s].video, {})
      BY <1>1, <1>5 DEF Abandon, Removes
    <2>1. OtherSlots(w, s) /\ OtherDirs(w, job[w][s].video)
      <3>1. OtherSlots(w, s)
        BY <1>5, IdleSlot DEF Abandon
      <3>2. OtherDirs(w, job[w][s].video)
        BY <2>0 DEF Leaves, OtherDirs, TranscoderTypeOK
      <3> QED BY <3>1, <3>2
    <2>2. CASE x = w /\ RunBy(w, s, u)
      <3>1. job[w][s].stage \in {"start", "failing"} /\ work' = work
        BY <2>0, <2>2 DEF Leaves, RunBy, TranscoderTypeOK
      <3>2. PICK t \in Slot : Owner(x, u, t)
        BY <1>2, <3>1
      <3> QED BY <2>1, <2>2, <3>1, <3>2 DEF OtherSlots, RunBy
    <2>3. CASE ~(x = w /\ RunBy(w, s, u))
      <3>1. work'[x][u] = work[x][u]
        BY <2>1, <2>3 DEF OtherDirs, RunBy
      <3>2. PICK t \in Slot : Owner(x, u, t)
        BY <1>2, <3>1
      <3> QED BY <2>1, <2>3, <3>2 DEF OtherSlots, RunBy
    <2> QED BY <2>2, <2>3
  <1>6. ASSUME NEW w \in Worker, NEW s \in Slot, NEW v \in Video, ProcessStep(w, s, v)
        PROVE  \E t \in Slot : Owner(x, u, t)'
    <2>1. OtherSlots(w, s) /\ OtherDirs(w, v) /\ job[w][s].video = v
      BY <1>6, ProcessSlot DEF SlotStep
    <2>2. CASE x = w /\ u = v
      <3>1. CASE RunBy(w, s, v)' /\ job'[w][s].stage \notin {"start", "failing"}
        BY <2>2, <3>1
      <3>2. CASE work'[w][v] = work[w][v] /\ job[w][s].stage \in {"start", "failing"}
        <4>1. PICK t \in Slot : Owner(x, u, t)
          BY <1>2, <2>2, <3>2
        <4> QED BY <2>1, <2>2, <3>2, <4>1 DEF OtherSlots, RunBy
      <3> QED BY <1>1, <1>6, <2>2, <3>1, <3>2, ProcessDir
    <2>3. CASE ~(x = w /\ u = v)
      <3>1. work'[x][u] = work[x][u]
        BY <2>1, <2>3 DEF OtherDirs
      <3>2. PICK t \in Slot : Owner(x, u, t)
        BY <1>2, <3>1
      <3> QED BY <2>1, <2>3, <3>2 DEF OtherSlots, RunBy
    <2> QED BY <2>2, <2>3
  <1>7. ASSUME NEW w \in Worker, Pop(w) \/ PollAgain(w) \/ Exit(w) \/ Stop(w) \/ Restart(w)
        PROVE  UNCHANGED <<job, work>>
    BY <1>7 DEF Pop, PollAgain, Exit, Stop, Restart, transcoderVars
  <1>8. ASSUME NEW w \in Worker
        PROVE  ~Crash(w)
    BY <1>1 DEF Crash
  <1>9. CASE ApiNext /\ UNCHANGED transcoderVars
    BY <1>3, <1>9 DEF transcoderVars
  <1>10. CASE TranscoderNext
    BY <1>3, <1>4, <1>5, <1>6, <1>7, <1>8, <1>10 DEF TranscoderNext, LoopStep, JobStep
  <1> QED BY <1>9, <1>10 DEF Next

(***************************************************************************)
(* A worker that did not crash and whose RemoveAll had no error has a work *)
(* directory only for a job that will remove it, also when a task is in    *)
(* the list twice and two jobs share the directory.                        *)
(***************************************************************************)
THEOREM WorkDirsCorrect == Spec => []WorkDirsRemoved
  <1>1. Init => DirInv
    BY DEF Init, TranscoderInit, DirInv
  <1>2. PlayableInv /\ DirInv /\ [Next]_vars => DirInv'
    <2>1. CASE UNCHANGED vars
      BY <2>1 DEF vars, services, transcoderVars, DirInv, RunBy, None
    <2> QED BY <2>1, DirStep
  <1>3. DirInv => WorkDirsRemoved
    BY DEF DirInv, WorkDirsRemoved
  <1> QED BY <1>1, <1>2, <1>3, PlayableInvCorrect, PTL DEF Spec
-----------------------------------------------------------------------------
(* Progress. *)

\* Only the step of a job writes a percentage.
LEMMA OthersProgress ==
    /\ ApiNext => progress' = progress
    /\ \A w \in Worker :
        \/ LoopStep(w) \/ Stop(w) \/ Crash(w) \/ Restart(w)
        \/ \E s \in Slot : Abandon(w, s)
        => progress' = progress
  <1>1. ApiNext => progress' = progress
    BY DEF ApiNext, UploadStep, StoreOriginal, CreateRow, UndoStore, Enqueue, MarkEnqueueFailed,
           UploadGone, DeleteRow, DeleteDir, DeleteGone, ApiCrash, rows
  <1>2. ASSUME NEW w \in Worker,
               \/ LoopStep(w) \/ Stop(w) \/ Crash(w) \/ Restart(w)
               \/ \E s \in Slot : Abandon(w, s)
        PROVE  progress' = progress
    BY <1>2 DEF LoopStep, Pop, PollAgain, Exit, StartJob, Stop, Crash, Restart, Abandon,
                services, rows
  <1> QED BY <1>1, <1>2

\* The percentages that a job writes are those between its stages.
Advances(w, s, v) ==
    /\ job'[w][s].video = v
    /\ job'[w][s].stage \in {"probe", "transcode", "tracks", "package", "thumbs", "publish"}
    /\ HasRow(v)
    /\ Reached(job[w][s].stage) <= progress'[v]
    /\ progress'[v] <= Reached(job'[w][s].stage)

LEMMA ProcessProgress ==
    ASSUME ServicesTypeOK, TranscoderTypeOK, NEW w \in Worker, NEW s \in Slot, NEW v \in Video,
           ProcessStep(w, s, v)
    PROVE  /\ \A u \in Video : u # v => progress'[u] = progress[u]
           /\ progress'[v] = progress[v] \/ Advances(w, s, v)
           /\ job'[w][s].video = NoVideo \/ Reached(job[w][s].stage) <= Reached(job'[w][s].stage)
  <1> DEFINE Good == /\ \A u \in Video : u # v => progress'[u] = progress[u]
                     /\ progress'[v] = progress[v] \/ Advances(w, s, v)
                     /\ \/ job'[w][s].video = NoVideo
                        \/ Reached(job[w][s].stage) <= Reached(job'[w][s].stage)
  <1>v. job[w][s].video = v
    BY ProcessSlot
  <1>s. ASSUME NEW to, NEW pct \in Percent, Goes(w, s, to), SetProgress(v, pct),
               to \in {"probe", "transcode", "tracks", "package", "thumbs", "publish"},
               Reached(job[w][s].stage) <= pct, pct <= Reached(to),
               Reached(job[w][s].stage) <= Reached(to)
        PROVE  Good
    <2>1. job'[w][s].video = v /\ job'[w][s].stage = to
      BY <1>s, <1>v, GoesSlot
    <2>2. \/ progress' = progress
          \/ HasRow(v) /\ progress' = [progress EXCEPT ![v] = pct]
      BY <1>s DEF SetProgress
    <2> QED BY <1>s, <2>1, <2>2 DEF Advances, ServicesTypeOK
  <1>q. ASSUME NEW to, job'[w][s].stage = to, Reached(job[w][s].stage) <= Reached(to),
               progress' = progress
        PROVE  Good
    BY <1>q
  <1>a. ASSUME Abort(w, s), progress' = progress
        PROVE  Good
    BY <1>a, <1>q, AbortSlot DEF Reached
  <1> USE DEF Percent, At
  <1>1. CASE MarkProcessing(w, s, v)
    <2>1. job'[w][s].stage \in {"fetch", "failing"} /\ job[w][s].stage = "start"
      BY <1>1, GoesSlot DEF MarkProcessing
    <2> QED BY <1>1, <1>q, <2>1 DEF MarkProcessing, Reached
  <1>2. CASE FetchOriginal(w, s, v)
    BY <1>2, <1>s, <1>a DEF FetchOriginal, Reached
  <1>3. CASE ProbeOriginal(w, s, v)
    BY <1>3, <1>s, <1>a DEF ProbeOriginal, Reached
  <1>4. CASE TranscodeMedia(w, s, v)
    BY <1>4, <1>s, <1>a DEF TranscodeMedia, Reached
  <1>5. CASE ExtractTracks(w, s, v)
    <2>1. CASE SetProgress(v, 85)
      BY <1>5, <1>s, <2>1 DEF ExtractTracks, Reached
    <2>2. ASSUME HasRow(v), NEW pct \in {72, 78}, progress' = [progress EXCEPT ![v] = pct]
          PROVE  Good
      <3>1. /\ job'[w][s].video = v
            /\ job'[w][s].stage = "package"
            /\ job[w][s].stage = "tracks"
        BY <1>5, <1>v, GoesSlot DEF ExtractTracks
      <3> QED BY <2>2, <3>1 DEF Advances, Reached, ServicesTypeOK
    <2> QED BY <1>5, <2>1, <2>2 DEF ExtractTracks
  <1>6. CASE Package(w, s, v)
    <2>1. CASE Abort(w, s)
      BY <1>6, <2>1, <1>a DEF Package, rows
    <2>2. CASE ~Abort(w, s)
      <3> DEFINE files == (work[w][v] \intersect File) \union {"master"}
      <3>1. job' = [job EXCEPT ![w][s].stage = "upload", ![w][s].todo = files]
        BY <1>6, <2>2 DEF Package
      <3> HIDE DEF files
      <3>2. job'[w][s].stage = "upload"
        BY <3>1, PackageSlot
      <3> QED BY <1>6, <1>q, <3>2 DEF Package, Reached, rows
    <2> QED BY <2>1, <2>2
  <1>7. ASSUME NEW f \in File, UploadFile(w, s, v, f)
        PROVE  Good
    <2>1. job'[w][s].stage = "upload" /\ job[w][s].stage = "upload"
      BY <1>7, TriedSlot DEF UploadFile
    <2> QED BY <1>7, <1>q, <2>1 DEF UploadFile, rows, Reached
  <1>8. CASE UploadDone(w, s, v)
    BY <1>8, <1>s, <1>a DEF UploadDone, Reached
  <1>9. CASE UploadThumbs(w, s, v)
    BY <1>9, <1>s DEF UploadThumbs, Reached
  <1>10. CASE Publish(w, s, v)
    <2>1. progress' = progress /\ job[w][s].stage = "publish"
      BY <1>10 DEF Publish
    <2> QED BY <1>10, <2>1, PublishSlot DEF Reached
  <1>11. CASE MarkFailed(w, s, v)
    BY <1>11, IdleSlot DEF MarkFailed
  <1>12. CASE RemoveWorkDir(w, s, v)
    <2>1. progress' = progress /\ job[w][s].stage = "cleanup"
      BY <1>12 DEF RemoveWorkDir, rows
    <2>2. job'[w][s].video = NoVideo \/ job'[w][s].stage = "failing"
      BY <1>12, CleanedSlot DEF RemoveWorkDir
    <2> QED BY <2>1, <2>2 DEF Reached
  <1> QED
    BY <1>1, <1>2, <1>3, <1>4, <1>5, <1>6, <1>7, <1>8, <1>9, <1>10, <1>11, <1>12
       DEF ProcessStep
-----------------------------------------------------------------------------
(* Who writes a status. *)

\* What the handlers make of the status of a video
LEMMA ApiStatus ==
    ASSUME TypeOK, RequestInv, ApiNext
    PROVE  \A u \in Video :
             \/ status'[u] = status[u]
             \/ /\ status[u] = "none" /\ status'[u] = "pending"
                /\ upload[u] = "stored" /\ upload'[u] \in {"created", "undo"}
             \/ /\ HasRow(u) /\ status'[u] = "failed"
                /\ upload[u] = "unqueued" /\ upload'[u] = "rejected"
             \/ HasRow(u) /\ status'[u] = "deleted" /\ upload' = upload
  <1> USE DEF TypeOK, ServicesTypeOK, ApiTypeOK, rows
  <1> DEFINE Written(u) ==
             \/ status'[u] = status[u]
             \/ /\ status[u] = "none" /\ status'[u] = "pending"
                /\ upload[u] = "stored" /\ upload'[u] \in {"created", "undo"}
             \/ /\ HasRow(u) /\ status'[u] = "failed"
                /\ upload[u] = "unqueued" /\ upload'[u] = "rejected"
             \/ HasRow(u) /\ status'[u] = "deleted" /\ upload' = upload
  <1>1. ASSUME NEW v \in Video, CreateRow(v)
        PROVE  \A u \in Video : Written(u)
    <2>1. /\ status' = status \/ status' = [status EXCEPT ![v] = "pending"]
          /\ upload[v] = "stored" /\ upload'[v] \in {"created", "undo"}
      BY <1>1 DEF CreateRow, UploadGoes
    <2>2. status[v] = "none"
      BY <2>1 DEF RequestInv
    <2> QED BY <2>1, <2>2
  <1>2. ASSUME NEW v \in Video, MarkEnqueueFailed(v)
        PROVE  \A u \in Video : Written(u)
    <2>1. status' = status \/ SetStatus(v, "failed")
      BY <1>2 DEF MarkEnqueueFailed
    <2>2. upload[v] = "unqueued" /\ upload'[v] = "rejected"
      BY <1>2 DEF MarkEnqueueFailed, UploadGoes
    <2> QED BY <2>1, <2>2, SetStatusRows DEF VideoStatus
  <1>3. ASSUME NEW v \in Video, DeleteRow(v)
        PROVE  \A u \in Video : Written(u)
    BY <1>3 DEF DeleteRow
  <1>4. ASSUME NEW v \in Video,
               \/ StoreOriginal(v) \/ UndoStore(v) \/ Enqueue(v)
               \/ UploadGone(v) \/ DeleteDir(v) \/ DeleteGone(v)
        PROVE  status' = status
    BY <1>4 DEF StoreOriginal, UndoStore, Enqueue, UploadGone, DeleteDir, DeleteGone
  <1>5. CASE ApiCrash
    BY <1>5 DEF ApiCrash
  <1> QED BY <1>1, <1>2, <1>3, <1>4, <1>5 DEF ApiNext, UploadStep

\* What a job makes of it: three of its steps are UPDATEs of the status.
LEMMA ProcessStatus ==
    ASSUME ServicesTypeOK, NEW w \in Worker, NEW s \in Slot, NEW v \in Video,
           ProcessStep(w, s, v)
    PROVE  \A u \in Video :
             \/ status'[u] = status[u]
             \/ /\ u = v
                /\ HasRow(u)
                /\ \/ MarkProcessing(w, s, v) /\ status'[u] = "processing"
                   \/ Publish(w, s, v) /\ status'[u] = "ready"
                   \/ MarkFailed(w, s, v) /\ status'[u] = "failed"
  <1>1. CASE MarkProcessing(w, s, v)
    <2>1. status' = status \/ SetStatus(v, "processing")
      BY <1>1 DEF MarkProcessing
    <2> QED BY <1>1, <2>1, SetStatusRows DEF VideoStatus
  <1>2. CASE Publish(w, s, v)
    <2>1. status' = status \/ SetStatus(v, "ready")
      BY <1>2 DEF Publish
    <2> QED BY <1>2, <2>1, SetStatusRows DEF VideoStatus
  <1>3. CASE MarkFailed(w, s, v)
    <2>1. status' = status \/ SetStatus(v, "failed")
      BY <1>3 DEF MarkFailed
    <2> QED BY <1>3, <2>1, SetStatusRows DEF VideoStatus
  <1>4. CASE ~(MarkProcessing(w, s, v) \/ Publish(w, s, v) \/ MarkFailed(w, s, v))
    <2>1. status' = status
      BY <1>4 DEF ProcessStep, FetchOriginal, ProbeOriginal, TranscodeMedia, ExtractTracks,
                  Package, UploadFile, UploadDone, UploadThumbs, RemoveWorkDir, rows
    <2> QED BY <2>1
  <1> QED BY <1>1, <1>2, <1>3, <1>4

\* Nobody else does.
LEMMA OthersStatus ==
    ASSUME NEW w \in Worker,
           \/ LoopStep(w) \/ Stop(w) \/ Crash(w) \/ Restart(w)
           \/ \E s \in Slot : Abandon(w, s)
    PROVE  status' = status
  BY DEF LoopStep, Pop, PollAgain, Exit, StartJob, Stop, Crash, Restart, Abandon, services, rows

-----------------------------------------------------------------------------
(* Progress is earned. *)

LEMMA EarnedStep ==
    ASSUME PlayableInv, PlayableInv', EarnedInv, Next
    PROVE  EarnedInv'
  <1> USE DEF PlayableInv, TypeOK
  <1>1. ASSUME NEW u \in Video
        PROVE  \/ progress'[u] = progress[u]
               \/ \E w \in Worker, s \in Slot : Advances(w, s, u)
    <2>1. CASE ApiNext
      BY <2>1, OthersProgress
    <2>2. CASE TranscoderNext
      <3>1. ASSUME NEW w \in Worker, NEW s \in Slot, NEW v \in Video, ProcessStep(w, s, v)
            PROVE  \/ progress'[u] = progress[u]
                   \/ \E x \in Worker, t \in Slot : Advances(x, t, u)
        BY <3>1, ProcessProgress
      <3> QED BY <2>2, <3>1, OthersProgress DEF TranscoderNext, JobStep
    <2> QED BY <2>1, <2>2 DEF Next
  <1>2. ASSUME NEW u \in Video
        PROVE  /\ HasRow(u)' /\ ~HasRow(u) => status[u] = "none"
               /\ status'[u] = "none" => status[u] = "none"
    <2>1. CASE ApiNext
      <3>1. \/ status'[u] = status[u]
            \/ status[u] = "none" /\ status'[u] = "pending"
            \/ HasRow(u) /\ status'[u] \in {"failed", "deleted"}
        BY <2>1, ApiStatus
      <3> QED BY <3>1 DEF HasRow, VideoStatus
    <2>2. CASE TranscoderNext
      BY <2>2, TranscoderRows DEF HasRow, VideoStatus
    <2> QED BY <2>1, <2>2 DEF Next
  <1>3. ASSUME NEW u \in Video, NEW w \in Worker, NEW s \in Slot, Advances(w, s, u),
               HasRow(u)', None("dup")'
        PROVE  /\ progress'[u] >= 15 => u \in duration'
               /\ progress'[u] >= 95 => File \subseteq hls'[u]
    <2>1. RunBy(w, s, u)'
      BY <1>3 DEF Advances, RunBy
    <2>2. StageOK(w, s, u)'
      BY <1>3, <2>1 DEF StageInv
    <2>3. progress'[u] \in Nat
      <3>1. progress' \in [Video -> Percent]
        BY DEF ServicesTypeOK
      <3>2. Percent \subseteq Nat
        BY DEF Percent
      <3> QED BY <3>1, <3>2
    <2>4. /\ job'[w][s].stage \in {"probe", "transcode", "tracks", "package", "thumbs", "publish"}
          /\ progress'[u] <= Reached(job'[w][s].stage)
      BY <1>3 DEF Advances
    <2>5. progress'[u] >= 15 => job'[w][s].stage # "probe"
      BY <2>3, <2>4 DEF Reached
    <2>6. progress'[u] >= 95 => job'[w][s].stage \in {"thumbs", "publish"}
      BY <2>3, <2>4 DEF Reached
    <2> QED BY <1>3, <2>2, <2>4, <2>5, <2>6 DEF StageOK
  <1>4. ASSUME NEW u \in Video, status'[u] = "none"
        PROVE  progress'[u] = 0
    <2>1. status[u] = "none" /\ progress[u] = 0
      BY <1>2, <1>4 DEF EarnedInv
    <2>2. ~HasRow(u)
      BY <2>1 DEF HasRow, VideoStatus
    <2> QED BY <1>1, <2>1, <2>2 DEF Advances
  <1>5. ASSUME None("dup")', NEW u \in Video, HasRow(u)'
        PROVE  /\ progress'[u] >= 15 => u \in duration'
               /\ progress'[u] >= 95 => File \subseteq hls'[u]
    <2>1. None("dup")
      BY <1>5, StepCounts DEF FaultKind
    <2>2. CASE \E w \in Worker, s \in Slot : Advances(w, s, u)
      BY <1>3, <1>5, <2>2
    <2>3. CASE progress'[u] = progress[u] /\ ~HasRow(u)
      <3>1. progress'[u] = 0
        BY <1>2, <1>5, <2>3 DEF EarnedInv
      <3> QED BY <3>1
    <2>4. CASE progress'[u] = progress[u] /\ HasRow(u)
      <3>1. /\ progress[u] >= 15 => u \in duration
            /\ progress[u] >= 95 => File \subseteq hls[u]
        BY <2>1, <2>4 DEF EarnedInv, ProgressIsEarned
      <3>2. KeepsRows
        BY RowsKept DEF Next
      <3>3. hls[u] \subseteq hls'[u] /\ (u \in duration => u \in duration')
        BY <1>5, <3>2 DEF KeepsRows
      <3> QED BY <2>4, <3>1, <3>3
    <2> QED BY <1>1, <2>2, <2>3, <2>4
  <1> QED BY <1>4, <1>5 DEF EarnedInv, ProgressIsEarned

(***************************************************************************)
(* The percentage that a client polls is earned: from 15 the duration is   *)
(* known, from 95 the stream is stored, whatever fails, unless a task was  *)
(* enqueued twice.                                                         *)
(***************************************************************************)
THEOREM ProgressCorrect == Spec => []ProgressIsEarned
  <1>1. Init => EarnedInv
    BY DEF Init, ServicesInit, EarnedInv, ProgressIsEarned, HasRow, VideoStatus
  <1>2. PlayableInv /\ PlayableInv' /\ EarnedInv /\ [Next]_vars => EarnedInv'
    <2> SUFFICES ASSUME PlayableInv, PlayableInv', EarnedInv, [Next]_vars
                 PROVE  EarnedInv'
      OBVIOUS
    <2>1. CASE UNCHANGED vars
      BY <2>1 DEF vars, services, EarnedInv, ProgressIsEarned, HasRow, None
    <2> QED BY <2>1, EarnedStep
  <1>3. EarnedInv => ProgressIsEarned
    BY DEF EarnedInv
  <1> QED BY <1>1, <1>2, <1>3, PlayableInvCorrect, PTL DEF Spec
=============================================================================
