----------------------------- MODULE UploadApi -----------------------------
(***************************************************************************)
(* The two handlers of the API server that change what is stored:          *)
(* UploadService.Upload and UploadService.DeleteVideo, one action for each *)
(* call they make to a service.  The handlers of different requests run    *)
(* in goroutines of one process and interleave freely.                     *)
(***************************************************************************)
EXTENDS Services

VARIABLES
    upload,     \* per video: where its upload request is
    del         \* per video: the directory its DELETE request removes next

apiVars == <<upload, del>>

(***************************************************************************)
(* new        the request has not got past storage.Upload yet              *)
(* unstored   it ended there                                               *)
(* stored     the original is in SeaweedFS                                 *)
(* created    the row is in PostgreSQL                                     *)
(* undo       the INSERT returned an error: the original is to be removed  *)
(* unqueued   the LPUSH returned an error: the row is to be marked failed  *)
(* accepted   202 with the id was sent                                     *)
(* rejected   it ended later: 500 was sent, or nobody was left to get it   *)
(***************************************************************************)
UploadState ==
    {"new", "unstored", "stored", "created", "undo", "unqueued", "accepted", "rejected"}
InFlight == {"stored", "created", "undo", "unqueued"}

Directory == {"originals", "hls", "thumbnails"}

ApiInit ==
    /\ upload = [v \in Video |-> "new"]
    /\ del = [v \in Video |-> "idle"]

ApiTypeOK ==
    /\ upload \in [Video -> UploadState]
    /\ del \in [Video -> Directory \union {"idle"}]

UploadGoes(v, from, to) ==
    /\ upload[v] = from
    /\ upload' = [upload EXCEPT ![v] = to]
    /\ UNCHANGED del

-----------------------------------------------------------------------------
(* POST /videos *)

\* storage.Upload.  An error ends the request and nothing is removed, so the
\* original of a lost reply stays behind.
StoreOriginal(v) ==
    \E o \in Outcome :
        /\ UploadGoes(v, "new", IF o = "ok" THEN "stored" ELSE "unstored")
        /\ Ends(o)
        /\ originals' = IF Took(o) THEN originals \union {v} ELSE originals
        /\ UNCHANGED <<rows, queue, hls, thumbs>>

\* Mutant of CreateRow: a failed INSERT is answered without removing the original.
CreateRowNoUndo(v) ==
    \E o \in Outcome :
        /\ UploadGoes(v, "stored", IF o = "ok" THEN "created" ELSE "rejected")
        /\ Ends(o)
        /\ status' = IF Took(o) THEN [status EXCEPT ![v] = "pending"] ELSE status
        /\ UNCHANGED <<progress, duration, queue, blobs>>

\* videoRepo.CreateWithID
CreateRow(v) ==
    \E o \in Outcome :
        /\ UploadGoes(v, "stored", IF o = "ok" THEN "created" ELSE "undo")
        /\ Ends(o)
        /\ status' = IF Took(o) THEN [status EXCEPT ![v] = "pending"] ELSE status
        /\ UNCHANGED <<progress, duration, queue, blobs>>

\* storage.Delete of the original after a failed INSERT, under
\* context.Background() and with its error ignored.
UndoStore(v) ==
    /\ UploadGoes(v, "undo", "rejected")
    /\ \/ /\ Free
          /\ originals' = originals \ {v}
       \/ /\ Pay("fail")
          /\ UNCHANGED originals
    /\ UNCHANGED <<rows, queue, hls, thumbs>>

\* Mutant of Enqueue: an error of it is answered like one of the INSERT.
EnqueueUndoes(v) ==
    \E o \in Outcome :
        /\ UploadGoes(v, "created", IF o = "ok" THEN "accepted" ELSE "undo")
        /\ Ends(o)
        /\ queue' = IF Took(o) THEN Append(queue, v) ELSE queue
        /\ UNCHANGED <<rows, blobs>>

\* producer.Enqueue: LPUSH, which go-redis repeats when the reply is lost and
\* retries are left.
Enqueue(v) ==
    \E o \in Outcome \union {"dup"} :
        /\ UploadGoes(v, "created", IF o \in {"ok", "dup"} THEN "accepted" ELSE "unqueued")
        /\ Ends(o)
        /\ \/ o = "fail" /\ UNCHANGED queue
           \/ o \in {"ok", "lost"} /\ queue' = Append(queue, v)
           \/ o = "dup" /\ queue' = Append(Append(queue, v), v)
        /\ UNCHANGED <<rows, blobs>>

\* videoRepo.UpdateStatus(failed) after a failed LPUSH, its error ignored.
MarkEnqueueFailed(v) ==
    /\ UploadGoes(v, "unqueued", "rejected")
    /\ \/ /\ Free
          /\ SetStatus(v, "failed")
       \/ /\ Pay("fail")
          /\ UNCHANGED status
    /\ UNCHANGED <<progress, duration, queue, blobs>>

\* The client disconnects and the request context is cancelled.  What the
\* handler still calls under it fails at once: storage.Upload, when the filer
\* may have all of the file or not; a pending INSERT, which leads to the undo
\* with its own context; a pending LPUSH and the UPDATE that answers its error.
UploadGone(v) ==
    /\ \/ /\ UploadGoes(v, "new", "unstored")
          /\ originals' \in {originals, originals \union {v}}
       \/ /\ \/ UploadGoes(v, "stored", "undo")
             \/ UploadGoes(v, "created", "rejected")
             \/ UploadGoes(v, "unqueued", "rejected")
          /\ UNCHANGED originals
    /\ Pay("gone")
    /\ UNCHANGED <<rows, queue, hls, thumbs>>

-----------------------------------------------------------------------------
(* DELETE /videos/{id} *)

\* videoRepo.DeleteByID.  Without a row the answer is 404 and nothing else
\* happens: a second DELETE never gets to the directories.  The same holds of
\* a DELETE whose reply from PostgreSQL was lost.
DeleteRow(v) ==
    /\ HasRow(v)
    /\ \E o \in {"ok", "lost"} :
        /\ Ends(o)
        /\ del' = IF o = "ok" THEN [del EXCEPT ![v] = "originals"] ELSE del
    /\ status' = [status EXCEPT ![v] = "deleted"]
    /\ UNCHANGED <<upload, progress, duration, queue, blobs>>

NextDirectory(d) ==
    IF d = "originals" THEN "hls" ELSE IF d = "hls" THEN "thumbnails" ELSE "idle"

\* storage.DeleteDir of the next of the three directories: best effort, an
\* error is logged.
DeleteDir(v) ==
    /\ del[v] \in Directory
    /\ del' = [del EXCEPT ![v] = NextDirectory(@)]
    /\ \/ /\ Free
          /\ originals' = IF del[v] = "originals" THEN originals \ {v} ELSE originals
          /\ hls' = IF del[v] = "hls" THEN [hls EXCEPT ![v] = {}] ELSE hls
          /\ thumbs' = IF del[v] = "thumbnails" THEN thumbs \ {v} ELSE thumbs
       \/ /\ Pay("fail")
          /\ UNCHANGED blobs
    /\ UNCHANGED <<upload, rows, queue>>

\* The client of the DELETE disconnects: the directories that are left stay.
DeleteGone(v) ==
    /\ del[v] \in Directory
    /\ del' = [del EXCEPT ![v] = "idle"]
    /\ Pay("gone")
    /\ UNCHANGED <<upload, rows, queue, blobs>>

-----------------------------------------------------------------------------
\* The API process ends, or leaves a Shutdown that took longer than 10 s:
\* the requests in flight end where they are, those in storage.Upload too,
\* some of them with all of their file at the filer.
ApiCrash ==
    /\ \E sent \in SUBSET {v \in Video : upload[v] = "new"} :
        /\ sent # {} \/ \E v \in Video : upload[v] \in InFlight \/ del[v] # "idle"
        /\ upload' = [v \in Video |-> IF v \in sent THEN "unstored"
                                     ELSE IF upload[v] \in InFlight THEN "rejected" ELSE upload[v]]
        /\ originals' = originals \union sent
    /\ del' = [v \in Video |-> "idle"]
    /\ Pay("crash")
    /\ UNCHANGED <<rows, queue, hls, thumbs>>

\* What the handlers do of their own accord once a request is in flight.
UploadStep(v) ==
    CreateRow(v) \/ UndoStore(v) \/ Enqueue(v) \/ MarkEnqueueFailed(v)

ApiNext ==
    \/ \E v \in Video :
        \/ StoreOriginal(v) \/ UploadStep(v) \/ UploadGone(v)
        \/ DeleteRow(v) \/ DeleteDir(v) \/ DeleteGone(v)
    \/ ApiCrash
=============================================================================
