----------------------------- MODULE Transfers -----------------------------
(***************************************************************************)
(* The bytes of one original on their way: from a client through the       *)
(* upload handler into SeaweedFS, and back through the download handler,   *)
(* while the video may be deleted.  A peer takes or gives a chunk when it  *)
(* likes, or never; what ends a stalled transfer is one of three timeouts. *)
(* The calls that Pipeline models are one step here.                       *)
(***************************************************************************)
EXTENDS Naturals

CONSTANTS
    Form,           \* the forms that a client may send
    ReadTimeout,    \* of the API server: a request from its start to its end
    WriteTimeout,   \* of the API server: from a request to the end of its answer
    StorageTimeout, \* of the API's client of SeaweedFS: a call with its body
    Faults,         \* bound: how many calls and connections fail
    NoFile          \* nothing stored

\* What may be wrong with a form: there is no file in it, the file is larger
\* than MAX_UPLOAD_SIZE_GB, its extension is not allowed, the segments are no
\* JSON.
Wrong == {"file", "size", "ext", "segments"}

ASSUME FormAssumption == Form \subseteq [size : Nat, wrong : SUBSET Wrong]
ASSUME TimeoutAssumption ==
    ReadTimeout \in Nat /\ WriteTimeout \in Nat /\ StorageTimeout \in Nat
ASSUME FaultsAssumption == Faults \in Nat
ASSUME NoFileAssumption == NoFile \notin Nat

VARIABLES
    form,       \* what the client uploads; its size in chunks
    up,         \* where the upload request is
    lifted,     \* the deadline for its answer was cleared
    upMoved,    \* the chunks moved by its current stage
    pipe,       \* the goroutine that copies the file into a pipe, and how it ended
    wire,       \* the request to SeaweedFS that the pipe feeds
    told,       \* what the uploading client was told
    file,       \* the size of originals/<id>/... in SeaweedFS
    row,        \* column size_bytes
    deleting,   \* DELETE has removed the row ("row"), and the directory ("done")
    down,       \* where the download request is
    got,        \* the chunks the downloading client has
    length,     \* the Content-Length it was told; 0 when there is none
    view,       \* what it makes of the answer
    age,        \* how long the requests and their calls of SeaweedFS are old
    faults      \* the faults still to come

upVars == <<up, lifted, upMoved, pipe, wire, told>>
downVars == <<down, got, length, view>>
vars == <<form, upVars, file, row, deleting, downVars, age, faults>>

Clock == {"up", "store", "down", "fetch"}
Latest == ReadTimeout + WriteTimeout + StorageTimeout

Init ==
    /\ form \in Form
    /\ up = "new" /\ lifted = FALSE /\ upMoved = 0
    /\ pipe = "none" /\ wire = "none" /\ told = "nothing"
    /\ file = NoFile /\ row = NoFile /\ deleting = "no"
    /\ down = "new" /\ got = 0 /\ length = 0 /\ view = "nothing"
    /\ age = [c \in Clock |-> 0]
    /\ faults = Faults

Pay == faults > 0 /\ faults' = faults - 1
Free == UNCHANGED faults

Running(c) ==
    CASE c = "up"    -> up \notin {"new", "ended"}
      [] c = "store" -> up = "storing"
      [] c = "down"  -> down \notin {"new", "ended"}
      [] c = "fetch" -> down \in {"opening", "reading", "writing"}

\* Time passes for what is under way.
Tick ==
    /\ age' = [c \in Clock |->
                  IF age[c] < Latest /\ Running(c) THEN age[c] + 1 ELSE age[c]]
    /\ age' # age
    /\ UNCHANGED <<form, upVars, file, row, deleting, downVars, faults>>

-----------------------------------------------------------------------------
(* UploadHandler.Upload *)

UpStays == UNCHANGED <<form, downVars, age, deleting>>

\* The answer is written.  Past the deadline for it, it is lost, if there is one.
Tell(code) ==
    /\ up' = "ended"
    /\ told' = IF lifted \/ age["up"] < WriteTimeout THEN code ELSE "nothing"
    /\ UpStays
    /\ UNCHANGED <<lifted, upMoved, pipe>>

\* Mutant of StartUpload: the deadline of the server stays.
StartUploadTimed ==
    /\ up = "new"
    /\ up' = "receiving"
    /\ UpStays
    /\ UNCHANGED <<lifted, upMoved, pipe, wire, told, file, row, faults>>

\* Upload clears the deadline for its answer.
StartUpload ==
    /\ up = "new"
    /\ up' = "receiving"
    /\ lifted' = TRUE
    /\ UpStays
    /\ UNCHANGED <<upMoved, pipe, wire, told, file, row, faults>>

\* ParseMultipartForm reads another chunk of the body.
Receive ==
    /\ up = "receiving"
    /\ upMoved < form.size
    /\ age["up"] < ReadTimeout
    /\ upMoved' = upMoved + 1
    /\ UpStays
    /\ UNCHANGED <<up, lifted, pipe, wire, told, file, row, faults>>

\* It fails, on the timeout or because a temporary file cannot be written.
ReceiveFails ==
    /\ up = "receiving"
    /\ (age["up"] >= ReadTimeout /\ Free) \/ Pay
    /\ Tell("400")
    /\ UNCHANGED <<wire, file, row>>

\* The checks, which come after the whole body was read, in their order
Verdict ==
    IF "file" \in form.wrong THEN "400"
    ELSE IF "size" \in form.wrong THEN "413"
    ELSE IF form.wrong # {} THEN "400" ELSE "fine"

\* A form that is fine goes to SeaweedFS.Upload, which starts the goroutine
\* and the request.
CheckForm ==
    /\ up = "receiving"
    /\ upMoved = form.size
    /\ \/ Verdict # "fine" /\ Tell(Verdict) /\ UNCHANGED wire
       \/ /\ Verdict = "fine"
          /\ up' = "storing"
          /\ upMoved' = 0
          /\ pipe' = "open" /\ wire' = "open"
          /\ UpStays
          /\ UNCHANGED <<lifted, told>>
    /\ UNCHANGED <<file, row, faults>>

\* The deadline for reading also hits the server's look-out for the client to
\* hang up, which cancels the context of a request that is still being handled.
Cancelled == age["up"] >= ReadTimeout

\* A call made for the request fails: it was cancelled, or for another reason.
Fails == (Cancelled /\ Free) \/ Pay

PipeStays == UNCHANGED <<form, up, lifted, told, file, row, deleting, downVars, age>>

\* io.Copy writes another chunk into the pipe, and the request takes it.
StoreChunk ==
    /\ pipe = "open" /\ wire = "open"
    /\ upMoved < form.size
    /\ age["store"] < StorageTimeout
    /\ ~Cancelled
    /\ upMoved' = upMoved + 1
    /\ PipeStays
    /\ UNCHANGED <<pipe, wire, faults>>

\* All is copied: the form is closed, and the pipe without an error.
PipeEnds ==
    /\ pipe = "open"
    /\ upMoved = form.size
    /\ pipe' = "ended"
    /\ PipeStays
    /\ UNCHANGED <<upMoved, wire, faults>>

\* Mutant of PipeBreaks: the error of the copy is noted, and the form and the
\* pipe are closed as if all had been copied.
PipeBreaksEnded ==
    /\ pipe = "open"
    /\ (wire = "cut" /\ Free) \/ Pay
    /\ pipe' = "ended"
    /\ PipeStays
    /\ UNCHANGED <<upMoved, wire>>

\* The copy fails, because the file cannot be read or the request is over and
\* has closed its end of the pipe; the goroutine closes the pipe with the error.
PipeBreaks ==
    /\ pipe = "open"
    /\ (wire = "cut" /\ Free) \/ Pay
    /\ pipe' = "broken"
    /\ PipeStays
    /\ UNCHANGED <<upMoved, wire>>

\* The request comes to the end of the pipe and sends the end of its body.
SendEnd ==
    /\ wire = "open"
    /\ pipe = "ended"
    /\ wire' = "ended"
    /\ PipeStays
    /\ UNCHANGED <<upMoved, pipe, faults>>

\* SeaweedFS, which drops a body whose end it has not seen, stores what it got;
\* maybe only when the handler has given up.
FilerStores ==
    /\ wire = "ended"
    /\ wire' = "kept"
    /\ file' = upMoved
    /\ UNCHANGED <<form, up, lifted, upMoved, pipe, told, row, deleting, downVars, age, faults>>

\* The request is given up: the connection is cut, and with it the pipe.
Cuts == wire' = IF wire = "open" THEN "cut" ELSE wire

\* Mutant of StoreFails: no timeout ends the call.
StoreFailsLate ==
    /\ up = "storing"
    /\ (pipe = "broken" /\ Free) \/ Pay
    /\ Cuts
    /\ Tell("500")
    /\ UNCHANGED <<file, row>>

\* The call fails, at its own timeout too, or because the pipe was closed with
\* an error.
StoreFails ==
    /\ up = "storing"
    /\ Fails \/ ((age["store"] >= StorageTimeout \/ pipe = "broken") /\ Free)
    /\ Cuts
    /\ Tell("500")
    /\ UNCHANGED <<file, row>>

\* SeaweedFS answers.
StoreDone ==
    /\ up = "storing"
    /\ wire = "kept"
    /\ ~Cancelled
    /\ up' = "stored"
    /\ UpStays
    /\ UNCHANGED <<lifted, upMoved, pipe, wire, told, file, row, faults>>

\* CreateWithID and Enqueue
Register ==
    /\ up = "stored"
    /\ \/ ~Cancelled /\ Free /\ row' = form.size /\ UNCHANGED file /\ Tell("202")
       \/ Fails /\ file' = NoFile /\ UNCHANGED row /\ Tell("500")
       \/ Fails /\ row' = form.size /\ UNCHANGED file /\ Tell("500")
    /\ UNCHANGED wire

\* The client hangs up, and the handler fails at its next step.
UploaderGone ==
    /\ up \in {"receiving", "storing"}
    /\ up' = "ended"
    /\ Pay
    /\ Cuts
    /\ UpStays
    /\ UNCHANGED <<lifted, upMoved, pipe, told, file, row>>

-----------------------------------------------------------------------------
(* UploadHandler.DownloadOriginal and DeleteVideo *)

\* Past the deadline for the answer, what is still to be written is lost.
Ends(what) ==
    /\ down' = "ended"
    /\ view' \in IF age["down"] < WriteTimeout THEN {what} ELSE {what, "cut"}
    /\ UNCHANGED <<form, upVars, row, file, deleting, age, got>>

\* Mutant of ContentLength: no header is set.
ContentLengthUnset == 0

\* The size that FindByID returned; 0 is no header.
ContentLength == row

StartDownload ==
    /\ down = "new"
    /\ \/ row = NoFile /\ Ends("404") /\ UNCHANGED length
       \/ /\ row # NoFile
          /\ down' = "opening"
          /\ length' = ContentLength
          /\ UNCHANGED <<form, upVars, row, file, deleting, age, got, view>>
    /\ UNCHANGED faults

\* SeaweedFS.Download: a file that is gone is an internal error.
Open ==
    /\ down = "opening"
    /\ file # NoFile
    /\ down' = "reading"
    /\ UNCHANGED <<form, upVars, row, file, deleting, age, got, length, view, faults>>

OpenFails ==
    /\ down = "opening"
    /\ ((file = NoFile \/ age["fetch"] >= StorageTimeout) /\ Free) \/ Pay
    /\ Ends("500")
    /\ UNCHANGED length

\* Mutant of ReadChunk: a read after the end yields one more chunk.
ReadChunkOn ==
    /\ down = "reading"
    /\ file # NoFile
    /\ got <= file
    /\ age["fetch"] < StorageTimeout
    /\ down' = "writing"
    /\ UNCHANGED <<form, upVars, row, file, deleting, got, length, view, age, faults>>

\* io.Copy gets a chunk from SeaweedFS.
ReadChunk ==
    /\ down = "reading"
    /\ file # NoFile
    /\ got < file
    /\ age["fetch"] < StorageTimeout
    /\ down' = "writing"
    /\ UNCHANGED <<form, upVars, row, file, deleting, got, length, view, age, faults>>

\* The client takes the chunk.
WriteChunk ==
    /\ down = "writing"
    /\ age["down"] < WriteTimeout
    /\ got' = got + 1
    /\ down' = "reading"
    /\ UNCHANGED <<form, upVars, row, file, deleting, length, view, age, faults>>

\* io.Copy comes to the end, or to an error of SeaweedFS that nobody looks
\* at: to the server, the answer is complete either way, unless fewer bytes
\* were written than it had announced.
CopyEnds ==
    /\ down = "reading"
    /\ \/ got = file /\ Free
       \/ file = NoFile /\ Free
       \/ age["fetch"] >= StorageTimeout /\ Free
       \/ Pay
    /\ Ends(IF got < length THEN "cut" ELSE "whole")
    /\ UNCHANGED length

\* A write past the deadline for the answer fails.
WriteTimesOut ==
    /\ down = "writing"
    /\ age["down"] >= WriteTimeout
    /\ Ends("cut")
    /\ UNCHANGED <<length, faults>>

\* DELETE removes the row first and then the directory.
DeleteRow ==
    /\ row # NoFile
    /\ row' = NoFile
    /\ deleting' = "row"
    /\ UNCHANGED <<form, upVars, file, downVars, age, faults>>

DeleteFile ==
    /\ deleting = "row"
    /\ deleting' = "done"
    /\ file' = NoFile
    /\ UNCHANGED <<form, upVars, row, downVars, age, faults>>

-----------------------------------------------------------------------------
\* What the handlers do whether or not the client and SeaweedFS go on
HandlesUpload == ReceiveFails \/ CheckForm \/ StoreFails \/ Register
Copies == PipeEnds \/ PipeBreaks
HandlesDownload == OpenFails \/ CopyEnds \/ WriteTimesOut

Next ==
    \/ Tick \/ StartUpload \/ Receive \/ UploaderGone \/ HandlesUpload
    \/ StoreChunk \/ Copies \/ SendEnd \/ FilerStores \/ StoreDone
    \/ StartDownload \/ Open \/ ReadChunk \/ WriteChunk \/ HandlesDownload
    \/ DeleteRow \/ DeleteFile

Spec == Init /\ [][Next]_vars

\* Time goes on, and so do the goroutines of the two handlers, whose calls of
\* the database and the queue return, and the one that copies.  Neither peer
\* has to take or give another chunk, and nobody has to fail.
Fairness ==
    /\ WF_vars(Tick)
    /\ WF_vars(HandlesUpload /\ Free)
    /\ WF_vars(Copies /\ Free)
    /\ WF_vars(HandlesDownload /\ Free)

FairSpec == Spec /\ Fairness

-----------------------------------------------------------------------------
TypeOK ==
    /\ form \in Form
    /\ up \in {"new", "receiving", "storing", "stored", "ended"}
    /\ lifted \in BOOLEAN
    /\ pipe \in {"none", "open", "ended", "broken"}
    /\ wire \in {"none", "open", "ended", "kept", "cut"}
    /\ upMoved \in 0..form.size
    /\ file \in Nat \union {NoFile} /\ row \in Nat \union {NoFile}
    /\ deleting \in {"no", "row", "done"}
    /\ told \in {"nothing", "202", "400", "413", "500"}
    /\ down \in {"new", "opening", "reading", "writing", "ended"}
    /\ got \in 0..form.size /\ length \in 0..form.size
    /\ view \in {"nothing", "404", "500", "cut", "whole"}
    /\ age \in [Clock -> 0..Latest]
    /\ faults \in 0..Faults

(***************************************************************************)
(* What is stored as an original is all of the file that was uploaded: the *)
(* end of the copy into the pipe, the end of the request that the pipe     *)
(* feeds and a handler that gives up on a timeout meet in any order, and a *)
(* transfer that breaks off half way leaves nothing.                       *)
(***************************************************************************)
StoredWhole == file \in {NoFile, form.size}

(***************************************************************************)
(* A client that stayed on the line learns what became of its upload,      *)
(* however long that took and whichever timeout it ran into: 202 says that *)
(* the whole file and its row are there until it is deleted, 400 and 413   *)
(* that nothing was kept and nothing is still being sent.                  *)
(***************************************************************************)
AnswerIsTrue ==
    /\ up = "ended" /\ faults = Faults => told # "nothing"
    /\ told = "202" /\ deleting = "no" => row = form.size /\ file = form.size
    /\ told \in {"400", "413"} => row = NoFile /\ file = NoFile /\ wire = "none"

(***************************************************************************)
(* A client that takes its download for complete has the whole file,       *)
(* whatever cut it short: the handler looks at no error of the copy, and   *)
(* the length it announced is all that tells.                              *)
(***************************************************************************)
WholeIsWhole == view = "whole" => got = form.size

(***************************************************************************)
(* Both requests come to an end, although a client or SeaweedFS may stop   *)
(* in the middle of a file for good, and so does the goroutine that copies *)
(* the file, which nobody waits for.                                       *)
(***************************************************************************)
TransfersEnd ==
    /\ pipe = "open" ~> pipe # "open"
    /\ up # "new" ~> up = "ended"
    /\ down # "new" ~> down = "ended"

(***************************************************************************)
(* openapi.yaml says of a download that it streams the original: one that  *)
(* no failure and no DELETE gets in the way of is complete.                *)
(***************************************************************************)
DownloadCompletes == view = "cut" => faults < Faults \/ file = NoFile
=============================================================================
