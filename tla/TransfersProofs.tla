-------------------------- MODULE TransfersProofs --------------------------
(***************************************************************************)
(* Theorems about Transfers for files of every size, all timeouts and any  *)
(* number of faults.                                                       *)
(***************************************************************************)
EXTENDS Transfers, TLAPS

\* How far an upload that has not ended can be: nothing is registered, and
\* until the form was checked, nothing is sent.
StageInv ==
    /\ up # "new" => lifted
    /\ up # "ended" => told = "nothing" /\ row = NoFile /\ deleting = "no"
    /\ up \in {"new", "receiving"} => pipe = "none" /\ wire = "none" /\ file = NoFile
    /\ up = "storing" /\ wire = "kept" => file = form.size
    /\ up = "stored" => wire = "kept" /\ file = form.size

\* The end of the body is sent only behind an end of the pipe without an error,
\* which comes only behind the last chunk.
PipeInv ==
    /\ pipe = "ended" => upMoved = form.size
    /\ wire \in {"ended", "kept"} => pipe = "ended"

\* The row is that of the whole file.
RowInv == row \in {NoFile, form.size}

\* A download that runs was told the size of the row, and has got no verdict.
DownloadInv ==
    /\ down \in {"opening", "reading", "writing"} => length = form.size
    /\ down = "writing" => got < form.size
    /\ down # "ended" => view = "nothing"

TransfersInv ==
    /\ TypeOK
    /\ StageInv
    /\ PipeInv
    /\ RowInv
    /\ DownloadInv
    /\ StoredWhole
    /\ AnswerIsTrue
    /\ WholeIsWhole

\* What is said of the upload, and of what it leaves in the store and the table
UploadInv == StageInv /\ PipeInv /\ RowInv /\ StoredWhole /\ AnswerIsTrue

\* The numbers among the variables and constants
LEMMA Numbers ==
    ASSUME TypeOK
    PROVE  /\ form \in Form /\ form.size \in Nat /\ form.size # NoFile
           /\ upMoved \in Nat /\ got \in Nat /\ length \in Nat
           /\ faults \in Nat /\ Faults \in Nat /\ faults <= Faults
  BY FormAssumption, FaultsAssumption, NoFileAssumption DEF TypeOK

\* A fault is spent for good.
LEMMA PayCounts ==
    ASSUME TypeOK, Pay
    PROVE  faults' \in 0..Faults /\ faults' # Faults
  BY Numbers DEF Pay, TypeOK

\* What does not touch the download keeps what is said of it.
LEMMA DownloadStays ==
    ASSUME TransfersInv, UNCHANGED <<form, downVars>>
    PROVE  DownloadInv' /\ WholeIsWhole'
  BY DEF TransfersInv, DownloadInv, WholeIsWhole, downVars

\* Nor does what leaves the upload alone, whatever it costs, harm the upload.
LEMMA UploadStays ==
    ASSUME TransfersInv, UNCHANGED <<form, upVars, file, row, deleting>>,
           faults' = faults \/ faults' # Faults
    PROVE  UploadInv'
  <1>1. StageInv' /\ PipeInv' /\ RowInv' /\ StoredWhole'
    BY DEF TransfersInv, StageInv, PipeInv, RowInv, StoredWhole, upVars
  <1>2. AnswerIsTrue'
    BY DEF TransfersInv, AnswerIsTrue, upVars
  <1> QED BY <1>1, <1>2 DEF UploadInv

-----------------------------------------------------------------------------
\* The invariant holds at first.
LEMMA TransfersInit ==
    ASSUME Init
    PROVE  TransfersInv
  <1>1. form \in Form /\ form.size \in Nat
    BY FormAssumption DEF Init
  <1>2. TypeOK
    <2>1. Latest \in Nat
      BY TimeoutAssumption DEF Latest
    <2>2. 0 \in 0..Latest /\ 0 \in 0..form.size /\ Faults \in 0..Faults
      BY <1>1, <2>1, FaultsAssumption
    <2>3. age \in [Clock -> 0..Latest]
      BY <2>2 DEF Init
    <2> QED BY <1>1, <2>2, <2>3 DEF Init, TypeOK
  <1>3. StageInv /\ PipeInv /\ RowInv /\ StoredWhole /\ AnswerIsTrue
    BY DEF Init, StageInv, PipeInv, RowInv, StoredWhole, AnswerIsTrue
  <1>4. DownloadInv /\ WholeIsWhole
    BY DEF Init, DownloadInv, WholeIsWhole
  <1> QED BY <1>2, <1>3, <1>4 DEF TransfersInv

\* Time does no harm.
LEMMA TickKeeps ==
    ASSUME TransfersInv, Tick
    PROVE  TransfersInv'
  <1>1. age' \in [Clock -> 0..Latest]
    <2>1. age \in [Clock -> 0..Latest] /\ Latest \in Nat
      BY TimeoutAssumption DEF TransfersInv, TypeOK, Latest
    <2>2. \A c \in Clock : age[c] < Latest => age[c] + 1 \in 0..Latest
      BY <2>1
    <2> QED BY <2>1, <2>2 DEF Tick
  <1>2. TypeOK'
    BY <1>1 DEF TransfersInv, TypeOK, Tick, upVars, downVars
  <1>3. UploadInv' /\ DownloadInv' /\ WholeIsWhole'
    BY UploadStays, DownloadStays DEF Tick
  <1> QED BY <1>2, <1>3 DEF TransfersInv, UploadInv

-----------------------------------------------------------------------------
\* The types of what an upload changes are enough for all types.
LEMMA UploadTypes ==
    ASSUME TypeOK,
           UNCHANGED <<form, downVars, age>>,
           up' \in {"new", "receiving", "storing", "stored", "ended"},
           lifted' \in BOOLEAN,
           pipe' \in {"none", "open", "ended", "broken"},
           wire' \in {"none", "open", "ended", "kept", "cut"},
           upMoved' \in 0..form.size,
           told' \in {"nothing", "202", "400", "413", "500"},
           file' \in {NoFile, form.size}, row' \in {NoFile, form.size},
           deleting' \in {"no", "row", "done"},
           faults' \in 0..Faults
    PROVE  TypeOK'
  BY Numbers DEF TypeOK, downVars

\* An answer is told once the deadline for it was lifted.
LEMMA TellTells ==
    ASSUME StageInv, up # "new", NEW code, Tell(code)
    PROVE  /\ up' = "ended" /\ told' = code
           /\ UNCHANGED <<lifted, upMoved, pipe, form, downVars, age, deleting>>
  BY DEF StageInv, Tell, UpStays

\* An upload that ends without a row, neither at a check of the form nor
\* before the file was sent, keeps the invariant.
LEMMA EndKeeps ==
    ASSUME TransfersInv,
           up \in {"receiving", "storing", "stored"},
           up' = "ended", told' \in {"nothing", "500"},
           told' = "nothing" => faults' # Faults,
           wire' = wire \/ wire' = "cut",
           file' \in {NoFile, form.size}, row' \in {NoFile, form.size},
           faults' \in 0..Faults,
           UNCHANGED <<lifted, upMoved, pipe, form, downVars, age, deleting>>
    PROVE  TransfersInv'
  <1>1. TypeOK'
    BY UploadTypes DEF TransfersInv, TypeOK
  <1>2. StageInv' /\ PipeInv' /\ RowInv' /\ StoredWhole' /\ AnswerIsTrue'
    BY Numbers DEF TransfersInv, StageInv, PipeInv, RowInv, StoredWhole, AnswerIsTrue
  <1> QED BY <1>1, <1>2, DownloadStays DEF TransfersInv

\* The handler's steps up to the call of the store
LEMMA ReceiveSteps ==
    ASSUME TransfersInv, StartUpload \/ Receive \/ ReceiveFails \/ CheckForm
    PROVE  TransfersInv'
  <1> USE DEF Free
  <1>0. /\ TypeOK /\ StageInv /\ form.size \in Nat /\ form.size # NoFile
        /\ upMoved \in 0..form.size /\ lifted \in BOOLEAN
        /\ told \in {"nothing", "202", "400", "413", "500"}
        /\ file \in {NoFile, form.size} /\ row \in {NoFile, form.size}
        /\ deleting \in {"no", "row", "done"}
        /\ pipe \in {"none", "open", "ended", "broken"}
        /\ wire \in {"none", "open", "ended", "kept", "cut"}
        /\ faults \in 0..Faults
    BY Numbers DEF TransfersInv, TypeOK, StoredWhole, RowInv
  <1>1. CASE StartUpload \/ Receive
    <2>1. upMoved' \in 0..form.size
      BY <1>0, <1>1 DEF StartUpload, Receive
    <2>2. TypeOK'
      BY <1>0, <1>1, <2>1, UploadTypes DEF StartUpload, Receive, UpStays
    <2>3. StageInv' /\ PipeInv' /\ RowInv' /\ StoredWhole' /\ AnswerIsTrue'
      BY <1>0, <1>1 DEF StartUpload, Receive, UpStays, TransfersInv, StageInv, PipeInv, RowInv,
                        StoredWhole, AnswerIsTrue
    <2> QED BY <1>1, <2>2, <2>3, DownloadStays DEF TransfersInv, StartUpload, Receive, UpStays
  \* A check that fails answers 400 or 413, with nothing kept.
  <1>2. ASSUME NEW code \in {"400", "413"}, up = "receiving", Tell(code),
               UNCHANGED <<wire, file, row>>, faults' \in 0..Faults
        PROVE  TransfersInv'
    <2>1. /\ up' = "ended" /\ told' = code
          /\ UNCHANGED <<lifted, upMoved, pipe, form, downVars, age, deleting>>
      BY <1>0, <1>2, TellTells
    <2>2. TypeOK'
      BY <1>0, <1>2, <2>1, UploadTypes
    <2>3. StageInv' /\ PipeInv' /\ RowInv' /\ StoredWhole' /\ AnswerIsTrue'
      BY <1>0, <1>2, <2>1 DEF TransfersInv, StageInv, PipeInv, RowInv, StoredWhole, AnswerIsTrue
    <2> QED BY <2>1, <2>2, <2>3, DownloadStays DEF TransfersInv
  <1>3. CASE ReceiveFails
    BY <1>0, <1>2, <1>3, PayCounts DEF ReceiveFails
  <1>4. CASE CheckForm
    <2>1. Verdict \in {"400", "413", "fine"}
      BY DEF Verdict
    <2>2. CASE Verdict # "fine"
      BY <1>0, <1>2, <1>4, <2>1, <2>2 DEF CheckForm
    <2>3. CASE Verdict = "fine"
      <3>1. /\ up = "receiving" /\ up' = "storing" /\ upMoved' = 0
            /\ pipe' = "open" /\ wire' = "open"
            /\ UNCHANGED <<lifted, told, file, row, faults, form, downVars, age, deleting>>
        BY <1>4, <2>3 DEF CheckForm, UpStays
      <3>2. TypeOK'
        BY <1>0, <3>1, UploadTypes
      <3>3. StageInv' /\ PipeInv' /\ RowInv' /\ StoredWhole' /\ AnswerIsTrue'
        BY <1>0, <3>1 DEF TransfersInv, StageInv, PipeInv, RowInv, StoredWhole, AnswerIsTrue
      <3> QED BY <3>1, <3>2, <3>3, DownloadStays DEF TransfersInv
    <2> QED BY <2>2, <2>3
  <1> QED BY <1>1, <1>3, <1>4

\* The goroutine with its pipe, the request that it feeds, and SeaweedFS
LEMMA PipeSteps ==
    ASSUME TransfersInv, StoreChunk \/ Copies \/ SendEnd \/ FilerStores
    PROVE  TransfersInv'
  <1> USE DEF Free
  <1>0. /\ TypeOK /\ form.size \in Nat /\ form.size # NoFile
        /\ upMoved \in 0..form.size /\ lifted \in BOOLEAN
        /\ up \in {"new", "receiving", "storing", "stored", "ended"}
        /\ told \in {"nothing", "202", "400", "413", "500"}
        /\ file \in {NoFile, form.size} /\ row \in {NoFile, form.size}
        /\ deleting \in {"no", "row", "done"}
        /\ pipe \in {"none", "open", "ended", "broken"}
        /\ wire \in {"none", "open", "ended", "kept", "cut"}
        /\ faults \in 0..Faults
    BY Numbers DEF TransfersInv, TypeOK, StoredWhole, RowInv
  <1>1. CASE StoreChunk
    <2>1. upMoved' \in 0..form.size
      BY <1>0, <1>1 DEF StoreChunk
    <2>2. TypeOK'
      BY <1>0, <1>1, <2>1, UploadTypes DEF StoreChunk, PipeStays
    <2>3. StageInv' /\ PipeInv' /\ RowInv' /\ StoredWhole' /\ AnswerIsTrue'
      BY <1>0, <1>1 DEF StoreChunk, PipeStays, TransfersInv, StageInv, PipeInv, RowInv, StoredWhole,
                        AnswerIsTrue
    <2> QED BY <1>1, <2>2, <2>3, DownloadStays DEF TransfersInv, StoreChunk, PipeStays
  <1>2. CASE Copies
    <2>1. faults' \in 0..Faults /\ (faults' = faults \/ faults' # Faults)
      BY <1>0, <1>2, PayCounts DEF Copies, PipeEnds, PipeBreaks
    <2>2. TypeOK'
      BY <1>0, <1>2, <2>1, UploadTypes DEF Copies, PipeEnds, PipeBreaks, PipeStays
    <2>3. StageInv' /\ PipeInv' /\ RowInv' /\ StoredWhole' /\ AnswerIsTrue'
      BY <1>0, <1>2, <2>1 DEF Copies, PipeEnds, PipeBreaks, PipeStays, TransfersInv, StageInv, PipeInv,
                              RowInv, StoredWhole, AnswerIsTrue
    <2> QED BY <1>2, <2>2, <2>3, DownloadStays DEF TransfersInv, Copies, PipeEnds, PipeBreaks, PipeStays
  <1>3. CASE SendEnd
    <2>1. TypeOK'
      BY <1>0, <1>3, UploadTypes DEF SendEnd, PipeStays
    <2>2. StageInv' /\ PipeInv' /\ RowInv' /\ StoredWhole' /\ AnswerIsTrue'
      BY <1>0, <1>3 DEF SendEnd, PipeStays, TransfersInv, StageInv, PipeInv, RowInv, StoredWhole,
                        AnswerIsTrue
    <2> QED BY <1>3, <2>1, <2>2, DownloadStays DEF TransfersInv, SendEnd, PipeStays
  <1>4. CASE FilerStores
    <2>1. file' = form.size
      BY <1>4 DEF FilerStores, TransfersInv, PipeInv
    <2>2. TypeOK'
      BY <1>0, <1>4, <2>1, UploadTypes DEF FilerStores
    <2>3. StageInv' /\ PipeInv' /\ RowInv' /\ StoredWhole' /\ AnswerIsTrue'
      BY <1>0, <1>4, <2>1 DEF FilerStores, TransfersInv, StageInv, PipeInv, RowInv, StoredWhole,
                              AnswerIsTrue
    <2> QED BY <1>4, <2>2, <2>3, DownloadStays DEF TransfersInv, FilerStores
  <1> QED BY <1>1, <1>2, <1>3, <1>4

\* The handler's steps from the call of the store on
LEMMA StoreSteps ==
    ASSUME TransfersInv, StoreFails \/ StoreDone \/ Register \/ UploaderGone
    PROVE  TransfersInv'
  <1> USE DEF Free
  <1>0. /\ TypeOK /\ StageInv /\ form.size \in Nat /\ form.size # NoFile
        /\ upMoved \in 0..form.size /\ lifted \in BOOLEAN
        /\ told \in {"nothing", "202", "400", "413", "500"}
        /\ file \in {NoFile, form.size} /\ row \in {NoFile, form.size}
        /\ deleting \in {"no", "row", "done"}
        /\ pipe \in {"none", "open", "ended", "broken"}
        /\ wire \in {"none", "open", "ended", "kept", "cut"}
        /\ faults \in 0..Faults
    BY Numbers DEF TransfersInv, TypeOK, StoredWhole, RowInv
  <1>1. CASE StoreFails
    <2>1. /\ up = "storing" /\ up' = "ended" /\ told' = "500"
          /\ UNCHANGED <<lifted, upMoved, pipe, form, downVars, age, deleting>>
      BY <1>0, <1>1, TellTells DEF StoreFails
    <2>2. faults' \in 0..Faults
      BY <1>0, <1>1, PayCounts DEF StoreFails, Fails
    <2> QED BY <1>0, <1>1, <2>1, <2>2, EndKeeps DEF StoreFails, Cuts
  <1>2. CASE StoreDone
    <2>1. up = "storing" /\ wire = "kept"
      BY <1>2 DEF StoreDone
    <2>2. file = form.size
      BY <1>0, <2>1 DEF StageInv
    <2>3. TypeOK'
      BY <1>0, <1>2, UploadTypes DEF StoreDone, UpStays
    <2>4. StageInv' /\ PipeInv' /\ RowInv' /\ StoredWhole' /\ AnswerIsTrue'
      BY <1>0, <1>2, <2>2 DEF StoreDone, UpStays, TransfersInv, StageInv, PipeInv, RowInv, StoredWhole,
                              AnswerIsTrue
    <2> QED BY <1>2, <2>3, <2>4, DownloadStays DEF TransfersInv, StoreDone, UpStays
  <1>3. CASE Register
    <2>1. PICK code \in {"202", "500"} :
            /\ Tell(code)
            /\ file' \in {NoFile, form.size} /\ row' \in {NoFile, form.size}
            /\ code = "202" => row' = form.size /\ file' = file
            /\ faults' \in 0..Faults
      BY <1>0, <1>3, PayCounts DEF Register, Fails
    <2>2. /\ up = "stored" /\ up' = "ended" /\ told' = code /\ wire' = wire /\ file = form.size
          /\ UNCHANGED <<lifted, upMoved, pipe, form, downVars, age, deleting>>
      BY <1>0, <1>3, <2>1, TellTells DEF Register, StageInv
    <2>3. CASE code = "500"
      BY <1>0, <2>1, <2>2, <2>3, EndKeeps
    <2>4. CASE code = "202"
      <3>1. TypeOK'
        BY <1>0, <2>1, <2>2, <2>4, UploadTypes
      <3>2. StageInv' /\ PipeInv' /\ RowInv' /\ StoredWhole' /\ AnswerIsTrue'
        BY <1>0, <2>1, <2>2, <2>4 DEF TransfersInv, StageInv, PipeInv, RowInv, StoredWhole, AnswerIsTrue
      <3> QED BY <2>2, <3>1, <3>2, DownloadStays DEF TransfersInv
    <2> QED BY <2>1, <2>3, <2>4
  <1>4. CASE UploaderGone
    <2>1. /\ up \in {"receiving", "storing"} /\ up' = "ended" /\ told' = "nothing"
          /\ UNCHANGED <<lifted, upMoved, pipe, file, row, form, downVars, age, deleting>>
      BY <1>0, <1>4 DEF UploaderGone, UpStays, StageInv
    <2>2. faults' \in 0..Faults /\ faults' # Faults
      BY <1>0, <1>4, PayCounts DEF UploaderGone
    <2> QED BY <1>0, <1>4, <2>1, <2>2, EndKeeps DEF UploaderGone, Cuts
  <1> QED BY <1>1, <1>2, <1>3, <1>4

-----------------------------------------------------------------------------
\* The steps of a download: no fault makes up for an answer.
LEMMA DownloadKeeps ==
    ASSUME TransfersInv,
           UNCHANGED <<form, upVars, row, file, deleting, age>>,
           down' \in {"opening", "reading", "writing", "ended"},
           got' \in 0..form.size,
           down' = "writing" => got' < form.size,
           length' = form.size \/ (down' = "ended" /\ length' = length),
           faults' = faults \/ (faults' \in 0..Faults /\ faults' # Faults),
           view' \in {"nothing", "404", "500", "cut", "whole"},
           down' # "ended" => view' = "nothing",
           view' = "whole" => got' = form.size
    PROVE  TransfersInv'
  <1>1. TypeOK'
    BY Numbers DEF TransfersInv, TypeOK, upVars
  <1>2. DownloadInv' /\ WholeIsWhole'
    BY DEF TransfersInv, DownloadInv, WholeIsWhole
  <1>3. UploadInv'
    BY UploadStays
  <1> QED BY <1>1, <1>2, <1>3 DEF TransfersInv, UploadInv

\* Every action of the download keeps the invariant.
LEMMA DownloadSteps ==
    ASSUME TransfersInv, StartDownload \/ Open \/ ReadChunk \/ WriteChunk \/ HandlesDownload
    PROVE  TransfersInv'
  <1> USE DEF Free
  <1>0. /\ TypeOK /\ form.size \in Nat /\ form.size # NoFile /\ got \in 0..form.size
        /\ file \in {NoFile, form.size} /\ row \in {NoFile, form.size}
        /\ down \in {"opening", "reading", "writing"} => length = form.size
        /\ down = "writing" => got < form.size
        /\ down # "ended" => view = "nothing"
    BY Numbers DEF TransfersInv, TypeOK, StoredWhole, RowInv, DownloadInv
  <1>1. CASE StartDownload
    BY <1>0, <1>1, DownloadKeeps DEF StartDownload, ContentLength, Ends
  <1>2. CASE Open
    BY <1>0, <1>2, DownloadKeeps DEF Open
  <1>3. CASE ReadChunk
    BY <1>0, <1>3, DownloadKeeps DEF ReadChunk
  <1>4. CASE WriteChunk
    <2>1. got' \in 0..form.size
      BY <1>0, <1>4 DEF WriteChunk
    <2> QED BY <1>0, <1>4, <2>1, DownloadKeeps DEF WriteChunk
  <1>5. CASE OpenFails
    BY <1>0, <1>5, PayCounts, DownloadKeeps DEF OpenFails, Ends
  <1>6. CASE CopyEnds
    <2>1. view' = "whole" => got = form.size
      BY <1>0, <1>6 DEF CopyEnds, Ends
    <2>2. view' \in {"cut", "whole"}
      BY <1>6 DEF CopyEnds, Ends
    <2>3. /\ down' = "ended" /\ length' = length /\ got' = got
          /\ UNCHANGED <<form, upVars, row, file, deleting, age>>
      BY <1>6 DEF CopyEnds, Ends
    <2>4. faults' = faults \/ Pay
      BY <1>6 DEF CopyEnds
    <2> QED BY <1>0, <2>1, <2>2, <2>3, <2>4, PayCounts, DownloadKeeps
  <1>7. CASE WriteTimesOut
    BY <1>0, <1>7, DownloadKeeps DEF WriteTimesOut, Ends
  <1> QED BY <1>1, <1>2, <1>3, <1>4, <1>5, <1>6, <1>7 DEF HandlesDownload

\* And DELETE.
LEMMA DeleteSteps ==
    ASSUME TransfersInv, DeleteRow \/ DeleteFile
    PROVE  TransfersInv'
  <1>1. TypeOK'
    BY DEF TransfersInv, TypeOK, DeleteRow, DeleteFile, upVars, downVars
  <1>2. up = "ended"
    <2>1. CASE DeleteRow
      BY <2>1 DEF DeleteRow, TransfersInv, StageInv
    <2>2. CASE DeleteFile
      BY <2>2 DEF DeleteFile, TransfersInv, StageInv
    <2> QED BY <2>1, <2>2
  <1>3. StageInv' /\ PipeInv' /\ RowInv' /\ StoredWhole' /\ AnswerIsTrue'
    BY <1>2 DEF TransfersInv, StageInv, PipeInv, RowInv, StoredWhole, AnswerIsTrue, DeleteRow,
                DeleteFile, upVars
  <1>4. DownloadInv' /\ WholeIsWhole'
    BY DownloadStays DEF DeleteRow, DeleteFile
  <1> QED BY <1>1, <1>3, <1>4 DEF TransfersInv

LEMMA TransfersStep ==
    ASSUME TransfersInv, [Next]_vars
    PROVE  TransfersInv'
  <1>1. CASE UNCHANGED vars
    <2>1. TypeOK'
      BY <1>1 DEF vars, upVars, downVars, TransfersInv, TypeOK
    <2>2. UploadInv' /\ DownloadInv' /\ WholeIsWhole'
      BY <1>1, UploadStays, DownloadStays DEF vars
    <2> QED BY <2>1, <2>2 DEF TransfersInv, UploadInv
  <1> QED
    BY <1>1, TickKeeps, ReceiveSteps, PipeSteps, StoreSteps, DownloadSteps, DeleteSteps
    DEF Next, HandlesUpload

(***************************************************************************)
(* The invariant of the transfers holds for all sizes and timeouts.        *)
(***************************************************************************)
THEOREM TransfersInvariant == Spec => []TransfersInv
  BY TransfersInit, TransfersStep, PTL DEF Spec

(***************************************************************************)
(* The variables have their types.                                         *)
(***************************************************************************)
THEOREM TypeCorrect == Spec => []TypeOK
  BY TransfersInvariant, PTL DEF TransfersInv

(***************************************************************************)
(* An original is stored whole or not at all: whatever the copy, the       *)
(* request and the handler run into, and in whatever order they notice,    *)
(* the end of the body is sent only behind the last chunk.                 *)
(***************************************************************************)
THEOREM StoredCorrect == Spec => []StoredWhole
  BY TransfersInvariant, PTL DEF TransfersInv

(***************************************************************************)
(* A client that stays on the line gets an answer, whatever times out, and *)
(* it is true of the row, the file and the request to SeaweedFS.           *)
(***************************************************************************)
THEOREM AnswerCorrect == Spec => []AnswerIsTrue
  BY TransfersInvariant, PTL DEF TransfersInv

(***************************************************************************)
(* A download that looks complete is complete, although the handler drops  *)
(* the error of the copy: the length it announced is that of the file.     *)
(***************************************************************************)
THEOREM WholeCorrect == Spec => []WholeIsWhole
  BY TransfersInvariant, PTL DEF TransfersInv
=============================================================================
