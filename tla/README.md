# EvadePlayer in TLA+

A specification of the EvadePlayer backend: what its two Go programs do to the
state they share, checked with TLC on small instances and, for the results named
below, proved with TLAPS for every instance.

## The system

Two programs, which never talk to each other, only to the same three services.

| Part | Source | State it keeps | Operations |
|---|---|---|---|
| PostgreSQL, table `videos` | `migrations/`, `api/internal/repository` | one row per video: `status`, `progress`, `duration`, tracks | INSERT, DELETE, UPDATEs by id |
| Redis list | `api/internal/queue`, `worker.go` | FIFO of transcode tasks | LPUSH (API), BRPOP (worker) |
| SeaweedFS filer | `api/internal/storage`, `transcoder/internal/storage` | `originals/<id>`, `hls/<id>/…`, `thumbnails/<id>` | upload, download, delete, delete directory |
| API: upload, delete | `service/upload.go`, `handler/upload.go` | the requests in flight | store original, insert row, enqueue; delete row, delete three directories |
| API: download | `handler/upload.go`, `storage/seaweedfs.go` | the bytes on their way, the timeouts of the server | stream an original |
| API: reading | `service/video.go`, `handler/video.go` | the sprite grid read at the start | video, list, status, storyboard, segments |
| API: playback | `handler/hls_manifest.go`, `handler/hls_auth.go`, `nginx/nginx.conf` | none (the token carries the expiry) | manifest proxy, codec filter, token check for nginx |
| Transcoder: worker | `worker/worker.go`, `cmd/transcoder` | popped task, jobs under a semaphore, work directories | pop, start job, the stages of `process`, shutdown |
| Transcoder: ffmpeg | `ffmpeg/transcoder.go`, `ffmpeg/thumbnail.go` | files of the work directory | probe, transcode per codec, tracks, preview, sprite, master playlist |

What is hard here: the upload handler makes three calls to three services with no
transaction around them; a task leaves Redis before it is worked on; the row can
be deleted while its job runs; replies can be lost after the call took effect;
shutdown cancels the very context under which errors are recorded; two jobs for
one video would share a work directory, and a directory that could not be removed is
found by the next job; the copy of an upload, the request that it feeds and the handler
end in any order; the API computes cues into a sprite that
the other program laid out from settings of its own; three timeouts of different
lengths end transfers half way; pages are offsets into a table that changes.
`PROJECT.json` lists these hazards line by
line with the properties that cover them.

What makes the parts correct: a row names an original that exists; `ready` means
the whole stream is stored; a status moves in order and settles; progress is not
ahead of the work; a failing call ends in `failed` and cannot strand a row; no
directory, job or shutdown hangs around; a cue shows the frame of its time; half a
file is never taken for a whole one; a page has the rows that belong there.

## Modules

| Module | Models | Extends |
|---|---|---|
| `Services` | the table, the list and the files, and the outcomes of every call to them | |
| `UploadApi` | `UploadService.Upload` and `DeleteVideo`, one action per call to a service | `Services` |
| `Transcoder` | `Worker.Run`, `process` and `uploadHLS`, one action per stage; SIGTERM, crash, restart | `Services` |
| `Pipeline` | both programs together, fairness, the properties of the whole | `UploadApi`, `Transcoder` |
| `VideoLifecycle` | the abstract specification: status and stored stream of each video | |
| `Transcode` | one job from `TranscodeHLS` to `uploadHLS` in detail: goroutines, what is skipped, the master playlist | |
| `StreamJob` | the abstract specification of a job: playlists are made, closed off by a master playlist, then stored or given up | |
| `Playback` | from `GET /videos/{id}` to the last segment: manifest proxy, token, codec filter | |
| `Storyboard` | both programs' view of the sprite: settings, preview, sprite, image playlist, their uploads, the cues of `GET /videos/{id}/storyboard` | |
| `Listing` | `ListVideos` and `List`, and a client that walks through the pages | |
| `Transfers` | the bytes of an upload and of a download, the form's checks, the timeouts | |
| `MCPipeline`, `MCTranscode`, `MCPlayback`, `MCStoryboard`, `MCListing`, `MCTransfers` | values for TLC | the module of that name |
| `PipelineProofs`, `RowsProofs`, `LifecycleProofs` | theorems about `Pipeline` | `Pipeline`, then each the one before it |
| `TranscodeProofs`, `StoryboardProofs`, `TransfersProofs`, `PlaybackProofs`, `ListingProofs` | theorems | the module of that name |

The last three components are specifications of their own: what they have in common
with `Pipeline` is a single step there (`StoreOriginal` and the first case of `UploadGone` are `Transfers` up to `StoreDone`; `Package`, `UploadFile` and `UploadThumbs` are `Storyboard` from
`MakePreview` to `UploadSprite`), and composing the grids, the chunks or the pages
with the pipeline would multiply states without a step that reads both.

### Pipeline and its parts

A call to a service is one step with an outcome: `ok`; `fail`, no effect and an
error; `lost`, an effect and an error. Every outcome that is not `ok` is paid for
from `Budget`, one number for each kind of fault (`FaultKind`), so that a run tries every placement
of a bounded number of faults, and a property can say from which fault on it no
longer holds (`None("dup")`, `Spent("fail") <= 1`).

| Variable | In the code |
|---|---|
| `status`, `progress`, `duration` | the columns; `status` is `none` before the INSERT and `deleted` after the DELETE |
| `queue` | the Redis list, head first (LPUSH on one end, BRPOP on the other) |
| `originals`, `hls`, `thumbs` | the three directories in SeaweedFS |
| `upload`, `del` | where the goroutine of a POST or DELETE request is |
| `phase`, `held`, `job`, `work` | a worker process, the task its loop holds at the semaphore, the goroutines under it, `<TempDir>/<id>` on its disk |
| `budget` | the faults that may still happen |

`UploadApi` has `StoreOriginal`, `CreateRow`, `UndoStore`, `Enqueue`,
`MarkEnqueueFailed` for the calls of `Upload` in `upload.go`, `DeleteRow` and
`DeleteDir` for those of `DeleteVideo`. `UploadGone` and `DeleteGone` are clients
that hang up: which of the remaining calls run under the request context decides
what happens. A request that ends in `storage.Upload`, because the call fails, its reply
is lost, or the client hangs up when the filer has the whole file or has not, is
`unstored`; one that ends after it without an id is `rejected`. `ApiCrash` ends the
requests in flight where they are, those in `storage.Upload` too.

`Transcoder` has `Pop`, `PollAgain`, `StartJob`, `Exit` for the loop of `Run`, and
`MarkProcessing`, `FetchOriginal`, `ProbeOriginal`, `TranscodeMedia`,
`ExtractTracks`, `Package`, `UploadFile`, `UploadDone`, `UploadThumbs`, `Publish`,
`RemoveWorkDir`, `MarkFailed` for a job. An action for a stage includes the progress
update that follows it. However `process` returns, its deferred `RemoveAll` is next
(stage `cleanup`); an error of it is only logged, and `Removes` leaves any part of the
directory behind, paid for as the fault `keep`. `Abandon` is a job whose context is
cancelled.

Abstractions, and why they are sound for the properties here:

- `File` is `{"master", "media"}`. `uploadHLS` uploads all files at once in any
  order; the two are told apart because the master playlist is written last and
  can survive a work directory that was removed under the job.
- After SIGTERM every call under the context fails at once, so `Abandon` goes to
  the end of the job in one step; `Transcode` looks closer and shows
  (`ImplementsStreamJob`) that the swallowed errors cannot make such a job ready. A call
  that is cancelled after it took effect is a `lost` reply.
- `UploadGone` and `DeleteGone` likewise take the failing calls at once.
- Two jobs of one video that write the same local file at the same time are not
  modelled byte by byte here; that one job removes the directory of the other is.
  `Storyboard` has what such jobs can make of the pictures.
- `updateTracks` (an error is only logged) and the columns it writes are in
  `Transcode`; the uploads of preview and sprite are one step, `UploadThumbs`, which
  `Storyboard` takes apart.
- A repeated LPUSH of go-redis is a step with the task in the list twice; a
  repetition of other commands has no effect of its own.

### Transcode

One behaviour is one job. `encoder[c]` is the goroutine of codec `c` in
`TranscodeHLS`, `track[t]` the extraction of a stream, `whole` the playlists that
are complete with their segments, `master` what `master.m3u8` lists. `step` follows
`process`: `codecs` is `TranscodeMedia` of `Pipeline`, `audio` and `subs` are
`ExtractTracks`, `images` and `master` are `Package`, `upload` is `UploadFile` and
`UploadDone`. `Cancel` may come anywhere. `FilterCodecs` makes the output directory, which may fail,
and only then starts the goroutines. A `wg.Wait` is a guard over the states of
all goroutines. What ffmpeg leaves behind when it fails is not `whole`; it is
uploaded but never listed. The image playlist is kept apart (`images`), since
`WriteMasterManifest` looks for the file and not for the result, and
`MasterMatchesFiles` excepts it; `Storyboard` has what becomes of it. `tracks` is what
`updateTracks` writes into the row, under the index of the stream in the source.
A goroutine goes on by itself: the guards of `EncoderGoes` and of
`ExtractAudioStream` say when it was started and not that its job is still waiting for
it, so that a `wg.Wait` too few (the mutants `CollectCodecsEarly` and
`AudioDoneAtOnce`) shows. `Outcome` says where the stream is: open until `master` is
written, closed while it is uploaded, then done or failed; with it `Transcode`
implements `StreamJob` (`ImplementsStreamJob`), whose `made` is `whole`, `named` is
`tracks`, `listed` is `master` without the image playlist and `stopped` is `cancelled`.
Two entries of `TRANSCODE_CODECS` with one name are not modelled.

### Playback

A stream is a set of rendition directories; `Master` and `Media` are the lines of
its playlists, `RewriteManifest` and `FilterMasterByCodec` the two functions of the
proxy; the loop of the filter with its `pendingInf` is `GoesOut`, which says of a line by
its neighbours whether it is kept. `known` are the URLs a player was handed, `answers` how its requests ended.
Time is a counter, an HMAC is the time it was made for: nobody makes tokens up in
this model. Without tokens the manifest URL has no query, and a codec that a player
appends with `&` becomes part of the path (`ManifestUrl`); `WorksUntilExpiry` excepts
that URL and no other. `TrackUrls` are the URLs of single tracks that `GetVideo`
hands out from the columns. A query for the video that fails is a 500. An outage of the filer is a 502 that changes nothing, so it has no
action. nginx has a location for segments only, by their endings (`Segment`); a playlist that is
asked for there is a 404. One video is enough since no step reads another one.

### Storyboard

`Read` is what either program makes of its part of `.env`: a value that is unset, no
number or not positive is the default. Both read it when they start (`StartApi`,
`StartTranscoder`), and `EditEnv` may change it between. A grid is its interval, its
tile's width and height, and its columns. Durations are counted in ticks of a fraction
of a second, so that `math.Ceil` in both programs is `CeilDiv`. `TileCount`, `Rows` and
`Seek` are the arithmetic of `thumbnail.go`, `CueCount` and `Cue` that of
`GetStoryboard`. The stages are those of `process` after the probe, one set of them for each slot of
the semaphore. `HasFrame` is what the filter `fps=1/interval` does with a short video: it
rounds the number of frames, so that below half an interval ffmpeg writes no file and
exits with 0, and the job goes on with the path of a sprite that is not there.

Jobs that start while another is at work are `crowded`: they share `<TempDir>/<id>`.
Which of them writes, reads or removes a file first is not followed; instead every read
(`Finds`) is of a file that nobody can rely on (`Broken`: cut off, of either job, or
missing), every call may fail without a fault to pay for it (`Fails`), and what the
last of them leaves is either nothing or as unreliable. A job is alone again when it
starts while no other is at work. For a job that is alone, a `WriteFile` that fails on a
full disk leaves a file as it was, broken or new; a process that is killed cuts off the file
that it is writing (`CutOff`); and a `RemoveAll` that fails leaves any part of the
directory (`Leftover`), which the next job finds. `stored` is overwritten file by file.
The sizes of the pictures that ffmpeg makes are taken as asked for, and whether the last
tile of a sprite shows a frame is not said: the filter rounds where `Rows` rounds up.
The branch of `process` for `preview_override` is left out, as the API sends no such task.

### Listing

A page is what any order of rows with equal `created_at` allows: `Heads(n)` are the
sets that the first `n` rows may be, and a page is a difference of two of them.
`created_at` is `NOW()`, the start of the transaction, hence `BeginInsert` and
`CommitInsert`. `AsInt` is Go's two's-complement product of page and size; a negative
offset is an error of PostgreSQL and a 500. `Total` is the window count, which an empty
page does not have. The client asks for the next page until page times size reaches the
total that it was told; this walk is an assumption about clients, everything else is the
code.

### Transfers

Files are counted in chunks. `age` has a clock for each request and each call to the
filer, in a unit of which the three timeouts are 3 (`ReadTimeout`, 15 minutes), 2 (client
of the filer, 5 minutes) and 1 (`WriteTimeout`, 30 seconds); only their order matters, and
the theorems hold for any. `Receive`, `CheckForm`, `StoreFails`, `StoreDone`, `Register`
follow `UploadHandler.Upload` and `UploadService.Upload`; `Open`, `ReadChunk`,
`WriteChunk`, `CopyEnds` follow `DownloadOriginal`.

`SeaweedFS.Upload` is three parties that end in any order. `pipe` is the goroutine that
copies the file (`StoreChunk`, `PipeEnds`, `PipeBreaks`): it closes the pipe without an
error only behind the last chunk. `wire` is the request that reads the pipe: it sends the
end of its body when it comes to the end of the pipe (`SendEnd`), and is cut when the
handler gives up (`Cuts`), on a timeout, a cancelled context or a pipe that was closed
with an error. The filer drops a body whose end it has not seen, which is external, and
stores one whose end it has, maybe after the handler has gone (`FilerStores`).

The upload clears the write deadline (`lifted`), the download does not (`Ends`,
`WriteTimesOut`): an answer behind the deadline is lost (`Tell`). net/http keeps
reading in the background while a handler runs, so the read deadline also cancels the
request context of an upload that is still being stored (`Cancelled`).

## What the runs check

| Run | Instance | What it shows |
|---|---|---|
| `faults` | 1 video, 2 workers with 1 slot; 2 failing calls, 1 failing progress update, 1 lost reply, 1 client that hangs up, 1 failing `RemoveAll`, 1 crash, 1 SIGTERM | `ReadyIsPlayable`: ready means the whole stream is stored. `RowHasOriginal`: a row names an original that exists. `RejectedLeavesNoOriginal`: once `storage.Upload` has returned, no single mishap leaves an orphaned original. `StrandedNeedsMore`: no single failing call strands a row. `ProgressIsEarned`, `StatusOrder`, `ProgressForward`: what a client polls is true and only goes on. `OneTaskPerVideo`: a task is never at two places. `ImplementsLifecycle`: up to a lost reply, `Pipeline` implements `VideoLifecycle`. |
| `settles` | 1 video, 1 worker with 2 slots; 1 failing call, 1 lost reply, 1 repeated LPUSH, 1 crash, 1 SIGTERM; fairness | `AcceptedSettles`: an accepted upload ends ready, failed or deleted, unless a reply was lost, a worker crashed or was stopped, or a call failed that the second job of a repeated task needed. `WorkDirsRemoved`, also with two jobs in one directory. |
| `loop` | 1 video, 1 worker with 1 slot, so that the loop waits at the semaphore with the second task of a repeated LPUSH; the faults of `settles`; fairness | `TasksEnd`, `ShutdownEnds`: nothing hangs, neither at the semaphore nor when workers crash |
| `outcomes` | 2 codecs (1 optional) and an unknown one, 2 qualities, heights 0, 299, 300, 360, up to 2 audio and 2 subtitle streams; fairness | `MasterMatchesFiles`: the master playlist lists what is complete. `TracksAreListed`: the row names no track the playlist does not have. `RequiredEncoded`: mandatory codecs in exactly the qualities that fit. `NoStrayEncoder`, `TranscodeEnds`. `ImplementsStreamJob`: nothing is added to a stream that was closed off or given up, and a job that was shut down does not become ready. |
| `playback` | 3 streams, 2 requests for the manifest URL, 4 points in time, tokens on and off, a codec that is there, one that is not, none | `WorksUntilExpiry`: no URL is refused early, or led to a route that does not serve it. `ExpiryIsHandedDown`: none lives longer. `StreamReached`: a player that follows them all has the stream of its codec. |
| `storyboard` | 2 settings for each program, 4 lengths, 3 tasks in 2 slots; 1 failing call, 1 stop, 1 edit of `.env` | `CuesTileTime`, `CuesHitTiles`, `SpriteHoldsVideo`: cues cover the video and point to the tile of their time. `ImagesAgree`: a listed image playlist describes the sprite next to it, also behind jobs that shared the directory. `ThumbsThere`: a ready video has its sprite if it fills half an interval, and its preview if it is longer than a second. |
| `listing` | 4 videos, 4 instants, an int of 5 bits, pages of 1, 2 and a size that is refused | `PagesAreExact`; `MissedForDeleted` and `RepeatedForInserted`: what a walk through a changing table misses or repeats, at most one video for each row that went or came |
| `transfers` | files of 0, 1 and 3 chunks, 3 wrong forms, 1 failure, a DELETE, timeouts 1 < 2 < 3; fairness | `StoredWhole`: no half original, in whatever order goroutine, request and handler end. `AnswerIsTrue`: an answer after any timeout, and one that is true of what is stored. `WholeIsWhole`: a cut download is noticed. `TransfersEnd`: both handlers end, and the goroutine too. |

These must fail, each on what a document of the repository says:

| Run | Property | The disagreement |
|---|---|---|
| `shutdown` | `AcceptedAlwaysSettles` | a SIGTERM leaves the row pending or processing for good: the task is gone from Redis, and the status `failed` is written under the cancelled context |
| `delete` | `DeletedLeavesNothing` | a running job uploads its stream after the DELETE, and no request can remove it any more |
| `silent` | `AudioKept` | sound is stripped from the segments and then not extracted: a ready stream without sound |
| `download` | `DownloadCompletes` | a download that takes longer than `WriteTimeout` is cut off, although nothing fails |

The properties that pass name the faults after which they cease to hold, and the
failing runs show that the exception is needed.

### Other observations

Met while modelling, each visible in a module but without a run of its own:

- The reply of an LPUSH that took effect is lost: the API writes `failed` and a worker
  takes the same row to `ready`, or the other way round (`service/upload.go:57`,
  `worker.go:107-110`; `README.md:186` has `failed` as an end). `StatusOrder` excepts
  lost replies.
- A request that ends in `storage.Upload` may leave its original without a row: the
  client hangs up, the context or the client of the filer runs into a timeout, or the API
  ends when the filer has the whole file, and nothing removes it (`service/upload.go:36-38`;
  state `unstored` in `UploadApi`, `FilerStores` after `StoreFails` in `Transfers`).
- The reply of an INSERT that took effect is lost: the undo deletes the original of a row
  that exists (`service/upload.go:46-49`). `RowHasOriginal` excepts it.
- A video shorter than half a sprite interval (5 seconds by default) becomes ready without a
  sprite although nothing failed: `fps=1/interval` has no frame for it, ffmpeg exits with 0,
  and the upload of the missing file is only logged (`thumbnail.go:115-137`,
  `worker.go:213-218`). Its storyboard still has a cue into the sprite
  (`service/video.go:212-215`, against `openapi.yaml:573-576`). `ThumbsThere` excepts it.
- A task that is twice in the list has two jobs in one directory. One that lost the
  directory goes on with what `MkdirAll` brings back and can end with a ready row whose stream
  is a master playlist alone (`worker.go:160`), and such a job together with one failing call
  leaves a row that nobody settles. `ReadyIsPlayable` and `AcceptedSettles` say so.
- A work directory that `RemoveAll` could not remove (`worker.go:129-133`) is found by the
  next job of the video. With other settings, or when it fails in part, that job lists or
  uploads what it found (`ImagesAgree` excepts it). What a row claims does not suffer
  (`ReadyIsPlayable` with `keep` in `faults`).
- A directory that DELETE could not remove stays for good, as a second DELETE is a 404
  (`service/upload.go:88-101`; `openapi.yaml:436` excepts it).
- The offset `(page-1)*pageSize` overflows for a huge page (`service/video.go:146`):
  PostgreSQL refuses a negative one, and one that wraps is another page. `PagesAreExact`
  is about the pages before that.
- A small source may fit none of the configured qualities. The result is a ready stream
  without a variant (`transcoder.go:525-533`, against `README.md:7`). `RequiredEncoded`
  says what is encoded, and that may be nothing.
- `FindByID` and `updateTracks` use the columns `audio_tracks` and `subtitle_tracks`,
  which no migration creates (`repository/video.go:42`). `Playback` and `Transcode` assume
  they were added.
- `setup.sh` writes `TRANSCODE_SPRITE_*` only (`setup.sh:404-407`), while the API
  reads `SPRITE_*`: with a grid other than the default the cues miss their tiles.
  `CuesHitTiles` holds while both read the same grid, and says so.
- `openapi.yaml:359` says that a `page_size` out of bounds is clamped to 1-100; the code
  takes 20. A page past the end reports a total of 0. `PagesAreExact` follows the code.
- An upload that takes longer than 15 minutes together with its storing is cancelled
  by the read deadline and answered with 500 (`Cancelled` in `Transfers`).

### Bounds

- One video: videos share only the list and the slots, and a repeated LPUSH brings a
  second task for both (`settles`, `loop`). The theorems cover any number of videos; two
  of them with their DELETE requests are beyond what liveness can be checked for. Two
  workers let a popped task and what a job left be on different machines. Two slots let
  two jobs share a directory (`settles`); one slot and a repeated LPUSH let the loop wait
  at the full semaphore (`loop`). Liveness is checked up to these bounds only.
- Two failing calls are one more than the code tolerates (a call, and the UPDATE
  that records its failure); one of each other fault is what each property excepts.
- 299, 300 and 360 lines are just below, on and above the bound of a fifth for
  360p; 0 is a height that ffprobe did not tell. The theorem covers all heights.
- Two expiries and four points in time let each URL be asked for before, at and
  after its expiry, and mix URLs of two manifests.
- The two grids have columns and intervals that leave a tile or a row partly empty; the
  lengths are nothing, too short for a tile of one grid and for a preview, long enough
  for both, and a tick beyond full rows. Three tasks in two slots let a job come alone
  before or behind two that shared the directory. One edit and one stop let each program
  have read either setting; a stop leaves what a failing `RemoveAll` would leave. A full
  disk and that `RemoveAll` are left to the theorems, which cover every grid, length,
  number of tasks and slots, and budget.
- Four videos make a walk of two to four pages with rows coming and going between any two
  of them; an int of 5 bits overflows within the pages that are tried.
- Three chunks let a transfer end before, within and after the middle; one failure is
  what the properties except. The theorems cover every size and timeout.
- `SYMMETRY` is used in `faults`, `storyboard` and `listing` only, which have no liveness
  property; videos, workers and slots are interchangeable model values.

`CHECK_DEADLOCK FALSE` is set for Transcode, Playback, Listing and Transfers: a job that
ended, a player that has it all, a table without videos and two requests that were
answered do nothing more. `Pipeline` never stops: its loops poll. Nor does `Storyboard`:
its programs may be started again at any time.

### Fairness

`FairSpec` of `Pipeline` assumes weak fairness of what a program does on its own: the
next call of a request that is in flight, each worker's loop, each job (calls and ffmpeg
come to an end), and `Restart` (`restart: unless-stopped` in `docker-compose.yml`).
Nothing is assumed of clients, of DELETE requests and of faults. Weak fairness per
slot and per loop is what the Go scheduler gives; no property needs a particular
goroutine to win a race infinitely often. `Transcode` assumes that some
goroutine of the job goes on as long as one can. `FairSpec` of `Transfers` assumes that
time goes on and that the two handlers and the copying goroutine take the steps that are
theirs (`HandlesUpload`, `HandlesDownload`, `Copies`) without a failure having to occur. A peer or
the filer need not send, take or answer anything ever: `TransfersEnd` rests on the
timeouts.

### Mutants

Every property of a passing run has a mutant: an operator next to the one it
changes, with a bug that could have been written there (a missing undo, an error
that is only logged, a status set before the errors are read, a channel without
room, `<` for `<=`, a quotient not rounded up, a pipe closed without its error, a deadline that stays),
under which TLC finds the property violated.

## What is proved

For every value of the constants (sets of videos, workers and slots, codecs, heights and
sources, grids and durations, sizes and timeouts, budgets of faults), from the named
assumptions on the constants only:

| Theorem | Statement |
|---|---|
| `PipelineProofs!TypeCorrect` | `Spec => []TypeOK` |
| `PipelineProofs!PlayableInvCorrect` | `Spec => []PlayableInv` |
| `PipelineProofs!ReadyCorrect` | `Spec => []ReadyIsPlayable` |
| `PipelineProofs!OneTaskCorrect` | `Spec => []OneTaskPerVideo` |
| `RowsProofs!RowHasOriginalCorrect` | `Spec => [](OriginalInv /\ RowHasOriginal)` |
| `RowsProofs!RejectedCorrect` | `Spec => []RejectedLeavesNoOriginal` |
| `RowsProofs!WorkDirsCorrect` | `Spec => []WorkDirsRemoved` |
| `RowsProofs!ProgressCorrect` | `Spec => []ProgressIsEarned` |
| `LifecycleProofs!ProgressForwardCorrect`, `StatusOrderCorrect` | `Spec => ProgressForward`, `Spec => StatusOrder` |
| `LifecycleProofs!LifecycleCorrect` | `Spec => ImplementsLifecycle` |
| `LifecycleProofs!StrandedCorrect` | `Spec => []StrandedNeedsMore` |
| `TranscodeProofs!TranscodeInvCorrect` | `Spec => []TranscodeInv` |
| `TranscodeProofs!MasterCorrect` | `Spec => []MasterMatchesFiles` |
| `TranscodeProofs!RequiredCorrect` | `Spec => []RequiredEncoded` |
| `TranscodeProofs!NoStrayCorrect` | `Spec => []NoStrayEncoder` |
| `TranscodeProofs!TracksCorrect` | `Spec => []TracksAreListed` |
| `TranscodeProofs!CancelledCorrect`, `TypeCorrect` | `Spec => []CancelledFails`, `Spec => []TypeOK` |
| `TranscodeProofs!StreamJobCorrect` | `Spec => ImplementsStreamJob` |
| `StoryboardProofs!StoryboardInvariant`, `TypeCorrect` | the inductive invariant, `Spec => []TypeOK` |
| `StoryboardProofs!CuesAlwaysTile`, `CuesAlwaysHit` | `Spec => []CuesTileTime`, `Spec => []CuesHitTiles` |
| `StoryboardProofs!SpriteAlwaysHolds` | `Spec => []SpriteHoldsVideo` |
| `StoryboardProofs!ImagesAlwaysAgree`, `ThumbsAlwaysThere` | `Spec => []ImagesAgree`, `Spec => []ThumbsThere` |
| `TransfersProofs!TransfersInvariant`, `TypeCorrect` | the inductive invariant, `Spec => []TypeOK` |
| `TransfersProofs!StoredCorrect`, `AnswerCorrect`, `WholeCorrect` | `Spec => []StoredWhole`, `[]AnswerIsTrue`, `[]WholeIsWhole` |
| `PlaybackProofs!TypeCorrect`, `ExpiryCorrect` | `Spec => []TypeOK`, `Spec => []ExpiryIsHandedDown` |
| `PlaybackProofs!WorksCorrect`, `StreamCorrect` | `Spec => []WorksUntilExpiry`, `Spec => []StreamReached` |
| `ListingProofs!TypeCorrect`, `PagesCorrect` | `Spec => []TypeOK`, `Spec => []PagesAreExact` |
| `ListingProofs!MissedCorrect`, `RepeatedCorrect` | `Spec => []MissedForDeleted`, `Spec => []RepeatedForInserted` |

**Ready is playable.** `Publish` writes `ready` without looking at storage, so
`ReadyIsPlayable` needs to know what a job at stage `publish` has done:
`StageInv`, which says for each stage what is on disk, in storage and in the row.
`StageInv` needs that nobody else works on that video's directory and files:
`OneTaskPerVideo`, which says that the list, the loops and the slots hold a
video's task at most once. That needs `RequestInv`: a video has a task only when
its request is past the LPUSH, and directories are deleted only after the row.
`BudgetInv` makes `None(k)` stable: once spent, a fault stays spent. The conjunction
`PlayableInv`, with the types, is inductive. A repeated LPUSH breaks
`OneTaskPerVideo` and with it the rest, hence `None("dup")` in all three.

**Rows, originals, directories.** Each property has an inductive invariant of its own,
which stands next to it in `Pipeline` and rests on `PlayableInv`. `OriginalInv`: the undo
finds no row. `RejectInv` counts: an original without a row costs as many mishaps as its
request is steps away from the end that should have removed it. `DirInv`: while
nothing crashed and no `RemoveAll` had an error, a directory belongs to a job that is past
MkdirAll and has its deferred call still before it. `EarnedInv`: a row starts
at 0, and a percentage is written in the step that leads to the stage of which `StageInv`
says what was done before it.

**Status and progress.** `ForwardInv`: the percentage of a video is at most what its one
job has reached when it comes to its stage (`Reached`), and no job writes less than that;
`ProgressForward` follows. `OrderInv`: only an accepted video has a task, and its row is as
far as its task is (`StatusAt`), unless it was deleted; this is where lost replies do
their harm, as the API marks a row `failed` whose task is in the list. `StatusOrder`
follows, and with `StageInv` the refinement: each `UPDATE` is the step of
`VideoLifecycle` of that name or has no row to change, `UploadFile` is `StoreStream` when
it was the last file, `DeleteDir` is `Discard`, and all else is a stutter. The
property has the exceptions of the invariant in each step, so that it holds up to the
first lost reply or repeated LPUSH of every behaviour and for every `Budget`; where these
two never happen, it is the specification of `VideoLifecycle`.

**Stranded rows.** `StrandInv` says that, while nothing but failing calls has happened, a
job has on its disk what its stage needs (`Equipped`), so that it comes to `failing` only
by a failing call, and the row of a task that goes away says `ready` or `failed` unless a
second call failed. With `OriginalInv`, a fetch finds its original.

**The master playlist.** `whole` grows in the goroutines, `master` is written from
their results. `WholeInv` says that the results account for all that is complete;
`EncoderInv`, `NamesKnown` and `CodecsDone` what `process` knows when it has left
`TranscodeHLS`; `MasterInv` ties `master` to the results, `TracksInv` the row's tracks to
what was kept. `MasterMatchesFiles` follows with `NameAssumption` (no codec is called
audio, subs or images, so that directories differ); `RequiredEncoded` with the lemma
that `h <= (H * 120) \div 100` is the bound of a fifth on integers.

**A job as one.** That `Transcode` implements `StreamJob` needs that a goroutine which
takes a step is one that its job waits for: `NoStrayEncoder` for the codecs,
`AudioEnded` for the audio streams. Then `CheckEncoder`, `Encode` and the extractions are
`Make`, `UpdateTracks` is `Name` (of tracks that were kept, `TracksInv`), `WriteMaster`
is `Close` when it succeeds (what it lists is `whole` and at most the image playlist,
lemma `ListedIsMade`), `Upload` is `Finish`, each error is `GiveUp`, `Cancel` is `Stop`, and all else is a
stutter.

**The storyboard.** Half of the work is arithmetic: lemmas say what a quotient that is
rounded up is, that tile `i` of a grid has row `i \div columns` and column
`i % columns`, and that the rows hold all tiles. The other half is where each picture
comes from (`StoryboardInv` in `StoryboardProofs`). `EnvInv`: a grid in use was read from
`.env`, and while that is left alone, whoever reads it reads the same. `LeftInv`: while
nothing was killed and each `RemoveAll` succeeded, a directory without a job is empty.
`AloneInv` is about a job that is not `crowded`: no other one is at work, what it has made
in the directory agrees (`DirInv`), it has at each stage what it needs (`JobInv`), and a
video that is ready has all that (`VideoInv`). Two ways lead to an image playlist that
fits, and the invariant carries both: nothing was left behind by another job (`Clean`), or
no call failed and nobody edited `.env`, so that what was left is overwritten by the same
(`Same`). A job becomes crowded only when it starts, and never while it runs alone, as a
second job sets `crowded` for both.

**The transfers.** `PipeInv`: the end of the body is sent only behind an end of the pipe
without an error, and that comes only behind the last chunk; hence what the filer stores
is the whole file, whoever gives up first. `StageInv` says what is stored, registered and told
at each stage, and that the write deadline is lifted from the first step on, so that no
answer is lost. `DownloadInv`: a download announces the size of a row, a row is the size
of the form (`RowInv`), and a file that is there is all of it, so `got < length` is what
tells a cut answer from a whole one.

**Playback.** That the expiry is handed on needs only that a URL comes from the manifest
URL or from a playlist whose own URL was known. The rest is `PlayInv`. `KnownInv`: each
URL is the manifest URL, the playlist of a directory that this player is to get
(`Wanted`), or a file that such a playlist names, and the manifest URL with its expiry
is known too. `AnswersInv`: a playlist that was answered with 200 has handed out all
that follows from it (`Follows`), and no other answer is given before the expiry. Most of
the work is `PlaylistUrls`, that the text the proxy makes is exactly what follows.
`MasterShape` says which line of the master playlist is what, by number; `Filtered`
decides for each line from itself and its two neighbours whether it goes out, so that
no induction over the lines is needed, and `FilteredMaster` shows that what goes out
names the directories of `Wanted`. This rests on `StreamAssumption`: a directory has a
name, and a variant's directory differs from those of tracks and of the sprite and
begins with a codec. The transcoder makes them as `<codec>/<height>p`, `audio/<index>`,
`subs/<index>` and `images`; no codec of `transcoder.go` is called `audio`, `subs` or
`images`.

**Listing.** A sorted table is described without a sequence: `Rank(v)` is the number of
rows before `v`, and `Heads(n)` the sets that can be the first `n` of them. That they
exist comes from the lemma that among the subsets of a finite set one is smallest
(`SmallestExists`), not from an induction of its own. `WalkInv` counts: `Read` is the number of rows on the pages so far; a video that
was there all along and was not seen either lies behind them or is paid for by a deleted
row; one that was seen and lies behind them, or was seen twice, is paid for by an inserted
one. `TotalAssumption`, that the number of videos fits an int, is what the code assumes
when it scans `COUNT(*) OVER()` into one.

**Only model-checked**: every liveness property (`AcceptedSettles`, `TasksEnd`,
`ShutdownEnds`, `TranscodeEnds`, `TransfersEnd`), which needs reasoning about fairness
that the prover does not do. Each invariant and each action property of a passing
run has a theorem, the two refinements included.

## What is not modelled

- middleware, CORS, health check: stateless checks of a single request;
- configuration other than the sprite grid, codecs and qualities: numbers and names
  read once at the start; deployment files, of which only the restart policy matters;
- the arguments of ffmpeg, what its filters compute, the wording of playlists,
  bandwidths and names, and the parsing of ffprobe's output;
- two entries of `TRANSCODE_CODECS` with one name; what exactly two jobs that write one
  local file at the same time make of it (`Storyboard` lets it be anything);
- the branch of `process` for `preview_override`, which no task of this API asks for;
- several API processes: the handlers share no memory, so that they interleave
  like requests of one;
- `GetStatus` and `GetSegments`, which read one row and hand it on.

## What could follow

- `StreamJob` as the specification of the stages of `Transcoder` and of the image
  playlist of `Storyboard` too, which would tie the three to each other;
- two jobs of one video that write the same local files, in `Transcode`, as a
  repeated LPUSH allows.
