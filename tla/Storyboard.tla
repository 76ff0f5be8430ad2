----------------------------- MODULE Storyboard -----------------------------
(***************************************************************************)
(* The previews that a player shows while one scrubs through a video.  The *)
(* transcoder cuts the sprite, a sheet of tiles in a grid, writes the      *)
(* image playlist that describes it and takes the poster frame; the API    *)
(* answers GET /videos/{id}/storyboard with cues that point into the       *)
(* sprite, and computes them again from its own settings.  The two         *)
(* programs agree only as far as their settings do, which each of them     *)
(* reads when it starts.                                                   *)
(*                                                                         *)
(* One video, its task queued Tasks times (go-redis may repeat an LPUSH),  *)
(* and one transcoder whose jobs for it share a work directory, at once or *)
(* one after the other.  Time is counted in ticks of which Second make one *)
(* second, so that a video may end within a second.                        *)
(***************************************************************************)
EXTENDS Integers

CONSTANTS
    Setting,    \* the grids that the two parts of .env may ask for
    Default,    \* the grid of a program that finds nothing in .env
    Second,     \* how many ticks make a second
    Length,     \* what ffprobe may tell of the length of the video
    Tasks,      \* bound: how often the transcode task is in the queue
    Slot,       \* the jobs that may run at once, TRANSCODE_WORKERS
    Budget,     \* bound: how often each of the kinds of fault occurs
    Absent,     \* no such file, or NULL
    Broken      \* a file that nobody can rely on: it was cut off, or jobs that
                \* shared a directory left it, whole or not or even missing

(***************************************************************************)
(* fail   ffmpeg or a call to a service returns an error                   *)
(* disk   writing a file of the image playlist returns an error            *)
(* stop   the transcoder ends in the middle of a job                       *)
(* keep   removing a work directory returns an error                       *)
(* edit   somebody changes .env                                            *)
(***************************************************************************)
FaultKind == {"fail", "disk", "stop", "keep", "edit"}

Dimension == {"interval", "width", "height", "columns"}
Grid == [Dimension -> Nat \ {0}]

\* 0 stands for a variable that is unset, no number or not positive.
ASSUME SettingAssumption == Setting \subseteq [Dimension -> Nat]
ASSUME DefaultAssumption == Default \in Grid
ASSUME TimeAssumption == Second \in Nat \ {0} /\ Length \subseteq Nat /\ Tasks \in Nat
ASSUME BudgetAssumption == Budget \in [FaultKind -> Nat]
ASSUME AbsentAssumption == Absent \notin Grid \union Nat \union {Broken}
ASSUME BrokenAssumption == Broken \notin Grid

VARIABLES
    env,        \* .env: SPRITE_* for the API and TRANSCODE_SPRITE_*
    api,        \* the grid that the API has read
    worker,     \* the grid that the transcoder has read
    length,     \* what ffprobe tells of the video
    status,     \* column status
    duration,   \* column duration
    tasks,      \* the tasks that are left in the queue
    stage,      \* where each job is
    made,       \* the pictures of which each job has a path
    crowded,    \* the jobs at work, or the last ones, were several at once
    local,      \* <TempDir>/<video>: the pictures and the image playlist
    stored,     \* what is there of all that in SeaweedFS
    budget      \* the faults still to come

jobVars == <<status, duration, tasks, stage, made, crowded, local>>
vars == <<env, api, worker, length, jobVars, stored, budget>>

-----------------------------------------------------------------------------
(* Settings *)

\* Mutant of Read: what .env says is taken as it is.
ReadPlain(setting) == setting

\* getEnvInt64 and getEnvPositiveInt; withDefaults and GetStoryboard do the
\* same again.
Read(setting) ==
    [k \in Dimension |-> IF setting[k] < 1 THEN Default[k] ELSE setting[k]]

CeilDiv(a, b) == (a + b - 1) \div b
AtLeast1(n) == IF n < 1 THEN 1 ELSE n
Ticks(g) == g.interval * Second

-----------------------------------------------------------------------------
(* The transcoder's pictures *)

\* GenerateSprite: how many tiles the sprite has use for, and its rows.
TileCount(g, d) == AtLeast1(CeilDiv(d, Ticks(g)))

\* Whether ffmpeg has a frame for the first tile: its filter fps=1/interval
\* rounds the number of frames, and a video of less than half an interval has
\* none.
HasFrame(g, d) == 2 * d >= Ticks(g)

\* Mutant of Rows: the quotient is not rounded up.
RowsCut(g, d) == TileCount(g, d) \div g.columns

Rows(g, d) == CeilDiv(TileCount(g, d), g.columns)

\* Mutant of Seek: the poster frame is taken at two seconds.
SeekLate(d) == IF d > 30 * Second THEN d \div 10 ELSE 2 * Second

\* GeneratePreview: the second rule changes what the first one says.
Seek(d) ==
    LET seek == IF d > 30 * Second THEN d \div 10 ELSE Second
    IN  IF d > 2 * Second /\ seek > d - Second THEN d - Second ELSE seek

-----------------------------------------------------------------------------
(* The API's cues *)

\* Mutant of CueCount: the quotient is not rounded up.
CueCountCut(g, d) == AtLeast1(d \div Ticks(g))

CueCount(g, d) == AtLeast1(CeilDiv(d, Ticks(g)))

\* Mutant of Cue: rows and columns are swapped.
CueSwapped(g, d, i) ==
    [start |-> i * Ticks(g),
     end |-> IF (i + 1) * Ticks(g) > d THEN d ELSE (i + 1) * Ticks(g),
     x |-> (i \div g.columns) * g.width,
     y |-> (i % g.columns) * g.height]

\* Cue i of GetStoryboard, whose tiles have the width and height of g
Cue(g, d, i) ==
    [start |-> i * Ticks(g),
     end |-> IF (i + 1) * Ticks(g) > d THEN d ELSE (i + 1) * Ticks(g),
     x |-> (i % g.columns) * g.width,
     y |-> (i \div g.columns) * g.height]

\* GetStoryboard has an answer that is not 404.
Served == status = "ready" /\ duration # Absent

-----------------------------------------------------------------------------
Empty == [sprite |-> Absent, preview |-> FALSE,
          copy |-> Absent, playlist |-> Absent, listed |-> FALSE]

Init ==
    /\ env \in [{"api", "transcoder"} -> Setting]
    /\ api = Read(env["api"])
    /\ worker = Read(env["transcoder"])
    /\ length \in Length
    /\ status = "pending"
    /\ duration = Absent
    /\ tasks = Tasks
    /\ stage = [w \in Slot |-> "idle"]
    /\ made = [w \in Slot |-> {}]
    /\ crowded = FALSE
    /\ local = Empty
    /\ stored = Empty
    /\ budget = Budget

Pay(k) ==
    /\ budget[k] > 0
    /\ budget' = [budget EXCEPT ![k] = @ - 1]

Free == UNCHANGED budget
None(k) == budget[k] = Budget[k]

Busy == {w \in Slot : stage[w] \notin {"idle", "down"}}

EditEnv ==
    /\ \E part \in {"api", "transcoder"}, s \in Setting :
        env' = [env EXCEPT ![part] = s]
    /\ Pay("edit")
    /\ UNCHANGED <<api, worker, length, jobVars, stored>>

StartApi ==
    /\ api' = Read(env["api"])
    /\ UNCHANGED <<env, worker, length, jobVars, stored, budget>>

StartTranscoder ==
    /\ Busy = {}
    /\ worker' = Read(env["transcoder"])
    /\ stage' = [w \in Slot |-> "idle"]
    /\ UNCHANGED <<env, api, length, status, duration, tasks, made, crowded, local, stored, budget>>

-----------------------------------------------------------------------------
(***************************************************************************)
(* Worker.process, from the probe on.  While jobs share the directory, one *)
(* of them may find a file as another has left it, half of it, or none,    *)
(* and whatever a call needs may be missing.  What is in the directory is  *)
(* not followed then: local stays as it is.                                *)
(***************************************************************************)

Goes(w, from, to) ==
    /\ stage[w] = from
    /\ stage' = [stage EXCEPT ![w] = to]
    /\ UNCHANGED <<env, api, worker, length, tasks, crowded>>

\* A call returns an error, which another job of the directory can cause.
Fails == Pay("fail") \/ (crowded /\ Free)

NoImages == local.sprite = Absent /\ local.copy = Absent /\ local.playlist = Absent

\* What a job finds where the file is: one that other jobs write or remove is
\* as good as broken, unless none of them has anything to write.
Finds(file) ==
    IF ~crowded THEN local[file]
    ELSE IF HasFrame(worker, length) \/ ~NoImages THEN Broken ELSE Absent

\* A job leaves new in its directory.
Leaves(new) == local' = IF crowded THEN local ELSE new

\* process returns an error.
Breaks(w, from) ==
    /\ Goes(w, from, "failed")
    /\ Fails
    /\ UNCHANGED <<status, duration, made, local>>

\* A job starts in the work directory of its video as it finds it.  If it
\* cannot even say so, the video has failed.
TakeTask(w) ==
    /\ stage[w] = "idle"
    /\ tasks > 0
    /\ tasks' = tasks - 1
    /\ \/ /\ stage' = [stage EXCEPT ![w] = "probe"]
          /\ crowded' = (Busy # {})
          /\ status' = "processing"
          /\ Free
       \/ /\ status' \in {"failed", status}
          /\ Pay("fail")
          /\ UNCHANGED <<stage, crowded>>
    /\ UNCHANGED <<env, api, worker, length, duration, made, local, stored>>

\* ffprobe, and what happens before and between it and the pictures
Probe(w) ==
    /\ \/ /\ Goes(w, "probe", "preview")
          /\ Free
          /\ duration' = length
          /\ UNCHANGED <<status, made, local>>
       \/ Breaks(w, "probe")
    /\ UNCHANGED stored

\* GeneratePreview: ffmpeg finds no frame behind the end of the video, and
\* does not mind.  An error is logged.  (In a shared directory, a picture that
\* could not be made is one that is missing later.)
MakePreview(w) ==
    /\ Goes(w, "preview", "sprite")
    /\ \/ /\ Free
          /\ made' = [made EXCEPT ![w] = @ \union {"preview"}]
          /\ Leaves([local EXCEPT !.preview = @ \/ Seek(length) < length])
       \/ Pay("fail") /\ UNCHANGED <<made, local>>
    /\ UNCHANGED <<status, duration, stored>>

\* GenerateSprite, likewise.
MakeSprite(w) ==
    /\ Goes(w, "sprite", "images")
    /\ \/ /\ Free
          /\ made' = [made EXCEPT ![w] = @ \union {"sprite"}]
          /\ Leaves([local EXCEPT !.sprite = IF HasFrame(worker, length) THEN worker ELSE @])
       \/ Pay("fail") /\ UNCHANGED <<made, local>>
    /\ UNCHANGED <<status, duration, stored>>

\* Mutant of WriteImages: it does not ask whether there is a sprite.
WriteImagesUnasked(w) ==
    /\ Goes(w, "images", "master")
    /\ Free
    /\ Leaves([local EXCEPT !.copy = local.sprite, !.playlist = worker])
    /\ UNCHANGED <<status, duration, made, stored>>

\* Of the copy of the sprite and the playlist, which are written in this order,
\* job w has written less than all.
HalfWritten(w) ==
    IF "sprite" \notin made[w] \/ local.sprite = Absent THEN {local}
    ELSE {local,
          [local EXCEPT !.copy = Broken],
          [local EXCEPT !.copy = local.sprite],
          [local EXCEPT !.copy = local.sprite, !.playlist = Broken]}

\* And it has written all, or nothing where there was no sprite to read.
Written(w) ==
    (IF "sprite" \notin made[w] \/ local.sprite \in {Absent, Broken} THEN {local} ELSE {})
        \union
    (IF "sprite" \notin made[w] \/ local.sprite = Absent THEN {}
     ELSE {[local EXCEPT !.copy = local.sprite, !.playlist = worker]})

\* WriteImageStreamManifest, if there is a path of a sprite.  An error is
\* logged.
WriteImages(w) ==
    /\ Goes(w, "images", "master")
    /\ \/ Free /\ \E new \in Written(w) : Leaves(new)
       \/ "sprite" \in made[w] /\ Pay("disk") /\ \E new \in HalfWritten(w) : Leaves(new)
    /\ UNCHANGED <<status, duration, made, stored>>

\* WriteMasterManifest lists the image playlist if there is a file of its name.
WriteMaster(w) ==
    /\ \/ /\ Goes(w, "master", "upload")
          /\ Free
          /\ Leaves([local EXCEPT !.listed = local.playlist # Absent])
          /\ UNCHANGED <<status, duration, made>>
       \/ Breaks(w, "master")
    /\ UNCHANGED stored

\* What an upload makes of the file in SeaweedFS: one that is not in the work
\* directory leaves it alone.
Uploads(file) == IF Finds(file) = Absent THEN stored[file] ELSE Finds(file)
UploadsList == IF crowded THEN BOOLEAN ELSE {local.listed}

\* uploadHLS: all files, or some of them and an error
UploadHLS(w) ==
    \/ /\ Goes(w, "upload", "thumbs")
       /\ Free
       /\ \E l \in UploadsList :
            stored' = [stored EXCEPT !.copy = Uploads("copy"), !.playlist = Uploads("playlist"),
                                     !.listed = l]
       /\ UNCHANGED <<status, duration, made, local>>
    \/ /\ Breaks(w, "upload")
       /\ \E c \in {Uploads("copy"), stored.copy}, p \in {Uploads("playlist"), stored.playlist},
             l \in UploadsList \union {stored.listed} :
            stored' = [stored EXCEPT !.copy = c, !.playlist = p, !.listed = l]

\* The upload of the preview, if there is a path; an error, be it that there is
\* no such file, is logged.
UploadPreview(w) ==
    /\ Goes(w, "thumbs", "sprites")
    /\ \/ /\ Free
          /\ \E new \in IF crowded THEN BOOLEAN ELSE {local.preview} :
               stored' = [stored EXCEPT !.preview = @ \/ ("preview" \in made[w] /\ new)]
       \/ "preview" \in made[w] /\ Pay("fail") /\ UNCHANGED stored
    /\ UNCHANGED <<status, duration, made, local>>

\* The upload of the sprite, likewise
UploadSprite(w) ==
    /\ Goes(w, "sprites", "publish")
    /\ \/ /\ Free
          /\ stored' = IF "sprite" \in made[w]
                       THEN [stored EXCEPT !.sprite = Uploads("sprite")] ELSE stored
       \/ "sprite" \in made[w] /\ Pay("fail") /\ UNCHANGED stored
    /\ UNCHANGED <<status, duration, made, local>>

Publish(w) ==
    /\ \/ /\ Goes(w, "publish", "cleanup")
          /\ status' = "ready"
          /\ Free
          /\ UNCHANGED <<duration, made, local>>
       \/ Breaks(w, "publish")
    /\ UNCHANGED stored

\* What is left in the work directory, whose files gone are removed
Leftover(gone) ==
    IF crowded
    THEN [local EXCEPT !.sprite = Finds("sprite"), !.copy = Finds("copy"), !.playlist = Finds("playlist")]
    ELSE [f \in DOMAIN Empty |-> IF f \in gone THEN Empty[f] ELSE local[f]]

\* The deferred RemoveAll, whose error is logged and which may have removed a
\* part, and what Run does about an error: the video has failed, if that can be
\* written.
RemoveWorkDir(w) ==
    /\ \E from \in {"cleanup", "failed"} : Goes(w, from, "idle")
    /\ status' \in IF stage[w] = "failed" THEN {"failed", status} ELSE {status}
    /\ made' = [made EXCEPT ![w] = {}]
    /\ \/ Free /\ local' = IF Busy = {w} THEN Empty ELSE local
       \/ /\ Pay("keep")
          /\ IF Busy # {w} THEN UNCHANGED local
             ELSE \E gone \in SUBSET DOMAIN Empty : local' = Leftover(gone)
    /\ UNCHANGED <<duration, stored>>

\* The file that is being written when the transcoder is killed is cut off.
CutOff ==
    {Leftover({})}
        \union (UNION {HalfWritten(w) : w \in {v \in Slot : stage[v] = "images"}})
        \union {[local EXCEPT !.sprite = Broken] :
                   w \in {v \in Slot : stage[v] = "sprite" /\ HasFrame(worker, length)}}

\* The transcoder ends during a job: by SIGTERM, and the jobs remove their work
\* directory, or at once.  The video stays as it is.
StopInJob ==
    /\ Busy # {}
    /\ stage' = [w \in Slot |-> "down"]
    /\ made' = [w \in Slot |-> {}]
    /\ local' \in {Empty} \union CutOff
    /\ Pay("stop")
    /\ UNCHANGED <<env, api, worker, length, status, duration, tasks, crowded, stored>>

-----------------------------------------------------------------------------
Process(w) ==
    \/ TakeTask(w) \/ Probe(w) \/ MakePreview(w) \/ MakeSprite(w) \/ WriteImages(w)
    \/ WriteMaster(w) \/ UploadHLS(w) \/ UploadPreview(w) \/ UploadSprite(w)
    \/ Publish(w) \/ RemoveWorkDir(w)

Next == EditEnv \/ StartApi \/ StartTranscoder \/ StopInJob \/ \E w \in Slot : Process(w)

Spec == Init /\ [][Next]_vars

-----------------------------------------------------------------------------
Stage == {"idle", "down", "probe", "preview", "sprite", "images", "master", "upload",
          "thumbs", "sprites", "publish", "failed", "cleanup"}
Content == Grid \union {Absent, Broken}
IsGrid(c) == c \notin {Absent, Broken}
Files == [sprite : Content, preview : BOOLEAN, copy : Content, playlist : Content,
          listed : BOOLEAN]

TypeOK ==
    /\ env \in [{"api", "transcoder"} -> Setting]
    /\ api \in Grid /\ worker \in Grid
    /\ length \in Length /\ duration \in {Absent, length}
    /\ status \in {"pending", "processing", "ready", "failed"}
    /\ tasks \in 0..Tasks
    /\ stage \in [Slot -> Stage]
    /\ made \in [Slot -> SUBSET {"preview", "sprite"}]
    /\ crowded \in BOOLEAN
    /\ local \in Files /\ stored \in Files
    /\ budget \in [FaultKind -> Nat]

-----------------------------------------------------------------------------
(***************************************************************************)
(* Whatever the grid and however odd the length, the cues that the API     *)
(* gives out cover the video from its start to its end without a gap and   *)
(* without an overlap, and none of them is empty.                          *)
(***************************************************************************)
CuesTileTime ==
    Served =>
        LET cue(i) == Cue(api, duration, i)
            last == CueCount(api, duration) - 1
        IN  /\ cue(0).start = 0
            /\ cue(last).end = duration
            /\ \A i \in 0..last :
                /\ i < last => cue(i).end = cue(i + 1).start
                /\ duration > 0 => cue(i).start < cue(i).end

\* Cue c of the API points to the tile of sprite g that stands for the time at
\* which the cue starts: the tile filter fills row by row.
PointsTo(c, g, d) ==
    \E row \in 0..Rows(g, d) - 1, col \in 0..g.columns - 1 :
        /\ c.x = col * g.width
        /\ c.y = row * g.height
        /\ c.start = (row * g.columns + col) * Ticks(g)

CuesMatchSprite ==
    Served /\ IsGrid(stored.sprite) =>
        \A i \in 0..CueCount(api, duration) - 1 :
            PointsTo(Cue(api, duration, i), stored.sprite, length)

Agreed == Read(env["api"]) = Read(env["transcoder"])

(***************************************************************************)
(* Every cue points to the tile that stands for its time, in a sprite that *)
(* another program laid out: as long as .env gives both of them the same   *)
(* grid and is left alone, through failures, restarts and jobs that share  *)
(* a directory, and whenever the API has the settings of the sprite.       *)
(***************************************************************************)
CuesHitTiles == (Agreed /\ None("edit")) \/ stored.sprite = api => CuesMatchSprite

(***************************************************************************)
(* A sprite has a tile for every moment of its video and no row too many.  *)
(***************************************************************************)
SpriteHoldsVideo ==
    IsGrid(stored.sprite) =>
        LET perRow == stored.sprite.columns * Ticks(stored.sprite)
            rows == Rows(stored.sprite, length)
        IN  /\ length <= rows * perRow
            /\ rows = 1 \/ (rows - 1) * perRow < length

\* No job has found anything of another in its work directory, or what it has
\* found is what it makes itself.
NothingOdd ==
    ~crowded /\ ((None("stop") /\ None("keep")) \/ (None("fail") /\ None("edit")))

(***************************************************************************)
(* An image playlist that is listed in the master playlist of a ready      *)
(* video describes the sprite next to it, although either can be left over *)
(* in SeaweedFS from an earlier job that failed, or in the work directory. *)
(* What breaks it is a file that could not be written, another job at work *)
(* in the directory, or a directory that was left behind by a job and then *)
(* found by one that fails or has other settings.                          *)
(***************************************************************************)
ImagesAgree ==
    status = "ready" /\ stored.listed /\ None("disk") /\ NothingOdd =>
        IsGrid(stored.copy) /\ stored.playlist = stored.copy

\* The video is long enough for a tile, whichever grid it gets.
FillsTile == \A s \in Setting : HasFrame(Read(s), length)

(***************************************************************************)
(* A video that is ready has the pictures that GetVideo and GetStoryboard  *)
(* give URLs of, whole, unless a call failed whose error is only logged or *)
(* another job was at work in the directory; a video of at most a second   *)
(* has no poster frame, and one of less than half an interval no sprite.   *)
(***************************************************************************)
ThumbsThere ==
    status = "ready" /\ None("fail") /\ ~crowded =>
        /\ FillsTile => IsGrid(stored.sprite)
        /\ length > Second => stored.preview
=============================================================================
