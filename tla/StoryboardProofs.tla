-------------------------- MODULE StoryboardProofs --------------------------
(***************************************************************************)
(* Proofs about Storyboard: the arithmetic of tiles and cues for every     *)
(* grid and every length, and the invariants for every .env, any number of *)
(* tasks and any budget of faults.                                         *)
(***************************************************************************)
EXTENDS Storyboard, TLAPS

-----------------------------------------------------------------------------
(* Arithmetic *)

LEMMA DivFact ==
    ASSUME NEW a \in Int, NEW b \in Nat \ {0}
    PROVE  /\ a \div b \in Int
           /\ b * (a \div b) <= a
           /\ a < b * (a \div b) + b
  BY SMT

LEMMA ModFact ==
    ASSUME NEW a \in Nat, NEW b \in Nat \ {0}
    PROVE  /\ a \div b \in Nat
           /\ a % b \in 0..b - 1
           /\ a = (a \div b) * b + (a % b)
  BY SMT

LEMMA MulLess ==
    ASSUME NEW x \in Int, NEW y \in Int, NEW z \in Nat \ {0}
    PROVE  /\ x <= y => x * z <= y * z
           /\ x * z < y * z => x < y
           /\ x * z \in Int
  BY SMT

\* Rounding up: the quotient suffices, and one less does not.
LEMMA CeilDivFact ==
    ASSUME NEW a \in Nat, NEW b \in Nat \ {0}
    PROVE  /\ CeilDiv(a, b) \in Nat
           /\ a <= CeilDiv(a, b) * b
           /\ (CeilDiv(a, b) - 1) * b < a
           /\ a > 0 => CeilDiv(a, b) > 0
  <1> DEFINE q == (a + b - 1) \div b
  <1>1. q \in Int /\ b * q <= a + b - 1 /\ a + b - 1 < b * q + b
    BY DivFact, a + b - 1 \in Int
  <1> HIDE DEF q
  <1>2. b * q > -1 + a
    BY <1>1
  <1>3. b * (q - 1) = b * q - b /\ q * b = b * q /\ (q - 1) * b = b * (q - 1)
    BY <1>1, SMT
  <1>4. a <= q * b /\ (q - 1) * b < a
    BY <1>1, <1>2, <1>3, SMT
  <1>5. q >= 0
    <2> SUFFICES ASSUME q <= -1 PROVE FALSE
      BY <1>1
    <2>1. q * b <= (-1) * b /\ q * b \in Int
      BY <1>1, MulLess, -1 \in Int
    <2>2. (-1) * b < 0
      BY SMT
    <2> QED
      BY <2>1, <2>2, <1>4, SMT
  <1>6. a > 0 => q > 0
    <2> SUFFICES ASSUME a > 0, q = 0 PROVE FALSE
      BY <1>1, <1>5
    <2> QED
      BY <1>4, SMT
  <1> QED
    BY <1>1, <1>4, <1>5, <1>6 DEF CeilDiv, q

LEMMA GridFact ==
    ASSUME NEW g \in Grid
    PROVE  /\ g.interval \in Nat \ {0} /\ g.width \in Nat \ {0}
           /\ g.height \in Nat \ {0} /\ g.columns \in Nat \ {0}
           /\ Ticks(g) \in Nat \ {0}
  <1>1. g.interval \in Nat \ {0} /\ g.width \in Nat \ {0}
        /\ g.height \in Nat \ {0} /\ g.columns \in Nat \ {0}
    BY DEF Grid, Dimension
  <1>2. g.interval * Second \in Nat \ {0}
    BY <1>1, TimeAssumption, SMT
  <1> QED
    BY <1>1, <1>2 DEF Ticks

\* The two programs count the same tiles, enough for the video and no more.
LEMMA CountFact ==
    ASSUME NEW g \in Grid, NEW d \in Nat
    PROVE  /\ CueCount(g, d) = TileCount(g, d)
           /\ TileCount(g, d) \in Nat \ {0}
           /\ d <= TileCount(g, d) * Ticks(g)
           /\ d > 0 => (TileCount(g, d) - 1) * Ticks(g) < d
           /\ d = 0 => TileCount(g, d) = 1
  <1>1. Ticks(g) \in Nat \ {0}
    BY GridFact
  <1> DEFINE c == CeilDiv(d, Ticks(g))
  <1>2. /\ c \in Nat
        /\ d <= c * Ticks(g)
        /\ (c - 1) * Ticks(g) < d
        /\ d > 0 => c > 0
    BY <1>1, CeilDivFact
  <1>3. TileCount(g, d) = AtLeast1(c) /\ CueCount(g, d) = AtLeast1(c)
    BY DEF TileCount, CueCount
  <1> HIDE DEF c
  <1>4. d = 0 => c = 0
    <2> SUFFICES ASSUME d = 0, c >= 1 PROVE FALSE
      BY <1>2
    <2>1. 0 * Ticks(g) <= (c - 1) * Ticks(g)
      BY <1>1, <1>2, MulLess, 0 \in Int, c - 1 \in Int, 0 <= c - 1
    <2> QED
      BY <1>1, <1>2, <2>1, SMT
  <1>5. CASE c = 0
    BY <1>1, <1>2, <1>3, <1>5, SMT DEF AtLeast1
  <1>6. CASE c > 0
    BY <1>1, <1>2, <1>3, <1>4, <1>6, SMT DEF AtLeast1
  <1> QED
    BY <1>2, <1>5, <1>6

LEMMA RowsFact ==
    ASSUME NEW g \in Grid, NEW d \in Nat
    PROVE  /\ Rows(g, d) \in Nat \ {0}
           /\ TileCount(g, d) <= Rows(g, d) * g.columns
           /\ (Rows(g, d) - 1) * g.columns < TileCount(g, d)
  <1> DEFINE t == TileCount(g, d)
             c == g.columns
  <1>1. c \in Nat \ {0} /\ t \in Nat \ {0}
    BY GridFact, CountFact
  <1>2. Rows(g, d) = CeilDiv(t, c)
    BY DEF Rows
  <1> HIDE DEF t, c
  <1>3. t \in Nat /\ t > 0
    BY <1>1
  <1>4. /\ CeilDiv(t, c) \in Nat
        /\ t <= CeilDiv(t, c) * c
        /\ (CeilDiv(t, c) - 1) * c < t
        /\ CeilDiv(t, c) > 0
    BY <1>1, <1>3, CeilDivFact
  <1> QED
    BY <1>2, <1>4 DEF t, c

\* A sprite holds its video, and its last row is needed.
LEMMA SheetFact ==
    ASSUME NEW g \in Grid, NEW d \in Nat
    PROVE  /\ d <= Rows(g, d) * (g.columns * Ticks(g))
           /\ Rows(g, d) = 1 \/ (Rows(g, d) - 1) * (g.columns * Ticks(g)) < d
  <1> DEFINE n == TileCount(g, d)
             r == Rows(g, d)
             c == g.columns
             u == Ticks(g)
  <1>1. c \in Nat \ {0} /\ u \in Nat \ {0} /\ n \in Nat \ {0} /\ r \in Nat \ {0}
    BY GridFact, CountFact, RowsFact
  <1>2. n <= r * c /\ (r - 1) * c < n
    BY RowsFact
  <1>3. /\ d <= n * u
        /\ d > 0 => (n - 1) * u < d
        /\ d = 0 => n = 1
    BY CountFact
  <1> HIDE DEF n, r, c, u
  <1>4. r * (c * u) = (r * c) * u /\ (r - 1) * (c * u) = ((r - 1) * c) * u
    BY <1>1, SMT
  <1>5. r * c \in Int /\ (r - 1) * c \in Int
    BY <1>1, SMT
  <1>6. n * u <= (r * c) * u
    BY <1>1, <1>2, <1>5, MulLess
  <1>7. d <= r * (c * u)
    BY <1>1, <1>3, <1>4, <1>5, <1>6, MulLess, SMT
  <1>8. r = 1 \/ (r - 1) * (c * u) < d
    <2>1. ((r - 1) * c) * u <= (n - 1) * u
      <3>1. (r - 1) * c <= n - 1 /\ n - 1 \in Int
        BY <1>1, <1>2, <1>5
      <3> QED
        BY <1>1, <1>5, <3>1, MulLess
    <2>2. (n - 1) * u \in Int /\ ((r - 1) * c) * u \in Int
      BY <1>1, <1>5, MulLess, n - 1 \in Int
    <2>3. CASE d > 0
      BY <1>3, <1>4, <2>1, <2>2, <2>3
    <2>4. CASE d = 0
      <3>1. (r - 1) * c < 1
        BY <1>2, <1>3, <2>4
      <3>2. r - 1 >= 1 => 1 * c <= (r - 1) * c
        BY <1>1, MulLess, r - 1 \in Int, 1 \in Int
      <3> QED
        BY <1>1, <1>5, <3>1, <3>2
    <2> QED
      BY <2>3, <2>4
  <1> QED
    BY <1>7, <1>8 DEF r, c, u

\* The cues of a grid cover a video of length d.
LEMMA CoverFact ==
    ASSUME NEW g \in Grid, NEW d \in Nat
    PROVE  LET last == CueCount(g, d) - 1
           IN  /\ Cue(g, d, 0).start = 0
               /\ Cue(g, d, last).end = d
               /\ \A i \in 0..last :
                    /\ i < last => Cue(g, d, i).end = Cue(g, d, i + 1).start
                    /\ d > 0 => Cue(g, d, i).start < Cue(g, d, i).end
  <1> DEFINE u == Ticks(g)
             n == CueCount(g, d)
  <1>1. /\ u \in Nat \ {0} /\ n \in Nat \ {0}
        /\ d <= n * u
        /\ d > 0 => (n - 1) * u < d
        /\ d = 0 => n = 1
    BY GridFact, CountFact
  <1>2. \A i : /\ Cue(g, d, i).start = i * u
               /\ Cue(g, d, i).end = IF (i + 1) * u > d THEN d ELSE (i + 1) * u
    BY DEF Cue
  <1> HIDE DEF u, n
  <1>3. Cue(g, d, 0).start = 0
    BY <1>1, <1>2, SMT
  <1>4. Cue(g, d, n - 1).end = d
    <2>1. (n - 1) + 1 = n
      BY <1>1
    <2>2. n * u \in Int
      BY <1>1, MulLess
    <2> QED
      BY <1>1, <1>2, <2>1, <2>2
  <1>5. ASSUME NEW i \in 0..n - 1
        PROVE  /\ i < n - 1 => Cue(g, d, i).end = Cue(g, d, i + 1).start
               /\ d > 0 => Cue(g, d, i).start < Cue(g, d, i).end
    <2>1. i \in Int /\ i + 1 \in Int /\ n - 1 \in Int
      BY <1>1
    <2>2. i * u \in Int /\ (i + 1) * u \in Int /\ (n - 1) * u \in Int
      BY <1>1, <2>1, MulLess
    <2>3. i * u <= (n - 1) * u
      BY <1>1, <2>1, MulLess
    <2>4. (i + 1) * u = i * u + u
      BY <1>1, <2>1, SMT
    <2>5. ASSUME i < n - 1 PROVE Cue(g, d, i).end = Cue(g, d, i + 1).start
      <3>1. (i + 1) * u <= (n - 1) * u
        BY <1>1, <2>1, <2>5, MulLess
      <3>2. d > 0
        BY <1>1, <2>5
      <3>3. ~((i + 1) * u > d)
        BY <1>1, <2>2, <3>1, <3>2
      <3> QED
        BY <1>2, <3>3
    <2>6. ASSUME d > 0 PROVE Cue(g, d, i).start < Cue(g, d, i).end
      <3>1. i * u < d
        BY <1>1, <2>2, <2>3, <2>6
      <3>2. i * u < (i + 1) * u
        BY <1>1, <2>2, <2>4
      <3> QED
        BY <1>2, <3>1, <3>2
    <2> QED
      BY <2>5, <2>6
  <1> QED
    BY <1>3, <1>4, <1>5 DEF n

\* Cue i points to tile i of a sprite of the same grid.
LEMMA PointFact ==
    ASSUME NEW g \in Grid, NEW d \in Nat, NEW i \in 0..CueCount(g, d) - 1
    PROVE  PointsTo(Cue(g, d, i), g, d)
  <1> DEFINE c == g.columns
             r == Rows(g, d)
             row == i \div c
             col == i % c
  <1>1. c \in Nat \ {0} /\ r \in Nat \ {0} /\ i \in Nat
    BY GridFact, RowsFact, CountFact
  <1>2. i < r * c /\ r * c \in Int
    <2>1. CueCount(g, d) <= r * c /\ CueCount(g, d) \in Nat
      BY CountFact, RowsFact
    <2>2. r * c \in Int
      BY <1>1, MulLess
    <2> QED
      BY <2>1, <2>2, <1>1
  <1>3. /\ Cue(g, d, i).x = col * g.width
        /\ Cue(g, d, i).y = row * g.height
        /\ Cue(g, d, i).start = i * Ticks(g)
    BY DEF Cue
  <1>4. row \in Nat /\ col \in 0..c - 1 /\ i = row * c + col
    BY <1>1, ModFact
  <1> HIDE DEF c, r, row, col
  <1>5. row < r
    <2>1. row * c < r * c
      BY <1>1, <1>2, <1>4, MulLess
    <2> QED
      BY <1>1, <1>4, <2>1, MulLess
  <1>6. row \in 0..r - 1
    BY <1>1, <1>4, <1>5
  <1> QED
    BY <1>3, <1>4, <1>6 DEF PointsTo, c, r

-----------------------------------------------------------------------------
(***************************************************************************)
(* What is inductive together with the invariants of Storyboard            *)
(***************************************************************************)

BudgetInv == \A k \in FaultKind : budget[k] <= Budget[k]

\* All grids are read from .env: without an edit, from what it says now.
EnvInv ==
    /\ \E s \in Setting : worker = Read(s)
    /\ None("edit") =>
        /\ api = Read(env["api"])
        /\ worker = Read(env["transcoder"])
        /\ local.sprite \in {Absent, Broken, worker}
        /\ stored.sprite \in {Absent, Broken, worker}
        /\ ~HasFrame(worker, length) => NoImages

\* No job has left anything, and none finds what it does not make itself.
Clean == None("stop") /\ None("keep")
Same == None("fail") /\ None("edit")

\* Where nothing was left, there is nothing.
LeftInv == Clean /\ Busy = {} => local = Empty

\* And what a job that is alone has made there since agrees.
DirInv ==
    Clean /\ None("disk") =>
        /\ local.sprite \in {Absent, worker}
        /\ local.copy \in {Absent, worker}
        /\ local.playlist = local.copy

\* What a reader of SeaweedFS finds: pictures that are there and whole, and an
\* image playlist that describes the sprite next to it.
Shown ==
    /\ FillsTile => IsGrid(stored.sprite)
    /\ length > Second => stored.preview
Matched == stored.listed => IsGrid(stored.copy) /\ stored.playlist = stored.copy

\* What a job that is alone has at each of its stages.
JobInv(w) ==
    /\ None("fail") =>
        /\ stage[w] \in {"sprite", "images", "master", "upload", "thumbs"} /\ length > Second =>
             "preview" \in made[w] /\ local.preview
        /\ stage[w] \in {"images", "master", "upload", "thumbs", "sprites"} =>
             "sprite" \in made[w] /\ (HasFrame(worker, length) => local.sprite = worker)
        /\ stage[w] = "sprites" /\ length > Second => stored.preview
        /\ stage[w] = "publish" => Shown
    /\ None("disk") =>
        /\ Same /\ stage[w] = "master" /\ HasFrame(worker, length) =>
             local.copy = worker /\ local.playlist = worker
        /\ (Clean \/ Same) /\ stage[w] = "upload" /\ local.listed =>
             IsGrid(local.copy) /\ local.playlist = local.copy
        /\ (Clean \/ Same) /\ stage[w] \in {"thumbs", "sprites", "publish"} => Matched

\* A video that is ready is not being worked on, and has what it needs.
VideoInv ==
    status = "ready" =>
        /\ \A w \in Slot : stage[w] \in {"idle", "down", "cleanup"}
        /\ None("fail") => Shown
        /\ None("disk") /\ (Clean \/ Same) => Matched

AloneInv ==
    ~crowded =>
        /\ \A v, w \in Busy : v = w
        /\ VideoInv
        /\ DirInv
        /\ \A w \in Slot : JobInv(w)

StoryboardInv == TypeOK /\ BudgetInv /\ EnvInv /\ LeftInv /\ AloneInv

-----------------------------------------------------------------------------
(* Type correctness and the budget *)

LEMMA ReadFact == ASSUME NEW s \in Setting PROVE Read(s) \in Grid
  <1>1. s \in [Dimension -> Nat] /\ Default \in [Dimension -> Nat \ {0}]
    BY SettingAssumption, DefaultAssumption DEF Grid
  <1>2. \A k \in Dimension : (IF s[k] < 1 THEN Default[k] ELSE s[k]) \in Nat \ {0}
    BY <1>1
  <1> QED
    BY <1>2 DEF Read, Grid

LEMMA PayFact ==
    ASSUME TypeOK, BudgetInv, NEW k \in FaultKind, Pay(k)
    PROVE  /\ budget' \in [FaultKind -> Nat]
           /\ BudgetInv'
           /\ ~None(k)'
           /\ \A j \in FaultKind : None(j)' => None(j)
  <1>1. budget \in [FaultKind -> Nat] /\ Budget \in [FaultKind -> Nat]
    BY BudgetAssumption DEF TypeOK
  <1>2. budget' = [budget EXCEPT ![k] = budget[k] - 1] /\ budget[k] > 0
    BY DEF Pay
  <1>3. budget' \in [FaultKind -> Nat]
    BY <1>1, <1>2
  <1>4. \A j \in FaultKind : budget'[j] = IF j = k THEN budget[k] - 1 ELSE budget[j]
    BY <1>1, <1>2
  <1>5. \A j \in FaultKind : budget[j] \in Nat /\ Budget[j] \in Nat /\ budget[j] <= Budget[j]
    BY <1>1 DEF BudgetInv
  <1> QED
    BY <1>3, <1>4, <1>5 DEF BudgetInv, None

LEMMA FreeFact ==
    ASSUME TypeOK, BudgetInv, budget' = budget
    PROVE  /\ budget' \in [FaultKind -> Nat]
           /\ BudgetInv'
           /\ \A j \in FaultKind : None(j)' = None(j)
  BY DEF TypeOK, BudgetInv, None

\* The steps of a job, and what it costs when one fails
LEMMA Costs ==
    ASSUME [Next]_vars
    PROVE  budget' = budget \/ \E k \in FaultKind : Pay(k)
  <1>1. \A w \in Slot : Process(w) => budget' = budget \/ \E k \in FaultKind : Pay(k)
    BY DEF Process, TakeTask, Probe, MakePreview, MakeSprite, WriteImages, WriteMaster, UploadHLS,
       UploadPreview, UploadSprite, Publish, RemoveWorkDir, Breaks, Fails, Free, FaultKind
  <1> QED
    BY <1>1 DEF Next, vars, EditEnv, StartApi, StartTranscoder, StopInJob, FaultKind

LEMMA BudgetStep ==
    ASSUME TypeOK, BudgetInv, [Next]_vars
    PROVE  /\ budget' \in [FaultKind -> Nat]
           /\ BudgetInv'
           /\ \A j \in FaultKind : None(j)' => None(j)
           /\ Clean' => Clean
           /\ Same' => Same
  <1>1. /\ budget' \in [FaultKind -> Nat]
        /\ BudgetInv'
        /\ \A j \in FaultKind : None(j)' => None(j)
    BY Costs, PayFact, FreeFact
  <1> QED
    BY <1>1 DEF Clean, Same, FaultKind

\* A fault that has occurred shows.
LEMMA PaidFact ==
    ASSUME TypeOK, BudgetInv, NEW k \in FaultKind, Pay(k)
    PROVE  ~None(k)'
  BY PayFact

LEMMA LocalTypes ==
    ASSUME TypeOK
    PROVE  /\ Empty \in Files
           /\ \A w \in Slot : HalfWritten(w) \subseteq Files /\ Written(w) \subseteq Files
           /\ \A f \in {"sprite", "copy", "playlist"} :
                local[f] \in Content /\ stored[f] \in Content
                    /\ Finds(f) \in Content /\ Uploads(f) \in Content
           /\ \A gone \in SUBSET DOMAIN Empty : Leftover(gone) \in Files
           /\ CutOff \subseteq Files
  <1>1. Empty \in Files
    BY DEF Empty, Files, Content
  <1>2. /\ local.sprite \in Content /\ local.copy \in Content /\ local.playlist \in Content
        /\ stored.sprite \in Content /\ stored.copy \in Content /\ stored.playlist \in Content
        /\ worker \in Content /\ Broken \in Content /\ Absent \in Content
        /\ local \in Files
    BY DEF TypeOK, Files, Content
  <1>3. \A w \in Slot : HalfWritten(w) \subseteq Files /\ Written(w) \subseteq Files
    BY <1>2 DEF HalfWritten, Written, Files
  <1>4. \A f \in {"sprite", "copy", "playlist"} :
          local[f] \in Content /\ stored[f] \in Content
              /\ Finds(f) \in Content /\ Uploads(f) \in Content
    BY <1>2 DEF Finds, Uploads
  <1>5. \A gone \in SUBSET DOMAIN Empty : Leftover(gone) \in Files
    <2> TAKE gone \in SUBSET DOMAIN Empty
    <2>1. CASE crowded
      BY <1>2, <1>4, <2>1 DEF Leftover, Files
    <2>2. CASE ~crowded
      BY <1>2, <2>2 DEF Leftover, Empty, Files, Content
    <2> QED
      BY <2>1, <2>2
  <1>6. CutOff \subseteq Files
    BY <1>2, <1>3, <1>5 DEF CutOff, Files
  <1> QED
    BY <1>1, <1>3, <1>4, <1>5, <1>6

-----------------------------------------------------------------------------
(* The types *)

LEMMA TypeInit == Init => TypeOK
  <1> SUFFICES ASSUME Init PROVE TypeOK
    OBVIOUS
  <1>1. Empty \in Files
    BY DEF Empty, Files, Content
  <1>2. /\ env \in [{"api", "transcoder"} -> Setting]
        /\ api \in Grid /\ worker \in Grid
    BY ReadFact DEF Init
  <1>3. stage \in [Slot -> Stage] /\ made \in [Slot -> SUBSET {"preview", "sprite"}]
    BY DEF Init, Stage
  <1>4. tasks \in 0..Tasks
    BY TimeAssumption DEF Init
  <1> QED
    BY <1>1, <1>2, <1>3, <1>4, BudgetAssumption DEF Init, TypeOK

\* What a job that goes on leaves alone
LEMMA GoesFact ==
    ASSUME TypeOK, NEW w \in Slot, NEW from, NEW to \in Stage, Goes(w, from, to)
    PROVE  /\ stage[w] = from /\ stage'[w] = to
           /\ \A v \in Slot : v # w => stage'[v] = stage[v]
           /\ stage' \in [Slot -> Stage]
           /\ UNCHANGED <<env, api, worker, length, tasks, crowded>>
           /\ from \notin {"idle", "down"} => w \in Busy
  BY DEF TypeOK, Goes, Busy

\* What a job does, once it has its task
LEMMA ProcessGoes ==
    ASSUME NEW w \in Slot, Process(w), ~TakeTask(w)
    PROVE  \E from \in Stage \ {"idle", "down"}, to \in Stage :
              /\ Goes(w, from, to)
              /\ ~RemoveWorkDir(w) => to \notin {"idle", "down"}
  BY DEF Process, Probe, MakePreview, MakeSprite, WriteImages, WriteMaster, UploadHLS,
     UploadPreview, UploadSprite, Publish, RemoveWorkDir, Breaks, Stage

LEMMA TypeProcess ==
    ASSUME TypeOK, NEW w \in Slot, Process(w)
    PROVE  /\ UNCHANGED <<env, api, worker, length>>
           /\ tasks' \in 0..Tasks /\ crowded' \in BOOLEAN
           /\ stage' \in [Slot -> Stage]
           /\ duration' \in {Absent, length}
           /\ status' \in {"pending", "processing", "ready", "failed"}
           /\ made' \in [Slot -> SUBSET {"preview", "sprite"}]
           /\ local' \in Files /\ stored' \in Files
  <1> USE DEF TypeOK
  <1>0. CASE TakeTask(w)
    <2>1. stage' = stage \/ stage' = [stage EXCEPT ![w] = "probe"]
      BY <1>0 DEF TakeTask
    <2>2. stage' \in [Slot -> Stage]
      BY <2>1 DEF Stage
    <2>3. tasks' \in 0..Tasks /\ UNCHANGED <<env, api, worker, length>>
      BY <1>0, TimeAssumption DEF TakeTask
    <2>5. crowded' \in BOOLEAN
      <3>1. crowded' = (Busy # {}) \/ crowded' = crowded
        BY <1>0 DEF TakeTask
      <3> QED
        BY <3>1, Zenon
    <2>4. status' \in {"pending", "processing", "ready", "failed"}
      BY <1>0 DEF TakeTask
    <2> QED
      BY <1>0, <2>2, <2>3, <2>4, <2>5 DEF TakeTask
  <1>1. CASE ~TakeTask(w)
   <2>1. PICK from \in Stage, to \in Stage : Goes(w, from, to)
      BY <1>1, ProcessGoes
   <2>2. /\ UNCHANGED <<env, api, worker, length, tasks, crowded>>
         /\ stage' \in [Slot -> Stage]
      BY <2>1, GoesFact
   <2>4. /\ duration' \in {Absent, length}
         /\ status' \in {"pending", "processing", "ready", "failed"}
     BY DEF Process, TakeTask, Probe, MakePreview, MakeSprite, WriteImages, WriteMaster, UploadHLS,
        UploadPreview, UploadSprite, Publish, RemoveWorkDir, Breaks
   <2>5. made' \in [Slot -> SUBSET {"preview", "sprite"}]
     BY DEF Process, TakeTask, Probe, MakePreview, MakeSprite, WriteImages, WriteMaster, UploadHLS,
        UploadPreview, UploadSprite, Publish, RemoveWorkDir, Breaks
   <2>6. local' \in Files
     <3>1. CASE MakePreview(w) \/ MakeSprite(w)
       BY <3>1 DEF MakePreview, MakeSprite, Leaves, Files, Content
     <3>2. CASE WriteImages(w)
       BY <3>2, LocalTypes DEF WriteImages, Leaves
     <3>3. CASE WriteMaster(w)
       BY <3>3 DEF WriteMaster, Leaves, Files, Breaks
     <3>4. CASE RemoveWorkDir(w)
       BY <3>4, LocalTypes DEF RemoveWorkDir
     <3> QED
       BY <3>1, <3>2, <3>3, <3>4 DEF Process, TakeTask, Probe, UploadHLS, UploadPreview,
          UploadSprite, Publish, Breaks
   <2>7. stored' \in Files
     <3>1. CASE UploadHLS(w)
       <4>1. \A l \in UploadsList \union {stored.listed} : l \in BOOLEAN
         BY DEF UploadsList, Files
       <4>2. /\ Uploads("copy") \in Content /\ Uploads("playlist") \in Content
             /\ stored.copy \in Content /\ stored.playlist \in Content
         BY LocalTypes
       <4> QED
         BY <3>1, <4>1, <4>2 DEF UploadHLS, Files
     <3>2. CASE UploadPreview(w)
       BY <3>2 DEF UploadPreview, Files
     <3>3. CASE UploadSprite(w)
       BY <3>3, LocalTypes DEF UploadSprite, Files
     <3> QED
       BY <3>1, <3>2, <3>3 DEF Process, TakeTask, Probe, MakePreview, MakeSprite, WriteImages,
          WriteMaster, Publish, RemoveWorkDir
   <2> QED
     BY <2>2, <2>4, <2>5, <2>6, <2>7
  <1> QED
    BY <1>0, <1>1

LEMMA TypeStep == ASSUME TypeOK, BudgetInv, [Next]_vars PROVE TypeOK'
  <1>1. budget' \in [FaultKind -> Nat]
    BY BudgetStep
  <1>2. CASE EditEnv \/ StartApi \/ UNCHANGED vars
    BY <1>1, <1>2, ReadFact DEF TypeOK, EditEnv, StartApi, vars, jobVars
  <1>3. CASE StartTranscoder
    BY <1>1, <1>3, ReadFact DEF TypeOK, StartTranscoder, Stage
  <1>4. CASE StopInJob
    <2>1. local' \in Files
      BY <1>4, LocalTypes DEF StopInJob
    <2> QED
      BY <1>1, <1>4, <2>1 DEF TypeOK, StopInJob, Stage
  <1>5. ASSUME NEW w \in Slot, Process(w) PROVE TypeOK'
    BY <1>1, <1>5, TypeProcess DEF TypeOK
  <1> QED
    BY <1>2, <1>3, <1>4, <1>5 DEF Next

-----------------------------------------------------------------------------
(* The rest of the inductive invariant *)

LEMMA WorkerFact ==
    ASSUME TypeOK
    PROVE  worker \notin {Absent, Broken} /\ IsGrid(worker) /\ Absent # Broken
           /\ length \in Nat
  BY AbsentAssumption, BrokenAssumption, TimeAssumption DEF TypeOK, IsGrid

LEMMA InitInv == Init => StoryboardInv
  <1> SUFFICES ASSUME Init PROVE StoryboardInv
    OBVIOUS
  <1>1. TypeOK
    BY TypeInit
  <1>2. BudgetInv
    BY BudgetAssumption DEF Init, BudgetInv
  <1>3. EnvInv
    BY <1>1 DEF Init, EnvInv, Empty, NoImages, TypeOK
  <1>4. LeftInv
    BY DEF Init, LeftInv
  <1>5. AloneInv
    BY DEF Init, AloneInv, Busy, VideoInv, DirInv, JobInv, Empty
  <1> QED
    BY <1>1, <1>2, <1>3, <1>4, <1>5 DEF StoryboardInv

\* What the steps make of the sprites
LEMMA SpriteFact ==
    ASSUME TypeOK, NEW w \in Slot, Process(w)
    PROVE  /\ local'.sprite \in {local.sprite, Absent, Broken, worker}
           /\ stored'.sprite \in {stored.sprite, local.sprite, Absent, Broken}
           /\ ~HasFrame(worker, length) /\ NoImages => NoImages'
  <1> USE DEF TypeOK
  <1>0. local \in Files /\ stored \in Files
    OBVIOUS
  <1>1. CASE MakePreview(w) \/ MakeSprite(w) \/ WriteMaster(w)
    BY <1>0, <1>1 DEF MakePreview, MakeSprite, WriteMaster, Breaks, Leaves, NoImages, Files
  <1>2. CASE WriteImages(w)
    <2>1. PICK new \in HalfWritten(w) \union Written(w) : Leaves(new)
      BY <1>2 DEF WriteImages
    <2>2. new.sprite = local.sprite
      BY <1>0, <2>1 DEF HalfWritten, Written, Files
    <2>3. local.sprite = Absent => new = local
      BY <2>1 DEF HalfWritten, Written
    <2> QED
      BY <1>2, <2>1, <2>2, <2>3 DEF WriteImages, Leaves, NoImages
  <1>3. CASE RemoveWorkDir(w)
    <2>1. Empty.sprite = Absent /\ Empty.copy = Absent /\ Empty.playlist = Absent
      BY DEF Empty
    <2>2. ASSUME NEW gone \in SUBSET DOMAIN Empty
          PROVE  /\ Leftover(gone).sprite \in {local.sprite, Absent, Broken}
                 /\ ~HasFrame(worker, length) /\ NoImages =>
                        /\ Leftover(gone).sprite = Absent
                        /\ Leftover(gone).copy = Absent
                        /\ Leftover(gone).playlist = Absent
      <3>1. CASE crowded
        BY <1>0, <3>1 DEF Leftover, Finds, Files
      <3>2. CASE ~crowded
        BY <1>0, <3>2, <2>1 DEF Leftover, NoImages, Files, Empty
      <3> QED
        BY <3>1, <3>2
    <2>3. local' \in {local, Empty} \/ \E gone \in SUBSET DOMAIN Empty : local' = Leftover(gone)
      BY <1>3 DEF RemoveWorkDir
    <2>4. stored' = stored
      BY <1>3 DEF RemoveWorkDir
    <2> QED
      BY <2>1, <2>2, <2>3, <2>4 DEF NoImages
  <1>4. CASE UploadHLS(w) \/ UploadPreview(w)
    BY <1>0, <1>4 DEF UploadHLS, UploadPreview, Breaks, Files, NoImages
  <1>5. CASE UploadSprite(w)
    BY <1>0, <1>5 DEF UploadSprite, Uploads, Finds, Files, NoImages
  <1>6. CASE TakeTask(w) \/ Probe(w) \/ Publish(w)
    BY <1>6 DEF TakeTask, Probe, Publish, Breaks, NoImages
  <1> QED
    BY <1>1, <1>2, <1>3, <1>4, <1>5, <1>6 DEF Process

\* Without an edit the programs read again what they have read before.
LEMMA EnvStep == ASSUME StoryboardInv, [Next]_vars PROVE EnvInv'
  <1> USE DEF StoryboardInv
  <1>0. None("edit")' => None("edit")
    BY BudgetStep DEF FaultKind
  <1>1. CASE EditEnv
    <2>1. ~None("edit")'
      BY <1>1, PaidFact DEF EditEnv, FaultKind
    <2> QED
      BY <1>1, <2>1 DEF EditEnv, EnvInv
  <1>2. CASE StartApi \/ UNCHANGED vars
    BY <1>0, <1>2 DEF StartApi, vars, jobVars, EnvInv, NoImages
  <1>3. CASE StartTranscoder
    BY <1>0, <1>3 DEF StartTranscoder, EnvInv, TypeOK, NoImages
  <1>4. CASE StopInJob
    <2>1. local' \in {Empty} \union CutOff /\ UNCHANGED <<env, api, worker, length, stored>>
      BY <1>4 DEF StopInJob
    <2>2. \A l \in {Empty} \union CutOff :
            /\ l.sprite \in {local.sprite, Absent, Broken}
            /\ ~HasFrame(worker, length) /\ NoImages =>
                 l.sprite = Absent /\ l.copy = Absent /\ l.playlist = Absent
      <3>0. local \in Files
        BY DEF TypeOK
      <3>1. Empty.sprite = Absent /\ Empty.copy = Absent /\ Empty.playlist = Absent
        BY DEF Empty
      <3>2. /\ Leftover({}).sprite \in {local.sprite, Absent, Broken}
            /\ ~HasFrame(worker, length) /\ NoImages =>
                 /\ Leftover({}).sprite = Absent
                 /\ Leftover({}).copy = Absent
                 /\ Leftover({}).playlist = Absent
        <4>1. CASE crowded
          BY <3>0, <4>1 DEF Leftover, Finds, Files
        <4>2. CASE ~crowded
          BY <3>0, <4>2 DEF Leftover, NoImages, Files, Empty
        <4> QED
          BY <4>1, <4>2
      <3>3. \A w \in Slot : \A l \in HalfWritten(w) :
              /\ l.sprite = local.sprite
              /\ NoImages => l = local
        BY <3>0 DEF HalfWritten, Files, NoImages
      <3>4. LET l == [local EXCEPT !.sprite = Broken] IN l.sprite = Broken
        BY <3>0 DEF Files
      <3>5. ASSUME NEW l \in CutOff
            PROVE  \/ l = Leftover({})
                   \/ \E w \in Slot : l \in HalfWritten(w)
                   \/ l = [local EXCEPT !.sprite = Broken] /\ HasFrame(worker, length)
        BY DEF CutOff
      <3> QED
        BY <3>1, <3>2, <3>3, <3>4, <3>5 DEF NoImages
    <2> QED
      BY <1>0, <2>1, <2>2 DEF EnvInv, NoImages
  <1>5. ASSUME NEW w \in Slot, Process(w) PROVE EnvInv'
    <2>1. UNCHANGED <<env, api, worker, length>>
      BY <1>5, TypeProcess
    <2> QED
      BY <1>0, <1>5, <2>1, SpriteFact DEF EnvInv
  <1> QED
    BY <1>1, <1>2, <1>3, <1>4, <1>5 DEF Next

\* The last job removes its directory, unless it fails to.
LEMMA LeftStep == ASSUME StoryboardInv, [Next]_vars PROVE LeftInv'
  <1> USE DEF StoryboardInv
  <1>0. Clean' => Clean
    BY BudgetStep
  <1>1. CASE EditEnv \/ StartApi \/ UNCHANGED vars
    BY <1>0, <1>1 DEF EditEnv, StartApi, vars, jobVars, LeftInv, Busy
  <1>2. CASE StartTranscoder
    BY <1>0, <1>2 DEF StartTranscoder, LeftInv
  <1>3. CASE StopInJob
    <2>1. ~Clean'
      BY <1>3, PaidFact DEF StopInJob, FaultKind, Clean
    <2> QED
      BY <2>1 DEF LeftInv
  <1>4. ASSUME NEW w \in Slot, RemoveWorkDir(w) PROVE LeftInv'
    <2>1. CASE Pay("keep")
      <3>1. ~Clean'
        BY <2>1, PaidFact DEF FaultKind, Clean
      <3> QED
        BY <3>1 DEF LeftInv
    <2>2. CASE ~Pay("keep")
      <3>1. local' = IF Busy = {w} THEN Empty ELSE local
        BY <1>4, <2>2 DEF RemoveWorkDir
      <3>2. /\ stage[w] \in {"cleanup", "failed"}
            /\ \A v \in Slot : v # w => stage'[v] = stage[v]
        BY <1>4, GoesFact DEF RemoveWorkDir, Stage
      <3>3. Busy' = {} => Busy = {w}
        BY <3>2 DEF Busy
      <3> QED
        BY <3>1, <3>3 DEF LeftInv
    <2> QED
      BY <2>1, <2>2
  <1>5. ASSUME NEW w \in Slot, Process(w), ~RemoveWorkDir(w) PROVE LeftInv'
    <2>1. CASE stage'[w] \notin {"idle", "down"}
      BY <2>1 DEF LeftInv, Busy
    <2>2. CASE stage'[w] \in {"idle", "down"}
      <3>1. stage' = stage /\ local' = local
        <4>1. CASE TakeTask(w)
          BY <2>2, <4>1 DEF TakeTask, TypeOK
        <4>2. CASE ~TakeTask(w)
          <5>1. \E from, to \in Stage \ {"idle", "down"} : Goes(w, from, to)
            BY <1>5, <4>2, ProcessGoes
          <5> QED
            BY <2>2, <5>1, GoesFact
        <4> QED
          BY <4>1, <4>2
      <3> QED
        BY <1>0, <3>1 DEF LeftInv, Busy
    <2> QED
      BY <2>1, <2>2
  <1> QED
    BY <1>1, <1>2, <1>3, <1>4, <1>5 DEF Next, Process

-----------------------------------------------------------------------------
(* A job that is alone in its directory *)

\* What such a job can rely on.
LEMMA Working ==
    ASSUME StoryboardInv, ~crowded, [Next]_vars,
           NEW w \in Slot, NEW from \in Stage \ {"idle", "down"}, NEW to \in Stage, Goes(w, from, to)
    PROVE  /\ stage[w] = from /\ stage'[w] = to
           /\ \A v \in Slot : v # w => stage[v] \in {"idle", "down"} /\ stage'[v] = stage[v]
           /\ Busy = {w}
           /\ ~crowded'
           /\ UNCHANGED <<worker, length>>
           /\ from # "cleanup" => status # "ready"
           /\ JobInv(w) /\ DirInv /\ VideoInv
           /\ \A k \in FaultKind : None(k)' => None(k)
           /\ Clean' => Clean
           /\ Same' => Same
  <1>1. TypeOK /\ BudgetInv /\ AloneInv
    BY DEF StoryboardInv
  <1>2. /\ stage[w] = from /\ stage'[w] = to
        /\ \A v \in Slot : v # w => stage'[v] = stage[v]
        /\ UNCHANGED <<worker, length, crowded>>
        /\ w \in Busy
    BY <1>1, GoesFact
  <1>3. (\A v, u \in Busy : v = u) /\ JobInv(w) /\ DirInv /\ VideoInv
    BY <1>1 DEF AloneInv
  <1>4. Busy = {w}
    BY <1>2, <1>3
  <1>5. \A v \in Slot : v # w => stage[v] \in {"idle", "down"}
    BY <1>4 DEF Busy
  <1>6. from # "cleanup" => status # "ready"
    BY <1>2, <1>3 DEF VideoInv
  <1> QED
    BY <1>1, <1>2, <1>3, <1>4, <1>5, <1>6, BudgetStep

\* It is enough to look at that job and the video.
LEMMA AloneKeeps ==
    ASSUME ~crowded', NEW w \in Slot,
           \A v \in Slot : v # w => stage'[v] \in {"idle", "down"},
           VideoInv', DirInv', JobInv(w)'
    PROVE  AloneInv'
  <1>1. \A v \in Slot : v # w => JobInv(v)'
    BY DEF JobInv
  <1>2. \A v, u \in Busy' : v = u
    BY DEF Busy
  <1> QED
    BY <1>1, <1>2 DEF AloneInv

\* The poster frame of a video longer than a second is not behind its end.
LEMMA SeekFact ==
    ASSUME NEW d \in Nat, d > Second
    PROVE  Seek(d) < d
  <1>1. Second \in Nat \ {0}
    BY TimeAssumption
  <1>2. d \div 10 \in Int /\ 10 * (d \div 10) <= d
    BY DivFact, 10 \in Nat \ {0}
  <1>3. d \div 10 < d
    <2> DEFINE t == d \div 10
    <2>1. t \in Int /\ 10 * t <= d /\ d > 0
      BY <1>1, <1>2
    <2> HIDE DEF t
    <2>2. t < d
      BY <2>1, SMT
    <2> QED
      BY <2>2 DEF t
  <1> QED
    BY <1>1, <1>2, <1>3 DEF Seek

\* What the steps of a job that is alone leave as it was, and what that is worth
LEMMA SameDir ==
    ASSUME DirInv, local'.sprite = local.sprite, local'.copy = local.copy,
           local'.playlist = local.playlist, worker' = worker,
           None("disk")' => None("disk"), Clean' => Clean
    PROVE  DirInv'
  BY DEF DirInv

LEMMA AloneBreaks ==
    ASSUME StoryboardInv, ~crowded, [Next]_vars, NEW w \in Slot,
           NEW from \in Stage \ {"idle", "down", "cleanup"}, Breaks(w, from)
    PROVE  AloneInv'
  <1>1. Goes(w, from, "failed") /\ UNCHANGED <<status, local>>
    BY DEF Breaks
  <1>2. /\ stage'[w] = "failed" /\ status' # "ready" /\ ~crowded'
        /\ \A v \in Slot : v # w => stage'[v] \in {"idle", "down"}
    BY <1>1, Working DEF Stage
  <1>3. DirInv'
    BY <1>1, Working, SameDir DEF Stage, FaultKind
  <1>4. JobInv(w)' /\ VideoInv'
    BY <1>2 DEF JobInv, VideoInv
  <1> QED
    BY <1>2, <1>3, <1>4, AloneKeeps

\* The job goes on, with the video not ready before nor after.
LEMMA AloneGoes ==
    ASSUME StoryboardInv, ~crowded, [Next]_vars, NEW w \in Slot,
           NEW from \in Stage \ {"idle", "down", "cleanup"}, NEW to \in Stage, Goes(w, from, to),
           status' = status, DirInv', JobInv(w)'
    PROVE  AloneInv'
  <1>1. /\ status' # "ready" /\ ~crowded'
        /\ \A v \in Slot : v # w => stage'[v] \in {"idle", "down"}
    BY Working
  <1>2. VideoInv'
    BY <1>1 DEF VideoInv
  <1> QED
    BY <1>1, <1>2, AloneKeeps

LEMMA AlonePreview ==
    ASSUME StoryboardInv, ~crowded, [Next]_vars, NEW w \in Slot,
           Probe(w) \/ MakePreview(w)
    PROVE  AloneInv'
  <1>0. TypeOK /\ BudgetInv
    BY DEF StoryboardInv
  <1>1. CASE Probe(w)
    <2>1. CASE Breaks(w, "probe")
      BY <2>1, AloneBreaks DEF Stage
    <2>2. CASE Goes(w, "probe", "preview") /\ UNCHANGED <<status, local>>
      <3>1. DirInv'
        BY <2>2, Working, SameDir DEF Stage, FaultKind
      <3>2. JobInv(w)'
        BY <2>2, Working DEF Stage, JobInv
      <3> QED
        BY <2>2, <3>1, <3>2, AloneGoes DEF Stage
    <2> QED
      BY <1>1, <2>1, <2>2 DEF Probe
  <1>2. CASE MakePreview(w)
    <2>1. Goes(w, "preview", "sprite") /\ UNCHANGED <<status, stored>>
      BY <1>2 DEF MakePreview
    <2>2. stage'[w] = "sprite" /\ UNCHANGED <<worker, length>> /\ DirInv
          /\ (None("disk")' => None("disk")) /\ (None("fail")' => None("fail")) /\ (Clean' => Clean)
      BY <2>1, Working DEF Stage, FaultKind
    <2>3. local \in Files /\ length \in Nat /\ made \in [Slot -> SUBSET {"preview", "sprite"}]
      BY <1>0, WorkerFact DEF TypeOK
    <2>4. /\ local'.sprite = local.sprite /\ local'.copy = local.copy
          /\ local'.playlist = local.playlist
      BY <1>2, <2>3 DEF MakePreview, Leaves, Files
    <2>5. DirInv'
      BY <2>2, <2>4, SameDir
    <2>6. None("fail")' /\ length > Second => "preview" \in made'[w] /\ local'.preview
      <3> SUFFICES ASSUME None("fail")', length > Second
                   PROVE  "preview" \in made'[w] /\ local'.preview
        OBVIOUS
      <3>1. ~Pay("fail")
        BY <1>0, PaidFact DEF FaultKind
      <3>2. /\ made' = [made EXCEPT ![w] = @ \union {"preview"}]
            /\ local' = [local EXCEPT !.preview = @ \/ Seek(length) < length]
        BY <1>2, <3>1 DEF MakePreview, Leaves
      <3>3. Seek(length) < length
        BY <2>3, SeekFact
      <3>4. local'.preview = (local.preview \/ Seek(length) < length)
        BY <2>3, <3>2 DEF Files
      <3> QED
        BY <2>3, <3>2, <3>3, <3>4
    <2>7. JobInv(w)'
      BY <2>2, <2>6 DEF JobInv
    <2> QED
      BY <2>1, <2>5, <2>7, AloneGoes DEF Stage
  <1> QED
    BY <1>1, <1>2

LEMMA AloneSprite ==
    ASSUME StoryboardInv, ~crowded, [Next]_vars, NEW w \in Slot, MakeSprite(w)
    PROVE  AloneInv'
  <1>0. TypeOK /\ BudgetInv /\ local \in Files /\ made \in [Slot -> SUBSET {"preview", "sprite"}]
    BY DEF StoryboardInv, TypeOK
  <1>1. Goes(w, "sprite", "images") /\ UNCHANGED <<status, stored>>
    BY DEF MakeSprite
  <1>2. /\ stage[w] = "sprite" /\ stage'[w] = "images" /\ UNCHANGED <<worker, length>>
        /\ DirInv /\ JobInv(w)
        /\ (None("disk")' => None("disk")) /\ (None("fail")' => None("fail")) /\ (Clean' => Clean)
    BY <1>1, Working DEF Stage, FaultKind
  <1>3. /\ local'.sprite \in {local.sprite, worker}
        /\ local'.copy = local.copy /\ local'.playlist = local.playlist
        /\ local'.preview = local.preview
    BY <1>0 DEF MakeSprite, Leaves, Files
  <1>4. DirInv'
    BY <1>2, <1>3 DEF DirInv
  <1>5. None("fail")' =>
          /\ "sprite" \in made'[w]
          /\ HasFrame(worker, length) => local'.sprite = worker
          /\ "preview" \in made[w] => "preview" \in made'[w]
    <2> SUFFICES ASSUME None("fail")'
                 PROVE  /\ "sprite" \in made'[w]
                        /\ HasFrame(worker, length) => local'.sprite = worker
                        /\ "preview" \in made[w] => "preview" \in made'[w]
      OBVIOUS
    <2>1. ~Pay("fail")
      BY <1>0, PaidFact DEF FaultKind
    <2> QED
      BY <1>0, <2>1 DEF MakeSprite, Leaves, Files
  <1>6. JobInv(w)'
    <2>1. None("fail")' /\ length > Second => "preview" \in made'[w] /\ local'.preview
      BY <1>2, <1>3, <1>5 DEF JobInv
    <2> QED
      BY <1>2, <1>5, <2>1 DEF JobInv
  <1> QED
    BY <1>1, <1>4, <1>6, AloneGoes DEF Stage

LEMMA AloneImages ==
    ASSUME StoryboardInv, ~crowded, [Next]_vars, NEW w \in Slot, WriteImages(w)
    PROVE  AloneInv'
  <1>0. /\ TypeOK /\ BudgetInv /\ local \in Files /\ made \in [Slot -> SUBSET {"preview", "sprite"}]
        /\ worker \notin {Absent, Broken} /\ Absent # Broken
    BY WorkerFact DEF StoryboardInv, TypeOK
  <1>1. Goes(w, "images", "master") /\ UNCHANGED <<status, stored, made>>
    BY DEF WriteImages
  <1>2. /\ stage[w] = "images" /\ stage'[w] = "master" /\ UNCHANGED <<worker, length>>
        /\ DirInv /\ JobInv(w)
        /\ (None("disk")' => None("disk")) /\ (None("fail")' => None("fail"))
        /\ (Clean' => Clean) /\ (Same' => Same)
    BY <1>1, Working DEF Stage, FaultKind
  <1>3. local' \in HalfWritten(w) \union Written(w)
    BY DEF WriteImages, Leaves
  <1>4. local'.sprite = local.sprite /\ local'.preview = local.preview
    BY <1>0, <1>3 DEF HalfWritten, Written, Files
  <1>5. None("disk")' => local' \in Written(w)
    <2> SUFFICES ASSUME None("disk")' PROVE local' \in Written(w)
      OBVIOUS
    <2>1. ~Pay("disk")
      BY <1>0, PaidFact DEF FaultKind
    <2> QED
      BY <2>1 DEF WriteImages, Leaves
  <1>6. DirInv'
    <2> SUFFICES ASSUME Clean', None("disk")'
                 PROVE  /\ local'.sprite \in {Absent, worker'}
                        /\ local'.copy \in {Absent, worker'}
                        /\ local'.playlist = local'.copy
      BY DEF DirInv
    <2>1. /\ local.sprite \in {Absent, worker} /\ local.copy \in {Absent, worker}
          /\ local.playlist = local.copy
      BY <1>2 DEF DirInv
    <2>2. \/ local' = local
          \/ /\ local' = [local EXCEPT !.copy = local.sprite, !.playlist = worker]
             /\ local.sprite # Absent
      BY <1>5 DEF Written
    <2> QED
      BY <1>0, <1>2, <2>1, <2>2 DEF Files
  <1>7. JobInv(w)'
    <2>1. Same' /\ None("disk")' /\ HasFrame(worker, length) =>
            local'.copy = worker /\ local'.playlist = worker
      <3> SUFFICES ASSUME Same', None("disk")', HasFrame(worker, length)
                   PROVE  local'.copy = worker /\ local'.playlist = worker
        OBVIOUS
      <3>1. None("fail")
        BY <1>2 DEF Same
      <3>2. "sprite" \in made[w] /\ local.sprite = worker
        BY <1>2, <3>1 DEF JobInv
      <3>3. local' = [local EXCEPT !.copy = local.sprite, !.playlist = worker]
        BY <1>0, <1>5, <3>2 DEF Written
      <3> QED
        BY <1>0, <3>2, <3>3 DEF Files
    <2> QED
      BY <1>1, <1>2, <1>4, <2>1 DEF JobInv
  <1> QED
    BY <1>1, <1>6, <1>7, AloneGoes DEF Stage

LEMMA AloneMaster ==
    ASSUME StoryboardInv, ~crowded, [Next]_vars, NEW w \in Slot, WriteMaster(w)
    PROVE  AloneInv'
  <1>0. /\ TypeOK /\ EnvInv /\ local \in Files
        /\ IsGrid(worker)
    BY WorkerFact DEF StoryboardInv, TypeOK
  <1>1. CASE Breaks(w, "master")
    BY <1>1, AloneBreaks DEF Stage
  <1>2. CASE ~Breaks(w, "master")
    <2>1. /\ Goes(w, "master", "upload") /\ UNCHANGED <<status, stored, made>>
          /\ local' = [local EXCEPT !.listed = local.playlist # Absent]
      BY <1>2 DEF WriteMaster, Leaves
    <2>2. /\ stage[w] = "master" /\ stage'[w] = "upload" /\ UNCHANGED <<worker, length>>
          /\ DirInv /\ JobInv(w)
          /\ (None("disk")' => None("disk")) /\ (None("fail")' => None("fail"))
          /\ (Clean' => Clean) /\ (Same' => Same)
      BY <2>1, Working DEF Stage, FaultKind
    <2>3. /\ local'.sprite = local.sprite /\ local'.preview = local.preview
          /\ local'.copy = local.copy /\ local'.playlist = local.playlist
          /\ local'.listed = (local.playlist # Absent)
      BY <1>0, <2>1 DEF Files
    <2>4. DirInv'
      BY <2>2, <2>3, SameDir
    <2>5. None("disk")' /\ (Clean' \/ Same') /\ local'.listed =>
            IsGrid(local'.copy) /\ local'.playlist = local'.copy
      <3> SUFFICES ASSUME None("disk"), Clean \/ Same, local.playlist # Absent
                   PROVE  IsGrid(local.copy) /\ local.playlist = local.copy
        BY <2>2, <2>3
      <3>1. CASE Clean
        BY <1>0, <2>2, <3>1 DEF DirInv
      <3>2. CASE Same
        <4>1. HasFrame(worker, length)
          BY <1>0, <3>2 DEF Same, EnvInv, NoImages
        <4> QED
          BY <1>0, <2>2, <3>2, <4>1 DEF JobInv
      <3> QED
        BY <3>1, <3>2
    <2>6. JobInv(w)'
      <3>1. None("fail")' =>
              /\ length > Second => "preview" \in made'[w] /\ local'.preview
              /\ "sprite" \in made'[w] /\ (HasFrame(worker, length) => local'.sprite = worker)
        BY <2>1, <2>2, <2>3 DEF JobInv
      <3>2. stage'[w] \notin {"master", "thumbs", "sprites", "publish"}
        BY <2>2
      <3> QED
        BY <2>2, <2>5, <3>1, <3>2 DEF JobInv, IsGrid
    <2> QED
      BY <2>1, <2>4, <2>6, AloneGoes DEF Stage
  <1> QED
    BY <1>1, <1>2

LEMMA AloneUpload ==
    ASSUME StoryboardInv, ~crowded, [Next]_vars, NEW w \in Slot, UploadHLS(w)
    PROVE  AloneInv'
  <1>0. /\ TypeOK /\ stored \in Files
    BY DEF StoryboardInv, TypeOK
  <1>1. CASE Breaks(w, "upload")
    BY <1>1, AloneBreaks DEF Stage
  <1>2. CASE ~Breaks(w, "upload")
    <2>1. /\ Goes(w, "upload", "thumbs") /\ UNCHANGED <<status, local, made>>
          /\ stored' = [stored EXCEPT !.copy = Uploads("copy"), !.playlist = Uploads("playlist"),
                                      !.listed = local.listed]
      BY <1>2 DEF UploadHLS, UploadsList
    <2>2. /\ stage[w] = "upload" /\ stage'[w] = "thumbs" /\ UNCHANGED <<worker, length>>
          /\ DirInv /\ JobInv(w)
          /\ (None("disk")' => None("disk")) /\ (None("fail")' => None("fail"))
          /\ (Clean' => Clean) /\ (Same' => Same)
      BY <2>1, Working DEF Stage, FaultKind
    <2>3. DirInv'
      BY <2>1, <2>2, SameDir
    <2>4. None("disk")' /\ (Clean' \/ Same') => Matched'
      <3> SUFFICES ASSUME None("disk"), Clean \/ Same, stored'.listed
                   PROVE  IsGrid(stored'.copy) /\ stored'.playlist = stored'.copy
        BY <2>2 DEF Matched, IsGrid
      <3>1. stored'.listed = local.listed /\ stored'.copy = Uploads("copy")
            /\ stored'.playlist = Uploads("playlist")
        BY <1>0, <2>1 DEF Files
      <3>2. IsGrid(local.copy) /\ local.playlist = local.copy
        BY <2>2, <3>1 DEF JobInv
      <3>3. Uploads("copy") = local.copy /\ Uploads("playlist") = local.playlist
        BY <3>2 DEF Uploads, Finds, IsGrid
      <3> QED
        BY <3>1, <3>2, <3>3
    <2>5. JobInv(w)'
      <3>1. None("fail")' =>
              /\ length > Second => "preview" \in made'[w] /\ local'.preview
              /\ "sprite" \in made'[w] /\ (HasFrame(worker, length) => local'.sprite = worker)
        BY <2>1, <2>2 DEF JobInv
      <3> QED
        BY <2>2, <2>4, <3>1 DEF JobInv
    <2> QED
      BY <2>1, <2>3, <2>5, AloneGoes DEF Stage
  <1> QED
    BY <1>1, <1>2

LEMMA AloneThumbs ==
    ASSUME StoryboardInv, ~crowded, [Next]_vars, NEW w \in Slot, UploadPreview(w)
    PROVE  AloneInv'
  <1>0. /\ TypeOK /\ BudgetInv /\ stored \in Files
    BY DEF StoryboardInv, TypeOK
  <1>1. Goes(w, "thumbs", "sprites") /\ UNCHANGED <<status, local, made>>
    BY DEF UploadPreview
  <1>2. /\ stage[w] = "thumbs" /\ stage'[w] = "sprites" /\ UNCHANGED <<worker, length>>
        /\ DirInv /\ JobInv(w)
        /\ (None("disk")' => None("disk")) /\ (None("fail")' => None("fail"))
        /\ (Clean' => Clean) /\ (Same' => Same)
    BY <1>1, Working DEF Stage, FaultKind
  <1>3. DirInv'
    BY <1>1, <1>2, SameDir
  <1>4. /\ stored'.listed = stored.listed /\ stored'.copy = stored.copy
        /\ stored'.playlist = stored.playlist
    BY <1>0 DEF UploadPreview, Files
  <1>5. None("fail")' /\ length > Second => stored'.preview
    <2> SUFFICES ASSUME None("fail")', length > Second PROVE stored'.preview
      OBVIOUS
    <2>1. ~Pay("fail")
      BY <1>0, PaidFact DEF FaultKind
    <2>2. "preview" \in made[w] /\ local.preview
      BY <1>2 DEF JobInv
    <2>3. stored' = [stored EXCEPT !.preview = @ \/ ("preview" \in made[w] /\ local.preview)]
      BY <2>1 DEF UploadPreview
    <2> QED
      BY <1>0, <2>2, <2>3 DEF Files
  <1>6. JobInv(w)'
    <2>1. None("fail")' =>
            "sprite" \in made'[w] /\ (HasFrame(worker, length) => local'.sprite = worker)
      BY <1>1, <1>2 DEF JobInv
    <2>2. None("disk")' /\ (Clean' \/ Same') => Matched'
      BY <1>2, <1>4 DEF JobInv, Matched, IsGrid
    <2> QED
      BY <1>2, <1>5, <2>1, <2>2 DEF JobInv
  <1> QED
    BY <1>1, <1>3, <1>6, AloneGoes DEF Stage

\* A video that has a tile of every grid has one of the worker's.
LEMMA FillsFact ==
    ASSUME EnvInv, FillsTile
    PROVE  HasFrame(worker, length)
  BY DEF EnvInv, FillsTile

LEMMA AloneSprites ==
    ASSUME StoryboardInv, ~crowded, [Next]_vars, NEW w \in Slot, UploadSprite(w)
    PROVE  AloneInv'
  <1>0. /\ TypeOK /\ BudgetInv /\ EnvInv /\ stored \in Files /\ IsGrid(worker)
        /\ worker # Absent
    BY WorkerFact DEF StoryboardInv, TypeOK
  <1>1. Goes(w, "sprites", "publish") /\ UNCHANGED <<status, local, made>>
    BY DEF UploadSprite
  <1>2. /\ stage[w] = "sprites" /\ stage'[w] = "publish" /\ UNCHANGED <<worker, length>>
        /\ DirInv /\ JobInv(w)
        /\ (None("disk")' => None("disk")) /\ (None("fail")' => None("fail"))
        /\ (Clean' => Clean) /\ (Same' => Same)
    BY <1>1, Working DEF Stage, FaultKind
  <1>3. DirInv'
    BY <1>1, <1>2, SameDir
  <1>4. /\ stored'.listed = stored.listed /\ stored'.copy = stored.copy
        /\ stored'.playlist = stored.playlist /\ stored'.preview = stored.preview
    BY <1>0 DEF UploadSprite, Files
  <1>5. None("fail")' => Shown'
    <2> SUFFICES ASSUME None("fail")' PROVE Shown'
      OBVIOUS
    <2>1. ~Pay("fail")
      BY <1>0, PaidFact DEF FaultKind
    <2>2. length > Second => stored'.preview
      BY <1>2, <1>4 DEF JobInv
    <2>3. ASSUME FillsTile PROVE IsGrid(stored'.sprite)
      <3>1. "sprite" \in made[w] /\ local.sprite = worker
        BY <1>0, <1>2, <2>3, FillsFact DEF JobInv
      <3>2. stored' = [stored EXCEPT !.sprite = Uploads("sprite")]
        BY <2>1, <3>1 DEF UploadSprite
      <3>3. Uploads("sprite") = worker
        BY <1>0, <3>1 DEF Uploads, Finds
      <3> QED
        BY <1>0, <3>2, <3>3 DEF Files
    <2>4. FillsTile' => FillsTile
      BY <1>2 DEF FillsTile
    <2> QED
      BY <1>2, <2>2, <2>3, <2>4 DEF Shown, IsGrid
  <1>6. JobInv(w)'
    <2>1. None("disk")' /\ (Clean' \/ Same') => Matched'
      BY <1>2, <1>4 DEF JobInv, Matched, IsGrid
    <2> QED
      BY <1>2, <1>5, <2>1 DEF JobInv
  <1> QED
    BY <1>1, <1>3, <1>6, AloneGoes DEF Stage

\* What SeaweedFS shows depends on its files and the length only.
LEMMA SameShown ==
    ASSUME UNCHANGED <<stored, length>>
    PROVE  Shown' = Shown /\ Matched' = Matched
  BY DEF Shown, Matched, FillsTile, IsGrid

LEMMA AlonePublish ==
    ASSUME StoryboardInv, ~crowded, [Next]_vars, NEW w \in Slot, Publish(w)
    PROVE  AloneInv'
  <1>1. CASE Breaks(w, "publish")
    BY <1>1, AloneBreaks DEF Stage
  <1>2. CASE ~Breaks(w, "publish")
    <2>1. Goes(w, "publish", "cleanup") /\ UNCHANGED <<local, stored, made>>
      BY <1>2 DEF Publish
    <2>2. /\ stage[w] = "publish" /\ stage'[w] = "cleanup" /\ UNCHANGED <<worker, length>>
          /\ \A v \in Slot : v # w => stage'[v] \in {"idle", "down"}
          /\ ~crowded' /\ DirInv /\ JobInv(w)
          /\ (None("disk")' => None("disk")) /\ (None("fail")' => None("fail"))
          /\ (Clean' => Clean) /\ (Same' => Same)
      BY <2>1, Working DEF Stage, FaultKind
    <2>3. DirInv'
      BY <2>1, <2>2, SameDir
    <2>4. JobInv(w)'
      BY <2>2 DEF JobInv
    <2>5. VideoInv'
      <3>1. /\ None("fail")' => Shown'
            /\ None("disk")' /\ (Clean' \/ Same') => Matched'
        BY <2>1, <2>2, SameShown DEF JobInv
      <3>2. \A v \in Slot : stage'[v] \in {"idle", "down", "cleanup"}
        BY <2>2
      <3> QED
        BY <3>1, <3>2 DEF VideoInv
    <2> QED
      BY <2>2, <2>3, <2>4, <2>5, AloneKeeps
  <1> QED
    BY <1>1, <1>2

LEMMA AloneCleanup ==
    ASSUME StoryboardInv, ~crowded, [Next]_vars, NEW w \in Slot, RemoveWorkDir(w)
    PROVE  AloneInv'
  <1>0. TypeOK /\ BudgetInv
    BY DEF StoryboardInv
  <1>1. PICK from \in {"cleanup", "failed"} : Goes(w, from, "idle")
    BY DEF RemoveWorkDir
  <1>2. /\ stage[w] = from /\ stage'[w] = "idle" /\ UNCHANGED <<worker, length>>
        /\ \A v \in Slot : v # w => stage'[v] \in {"idle", "down"}
        /\ Busy = {w}
        /\ ~crowded' /\ DirInv /\ VideoInv
        /\ (None("disk")' => None("disk")) /\ (None("fail")' => None("fail"))
        /\ (Clean' => Clean) /\ (Same' => Same)
    BY <1>1, Working DEF Stage, FaultKind
  <1>3. DirInv'
    <2> SUFFICES ASSUME Clean' PROVE DirInv'
      BY DEF DirInv
    <2>1. ~Pay("keep")
      BY <1>0, PaidFact DEF Clean, FaultKind
    <2>2. local' = Empty
      BY <1>2, <2>1 DEF RemoveWorkDir
    <2> QED
      BY <2>2 DEF DirInv, Empty
  <1>4. JobInv(w)'
    BY <1>2 DEF JobInv
  <1>5. VideoInv'
    <2> SUFFICES ASSUME status' = "ready" PROVE VideoInv'
      BY DEF VideoInv
    <2>1. status = "ready" /\ stored' = stored
      BY DEF RemoveWorkDir
    <2>2. \A v \in Slot : stage'[v] \in {"idle", "down", "cleanup"}
      BY <1>2
    <2> QED
      BY <1>2, <2>1, <2>2, SameShown DEF VideoInv
  <1> QED
    BY <1>2, <1>3, <1>4, <1>5, AloneKeeps

\* A job that starts alone finds an empty directory, if nothing was left.
LEMMA AloneTakes ==
    ASSUME StoryboardInv, ~crowded', [Next]_vars, NEW w \in Slot, TakeTask(w)
    PROVE  AloneInv'
  <1>0. /\ TypeOK /\ BudgetInv /\ LeftInv /\ AloneInv
        /\ (None("disk")' => None("disk")) /\ (None("fail")' => None("fail"))
        /\ (Clean' => Clean) /\ (Same' => Same)
    BY BudgetStep DEF StoryboardInv, FaultKind
  <1>1. UNCHANGED <<worker, length, local, stored, made>>
    BY DEF TakeTask
  <1>2. CASE stage' = [stage EXCEPT ![w] = "probe"] /\ crowded' = (Busy # {}) /\ status' = "processing"
    <2>1. Busy = {}
      BY <1>2
    <2>2. \A v \in Slot : v # w => stage'[v] \in {"idle", "down"}
      BY <1>0, <1>2, <2>1 DEF Busy, TypeOK
    <2>3. stage'[w] = "probe"
      BY <1>0, <1>2 DEF TypeOK
    <2>4. DirInv'
      BY <1>0, <1>1, <2>1 DEF DirInv, LeftInv, Empty
    <2>5. VideoInv' /\ JobInv(w)'
      BY <1>2, <2>3 DEF VideoInv, JobInv
    <2> QED
      BY <2>2, <2>4, <2>5, AloneKeeps
  <1>3. CASE UNCHANGED <<stage, crowded>> /\ status' \in {"failed", status}
    <2>1. ~crowded /\ (\A v, u \in Busy : v = u) /\ VideoInv /\ DirInv /\ \A v \in Slot : JobInv(v)
      BY <1>0, <1>3 DEF AloneInv
    <2>2. DirInv'
      BY <1>0, <1>1, <2>1, SameDir
    <2>3. VideoInv'
      BY <1>0, <1>1, <1>3, <2>1, SameShown DEF VideoInv
    <2>4. ASSUME NEW v \in Slot PROVE JobInv(v)'
      <3>1. JobInv(v) /\ Shown' = Shown /\ Matched' = Matched
        BY <1>1, <2>1, SameShown
      <3> QED
        BY <1>0, <1>1, <1>3, <3>1 DEF JobInv, IsGrid
    <2> QED
      BY <1>3, <2>1, <2>2, <2>3, <2>4 DEF AloneInv, Busy
  <1> QED
    BY <1>2, <1>3 DEF TakeTask

LEMMA AloneStep == ASSUME StoryboardInv, [Next]_vars PROVE AloneInv'
  <1> SUFFICES ASSUME ~crowded' PROVE AloneInv'
    BY DEF AloneInv
  <1>0. /\ TypeOK /\ BudgetInv /\ LeftInv /\ AloneInv
        /\ (None("disk")' => None("disk")) /\ (None("fail")' => None("fail"))
        /\ (Clean' => Clean) /\ (Same' => Same)
    BY BudgetStep DEF StoryboardInv, FaultKind
  <1>1. CASE EditEnv \/ StartApi \/ UNCHANGED vars
    <2>1. UNCHANGED <<worker, length, local, stored, made, stage, status, crowded>>
      BY <1>1 DEF EditEnv, StartApi, vars, jobVars
    <2>2. ~crowded /\ (\A v, u \in Busy : v = u) /\ VideoInv /\ DirInv /\ \A v \in Slot : JobInv(v)
      BY <1>0, <2>1 DEF AloneInv
    <2>3. DirInv'
      BY <1>0, <2>1, <2>2, SameDir
    <2>4. VideoInv'
      BY <1>0, <2>1, <2>2, SameShown DEF VideoInv
    <2>5. ASSUME NEW v \in Slot PROVE JobInv(v)'
      <3>1. JobInv(v) /\ Shown' = Shown /\ Matched' = Matched
        BY <2>1, <2>2, SameShown
      <3> QED
        BY <1>0, <2>1, <3>1 DEF JobInv, IsGrid
    <2> QED
      BY <2>1, <2>2, <2>3, <2>4, <2>5 DEF AloneInv, Busy
  <1>2. CASE StartTranscoder \/ StopInJob
    <2>1. UNCHANGED <<length, stored, status, crowded>>
      BY <1>2 DEF StartTranscoder, StopInJob
    <2>2. \A v \in Slot : stage'[v] \in {"idle", "down"}
      BY <1>2 DEF StartTranscoder, StopInJob
    <2>3. VideoInv
      BY <1>0, <2>1 DEF AloneInv
    <2>4. VideoInv'
      BY <1>0, <2>1, <2>2, <2>3, SameShown DEF VideoInv
    <2>5. \A v \in Slot : JobInv(v)'
      BY <2>2 DEF JobInv
    <2>6. Busy' = {}
      BY <2>2 DEF Busy
    <2>7. DirInv'
      <3>1. CASE StartTranscoder
        <4>1. Clean' => local' = Empty
          BY <1>0, <3>1 DEF StartTranscoder, LeftInv
        <4> QED
          BY <4>1 DEF DirInv, Empty
      <3>2. CASE StopInJob
        <4>1. ~Clean'
          BY <1>0, <3>2, PaidFact DEF StopInJob, Clean, FaultKind
        <4> QED
          BY <4>1 DEF DirInv
      <3> QED
        BY <1>2, <3>1, <3>2
    <2> QED
      BY <2>4, <2>5, <2>6, <2>7 DEF AloneInv
  <1>3. ASSUME NEW w \in Slot, Process(w) PROVE AloneInv'
    <2>1. CASE TakeTask(w)
      BY <2>1, AloneTakes
    <2>2. CASE ~TakeTask(w)
      <3>1. ~crowded
        BY <1>0, <1>3, <2>2, ProcessGoes, GoesFact
      <3> QED
        BY <1>3, <2>2, <3>1, AlonePreview, AloneSprite, AloneImages, AloneMaster, AloneUpload,
           AloneThumbs, AloneSprites, AlonePublish, AloneCleanup
        DEF Process
    <2> QED
      BY <2>1, <2>2
  <1> QED
    BY <1>1, <1>2, <1>3 DEF Next

-----------------------------------------------------------------------------
(***************************************************************************)
(* The inductive invariant holds always.                                   *)
(***************************************************************************)
THEOREM StoryboardInvariant == Spec => []StoryboardInv
  <1>1. StoryboardInv /\ [Next]_vars => StoryboardInv'
    BY TypeStep, BudgetStep, EnvStep, LeftStep, AloneStep DEF StoryboardInv
  <1> QED
    BY InitInv, <1>1, PTL DEF Spec

(***************************************************************************)
(* All variables keep their types: in particular, the grids of both        *)
(* programs are usable ones, whatever .env says.                           *)
(***************************************************************************)
THEOREM TypeCorrect == Spec => []TypeOK
  BY StoryboardInvariant, PTL DEF StoryboardInv

LEMMA DurationFact == ASSUME TypeOK, duration # Absent PROVE duration = length /\ length \in Nat
  BY TimeAssumption DEF TypeOK

(***************************************************************************)
(* The cues that the API gives out cover the video, for every grid and     *)
(* every length.                                                           *)
(***************************************************************************)
THEOREM CuesAlwaysTile == Spec => []CuesTileTime
  <1>1. StoryboardInv => CuesTileTime
    <2> SUFFICES ASSUME TypeOK, Served PROVE CuesTileTime
      BY DEF StoryboardInv, CuesTileTime
    <2>1. duration \in Nat /\ api \in Grid
      BY DurationFact DEF Served, TypeOK
    <2> QED
      BY <2>1, CoverFact DEF CuesTileTime
  <1> QED
    BY <1>1, StoryboardInvariant, PTL

(***************************************************************************)
(* Every cue points to the tile of its time, while the two programs have   *)
(* the same settings or the API has those of the sprite, also when jobs    *)
(* share a work directory.                                                 *)
(***************************************************************************)
THEOREM CuesAlwaysHit == Spec => []CuesHitTiles
  <1>1. StoryboardInv => CuesHitTiles
    <2> SUFFICES ASSUME StoryboardInv, (Agreed /\ None("edit")) \/ stored.sprite = api,
                        Served, IsGrid(stored.sprite)
                 PROVE  \A i \in 0..CueCount(api, duration) - 1 :
                            PointsTo(Cue(api, duration, i), stored.sprite, length)
      BY DEF CuesHitTiles, CuesMatchSprite
    <2>1. TypeOK /\ EnvInv
      BY DEF StoryboardInv
    <2>2. stored.sprite = api
      BY <2>1 DEF EnvInv, Agreed, IsGrid
    <2>3. duration = length /\ length \in Nat /\ api \in Grid
      BY <2>1, DurationFact DEF Served, TypeOK
    <2> QED
      BY <2>2, <2>3, PointFact
  <1> QED
    BY <1>1, StoryboardInvariant, PTL

(***************************************************************************)
(* A sprite has a tile for every moment of its video and no row too many.  *)
(***************************************************************************)
THEOREM SpriteAlwaysHolds == Spec => []SpriteHoldsVideo
  <1>1. TypeOK => SpriteHoldsVideo
    <2> SUFFICES ASSUME TypeOK, IsGrid(stored.sprite) PROVE SpriteHoldsVideo
      BY DEF SpriteHoldsVideo
    <2>1. stored.sprite \in Grid /\ length \in Nat
      BY TimeAssumption DEF TypeOK, Files, Content, IsGrid
    <2> QED
      BY <2>1, SheetFact DEF SpriteHoldsVideo
  <1> QED
    BY <1>1, TypeCorrect, PTL

(***************************************************************************)
(* The image playlist of a ready video describes the sprite next to it, as *)
(* long as every file could be written and no job shared its directory or  *)
(* found another's in it that it could not make up for.                    *)
(***************************************************************************)
THEOREM ImagesAlwaysAgree == Spec => []ImagesAgree
  <1>1. StoryboardInv => ImagesAgree
    BY DEF StoryboardInv, AloneInv, VideoInv, Matched, ImagesAgree, NothingOdd, Clean, Same
  <1> QED
    BY <1>1, StoryboardInvariant, PTL

(***************************************************************************)
(* A video that is ready and long enough for them has its pictures, whole, *)
(* unless a call failed or jobs shared a directory.                        *)
(***************************************************************************)
THEOREM ThumbsAlwaysThere == Spec => []ThumbsThere
  <1>1. StoryboardInv => ThumbsThere
    BY DEF StoryboardInv, AloneInv, VideoInv, Shown, ThumbsThere
  <1> QED
    BY <1>1, StoryboardInvariant, PTL
=============================================================================
