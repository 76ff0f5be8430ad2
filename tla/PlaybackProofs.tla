--------------------------- MODULE PlaybackProofs ---------------------------
(***************************************************************************)
(* Theorems about Playback for every set of streams and wishes, every TTL  *)
(* and any number of requests.                                             *)
(***************************************************************************)
EXTENDS Playback, SequenceTheorems, TLAPS

\* Every URL of a rewritten line carries the token that it was given.
LEMMA LineKeepsToken ==
    ASSUME NEW line, NEW base, NEW expires, NEW u \in RewriteLine(line, base, expires)
    PROVE  u.expires = expires
  BY DEF RewriteLine, Url

\* So does every URL of a rewritten playlist.
LEMMA ManifestKeepsToken ==
    ASSUME NEW lines, NEW path, NEW expires, NEW u \in RewriteManifest(lines, path, expires)
    PROVE  u.expires = expires
  BY LineKeepsToken DEF RewriteManifest

\* What is inductive: tokens come from answers, whose times are numbers.
HandedDownInv ==
    /\ requireToken \in BOOLEAN
    /\ now \in Nat
    /\ gets \in Seq(Nat)
    /\ ExpiryIsHandedDown

\* An answer is added to the times at which tokens expire.
LEMMA ExpiryGrows ==
    ASSUME HandedDownInv, gets' = Append(gets, now), UNCHANGED <<requireToken, now>>
    PROVE  /\ gets' \in Seq(Nat)
           /\ Expiry \subseteq Expiry'
           /\ (IF requireToken THEN now + TTL ELSE Nothing) \in Expiry'
  <1>1. /\ gets' \in Seq(Nat)
        /\ DOMAIN gets = 1..Len(gets) /\ DOMAIN gets' = 1..(Len(gets) + 1)
        /\ Len(gets) \in Nat
        /\ \A i \in DOMAIN gets : gets'[i] = gets[i]
        /\ gets'[Len(gets) + 1] = now
    BY DEF HandedDownInv
  <1>2. DOMAIN gets \subseteq DOMAIN gets' /\ Len(gets) + 1 \in DOMAIN gets'
    BY <1>1
  <1>3. requireToken' = requireToken
    OBVIOUS
  <1> QED BY <1>1, <1>2, <1>3 DEF Expiry

\* The invariant holds at first, and every step keeps it.
LEMMA HandedDownInit ==
    ASSUME Init
    PROVE  HandedDownInv
  BY DEF Init, HandedDownInv, ExpiryIsHandedDown

LEMMA HandedDownStep ==
    ASSUME HandedDownInv, [Next]_vars
    PROVE  HandedDownInv'
  <1>1. CASE GetVideo
    <2>1. /\ gets' = Append(gets, now)
          /\ UNCHANGED <<requireToken, now>>
          /\ known' = known \union {ManifestUrl} \union TrackUrls
      BY <1>1 DEF GetVideo
    <2>2. /\ gets' \in Seq(Nat)
          /\ Expiry \subseteq Expiry'
          /\ (IF requireToken THEN now + TTL ELSE Nothing) \in Expiry'
      BY <2>1, ExpiryGrows
    <2>3. \A u \in {ManifestUrl} \union TrackUrls :
              u.expires = IF requireToken THEN now + TTL ELSE Nothing
      BY DEF ManifestUrl, TrackUrls, Url
    <2> QED BY <2>1, <2>2, <2>3 DEF HandedDownInv, ExpiryIsHandedDown
  <1>2. ASSUME NEW u \in known, ServeManifest(u)
        PROVE  HandedDownInv'
    <2>1. UNCHANGED <<requireToken, now, gets>>
      BY <1>2 DEF ServeManifest, Answers
    <2>2. Expiry' = Expiry
      BY <2>1 DEF Expiry
    <2>3. \A w \in known' : w \in known \/ w.expires = u.expires
      BY <1>2, ManifestKeepsToken DEF ServeManifest, TokenQuery
    <2> QED BY <2>1, <2>2, <2>3 DEF HandedDownInv, ExpiryIsHandedDown
  <1>3. ASSUME NEW u \in known, ServeSegment(u)
        PROVE  HandedDownInv'
    <2>1. UNCHANGED <<requireToken, now, gets, known>>
      BY <1>3 DEF ServeSegment, Answers
    <2> QED BY <2>1 DEF HandedDownInv, ExpiryIsHandedDown, Expiry
  <1>4. CASE Tick
    <2>1. now' \in Nat
      BY <1>4 DEF Tick, HandedDownInv
    <2>2. Expiry' = Expiry
      BY <1>4 DEF Tick, Expiry
    <2> QED BY <1>4, <2>1, <2>2 DEF Tick, HandedDownInv, ExpiryIsHandedDown
  <1>5. CASE UNCHANGED vars
    BY <1>5 DEF vars, HandedDownInv, ExpiryIsHandedDown, Expiry
  <1> QED BY <1>1, <1>2, <1>3, <1>4, <1>5 DEF Next

(***************************************************************************)
(* No playlist prolongs a token, however many playlists lie between the    *)
(* answer of GET /videos/{id} and a URL, whatever the playlists name.      *)
(***************************************************************************)
THEOREM ExpiryCorrect == Spec => []ExpiryIsHandedDown
  <1>1. HandedDownInv => ExpiryIsHandedDown
    BY DEF HandedDownInv
  <1> QED BY <1>1, HandedDownInit, HandedDownStep, PTL DEF Spec
-----------------------------------------------------------------------------
(* Directories and files of a stream. *)

\* The names of directories and files.  Those that the code writes are listed,
\* as the provers do not know that what is in quotes is a STRING.
FileName == {"index.m3u8", "master.m3u8", "odd", "init.mp4", "sprite.jpg", "sub.vtt", "00000.m4s"}
Name == STRING \union {"images"} \union FileName
Dir == Seq(Name) \ {<< >>}

\* The directories of a stream are names.
LEMMA StreamTyped ==
    ASSUME stream \in Stream
    PROVE  /\ stream.variants \in Seq(Dir) /\ stream.tracks \in Seq(Dir)
           /\ stream.saved \subseteq ToSet(stream.tracks) /\ stream.images \in BOOLEAN
           /\ Renditions \subseteq Dir
           /\ \A dir \in ToSet(stream.variants) :
                dir \notin ToSet(stream.tracks) /\ dir # <<"images">> /\ dir[1] # Nothing
  <1>1. /\ stream.variants \in Seq(Seq(STRING)) /\ stream.tracks \in Seq(Seq(STRING))
        /\ stream.saved \subseteq ToSet(stream.tracks) /\ stream.images \in BOOLEAN
        /\ << >> \notin ToSet(stream.variants) \union ToSet(stream.tracks)
        /\ \A dir \in ToSet(stream.variants) :
              dir \notin ToSet(stream.tracks) /\ dir # <<"images">> /\ dir[1] # Nothing
    BY StreamAssumption
  <1>0. ASSUME NEW S, NEW n \in Nat, NEW s \in [1..n -> S]
        PROVE  s \in Seq(S)
    OBVIOUS
  <1>2. ASSUME NEW s \in Seq(Seq(STRING)), << >> \notin ToSet(s)
        PROVE  s \in Seq(Dir) /\ ToSet(s) \subseteq Dir
    <2>1. /\ s \in [1..Len(s) -> Seq(STRING)] /\ Len(s) \in Nat /\ DOMAIN s = 1..Len(s)
      BY LenProperties
    <2>0. \A dir \in Seq(STRING) : dir \in Seq(Name)
      BY SeqMonotonic DEF Name
    <2>2. \A i \in 1..Len(s) : s[i] \in Dir
      BY <1>2, <2>0, <2>1 DEF ToSet, Dir
    <2>3. s \in [1..Len(s) -> Dir]
      BY <2>1, <2>2
    <2>4. s \in Seq(Dir)
      BY <1>0, <2>1, <2>3
    <2> QED BY <2>1, <2>2, <2>4 DEF ToSet
  <1>3. /\ stream.variants \in Seq(Dir) /\ ToSet(stream.variants) \subseteq Dir
        /\ stream.tracks \in Seq(Dir) /\ ToSet(stream.tracks) \subseteq Dir
    BY <1>1, <1>2
  <1>4. <<"images">> \in Dir
    <2>1. "images" \in Name
      BY DEF Name
    <2>2. <<"images">> \in Seq(Name) /\ <<"images">> # << >>
      BY <2>1
    <2> QED BY <2>2 DEF Dir
  <1> QED BY <1>1, <1>3, <1>4 DEF Renditions

\* A file in a directory: the directory, and the name behind it.
LEMMA PathSplits ==
    ASSUME NEW dir \in Dir, NEW name \in Name
    PROVE  LET path == dir \o <<name>>
           IN  /\ path \in Seq(Name) /\ Len(path) = Len(dir) + 1 /\ Len(path) > 1
               /\ Front(path) = dir /\ Last(path) = name /\ path[1] = dir[1]
  <1> DEFINE path == dir \o <<name>>
  <1>1. /\ dir \in Seq(Name) /\ <<name>> \in Seq(Name) /\ Len(<<name>>) = 1
        /\ <<name>>[1] = name /\ Len(dir) \in Nat /\ Len(dir) > 0
    <2>1. dir \in Seq(Name) /\ dir # << >>
      BY DEF Dir
    <2>2. Len(dir) \in Nat /\ Len(dir) > 0
      BY <2>1, EmptySeq
    <2>3. <<name>> \in Seq(Name) /\ Len(<<name>>) = 1 /\ <<name>>[1] = name
      OBVIOUS
    <2> QED BY <2>1, <2>2, <2>3
  <1>2. /\ path \in Seq(Name) /\ Len(path) = Len(dir) + 1
        /\ \A i \in 1..Len(dir) + 1 : path[i] = IF i <= Len(dir) THEN dir[i] ELSE <<name>>[i - Len(dir)]
    BY <1>1, ConcatProperties
  <1> HIDE DEF path
  <1>3. Last(path) = name /\ path[1] = dir[1]
    BY <1>1, <1>2 DEF Last
  <1>4. Front(path) = dir
    <2>1. Front(path) = SubSeq(path, 1, Len(dir))
      BY <1>1, <1>2 DEF Front
    <2>2. \A i \in 1..Len(dir) : path[i] \in Name
      BY <1>1, <1>2, ElementOfSeq
    <2>3. /\ SubSeq(path, 1, Len(dir)) \in Seq(Name)
          /\ Len(SubSeq(path, 1, Len(dir))) = Len(dir)
          /\ \A i \in 1..Len(dir) : SubSeq(path, 1, Len(dir))[i] = path[i]
      <3>1. /\ SubSeq(path, 1, Len(dir)) \in Seq(Name)
            /\ Len(SubSeq(path, 1, Len(dir))) = IF 1 <= Len(dir) THEN Len(dir) - 1 + 1 ELSE 0
            /\ \A i \in 1..Len(dir) - 1 + 1 : SubSeq(path, 1, Len(dir))[i] = path[1 + i - 1]
        BY <1>1, <2>2, SubSeqProperties
      <3> QED BY <1>1, <3>1
    <2>4. \A i \in 1..Len(dir) : path[i] = dir[i]
      BY <1>1, <1>2
    <2> QED BY <1>1, <2>1, <2>3, <2>4, SeqEqual
  <1> QED BY <1>1, <1>2, <1>3, <1>4 DEF path

LEMMA InSplits ==
    ASSUME NEW dir \in Dir
    PROVE  /\ In(dir) \in Seq(Name) /\ Front(In(dir)) = dir
           /\ Last(In(dir)) = "index.m3u8" /\ In(dir)[1] = dir[1]
           /\ In(dir) # MasterPath /\ In(dir) # <<"odd">>
  <1>1. /\ In(dir) \in Seq(Name) /\ Len(In(dir)) > 1 /\ Front(In(dir)) = dir
        /\ Last(In(dir)) = "index.m3u8" /\ In(dir)[1] = dir[1]
    <2>1. "index.m3u8" \in Name
      BY DEF Name, FileName
    <2> QED BY <2>1, PathSplits DEF In
  <1>2. Len(<<"master.m3u8">>) = 1 /\ Len(<<"odd">>) = 1
    OBVIOUS
  <1>5. ASSUME NEW path, NEW other, NEW n \in Int, Len(path) = n, n # 1, Len(other) = 1
        PROVE  path # other
    BY <1>5, Zenon
  <1>6. PICK n \in Nat : Len(In(dir)) = n /\ n > 1
    BY <1>1, LenProperties
  <1>7. n \in Int /\ n # 1
    BY <1>6
  <1>4. In(dir) # MasterPath /\ In(dir) # <<"odd">>
    BY <1>2, <1>5, <1>6, <1>7 DEF MasterPath
  <1> QED BY <1>1, <1>4

\* What the proxy makes of a playlist of a directory: URLs of nginx, of the
\* files that the playlist names.
LEMMA MediaUrls ==
    ASSUME NEW dir \in Dir, NEW e
    PROVE  RewriteManifest(Media(dir), In(dir), e) =
               {Url("hls", path, e, Nothing) : path \in PathsOf(dir, Media(dir))}
  <1> DEFINE lines == Media(dir)
  <1>1. Front(In(dir)) = dir
    BY InSplits
  <1>2. /\ DOMAIN lines = 1..2 \/ DOMAIN lines = 1..3
        /\ \A i \in DOMAIN lines :
             \/ lines[i] = Tag
             \/ lines[i] = Names("map", <<"init.mp4">>)
             \/ \E name \in {"sprite.jpg", "sub.vtt", "00000.m4s"} : lines[i] = Names("uri", <<name>>)
    BY DEF Media
  <1> HIDE DEF lines
  <1>3. ASSUME NEW i \in DOMAIN lines
        PROVE  RewriteLine(lines[i], dir, e) =
                  IF lines[i].kind \in {"uri", "map", "media", "image"}
                  THEN {Url("hls", dir \o lines[i].path, e, Nothing)} ELSE {}
    <2>1. CASE lines[i] = Tag
      BY <2>1 DEF RewriteLine, Tag
    <2>2. CASE lines[i] = Names("map", <<"init.mp4">>)
      BY <2>2 DEF RewriteLine, Names
    <2>3. ASSUME NEW name \in {"sprite.jpg", "sub.vtt", "00000.m4s"}, lines[i] = Names("uri", <<name>>)
          PROVE  RewriteLine(lines[i], dir, e) =
                    IF lines[i].kind \in {"uri", "map", "media", "image"}
                    THEN {Url("hls", dir \o lines[i].path, e, Nothing)} ELSE {}
      <3>1. Last(<<name>>) = name
        BY DEF Last
      <3>2. Last(<<name>>) # "index.m3u8"
        BY <3>1
      <3>3. lines[i].kind = "uri" /\ lines[i].path = <<name>>
        BY <2>3 DEF Names
      <3> QED BY <3>2, <3>3 DEF RewriteLine
    <2> QED BY <1>2, <2>1, <2>2, <2>3
  <1>4. RewriteManifest(lines, In(dir), e) = UNION {RewriteLine(lines[i], dir, e) : i \in DOMAIN lines}
    BY <1>1 DEF RewriteManifest
  <1> DEFINE named == {j \in DOMAIN lines : lines[j].kind \in {"uri", "map", "media", "image"}}
  <1>5. PathsOf(dir, lines) = {dir \o lines[i].path : i \in named}
    BY DEF PathsOf
  <1>6. ASSUME NEW u \in RewriteManifest(lines, In(dir), e)
        PROVE  u \in {Url("hls", path, e, Nothing) : path \in PathsOf(dir, lines)}
    <2>1. PICK i \in DOMAIN lines : u \in RewriteLine(lines[i], dir, e)
      BY <1>4
    <2>2. i \in named /\ u = Url("hls", dir \o lines[i].path, e, Nothing)
      BY <1>3, <2>1
    <2> QED BY <1>5, <2>2
  <1>7. ASSUME NEW path \in PathsOf(dir, lines)
        PROVE  Url("hls", path, e, Nothing) \in RewriteManifest(lines, In(dir), e)
    <2>1. PICK i \in named : path = dir \o lines[i].path
      BY <1>5
    <2>2. i \in DOMAIN lines /\ RewriteLine(lines[i], dir, e) = {Url("hls", path, e, Nothing)}
      BY <1>3, <2>1
    <2> QED BY <1>4, <2>2
  <1> QED BY <1>6, <1>7 DEF lines
\* The files that they name have endings for which nginx has a location.
LEMMA SegmentsNamed ==
    ASSUME NEW dir \in Dir, NEW path \in PathsOf(dir, Media(dir))
    PROVE  Segment(path)
  <1>1. PICK name \in {"init.mp4", "sprite.jpg", "sub.vtt", "00000.m4s"} : path = dir \o <<name>>
    <2> DEFINE lines == Media(dir)
    <2>1. \A i \in DOMAIN lines :
             \/ lines[i] = Tag
             \/ \E k \in {"map", "uri"}, name \in {"init.mp4", "sprite.jpg", "sub.vtt", "00000.m4s"} :
                    lines[i] = Names(k, <<name>>)
      BY DEF Media
    <2> HIDE DEF lines
    <2>2. PICK i \in DOMAIN lines : path = dir \o lines[i].path /\ lines[i].kind # "tag"
      BY DEF PathsOf, lines
    <2>3. lines[i] # Tag
      BY <2>2 DEF Tag
    <2>4. PICK k \in {"map", "uri"}, name \in {"init.mp4", "sprite.jpg", "sub.vtt", "00000.m4s"} :
             lines[i] = Names(k, <<name>>)
      BY <2>1, <2>2, <2>3
    <2>5. lines[i].path = <<name>>
      BY <2>4 DEF Names
    <2> QED BY <2>2, <2>4, <2>5
  <1>2. name \in Name
    BY DEF Name, FileName
  <1>3. Last(path) = name
    BY <1>1, <1>2, PathSplits
  <1> QED BY <1>3 DEF Segment
-----------------------------------------------------------------------------
(* The lines of the master playlist. *)

Line == {Tag, Blank, StreamInf} \union {Names(k, p) : k \in {"media", "image", "uri"}, p \in Seq(Name)}

\* Behind one another: the lines of the one, then those of the other.
LEMMA Behind ==
    ASSUME NEW S, NEW s \in Seq(S), NEW t \in Seq(S)
    PROVE  /\ s \o t \in Seq(S) /\ Len(s \o t) = Len(s) + Len(t)
           /\ DOMAIN (s \o t) = 1..(Len(s) + Len(t))
           /\ \A i \in 1..Len(s) : (s \o t)[i] = s[i]
           /\ \A i \in 1..Len(t) : (s \o t)[Len(s) + i] = t[i]
  <1>1. /\ s \o t \in Seq(S) /\ Len(s \o t) = Len(s) + Len(t)
        /\ \A i \in 1..Len(s) + Len(t) : (s \o t)[i] = IF i <= Len(s) THEN s[i] ELSE t[i - Len(s)]
    BY ConcatProperties
  <1>2. Len(s) \in Nat /\ Len(t) \in Nat
    OBVIOUS
  <1>3. DOMAIN (s \o t) = 1..(Len(s) + Len(t))
    <2>1. DOMAIN (s \o t) = 1..Len(s \o t)
      BY <1>1, LenProperties
    <2> QED BY <1>1, <2>1
  <1>4. \A i \in 1..Len(s) : (s \o t)[i] = s[i]
    BY <1>1, <1>2
  <1>5. ASSUME NEW i \in 1..Len(t)
        PROVE  (s \o t)[Len(s) + i] = t[i]
    <2>1. Len(s) + i \in 1..Len(s) + Len(t) /\ ~(Len(s) + i <= Len(s)) /\ (Len(s) + i) - Len(s) = i
      BY <1>2
    <2> QED BY <1>1, <2>1
  <1> QED BY <1>1, <1>3, <1>4, <1>5

\* The lines of the variants: three for each.
Variants ==
    [i \in 1..3 * Len(stream.variants) |->
        CASE i % 3 = 1 -> StreamInf
          [] i % 3 = 2 -> Names("uri", In(stream.variants[(i + 1) \div 3]))
          [] OTHER -> Blank]

LEMMA VariantLines ==
    ASSUME stream \in Stream
    PROVE  /\ Len(stream.variants) \in Nat
           /\ Variants \in Seq(Line) /\ Len(Variants) = 3 * Len(stream.variants)
           /\ \A j \in 1..Len(stream.variants) :
                /\ Variants[3 * j - 2] = StreamInf
                /\ Variants[3 * j - 1] = Names("uri", In(stream.variants[j]))
                /\ Variants[3 * j] = Blank
           /\ \A i \in 1..3 * Len(stream.variants) :
                \E j \in 1..Len(stream.variants) : i \in {3 * j - 2, 3 * j - 1, 3 * j}
  <1> DEFINE V == stream.variants
             n == Len(stream.variants)
  <1>1. V \in Seq(Dir)
    BY StreamTyped
  <1>2. n \in Nat /\ \A j \in 1..n : V[j] \in Dir
    BY <1>1, LenProperties, ElementOfSeq
  <1> HIDE DEF V, n
  <1>3. Variants = [i \in 1..3 * n |->
                        CASE i % 3 = 1 -> StreamInf
                          [] i % 3 = 2 -> Names("uri", In(V[(i + 1) \div 3]))
                          [] OTHER -> Blank]
    BY DEF Variants, V, n
  <1>4. ASSUME NEW j \in 1..n
        PROVE  /\ Variants[3 * j - 2] = StreamInf
               /\ Variants[3 * j - 1] = Names("uri", In(V[j]))
               /\ Variants[3 * j] = Blank
    <2>1. /\ 3 * j - 2 \in 1..3 * n /\ 3 * j - 1 \in 1..3 * n /\ 3 * j \in 1..3 * n
          /\ (3 * j - 2) % 3 = 1 /\ (3 * j - 1) % 3 = 2 /\ (3 * j) % 3 = 0
          /\ ((3 * j - 1) + 1) \div 3 = j
      BY <1>2
    <2>2. Variants[3 * j - 2] = StreamInf
      BY <1>3, <2>1
    <2>3. Variants[3 * j - 1] = Names("uri", In(V[j]))
      BY <1>3, <2>1
    <2>4. Variants[3 * j] = Blank
      <3>1. 3 * j \in 1..3 * n /\ (3 * j) % 3 # 1 /\ (3 * j) % 3 # 2
        BY <2>1
      <3> QED BY <1>3, <3>1
    <2> QED BY <2>2, <2>3, <2>4
  <1>5. ASSUME NEW i \in 1..3 * n
        PROVE  \E j \in 1..n : i \in {3 * j - 2, 3 * j - 1, 3 * j}
    <2>1. (i + 2) \div 3 \in 1..n /\ i \in {3 * ((i + 2) \div 3) - 2, 3 * ((i + 2) \div 3) - 1, 3 * ((i + 2) \div 3)}
      BY <1>2
    <2> QED BY <2>1
  <1>6. Variants \in [1..3 * n -> Line]
    <2>1. ASSUME NEW i \in 1..3 * n
          PROVE  Variants[i] \in Line
      <3>1. PICK j \in 1..n : i \in {3 * j - 2, 3 * j - 1, 3 * j}
        BY <1>5
      <3>2. In(V[j]) \in Seq(Name)
        BY <1>2, InSplits
      <3>3. Variants[i] \in {StreamInf, Blank, Names("uri", In(V[j]))}
        BY <1>4, <3>1
      <3> QED BY <3>2, <3>3 DEF Line
    <2>2. DOMAIN Variants = 1..3 * n /\ Variants = [i \in 1..3 * n |-> Variants[i]]
      BY <1>3
    <2> QED BY <2>1, <2>2
  <1>7. 3 * n \in Nat
    BY <1>2
  <1>8. Variants \in Seq(Line) /\ Len(Variants) = 3 * n
    BY <1>6, <1>7
  <1> QED BY <1>2, <1>4, <1>5, <1>8 DEF V, n

\* The lines before the variants: one for each track, and one for the sprite.
Others ==
    {Names("media", In(dir)) : dir \in ToSet(stream.tracks)}
        \union (IF stream.images THEN {Names("image", In(<<"images">>))} ELSE {})

LEMMA MasterLines ==
    ASSUME stream \in Stream
    PROVE  \E head \in Seq(Line) :
              /\ Master = head \o Variants
              /\ \A i \in 1..Len(head) : head[i] \in {Tag, Blank} \union Others
              /\ \A line \in Others : \E i \in 1..Len(head) : head[i] = line
  <1> DEFINE T == stream.tracks
             a == <<Tag, Blank>>
             b == [i \in DOMAIN T |-> Names("media", In(T[i]))]
             c == IF stream.images THEN <<Names("image", In(<<"images">>)), Blank>> ELSE << >>
  <1>1. T \in Seq(Dir) /\ stream.images \in BOOLEAN
    BY StreamTyped
  <1>2. /\ Len(T) \in Nat /\ DOMAIN T = 1..Len(T) /\ \A i \in 1..Len(T) : T[i] \in Dir
    BY <1>1, LenProperties, ElementOfSeq
  <1>3. a \in Seq(Line) /\ Len(a) = 2 /\ a[1] = Tag /\ a[2] = Blank
    BY DEF Line
  <1>4. /\ b \in Seq(Line) /\ Len(b) = Len(T)
        /\ \A i \in 1..Len(T) : b[i] = Names("media", In(T[i]))
    <2>1. \A i \in 1..Len(T) : Names("media", In(T[i])) \in Line
      BY <1>2, InSplits DEF Line
    <2>2. b \in [1..Len(T) -> Line] /\ \A i \in 1..Len(T) : b[i] = Names("media", In(T[i]))
      BY <1>2, <2>1
    <2> HIDE DEF b
    <2> QED BY <1>2, <2>2
  <1>5. /\ c \in Seq(Line)
        /\ stream.images => Len(c) = 2 /\ c[1] = Names("image", In(<<"images">>)) /\ c[2] = Blank
        /\ ~stream.images => Len(c) = 0
    <2>1. Names("image", In(<<"images">>)) \in Line /\ Blank \in Line
      <3>1. <<"images">> \in Dir
        <4>1. "images" \in Name
          BY DEF Name
        <4>2. <<"images">> \in Seq(Name) /\ <<"images">> # << >>
          BY <4>1
        <4> QED BY <4>2 DEF Dir
      <3> QED BY <3>1, InSplits DEF Line
    <2> QED BY <2>1, <1>1
  <1> HIDE DEF T, a, b, c
  <1>6. /\ a \o b \in Seq(Line) /\ Len(a \o b) = 2 + Len(T)
        /\ \A i \in 1..2 : (a \o b)[i] = a[i]
        /\ \A i \in 1..Len(T) : (a \o b)[2 + i] = b[i]
    <2>1. /\ a \o b \in Seq(Line) /\ Len(a \o b) = Len(a) + Len(b)
          /\ \A i \in 1..Len(a) : (a \o b)[i] = a[i]
          /\ \A i \in 1..Len(b) : (a \o b)[Len(a) + i] = b[i]
      <3>1. a \in Seq(Line) /\ b \in Seq(Line)
        BY <1>3, <1>4
      <3> QED BY <3>1, Behind
    <2>2. Len(a) = 2 /\ Len(b) = Len(T)
      BY <1>3, <1>4
    <2> QED BY <2>1, <2>2
  <1> DEFINE ab == a \o b
             head == ab \o c
  <1> HIDE DEF ab
  <1>7. /\ ab \in Seq(Line) /\ Len(ab) = 2 + Len(T)
        /\ ab[1] = Tag /\ ab[2] = Blank
        /\ \A i \in 1..Len(T) : ab[2 + i] = Names("media", In(T[i]))
    BY <1>3, <1>4, <1>6 DEF ab
  <1>8. /\ head \in Seq(Line) /\ Len(head) = 2 + Len(T) + Len(c) /\ Len(c) \in Nat
        /\ \A i \in 1..2 + Len(T) : head[i] = ab[i]
        /\ \A i \in 1..Len(c) : head[2 + Len(T) + i] = c[i]
    <2>1. /\ head \in Seq(Line) /\ Len(head) = Len(ab) + Len(c)
          /\ \A i \in 1..Len(ab) : head[i] = ab[i]
          /\ \A i \in 1..Len(c) : head[Len(ab) + i] = c[i]
      BY <1>5, <1>7, Behind
    <2> QED BY <2>1, <1>5, <1>7
  <1> HIDE DEF head
  <1>9. Others = {Names("media", In(dir)) : dir \in ToSet(T)}
                    \union (IF stream.images THEN {Names("image", In(<<"images">>))} ELSE {})
    BY DEF Others, T
  <1>10. ASSUME NEW i \in 1..Len(head)
         PROVE  head[i] \in {Tag, Blank} \union Others
    <2>1. i \in Int /\ (i = 1 \/ i = 2 \/ i - 2 \in 1..Len(T) \/ i - (2 + Len(T)) \in 1..Len(c))
      BY <1>2, <1>8
    <2>2. CASE i = 1 \/ i = 2
      BY <1>2, <1>7, <1>8, <2>2
    <2>3. CASE i - 2 \in 1..Len(T)
      <3>1. PICK k \in 1..Len(T) : i = 2 + k
        BY <2>1, <2>3
      <3>2. head[i] = Names("media", In(T[k]))
        BY <1>2, <1>7, <1>8, <3>1
      <3>3. T[k] \in ToSet(T)
        BY <1>2 DEF ToSet
      <3> QED BY <1>9, <3>2, <3>3
    <2>4. CASE i - (2 + Len(T)) \in 1..Len(c)
      <3>0. i = 2 + Len(T) + (i - (2 + Len(T)))
        BY <1>2, <2>1
      <3>1. PICK k \in 1..Len(c) : i = 2 + Len(T) + k
        BY <2>4, <3>0
      <3>2. head[i] = c[k]
        BY <1>8, <3>1
      <3>3. stream.images /\ (k = 1 \/ k = 2)
        <4>1. CASE stream.images
          <5>1. Len(c) = 2
            BY <1>5, <4>1
          <5>2. k \in 1..2
            BY <3>1, <5>1
          <5> QED BY <4>1, <5>2
        <4>2. CASE ~stream.images
          <5>1. Len(c) = 0
            BY <1>5, <4>2
          <5>2. k \in 1..0
            BY <3>1, <5>1
          <5> QED BY <5>2
        <4> QED BY <4>1, <4>2
      <3>4. c[k] = Names("image", In(<<"images">>)) \/ c[k] = Blank
        BY <1>5, <3>3
      <3> QED BY <1>9, <3>2, <3>3, <3>4
    <2> QED BY <2>1, <2>2, <2>3, <2>4
  <1>11. ASSUME NEW line \in Others
         PROVE  \E i \in 1..Len(head) : head[i] = line
    <2>1. CASE line \in {Names("media", In(dir)) : dir \in ToSet(T)}
      <3>1. PICK k \in 1..Len(T) : line = Names("media", In(T[k]))
        BY <1>2, <2>1 DEF ToSet
      <3>2. 2 + k \in 1..2 + Len(T) /\ 2 + k \in 1..Len(head)
        BY <1>2, <1>8
      <3>3. head[2 + k] = line
        BY <1>7, <1>8, <3>1, <3>2
      <3> QED BY <3>2, <3>3
    <2>2. CASE stream.images /\ line = Names("image", In(<<"images">>))
      <3>1. 2 + Len(T) + 1 \in 1..Len(head) /\ 1 \in 1..Len(c)
        <4>1. Len(c) = 2
          BY <1>5, <2>2
        <4>2. Len(head) = 2 + Len(T) + 2
          BY <4>1, <1>8
        <4> QED BY <1>2, <4>1, <4>2
      <3>2. head[2 + Len(T) + 1] = line
        BY <1>5, <1>8, <2>2, <3>1
      <3> QED BY <3>1, <3>2
    <2> QED BY <1>9, <2>1, <2>2
  <1>12. Master = head \o Variants
    <2>1. Master = a \o b \o c \o Variants
      BY DEF Master, Variants, T, a, b, c
    <2> QED BY <2>1 DEF ab, head
  <1> QED BY <1>8, <1>10, <1>11, <1>12
\* The master playlist by line number: the lines before the variants, then
\* three for each variant.
LEMMA MasterShape ==
    ASSUME stream \in Stream
    PROVE  \E h \in Nat :
              /\ DOMAIN Master = 1..h + 3 * Len(stream.variants)
              /\ \A i \in 1..h : Master[i] \in {Tag, Blank} \union Others
              /\ \A line \in Others : \E i \in 1..h : Master[i] = line
              /\ \A j \in 1..Len(stream.variants) :
                    /\ Master[h + 3 * j - 2] = StreamInf
                    /\ Master[h + 3 * j - 1] = Names("uri", In(stream.variants[j]))
                    /\ Master[h + 3 * j] = Blank
              /\ \A i \in DOMAIN Master :
                    \/ i \in 1..h
                    \/ \E j \in 1..Len(stream.variants) :
                          i \in {h + 3 * j - 2, h + 3 * j - 1, h + 3 * j}
  <1> DEFINE n == Len(stream.variants)
  <1>1. /\ n \in Nat /\ Variants \in Seq(Line) /\ Len(Variants) = 3 * n
        /\ \A j \in 1..n :
             /\ Variants[3 * j - 2] = StreamInf
             /\ Variants[3 * j - 1] = Names("uri", In(stream.variants[j]))
             /\ Variants[3 * j] = Blank
        /\ \A i \in 1..3 * n : \E j \in 1..n : i \in {3 * j - 2, 3 * j - 1, 3 * j}
    BY VariantLines
  <1>2. PICK head \in Seq(Line) :
            /\ Master = head \o Variants
            /\ \A i \in 1..Len(head) : head[i] \in {Tag, Blank} \union Others
            /\ \A line \in Others : \E i \in 1..Len(head) : head[i] = line
    BY MasterLines
  <1>3. PICK h \in Nat : h = Len(head)
    BY <1>2, LenProperties
  <1> HIDE DEF n
  <1>4. /\ DOMAIN Master = 1..(h + 3 * n)
        /\ \A i \in 1..h : Master[i] = head[i]
        /\ \A i \in 1..3 * n : Master[h + i] = Variants[i]
    <2>1. head \in Seq(Line) /\ Variants \in Seq(Line)
      BY <1>1, <1>2
    <2>2. /\ DOMAIN (head \o Variants) = 1..(Len(head) + Len(Variants))
          /\ \A i \in 1..Len(head) : (head \o Variants)[i] = head[i]
          /\ \A i \in 1..Len(Variants) : (head \o Variants)[Len(head) + i] = Variants[i]
      BY <2>1, Behind
    <2> QED BY <1>1, <1>2, <1>3, <2>2
  <1>5. \A i \in 1..h : Master[i] \in {Tag, Blank} \union Others
    BY <1>2, <1>3, <1>4
  <1>6. \A line \in Others : \E i \in 1..h : Master[i] = line
    BY <1>2, <1>3, <1>4
  <1>7. ASSUME NEW j \in 1..n
        PROVE  /\ Master[h + 3 * j - 2] = StreamInf
               /\ Master[h + 3 * j - 1] = Names("uri", In(stream.variants[j]))
               /\ Master[h + 3 * j] = Blank
    <2>1. /\ 3 * j - 2 \in 1..3 * n /\ 3 * j - 1 \in 1..3 * n /\ 3 * j \in 1..3 * n
          /\ h + (3 * j - 2) = h + 3 * j - 2 /\ h + (3 * j - 1) = h + 3 * j - 1
      <3>1. j \in Int /\ n \in Nat /\ h \in Nat /\ 1 <= j /\ j <= n
        BY <1>1, <1>3
      <3> QED BY <3>1
    <2>2. /\ Master[h + (3 * j - 2)] = Variants[3 * j - 2]
          /\ Master[h + (3 * j - 1)] = Variants[3 * j - 1]
          /\ Master[h + 3 * j] = Variants[3 * j]
      BY <1>4, <2>1
    <2>3. /\ Master[h + 3 * j - 2] = Variants[3 * j - 2]
          /\ Master[h + 3 * j - 1] = Variants[3 * j - 1]
      BY <2>1, <2>2
    <2> QED BY <1>1, <2>2, <2>3
  <1>8. ASSUME NEW i \in DOMAIN Master, i \notin 1..h
        PROVE  \E j \in 1..n : i \in {h + 3 * j - 2, h + 3 * j - 1, h + 3 * j}
    <2>1. i \in 1..(h + 3 * n)
      BY <1>4
    <2>2. i \in Int /\ h \in Nat /\ n \in Nat
      BY <1>1, <1>3, <2>1
    <2>3. i - h \in 1..3 * n
      BY <1>8, <2>1, <2>2
    <2>4. PICK j \in 1..n : i - h \in {3 * j - 2, 3 * j - 1, 3 * j}
      BY <1>1, <2>3
    <2>5. i \in {h + 3 * j - 2, h + 3 * j - 1, h + 3 * j}
      BY <2>2, <2>4
    <2> QED BY <2>4, <2>5
  <1> QED BY <1>3, <1>4, <1>5, <1>6, <1>7, <1>8 DEF n

-----------------------------------------------------------------------------
(* What the proxy makes of the master playlist, or of what is left of it. *)

\* Lines that name the playlists of a set of directories become their URLs.
LEMMA MasterUrls ==
    ASSUME NEW D \in SUBSET Dir, NEW lines, NEW e,
           \A i \in DOMAIN lines :
              \/ lines[i] \in {Tag, Blank, StreamInf}
              \/ \E dir \in D, k \in {"media", "image", "uri"} : lines[i] = Names(k, In(dir)),
           \A dir \in D : \E i \in DOMAIN lines, k \in {"media", "image", "uri"} :
              lines[i] = Names(k, In(dir))
    PROVE  RewriteManifest(lines, MasterPath, e) =
              {Url("hls-proxy", In(dir), e, Nothing) : dir \in D}
  <1>1. Front(MasterPath) = << >>
    <2>1. Len(<<"master.m3u8">>) - 1 = 0
      OBVIOUS
    <2>2. Front(<<"master.m3u8">>) = SubSeq(<<"master.m3u8">>, 1, 0)
      BY <2>1 DEF Front
    <2>3. SubSeq(<<"master.m3u8">>, 1, 0) = << >>
      BY SubSeqEmpty
    <2> QED BY <2>2, <2>3 DEF MasterPath
  <1>2. RewriteManifest(lines, MasterPath, e) = UNION {RewriteLine(lines[i], << >>, e) : i \in DOMAIN lines}
    BY <1>1 DEF RewriteManifest
  <1>3. \A line \in {Tag, Blank, StreamInf} : RewriteLine(line, << >>, e) = {}
    BY DEF RewriteLine, Tag, Blank, StreamInf
  <1>4. ASSUME NEW dir \in D, NEW k \in {"media", "image", "uri"}
        PROVE  RewriteLine(Names(k, In(dir)), << >>, e) = {Url("hls-proxy", In(dir), e, Nothing)}
    <2>1. dir \in Dir
      OBVIOUS
    <2>2. In(dir) \in Seq(Name) /\ Last(In(dir)) = "index.m3u8"
      BY <2>1, InSplits
    <2>3. << >> \o In(dir) = In(dir)
      BY <2>2, ConcatEmptySeq
    <2> QED BY <2>2, <2>3 DEF RewriteLine, Names
  <1>5. ASSUME NEW u \in RewriteManifest(lines, MasterPath, e)
        PROVE  u \in {Url("hls-proxy", In(dir), e, Nothing) : dir \in D}
    <2>1. PICK i \in DOMAIN lines : u \in RewriteLine(lines[i], << >>, e)
      BY <1>2
    <2>2. PICK dir \in D, k \in {"media", "image", "uri"} : lines[i] = Names(k, In(dir))
      BY <1>3, <2>1
    <2> QED BY <1>4, <2>1, <2>2
  <1>6. ASSUME NEW dir \in D
        PROVE  Url("hls-proxy", In(dir), e, Nothing) \in RewriteManifest(lines, MasterPath, e)
    <2>1. PICK i \in DOMAIN lines, k \in {"media", "image", "uri"} : lines[i] = Names(k, In(dir))
      OBVIOUS
    <2>2. RewriteLine(lines[i], << >>, e) = {Url("hls-proxy", In(dir), e, Nothing)}
      BY <1>4, <2>1
    <2> QED BY <1>2, <2>1, <2>2
  <1> QED BY <1>5, <1>6
-----------------------------------------------------------------------------
(* What a player may come across, and what is left out for it. *)

\* The variants of the codec that the player wishes for, the ones that
\* filterMasterByCodec leaves out, and the directories that remain.
Fitting == {dir \in ToSet(stream.variants) : dir[1] = wish}
Left == IF Fitting = {} THEN {} ELSE ToSet(stream.variants) \ Fitting
Wanted == Renditions \ Left

\* The manifest URL whose token expires at e.
FirstUrl(e) ==
    IF requireToken THEN Url("hls-proxy", MasterPath, e, wish)
    ELSE Url("hls-proxy", IF wish = Nothing THEN MasterPath ELSE <<"odd">>, Nothing, Nothing)

\* A URL is the manifest URL, or that of a playlist or of a file of a
\* directory that the player is to get.
IsPlaylistOf(u, dir) == u = Url("hls-proxy", In(dir), u.expires, Nothing)
IsFileOf(u, dir) ==
    \E path \in PathsOf(dir, Media(dir)) : u = Url("hls", path, u.expires, Nothing)

UrlShape(u) ==
    \/ u = FirstUrl(u.expires)
    \/ \E dir \in Wanted : IsPlaylistOf(u, dir) \/ IsFileOf(u, dir)

\* The URLs that a playlist leads to.
Follows(u) ==
    IF u.route = "hls-proxy" /\ u.path = MasterPath
    THEN {Url("hls-proxy", In(dir), u.expires, Nothing) : dir \in Wanted}
    ELSE UNION {{Url("hls", path, u.expires, Nothing) : path \in PathsOf(dir, Media(dir))} :
                   dir \in {d \in Wanted : IsPlaylistOf(u, d)}}

\* All of them when there is no such variant.
LEMMA WantedDirs ==
    ASSUME stream \in Stream
    PROVE  /\ Wanted \subseteq Renditions /\ Wanted \in SUBSET Dir
           /\ wish = Nothing \/ Fitting = {} => Wanted = Renditions
           /\ Fitting # {} =>
                Wanted = ToSet(stream.tracks) \union Fitting
                            \union (IF stream.images THEN {<<"images">>} ELSE {})
           /\ stream.saved \subseteq Wanted
  <1>1. /\ stream.saved \subseteq ToSet(stream.tracks) /\ Renditions \subseteq Dir
        /\ \A dir \in ToSet(stream.variants) :
              dir \notin ToSet(stream.tracks) /\ dir # <<"images">> /\ dir[1] # Nothing
    BY StreamTyped
  <1>2. wish = Nothing => Fitting = {}
    BY <1>1 DEF Fitting
  <1>3. Fitting \subseteq ToSet(stream.variants)
    BY DEF Fitting
  <1> QED BY <1>1, <1>2, <1>3, Zenon DEF Wanted, Left, Renditions

\* The lines that name a track or the sprite.
LEMMA OthersName ==
    Others = {Names("media", In(dir)) : dir \in ToSet(stream.tracks)}
                \union {Names("image", In(dir)) : dir \in IF stream.images THEN {<<"images">>} ELSE {}}
  BY DEF Others

\* Without a codec the master playlist leads to all renditions.
LEMMA WholeMaster ==
    ASSUME stream \in Stream, NEW e
    PROVE  RewriteManifest(Master, MasterPath, e) =
              {Url("hls-proxy", In(dir), e, Nothing) : dir \in Renditions}
  <1> DEFINE V == stream.variants
             n == Len(stream.variants)
             I == IF stream.images THEN {<<"images">>} ELSE {}
  <1>1. Renditions \in SUBSET Dir
    BY StreamTyped
  <1>2. /\ V \in Seq(Dir) /\ n \in Nat /\ DOMAIN V = 1..n
    BY StreamTyped, LenProperties
  <1>3. PICK h \in Nat :
              /\ DOMAIN Master = 1..h + 3 * n
              /\ \A i \in 1..h : Master[i] \in {Tag, Blank} \union Others
              /\ \A line \in Others : \E i \in 1..h : Master[i] = line
              /\ \A j \in 1..n :
                    /\ Master[h + 3 * j - 2] = StreamInf
                    /\ Master[h + 3 * j - 1] = Names("uri", In(V[j]))
                    /\ Master[h + 3 * j] = Blank
              /\ \A i \in DOMAIN Master :
                    \/ i \in 1..h
                    \/ \E j \in 1..n : i \in {h + 3 * j - 2, h + 3 * j - 1, h + 3 * j}
    BY MasterShape
  <1>4. Renditions = ToSet(stream.tracks) \union {V[j] : j \in 1..n} \union I
    BY <1>2 DEF Renditions, ToSet
  <1> HIDE DEF V, n, I
  <1>5. Others = {Names("media", In(dir)) : dir \in ToSet(stream.tracks)}
                    \union {Names("image", In(dir)) : dir \in I}
    BY OthersName DEF I
  <1>6. ASSUME NEW i \in DOMAIN Master
        PROVE  \/ Master[i] \in {Tag, Blank, StreamInf}
               \/ \E dir \in Renditions, k \in {"media", "image", "uri"} : Master[i] = Names(k, In(dir))
    <2>1. CASE i \in 1..h
      BY <1>3, <1>4, <1>5, <2>1
    <2>2. ASSUME NEW j \in 1..n, i \in {h + 3 * j - 2, h + 3 * j - 1, h + 3 * j}
          PROVE  \/ Master[i] \in {Tag, Blank, StreamInf}
                 \/ \E dir \in Renditions, k \in {"media", "image", "uri"} : Master[i] = Names(k, In(dir))
      <3>1. Master[i] = StreamInf \/ Master[i] = Blank \/ Master[i] = Names("uri", In(V[j]))
        BY <1>3, <2>2
      <3> QED BY <1>4, <3>1
    <2> QED BY <1>3, <2>1, <2>2
  <1>7. ASSUME NEW dir \in Renditions
        PROVE  \E i \in DOMAIN Master, k \in {"media", "image", "uri"} : Master[i] = Names(k, In(dir))
    <2>1. 1..h \subseteq DOMAIN Master
      BY <1>2, <1>3 DEF n
    <2>2. CASE dir \in ToSet(stream.tracks) \union I
      BY <1>3, <1>5, <2>1, <2>2
    <2>3. ASSUME NEW j \in 1..n, dir = V[j]
          PROVE  \E i \in DOMAIN Master, k \in {"media", "image", "uri"} : Master[i] = Names(k, In(dir))
      <3>1. h + 3 * j - 1 \in DOMAIN Master
        <4>1. h \in Nat /\ n \in Nat /\ j \in Int /\ 1 <= j /\ j <= n
          BY <1>2, <1>3 DEF n
        <4> QED BY <1>3, <4>1
      <3>2. Master[h + 3 * j - 1] = Names("uri", In(dir))
        BY <1>3, <2>3
      <3> QED BY <3>1, <3>2
    <2> QED BY <1>4, <2>2, <2>3
  <1> QED BY <1>1, <1>6, <1>7, MasterUrls
\* With a codec, the master playlist leads to what the player is to get.
LEMMA FilteredMaster ==
    ASSUME stream \in Stream, NEW e
    PROVE  RewriteManifest(FilterMasterByCodec(Master, wish), MasterPath, e) =
              {Url("hls-proxy", In(dir), e, Nothing) : dir \in Wanted}
  <1> DEFINE V == stream.variants
             n == Len(stream.variants)
             I == IF stream.images THEN {<<"images">>} ELSE {}
             kept == Filtered(Master, wish)
             inf(h, j) == h + 3 * j - 2
             uri(h, j) == h + 3 * j - 1
  <1>1. Renditions \in SUBSET Dir /\ Wanted \in SUBSET Dir
    BY StreamTyped, WantedDirs
  <1>2. /\ V \in Seq(Dir) /\ n \in Nat /\ DOMAIN V = 1..n /\ \A j \in 1..n : V[j] \in Dir
    BY StreamTyped, LenProperties, ElementOfSeq
  <1>3. PICK h \in Nat :
              /\ DOMAIN Master = 1..h + 3 * n
              /\ \A i \in 1..h : Master[i] \in {Tag, Blank} \union Others
              /\ \A line \in Others : \E i \in 1..h : Master[i] = line
              /\ \A j \in 1..n :
                    /\ Master[h + 3 * j - 2] = StreamInf
                    /\ Master[h + 3 * j - 1] = Names("uri", In(V[j]))
                    /\ Master[h + 3 * j] = Blank
              /\ \A i \in DOMAIN Master :
                    \/ i \in 1..h
                    \/ \E j \in 1..n : i \in {h + 3 * j - 2, h + 3 * j - 1, h + 3 * j}
    BY MasterShape
  <1>4. Fitting = {V[j] : j \in {k \in 1..n : V[k][1] = wish}}
    BY <1>2 DEF Fitting, ToSet
  <1>5. Fitting # {} => Wanted = ToSet(stream.tracks) \union I \union Fitting
    BY WantedDirs
  <1>6. ASSUME NEW j \in 1..n
        PROVE  /\ uri(h, j) \in DOMAIN Master /\ inf(h, j) \in DOMAIN Master
               /\ inf(h, j) + 1 = uri(h, j) /\ uri(h, j) - 1 = inf(h, j)
               /\ h + 3 * j \in DOMAIN Master
    <2>1. h \in Nat /\ n \in Nat /\ j \in Int /\ 1 <= j /\ j <= n
      BY <1>2, <1>3
    <2>2. DOMAIN Master = 1..h + 3 * n
      BY <1>3
    <2> HIDE DEF n
    <2> QED BY <2>1, <2>2
  <1>7. 1..h \subseteq DOMAIN Master
    <2>1. h \in Nat /\ n \in Nat /\ DOMAIN Master = 1..h + 3 * n
      BY <1>2, <1>3
    <2> HIDE DEF n
    <2> QED BY <2>1
  <1>8. Others = {Names("media", In(dir)) : dir \in ToSet(stream.tracks)}
                    \union {Names("image", In(dir)) : dir \in I}
    BY OthersName
  <1> HIDE DEF V, n, I
  \* Which lines go out.
  <1>9. DOMAIN kept = {i \in DOMAIN Master : GoesOut(Master, i, wish)}
        /\ \A i \in DOMAIN kept : kept[i] = Master[i]
    BY DEF Filtered
  <1> HIDE DEF kept
  <1>10. ASSUME NEW j \in 1..n
         PROVE  /\ inf(h, j) \in DOMAIN kept <=> V[j][1] = wish
                /\ uri(h, j) \in DOMAIN kept <=> V[j][1] = wish
    <2> DEFINE i == inf(h, j)
               k == uri(h, j)
    <2>1. Master[i] = StreamInf /\ Master[k] = Names("uri", In(V[j]))
      BY <1>3
    <2>2. i \in DOMAIN Master /\ k \in DOMAIN Master /\ i + 1 = k /\ k - 1 = i
      BY <1>6
    <2> HIDE DEF i, k
    <2>3. Master[i].kind = "inf" /\ Master[k].kind = "uri" /\ Master[k].path[1] = V[j][1]
      BY <1>2, <2>1, InSplits DEF StreamInf, Names
    <2>4. OtherCodec(Master[k], wish) <=> V[j][1] # wish
      BY <2>3 DEF OtherCodec
    <2>5. GoesOut(Master, i, wish) <=> V[j][1] = wish
      BY <2>2, <2>3, <2>4 DEF GoesOut
    <2>6. Pending(Master, k)
      BY <2>2, <2>3 DEF Pending
    <2>7. GoesOut(Master, k, wish) <=> V[j][1] = wish
      BY <2>3, <2>4, <2>6 DEF GoesOut
    <2>8. (i \in DOMAIN kept <=> V[j][1] = wish) /\ (k \in DOMAIN kept <=> V[j][1] = wish)
      BY <1>9, <2>2, <2>5, <2>7
    <2> QED BY <2>8 DEF i, k
  <1>11. ASSUME NEW i \in 1..h
         PROVE  i \in DOMAIN kept
    <2>1. Master[i] \in {Tag, Blank} \union Others
      BY <1>3
    <2>2. Master[i].kind # "inf" /\ Master[i].kind # "uri"
      BY <1>8, <2>1 DEF Tag, Blank, Names
    <2>3. GoesOut(Master, i, wish)
      BY <2>2 DEF GoesOut, OtherCodec
    <2> QED BY <1>7, <1>9, <2>3
  <1>12. Fitting = {} <=> ~\E i \in DOMAIN kept : kept[i].kind = "inf"
    <2>1. ASSUME NEW i \in DOMAIN kept, kept[i].kind = "inf"
          PROVE  Fitting # {}
      <3>1. i \in DOMAIN Master /\ Master[i].kind = "inf"
        BY <1>9, <2>1
      <3>2. i \notin 1..h
        <4>1. ASSUME i \in 1..h
              PROVE  FALSE
          <5>1. Master[i] \in {Tag, Blank} \union Others
            BY <1>3, <4>1
          <5> QED BY <1>8, <3>1, <5>1 DEF Tag, Blank, Names
        <4> QED BY <4>1
      <3>3. PICK j \in 1..n : i \in {h + 3 * j - 2, h + 3 * j - 1, h + 3 * j}
        BY <1>3, <3>1, <3>2
      <3>4. i = inf(h, j)
        <4>1. Master[h + 3 * j - 1].kind = "uri" /\ Master[h + 3 * j].kind = "blank"
          <5>1. Master[h + 3 * j - 1] = Names("uri", In(V[j])) /\ Master[h + 3 * j] = Blank
            BY <1>3
          <5> QED BY <5>1 DEF Names, Blank
        <4> QED BY <3>1, <3>3, <4>1
      <3>5. V[j][1] = wish
        BY <1>10, <2>1, <3>4
      <3> QED BY <1>4, <3>5
    <2>2. ASSUME Fitting # {}
          PROVE  \E i \in DOMAIN kept : kept[i].kind = "inf"
      <3>1. PICK j \in 1..n : V[j][1] = wish
        BY <1>4, <2>2
      <3>2. inf(h, j) \in DOMAIN kept /\ Master[inf(h, j)] = StreamInf
        BY <1>3, <1>10, <3>1
      <3>3. kept[inf(h, j)].kind = "inf"
        BY <1>9, <3>2 DEF StreamInf
      <3> QED BY <3>2, <3>3
    <2> QED BY <2>1, <2>2
  <1>13. CASE Fitting = {}
    <2>1. FilterMasterByCodec(Master, wish) = Master
      BY <1>12, <1>13 DEF FilterMasterByCodec, kept
    <2>2. Wanted = Renditions
      BY <1>13, WantedDirs
    <2> QED BY <2>1, <2>2, WholeMaster
  <1>14. CASE Fitting # {}
    <2>1. FilterMasterByCodec(Master, wish) = kept
      BY <1>12, <1>14 DEF FilterMasterByCodec, kept
    <2>2. Wanted = ToSet(stream.tracks) \union I \union {V[j] : j \in {k \in 1..n : V[k][1] = wish}}
      BY <1>4, <1>5, <1>14
    <2>3. ASSUME NEW i \in DOMAIN kept
          PROVE  \/ kept[i] \in {Tag, Blank, StreamInf}
                 \/ \E dir \in Wanted, k \in {"media", "image", "uri"} : kept[i] = Names(k, In(dir))
      <3>1. i \in DOMAIN Master /\ kept[i] = Master[i]
        BY <1>9
      <3>2. CASE i \in 1..h
        <4>1. Master[i] \in {Tag, Blank} \union Others
          BY <1>3, <3>2
        <4> QED BY <1>8, <2>2, <3>1, <4>1
      <3>3. ASSUME NEW j \in 1..n, i \in {h + 3 * j - 2, h + 3 * j - 1, h + 3 * j}
            PROVE  \/ kept[i] \in {Tag, Blank, StreamInf}
                   \/ \E dir \in Wanted, k \in {"media", "image", "uri"} : kept[i] = Names(k, In(dir))
        <4>1. Master[i] = StreamInf \/ Master[i] = Blank \/ i = uri(h, j)
          BY <1>3, <3>3
        <4>2. CASE i = uri(h, j)
          <5>1. V[j][1] = wish
            BY <1>10, <4>2
          <5>2. V[j] \in Wanted /\ kept[i] = Names("uri", In(V[j]))
            BY <1>3, <2>2, <3>1, <4>2, <5>1
          <5> QED BY <5>2
        <4> QED BY <3>1, <4>1, <4>2
      <3> QED BY <1>3, <3>1, <3>2, <3>3
    <2>4. ASSUME NEW dir \in Wanted
          PROVE  \E i \in DOMAIN kept, k \in {"media", "image", "uri"} : kept[i] = Names(k, In(dir))
      <3>1. CASE dir \in ToSet(stream.tracks) \union I
        <4>1. PICK i \in 1..h : Master[i] = Names("media", In(dir)) \/ Master[i] = Names("image", In(dir))
          BY <1>3, <1>8, <3>1
        <4>2. i \in DOMAIN kept /\ kept[i] = Master[i]
          BY <1>9, <1>11
        <4> QED BY <4>1, <4>2
      <3>2. ASSUME NEW j \in 1..n, V[j][1] = wish, dir = V[j]
            PROVE  \E i \in DOMAIN kept, k \in {"media", "image", "uri"} : kept[i] = Names(k, In(dir))
        <4>1. uri(h, j) \in DOMAIN kept /\ Master[uri(h, j)] = Names("uri", In(dir))
          BY <1>3, <1>10, <3>2
        <4> QED BY <1>9, <4>1
      <3> QED BY <2>2, <3>1, <3>2
    <2> HIDE DEF inf, uri
    <2>5. RewriteManifest(kept, MasterPath, e) = {Url("hls-proxy", In(dir), e, Nothing) : dir \in Wanted}
      BY <1>1, <2>3, <2>4, MasterUrls
    <2> QED BY <2>1, <2>5
  <1> QED BY <1>13, <1>14
\* What is inductive of the state but for the URLs and answers,
StateInv ==
    /\ requireToken \in BOOLEAN /\ stream \in Stream /\ wish \in Wish /\ now \in 0..MaxNow
    /\ gets \in Seq(0..MaxNow)

\* of the URLs: none comes without the manifest URL that it came from,
KnownInv ==
    \A u \in known : UrlShape(u) /\ u.expires \in Expiry /\ FirstUrl(u.expires) \in known

\* and of the answers: a playlist that was fetched has handed out its URLs.
AnswersInv ==
    \A a \in answers :
        /\ a.url \in known
        /\ a.status \in {200, 401, 404, 502}
        /\ a.status = 200 => Follows(a.url) \subseteq known
        /\ a.status # 200 /\ a.url.path # <<"odd">> =>
              a.status = 401 /\ requireToken /\ now > a.url.expires

PlayInv == StateInv /\ KnownInv /\ AnswersInv

\* All of this hangs on three variables that no step changes.
LEMMA ShapeKept ==
    ASSUME UNCHANGED <<requireToken, stream, wish>>, NEW u
    PROVE  (UrlShape(u)' <=> UrlShape(u)) /\ Follows(u)' = Follows(u) /\ FirstUrl(u)' = FirstUrl(u)
  <1>1. Wanted' = Wanted
    BY DEF Wanted, Left, Fitting, Renditions
  <1> QED BY <1>1 DEF UrlShape, Follows, FirstUrl, IsPlaylistOf, IsFileOf

\* With tokens, those that were handed out expire at times in bounds.
LEMMA ExpiryTyped ==
    ASSUME StateInv, NEW e \in Expiry
    PROVE  IF requireToken THEN e \in TTL..MaxNow + TTL /\ e \in Nat /\ e # Nothing ELSE e = Nothing
  <1>1. CASE requireToken
    <2>1. PICK i \in DOMAIN gets : e = gets[i] + TTL
      BY <1>1 DEF Expiry
    <2>2. gets \in Seq(0..MaxNow)
      BY DEF StateInv
    <2>3. gets[i] \in 0..MaxNow
      BY <2>1, <2>2, LenProperties, ElementOfSeq
    <2>4. e \in TTL..MaxNow + TTL /\ e \in Nat
      BY <2>1, <2>3, TTLAssumption
    <2> QED BY <1>1, <2>4, NothingAssumption
  <1>2. CASE ~requireToken
    BY <1>2 DEF Expiry
  <1> QED BY <1>1, <1>2

\* Where a URL leads: the manifest URL and those of playlists to the proxy,
\* those of files to nginx, and all but the odd one to files that are there.
LEMMA UrlTyped ==
    ASSUME StateInv, NEW u, UrlShape(u)
    PROVE  /\ u.route \in {"hls", "hls-proxy"} /\ u.codec \in Wish
           /\ u.path \in File \union {<<"odd">>}
           /\ u.route = "hls" => u.path \in File /\ Segment(u.path) /\ Follows(u) = {}
  <1>0. stream \in Stream /\ wish \in Wish
    BY DEF StateInv
  <1>1. Wanted \subseteq Renditions
    BY <1>0, WantedDirs
  <1>2. CASE u = FirstUrl(u.expires)
    <2>1. /\ u.route = "hls-proxy" /\ u.path \in {MasterPath, <<"odd">>}
          /\ u.codec \in {wish, Nothing}
      BY <1>2 DEF FirstUrl, Url
    <2> QED BY <1>0, <2>1, NothingAssumption DEF File
  <1>3. ASSUME NEW dir \in Wanted, IsPlaylistOf(u, dir)
        PROVE  u.route = "hls-proxy" /\ u.codec = Nothing /\ u.path \in File
    <2>1. u.route = "hls-proxy" /\ u.codec = Nothing /\ u.path = In(dir)
      BY <1>3 DEF IsPlaylistOf, Url
    <2>2. dir \in Renditions
      BY <1>1
    <2> QED BY <2>1, <2>2 DEF File, FilesOf
  <1>4. ASSUME NEW dir \in Wanted, IsFileOf(u, dir)
        PROVE  u.route = "hls" /\ u.codec = Nothing /\ u.path \in File /\ Segment(u.path)
    <2>1. u.route = "hls" /\ u.codec = Nothing /\ u.path \in PathsOf(dir, Media(dir))
      BY <1>4 DEF IsFileOf, Url
    <2>2. dir \in Renditions /\ dir \in Dir
      BY <1>0, <1>1, WantedDirs
    <2>3. Segment(u.path)
      BY <2>1, <2>2, SegmentsNamed
    <2> QED BY <2>1, <2>2, <2>3 DEF File, FilesOf
  <1>5. u.route = "hls" => Follows(u) = {}
    <2>1. u.route = "hls" => {d \in Wanted : IsPlaylistOf(u, d)} = {} /\ u.route # "hls-proxy"
      BY DEF IsPlaylistOf, Url
    <2> QED BY <2>1 DEF Follows
  <1>6. u.route = "hls" => u.path \in File /\ Segment(u.path)
    <2>1. u = FirstUrl(u.expires) => u.route = "hls-proxy"
      BY DEF FirstUrl, Url
    <2> QED BY <1>3, <1>4, <2>1 DEF UrlShape
  <1> QED BY <1>2, <1>3, <1>4, <1>5, <1>6, NothingAssumption DEF UrlShape

\* What the proxy makes of a playlist is what follows, whichever it is.
LEMMA PlaylistUrls ==
    ASSUME StateInv, NEW u, UrlShape(u), u.route = "hls-proxy", u.path \in Playlist
    PROVE  LET raw == Content(u.path)
               lines == IF u.codec # Nothing /\ u.path = MasterPath
                        THEN FilterMasterByCodec(raw, u.codec) ELSE raw
           IN  /\ RewriteManifest(lines, u.path, u.expires) = Follows(u)
               /\ \A w \in Follows(u) : UrlShape(w) /\ w.expires = u.expires
  <1> DEFINE raw == Content(u.path)
             lines == IF u.codec # Nothing /\ u.path = MasterPath
                      THEN FilterMasterByCodec(raw, u.codec) ELSE raw
             e == u.expires
  <1>0. stream \in Stream /\ wish \in Wish
    BY DEF StateInv
  <1>1. Wanted \subseteq Renditions /\ Wanted \in SUBSET Dir /\ Renditions \subseteq Dir
    BY <1>0, WantedDirs, StreamTyped
  <1>2. <<"odd">> \notin Playlist
    <2>1. <<"odd">> # MasterPath
      BY DEF MasterPath
    <2>2. \A dir \in Renditions : In(dir) # <<"odd">>
      BY <1>1, InSplits
    <2> QED BY <2>1, <2>2 DEF Playlist
  <1>3. CASE u = FirstUrl(e)
    <2>1. u.path = MasterPath /\ u.codec = wish
      BY <1>2, <1>3 DEF FirstUrl, Url
    <2>2. raw = Master
      BY <2>1 DEF Content
    <2>3. Follows(u) = {Url("hls-proxy", In(dir), e, Nothing) : dir \in Wanted}
      BY <2>1 DEF Follows
    <2>4. RewriteManifest(lines, MasterPath, e) = {Url("hls-proxy", In(dir), e, Nothing) : dir \in Wanted}
      <3>1. CASE u.codec # Nothing
        <4>1. u.codec = wish /\ lines = FilterMasterByCodec(Master, wish)
          BY <2>1, <2>2, <3>1
        <4> QED BY <1>0, <4>1, FilteredMaster
      <3>2. CASE u.codec = Nothing
        <4>1. wish = Nothing /\ lines = Master
          BY <2>1, <2>2, <3>2
        <4>2. Wanted = Renditions
          BY <1>0, <4>1, WantedDirs
        <4> QED BY <1>0, <4>1, <4>2, WholeMaster
      <3> QED BY <3>1, <3>2
    <2>5. ASSUME NEW w \in Follows(u)
          PROVE  UrlShape(w) /\ w.expires = e
      <3>1. PICK dir \in Wanted : w = Url("hls-proxy", In(dir), e, Nothing)
        BY <2>3
      <3>2. w.expires = e
        BY <3>1 DEF Url
      <3> QED BY <3>1, <3>2 DEF UrlShape, IsPlaylistOf
    <2> HIDE DEF lines
    <2>6. RewriteManifest(lines, u.path, e) = Follows(u)
      BY <2>1, <2>3, <2>4
    <2> QED BY <2>5, <2>6 DEF lines
  <1>4. ASSUME NEW dir \in Wanted, IsPlaylistOf(u, dir)
        PROVE  /\ RewriteManifest(lines, u.path, e) = Follows(u)
               /\ \A w \in Follows(u) : UrlShape(w) /\ w.expires = e
    <2>0. dir \in Dir
      BY <1>1
    <2>1. u.path = In(dir) /\ u.codec = Nothing
      BY <1>4 DEF IsPlaylistOf, Url
    <2>2. u.path # MasterPath /\ Front(u.path) = dir
      BY <2>0, <2>1, InSplits
    <2>3. lines = Media(dir)
      BY <2>1, <2>2 DEF Content
    <2>4. {d \in Wanted : IsPlaylistOf(u, d)} = {dir}
      <3>1. ASSUME NEW d \in Wanted, IsPlaylistOf(u, d)
            PROVE  d = dir
        <4>1. u.path = In(d) /\ d \in Dir
          BY <1>1, <3>1 DEF IsPlaylistOf, Url
        <4> QED BY <2>2, <4>1, InSplits
      <3> QED BY <1>4, <3>1
    <2>5. Follows(u) = {Url("hls", path, e, Nothing) : path \in PathsOf(dir, Media(dir))}
      <3>1. Follows(u) = UNION {{Url("hls", path, e, Nothing) : path \in PathsOf(d, Media(d))} : d \in {dir}}
        BY <2>2, <2>4 DEF Follows
      <3> QED BY <3>1
    <2>6. RewriteManifest(Media(dir), In(dir), e) = {Url("hls", path, e, Nothing) : path \in PathsOf(dir, Media(dir))}
      BY <2>0, MediaUrls
    <2>7. ASSUME NEW w \in Follows(u)
          PROVE  UrlShape(w) /\ w.expires = e
      <3>1. PICK path \in PathsOf(dir, Media(dir)) : w = Url("hls", path, e, Nothing)
        BY <2>5
      <3>2. w.expires = e
        BY <3>1 DEF Url
      <3> QED BY <3>1, <3>2 DEF UrlShape, IsFileOf
    <2> HIDE DEF lines
    <2> QED BY <2>1, <2>3, <2>5, <2>6, <2>7
  <1>5. ASSUME NEW dir \in Wanted
        PROVE  ~IsFileOf(u, dir)
    BY DEF IsFileOf, Url
  <1> QED BY <1>3, <1>4, <1>5 DEF UrlShape
-----------------------------------------------------------------------------
(* The invariant of playback. *)

LEMMA PlayInit ==
    ASSUME Init
    PROVE  PlayInv
  <1>1. 0 \in 0..MaxNow /\ << >> \in Seq(0..MaxNow)
    BY TTLAssumption
  <1> QED BY <1>1 DEF Init, PlayInv, StateInv, KnownInv, AnswersInv

\* A request that was answered keeps it, if the answer is right and hands out
\* what follows.
LEMMA AnswerStep ==
    ASSUME PlayInv, NEW u \in known, NEW status \in {200, 401, 404, 502}, Answers(u, status),
           known \subseteq known',
           \A w \in known' : w \in known \/ (UrlShape(w) /\ w.expires = u.expires),
           status = 200 => Follows(u) \subseteq known',
           status # 200 /\ u.path # <<"odd">> => status = 401 /\ requireToken /\ now > u.expires
    PROVE  PlayInv'
  <1>1. /\ UNCHANGED <<requireToken, stream, wish, now, gets>>
        /\ answers' = answers \union {[url |-> u, status |-> status]}
    BY DEF Answers
  <1>2. StateInv'
    BY <1>1 DEF PlayInv, StateInv
  <1>3. /\ \A w : (UrlShape(w)' <=> UrlShape(w)) /\ Follows(w)' = Follows(w) /\ FirstUrl(w)' = FirstUrl(w)
        /\ Expiry' = Expiry
    BY <1>1, ShapeKept DEF Expiry
  <1>4. ASSUME NEW w \in known'
        PROVE  UrlShape(w) /\ w.expires \in Expiry /\ FirstUrl(w.expires) \in known
    BY DEF PlayInv, KnownInv
  <1>5. KnownInv'
    BY <1>3, <1>4 DEF KnownInv
  <1>6. ASSUME NEW a \in answers'
        PROVE  /\ a.url \in known'
               /\ a.status \in {200, 401, 404, 502}
               /\ a.status = 200 => Follows(a.url) \subseteq known'
               /\ a.status # 200 /\ a.url.path # <<"odd">> =>
                     a.status = 401 /\ requireToken /\ now > a.url.expires
    <2>1. CASE a \in answers
      BY <2>1 DEF PlayInv, AnswersInv
    <2>2. CASE a = [url |-> u, status |-> status]
      <3>1. a.url = u /\ a.status = status
        BY <2>2
      <3> QED BY <3>1
    <2> QED BY <1>1, <2>1, <2>2
  <1>7. AnswersInv'
    BY <1>1, <1>3, <1>6 DEF AnswersInv
  <1> QED BY <1>2, <1>5, <1>7 DEF PlayInv

\* So does an answer of GET /videos/{id}.
LEMMA GetVideoStep ==
    ASSUME PlayInv, GetVideo
    PROVE  PlayInv'
  <1>1. /\ gets' = Append(gets, now)
        /\ known' = known \union {ManifestUrl} \union TrackUrls
        /\ UNCHANGED <<requireToken, stream, wish, now, answers>>
    BY DEF GetVideo
  <1>2. StateInv
    BY DEF PlayInv
  <1>3. StateInv'
    <2>1. gets' \in Seq(0..MaxNow)
      BY <1>1, <1>2 DEF StateInv
    <2> QED BY <1>1, <1>2, <2>1 DEF StateInv
  <1> DEFINE e == IF requireToken THEN now + TTL ELSE Nothing
  <1>4. Expiry \subseteq Expiry' /\ e \in Expiry'
    <2>1. HandedDownInv
      <3>1. requireToken \in BOOLEAN /\ now \in Nat /\ gets \in Seq(0..MaxNow)
        BY <1>2, TTLAssumption DEF StateInv
      <3>2. 0..MaxNow \subseteq Nat
        BY TTLAssumption
      <3>3. gets \in Seq(Nat)
        BY <3>1, <3>2, SeqMonotonic
      <3> QED BY <3>1, <3>3 DEF HandedDownInv, ExpiryIsHandedDown, PlayInv, KnownInv
    <2> QED BY <1>1, <2>1, ExpiryGrows
  <1>5. \A w : (UrlShape(w)' <=> UrlShape(w)) /\ Follows(w)' = Follows(w) /\ FirstUrl(w)' = FirstUrl(w)
    BY <1>1, ShapeKept
  <1>6. FirstUrl(e) = ManifestUrl /\ ManifestUrl.expires = e
    BY DEF FirstUrl, ManifestUrl, Url
  <1>7. ASSUME NEW u \in TrackUrls
        PROVE  UrlShape(u) /\ u.expires = e
    <2>1. PICK dir \in stream.saved : u = Url("hls-proxy", In(dir), e, Nothing)
      BY DEF TrackUrls
    <2>2. dir \in Wanted
      BY <1>2, WantedDirs DEF StateInv
    <2>3. u.expires = e
      BY <2>1 DEF Url
    <2> QED BY <2>1, <2>2, <2>3 DEF UrlShape, IsPlaylistOf
  <1> HIDE DEF e
  <1>8. ASSUME NEW u \in known'
        PROVE  UrlShape(u) /\ u.expires \in Expiry' /\ FirstUrl(u.expires) \in known'
    <2>1. CASE u \in known
      BY <1>1, <1>4, <2>1 DEF PlayInv, KnownInv
    <2>2. CASE u = ManifestUrl
      BY <1>1, <1>4, <1>6, <2>2 DEF UrlShape
    <2>3. CASE u \in TrackUrls
      BY <1>1, <1>4, <1>6, <1>7, <2>3
    <2> QED BY <1>1, <2>1, <2>2, <2>3
  <1>9. KnownInv'
    BY <1>5, <1>8 DEF KnownInv
  <1>10. AnswersInv'
    <2>1. known \subseteq known'
      BY <1>1
    <2> QED BY <1>1, <1>5, <2>1 DEF PlayInv, AnswersInv
  <1> QED BY <1>3, <1>9, <1>10 DEF PlayInv

\* Time only makes tokens expire, ...
LEMMA TickStep ==
    ASSUME PlayInv, Tick
    PROVE  PlayInv'
  <1>1. now < MaxNow /\ now' = now + 1 /\ UNCHANGED <<requireToken, stream, wish, gets, known, answers>>
    BY DEF Tick
  <1>2. StateInv
    BY DEF PlayInv
  <1>3. now \in Nat /\ StateInv'
    BY <1>1, <1>2, TTLAssumption DEF StateInv
  <1>4. /\ \A w : (UrlShape(w)' <=> UrlShape(w)) /\ Follows(w)' = Follows(w) /\ FirstUrl(w)' = FirstUrl(w)
        /\ Expiry' = Expiry
    BY <1>1, ShapeKept DEF Expiry
  <1>5. KnownInv'
    BY <1>1, <1>4 DEF PlayInv, KnownInv
  <1>6. ASSUME NEW a \in answers, requireToken, now > a.url.expires
        PROVE  now' > a.url.expires
    <2>1. a.url.expires \in Expiry
      BY DEF PlayInv, KnownInv, AnswersInv
    <2>2. a.url.expires \in Nat
      BY <1>2, <1>6, <2>1, ExpiryTyped
    <2> QED BY <1>1, <1>3, <1>6, <2>2
  <1>7. AnswersInv'
    BY <1>1, <1>4, <1>6 DEF PlayInv, AnswersInv
  <1> QED BY <1>3, <1>5, <1>7 DEF PlayInv

\* and a token is refused when it has.
LEMMA RefusedLate ==
    ASSUME PlayInv, NEW u \in known, ~Valid(u.expires)
    PROVE  requireToken /\ now > u.expires
  <1>1. u.expires \in Expiry /\ StateInv
    BY DEF PlayInv, KnownInv
  <1>2. requireToken /\ ~(u.expires # Nothing /\ now <= u.expires)
    BY DEF Valid
  <1>3. u.expires \in Nat /\ u.expires # Nothing /\ now \in Nat
    BY <1>1, <1>2, ExpiryTyped, TTLAssumption DEF StateInv
  <1> QED BY <1>2, <1>3

LEMMA ServeManifestStep ==
    ASSUME PlayInv, NEW u \in known, ServeManifest(u)
    PROVE  PlayInv'
  <1>1. StateInv /\ UrlShape(u) /\ u.route = "hls-proxy"
    BY DEF PlayInv, KnownInv, ServeManifest
  <1>2. CASE ~Valid(u.expires) /\ Answers(u, 401) /\ UNCHANGED known
    BY <1>2, RefusedLate, AnswerStep
  <1>3. CASE u.path \notin File /\ Answers(u, 502) /\ UNCHANGED known
    <2>1. u.path = <<"odd">>
      BY <1>1, <1>3, UrlTyped
    <2> QED BY <1>3, <2>1, AnswerStep
  <1> DEFINE raw == Content(u.path)
             lines == IF u.codec # Nothing /\ u.path = MasterPath
                      THEN FilterMasterByCodec(raw, u.codec) ELSE raw
  <1>4. CASE /\ u.path \in Playlist /\ Answers(u, 200)
             /\ known' = known \union RewriteManifest(lines, u.path, TokenQuery(u.expires))
    <2>1. /\ RewriteManifest(lines, u.path, u.expires) = Follows(u)
          /\ \A w \in Follows(u) : UrlShape(w) /\ w.expires = u.expires
      BY <1>1, <1>4, PlaylistUrls
    <2> HIDE DEF lines
    <2>2. known' = known \union Follows(u)
      BY <1>4, <2>1 DEF TokenQuery
    <2>3. /\ known \subseteq known' /\ Follows(u) \subseteq known'
          /\ \A w \in known' : w \in known \/ (UrlShape(w) /\ w.expires = u.expires)
      BY <2>1, <2>2
    <2> QED BY <1>4, <2>3, AnswerStep
  <1> QED BY <1>2, <1>3, <1>4 DEF ServeManifest

LEMMA ServeSegmentStep ==
    ASSUME PlayInv, NEW u \in known, ServeSegment(u)
    PROVE  PlayInv'
  <1>1. StateInv /\ UrlShape(u) /\ u.route = "hls" /\ UNCHANGED known
    BY DEF PlayInv, KnownInv, ServeSegment
  <1>2. u.path \in File /\ Segment(u.path) /\ Follows(u) = {}
    BY <1>1, UrlTyped
  <1>3. CASE ~Valid(u.expires)
    <2>1. Answers(u, 401)
      BY <1>2, <1>3 DEF ServeSegment
    <2> QED BY <1>1, <1>3, <2>1, RefusedLate, AnswerStep
  <1>4. CASE Valid(u.expires)
    <2>1. Answers(u, 200)
      BY <1>2, <1>4 DEF ServeSegment
    <2> QED BY <1>1, <1>2, <2>1, AnswerStep
  <1> QED BY <1>3, <1>4

LEMMA PlayStep ==
    ASSUME PlayInv, [Next]_vars
    PROVE  PlayInv'
  <1>1. CASE UNCHANGED vars
    <2>1. UNCHANGED <<requireToken, stream, wish, now, gets, known, answers>>
      BY <1>1 DEF vars
    <2>2. /\ \A w : (UrlShape(w)' <=> UrlShape(w)) /\ Follows(w)' = Follows(w) /\ FirstUrl(w)' = FirstUrl(w)
          /\ Expiry' = Expiry
      BY <2>1, ShapeKept DEF Expiry
    <2> QED BY <2>1, <2>2 DEF PlayInv, StateInv, KnownInv, AnswersInv
  <1> QED BY <1>1, GetVideoStep, TickStep, ServeManifestStep, ServeSegmentStep DEF Next

LEMMA PlayCorrect == Spec => []PlayInv
  BY PlayInit, PlayStep, PTL DEF Spec
-----------------------------------------------------------------------------
(***************************************************************************)
(* The state keeps its types: whatever the player is handed leads to a     *)
(* file that the transcoder stored, by one of the two routes, with a token *)
(* that expires in bounds, or is the URL to which it appended a codec.     *)
(***************************************************************************)
THEOREM TypeCorrect == Spec => []TypeOK
  <1>1. ASSUME PlayInv
        PROVE  TypeOK
    <2>1. StateInv
      BY <1>1 DEF PlayInv
    <2>2. ASSUME NEW u \in known
          PROVE  /\ u.route \in {"hls", "hls-proxy"}
                 /\ u.path \in File \union {<<"odd">>}
                 /\ u.expires \in TTL..MaxNow + TTL \union {Nothing}
                 /\ u.codec \in Wish
      <3>1. UrlShape(u) /\ u.expires \in Expiry
        BY <1>1 DEF PlayInv, KnownInv
      <3>2. u.expires \in TTL..MaxNow + TTL \union {Nothing}
        BY <2>1, <3>1, ExpiryTyped
      <3> QED BY <2>1, <3>1, <3>2, UrlTyped
    <2> QED BY <1>1, <2>1, <2>2 DEF TypeOK, PlayInv, StateInv, AnswersInv
  <1> QED BY <1>1, PlayCorrect, PTL

(***************************************************************************)
(* No URL that a player was handed, by whichever playlist and however      *)
(* late, fails before its token expires: the routes, the directory in      *)
(* front of a name and the token that is handed down fit together.         *)
(***************************************************************************)
THEOREM WorksCorrect == Spec => []WorksUntilExpiry
  <1>1. PlayInv => WorksUntilExpiry
    BY DEF PlayInv, AnswersInv, WorksUntilExpiry
  <1> QED BY <1>1, PlayCorrect, PTL

(***************************************************************************)
(* For every stream and wish: who followed everything that came from one   *)
(* manifest URL has all tracks, the sprite and the variants of the codec   *)
(* wished for, or of all codecs when there is none of that, and no other.  *)
(***************************************************************************)
THEOREM StreamCorrect == Spec => []StreamReached
  <1>1. ASSUME PlayInv
        PROVE  StreamReached
    <2> SUFFICES ASSUME requireToken \/ wish = Nothing,
                        NEW e \in Expiry,
                        {u \in known : u.expires = e} # {},
                        {u \in {w \in known : w.expires = e} : [url |-> u, status |-> 200] \in answers}
                            = {u \in known : u.expires = e}
                 PROVE  {u.path : u \in {u \in known : u.expires = e}} = Expected
      BY DEF StreamReached
    <2> DEFINE handed == {u \in known : u.expires = e}
    <2>1. Expected = {MasterPath} \union UNION {FilesOf(dir) : dir \in Wanted}
      BY DEF Expected, Wanted, Left, Fitting
    <2>2. ASSUME NEW u \in handed
          PROVE  UrlShape(u) /\ Follows(u) \subseteq handed /\ FirstUrl(e) \in known
      <3>1. u \in known /\ u.expires = e
        OBVIOUS
      <3>2. [url |-> u, status |-> 200] \in answers
        OBVIOUS
      <3>3. UrlShape(u) /\ FirstUrl(e) \in known
        BY <1>1, <3>1 DEF PlayInv, KnownInv
      <3>4. Follows(u) \subseteq known
        BY <1>1, <3>2 DEF PlayInv, AnswersInv
      <3>5. \A w \in Follows(u) : w.expires = e
        BY <3>1 DEF Follows, Url
      <3> QED BY <3>3, <3>4, <3>5
    <2>3. /\ FirstUrl(e) \in handed
          /\ FirstUrl(e).route = "hls-proxy" /\ FirstUrl(e).path = MasterPath /\ FirstUrl(e).expires = e
      <3>1. FirstUrl(e).route = "hls-proxy" /\ FirstUrl(e).path = MasterPath /\ FirstUrl(e).expires = e
        <4>1. ~requireToken => e = Nothing
          BY DEF Expiry
        <4> QED BY <4>1 DEF FirstUrl, Url
      <3> QED BY <2>2, <3>1
    <2> HIDE DEF handed
    <2>4. ASSUME NEW u \in handed
          PROVE  u.path \in Expected
      <3>1. CASE u = FirstUrl(u.expires)
        <4>1. u.path = MasterPath
          BY <2>3, <3>1 DEF handed
        <4> QED BY <2>1, <4>1
      <3>2. ASSUME NEW dir \in Wanted, IsPlaylistOf(u, dir) \/ IsFileOf(u, dir)
            PROVE  u.path \in FilesOf(dir)
        BY <3>2 DEF IsPlaylistOf, IsFileOf, FilesOf, Url
      <3> QED BY <2>1, <2>2, <3>1, <3>2 DEF UrlShape
    <2>5. ASSUME NEW dir \in Wanted
          PROVE  Url("hls-proxy", In(dir), e, Nothing) \in handed
      <3>1. Follows(FirstUrl(e)) = {Url("hls-proxy", In(d), e, Nothing) : d \in Wanted}
        BY <2>3 DEF Follows
      <3> QED BY <2>2, <2>3, <3>1
    <2>6. ASSUME NEW dir \in Wanted, NEW path \in FilesOf(dir)
          PROVE  \E u \in handed : u.path = path
      <3> DEFINE list == Url("hls-proxy", In(dir), e, Nothing)
      <3>1. list \in handed /\ list.path = In(dir) /\ list.expires = e /\ IsPlaylistOf(list, dir)
        BY <2>5 DEF Url, IsPlaylistOf
      <3> HIDE DEF list
      <3>2. CASE path = In(dir)
        BY <3>1, <3>2
      <3>3. CASE path \in PathsOf(dir, Media(dir))
        <4>1. list.path # MasterPath
          <5>1. stream \in Stream
            BY <1>1 DEF PlayInv, StateInv
          <5>2. dir \in Dir
            BY <5>1, WantedDirs
          <5> QED BY <3>1, <5>2, InSplits
        <4>2. Url("hls", path, e, Nothing) \in Follows(list)
          BY <3>1, <3>3, <4>1 DEF Follows
        <4>3. Url("hls", path, e, Nothing) \in handed
          BY <2>2, <3>1, <4>2
        <4> QED BY <4>3 DEF Url
      <3> QED BY <3>2, <3>3 DEF FilesOf
    <2>7. Expected \subseteq {u.path : u \in handed}
      <3>1. MasterPath \in {u.path : u \in handed}
        BY <2>3
      <3>2. \A dir \in Wanted : FilesOf(dir) \subseteq {u.path : u \in handed}
        BY <2>6
      <3> QED BY <2>1, <3>1, <3>2
    <2> QED BY <2>4, <2>7 DEF handed
  <1> QED BY <1>1, PlayCorrect, PTL
=============================================================================
