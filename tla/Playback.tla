------------------------------ MODULE Playback ------------------------------
(***************************************************************************)
(* Playing a video that is ready: GET /videos/{id} hands out the signed    *)
(* URL of the master playlist, the manifest proxy rewrites each playlist   *)
(* so that its URIs carry the token on, and nginx asks the API about the   *)
(* token of every segment.  A player follows the URLs it is given in any   *)
(* order and as slowly as it likes.  Tokens are never made up, so that of  *)
(* the HMAC only the time is left at which it expires.                     *)
(***************************************************************************)
EXTENDS Integers, Sequences, SequencesExt

CONSTANTS
    Stream,     \* the streams that a transcode may have stored
    Wish,       \* what a player may append as the parameter codec
    Nothing,    \* no codec, no token
    TTL,        \* hlsTokenTTL
    MaxNow,     \* bound: the last point in time
    MaxGets     \* bound: how often GET /videos/{id} is asked

ASSUME TTLAssumption == TTL \in Nat /\ MaxNow \in Nat /\ MaxGets \in Nat
ASSUME NothingAssumption == Nothing \notin Nat /\ Nothing \in Wish
\* The directories that the transcoder makes: those of the variants are named
\* after a codec, the others are not.
ASSUME StreamAssumption ==
    \A s \in Stream :
        /\ s.variants \in Seq(Seq(STRING)) /\ s.tracks \in Seq(Seq(STRING))
        /\ s.saved \subseteq ToSet(s.tracks) /\ s.images \in BOOLEAN
        /\ << >> \notin ToSet(s.variants) \union ToSet(s.tracks)
        /\ \A dir \in ToSet(s.variants) :
               dir \notin ToSet(s.tracks) /\ dir # <<"images">> /\ dir[1] # Nothing

VARIABLES
    requireToken,   \* HLS_REQUIRE_TOKEN
    stream,         \* what is stored under hls/<id>/
    wish,           \* the codec that the player asks for
    now,            \* time
    gets,           \* when GET /videos/{id} was answered
    known,          \* the URLs the player was handed
    answers         \* how its requests for them were answered

vars == <<requireToken, stream, wish, now, gets, known, answers>>

-----------------------------------------------------------------------------
(* What the transcoder stores: the files of a stream by their path, and    *)
(* the lines of a playlist.  A stream names the directories of its         *)
(* renditions, and which of its tracks the row names as well.              *)

MasterPath == <<"master.m3u8">>
In(dir) == dir \o <<"index.m3u8">>

Tag == [kind |-> "tag"]
Blank == [kind |-> "blank"]
StreamInf == [kind |-> "inf"]
Names(kind, path) == [kind |-> kind, path |-> path]

\* WriteMasterManifestWithConfig
Master ==
    <<Tag, Blank>>
      \o [i \in DOMAIN stream.tracks |-> Names("media", In(stream.tracks[i]))]
      \o (IF stream.images THEN <<Names("image", In(<<"images">>)), Blank>> ELSE << >>)
      \o [i \in 1..3 * Len(stream.variants) |->
              CASE i % 3 = 1 -> StreamInf
                [] i % 3 = 2 -> Names("uri", In(stream.variants[(i + 1) \div 3]))
                [] OTHER -> Blank]

\* The playlists that ffmpeg writes for a variant or an audio stream, and
\* those of subtitles and of the sprite.
Media(dir) ==
    CASE dir[1] = "images" -> <<Tag, Names("uri", <<"sprite.jpg">>)>>
      [] dir[1] = "subs" -> <<Tag, Names("uri", <<"sub.vtt">>)>>
      [] OTHER -> <<Tag, Names("map", <<"init.mp4">>), Names("uri", <<"00000.m4s">>)>>

Renditions ==
    ToSet(stream.tracks) \union ToSet(stream.variants)
        \union (IF stream.images THEN {<<"images">>} ELSE {})

\* The paths that the lines name, as seen from directory dir.
PathsOf(dir, lines) ==
    {dir \o lines[i].path : i \in {j \in DOMAIN lines : lines[j].kind \in {"uri", "map", "media", "image"}}}

FilesOf(dir) == {In(dir)} \union PathsOf(dir, Media(dir))

Playlist == {MasterPath} \union {In(dir) : dir \in Renditions}
File == {MasterPath} \union UNION {FilesOf(dir) : dir \in Renditions}

Content(path) == IF path = MasterPath THEN Master ELSE Media(Front(path))

-----------------------------------------------------------------------------
(* URLs, tokens and the manifest proxy. *)

\* A URL of the proxy or of nginx; "odd" stands for a path that names no file.
Url(route, path, expires, codec) ==
    [route |-> route, path |-> path, expires |-> expires, codec |-> codec]

\* Mutant of Valid: a token is refused in the second in which it expires.
ValidBefore(expires) == requireToken => expires # Nothing /\ now < expires

\* validateToken of the proxy and ValidateToken for nginx
Valid(expires) == requireToken => expires # Nothing /\ now <= expires

\* Mutant of TokenQuery: the proxy signs anew.
TokenQueryRenews(expires) == IF expires = Nothing THEN Nothing ELSE now + TTL

\* The URIs of a playlist get the token with which it was asked for.
TokenQuery(expires) == expires

\* filterMasterByCodec on the lines by their number: whether line i follows a
\* STREAM-INF, and is the URI of another codec than that asked for.
Pending(lines, i) == i - 1 \in DOMAIN lines /\ lines[i - 1].kind = "inf"
OtherCodec(line, codec) == line.kind = "uri" /\ line.path[1] # codec

\* A STREAM-INF goes out with the line after it, and only with that; another
\* line goes out unless it is the URI of another codec.
GoesOut(lines, i, codec) ==
    IF lines[i].kind = "inf"
    THEN /\ i + 1 \in DOMAIN lines
         /\ lines[i + 1].kind # "inf" /\ ~OtherCodec(lines[i + 1], codec)
    ELSE ~(Pending(lines, i) /\ OtherCodec(lines[i], codec))

Filtered(lines, codec) ==
    [i \in {j \in DOMAIN lines : GoesOut(lines, j, codec)} |-> lines[i]]

\* Mutant of FilterMasterByCodec: no fallback.
FilterMasterByCodecStrict(lines, codec) == Filtered(lines, codec)

\* A codec that has no variant leaves the playlist as it is.
FilterMasterByCodec(lines, codec) ==
    LET result == Filtered(lines, codec)
    IN  IF \E i \in DOMAIN result : result[i].kind = "inf" THEN result ELSE lines

\* Mutant of RewriteLine: the directory of the playlist is forgotten.
RewriteLineFlat(line, base, expires) ==
    IF line.kind = "uri" /\ Last(line.path) # "index.m3u8"
    THEN {Url("hls", line.path, expires, Nothing)}
    ELSE IF line.kind = "map" THEN {Url("hls", line.path, expires, Nothing)}
    ELSE IF line.kind \in {"media", "image", "uri"}
    THEN {Url("hls-proxy", line.path, expires, Nothing)}
    ELSE {}

\* One line of rewriteManifest: the URL that it gets, if any.  Playlists go
\* to the proxy, init segments and segments to nginx.  An ending that neither
\* has is left alone; the transcoder writes none.
RewriteLine(line, base, expires) ==
    CASE line.kind = "map" ->
            {Url("hls", base \o line.path, expires, Nothing)}
      [] line.kind \in {"media", "image"} ->
            {Url("hls-proxy", base \o line.path, expires, Nothing)}
      [] line.kind = "uri" ->
            {Url(IF Last(line.path) = "index.m3u8" THEN "hls-proxy" ELSE "hls",
                 base \o line.path, expires, Nothing)}
      [] OTHER -> {}

RewriteManifest(lines, path, expires) ==
    UNION {RewriteLine(lines[i], Front(path), expires) : i \in DOMAIN lines}

-----------------------------------------------------------------------------
Init ==
    /\ requireToken \in BOOLEAN
    /\ stream \in Stream
    /\ wish \in Wish
    /\ now = 0
    /\ gets = << >>
    /\ known = {}
    /\ answers = {}

\* The manifest URL of GET /videos/{id}, with "&codec=..." appended when the
\* player wants one.  Without a token there is no query to append it to, and
\* it becomes part of the path.
ManifestUrl ==
    IF requireToken THEN Url("hls-proxy", MasterPath, now + TTL, wish)
    ELSE Url("hls-proxy", IF wish = Nothing THEN MasterPath ELSE <<"odd">>, Nothing, Nothing)

\* buildAudioTracks and buildSubtitleTracks: the URLs of the tracks in the
\* row, which may have none, as the transcoder goes on when it cannot save them.
TrackUrls ==
    {Url("hls-proxy", In(dir), IF requireToken THEN now + TTL ELSE Nothing, Nothing) :
        dir \in stream.saved}

GetVideo ==
    /\ Len(gets) < MaxGets
    /\ gets' = Append(gets, now)
    /\ known' = known \union {ManifestUrl} \union TrackUrls
    /\ UNCHANGED <<requireToken, stream, wish, now, answers>>

\* The request for u is answered; each URL is asked for once.
Answers(u, status) ==
    /\ u \in known
    /\ \A a \in answers : a.url # u
    /\ answers' = answers \union {[url |-> u, status |-> status]}
    /\ UNCHANGED <<requireToken, stream, wish, now, gets>>

\* ServeManifest.  A filer that does not answer gives 502 as well; then the
\* player asks again, and nothing has changed.
ServeManifest(u) ==
    /\ u.route = "hls-proxy"
    /\ \/ /\ ~Valid(u.expires)
          /\ Answers(u, 401)
          /\ UNCHANGED known
       \/ /\ Valid(u.expires) /\ u.path \notin File
          /\ Answers(u, 502)
          /\ UNCHANGED known
       \/ /\ Valid(u.expires) /\ u.path \in Playlist
          /\ Answers(u, 200)
          /\ LET raw == Content(u.path)
                 lines == IF u.codec # Nothing /\ u.path = MasterPath
                          THEN FilterMasterByCodec(raw, u.codec) ELSE raw
             IN  known' = known \union RewriteManifest(lines, u.path, TokenQuery(u.expires))

\* Mutant of Segment: nginx has no location for subtitles.
SegmentNoSubs(path) == Last(path) \in {"init.mp4", "00000.m4s", "sprite.jpg"}

\* The endings for which nginx has a location; that of a playlist is none.
Segment(path) == Last(path) \in {"init.mp4", "00000.m4s", "sprite.jpg", "sub.vtt"}

\* nginx asks ValidateToken, and passes the file on.
ServeSegment(u) ==
    /\ u.route = "hls"
    /\ Answers(u, CASE ~Segment(u.path) -> 404
                    [] Segment(u.path) /\ ~Valid(u.expires) -> 401
                    [] OTHER -> IF u.path \in File THEN 200 ELSE 404)
    /\ UNCHANGED known

Tick ==
    /\ now < MaxNow
    /\ now' = now + 1
    /\ UNCHANGED <<requireToken, stream, wish, gets, known, answers>>

Next == GetVideo \/ Tick \/ \E u \in known : ServeManifest(u) \/ ServeSegment(u)

Spec == Init /\ [][Next]_vars

-----------------------------------------------------------------------------
\* When a token expires that was handed out by one of the answers so far.
Expiry == IF requireToken THEN {gets[i] + TTL : i \in DOMAIN gets} ELSE {Nothing}

TypeOK ==
    /\ requireToken \in BOOLEAN /\ stream \in Stream /\ wish \in Wish /\ now \in 0..MaxNow
    /\ gets \in Seq(0..MaxNow)
    /\ \A u \in known :
        /\ u.route \in {"hls", "hls-proxy"}
        /\ u.path \in File \union {<<"odd">>}
        /\ u.expires \in TTL..MaxNow + TTL \union {Nothing}
        /\ u.codec \in Wish
    /\ \A a \in answers : a.url \in known /\ a.status \in {200, 401, 404, 502}

(***************************************************************************)
(* Every URL that a player was handed works until the token expires with   *)
(* which it started, however late a playlist was asked for, and whichever  *)
(* playlist named it: it leads to a file, by the route that serves it.     *)
(* The exception is a codec appended to a URL that has no token.           *)
(***************************************************************************)
WorksUntilExpiry ==
    \A a \in answers :
        a.status # 200 /\ a.url.path # <<"odd">> =>
            a.status = 401 /\ requireToken /\ now > a.url.expires

(***************************************************************************)
(* No playlist prolongs a token: what a player may still fetch expires     *)
(* within TTL of a GET /videos/{id}, at the time that answer said.         *)
(***************************************************************************)
ExpiryIsHandedDown == \A u \in known : u.expires \in Expiry

\* What a player of this wish is to get: the tracks, and the variants of the
\* codec or all of them if it has none.
Expected ==
    LET fitting == {dir \in ToSet(stream.variants) : dir[1] = wish}
        left == IF fitting = {} THEN {} ELSE ToSet(stream.variants) \ fitting
    IN  {MasterPath} \union UNION {FilesOf(dir) : dir \in Renditions \ left}

(***************************************************************************)
(* A player that has followed all URLs that came from one manifest URL,    *)
(* and was refused none, has the whole stream: every track, the sprite and *)
(* the variants of the codec it wished for, of all codecs when there is    *)
(* none of that, and no other.                                             *)
(***************************************************************************)
StreamReached ==
    requireToken \/ wish = Nothing =>
        \A e \in Expiry :
            LET handed == {u \in known : u.expires = e}
                fetched == {u \in handed : [url |-> u, status |-> 200] \in answers}
            IN  handed # {} /\ fetched = handed => {u.path : u \in fetched} = Expected
=============================================================================
