----------------------------- MODULE Transcode -----------------------------
(***************************************************************************)
(* Inside one job of Pipeline, from TranscodeHLS to uploadHLS: which       *)
(* playlists end up in the directory hls, and which of them the master     *)
(* playlist lists.  The codecs are encoded in parallel, and so are the     *)
(* audio streams; most errors are swallowed.                               *)
(***************************************************************************)
EXTENDS Naturals, Sequences, FiniteSets

CONSTANTS
    Codec,      \* the codecs that CodecsForAccel offers
    Optional,   \* those of them whose failure is skipped
    CodecName,  \* the names that TRANSCODE_CODECS may list
    Quality,    \* the names that TRANSCODE_QUALITIES may list
    Height,     \* the height of each quality; that of Original is not used
    Original,   \* the quality that keeps the height of the source
    Source      \* what ffprobe may tell of an original

ASSUME CodecAssumption == Optional \subseteq Codec /\ Codec \subseteq CodecName
ASSUME NameAssumption == CodecName \intersect {"audio", "subs", "images"} = {}
ASSUME QualityAssumption == Height \in [Quality -> Nat]
ASSUME SourceAssumption ==
    Source \subseteq [height : Nat, audio : Nat, subs : Seq({"text", "bitmap"})]

VARIABLES
    config,     \* what the transcoder is configured to produce
    video,      \* what ffprobe told of the original
    step,       \* where process is
    encoder,    \* per codec: where its goroutine is
    track,      \* per audio and subtitle stream: where its extraction is
    whole,      \* the playlists in hls that are complete with their segments
    images,     \* the image playlist in hls: "none", "whole" or "broken"
    tracks,     \* columns audio_tracks and subtitle_tracks, by playlist
    master,     \* the playlists that master.m3u8 lists
    cancelled   \* ctx was cancelled

vars == <<config, video, step, encoder, track, whole, images, tracks, master, cancelled>>

-----------------------------------------------------------------------------
(* Playlists, by the directory that holds them. *)

Audio == {<<"audio", i>> : i \in 0..video.audio - 1}
Subs == {<<"subs", i>> : i \in 1..Len(video.subs)}
Images == {<<"images", 0>>}

\* filterCodecs: no names mean all codecs that there are.
Codecs == IF config.codecs = {} THEN Codec ELSE config.codecs

\* "original" is resolved to the height of the source.
HeightOf(q) == IF q = Original THEN video.height ELSE Height[q]

\* A quality that would scale the source up by more than a fifth is left out.
Applicable ==
    {q \in config.qualities : video.height > 0 => HeightOf(q) <= (video.height * 120) \div 100}

VariantsOf(c) == {c} \X Applicable
Variants == {v \in Codec \X Applicable : encoder[v[1]] = "produced"}
Kept == {t \in Audio \union Subs : track[t] = "kept"}

Init ==
    /\ config \in [codecs : SUBSET CodecName, qualities : (SUBSET Quality) \ {{}}]
    /\ video \in Source
    /\ step = "filter"
    /\ encoder = [c \in Codec |-> "idle"]
    /\ track = [t \in Audio \union Subs |-> "waiting"]
    /\ whole = {}
    /\ images = "none"
    /\ tracks = {}
    /\ master = {}
    /\ cancelled = FALSE

-----------------------------------------------------------------------------
(* TranscodeHLS *)

\* The directory is made and the names are looked up, which they were not
\* before: an unknown one fails every job.  Then each codec gets a goroutine.
FilterCodecs ==
    /\ step = "filter"
    /\ \/ step' = "failed" /\ UNCHANGED encoder
       \/ /\ Codecs \subseteq Codec
          /\ step' = "codecs"
          /\ encoder' = [c \in Codec |-> IF c \in Codecs THEN "check" ELSE "idle"]
    /\ UNCHANGED <<config, video, track, whole, images, tracks, master, cancelled>>

Running == {"check", "encode"}
Ended == {"failed", "empty", "produced"}

\* The goroutine of codec c runs on its own once TranscodeHLS has started it.
EncoderGoes(c, from, to) ==
    /\ encoder[c] = from
    /\ encoder' = [encoder EXCEPT ![c] = to]
    /\ UNCHANGED <<config, video, step, track, images, tracks, master, cancelled>>

\* transcodeCodec up to ffmpeg: an encoder that is not there, or a directory
\* that cannot be made, is an error; no quality that applies is none.
CheckEncoder(c) ==
    /\ \/ EncoderGoes(c, "check", "failed")
       \/ ~cancelled /\ Applicable = {} /\ EncoderGoes(c, "check", "empty")
       \/ ~cancelled /\ Applicable # {} /\ EncoderGoes(c, "check", "encode")
    /\ UNCHANGED whole

\* Mutant of Encode: the channel of the results has room for one.
EncodeBlocks(c) ==
    /\ \A d \in Codec : encoder[d] \notin Ended
    /\ ~cancelled
    /\ EncoderGoes(c, "encode", "produced")
    /\ whole' = whole \union VariantsOf(c)

\* One ffmpeg writes all variants of a codec.  What it leaves behind when it
\* fails is not complete.
Encode(c) ==
    \/ /\ ~cancelled
       /\ EncoderGoes(c, "encode", "produced")
       /\ whole' = whole \union VariantsOf(c)
    \/ /\ EncoderGoes(c, "encode", "failed")
       /\ UNCHANGED whole

\* Mutant of CollectCodecs: it returns with the first error.
CollectCodecsEarly ==
    /\ step = "codecs"
    /\ \/ \A c \in Codecs : encoder[c] \in Ended
       \/ \E c \in Codecs \ Optional : encoder[c] = "failed"
    /\ step' = IF \E c \in Codecs \ Optional : encoder[c] = "failed" THEN "failed" ELSE "audio"
    /\ UNCHANGED <<config, video, encoder, track, whole, images, tracks, master, cancelled>>

\* Mutant of CollectCodecs: an error of any codec is skipped.
CollectCodecsSkips ==
    /\ step = "codecs"
    /\ \A c \in Codecs : encoder[c] \in Ended
    /\ step' = "audio"
    /\ UNCHANGED <<config, video, encoder, track, whole, images, tracks, master, cancelled>>

\* wg.Wait, and then the errors: that of an optional codec is skipped.
CollectCodecs ==
    /\ step = "codecs"
    /\ \A c \in Codecs : encoder[c] \in Ended
    /\ step' = IF \E c \in Codecs \ Optional : encoder[c] = "failed" THEN "failed" ELSE "audio"
    /\ UNCHANGED <<config, video, encoder, track, whole, images, tracks, master, cancelled>>

-----------------------------------------------------------------------------
(* ExtractAudio, ExtractSubtitles and the image playlist: no error is fatal. *)

TrackGoes(t, to) ==
    /\ track[t] = "waiting"
    /\ track' = [track EXCEPT ![t] = to]
    /\ UNCHANGED <<config, video, step, encoder, images, tracks, master, cancelled>>

Extracted(t) ==
    /\ ~cancelled
    /\ TrackGoes(t, "kept")
    /\ whole' = whole \union {t}

Skipped(t) ==
    /\ TrackGoes(t, "skipped")
    /\ UNCHANGED whole

\* One goroutine for each audio stream, from ExtractAudio on
ExtractAudioStream(t) ==
    /\ step \notin {"filter", "codecs", "failed"}
    /\ t \in Audio
    /\ Extracted(t) \/ Skipped(t)

\* Mutant of AudioDone: no wg.Wait.
AudioDoneAtOnce ==
    /\ step = "audio"
    /\ step' = "subs"
    /\ UNCHANGED <<config, video, encoder, track, whole, images, tracks, master, cancelled>>

AudioDone ==
    /\ step = "audio"
    /\ \A t \in Audio : track[t] # "waiting"
    /\ step' = "subs"
    /\ UNCHANGED <<config, video, encoder, track, whole, images, tracks, master, cancelled>>

\* One subtitle stream after the other; bitmaps are skipped.  The last thing
\* written is the playlist, which may fail as well.
ExtractSubtitle(i) ==
    /\ step = "subs"
    /\ i \in 1..Len(video.subs)
    /\ \A j \in 1..i - 1 : track[<<"subs", j>>] # "waiting"
    /\ \/ video.subs[i] = "text" /\ Extracted(<<"subs", i>>)
       \/ Skipped(<<"subs", i>>)

SubsDone ==
    /\ step = "subs"
    /\ \A t \in Subs : track[t] # "waiting"
    /\ step' = "tracks"
    /\ UNCHANGED <<config, video, encoder, track, whole, images, tracks, master, cancelled>>

\* Mutant of UpdateTracks: a track goes by its place among those extracted.
UpdateTracksByPlace ==
    /\ step = "tracks"
    /\ step' = "images"
    /\ tracks' \in {tracks, {<<"audio", i>> : i \in 0..Cardinality(Kept \intersect Audio) - 1}
                               \union {<<"subs", i>> : i \in 1..Cardinality(Kept \intersect Subs)}}
    /\ cancelled => UNCHANGED tracks
    /\ UNCHANGED <<config, video, encoder, track, whole, images, master, cancelled>>

\* updateTracks, which is not fatal: each track goes by its index among the
\* streams of its type in the source, by which its directory is named.
UpdateTracks ==
    /\ step = "tracks"
    /\ step' = "images"
    /\ tracks' \in {tracks, Kept}
    /\ cancelled => UNCHANGED tracks
    /\ UNCHANGED <<config, video, encoder, track, whole, images, master, cancelled>>

\* GenerateSprite and WriteImageStreamManifest.  A WriteFile that fails may
\* leave an incomplete playlist.
WriteImages ==
    /\ step = "images"
    /\ step' = "master"
    /\ images' \in IF cancelled THEN {"none"} ELSE {"none", "whole", "broken"}
    /\ UNCHANGED <<config, video, encoder, track, whole, tracks, master, cancelled>>

-----------------------------------------------------------------------------
(* The master playlist and its upload *)

\* Mutant of Listed: it names the sprite itself.
ListedSprite(playlists) == IF images = "none" THEN {} ELSE {<<"sprite", 0>>}

\* The image playlist is listed if there is a file of its name.
Listed(playlists) == IF images = "none" THEN {} ELSE playlists

\* Mutant of WriteMaster: it lists the tracks that were probed.
WriteMasterProbed ==
    /\ step = "master"
    /\ \/ /\ step' = "upload"
          /\ master' = Variants \union Audio \union Subs \union Listed(Images)
       \/ step' = "failed" /\ UNCHANGED master
    /\ UNCHANGED <<config, video, encoder, track, whole, images, tracks, cancelled>>

\* WriteMasterManifest lists the variants and tracks that were produced.
WriteMaster ==
    /\ step = "master"
    /\ \/ /\ step' = "upload"
          /\ master' = Variants \union Kept \union Listed(Images)
       \/ step' = "failed" /\ UNCHANGED master
    /\ UNCHANGED <<config, video, encoder, track, whole, images, tracks, cancelled>>

\* Mutant of Upload: nobody looks at the errors.
UploadUnchecked ==
    /\ step = "upload"
    /\ step' = "done"
    /\ UNCHANGED <<config, video, encoder, track, whole, images, tracks, master, cancelled>>

\* uploadHLS takes all that is in hls, there is at least master.m3u8, and
\* fails when one upload fails.
Upload ==
    /\ step = "upload"
    /\ \/ ~cancelled /\ step' = "done"
       \/ step' = "failed"
    /\ UNCHANGED <<config, video, encoder, track, whole, images, tracks, master, cancelled>>

\* SIGTERM: what runs under ctx fails from now on, the rest goes on.
Cancel ==
    /\ step \notin {"done", "failed"}
    /\ ~cancelled
    /\ cancelled' = TRUE
    /\ UNCHANGED <<config, video, step, encoder, track, whole, images, tracks, master>>

-----------------------------------------------------------------------------
Work ==
    \/ FilterCodecs
    \/ \E c \in Codec : CheckEncoder(c) \/ Encode(c)
    \/ CollectCodecs
    \/ \E t \in Audio : ExtractAudioStream(t)
    \/ AudioDone
    \/ \E i \in 1..Len(video.subs) : ExtractSubtitle(i)
    \/ SubsDone \/ UpdateTracks \/ WriteImages \/ WriteMaster \/ Upload

Next == Work \/ Cancel

\* ffmpeg and the calls that process makes come to an end.
Spec == Init /\ [][Next]_vars /\ WF_vars(Work)

-----------------------------------------------------------------------------
Step == {"filter", "codecs", "audio", "subs", "tracks", "images", "master",
         "upload", "done", "failed"}

Playlist == (Codec \X Quality) \union Audio \union Subs

TypeOK ==
    /\ config \in [codecs : SUBSET CodecName, qualities : SUBSET Quality]
    /\ video \in Source
    /\ step \in Step
    /\ encoder \in [Codec -> {"idle"} \union Running \union Ended]
    /\ track \in [Audio \union Subs -> {"waiting", "kept", "skipped"}]
    /\ whole \subseteq Playlist
    /\ images \in {"none", "whole", "broken"}
    /\ tracks \subseteq Audio \union Subs
    /\ master \subseteq Playlist \union Images
    /\ cancelled \in BOOLEAN

(***************************************************************************)
(* The master playlist lists what is complete, all of it and nothing else, *)
(* whichever codecs and streams were skipped on the way: no URI of it ends *)
(* in a 404, and nothing that was encoded is lost.  The image playlist is  *)
(* left out: WriteMasterManifest takes any file of its name for complete.  *)
(***************************************************************************)
MasterMatchesFiles ==
    step \in {"upload", "done"} => master \ Images = whole

(***************************************************************************)
(* The tracks for which GET /videos/{id} will hand out URLs are renditions *)
(* of the master playlist, although streams before them may be missing:    *)
(* row, directory and playlist name a track by the same index.             *)
(***************************************************************************)
TracksAreListed == step = "done" => tracks \subseteq master

(***************************************************************************)
(* H.264 cannot be missing: a job that is done has encoded every codec     *)
(* that is not optional in every configured quality that scales the source *)
(* up by a fifth at most, and no codec in any other, although the bound is *)
(* computed in integers and a height may be unknown.                       *)
(***************************************************************************)
Fits(q) == video.height > 0 => 5 * HeightOf(q) <= 6 * video.height

RequiredEncoded ==
    step = "done" =>
        \A q \in config.qualities :
            /\ Fits(q) => \A c \in Codecs \ Optional : <<c, q>> \in master
            /\ ~Fits(q) => \A c \in Codec : <<c, q>> \notin master

(***************************************************************************)
(* No ffmpeg is left behind: when process has gone on, or has returned     *)
(* with an error and removed its work directory, no goroutine of it writes *)
(* there any more.                                                         *)
(***************************************************************************)
NoStrayEncoder ==
    step # "codecs" => \A c \in Codec : encoder[c] \notin Running

(***************************************************************************)
(* A job that is shut down before its files are uploaded never becomes     *)
(* ready, although it swallows the errors that the shutdown brings about,  *)
(* all of them when every configured codec is optional.                    *)
(***************************************************************************)
CancelledFails == cancelled => step # "done"

-----------------------------------------------------------------------------
\* Where the stream of a job is, as its steps show.
Outcome ==
    IF step \in {"done", "failed"} THEN step
    ELSE IF step = "upload" THEN "closed" ELSE "open"

(***************************************************************************)
(* The goroutines of a job, the errors it swallows and its shutdown make   *)
(* one job that closes its stream off: when the master playlist is written *)
(* it lists all that is complete, and neither then nor after an error does *)
(* a goroutine add to the files that are uploaded or removed.  A job that  *)
(* is shut down before its files are uploaded never becomes ready,         *)
(* although it swallows most of the errors that the shutdown brings about. *)
(***************************************************************************)
Job == INSTANCE StreamJob
    WITH made <- whole, named <- tracks, listed <- master \ Images,
         outcome <- Outcome, stopped <- cancelled

ImplementsStreamJob == Job!JobSpec

-----------------------------------------------------------------------------
(***************************************************************************)
(* Why the invariants above hold: what is inductive together with them.    *)
(***************************************************************************)

\* What is complete in hls is known to the goroutines, and only that.
WholeInv == whole = Variants \union Kept

\* The result of a codec that was not asked for never comes, and one without
\* variants and without an error has no quality that applies.  A codec that
\* was asked for has its goroutine as soon as TranscodeHLS waits.
EncoderInv ==
    \A c \in Codec :
        /\ encoder[c] # "idle" => c \in Codecs
        /\ encoder[c] = "empty" => Applicable = {}
        /\ step \notin {"filter", "failed"} /\ c \in Codecs => encoder[c] # "idle"
        /\ step = "filter" => encoder[c] = "idle"

\* An unknown name has been noticed.
NamesKnown == step \notin {"filter", "failed"} => Codecs \subseteq Codec

\* What process knows when it has left TranscodeHLS without an error.
CodecsDone ==
    step \notin {"filter", "codecs", "failed"} =>
        \A c \in Codecs \ Optional : encoder[c] # "failed"

\* No audio goroutine is left behind either.
AudioEnded ==
    step \notin {"filter", "codecs", "audio", "failed"} =>
        \A t \in Audio : track[t] # "waiting"

\* What the row says of tracks is what was extracted.
TracksInv == tracks \subseteq Kept

MasterInv ==
    /\ master \subseteq Variants \union Kept \union Images
    /\ step \in {"upload", "done"} => Variants \union Kept \subseteq master

TranscodeInv ==
    /\ TypeOK /\ WholeInv /\ EncoderInv /\ NamesKnown /\ CodecsDone
    /\ NoStrayEncoder /\ AudioEnded /\ TracksInv /\ MasterInv /\ CancelledFails

-----------------------------------------------------------------------------
(***************************************************************************)
(* A transcode ends, shut down or not: no goroutine waits for a reader of  *)
(* its result that waits for the goroutine.                                *)
(***************************************************************************)
TranscodeEnds == <>(step \in {"done", "failed"})

(***************************************************************************)
(* The comment on TranscodeHLS says that audio which is stripped from the  *)
(* segments comes back as renditions of the master playlist: a source with *)
(* audio gives a stream with audio.  When each audio stream is skipped it  *)
(* does not.                                                               *)
(***************************************************************************)
AudioKept ==
    step = "done" /\ video.audio > 0 /\ master \intersect (Codec \X Quality) # {} =>
        master \intersect Audio # {}
=============================================================================
