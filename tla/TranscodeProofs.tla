-------------------------- MODULE TranscodeProofs --------------------------
(***************************************************************************)
(* Theorems about Transcode for every set of codecs, qualities and heights *)
(* and every source.                                                       *)
(***************************************************************************)
EXTENDS Transcode, TLAPS

\* The integer bound of transcodeCodec is that of a fifth.
LEMMA FifthBound ==
    ASSUME NEW h \in Nat, NEW H \in Nat
    PROVE  h <= (H * 120) \div 100 <=> 5 * h <= 6 * H
  BY SMT

\* Heights are numbers.
LEMMA HeightTyped ==
    ASSUME TypeOK, NEW q \in Quality
    PROVE  HeightOf(q) \in Nat /\ video.height \in Nat
  BY SourceAssumption, QualityAssumption DEF TypeOK, HeightOf

\* A step that only moves process on keeps the playlists as they are.
LEMMA SameTracks ==
    ASSUME UNCHANGED <<config, video, encoder, track>>
    PROVE  /\ Codecs' = Codecs /\ Applicable' = Applicable /\ Variants' = Variants
           /\ Audio' = Audio /\ Subs' = Subs /\ Kept' = Kept
  BY DEF Codecs, Applicable, HeightOf, Variants, Audio, Subs, Kept

\* The goroutine of a codec keeps the invariant, whatever it finds.
LEMMA EncoderKeeps ==
    ASSUME TranscodeInv, NEW c \in Codec, NEW from \in Running,
           NEW to \in {"encode"} \union Ended, EncoderGoes(c, from, to),
           to = "empty" => Applicable = {},
           whole' = IF to = "produced" THEN whole \union VariantsOf(c) ELSE whole
    PROVE  TranscodeInv'
  <1>0. step = "codecs"
    BY DEF EncoderGoes, TranscodeInv, NoStrayEncoder
  <1>1. /\ Codecs' = Codecs /\ Applicable' = Applicable /\ Audio' = Audio /\ Subs' = Subs
        /\ Kept' = Kept
    BY DEF EncoderGoes, Codecs, Applicable, HeightOf, Audio, Subs, Kept
  <1>2. encoder' = [encoder EXCEPT ![c] = to] /\ encoder \in [Codec -> {"idle"} \union Running \union Ended]
    BY DEF EncoderGoes, TranscodeInv, TypeOK
  <1>3. Variants' = IF to = "produced" THEN Variants \union VariantsOf(c) ELSE Variants
    <2>1. encoder[c] # "produced"
      BY DEF EncoderGoes, Running
    <2> QED BY <1>1, <1>2, <2>1 DEF Variants, VariantsOf
  <1>4. TypeOK'
    <2>1. VariantsOf(c) \subseteq Playlist
      BY DEF VariantsOf, Applicable, Playlist, TranscodeInv, TypeOK
    <2>2. Playlist' = Playlist
      BY <1>1 DEF Playlist
    <2> QED BY <1>1, <1>2, <2>1, <2>2 DEF TranscodeInv, TypeOK, EncoderGoes, Running, Ended, Images
  <1>5. WholeInv'
    BY <1>1, <1>3 DEF TranscodeInv, WholeInv
  <1>6. EncoderInv'
    BY <1>0, <1>1, <1>2 DEF TranscodeInv, EncoderInv, EncoderGoes, Running, Ended
  <1>7. NamesKnown' /\ CodecsDone' /\ NoStrayEncoder' /\ AudioEnded' /\ CancelledFails'
    BY <1>0, <1>1 DEF TranscodeInv, NamesKnown, CodecsDone, NoStrayEncoder, AudioEnded, CancelledFails,
                      EncoderGoes
  <1>8. MasterInv' /\ TracksInv'
    BY <1>0, <1>1, <1>3 DEF TranscodeInv, MasterInv, TracksInv, EncoderGoes, Images
  <1> QED BY <1>4, <1>5, <1>6, <1>7, <1>8 DEF TranscodeInv

\* So does the extraction of a stream, kept or skipped.
LEMMA TrackKeeps ==
    ASSUME TranscodeInv, step \in {"audio", "subs"}, NEW t \in Audio \union Subs,
           Extracted(t) \/ Skipped(t)
    PROVE  TranscodeInv'
  <1>1. /\ Codecs' = Codecs /\ Applicable' = Applicable /\ Audio' = Audio /\ Subs' = Subs
        /\ Variants' = Variants /\ UNCHANGED <<config, video, step, encoder, images, tracks, master, cancelled>>
    BY DEF Extracted, Skipped, TrackGoes, Codecs, Applicable, HeightOf, Audio, Subs, Variants
  <1>2. /\ track \in [Audio \union Subs -> {"waiting", "kept", "skipped"}]
        /\ track[t] = "waiting"
        /\ \/ track' = [track EXCEPT ![t] = "kept"] /\ whole' = whole \union {t}
           \/ track' = [track EXCEPT ![t] = "skipped"] /\ whole' = whole
    BY DEF Extracted, Skipped, TrackGoes, TranscodeInv, TypeOK
  <1>3. \/ Kept' = Kept \union {t} /\ whole' = whole \union {t}
        \/ Kept' = Kept /\ whole' = whole
    BY <1>1, <1>2 DEF Kept
  <1>4. TypeOK'
    <2>1. Playlist' = Playlist
      BY <1>1 DEF Playlist
    <2>2. whole' \subseteq Playlist
      BY <1>2 DEF TranscodeInv, TypeOK, Playlist
    <2> QED BY <1>1, <1>2, <2>1, <2>2 DEF TranscodeInv, TypeOK, Images
  <1>5. WholeInv'
    BY <1>1, <1>3 DEF TranscodeInv, WholeInv
  <1>6. EncoderInv' /\ NamesKnown' /\ CodecsDone' /\ NoStrayEncoder' /\ CancelledFails'
    BY <1>1 DEF TranscodeInv, EncoderInv, NamesKnown, CodecsDone, NoStrayEncoder, CancelledFails
  <1>8. AudioEnded'
    BY <1>1, <1>2 DEF TranscodeInv, TypeOK, AudioEnded
  <1>7. MasterInv' /\ TracksInv'
    BY <1>1, <1>3 DEF TranscodeInv, MasterInv, TracksInv, Images
  <1> QED BY <1>4, <1>5, <1>6, <1>7, <1>8 DEF TranscodeInv

\* And so does every step of process that changes neither.
LEMMA ProcessKeeps ==
    ASSUME TranscodeInv, UNCHANGED <<config, video, encoder, track, whole>>,
           step' = step \/ (step \notin {"filter", "failed"} /\ step' # "filter"),
           step' \in Step, images' \in {"none", "whole", "broken"}, cancelled' \in BOOLEAN,
           NamesKnown', CodecsDone', NoStrayEncoder', AudioEnded', CancelledFails',
           tracks' \subseteq Kept,
           master' \subseteq Variants \union Kept \union Images,
           step' \in {"upload", "done"} => Variants \union Kept \subseteq master'
    PROVE  TranscodeInv'
  <1>1. /\ Codecs' = Codecs /\ Applicable' = Applicable /\ Variants' = Variants
        /\ Audio' = Audio /\ Subs' = Subs /\ Kept' = Kept
    BY SameTracks
  <1>2. Variants \union Kept \subseteq Playlist
    BY DEF TranscodeInv, WholeInv, TypeOK
  <1>3. TypeOK'
    BY <1>1, <1>2 DEF TranscodeInv, TypeOK, Playlist, Images, Kept
  <1>4. WholeInv' /\ EncoderInv' /\ MasterInv' /\ TracksInv'
    BY <1>1 DEF TranscodeInv, WholeInv, EncoderInv, MasterInv, TracksInv, Images, Step
  <1> QED BY <1>3, <1>4 DEF TranscodeInv

-----------------------------------------------------------------------------
\* The invariant holds at first.
LEMMA TranscodeInit ==
    ASSUME Init
    PROVE  TranscodeInv
  <1>1. TypeOK
    BY DEF Init, TypeOK, Step
  <1>2. Kept = {} /\ Variants = {}
    BY DEF Init, Kept, Variants
  <1> QED
    BY <1>1, <1>2 DEF Init, TranscodeInv, WholeInv, EncoderInv, NamesKnown, CodecsDone,
                      NoStrayEncoder, Running, AudioEnded, TracksInv, MasterInv, CancelledFails

\* Every step keeps it.
LEMMA TranscodeStep ==
    ASSUME TranscodeInv, [Next]_vars
    PROVE  TranscodeInv'
  <1> USE DEF Step
  <1>0. /\ step \in Step /\ images \in {"none", "whole", "broken"} /\ cancelled \in BOOLEAN
        /\ master \subseteq Variants \union Kept \union Images
        /\ step \in {"upload", "done"} => Variants \union Kept \subseteq master
        /\ tracks \subseteq Kept
    BY DEF TranscodeInv, TypeOK, MasterInv, TracksInv
  <1>1. CASE FilterCodecs
    <2>1. /\ Codecs' = Codecs /\ Applicable' = Applicable /\ Audio' = Audio /\ Subs' = Subs
          /\ Kept' = Kept /\ UNCHANGED <<config, video, track, whole, images, tracks, master, cancelled>>
          /\ step = "filter" /\ step' \in {"failed", "codecs"}
      BY <1>1 DEF FilterCodecs, Codecs, Applicable, HeightOf, Audio, Subs, Kept
    <2>2. \A c \in Codec : encoder[c] = "idle"
      BY <2>1 DEF TranscodeInv, EncoderInv
    <2>3. /\ encoder' \in [Codec -> {"idle"} \union Running]
          /\ \A c \in Codec : encoder'[c] # "idle" => c \in Codecs
          /\ step' = "codecs" =>
                Codecs \subseteq Codec /\ \A c \in Codecs : encoder'[c] # "idle"
          /\ step' = "failed" => UNCHANGED encoder
      BY <1>1, <2>2 DEF FilterCodecs, Running, TranscodeInv, TypeOK
    <2>4. Variants' = Variants
      BY <2>1, <2>2, <2>3 DEF Variants, Running
    <2>5. TypeOK'
      BY <2>1, <2>3 DEF TranscodeInv, TypeOK, Playlist, Images
    <2>6. WholeInv' /\ MasterInv' /\ TracksInv'
      BY <2>1, <2>4 DEF TranscodeInv, WholeInv, MasterInv, TracksInv, Images
    <2>7. EncoderInv' /\ NamesKnown' /\ NoStrayEncoder'
      BY <2>1, <2>2, <2>3 DEF EncoderInv, NamesKnown, NoStrayEncoder, Running
    <2>8. CodecsDone' /\ AudioEnded' /\ CancelledFails'
      BY <2>1 DEF CodecsDone, AudioEnded, CancelledFails
    <2> QED BY <2>5, <2>6, <2>7, <2>8 DEF TranscodeInv
  <1>2. ASSUME NEW c \in Codec, CheckEncoder(c)
        PROVE  TranscodeInv'
    BY <1>2, EncoderKeeps DEF CheckEncoder, Running, Ended
  <1>3. ASSUME NEW c \in Codec, Encode(c)
        PROVE  TranscodeInv'
    BY <1>3, EncoderKeeps DEF Encode, Running, Ended
  <1>4. CASE CollectCodecs
    <2>1. Codecs' = Codecs
      BY <1>4 DEF CollectCodecs, Codecs
    <2>2. NamesKnown' /\ CodecsDone' /\ NoStrayEncoder' /\ AudioEnded' /\ CancelledFails'
      BY <1>4, <2>1 DEF CollectCodecs, NamesKnown, CodecsDone, NoStrayEncoder, AudioEnded, CancelledFails,
                        TranscodeInv, EncoderInv, Running, Ended
    <2> QED BY <1>0, <1>4, <2>2, ProcessKeeps DEF CollectCodecs
  <1>5. ASSUME NEW t \in Audio, ExtractAudioStream(t)
        PROVE  TranscodeInv'
    <2>1. step \in {"audio", "subs"}
      <3>1. step \notin {"filter", "codecs", "failed"} /\ track[t] = "waiting"
        BY <1>5 DEF ExtractAudioStream, Extracted, Skipped, TrackGoes
      <3> QED BY <3>1 DEF TranscodeInv, AudioEnded
    <2> QED BY <1>5, <2>1, TrackKeeps DEF ExtractAudioStream
  <1>6. ASSUME NEW i \in 1..Len(video.subs), ExtractSubtitle(i)
        PROVE  TranscodeInv'
    BY <1>6, TrackKeeps DEF ExtractSubtitle, Subs
  <1>7. ASSUME AudioDone \/ SubsDone \/ UpdateTracks \/ WriteImages \/ WriteMaster \/ Upload
        PROVE  TranscodeInv'
    <2>1. /\ step \notin {"filter", "codecs", "failed"}
          /\ step' \in Step \ {"filter", "codecs"}
          /\ UNCHANGED <<config, video, encoder, track, whole, cancelled>>
      BY <1>7 DEF AudioDone, SubsDone, UpdateTracks, WriteImages, WriteMaster, Upload
    <2>2. Codecs' = Codecs
      BY <2>1 DEF Codecs
    <2>3. NamesKnown' /\ CodecsDone' /\ NoStrayEncoder'
      BY <2>1, <2>2 DEF NamesKnown, CodecsDone, NoStrayEncoder, TranscodeInv
    <2>8. AudioEnded'
      <3>1. Audio' = Audio
        BY <2>1 DEF Audio
      <3> QED BY <1>7, <2>1, <3>1 DEF AudioDone, SubsDone, UpdateTracks, WriteImages, WriteMaster, Upload,
                                       AudioEnded, TranscodeInv
    <2>4. CancelledFails'
      BY <1>7 DEF AudioDone, SubsDone, UpdateTracks, WriteImages, WriteMaster, Upload, CancelledFails
    <2>5. images' \in {"none", "whole", "broken"}
      BY <1>0, <1>7 DEF AudioDone, SubsDone, UpdateTracks, WriteImages, WriteMaster, Upload
    <2>6. /\ master' \subseteq Variants \union Kept \union Images
          /\ step' \in {"upload", "done"} => Variants \union Kept \subseteq master'
      BY <1>0, <1>7 DEF AudioDone, SubsDone, UpdateTracks, WriteImages, WriteMaster, Upload, Listed
    <2>7. tracks' \subseteq Kept
      BY <1>0, <1>7 DEF AudioDone, SubsDone, UpdateTracks, WriteImages, WriteMaster, Upload
    <2> QED BY <1>0, <2>1, <2>3, <2>4, <2>5, <2>6, <2>7, <2>8, ProcessKeeps
  <1>8. CASE Cancel
    <2>1. Codecs' = Codecs
      BY <1>8 DEF Cancel, Codecs
    <2>2. NamesKnown' /\ CodecsDone' /\ NoStrayEncoder' /\ AudioEnded' /\ CancelledFails'
      BY <1>8, <2>1 DEF Cancel, NamesKnown, CodecsDone, NoStrayEncoder, AudioEnded, CancelledFails,
                        TranscodeInv, Audio
    <2> QED BY <1>0, <1>8, <2>2, ProcessKeeps DEF Cancel
  <1>9. CASE UNCHANGED vars
    <2>1. Codecs' = Codecs
      BY <1>9 DEF vars, Codecs
    <2>2. NamesKnown' /\ CodecsDone' /\ NoStrayEncoder' /\ AudioEnded' /\ CancelledFails'
      BY <1>9, <2>1 DEF vars, NamesKnown, CodecsDone, NoStrayEncoder, AudioEnded, CancelledFails,
                        TranscodeInv, Audio
    <2> QED BY <1>0, <1>9, <2>2, ProcessKeeps DEF vars
  <1> QED
    BY <1>1, <1>2, <1>3, <1>4, <1>5, <1>6, <1>7, <1>8, <1>9 DEF Next, Work

(***************************************************************************)
(* The invariant of a transcode holds for every configuration and source:  *)
(* what is complete in hls is what the goroutines report, a required codec *)
(* does not fail unnoticed, no encoder is left behind, and a job that was  *)
(* shut down is not done.                                                  *)
(***************************************************************************)
THEOREM TranscodeInvCorrect == Spec => []TranscodeInv
  BY TranscodeInit, TranscodeStep, PTL DEF Spec

-----------------------------------------------------------------------------
\* The lines of the master playlist but for the image playlist are what is
\* complete.
LEMMA ListedIsMade ==
    ASSUME TranscodeInv, NEW S, whole \subseteq S, S \subseteq whole \union Images
    PROVE  S \ Images = whole
  <1>1. whole = Variants \union Kept
    BY DEF TranscodeInv, WholeInv
  <1>2. \A v \in Variants : v \notin Images
    <2> SUFFICES ASSUME NEW v \in Variants, v \in Images
                 PROVE  FALSE
      OBVIOUS
    <2>1. v[1] \in Codec
      BY DEF Variants
    <2>2. v[1] = "images"
      BY DEF Images
    <2> QED BY <2>1, <2>2, CodecAssumption, NameAssumption
  <1>3. \A t \in Kept : t \notin Images
    BY DEF Kept, Audio, Subs, Images
  <1> QED BY <1>1, <1>2, <1>3

(***************************************************************************)
(* The master playlist lists exactly what is complete, image playlist      *)
(* aside, for every number of codecs, qualities and streams.               *)
(***************************************************************************)
THEOREM MasterCorrect == Spec => []MasterMatchesFiles
  <1>1. TranscodeInv => MasterMatchesFiles
    <2> SUFFICES ASSUME TranscodeInv, step \in {"upload", "done"}
                 PROVE  master \ Images = whole
      BY DEF MasterMatchesFiles
    <2>1. whole \subseteq master /\ master \subseteq whole \union Images
      BY DEF TranscodeInv, WholeInv, MasterInv
    <2> QED BY <2>1, ListedIsMade
  <1> QED BY <1>1, TranscodeInvCorrect, PTL

(***************************************************************************)
(* The tracks that the row names are renditions of the master playlist.    *)
(***************************************************************************)
THEOREM TracksCorrect == Spec => []TracksAreListed
  <1>1. TranscodeInv => TracksAreListed
    BY DEF TranscodeInv, TracksInv, MasterInv, TracksAreListed
  <1> QED BY <1>1, TranscodeInvCorrect, PTL

(***************************************************************************)
(* Every codec that is not optional is there in every quality that scales  *)
(* the source up by a fifth at most, and no codec in any other, for every  *)
(* height of a source and of a quality.                                    *)
(***************************************************************************)
THEOREM RequiredCorrect == Spec => []RequiredEncoded
  <1>1. TranscodeInv => RequiredEncoded
    <2> SUFFICES ASSUME TranscodeInv, step = "done", NEW q \in config.qualities
                 PROVE  /\ Fits(q) => \A c \in Codecs \ Optional : <<c, q>> \in master
                        /\ ~Fits(q) => \A c \in Codec : <<c, q>> \notin master
      BY DEF RequiredEncoded
    <2>1. q \in Quality /\ HeightOf(q) \in Nat /\ video.height \in Nat
      BY HeightTyped DEF TranscodeInv, TypeOK
    <2>2. q \in Applicable <=> Fits(q)
      BY <2>1, FifthBound DEF Applicable, Fits
    <2>3. ASSUME Fits(q), NEW c \in Codecs \ Optional
          PROVE  <<c, q>> \in master
      <3>1. c \in Codec /\ encoder[c] = "produced"
        BY <2>2, <2>3 DEF TranscodeInv, TypeOK, NamesKnown, NoStrayEncoder, CodecsDone, EncoderInv, Running, Ended
      <3> QED BY <2>2, <2>3, <3>1 DEF Variants, TranscodeInv, MasterInv
    <2>4. ASSUME ~Fits(q), NEW c \in Codec
          PROVE  <<c, q>> \notin master
      <3>1. c \notin {"audio", "subs", "images"}
        BY CodecAssumption, NameAssumption
      <3>2. <<c, q>> \in master => <<c, q>> \in Variants
        BY <3>1 DEF TranscodeInv, MasterInv, Kept, Audio, Subs, Images
      <3> QED BY <2>2, <2>4, <3>2 DEF Variants
    <2> QED BY <2>3, <2>4
  <1> QED BY <1>1, TranscodeInvCorrect, PTL

(***************************************************************************)
(* No goroutine of a codec outlives TranscodeHLS, whatever fails.          *)
(***************************************************************************)
THEOREM NoStrayCorrect == Spec => []NoStrayEncoder
  BY TranscodeInvCorrect, PTL DEF TranscodeInv

(***************************************************************************)
(* The variables have their types.                                         *)
(***************************************************************************)
THEOREM TypeCorrect == Spec => []TypeOK
  BY TranscodeInvCorrect, PTL DEF TranscodeInv

(***************************************************************************)
(* A job that was shut down before its upload was complete is not done.    *)
(***************************************************************************)
THEOREM CancelledCorrect == Spec => []CancelledFails
  BY TranscodeInvCorrect, PTL DEF TranscodeInv

(***************************************************************************)
(* Whatever its goroutines do and whichever of them fail, a job makes      *)
(* playlists, closes them off with a master playlist that lists them all,  *)
(* and makes none after that, nor after it has failed; and one that was    *)
(* shut down is never done.                                                *)
(***************************************************************************)
THEOREM StreamJobCorrect == Spec => ImplementsStreamJob
  <1>1. ASSUME Init
        PROVE  Job!JobInit
    BY <1>1 DEF Init, Job!JobInit, Outcome
  <1>2. ASSUME TranscodeInv, [Next]_vars
        PROVE  [Job!JobNext]_(Job!streamJob)
    <2> USE DEF Outcome
    <2>0. Images' = Images
      BY DEF Images
    <2>1. whole = Variants \union Kept /\ tracks \subseteq Kept
      BY <1>2 DEF TranscodeInv, WholeInv, TracksInv
    <2>2. CASE FilterCodecs \/ CollectCodecs
      BY <2>0, <2>2 DEF FilterCodecs, CollectCodecs, Job!JobNext, Job!GiveUp, Job!streamJob
    <2>3. ASSUME NEW c \in Codec, CheckEncoder(c) \/ Encode(c)
          PROVE  Job!Make
      <3>1. step = "codecs"
        <4>1. encoder[c] \in Running
          BY <2>3 DEF CheckEncoder, Encode, EncoderGoes, Running
        <4> QED BY <1>2, <4>1 DEF TranscodeInv, NoStrayEncoder
      <3> QED BY <2>0, <2>3, <3>1 DEF CheckEncoder, Encode, EncoderGoes, Job!Make
    <2>4. ASSUME NEW t \in Audio \union Subs, step \in {"audio", "subs"}, Extracted(t) \/ Skipped(t)
          PROVE  Job!Make
      BY <2>0, <2>4 DEF Extracted, Skipped, TrackGoes, Job!Make
    <2>5. ASSUME NEW t \in Audio, ExtractAudioStream(t)
          PROVE  Job!Make
      <3>1. step \notin {"filter", "codecs", "failed"} /\ track[t] = "waiting"
        BY <2>5 DEF ExtractAudioStream, Extracted, Skipped, TrackGoes
      <3>2. step \in {"audio", "subs"}
        BY <1>2, <3>1 DEF TranscodeInv, AudioEnded, TypeOK, Step
      <3> QED BY <2>4, <2>5, <3>2 DEF ExtractAudioStream
    <2>6. ASSUME NEW i \in 1..Len(video.subs), ExtractSubtitle(i)
          PROVE  Job!Make
      BY <2>4, <2>6 DEF ExtractSubtitle, Subs
    <2>7. CASE AudioDone \/ SubsDone \/ WriteImages
      BY <2>0, <2>7 DEF AudioDone, SubsDone, WriteImages, Job!streamJob
    <2>8. CASE UpdateTracks
      BY <2>0, <2>1, <2>8 DEF UpdateTracks, Job!JobNext, Job!Name
    <2>9. CASE WriteMaster
      <3>1. CASE step' = "failed" /\ UNCHANGED master
        BY <2>0, <2>9, <3>1 DEF WriteMaster, Job!JobNext, Job!GiveUp
      <3>2. CASE step' = "upload" /\ master' = Variants \union Kept \union Listed(Images)
        <4>1. whole \subseteq master' /\ master' \subseteq whole \union Images
          BY <2>1, <3>2 DEF Listed
        <4>2. master' \ Images = whole
          BY <1>2, <4>1, ListedIsMade
        <4> QED BY <2>0, <2>9, <3>2, <4>2 DEF WriteMaster, Job!JobNext, Job!Close
      <3> QED BY <2>9, <3>1, <3>2 DEF WriteMaster
    <2>10. CASE Upload
      BY <2>0, <2>10 DEF Upload, Job!JobNext, Job!Finish, Job!GiveUp
    <2>11. CASE Cancel
      BY <2>0, <2>11 DEF Cancel, Job!JobNext, Job!Stop
    <2>12. CASE UNCHANGED vars
      BY <2>0, <2>12 DEF vars, Job!streamJob
    <2> QED
      BY <1>2, <2>2, <2>3, <2>5, <2>6, <2>7, <2>8, <2>9, <2>10, <2>11, <2>12 DEF Next, Work, Job!JobNext
  <1> QED BY <1>1, <1>2, TranscodeInvCorrect, PTL DEF Spec, ImplementsStreamJob, Job!JobSpec
=============================================================================
