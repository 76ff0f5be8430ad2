----------------------------- MODULE MCPlayback -----------------------------
(***************************************************************************)
(* Playback of three small streams: two codecs; one codec and subtitles;   *)
(* and sound with a sprite but no variant, as Transcode may leave it.      *)
(***************************************************************************)
EXTENDS Playback

Streams ==
    {[variants |-> <<<<"h264", "360p">>, <<"av1", "360p">>>>, tracks |-> << >>,
      images |-> FALSE, saved |-> {}],
     [variants |-> <<<<"h264", "360p">>>>, tracks |-> <<<<"subs", "0">>>>,
      images |-> FALSE, saved |-> {<<"subs", "0">>}],
     [variants |-> << >>, tracks |-> <<<<"audio", "0">>>>,
      images |-> TRUE, saved |-> {}]}

Wishes == {"av1", "h265", Nothing}
=============================================================================
