---------------------------- MODULE MCTranscode ----------------------------
(***************************************************************************)
(* Transcode with two of the three codecs and qualities around the bound   *)
(* of a fifth: 299 lines are one too few for 360p, 300 are just enough.    *)
(***************************************************************************)
EXTENDS Transcode

TwoCodecs == {"h264", "av1"}
SomeOptional == {"av1"}
Names == {"h264", "av1", "vp9"}
TwoQualities == {"360p", "original"}
Heights == [q \in TwoQualities |-> IF q = "360p" THEN 360 ELSE 0]

Sources ==
    [height : {0, 299, 300, 360}, audio : 0..2,
     subs : {<< >>, <<"text">>, <<"bitmap", "text">>}]

\* One source with sound
TalkingPictures == {[height |-> 360, audio |-> 1, subs |-> << >>]}
=============================================================================
