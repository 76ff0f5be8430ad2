----------------------------- MODULE StreamJob -----------------------------
(***************************************************************************)
(* What a transcode job promises to those who play its stream: playlists   *)
(* are made one after the other, and then closed off by a master playlist  *)
(* that lists all of them; from there on nothing is made any more, and the *)
(* stream is either stored as it is or given up, the latter always when    *)
(* the job was told to stop.  How many goroutines make the playlists, and  *)
(* which of those fail, is left to Transcode.                              *)
(***************************************************************************)
VARIABLES
    made,       \* the playlists that are complete with their segments
    named,      \* those of them that the row names as tracks
    listed,     \* those that the master playlist lists
    outcome,    \* "open", then "closed", then "done"; or "failed"
    stopped     \* told to stop: the context of the job is cancelled

streamJob == <<made, named, listed, outcome, stopped>>

JobInit == made = {} /\ named = {} /\ listed = {} /\ outcome = "open" /\ ~stopped

Make ==
    /\ outcome = "open"
    /\ made \subseteq made'
    /\ UNCHANGED <<named, listed, outcome, stopped>>

Name ==
    /\ outcome = "open"
    /\ named' \subseteq made
    /\ UNCHANGED <<made, listed, outcome, stopped>>

Close ==
    /\ outcome = "open"
    /\ outcome' = "closed"
    /\ listed' = made
    /\ UNCHANGED <<made, named, stopped>>

Finish ==
    /\ outcome = "closed"
    /\ ~stopped
    /\ outcome' = "done"
    /\ UNCHANGED <<made, named, listed, stopped>>

GiveUp ==
    /\ outcome \in {"open", "closed"}
    /\ outcome' = "failed"
    /\ UNCHANGED <<made, named, listed, stopped>>

Stop ==
    /\ outcome \in {"open", "closed"}
    /\ stopped' = TRUE
    /\ UNCHANGED <<made, named, listed, outcome>>

JobNext == Make \/ Name \/ Close \/ Finish \/ GiveUp \/ Stop

JobSpec == JobInit /\ [][JobNext]_streamJob
=============================================================================
