--------------------------- MODULE VideoLifecycle ---------------------------
(***************************************************************************)
(* What the API promises of a video, seen from outside: GET /videos/{id}   *)
(* shows its status, and the manifest URL that comes with "ready" leads to *)
(* a complete stream.  Which process does what, and in how many steps, is  *)
(* left to the pipeline that implements this.                              *)
(***************************************************************************)
CONSTANT Video

VARIABLES
    life,       \* per video: what its status says; "none" and "deleted": 404
    stream      \* the videos whose stream is completely stored

lifecycle == <<life, stream>>

LifecycleInit ==
    /\ life = [v \in Video |-> "none"]
    /\ stream = {}

Moves(v, from, to) ==
    /\ life[v] \in from
    /\ life' = [life EXCEPT ![v] = to]

Register(v) == Moves(v, {"none"}, "pending") /\ UNCHANGED stream

Begin(v) == Moves(v, {"pending"}, "processing") /\ UNCHANGED stream

\* The stream of a video that was deleted meanwhile may still be completed.
StoreStream(v) ==
    /\ life[v] \in {"processing", "deleted"}
    /\ stream' = stream \union {v}
    /\ UNCHANGED life

Finish(v) ==
    /\ v \in stream
    /\ Moves(v, {"processing"}, "ready")
    /\ UNCHANGED stream

Fail(v) == Moves(v, {"pending", "processing"}, "failed") /\ UNCHANGED stream

Delete(v) ==
    /\ Moves(v, {"pending", "processing", "ready", "failed"}, "deleted")
    /\ UNCHANGED stream

Discard(v) ==
    /\ life[v] = "deleted"
    /\ stream' = stream \ {v}
    /\ UNCHANGED life

LifecycleNext ==
    \E v \in Video :
        \/ Register(v) \/ Begin(v) \/ StoreStream(v) \/ Finish(v)
        \/ Fail(v) \/ Delete(v) \/ Discard(v)

LifecycleSpec == LifecycleInit /\ [][LifecycleNext]_lifecycle
=============================================================================
