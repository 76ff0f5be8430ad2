SPECIFICATION Spec
CONSTANTS
    v1 = v1
    v2 = v2
    v3 = v3
    v4 = v4
    Video = {v1, v2, v3, v4}
    MaxSize = 3
    DefaultSize = 2
    MaxInt = 15
    WalkSize = {1, 2, 5}
    MaxTime = 3
SYMMETRY Videos
INVARIANTS TypeOK PagesAreExact MissedForDeleted RepeatedForInserted
\* Nothing happens any more once all videos are deleted and the client is through.
CHECK_DEADLOCK FALSE
