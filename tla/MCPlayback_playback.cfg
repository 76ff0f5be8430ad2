SPECIFICATION Spec
CONSTANTS
    Nothing = Nothing
    Stream <- Streams
    Wish <- Wishes
    TTL = 1
    MaxNow = 3
    MaxGets = 2
INVARIANTS TypeOK WorksUntilExpiry ExpiryIsHandedDown StreamReached
\* A player stops when it has what it wants and time is up.
CHECK_DEADLOCK FALSE
