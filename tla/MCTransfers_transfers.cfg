SPECIFICATION FairSpec
CONSTANTS
    NoFile = NoFile
    Form <- Forms
    ReadTimeout = 3
    WriteTimeout = 1
    StorageTimeout = 2
    Faults = 1
INVARIANTS TypeOK StoredWhole AnswerIsTrue WholeIsWhole
PROPERTIES TransfersEnd
\* Nothing happens any more once both requests have ended.
CHECK_DEADLOCK FALSE
