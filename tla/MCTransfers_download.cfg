SPECIFICATION Spec
CONSTANTS
    NoFile = NoFile
    Form <- OneForm
    ReadTimeout = 3
    WriteTimeout = 1
    StorageTimeout = 2
    Faults = 0
INVARIANTS DownloadCompletes
CHECK_DEADLOCK FALSE
