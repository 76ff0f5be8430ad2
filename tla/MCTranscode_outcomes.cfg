SPECIFICATION Spec
CONSTANTS
    Codec <- TwoCodecs
    Optional <- SomeOptional
    CodecName <- Names
    Quality <- TwoQualities
    Height <- Heights
    Original = "original"
    Source <- Sources
INVARIANTS TypeOK MasterMatchesFiles RequiredEncoded NoStrayEncoder TracksAreListed
PROPERTIES TranscodeEnds ImplementsStreamJob
\* A transcode that has ended does nothing more.
CHECK_DEADLOCK FALSE
