SPECIFICATION Spec
CONSTANTS
    Codec <- TwoCodecs
    Optional <- SomeOptional
    CodecName <- Names
    Quality <- TwoQualities
    Height <- Heights
    Original = "original"
    Source <- TalkingPictures
INVARIANTS AudioKept
CHECK_DEADLOCK FALSE
