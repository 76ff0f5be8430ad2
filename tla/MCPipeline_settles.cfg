SPECIFICATION FairSpec
CONSTANTS
    v1 = v1  w1 = w1  w2 = w2  s1 = s1  s2 = s2
    NoVideo = NoVideo
    Video <- OneVideo
    Worker <- OneWorker
    Slot <- TwoSlots
    Budget <- SettlesBudget
INVARIANTS WorkDirsRemoved
PROPERTIES AcceptedSettles
