SPECIFICATION Spec
CONSTANTS
    v1 = v1  w1 = w1  w2 = w2  s1 = s1  s2 = s2
    NoVideo = NoVideo
    Video <- OneVideo
    Worker <- TwoWorkers
    Slot <- OneSlot
    Budget <- FaultsBudget
INVARIANTS TypeOK ReadyIsPlayable RowHasOriginal RejectedLeavesNoOriginal StrandedNeedsMore ProgressIsEarned OneTaskPerVideo
PROPERTIES StatusOrder ProgressForward ImplementsLifecycle
SYMMETRY Interchangeable
