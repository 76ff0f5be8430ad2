SPECIFICATION Spec
CONSTANTS
    Absent = Absent
    Broken = Broken
    Setting <- Settings
    Default <- TheDefault
    Second = 2
    Length <- Lengths
    Tasks = 3
    Slot = {w1, w2}
    w1 = w1
    w2 = w2
    Budget <- SharedBudget
INVARIANTS TypeOK CuesTileTime CuesHitTiles SpriteHoldsVideo ImagesAgree ThumbsThere
SYMMETRY Slots
