CONSTANTS
    Effects = {"off", "rainbow", "future"}
    Firmwares = {"current"}
    Registry <- OneRegistry
    Scrolls = {"rainbow"}
    Colours = {1}
    MaxSeq = 2
    MaxTime = 2
    MaxClock = 1
    MaxBoots = 1
    Requests <- KnobTags
    FreshSequence = TRUE
    DefaultScene <- Rainbow
    ZeroScene <- Zeroes
    Absent = Absent
SPECIFICATION FairSpec
INVARIANTS
    TypeOK
    LastAcceptedWins
    InheritsActiveScene
    ReadBackSettles
    ResumesShownScene
    SyncedTimeNeverWraps
PROPERTIES
    NoEarlyFlip
    KeepsPromise
    DueSceneFlips
    StripCatchesUp
