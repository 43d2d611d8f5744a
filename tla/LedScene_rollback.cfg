CONSTANTS
    Effects = {"off", "rainbow", "future"}
    Firmwares = {"current", "newer"}
    Registry <- TwoRegistries
    Scrolls = {"rainbow"}
    Colours = {1}
    MaxSeq = 2
    MaxTime = 2
    MaxClock = 2
    MaxBoots = 1
    Requests <- AllTags
    FreshSequence = TRUE
    DefaultScene <- Rainbow
    ZeroScene <- Zeroes
    Absent = Absent
SPECIFICATION Spec
INVARIANTS
    OnlyKnownEffects
