CONSTANTS
    Effects = {"rainbow"}
    Firmwares = {"current"}
    Registry <- TinyRegistry
    Scrolls = {"rainbow"}
    Colours = {1}
    MaxSeq = 1
    MaxTime = 2
    MaxClock = 0
    MaxBoots = 1
    Requests <- AllTags
    FreshSequence = FALSE
    DefaultScene <- Rainbow
    ZeroScene <- Rainbow
    Absent = Absent
SPECIFICATION Spec
PROPERTIES
    NoEarlyFlip
