CONSTANTS
    ClockWidth = 7203072
    PlaceWidth = 1536
    PaletteRefs <- Registry
    Palette <- Colours
    NoPalette = "none"
    Sequences = {0, 1}
    hash8 <- Scatter
    Nodes = {"a", "b"}
    Layout <- Sides
    LedCount = 12
    Lag <- Behind
    Scenes <- EveryScene
    NextScenes <- Comet
    Calibrations <- Tunings
    Identity <- AsBuilt
    Epochs <- Moments
    Horizon = 32
    Late = {0, 4}
    MaxChanges = 1
    None = None
SPECIFICATION Spec
INVARIANTS
    TypeOK
    NeverBrighter
    StripIsAWindow
    CometIsWhole
    FibonacciConsecutive
CHECK_DEADLOCK FALSE
