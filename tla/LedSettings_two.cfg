CONSTANTS
    Firmwares = {"older", "newer"}
    Pins = {4, 5}
    Pin <- TwoPins
    Segments = {0, 1, 2}
    DefaultSegment = 1
    Caps = {40, 255}
    NoCap = 255
    Palettes = {"q"}
    KnownPalettes <- TwoPalettes
    NoOverride = "none"
    Offsets = {0, 120}
    MaxCommands = 3
    MaxBoots = 1
SPECIFICATION FairSpec
INVARIANTS
    TypeOK
    FrameIsCoherent
    NoKnobLost
    SettingsSurvive
    PinIsOurs
PROPERTIES
    StripShowsSettings
