CONSTANTS
    Nodes = {"a", "b"}
    Products = {"strip", "panel"}
    ProductOf <- Mixed
    MaxVersion = 2
    FirstVersion <- Ones
    Releases <- Builds
    Permits <- Allowed
    MaxCandidates = 2
    Subjects = {"a", "b", "admin"}
    FirstAcl <- Commissioned
    MaxAcl = 5
    MaxTokens = 2
    MaxBoots = 1
    None = None
SPECIFICATION FairSpec
INVARIANTS
    TypeOK
    OneFetchAtATime
    OffersAreUpgrades
    StreamsTheOffer
    OffersStand
    GrantMeansAccess
PROPERTIES
    NoTakeover
    QueriesAnswered
    GateDecides
