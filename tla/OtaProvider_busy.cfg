CONSTANTS
    Nodes = {"a", "b"}
    Products = {"strip", "panel"}
    ProductOf <- Mixed
    MaxVersion = 2
    FirstVersion <- Ones
    Releases <- Builds
    Permits <- Allowed
    MaxCandidates = 2
    Subjects = {"a", "b", "admin"}
    FirstAcl <- Commissioned
    MaxAcl = 5
    MaxTokens = 2
    MaxBoots = 0
    None = None
SPECIFICATION Spec
INVARIANTS
    BusyMeansTransfer
