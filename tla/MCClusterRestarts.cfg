CONSTANTS
    NodeIds <- MCNodeIds
    Requester <- MCRequester
    ProviderOrder <- PairOrder
    Tags <- MCTags
    EmptyTag = ""
    Required = "gpu"
    Claims <- PairClaims
    SigningKeys = {}
    SigningSecrets = {}
    Hexes <- MCHexes
    None = None
    MaxRounds = 2
    Setups <- Restarts
SPECIFICATION Spec
INVARIANTS
    InStepOutcome
    OnlyReceiptCanBeMissing
