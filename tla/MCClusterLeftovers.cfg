CONSTANTS
    NodeIds <- MCNodeIds
    Requester <- MCRequester
    ProviderOrder <- PairOrder
    Tags <- MCTags
    EmptyTag = ""
    Required = "gpu"
    Claims <- PairClaims
    SigningKeys = {}
    SigningSecrets = {}
    Hexes <- MCHexes
    None = None
    MaxRounds = 1
    Setups <- Leftovers
SPECIFICATION Spec
INVARIANTS
    FinalizedOnConsent
PROPERTIES
    EveryProcessEnds
