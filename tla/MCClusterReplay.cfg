CONSTANTS
    NodeIds <- MCNodeIds
    Requester <- MCRequester
    ProviderOrder <- MCProviderOrder
    Tags <- MCTags
    EmptyTag = ""
    Required = "gpu"
    Claims <- MCClaims
    SigningKeys = {}
    SigningSecrets = {}
    Hexes <- MCHexes
    None = None
    MaxRounds = 2
    Setups <- Replays
SPECIFICATION Spec
INVARIANTS
    ReplayIsRejected
