CONSTANTS
    NodeIds <- MCNodeIds
    Requester <- MCRequester
    ProviderOrder <- MCProviderOrder
    Tags <- MCTags
    EmptyTag = ""
    Required = "gpu"
    Claims <- MCClaims
    SigningKeys = {}
    SigningSecrets = {}
    Hexes <- MCHexes
    None = None
    MaxRounds = 1
    Setups <- OneFault
SPECIFICATION Spec
INVARIANTS
    Agreement
