CONSTANTS
    NodeIds <- MCNodeIds
    Requester <- MCRequester
    ProviderOrder <- MCProviderOrder
    Tags <- MCTags
    EmptyTag = ""
    Required = "gpu"
    Claims <- MCClaims
    SigningKeys <- MCSigning
    SigningSecrets <- MCSigning
    Hexes <- MCHexes
    None = None
    MaxRounds = 2
    Scenarios <- MCScenarios
    Inspected <- MCInspected
SPECIFICATION DSpec
INVARIANTS
    LogVerifies
    OutcomeAsExpected
    LogMirrorsMachine
    AttacksLeaveTrace
    VerifiedOutcomeIsTrue
    VerifiedEvidenceIsTrue
PROPERTIES
    ImplementsCoordination
    Terminates
