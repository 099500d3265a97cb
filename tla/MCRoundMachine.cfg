CONSTANTS
    NodeIds <- MCNodeIds
    Requester <- MCRequester
    ProviderOrder <- MCProviderOrder
    Tags <- MCTags
    EmptyTag = ""
    Required = "gpu"
    Claims <- MCClaims
    SigningKeys = {}
    SigningSecrets = {}
    Hexes <- MCHexes
    None = None
    CommitmentInputs <- MCCommitmentInputs
    ProposalInputs <- MCProposalInputs
    Rounds <- MCRounds
SPECIFICATION Spec
INVARIANTS
    TypeOK
    ReplaySafe
    HistoryIsExact
    ProposalSound
    RoundsAscend
PROPERTIES
    AcceptedIsFinal
    HistoryIsAppendOnly
