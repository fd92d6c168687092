SPECIFICATION Spec
CONSTANTS
    Contracts <- MCContracts
    Amendments <- MCAmendments
    Proposals <- MCProposals
    Prices <- MCPrices
    OwnIds = {"OWN_ORDER", "OWN_OPEN", "OWN_BEYOND", "OWN_PRICE"}
    FieldOf <- MCFieldOf
    MaxAmendments = 2
INVARIANT JudgedAsAuthored
INVARIANT EnvelopeKept
