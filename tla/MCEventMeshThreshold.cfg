SPECIFICATION Spec
CONSTANTS
    Topics <- MCTopics
    Scopes <- MCScopes
    Everywhere = Everywhere
    Positions <- MCPositions
    Prices <- MCPrices
    AgentThreshold = 4
    PositionThreshold = 2
    StopLoss = 4
    TakeProfit = 4
    Floor = 2
    MaxEvents = 3
INVARIANT ThresholdActivates
CHECK_DEADLOCK FALSE
