CONSTANTS
    Policies <- MCPolicies
    MaxTime = 12
SPECIFICATION RetrySpec
CHECK_DEADLOCK FALSE
INVARIANTS
    ReconnectInvariant
    AttemptsAreCounted
PROPERTIES
    CommandEnds
