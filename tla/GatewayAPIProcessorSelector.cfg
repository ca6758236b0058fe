SPECIFICATION GatewaySpec
CONSTANTS
    Gateways <- MCGateways
    RouteLists <- MCRouteLists
    ObjectSets <- MCObjectSets
INVARIANTS
    BuildCompletes
CHECK_DEADLOCK FALSE
