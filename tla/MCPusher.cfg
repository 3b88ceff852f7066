CONSTANTS
    Gateways = {1, 2}
    MaxPush = 3  MaxChange = 3
    Wrap = 5  Window = 2  MaxConn = 2  MaxAsk = 7  MaxTime = 5
SPECIFICATION DiscoverySpec
INVARIANTS OnlyGroupPushesAreOvertaken RoundRobinEven BurstBounded
PROPERTIES  FollowersConverge
