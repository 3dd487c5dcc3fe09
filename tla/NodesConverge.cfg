CONSTANTS
    Control = pi1
    Nodes = {pi1, pi2}
    Sweep = sweep
    Requests = {r1}
    Asks <- AllAsks
    PoolSize = 1
    Troubles = {"node", "ssh", "db"}
    MaxTroubles = 1
SPECIFICATION Spec
CHECK_DEADLOCK FALSE
INVARIANTS NodesInv OneGetsThrough
PROPERTIES WorkersFirst Converges CacheConverges
