SPECIFICATION FairSpec
CONSTANTS
    a = a
    p = p
    q = q
    None = None
    Failed = Failed
    op = op
    asker = asker
    Client = {op, asker}
    Gives <- mc_LifeGives
    Asks <- mc_LifeAsks
    Generation = {g1, g2}
    TimedTask <- mc_LifeTasks
    Self = a
    Peer = {p}
    RequestId = {i}
    UniqueIds = TRUE
INVARIANTS NeverSelfLocked OneGeneration StopReachesAll
PROPERTIES CommandsServed ListenersLeave CommandsAreAtomic
