SPECIFICATION ClientSpec
CONSTANTS
    a = a
    p = p
    q = q
    None = None
    Failed = Failed
    op = op
    asker = asker
    Client = {op, asker}
    Gives <- mc_QueryGives
    Asks <- mc_QueryAsks
    Generation = {g1}
    TimedTask <- mc_QueryTasks
    Self = a
    Peer = {p, q}
    RequestId = {i, j}
    UniqueIds = TRUE
INVARIANTS TypeOK NoRequestLeftBehind
PROPERTIES ImplementsService
