SPECIFICATION Spec
CONSTANTS
    HELLO_INTERVAL = 4
    UPDATE_INTERVAL = 8
    CLEANUP_INTERVAL = 5
    NEIGHBOR_TIMEOUT = 12
    ROUTE_TIMEOUT = 16
    Metric = {1, 2}
    MaxLost = 1
    NoRoute = NoRoute
INVARIANTS TypeOK DeathDetected DeadRouteGoes NewsArrives
PROPERTIES NoFalseDeath
