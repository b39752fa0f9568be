\* A caller, a reconnect timer, a request and a disconnect on two sockets.
SPECIFICATION GatewaySpec
CONSTANTS
    Caller = {c1}
    Timer = {t1}
    Request = {r1}
    Leaver = {l1}
    Conn = {n1, n2}
    MaxFaults = 2
    None = None
SYMMETRY Symmetry
INVARIANTS NoLostWaiter NeverStranded
PROPERTY DisconnectHolds
CHECK_DEADLOCK FALSE
