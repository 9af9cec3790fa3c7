\* Two uses at a time for the same tenants, over and over.
SPECIFICATION Spec
CONSTANTS
    Call = {c1, c2}
    Key = {a}
    NoKey = NoKey
    Conn = {x1, x2, x3}
    NoConn = NoConn
    OpenTimeout = 1
    LockTimeout = 1
    ExecTimeout = 2
    IdleLimit = 1
    GatewayIdle = 4
INVARIANTS
    TypeOK
    PoolSound
    StaleConnectionMasked
PROPERTIES
    EveryCallEnds
