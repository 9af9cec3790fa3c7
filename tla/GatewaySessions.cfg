\* One stream, two requests at a time, one tenant or two.
SPECIFICATION Spec
CONSTANTS
    a = a
    b = b
    Handler = {h1}
    Post = {p1, p2}
    NoHandler = NoHandler
    NoPost = NoPost
    Tenant = {a, b}
    TenantLists <- MCTenantLists
    NoServer = NoServer
    NoEntry = NoEntry
    MaxSessions = 1
    IdleTimeout = 1
    MaxLifetime = 2
    HandleTimeout = 1
    FetchTimeout = 1
    TTL = 1
INVARIANTS
    TypeOK
    ServesOwnTenants
PROPERTIES
    AgesKept
    
