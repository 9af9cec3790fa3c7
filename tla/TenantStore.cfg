\* The default tenant, two requests at a time, crashes, disk and database failures.
SPECIFICATION Spec
CONSTANTS
    Tenant = {t1}
    NoTenant = NoTenant
    Default = t1
    Content = {c1}
    Isolated = {c1}
    Tool = {e1}
    BaseConfigs <- MCBaseConfigs
    Op = {o1, o2}
    Instance = {i1, i2}
    NoInstance = NoInstance
    NoConfig = NoConfig
    Empty = Empty
    Garbled = Garbled
    NoJob = NoJob
    DiskMayFail = TRUE
    ConnectMayFail = TRUE
VIEW StateView
SYMMETRY Interchangeable
INVARIANTS
    TypeOK
    
    

    
