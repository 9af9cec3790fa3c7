\* One file imported, deleted and searched for by two threads, two models.
SPECIFICATION FairSpec
CONSTANTS
    Worker = {w1, w2}
    Path = {p}
    Part = {1, 2}
    Model = {m1, m2}
    EnvModel = m1
    Limit = {2}
    DefaultLimit = 2
    MaxRequests = 3
    MaxFaults = 2
    None = None
INVARIANTS
    TypeOK
    IndexMatchesRows
PROPERTIES
    ImportedIsStored
    EveryRequestEnds
CHECK_DEADLOCK FALSE
