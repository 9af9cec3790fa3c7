SPECIFICATION Spec
CONSTANTS
    s1 = s1
    s2 = s2
    a1 = a1
    a2 = a2
    a3 = a3
    b1 = b1
    Session = {s1, s2}
    Turn = {a1, a2, a3, b1}
    SessionOf <- MCSessionOf
    MaxSessionLocks = 2
    HistoryTurns = 2
    MayLeaveSaving = FALSE
    NoTurn = NoTurn
PROPERTIES
    ImplementsSerial
CHECK_DEADLOCK FALSE
