\* A client goes on in one session.
SPECIFICATION Spec
CONSTANTS
    Shared = {c0, c1}
    Repeats = {r0, r1}
    EnvShared = c0
    EnvRepeats = r0
    DashDefault = c0
    Absent = Absent
    NoFile = NoFile
    Broken = Broken
    Session = {s1}
    Chat <- MCChat
    Burst <- MCBurst
    GoodAgent <- MCGoodAgent
    Short <- MCShort
    MaxRepeated <- MCMaxRepeated
    MessageLimit = 1
    MaxNotes = 2
    MayFail = TRUE
    StoreBound = 2
PROPERTIES
    SessionBudget
