SPECIFICATION VoiceSpec
CONSTANTS
    Request = {r1}
    Agent = {a1}
    NoAgent = "direct"
    NoRow = NoRow
    NoKey = "nokey"
    Name = {"remote", "local"}
    Key = {"key", "nokey"}
    Default <- MCDefault
    Bodies <- MCBodies
    Override <- MCOverride
    MaxOps = 3
CHECK_DEADLOCK FALSE
INVARIANTS VoiceTypeOK  NothingLeftBehind
PROPERTIES KeysKept EveryVoiceEnds
