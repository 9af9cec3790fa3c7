SPECIFICATION Spec
CONSTANTS
    Pieces <- MCPieces
    MaxPieces = 3
    Alphabet = {"x", "X", ".", " "}
    MaxText = 7
    Items <- MCItems
    MaxItems = 3
    Writes <- MCWrites
    MaxWrites = 4
    ChunkSettings <- MCSettings
CHECK_DEADLOCK FALSE
INVARIANTS  ChunksKept 
