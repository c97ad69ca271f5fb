CONSTANTS
    w1 = w1  w2 = w2  G = G  B1 = B1  B2 = B2  U1 = U1  U2 = U2
    NoFileInfo = NoFileInfo  Garbage = Garbage  NoUndo = NoUndo
    Genesis = G
    Writers <- NWriters
    JobBlock <- NJobBlock
    JobUndo <- NJobUndo
    Bytes <- NBytes
    MaxBlockFileSize = 5
    MaxUndoFileSize = 3
INIT Init
NEXT Next
INVARIANTS
    TypeOK
    LocatorsReadBack
CHECK_DEADLOCK FALSE
CONSTRAINT OneCallAtATime
