SPECIFICATION MCSpec
CONSTANTS
    c1 = c1
    c2 = c2
    i1 = i1
    i2 = i2
    NoHash = NoHash
    Callers = {c1, c2}
    Threshold = 2
    BulkheadMax = 1
INVARIANTS
    TypesOK
    ProbeDecides
    SingleUserIsExact
    ChainHolds
    
    ToolsSound
PROPERTIES
    CircuitsClose
    ToolsSettle
