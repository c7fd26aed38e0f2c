SPECIFICATION WorkspaceSpec
CONSTANTS
    t1 = t1
    t2 = t2
    k1 = k1
    k2 = k2
    p1 = p1
    p2 = p2
    Threads <- MCThreads
    Paths <- MCPaths
    Keys <- MCKeys
    Texts = {Original}
    Original = Original
    Outside = Outside
    NoKey = NoKey
    MaxCommits = 3
    Archives <- MCPaths
    Old = Old
    None = None
    Owner = Ann
    Editor = Ben
    Guest = Cyd
    Fans = {Cyd}
    Handles <- MCKeys
    Slots = {Ann, Ben}
    Reads = {Ann}
    Users = {Ben}
    Asked = {Old}
    Secrets = {Old}
    MaxSize = 2
    MaxPosition = 1
    HeadSize = 1
    MaxLinks = 1
    Files <- MCPaths
SYMMETRY MCSymmetry
CHECK_DEADLOCK FALSE
INVARIANTS
    PartsTypeOK
    CommitsOnce
    Recorded
    StateTells
    OneCopyThatTells
    
    
PROPERTIES
    TokensKept
    NoLostUpdate
    DraftHeld
    FailedKeepsFiles
    VisibilityByOwner
