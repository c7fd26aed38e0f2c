SPECIFICATION Spec
CONSTANTS
    t1 = t1
    t2 = t2
    dev1 = dev1
    dev2 = dev2
    ask1 = ask1
    ask2 = ask2
    Threads <- MCThreads
    Owner = owner
    Devs <- MCOneDev
    Viewers <- MCOneDev
    Invitable <- MCOneDev
    AskIds <- MCTwoAsks
    NoAsk = NoAsk
CHECK_DEADLOCK FALSE
INVARIANTS
    TypeOK
    OnePendingAsk
PROPERTIES
    KeepsPromise
    
