SPECIFICATION Spec
CONSTANTS
    t1 = t1
    t2 = t2
    dev1 = dev1
    dev2 = dev2
    ask1 = ask1
    ask2 = ask2
    Threads <- MCThreads
    Owner = owner
    Devs <- MCTwoDevs
    Viewers <- MCOneDev
    Invitable <- MCInvitee
    AskIds <- MCTwoAsks
    NoAsk = NoAsk
CHECK_DEADLOCK FALSE
SYMMETRY MCSymmetry
INVARIANTS
    RoomIsOurs
PROPERTIES
    ManagersComeFromOwner
