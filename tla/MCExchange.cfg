SPECIFICATION ExchangeSpec
CONSTANTS
    t1 = t1
    t2 = t2
    Servers <- MCThreads
    Developers = {d1}
    Nobody = Nobody
    DailyInvites = 1
    MaxRevision = 2
    People = {Ann, Ben, Cat}
    Cap = 3
    Sockets = {k1, k2}
    Events = {v1, v2, v3}
    QueueSize = 2
    Messages = {m1, m2}
    MaxChoices = 3
    MaxDaily = 1
    MaxRequests = 3
    Lists = {l1, l2, l3}
    MaxLists = 1
    Members = {Ann, Ben}
SYMMETRY MCSymmetry
CHECK_DEADLOCK FALSE
INVARIANTS
    PartsTypeOK
    ReviewsHold
    InGoodHands
    
    OneTalk
    UnreadHolds
PROPERTIES
    EventsInLine
    ReleasedStays
