SPECIFICATION PeopleSpec
CONSTANTS
    t1 = t1
    t2 = t2
    Alice = Alice
    Bob = Bob
    g1 = g1
    e1 = e1
    s1 = s1
    s2 = s2
    x = x
    utc = utc
    east = east
    A = Alice
    B = Bob
    Threads <- MCThreads
    Open <- MCPair
    Nobody = Nobody
    Links = {l1, l2}
    MaxChanges = 2
    Slots <- MCSlots
    Usernames = {n1, n2}
    Emails = {e1, e2}
    Identities = {g1}
    EmailOf <- MCEmailOf
    Users <- MCPair
    Logins = {g1}
    MaxPairs = 3
    Subject = Alice
    OtherPeople = {Bob, Cyd}
    Joiners = {Bob}
    Projects <- MCSlots
    Techs = {x}
    Levels = {"viewer", "editor"}
    Absent = Absent
    MaxPosts = 1
    Things = {x}
    Zones = {utc, east}
    Offset <- MCOffset
    Days = 2
    LastDay = 3
    MaxOthers = 1
    NoWrap = NoWrap
SYMMETRY MCSymmetry
CHECK_DEADLOCK FALSE
INVARIANTS
    PartsTypeOK
    TakesTwo
    PasswordsHold
    SignUpsHold
    StoredPairWorks
    
    WrapsHold
PROPERTIES
    QuietDecline
