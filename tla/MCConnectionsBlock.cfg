SPECIFICATION Spec
CONSTANTS
    t1 = t1
    t2 = t2
    Alice = Alice
    Bob = Bob
    A <- Alice
    B <- Bob
    Threads <- MCThreads
    Open <- MCOpen
    Nobody = Nobody
SYMMETRY MCSymmetry
INVARIANTS
    BlockedApart
