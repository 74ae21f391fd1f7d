SPECIFICATION Spec
CONSTANTS
    c0 = c0
    c1 = c1
    c2 = c2
    c3 = c3
    user = user
    A = A
    B = B
    None = None
    Key = {c0, c1, c2, c3, user}
    Byzantine = {c0}
    Equivocates = FALSE
    N = 4
    Quorum = 3
    Packet <- MCPacket
    Signable <- MCRivalTxs
    QueryId = {2}
    IdsPerTick = 2
    Reply = {A, B}
    MaxCommits = 4
INVARIANTS CountedExactly QuorumDecides Agreement
