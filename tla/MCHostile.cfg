SPECIFICATION Spec
CONSTANTS
    c0 = c0
    c1 = c1
    c2 = c2
    c3 = c3
    user = user
    A = A
    B = B
    None = None
    Key = {c0, c1, c2, c3, user}
    Byzantine = {c0}
    Equivocates = FALSE
    N = 3
    Quorum = 2
    Packet <- MCHostilePackets
    Signable <- MCHostileTxs
    QueryId = {2, 4}
    IdsPerTick = 2
    Reply = {A, B}
    MaxCommits = 2
INVARIANTS JournalSound
PROPERTY ImplementsStatement
