SPECIFICATION Spec
CONSTANTS
    c0 = c0
    c1 = c1
    A = A
    B = B
    Key = {c0, c1}
    Byzantine = {c0}
    Equivocates = FALSE
    N = 2
    Quorum = 2
    Packet <- MCPacket
    Signable <- MCTxs
    QueryId = {2, 3}
    IdsPerTick = 2
    Reply = {A, B}
    RealKind = {"succinct", "groth16"}
    Calldata <- MCCalldata
INVARIANTS AttestedIsBacked OneAnswerOnChain VerifiedProofIsGood
PROPERTY ImplementsRegister
