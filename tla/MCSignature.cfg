SPECIFICATION MCSpec
CONSTANTS
    Word = 4
    WordBits = 2
    ZKQ_BIGINT2 = TRUE
    PARAMETER_d <- MCd
    R = 64
    Limb = 8
    Limbs = 2
    curve_order = 13
    Montgomery_Rprime = 1
    SMALL_R_PRIME = 59
    Half = 16
    HalfBits = 4
    ell <- MCell
    B <- MCB
    C <- MCC
    Lambda <- MCLambda
    Rows = 2
    Columns = 4
    Generator <- MCGenerator
    KWindow = 4
    LWindow = 3
    Groups = 2
    Rounds = 2
    DoubleCalls <- MCDoubleCalls
    FixedCalls <- MCFixedCalls
    PrivateKeys <- MCPrivateKeys
    Nonces <- MCNonces
    Hashes <- MCHashes
    Submissions <- MCSubmissions
INVARIANTS MultipliesInTheGroup SignedVerifies NoTwin NoUniversalSignature
\* A multiplication and a verification return.
CHECK_DEADLOCK FALSE
