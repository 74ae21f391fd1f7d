SPECIFICATION MCSpec
CONSTANTS
    Word = 8
    WordBits = 3
    ZKQ_BIGINT2 = FALSE
    Operands <- MCOperands
    R = 4096
    Limb = 8
    Limbs = 4
    curve_order = 509
    Montgomery_Rprime = 67
    SMALL_R_PRIME = 3243
    Half = 128
    HalfBits = 7
    ell <- MCell
    B <- MCB
    C <- MCC
    Lambda <- MCLambda
    Rows = 3
    Columns = 4
    Triples <- MCTriples
INVARIANTS AccIsExact PowerIsInverse SignatureScalarExact TakenApartExactly
\* The addition chain and sign return.
CHECK_DEADLOCK FALSE
