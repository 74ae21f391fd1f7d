SPECIFICATION MCSpec
CONSTANTS
    Rate = 168
    Cap = 32
    Chunk = 8192
    Lane = 8
    Base = 3
    Lengths <- MCLengths
    Inputs <- MCInputs
    StockInputs <- MCStockInputs
    Messages <- MCMessages
INVARIANTS HashIsK12 StockHashIsK12 AbsorbIsBytewise ShortIsGeneral KnownAnswer
PROPERTIES ImplementsKeccak StockImplementsKeccak
\* The functions return.
CHECK_DEADLOCK FALSE
