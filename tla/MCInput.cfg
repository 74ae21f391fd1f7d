SPECIFICATION MCSpec
CONSTANTS
    Radix = 4
    Field = 2
    MAGIC <- MCMagic
    PACKET_SIZE = 1
    QUERY_ID_SIZE = 1
    Quorum = 2
    Good <- MCGood
    Damage <- MCDamage
    Frames <- MCFrames
    NUMBER_OF_COMPUTORS = 4
    MaxKey = 4
    Alphabet = 3
    Fragments = 2
    FragmentLetters = 3
    FragmentModulus = 16
    ChecksumLetters = 2
    ChecksumModulus = 4
    Checksum <- MCChecksum
    Files <- MCFiles
    Exports <- MCTexts
INVARIANTS ParseInvertsSerialize GuestSeesTheFixture WalkIsExact
    RepeatedKeysPanic FindsTheComputor BuildAndScriptsAgree
\* A run of parse, of the guest or of a script ends.
CHECK_DEADLOCK FALSE
