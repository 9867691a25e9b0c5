CONSTANTS
    Page = 2
    MaxCacheSize = 4
    Word32 = 6
    Word64 = 12
    MaxFileSize = 6
SPECIFICATION FairSpec
INVARIANTS
    TypeOK
    Coherent
    GetIsExact
    TransfersAreExact
PROPERTIES
    ImplementsFileReader
