SPECIFICATION HandsSpec
CONSTANTS
    MaxZones = 2
    NoZone = NoZone
    Size = 6
    CacheSize = 4
    WideBytes = 2
    RunLength = 2
    Steps <- MCSteps
    Sizes = {0, 2}
    Layouts <- MCLayouts
    Content <- MCContent
    FileZones <- MCZones
    Patterns <- MCPatterns
INVARIANTS
    TypeOK
    ViewBelowCursor
    SelectionInFile
    MatchIsReal
PROPERTIES
    CursorStaysInSight
    SelectionFollowsCursor
    ZoneKeyIsInnermost
    NextIsNearest
    PreviousIsBefore
