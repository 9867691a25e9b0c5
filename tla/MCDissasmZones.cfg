SPECIFICATION Spec
CONSTANTS
    End = 4
    Labels <- MCLabels
    Notes = {n1}
    MaxNotes = 1
    MaxZones = 4
    MaxPassed = 4
    NoLine = NoLine
INVARIANTS
    TypeOK
    ExpandUndoesCollapse
    CommentsStay
PROPERTIES
    LineIsExact
