SPECIFICATION HandsSpec
CONSTANTS
    Folders <- MCFolders
    Reports <- MCReports
    Missing = Missing
    Heights = {1, 2}
    Width = 2
    Prefix = 2
    Suffix = 1
    QueryLen = 1
    Columns <- MCColumns
INVARIANT TypeOK
INVARIANT ShownAsFolded
INVARIANT CursorOnLine
PROPERTY CursorOnScreen
PROPERTY FindLandsOnMatch
