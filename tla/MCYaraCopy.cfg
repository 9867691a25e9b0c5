SPECIFICATION MouseSpec
CONSTANTS
    Folders <- MCFolderToPoint
    Reports <- MCReports
    Missing = Missing
    Heights = {2}
    Width = 3
    Prefix = 2
    Suffix = 1
    QueryLen = 1
    Columns <- MCColumns
PROPERTY CopyIsSelected
