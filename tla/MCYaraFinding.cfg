SPECIFICATION FindingSpec
CONSTANTS
    Folders <- MCFoldersToSearch
    Reports <- MCReports
    Missing = Missing
    Heights = {1, 2}
    Width = 2
    Prefix = 2
    Suffix = 1
    QueryLen = 1
    Columns <- MCColumns
PROPERTY FindNextCycles
