SPECIFICATION FairSpec
CONSTANTS
    Chars = {"a", "b", "c"}
    Junk = Junk
    Block = 2
    MaxMemory = 4
    Files <- MCFiles
    Inserts <- MCInserts
    Typed = {"a"}
    Counts = {0, 1, 2}
    Searches <- MCSearches
    NewNames <- MCNames
    MaxTokens = 2
INVARIANT TypeOK
PROPERTY ImplementsEditedText
PROPERTY LoopsAreExact
