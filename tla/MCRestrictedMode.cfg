CONSTANTS
    Threads = {t1, t2, t3}
    NoThread = NoThread
    Features <- MCFeatures
    Plugins = {"hashes"}
    Watermarks = {"mark"}
    Policies <- MCPolicies
SPECIFICATION Spec
SYMMETRY Symmetry
INVARIANT TypeOK
INVARIANT AnswersAreCurrent
INVARIANT StorageFollowsMode
PROPERTY PolicyIsNotReplaced
