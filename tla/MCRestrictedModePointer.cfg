CONSTANTS
    Threads = {t1, t2}
    NoThread = NoThread
    Features <- MCFeatures
    Plugins = {"hashes"}
    Watermarks = {"mark"}
    Policies <- MCPolicies
SPECIFICATION Spec
SYMMETRY Symmetry
INVARIANT PointerStaysGood
