SPECIFICATION ScanSpec
CONSTANTS
    Rules <- MCRules
    Outputs <- MCOutputs
INVARIANT StatusIsClean
CHECK_DEADLOCK FALSE
