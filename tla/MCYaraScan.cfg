SPECIFICATION ScanSpec
CONSTANTS
    Rules <- MCRules
    Outputs <- MCOutputs
INVARIANT ScanTypeOK
INVARIANT ReportIsExact
INVARIANT EveryRuleAnswered
PROPERTY ScanEnds
CHECK_DEADLOCK FALSE
