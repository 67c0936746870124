CONSTANTS
    Translators <- MCTranslators
    DriverTables <- MCDriverTables
    Theories <- MCTheories
    Tables <- MCTables
    Variables <- MCVariables
    Objects <- MCObjects
    Builtins <- MCBuiltins
    Includes <- MCIncludes
    Source = "nova"
    Polls <- MCPolls
    RulePool <- CaptureRules
    QueryPool <- CaptureQueries
    MaxPolls = 0
    MaxRules = 2
SPECIFICATION Spec
INVARIANTS AbductionComplete
CHECK_DEADLOCK FALSE
