CONSTANTS
    Translators <- ClashTranslators
    DriverTables <- ClashDriverTables
    Theories <- MCTheories
    Tables <- ClashTables
    Variables <- MCVariables
    Objects <- MCObjects
    Builtins <- MCBuiltins
    Includes <- MCIncludes
    Source = "nova"
    Polls <- ClashPolls
    RulePool <- MCRulePool
    QueryPool <- MCQueryPool
    MaxPolls = 1
    MaxRules = 0
SPECIFICATION Spec
INVARIANTS IdIsKey RowsFitSchema
CHECK_DEADLOCK FALSE
