CONSTANTS
    Translators <- MCTranslators
    DriverTables <- MCDriverTables
    Theories <- MCTheories
    Tables <- MCTables
    Variables <- MCVariables
    Objects <- MCObjects
    Builtins <- MCBuiltins
    Includes <- MCIncludes
    Source = "nova"
    Polls <- MCPolls
    RulePool <- MCRulePool
    QueryPool <- MCQueryPool
    MaxPolls = 2
    MaxRules = 3
SPECIFICATION Spec
INVARIANTS TypeOK RowsFitSchema FactsAreObjects IndexExact AnswersCorrect NeverUnground BindingsUndone AbductionSound AnswersFollowObjects
CHECK_DEADLOCK FALSE
