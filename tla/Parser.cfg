SPECIFICATION Spec
CONSTANTS
    Texts <- MCTexts
    MAX_EXPRESSION_DEPTH = 5
    MAX_BLOCK_STATEMENTS = 2
    MAX_PARAMS_PER_FUNCTION = 2
    MAX_FUNCTION_COUNT = 2
    PARAM_SLOTS = 2
INVARIANTS
    ErrorsExact
    PrecedenceRespected
    StatementsStartClean
    LimitsKept
PROPERTIES
    Terminates
CHECK_DEADLOCK FALSE
