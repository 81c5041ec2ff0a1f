SPECIFICATION Spec
CONSTANTS
    Loads <- MCLoads
    MAX_LABELS = 3
    MAX_CALL_SITES = 3
    MAX_FUNCTION_COUNT = 2
INVARIANTS
    LinkedExactly
    PassesAgree
    NeverAborts
CHECK_DEADLOCK FALSE
