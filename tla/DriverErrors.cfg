SPECIFICATION Spec
CONSTANTS
    FileCounts = {0, 1, 2, 3}
    Decls <- MCDecls
    MaxDecls = 3
    MAX_SOURCE_FILES = 2
    MAX_FUNCTION_COUNT = 2
    MAX_PARAMS_PER_FUNCTION = 1
    MAX_CALL_SITES = 1
INVARIANTS
    ErrorsFail
CHECK_DEADLOCK FALSE
