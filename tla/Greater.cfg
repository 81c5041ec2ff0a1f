SPECIFICATION Spec
CONSTANTS
    Ops = {"GREATER"}
    Functions <- MCFunctions
    Programs <- MCPrograms
    ReturnTypes = {"INT"}
    MixedOps = {}
    MixedTypes = {}
    ArgValues <- MCArgValues
    StackStarts = {2}
    Garbage = {21}
    MaxIterations = 3
    MaxExecuted = 80
    SCOPE_HASH_SIZE = 3
    MAX_VREGS_PER_FUNCTION = 10
    MAX_IR_INSTRUCTIONS_PER_FUNCTION = 18
INVARIANTS
    SameMeaning
CHECK_DEADLOCK FALSE
