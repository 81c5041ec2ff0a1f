SPECIFICATION Spec
CONSTANTS
    Ops = {"SUB", "LESS"}
    Functions <- MCFunctions
    Programs <- MCPrograms
    ReturnTypes = {"INT", "VOID"}
    MixedOps = {"SUB", "LESS", "RSHIFT", "BIT_AND"}
    MixedTypes = {"CHAR", "INT", "INT64", "UINT8", "UINT32"}
    ArgValues <- MCArgValues
    StackStarts = {2}
    Garbage = {21}
    MaxIterations = 3
    MaxExecuted = 80
    SCOPE_HASH_SIZE = 3
    MAX_VREGS_PER_FUNCTION = 10
    MAX_IR_INSTRUCTIONS_PER_FUNCTION = 18
INVARIANTS
    SameMeaning
    LossWarned
    GeneratorErrorsExplained
    IrAsJitExpects
CHECK_DEADLOCK FALSE
