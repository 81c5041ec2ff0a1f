SPECIFICATION Spec
CONSTANTS
    Loads <- MCLoads
INVARIANTS
    RunsAsIR
    ConventionKept
CHECK_DEADLOCK FALSE
