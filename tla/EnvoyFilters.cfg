SPECIFICATION Spec
CONSTANTS
    Envs = {e1, e2}
    Versions = {v1}
    Triggers = {t1}
    MaxRevision = 2
    MaxWorkloads = 2
    MaxTriggers = 1
    MaxFailures = 1
    MaxRestarts = 1
SYMMETRY Symmetry
INVARIANTS
    HandledIsExact
    DeletedLeavesNothing
PROPERTY FiltersStay
CHECK_DEADLOCK FALSE
