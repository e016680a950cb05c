SPECIFICATION Spec
CONSTANTS
    Task = {t1}
    Node = {1, 2, 3}
    Source = 1
    cpu_load <- MCLoad
    Exec = {e1, e2}
    MaxRecords = 2
    None = None
SYMMETRY ExecSymmetry
INVARIANTS
    TypeOK
    RecordExplained
    OwnerIsExecutor
    OwnerIsLatestAttempt
CHECK_DEADLOCK FALSE
