CONSTANTS
    Requests = {r1, r2, r3, r4}
    Names = {web}
    MCNames = {web}
    Namespaces = {apps}
    MCSpaces = {apps}
    Values = {0, 1, 2}
    EnvVars = {A, B}
    MCVars = {A, B}
    Asks <- SerialAsks
    Faults = {"api"}
    MaxInFlight = 1
SPECIFICATION Spec
CHECK_DEADLOCK FALSE
SYMMETRY Symmetric
INVARIANTS LiveRowBacked RowMirrorsCluster
