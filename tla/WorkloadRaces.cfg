CONSTANTS
    Requests = {r1, r2, r3}
    Names = {web}
    MCNames = {web}
    Namespaces = {apps, lab}
    MCSpaces = {apps, lab}
    Values = {0, 1, 2}
    EnvVars = {A}
    MCVars = {A}
    Asks <- RaceAsks
    Faults = {"api", "conn", "db", "audit", "crash"}
    MaxInFlight = 3
SPECIFICATION Spec
CHECK_DEADLOCK FALSE
SYMMETRY Symmetric
INVARIANTS WorkloadInv CleanRefusal OrphansReported CreatedOnce AuditTruthful
PROPERTY OnlyMarkRevives
