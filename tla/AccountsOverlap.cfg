CONSTANTS
    Ada = ada
    Bob = bob
    Names = {ada, bob}
    Ips = {home}
    MaxId = 3
    Requests = {r1, r2, r3}
    MaxInFlight = 3
    Asks <- AllAsks
    FirstUsers <- TwoAdmins
    FirstAdmin = ada
    Faults = {"db", "crash"}
SPECIFICATION Spec
CHECK_DEADLOCK FALSE
SYMMETRY Symmetric
INVARIANTS AccountInv KnownWasDispatched OnlyTogether
