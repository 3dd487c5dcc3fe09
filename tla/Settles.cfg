SPECIFICATION Spec
CONSTANTS
    Pages = {"workloads", "events", "capacity", "alerts", "namespaces", "notifications", "node", "dashboard"}
    Rows = {a}
    Form = form
    Filters = {x}
    Slots = {s1, s2}
    MaxChanges = 1
    Crowded = {}
    Protected = {}
    Offered = {{"scale", "hpa"}}
    Sockets = {w1, w2}
    NoSocket = none
PROPERTIES Settles Converges
CHECK_DEADLOCK FALSE
