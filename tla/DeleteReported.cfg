SPECIFICATION Spec
CONSTANTS
    Pages = {"namespaces", "users", "configmaps"}
    Rows = {a}
    Form = form
    Filters = {x}
    Slots = {s1, s2}
    MaxChanges = 1
    Crowded = {}
    Protected = {}
    Offered = {{}}
    Sockets = {w1}
    NoSocket = none
INVARIANTS DoneIsNoError
CHECK_DEADLOCK FALSE
