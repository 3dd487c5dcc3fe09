SPECIFICATION Spec
CONSTANTS
    Pages = {"configmaps", "secrets", "namespaces", "storage", "cronjobs", "users",
             "notifications", "alert-rules", "workloads", "helm", "jobs", "objects",
             "quotas", "key-vault", "services", "rbac", "events", "capacity", "alerts",
             "audit", "alert-history", "dashboard", "node",
             "live-logs", "logs", "terminal", "ssh"}
    Rows = {a, b}
    Form = form
    Filters = {x, y}
    Slots = {s1, s2}
    MaxChanges = 2
    Crowded = {"cronjobs", "secrets"}
    Protected = {}
    Offered = {{"scale", "restart", "hpa"}, {"delete", "drain", "cordon", "rollback"},
               {"create", "image", "env", "logs"}, {"resources", "probes", "metrics", "terminal"},
               {"scale", "pods", "events"}}
    Sockets = {w1, w2, w3}
    NoSocket = none
INVARIANTS PagesInv ReadsOwnWrites DraftBelongs ChartsOfPeriod OneStream
PROPERTIES NamesOfSureList
SYMMETRY Alike
CHECK_DEADLOCK FALSE
