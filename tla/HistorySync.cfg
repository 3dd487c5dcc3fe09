CONSTANTS
    PodA = podA
    PodB = podB
    Node = node
    KeyOf <- SharedKey
    Alerts = {podA, podB}
    Critical = {podA}
    Channels = {mail}
    MaxEpisodes = 2
    Troubles = {"prometheus", "db", "channels", "crash", "edit"}
    MaxTroubles = 2
SPECIFICATION Spec
CHECK_DEADLOCK FALSE
INVARIANTS HistoryInv OneOpenRow NotifiedOnce Synced
PROPERTIES OpenWhileFiring CatchesUp
