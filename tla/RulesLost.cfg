CONSTANTS
    Cpu = cpu
    Disk = disk
    Rules = {cpu, disk}
    Editors = {a, b}
    MaxBody = 1
    Invalid = {}
    MaxPushes = 0
    MaxWorking = 2
    Asks <- TwoCreates
    Drafts <- NoRules
    Faults = {}
SPECIFICATION Spec
CHECK_DEADLOCK FALSE
INVARIANTS SuccessKept
