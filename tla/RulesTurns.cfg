CONSTANTS
    Cpu = cpu
    Disk = disk
    Rules = {cpu, disk}
    Editors = {a, b}
    MaxBody = 3
    Invalid = {3}
    MaxPushes = 2
    MaxWorking = 1
    Asks <- SomeAsks
    Drafts <- SomeDrafts
    Faults = {"ssh", "timeout", "crash", "test", "deploy"}
SPECIFICATION Spec
CHECK_DEADLOCK FALSE
SYMMETRY Symmetric
PROPERTIES PublishesOneEdit LoadedOnSuccess
