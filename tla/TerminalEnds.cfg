CONSTANTS
    Kinds = {"exec", "logs", "ssh"}
    MaxOut = 3
    MaxIn = 2
    Troubles = {"config", "connect", "break"}
    Hello = hello
    Error = error
    End = end
SPECIFICATION Spec
CHECK_DEADLOCK FALSE
INVARIANTS TerminalInv Reported
PROPERTIES NoStall BothStop
