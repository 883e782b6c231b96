\* Every sequence of MaxCalls interface calls on the direct state access.
CONSTANTS
    Regs <- MCRegs
    PmaIndices = {0}
    Paddrs <- MCPaddrs
    Values = {0, 1}
    PRVs = {0, 3}
    None <- NoArg
    MaxCalls = 2
    NoArg = NoArg
SPECIFICATION Spec

PROPERTY ReadsChangeNothing
CHECK_DEADLOCK FALSE
