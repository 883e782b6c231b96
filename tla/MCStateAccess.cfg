\* Every sequence of MaxCalls interface calls on the direct state access; the value
\* 256 is a uint64 argument that is no uint8 privilege level.
CONSTANTS
    Regs <- MCRegs
    PmaIndices = {0}
    Paddrs <- MCPaddrs
    Values = {0, 256}
    PRVs = {0, 1, 3}
    None <- NoArg
    MaxCalls = 2
    NoArg = NoArg
SPECIFICATION Spec
INVARIANT TypeOK
PROPERTY CallTouchesOnlyItsField
CHECK_DEADLOCK FALSE
