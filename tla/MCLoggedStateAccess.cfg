\* Every sequence of MaxCalls interface calls on the logging state access.
CONSTANTS
    LOG2_ROOT_SIZE = 10
    LOG2_WORD_SIZE = 3
    ZeroWordHash <- MCZeroWordHash
    GetConcatHash <- MCConcatHash
    LeafHash <- MCLeafHash
    Regs <- MCRegs
    PmaIndices = {0}
    Paddrs <- MCPaddrs
    Values = {0, 1}
    PRVs = {0, 3}
    None <- NoArg
    NoArg = NoArg
    MaxCalls = 2
SPECIFICATION Spec
INVARIANT TypeOK
INVARIANT StepLogVerifies
INVARIANT TamperedLogRejected
CHECK_DEADLOCK FALSE
