\* int of 8 bits, address_type of 6 bits, at most 16 hashes per allocation.
CONSTANTS
    ADDRESS_BITS = 6
    INT_BITS = 8
    MaxAllocEntries = 16
    ParamValues <- MCParamValues
SPECIFICATION Spec
INVARIANT
    RejectsWithOutOfRange
