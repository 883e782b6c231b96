\* Two heap addresses, reasons 1 and 65537 (= 1 modulo 2^16), logs for reason 1.
CONSTANTS
    o1 = o1
    o2 = o2
    Objs <- MCObjs
    Reasons <- MCReasons
    LogReasons = {1}
    MaxGarbage = 2
    LuaAllocFails = FALSE
SPECIFICATION FairSpec
PROPERTY
    LogsEventuallyFreed
