\* Lua's allocator may fail while a log is wrapped; two addresses, reasons 1 and 65537.
CONSTANTS
    o1 = o1
    o2 = o2
    Objs <- MCObjs
    Reasons <- MCReasons
    LogReasons = {1}
    MaxGarbage = 2
    LuaAllocFails = TRUE
SPECIFICATION Spec
INVARIANT NoDoubleDelete
