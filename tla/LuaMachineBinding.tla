-------------------------- MODULE LuaMachineBinding --------------------------
(***************************************************************************)
(* The Lua binding of the machine class (src/src/clua-machine.cpp): the    *)
(* verify_* class methods and the cartesi.machine() constructor, with the *)
(* ownership of the C objects they create.                                 *)
(*                                                                         *)
(* A C object (a cm_access_log converted from a Lua table, or a           *)
(* cm_machine) is owned by a clua_managed_cm_ptr userdata pushed on the   *)
(* Lua stack.  A binding function raises with luaL_error, which unwinds   *)
(* the stack without running C++ destructors; the userdata is then         *)
(* garbage and its __gc finalizer deletes the object later.  On success   *)
(* the verify methods reset() the pointer, deleting the log at once.      *)
(*                                                                         *)
(* Lua runs one call at a time, so each binding function is one action.   *)
(* The garbage collector finalizes unreachable userdata at any point in   *)
(* between: Collect.  garbage[o][k] counts the unreachable userdata of    *)
(* type k (a managed log or machine pointer) that still point to o, and   *)
(* held[o] the userdata the script holds (a machine).                      *)
(***************************************************************************)
EXTENDS Integers, Sequences

CONSTANTS
    Objs,        \* the addresses the C allocator can hand out
    Reasons,     \* the Lua integers a script may pass as a cmio reason
    LogReasons,  \* the reasons (uint16) an access log can carry
    MaxGarbage,  \* bound on the unreachable userdata pointing to one object
    LuaAllocFails \* whether Lua's allocator may fail in lua_newuserdata

ASSUME BindingAssumption ==
    /\ Reasons \subseteq Int
    /\ LogReasons \subseteq 0..65535
    /\ MaxGarbage \in Nat \ {0}
    /\ LuaAllocFails \in BOOLEAN

VARIABLES
    heap,         \* heap[o]: "free", or the kind of C object living at o
    garbage,      \* garbage[o][k]: unreachable userdata of type k pointing to o
    held,         \* held[o]: userdata the script holds whose pointer is o
    double_free,  \* a finalizer deleted an object that was not live
    ret           \* the outcome of the last binding call

vars == <<heap, garbage, held, double_free, ret>>

(* The access-log arguments a script may pass: which cmio reason the log  *)
(* records and whether its accesses verify against the given hashes.      *)
LogArgs == [reason : LogReasons, valid : BOOLEAN]

(***************************************************************************)
(* What each verify method checks and converts, in argument order:         *)
(* "hash" is clua_check_cm_hash, "log" clua_check_cm_access_log followed  *)
(* by clua_push_to of the managed pointer, "integer" luaL_checkinteger,   *)
(* "string" luaL_checklstring.  Each may raise on a bad argument.          *)
(***************************************************************************)
Plan ==
    [verify_step_uarch_log                      |-> <<"log">>,
     verify_step_uarch_state_transition         |-> <<"hash", "log", "hash">>,
     verify_reset_uarch_log                     |-> <<"log">>,
     verify_reset_uarch_state_transition        |-> <<"hash", "log", "hash">>,
     verify_send_cmio_response_log              |-> <<"integer", "string", "log">>,
     verify_send_cmio_response_state_transition |->
         <<"integer", "string", "hash", "log", "hash">>]

CmioMethods == {"verify_send_cmio_response_log",
                "verify_send_cmio_response_state_transition"}

LogStep(fn) == CHOOSE k \in 1..Len(Plan[fn]) : Plan[fn][k] = "log"

(***************************************************************************)
(* The machine C API's verifier (cm_verify_*, not under src/; spec section *)
(* 4.H): it accepts a log whose accesses verify, and for a cmio response  *)
(* only one that deposits the reason it is given.                          *)
(***************************************************************************)
Accepts(fn, reason, log) ==
    /\ log.valid
    /\ fn \in CmioMethods => log.reason = reason

(* static_cast<uint16_t>(luaL_checkinteger(L, 1))                          *)
ToUint16(n) == n % 65536

(* The managed-pointer types clua_machine_init registers with a __gc       *)
(* finalizer (clua_createnewtype); of the kinds modelled, the log.         *)
(* Mutant: the cm_access_log type left out.                                *)
RegisteredTypesNoLog == {}

RegisteredTypes == {"log"}

(* The machine userdata's finalizer is registered outside src/ (it is not  *)
(* among lines 170-175): an assumption of the model, from spec section 9.  *)
HostManagedTypes == {"machine"}

ManagedTypes == RegisteredTypes \cup HostManagedTypes

Kinds == {"log", "machine"}

(* The userdata, reachable or not, whose pointer is o.                    *)
Owners(o) == garbage[o]["log"] + garbage[o]["machine"] + held[o]

Ret(fn, status, reason, log) ==
    [fn |-> fn, status |-> status, reason |-> reason, log |-> log]

NoLog == [reason |-> 0, valid |-> FALSE]

Init ==
    /\ heap = [o \in Objs |-> "free"]
    /\ garbage = [o \in Objs |-> [k \in Kinds |-> 0]]
    /\ held = [o \in Objs |-> 0]
    /\ double_free = FALSE
    /\ ret = Ret("none", "none", 0, NoLog)

(***************************************************************************)
(* clua_check_cm_access_log has allocated the log at o and clua_push_to's *)
(* lua_newuserdata raises: the temporary clua_managed_cm_ptr holding it   *)
(* is a C++ object on a stack that luaL_error leaves by longjmp, so its   *)
(* destructor does not run and no userdata owns the log.  (A Lua built as  *)
(* C++ unwinds by exception and the destructor frees it: that outcome is  *)
(* the raise before the log's conversion, with nothing allocated.)       *)
(***************************************************************************)
WrapRaises(fn, reason, log, o) ==
    /\ LuaAllocFails
    /\ heap' = [heap EXCEPT ![o] = "log"]
    /\ ret' = Ret(fn, "error", reason, log)
    /\ UNCHANGED garbage

(* Mutant: on success the log deleted but the userdata's pointer kept.    *)
VerifyCallKeepPointer(fn, reason, log, fail) ==
    LET converted == fail = 0 \/ fail > LogStep(fn)
        accepted  == fail = 0 /\ Accepts(fn, ToUint16(reason), log)
    IN  /\ UNCHANGED <<held, double_free>>
        /\ IF ~converted
           THEN /\ ret' = Ret(fn, "error", reason, log)
                /\ UNCHANGED <<heap, garbage>>
           ELSE \E o \in Objs :
                  /\ heap[o] = "free"
                  /\ garbage[o]["log"] < MaxGarbage
                  /\ garbage' = [garbage EXCEPT ![o]["log"] = @ + 1]
                  /\ heap' = IF accepted THEN heap ELSE [heap EXCEPT ![o] = "log"]
                  /\ ret' = Ret(fn, IF accepted THEN "returned" ELSE "error", reason, log)

(***************************************************************************)
(* One verify method called with a reason, a log and a first failing      *)
(* check (0: every argument is good).  A check after the log's raises     *)
(* with the log's userdata on the stack; so does a rejection by the        *)
(* verifier.  On acceptance the method pushes 1 and reset() deletes the   *)
(* log: its userdata, now null, is garbage that frees nothing.             *)
(***************************************************************************)
VerifyCall(fn, reason, log, fail) ==
    LET converted == fail = 0 \/ fail > LogStep(fn)
        accepted  == fail = 0 /\ Accepts(fn, ToUint16(reason), log)
    IN  /\ UNCHANGED <<held, double_free>>
        /\ IF ~converted
           THEN /\ ret' = Ret(fn, "error", reason, log)
                /\ UNCHANGED <<heap, garbage>>
           ELSE \E o \in Objs :
                  /\ heap[o] = "free"
                  /\ \/ WrapRaises(fn, reason, log, o)
                     \/ /\ garbage[o]["log"] < MaxGarbage
                        /\ IF accepted
                           THEN /\ ret' = Ret(fn, "returned", reason, log)
                                /\ UNCHANGED <<heap, garbage>>
                           ELSE /\ ret' = Ret(fn, "error", reason, log)
                                /\ heap' = [heap EXCEPT ![o] = "log"]
                                /\ garbage' = [garbage EXCEPT ![o]["log"] = @ + 1]

(* The verify methods take no reason: the action passes 0 for it.         *)
VerifyMethod(fn) ==
    \E log \in LogArgs, fail \in 0..Len(Plan[fn]) : VerifyCall(fn, 0, log, fail)

VerifyCmioMethod(fn) ==
    \E reason \in Reasons, log \in LogArgs, fail \in 0..Len(Plan[fn]) :
        VerifyCall(fn, reason, log, fail)

VerifyStepUarchLog == VerifyMethod("verify_step_uarch_log")

VerifyStepUarchStateTransition == VerifyMethod("verify_step_uarch_state_transition")

VerifyResetUarchLog == VerifyMethod("verify_reset_uarch_log")

VerifyResetUarchStateTransition == VerifyMethod("verify_reset_uarch_state_transition")

VerifySendCmioResponseLog == VerifyCmioMethod("verify_send_cmio_response_log")

VerifySendCmioResponseStateTransition ==
    VerifyCmioMethod("verify_send_cmio_response_state_transition")

(***************************************************************************)
(* cartesi.machine(config | directory, runtime_config): a null managed     *)
(* pointer is pushed first, then the runtime config and the config or     *)
(* directory are converted (either may raise), then cm_create or cm_load   *)
(* fills the pointer or fails (and the binding raises).  The userdata is  *)
(* returned to the script on success and is garbage otherwise.            *)
(***************************************************************************)
MachineCtor ==
    /\ UNCHANGED <<garbage, double_free>>
    /\ \/ /\ ret' = Ret("machine", "error", 0, NoLog)
          /\ UNCHANGED <<heap, held>>
       \/ \E o \in Objs :
            /\ heap[o] = "free"
            /\ heap' = [heap EXCEPT ![o] = "machine"]
            /\ held' = [held EXCEPT ![o] = @ + 1]
            /\ ret' = Ret("machine", "returned", 0, NoLog)

(* The script drops its last reference to a machine.                      *)
DropMachine(o) ==
    /\ held[o] > 0
    /\ garbage[o]["machine"] < MaxGarbage
    /\ held' = [held EXCEPT ![o] = @ - 1]
    /\ garbage' = [garbage EXCEPT ![o]["machine"] = @ + 1]
    /\ UNCHANGED <<heap, double_free, ret>>

(***************************************************************************)
(* The collector finalizes one unreachable userdata of type k pointing to *)
(* o: if k has the __gc of clua_managed_cm_ptr, that deletes the object.  *)
(***************************************************************************)
(* Mutant: a finalizer run on a userdata that was already finalized.      *)
CollectUnguarded(o, k) ==
    /\ garbage' = [garbage EXCEPT ![o][k] = @ - 1]
    /\ IF k \in ManagedTypes
       THEN /\ heap' = [heap EXCEPT ![o] = "free"]
            /\ double_free' = (double_free \/ heap[o] = "free")
       ELSE UNCHANGED <<heap, double_free>>
    /\ UNCHANGED <<held, ret>>

Collect(o, k) ==
    /\ garbage[o][k] > 0
    /\ garbage' = [garbage EXCEPT ![o][k] = @ - 1]
    /\ IF k \in ManagedTypes
       THEN /\ heap' = [heap EXCEPT ![o] = "free"]
            /\ double_free' = (double_free \/ heap[o] = "free")
       ELSE UNCHANGED <<heap, double_free>>
    /\ UNCHANGED <<held, ret>>

Next ==
    \/ VerifyStepUarchLog
    \/ VerifyStepUarchStateTransition
    \/ VerifyResetUarchLog
    \/ VerifyResetUarchStateTransition
    \/ VerifySendCmioResponseLog
    \/ VerifySendCmioResponseStateTransition
    \/ MachineCtor
    \/ \E o \in Objs : DropMachine(o)
    \/ \E o \in Objs, k \in Kinds : Collect(o, k)

Spec == Init /\ [][Next]_vars

(* Lua's collector eventually finalizes every unreachable userdata.       *)
FairSpec == Spec /\ \A o \in Objs, k \in Kinds : WF_vars(Collect(o, k))

-----------------------------------------------------------------------------
TypeOK ==
    /\ heap \in [Objs -> {"free", "log", "machine"}]
    /\ garbage \in [Objs -> [Kinds -> 0..MaxGarbage]]
    /\ held \in [Objs -> Nat]
    /\ double_free \in BOOLEAN
    /\ ret.status \in {"none", "returned", "error"}

(***************************************************************************)
(* Unique ownership: every C object the binding created is owned by       *)
(* exactly one userdata, reachable or awaiting finalization, and no       *)
(* userdata points to memory that was freed; no finalizer has deleted a   *)
(* dead object.  A check that raises before the log is wrapped, a reset   *)
(* that leaves the pointer set, or a type without a finalizer breaks it,  *)
(* as a leak, a double delete or a use after free of a reused address.   *)
(***************************************************************************)
UniqueOwnership ==
    /\ ~double_free
    /\ \A o \in Objs :
          Owners(o) = IF heap[o] = "free" THEN 0 ELSE 1

(***************************************************************************)
(* What the binding keeps when Lua's allocator may fail: an object may be *)
(* leaked (no owner), but no finalizer of clua_managed_cm_ptr deletes a   *)
(* dead object, no two userdata share one object, and no userdata points  *)
(* to freed memory that the allocator may hand out again.                  *)
(***************************************************************************)
NoDoubleDelete ==
    /\ ~double_free
    /\ \A o \in Objs :
          Owners(o) <= IF heap[o] = "free" THEN 0 ELSE 1

(***************************************************************************)
(* Every access log a failed verify call left behind is eventually        *)
(* deleted, by the finalizer of its userdata.                             *)
(***************************************************************************)
LogsEventuallyFreed ==
    \A o \in Objs : heap[o] = "log" ~> heap[o] = "free"

(***************************************************************************)
(* A verify_send_cmio_response_* call returns 1 only when the log         *)
(* deposits the reason the script passed (spec section 4.H: the response *)
(* step must write that reason; section 9: a binding must not drop a      *)
(* failure silently).                                                      *)
(***************************************************************************)
CmioReasonFaithful ==
    (ret.fn \in CmioMethods /\ ret.status = "returned") =>
        ret.log.reason = ret.reason

=============================================================================
