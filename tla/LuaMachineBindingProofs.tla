---------------------- MODULE LuaMachineBindingProofs ----------------------
(***************************************************************************)
(* Proofs about the ownership of the C objects the Lua binding creates,   *)
(* for every set of addresses, reasons and garbage bound, whether Lua's    *)
(* allocator may fail or not.                                              *)
(***************************************************************************)
EXTENDS LuaMachineBinding, TLAPS

(* Whether a C object lives at o.                                          *)
Live(o) == IF heap[o] = "free" THEN 0 ELSE 1

(***************************************************************************)
(* The userdata pointing to o never outnumber the objects living there;   *)
(* when Lua's allocator does not fail they are exactly as many.           *)
(***************************************************************************)
OwnOK(o) ==
    /\ Owners(o) <= Live(o)
    /\ ~LuaAllocFails => Owners(o) = Live(o)

(***************************************************************************)
(* The inductive invariant.  The count of owners is what makes it         *)
(* inductive: a finalizer runs only on an unreachable userdata, which is  *)
(* an owner, so its object is live and deleting it is no double delete.  *)
(***************************************************************************)
IInv ==
    /\ TypeOK
    /\ ~double_free
    /\ \A o \in Objs : OwnOK(o)

LEMMA MaxGarbageNat == MaxGarbage \in Nat
BY BindingAssumption

LEMMA AllocFailsBoolean == LuaAllocFails \in BOOLEAN
BY BindingAssumption

(* Every userdata type a verify method or the constructor creates has the  *)
(* finalizer of clua_managed_cm_ptr.                                       *)
LEMMA KindsManaged == Kinds = ManagedTypes
BY DEF Kinds, ManagedTypes, RegisteredTypes, HostManagedTypes

(* The owners of an address are a natural number.                          *)
LEMMA OwnersNat ==
    ASSUME TypeOK, NEW o \in Objs
    PROVE  Owners(o) \in Nat
<1>1. garbage[o]["log"] \in Nat /\ garbage[o]["machine"] \in Nat
  BY MaxGarbageNat DEF TypeOK, Kinds
<1>. QED BY <1>1 DEF TypeOK, Owners

(***************************************************************************)
(* Changing one garbage counter within its bound keeps the counters typed *)
(* and leaves every other counter as it was.                              *)
(***************************************************************************)
LEMMA GarbageStep ==
    ASSUME NEW g \in [Objs -> [Kinds -> 0..MaxGarbage]], NEW o \in Objs,
           NEW k \in Kinds, NEW n \in 0..MaxGarbage
    PROVE  /\ [g EXCEPT ![o][k] = n] \in [Objs -> [Kinds -> 0..MaxGarbage]]
           /\ \A p \in Objs, j \in Kinds :
                 [g EXCEPT ![o][k] = n][p][j] = IF p = o /\ j = k THEN n ELSE g[p][j]
BY DEF Kinds

(***************************************************************************)
(* A step that keeps the types, sets no double delete and changes the     *)
(* owners of every address by exactly as much as the objects living there *)
(* keeps the invariant.                                                    *)
(***************************************************************************)
LEMMA Balanced ==
    ASSUME IInv, TypeOK', ~double_free',
           \A p \in Objs : Owners(p)' - Live(p)' = Owners(p) - Live(p)
    PROVE  IInv'
<1> SUFFICES ASSUME NEW p \in Objs PROVE OwnOK(p)'
  BY DEF IInv
<1>1. Owners(p) \in Nat /\ Owners(p)' \in Nat
  <2>1. Owners(p) \in Nat
    BY OwnersNat DEF IInv
  <2>2. garbage'[p]["log"] \in Nat /\ garbage'[p]["machine"] \in Nat /\ held'[p] \in Nat
    BY MaxGarbageNat DEF TypeOK, Kinds
  <2>. QED BY <2>1, <2>2 DEF Owners
<1>2. Live(p) \in {0, 1} /\ Live(p)' \in {0, 1}
  BY DEF Live
<1>3. Owners(p)' - Live(p)' = Owners(p) - Live(p)
  OBVIOUS
<1>4. OwnOK(p)
  BY DEF IInv
<1>5. Owners(p)' <= Live(p)'
  BY <1>1, <1>2, <1>3, <1>4 DEF OwnOK
<1>6. ~LuaAllocFails => Owners(p)' = Live(p)'
  BY <1>1, <1>2, <1>3, <1>4 DEF OwnOK
<1>. QED BY <1>5, <1>6 DEF OwnOK

LEMMA InitIInv == Init => IInv
<1> SUFFICES ASSUME Init PROVE IInv
  OBVIOUS
<1>1. garbage \in [Objs -> [Kinds -> 0..MaxGarbage]]
  BY MaxGarbageNat DEF Init
<1>2. TypeOK
  BY <1>1 DEF Init, TypeOK, Ret
<1>3. ASSUME NEW o \in Objs PROVE OwnOK(o)
  <2>1. garbage[o]["log"] = 0 /\ garbage[o]["machine"] = 0 /\ held[o] = 0
    BY DEF Init, Kinds
  <2>2. Owners(o) = 0
    BY <2>1 DEF Owners
  <2>3. Live(o) = 0
    BY DEF Init, Live
  <2>. QED BY <2>2, <2>3 DEF OwnOK
<1>5. ~double_free
  BY DEF Init
<1>. QED BY <1>2, <1>3, <1>5 DEF IInv

(***************************************************************************)
(* A verify call raises before the log is wrapped (no object is created), *)
(* returns after reset() deleted the log (none is left), raises with the  *)
(* log's userdata as garbage (one new owner of a fresh object), or, when  *)
(* Lua's allocator fails in clua_push_to, leaves a fresh log unowned.     *)
(***************************************************************************)
LEMMA VerifyCallIInv ==
    ASSUME IInv, NEW fn, NEW reason, NEW log, NEW fail,
           VerifyCall(fn, reason, log, fail)
    PROVE  IInv'
<1> DEFINE converted == fail = 0 \/ fail > LogStep(fn)
           accepted  == fail = 0 /\ Accepts(fn, ToUint16(reason), log)
<1>0. UNCHANGED <<held, double_free>>
  BY DEF VerifyCall
<1>1. CASE ~converted
  <2>1. UNCHANGED <<heap, garbage>> /\ ret' = Ret(fn, "error", reason, log)
    BY <1>1 DEF VerifyCall
  <2>2. TypeOK'
    BY <1>0, <2>1 DEF IInv, TypeOK, Ret
  <2>. QED BY <1>0, <2>1, <2>2, Balanced DEF IInv, Owners, Live
<1>2. CASE converted
  <2>1. PICK o \in Objs :
          /\ heap[o] = "free"
          /\ \/ WrapRaises(fn, reason, log, o)
             \/ /\ garbage[o]["log"] < MaxGarbage
                /\ IF accepted
                   THEN /\ ret' = Ret(fn, "returned", reason, log)
                        /\ UNCHANGED <<heap, garbage>>
                   ELSE /\ ret' = Ret(fn, "error", reason, log)
                        /\ heap' = [heap EXCEPT ![o] = "log"]
                        /\ garbage' = [garbage EXCEPT ![o]["log"] = @ + 1]
    BY <1>2 DEF VerifyCall
  <2>2. Owners(o) = 0
    <3>1. Owners(o) \in Nat
      BY OwnersNat DEF IInv
    <3>. QED BY <2>1, <3>1 DEF IInv, OwnOK, Live
  <2>3. CASE WrapRaises(fn, reason, log, o)
    <3>1. LuaAllocFails /\ heap' = [heap EXCEPT ![o] = "log"] /\ UNCHANGED garbage
          /\ ret' = Ret(fn, "error", reason, log)
      BY <2>3 DEF WrapRaises
    <3>2. TypeOK'
      BY <1>0, <3>1 DEF IInv, TypeOK, Ret
    <3>3. Owners(o)' = 0 /\ Live(o)' = 1
      BY <1>0, <2>2, <3>1 DEF IInv, TypeOK, Owners, Live
    <3>4. OwnOK(o)'
      BY <3>1, <3>3 DEF OwnOK
    <3>5. \A p \in Objs \ {o} : OwnOK(p)' = OwnOK(p)
      BY <1>0, <3>1 DEF IInv, TypeOK, OwnOK, Owners, Live
    <3>. QED BY <1>0, <3>2, <3>4, <3>5 DEF IInv
  <2>4. CASE ~WrapRaises(fn, reason, log, o) /\ accepted
    <3>1. UNCHANGED <<heap, garbage>> /\ ret' = Ret(fn, "returned", reason, log)
      BY <2>1, <2>4
    <3>2. TypeOK'
      BY <1>0, <3>1 DEF IInv, TypeOK, Ret
    <3>. QED BY <1>0, <3>1, <3>2, Balanced DEF IInv, Owners, Live
  <2>5. CASE ~WrapRaises(fn, reason, log, o) /\ ~accepted
    <3>1. /\ garbage[o]["log"] < MaxGarbage
          /\ ret' = Ret(fn, "error", reason, log)
          /\ heap' = [heap EXCEPT ![o] = "log"]
          /\ garbage' = [garbage EXCEPT ![o]["log"] = garbage[o]["log"] + 1]
      BY <2>1, <2>5
    <3>2. garbage[o]["log"] + 1 \in 0..MaxGarbage
      <4>1. garbage[o]["log"] \in 0..MaxGarbage
        BY DEF IInv, TypeOK, Kinds
      <4>. QED BY <3>1, <4>1, MaxGarbageNat
    <3>3. /\ garbage' \in [Objs -> [Kinds -> 0..MaxGarbage]]
          /\ \A p \in Objs, j \in Kinds :
                garbage'[p][j] = IF p = o /\ j = "log" THEN garbage[o]["log"] + 1
                                 ELSE garbage[p][j]
      BY <3>1, <3>2, GarbageStep DEF IInv, TypeOK, Kinds
    <3>4. TypeOK'
      BY <1>0, <3>1, <3>3 DEF IInv, TypeOK, Ret
    <3>5. \A p \in Objs : Owners(p)' - Live(p)' = Owners(p) - Live(p)
      BY <1>0, <2>1, <3>1, <3>3 DEF IInv, TypeOK, Owners, Live, Kinds
    <3>. QED BY <1>0, <3>4, <3>5, Balanced DEF IInv
  <2>. QED BY <2>3, <2>4, <2>5
<1>. QED BY <1>1, <1>2

(* The constructor hands a freshly allocated machine to the script.        *)
LEMMA MachineCtorIInv == IInv /\ MachineCtor => IInv'
<1> SUFFICES ASSUME IInv, MachineCtor PROVE IInv'
  OBVIOUS
<1>0. UNCHANGED <<garbage, double_free>>
  BY DEF MachineCtor
<1>1. CASE ret' = Ret("machine", "error", 0, NoLog) /\ UNCHANGED <<heap, held>>
  <2>1. TypeOK'
    BY <1>0, <1>1 DEF IInv, TypeOK, Ret
  <2>. QED BY <1>0, <1>1, <2>1, Balanced DEF IInv, Owners, Live
<1>2. CASE \E o \in Objs :
            /\ heap[o] = "free"
            /\ heap' = [heap EXCEPT ![o] = "machine"]
            /\ held' = [held EXCEPT ![o] = @ + 1]
            /\ ret' = Ret("machine", "returned", 0, NoLog)
  <2>1. PICK o \in Objs :
            /\ heap[o] = "free"
            /\ heap' = [heap EXCEPT ![o] = "machine"]
            /\ held' = [held EXCEPT ![o] = @ + 1]
            /\ ret' = Ret("machine", "returned", 0, NoLog)
    BY <1>2
  <2>2. TypeOK'
    BY <1>0, <2>1 DEF IInv, TypeOK, Ret
  <2>3. \A p \in Objs : Owners(p)' - Live(p)' = Owners(p) - Live(p)
    BY <1>0, <2>1 DEF IInv, TypeOK, Owners, Live, Kinds
  <2>. QED BY <1>0, <2>2, <2>3, Balanced DEF IInv
<1>. QED BY <1>1, <1>2 DEF MachineCtor

(* Dropping a machine moves its owner from the script to the garbage.      *)
LEMMA DropMachineIInv ==
    ASSUME IInv, NEW o \in Objs, DropMachine(o)
    PROVE  IInv'
<1>1. garbage[o]["machine"] + 1 \in 0..MaxGarbage
  <2>1. garbage[o]["machine"] \in 0..MaxGarbage
    BY DEF IInv, TypeOK, Kinds
  <2>2. garbage[o]["machine"] < MaxGarbage
    BY DEF DropMachine
  <2>. QED BY <2>1, <2>2, MaxGarbageNat
<1>2. /\ garbage' \in [Objs -> [Kinds -> 0..MaxGarbage]]
      /\ \A p \in Objs, j \in Kinds :
            garbage'[p][j] = IF p = o /\ j = "machine" THEN garbage[o]["machine"] + 1
                             ELSE garbage[p][j]
  BY <1>1, GarbageStep DEF DropMachine, IInv, TypeOK, Kinds
<1>3. TypeOK'
  BY <1>2 DEF DropMachine, IInv, TypeOK
<1>4. \A p \in Objs : Owners(p)' - Live(p)' = Owners(p) - Live(p)
  BY <1>2 DEF DropMachine, IInv, TypeOK, Owners, Live, Kinds
<1>. QED BY <1>3, <1>4, Balanced DEF DropMachine, IInv

(***************************************************************************)
(* A finalizer runs on an unreachable userdata, so its object has an      *)
(* owner and is live: deleting it is no double delete, and leaves the     *)
(* address free with one owner fewer.                                      *)
(***************************************************************************)
LEMMA CollectIInv ==
    ASSUME IInv, NEW o \in Objs, NEW k \in Kinds, Collect(o, k)
    PROVE  IInv'
<1>1. heap[o] # "free"
  <2>1. garbage[o][k] > 0 /\ garbage[o][k] \in Nat
    BY MaxGarbageNat DEF Collect, IInv, TypeOK
  <2>2. Owners(o) >= 1
    BY <2>1 DEF IInv, TypeOK, Owners, Kinds
  <2>3. Owners(o) <= Live(o)
    BY DEF IInv, OwnOK
  <2>4. Owners(o) \in Nat
    BY OwnersNat DEF IInv
  <2>5. Live(o) >= 1
    BY <2>2, <2>3, <2>4 DEF Live
  <2>. QED BY <2>5 DEF Live
<1>2. heap' = [heap EXCEPT ![o] = "free"] /\ double_free' = FALSE
  <2>1. k \in ManagedTypes
    BY KindsManaged
  <2>2. double_free' = (double_free \/ heap[o] = "free")
    BY <2>1 DEF Collect
  <2>. QED BY <1>1, <2>1, <2>2 DEF Collect, IInv, TypeOK
<1>3. garbage[o][k] - 1 \in 0..MaxGarbage
  <2>1. garbage[o][k] \in 0..MaxGarbage
    BY DEF IInv, TypeOK
  <2>2. garbage[o][k] > 0
    BY DEF Collect
  <2>. QED BY <2>1, <2>2, MaxGarbageNat
<1>4. /\ garbage' \in [Objs -> [Kinds -> 0..MaxGarbage]]
      /\ \A p \in Objs, j \in Kinds :
            garbage'[p][j] = IF p = o /\ j = k THEN garbage[o][k] - 1
                             ELSE garbage[p][j]
  BY <1>3, GarbageStep DEF Collect, IInv, TypeOK
<1>5. UNCHANGED <<held, ret>>
  BY DEF Collect
<1>6. TypeOK'
  BY <1>2, <1>4, <1>5 DEF IInv, TypeOK
<1>7. \A p \in Objs : Owners(p)' - Live(p)' = Owners(p) - Live(p)
  <2>1. Live(o)' = 0 /\ Live(o) = 1
    BY <1>1, <1>2 DEF IInv, TypeOK, Live
  <2>2. Owners(o)' = Owners(o) - 1
    <3>0. garbage[o]["log"] \in Nat /\ garbage[o]["machine"] \in Nat /\ held[o] \in Nat
      BY MaxGarbageNat DEF IInv, TypeOK, Kinds
    <3>1. CASE k = "log"
      BY <1>4, <1>5, <3>0, <3>1 DEF Owners, Kinds
    <3>2. CASE k = "machine"
      BY <1>4, <1>5, <3>0, <3>2 DEF Owners, Kinds
    <3>. QED BY <3>1, <3>2 DEF Kinds
  <2>3. \A p \in Objs \ {o} : Owners(p)' = Owners(p) /\ Live(p)' = Live(p)
    BY <1>2, <1>4, <1>5 DEF IInv, TypeOK, Owners, Live, Kinds
  <2>4. Owners(o) \in Nat
    BY OwnersNat DEF IInv
  <2>. QED BY <2>1, <2>2, <2>3, <2>4
<1>. QED BY <1>2, <1>6, <1>7, Balanced

(* The invariant holds in every reachable state.                           *)
LEMMA IInvInvariant == Spec => []IInv
<1>1. IInv /\ [Next]_vars => IInv'
  <2> SUFFICES ASSUME IInv, [Next]_vars PROVE IInv'
    OBVIOUS
  <2>1. CASE \E fn, reason, log, fail : VerifyCall(fn, reason, log, fail)
    BY <2>1, VerifyCallIInv
  <2>2. CASE MachineCtor
    BY <2>2, MachineCtorIInv
  <2>3. CASE \E o \in Objs : DropMachine(o)
    BY <2>3, DropMachineIInv
  <2>4. CASE \E o \in Objs, k \in Kinds : Collect(o, k)
    BY <2>4, CollectIInv
  <2>5. CASE UNCHANGED vars
    BY <2>5 DEF vars, IInv, TypeOK, OwnOK, Owners, Live
  <2>. QED
    BY <2>1, <2>2, <2>3, <2>4, <2>5
    DEF Next, VerifyStepUarchLog, VerifyStepUarchStateTransition,
        VerifyResetUarchLog, VerifyResetUarchStateTransition,
        VerifySendCmioResponseLog, VerifySendCmioResponseStateTransition,
        VerifyMethod, VerifyCmioMethod
<1>. QED BY <1>1, InitIInv, PTL DEF Spec

(***************************************************************************)
(* For every build of Lua and every set of addresses, no finalizer of     *)
(* clua_managed_cm_ptr deletes a dead object and no two userdata own one  *)
(* object: an allocation failure in clua_push_to can leak a log, but      *)
(* never makes the binding delete freed or reused memory.                  *)
(***************************************************************************)
THEOREM NoDoubleDeleteCorrect == Spec => []NoDoubleDelete
<1>1. IInv => NoDoubleDelete
  BY DEF IInv, OwnOK, Live, NoDoubleDelete
<1>. QED BY <1>1, IInvInvariant, PTL

(***************************************************************************)
(* Unique ownership: when Lua's allocator does not fail, every C object   *)
(* the binding created (an access log left by a failed verify call, or a  *)
(* machine) is owned by exactly one userdata and freed memory by none.     *)
(***************************************************************************)
THEOREM OwnershipCorrect ==
    ASSUME ~LuaAllocFails
    PROVE  Spec => []UniqueOwnership
<1>1. IInv => UniqueOwnership
  BY DEF IInv, OwnOK, Live, UniqueOwnership
<1>. QED BY <1>1, IInvInvariant, PTL

(***************************************************************************)
(* Type correctness of the binding: every object's heap slot, garbage     *)
(* counters and hold count keep their types, and every Lua-visible return *)
(* has a status, also when lua_newuserdata raises.                         *)
(***************************************************************************)
THEOREM TypeCorrect == Spec => []TypeOK
BY IInvInvariant, PTL DEF IInv
=============================================================================
