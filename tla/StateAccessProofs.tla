------------------------- MODULE StateAccessProofs -------------------------
(***************************************************************************)
(* Proofs about the direct state access, for every set of registers, PMA  *)
(* entries, memory words and values.                                       *)
(***************************************************************************)
EXTENDS StateAccess, StateAccessInterfaceProofs

(***************************************************************************)
(* Type correctness of the direct access: every interface call keeps the  *)
(* iflags word a record of H, I and PRV and every other word a value, and *)
(* a step makes at most MaxCalls calls.                                    *)
(***************************************************************************)
THEOREM TypeCorrect == Spec => []TypeOK
<1>1. Init => TypeOK
  <2> SUFFICES ASSUME Init PROVE TypeOK
    OBVIOUS
  <2>1. PICK fl \in IflagsWords :
            st = [l \in Loc |-> IF l = <<"iflags", 0>> THEN fl ELSE 0]
    BY DEF Init, InitialStates
  <2>2. <<"iflags", 0>> \in Loc
    BY DEF Loc
  <2>. QED BY <2>1, <2>2, StateAccessAssumption DEF Init, TypeOK
<1>2. TypeOK /\ [Next]_vars => TypeOK'
  <2> SUFFICES ASSUME TypeOK, [Next]_vars PROVE TypeOK'
    OBVIOUS
  <2>1. CASE \E m \in Catalog : \E i \in IndicesOf(m[2]) : \E v \in ArgsOf(m) :
                 Call(m, i, v)
    <3>0. PICK m \in Catalog : \E i \in IndicesOf(m[2]) : \E v \in ArgsOf(m) :
                                 Call(m, i, v)
      BY <2>1
    <3>1. PICK i \in IndicesOf(m[2]), v \in ArgsOf(m) : Call(m, i, v)
      BY <3>0
    <3> DEFINE d == Forward(m)
               loc == LocOf(m[2], i)
    <3>2. d[2] = m[2] /\ loc \in Loc
      BY ForwardField, LocOfInLoc
    <3>3. loc = <<"iflags", 0>> <=> m[2] \in IflagsFields
      BY CsrsApart DEF LocOf, Catalog, IflagsFields
    <3>4. CASE d[1] = "read"
      BY <3>1, <3>4, StateAccessAssumption DEF Call, TypeOK
    <3>5. CASE d[1] # "read"
      <4>1. st' = [st EXCEPT ![loc] = Update(st[loc], d, v)]
        BY <3>1, <3>2, <3>5 DEF Call
      <4>2. m[2] \in IflagsFields => Update(st[loc], d, v) \in IflagsWords
        BY <3>3, <3>5, UpdateType DEF TypeOK
      <4>3. m[2] \notin IflagsFields => Update(st[loc], d, v) \in Values
        BY <3>5, UpdateType
      <4>4. ret'.call \in Catalog /\ calls' \in 0..MaxCalls
        BY <3>1, StateAccessAssumption DEF Call, TypeOK
      <4>. QED BY <3>2, <3>3, <4>1, <4>2, <4>3, <4>4 DEF TypeOK
    <3>. QED BY <3>4, <3>5
  <2>2. CASE UNCHANGED vars
    BY <2>2 DEF vars, TypeOK
  <2>. QED BY <2>1, <2>2 DEF Next
<1>. QED BY <1>1, <1>2, PTL DEF Spec

(***************************************************************************)
(* The forwarding table of i-state-access.h is right for every method and  *)
(* every instance: an interface call changes the machine state only at     *)
(* the location of the field it names, and a method that returns a value  *)
(* returns that field's value.                                             *)
(***************************************************************************)
THEOREM CallTouchesOnlyItsFieldCorrect == Spec => CallTouchesOnlyItsField
<1>1. [Next]_vars =>
        [ LET loc == LocOf(ret'.call[2], ret'.index) IN
          /\ \A l \in DOMAIN st : st'[l] # st[l] => l = loc
          /\ Returns(ret'.call) => ret'.value = FieldValue(st[loc], ret'.call[2])
        ]_vars
  <2> SUFFICES ASSUME NEW m \in Catalog, NEW i \in IndicesOf(m[2]),
                      NEW v \in ArgsOf(m), Call(m, i, v)
               PROVE  LET loc == LocOf(ret'.call[2], ret'.index) IN
                      /\ \A l \in DOMAIN st : st'[l] # st[l] => l = loc
                      /\ Returns(ret'.call) =>
                             ret'.value = FieldValue(st[loc], ret'.call[2])
    BY DEF Next, vars
  <2>1. ret'.call = m /\ ret'.index = i
    BY DEF Call
  <2>2. Forward(m)[2] = m[2]
    BY ForwardField
  <2>3. \A l \in DOMAIN st : st'[l] # st[l] => l = LocOf(m[2], i)
    BY <2>2 DEF Call
  <2>4. Returns(m) => Forward(m) = m /\ m[1] = "read"
    BY DEF Returns, Forward
  <2>5. Returns(m) => ret'.value = FieldValue(st[LocOf(m[2], i)], m[2])
    BY <2>4 DEF Call
  <2>. QED BY <2>1, <2>3, <2>5
<1>. QED BY <1>1, PTL DEF Spec, CallTouchesOnlyItsField

=============================================================================
