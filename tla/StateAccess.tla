---------------------------- MODULE StateAccess ----------------------------
(***************************************************************************)
(* The direct state access (component F, spec section 4.F) behind the      *)
(* i_state_access interface: each interface call forwards to a do_ method *)
(* that reads or writes the raw machine-state fields.  The interpreter     *)
(* calls any method in any order; one call is one action, and ret records *)
(* it with its result.  A step makes at most MaxCalls calls.               *)
(***************************************************************************)
EXTENDS StateAccessInterface

VARIABLES
    st,   \* st[loc]: the machine-state word at location loc
    ret,  \* the last interface call and what it returned
    calls \* the interface calls made so far in this step

vars == <<st, ret, calls>>

(***************************************************************************)
(* A call of interface method m on index i with argument v: derived()      *)
(* casts to the implementation and its do_ method Forward(m) runs on the   *)
(* raw state.                                                              *)
(***************************************************************************)
Call(m, i, v) ==
    LET d   == Forward(m)
        loc == LocOf(d[2], i)
    IN  /\ calls < MaxCalls
        /\ calls' = calls + 1
        /\ st' = IF d[1] = "read" THEN st
                 ELSE [st EXCEPT ![loc] = Update(st[loc], d, v)]
        /\ ret' = [call  |-> m, index |-> i, arg |-> v,
                   value |-> IF d[1] = "read" THEN FieldValue(st[loc], d[2])
                             ELSE None]

(* The machine at the start of a step: every word 0, any iflags.           *)
InitialStates ==
    {[l \in Loc |-> IF l = <<"iflags", 0>> THEN fl ELSE 0] : fl \in IflagsWords}

Init ==
    /\ st \in InitialStates
    /\ ret = [call |-> <<"none", "none">>, index |-> 0, arg |-> None,
              value |-> None]
    /\ calls = 0

Next ==
    \E m \in Catalog : \E i \in IndicesOf(m[2]) : \E v \in ArgsOf(m) :
        Call(m, i, v)

Spec == Init /\ [][Next]_vars

-----------------------------------------------------------------------------
TypeOK ==
    /\ DOMAIN st = Loc
    /\ st[<<"iflags", 0>>] \in IflagsWords
    /\ \A l \in Loc \ {<<"iflags", 0>>} : st[l] \in Values
    /\ ret.call \in Catalog \cup {<<"none", "none">>}
    /\ calls \in 0..MaxCalls

(***************************************************************************)
(* Spec section 4.E: the interface is a uniform contract over the machine  *)
(* state.  Every interface call changes the machine state at most at the   *)
(* location of the field it names, and a method that returns a value      *)
(* returns that field's value as it was.  This is what the forwarding      *)
(* table of i-state-access.h must get right for each of its methods.       *)
(***************************************************************************)
CallTouchesOnlyItsField ==
    [][ LET loc == LocOf(ret'.call[2], ret'.index) IN
        /\ \A l \in DOMAIN st : st'[l] # st[l] => l = loc
        /\ Returns(ret'.call) => ret'.value = FieldValue(st[loc], ret'.call[2])
      ]_vars

(***************************************************************************)
(* Spec section 4.E: the contract is purely functional and a read does not *)
(* change the state.  So no read_ method changes the machine state.        *)
(***************************************************************************)
ReadsChangeNothing ==
    [][ret'.call[1] = "read" => st' = st]_vars

=============================================================================
