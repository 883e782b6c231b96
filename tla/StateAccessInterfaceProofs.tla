--------------------- MODULE StateAccessInterfaceProofs ---------------------
(***************************************************************************)
(* Lemmas about the i_state_access interface (StateAccessInterface): the  *)
(* forwarding table, the locations its methods name and what a writing    *)
(* do_ method stores.  Both implementations' proofs cite them.            *)
(***************************************************************************)
EXTENDS StateAccessInterface, TLAPS
(* No CSR of the catalog has the name of another component.               *)
LEMMA CsrsApart ==
    Csrs \cap {"x", "iflags", "iflags_H", "iflags_I", "iflags_PRV", "pma",
              "memory", "none"} = {}
BY DEF Csrs, CsrSeq, MachineCsrs, SupervisorCsrs, HtifCsrs

(* The forwarding table keeps the field: only the operation can differ.    *)
LEMMA ForwardField ==
    ASSUME NEW m \in Catalog
    PROVE  /\ Forward(m)[2] = m[2]
           /\ Forward(m) \in Catalog
           /\ Forward(m)[1] = "read" => Forward(m) = m
BY DEF Forward, Catalog

(* The location a catalog method names, at an index it accepts, is a       *)
(* location of the machine state.                                          *)
LEMMA LocOfInLoc ==
    ASSUME NEW m \in Catalog, NEW i \in IndicesOf(m[2])
    PROVE  LocOf(m[2], i) \in Loc
BY DEF Catalog, IndicesOf, LocOf, Loc, IflagsFields

(***************************************************************************)
(* What a writing do_ method stores keeps the word's type: the iflags word *)
(* stays a record of its three fields, every other word a value.          *)
(***************************************************************************)
LEMMA UpdateType ==
    ASSUME NEW m \in Catalog, NEW v \in ArgsOf(m), NEW w,
           Forward(m)[1] # "read"
    PROVE  /\ m[2] \in IflagsFields /\ w \in IflagsWords
                => Update(w, Forward(m), v) \in IflagsWords
           /\ m[2] \notin IflagsFields => Update(w, Forward(m), v) \in Values
<1>1. CASE m = <<"read", "memory">>
  <2>1. Forward(m) = <<"write", "memory">> /\ m[2] \notin IflagsFields
    BY <1>1 DEF Forward, IflagsFields
  <2>2. v \in Values
    BY <1>1 DEF ArgsOf
  <2>3. Update(w, <<"write", "memory">>, v) = v
    BY DEF Update
  <2>. QED BY <2>1, <2>2, <2>3
<1>2. CASE m = <<"set", "iflags_H">>
  <2>1. Forward(m) = m /\ m[2] \in IflagsFields
    BY <1>2 DEF Forward, IflagsFields
  <2>2. w \in IflagsWords => [w EXCEPT !.H = TRUE] \in IflagsWords
    BY DEF IflagsWords
  <2>. QED BY <1>2, <2>1, <2>2 DEF Update
<1>6. CASE m = <<"reset", "iflags_I">>
  <2>1. Forward(m) = m /\ m[2] \in IflagsFields
    BY <1>6 DEF Forward, IflagsFields
  <2>2. w \in IflagsWords => [w EXCEPT !.I = FALSE] \in IflagsWords
    BY DEF IflagsWords
  <2>. QED BY <1>6, <2>1, <2>2 DEF Update
<1>3. CASE m = <<"write", "iflags_PRV">>
  <2>1. Forward(m) = m /\ m[2] \in IflagsFields
    BY <1>3 DEF Forward, IflagsFields
  <2>2. v \in PRVs
    BY <1>3 DEF ArgsOf
  <2>3. Update(w, m, v) = [w EXCEPT !.PRV = v]
    BY <1>3 DEF Update
  <2>4. w \in IflagsWords => [w EXCEPT !.PRV = v] \in IflagsWords
    BY <2>2 DEF IflagsWords
  <2>. QED BY <2>1, <2>3, <2>4
<1>4. CASE m \in {"write"} \X ({"x", "memory"} \cup Csrs)
  <2>1. Forward(m) = m /\ m[2] \notin IflagsFields /\ m[2] # "iflags_PRV"
    BY <1>4, CsrsApart DEF Forward, IflagsFields
  <2>2. v \in Values
    BY <1>4, <2>1 DEF ArgsOf
  <2>3. Update(w, m, v) = v
    BY <1>4, <2>1 DEF Update
  <2>. QED BY <2>1, <2>2, <2>3
<1>5. CASE m[1] = "read" /\ m # <<"read", "memory">>
  BY <1>5 DEF Forward
<1>. QED BY <1>1, <1>2, <1>3, <1>4, <1>5, <1>6 DEF Catalog

=============================================================================
