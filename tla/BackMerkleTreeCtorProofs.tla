---------------------- MODULE BackMerkleTreeCtorProofs ----------------------
(***************************************************************************)
(* Proofs about the back_merkle_tree constructor for every width of int   *)
(* and of address_type: a tree it returns was built without undefined     *)
(* behaviour and with the sizes its methods rely on.                       *)
(***************************************************************************)
EXTENDS BackMerkleTreeCtor, TLAPS

(* The width facts, one at a time.                                         *)
LEMMA Widths ==
    /\ ADDRESS_BITS \in Nat \ {0}
    /\ IntMax \in Nat /\ IntMin = -IntMax - 1
    /\ ADDRESS_BITS <= IntMax
    /\ 2^INT_BITS = IntMax - IntMin + 1
    /\ ParamValues \subseteq IntMin..IntMax
BY WidthAssumption, PowerFacts DEF IntMin, IntMax

(* An int expression that fits keeps its value.                            *)
LEMMA IntValueFits ==
    ASSUME NEW x \in IntMin..IntMax
    PROVE  IntValue(x) = x
<1>1. x - IntMin \in 0..(2^INT_BITS - 1) /\ 2^INT_BITS \in Nat \ {0}
  BY Widths
<1>2. (x - IntMin) % 2^INT_BITS = x - IntMin
  BY <1>1
<1>3. IntValue(x) = (x - IntMin) + IntMin
  BY <1>2 DEF IntValue
<1>. QED BY <1>3, Widths

(* A power of two below the address width is below 2^ADDRESS_BITS.        *)
LEMMA PowBelowWidth ==
    ASSUME NEW a \in 0..(ADDRESS_BITS - 1)
    PROVE  2^a \in Nat \ {0} /\ 2 * 2^a <= 2^ADDRESS_BITS
<1>1. ADDRESS_BITS \in Nat \ {0}
  BY Widths
<1>2. 2^(a + 1) * 2^(ADDRESS_BITS - a - 1) = 2^((a + 1) + (ADDRESS_BITS - a - 1))
  BY <1>1, PowerFacts
<1>3. (a + 1) + (ADDRESS_BITS - a - 1) = ADDRESS_BITS
  BY <1>1
<1>4. 2^(a + 1) = 2 * 2^a
  BY <1>1, PowerFacts
<1>5. 2^a \in Nat \ {0} /\ 2^(ADDRESS_BITS - a - 1) \in Nat \ {0}
  BY <1>1, PowerFacts
<1>. QED BY <1>2, <1>3, <1>4, <1>5

(***************************************************************************)
(* The address of the last leaf, (2^(r - l) - 1) << l, fits in           *)
(* address_type whenever r is below the width.                            *)
(***************************************************************************)
LEMMA LastLeafFits ==
    ASSUME NEW r \in 0..(ADDRESS_BITS - 1), NEW l \in 0..r
    PROVE  (2^(r - l) - 1) * 2^l < 2^ADDRESS_BITS
<1>1. ADDRESS_BITS \in Nat \ {0}
  BY Widths
<1>2. 2^(r - l) * 2^l = 2^r
  <2>1. 2^(r - l) * 2^l = 2^((r - l) + l)
    BY <1>1, PowerFacts
  <2>2. (r - l) + l = r
    BY <1>1
  <2>. QED BY <2>1, <2>2
<1>3. 2^(r - l) \in Nat \ {0} /\ 2^l \in Nat \ {0}
  BY <1>1, PowerFacts
<1>4. 2 * 2^r <= 2^ADDRESS_BITS /\ 2^r \in Nat
  BY PowBelowWidth
<1>5. (2^(r - l) - 1) * 2^l = 2^r - 2^l
  <2>1. \A p, q \in Int : (p - 1) * q = p * q - q
    OBVIOUS
  <2>. QED BY <1>2, <1>3, <2>1
<1>6. 2^l >= 1 /\ 2^ADDRESS_BITS \in Int
  BY <1>3, <1>1, PowerFacts
<1>. QED BY <1>4, <1>5, <1>6

(* The wrapped value of an int expression is an int.                      *)
LEMMA IntValueInt ==
    ASSUME NEW x \in Int
    PROVE  IntValue(x) \in Int
BY Widths DEF IntValue

(* Every outcome of address_type{1} << d is an address_type value.        *)
LEMMA ShiftOutcomesType ==
    ASSUME NEW d \in Int
    PROVE  ShiftOutcomes(d) \subseteq 0..(2^ADDRESS_BITS - 1)
<1>1. ADDRESS_BITS \in Nat \ {0} /\ d % ADDRESS_BITS \in 0..(ADDRESS_BITS - 1)
  BY Widths
<1>2. \A a \in 0..(ADDRESS_BITS - 1) : 2^a \in 0..(2^ADDRESS_BITS - 1)
  <2> SUFFICES ASSUME NEW a \in 0..(ADDRESS_BITS - 1)
               PROVE  2^a \in 0..(2^ADDRESS_BITS - 1)
    OBVIOUS
  <2>1. 2^a \in Nat \ {0} /\ 2 * 2^a <= 2^ADDRESS_BITS
    BY PowBelowWidth
  <2>2. 2^ADDRESS_BITS \in Nat
    BY Widths, PowerFacts
  <2>. QED BY <2>1, <2>2
<1>3. 2^ADDRESS_BITS \in Nat
  BY <1>1, PowerFacts
<1>. QED BY <1>1, <1>2, <1>3 DEF ShiftOutcomes

(* The body's checks pass exactly when 0 <= w <= l <= r < ADDRESS_BITS.    *)
LEMMA CheckErrorNone ==
    ASSUME NEW r \in Int, NEW l \in Int, NEW w \in Int
    PROVE  /\ CheckError(r, l, w) \in {"none", "out_of_range"}
           /\ CheckError(r, l, w) = "none" <=>
                0 <= w /\ w <= l /\ l <= r /\ r < ADDRESS_BITS
BY Widths DEF CheckError

(***************************************************************************)
(* One construction leaves a tree that has its type and, if the           *)
(* constructor returned it, is sound.  The tree a construction leaves     *)
(* does not depend on the one before, so this needs no invariant.         *)
(***************************************************************************)
LEMMA ConstructStep ==
    ASSUME NEW r \in ParamValues, NEW l \in ParamValues, NEW w \in ParamValues,
           Construct(r, l, w)
    PROVE  TypeOK' /\ ConstructedTreeSound'
<1> DEFINE ub == \/ IntOverflows(r - l) \/ IntOverflows(r - l + 1)
                 \/ IntOverflows(r - w + 1) \/ ShiftUndefined(IntValue(r - l))
           status ==
               IF \/ ContextSize(r, l) > MaxAllocEntries
                  \/ PristineSize(r, w) > MaxAllocEntries THEN "bad_alloc"
               ELSE IF CheckError(r, l, w) # "none" THEN CheckError(r, l, w)
               ELSE "constructed"
<1>1. PICK ml \in ShiftOutcomes(IntValue(r - l)) :
          tree' = [status       |-> status,
                   root         |-> r,
                   leaf         |-> l,
                   word         |-> w,
                   max_leaves   |-> ml,
                   context_size |-> ContextSize(r, l),
                   ub           |-> ub]
  BY DEF Construct
<1>2. r \in IntMin..IntMax /\ l \in IntMin..IntMax /\ w \in IntMin..IntMax
  BY Widths
<1>3. IntValue(r - l) \in Int /\ IntValue(r - l + 1) \in Int
  BY <1>2, IntValueInt, Widths
<1>4. TypeOK'
  <2>1. ml \in 0..(2^ADDRESS_BITS - 1)
    BY <1>1, <1>3, ShiftOutcomesType
  <2>2. ContextSize(r, l) \in Nat
    BY <1>3 DEF ContextSize
  <2>3. status \in {"none", "constructed", "out_of_range", "bad_alloc"}
    BY <1>2, Widths, CheckErrorNone
  <2>4. ub \in BOOLEAN
    BY DEF IntOverflows, ShiftUndefined
  <2>. QED BY <1>1, <2>1, <2>2, <2>3, <2>4 DEF TypeOK
<1>5. ConstructedTreeSound'
  <2> SUFFICES ASSUME status = "constructed"
               PROVE  ConstructedTreeSound'
    BY <1>1 DEF ConstructedTreeSound
  <2>1. 0 <= w /\ w <= l /\ l <= r /\ r < ADDRESS_BITS
    <3>1. CheckError(r, l, w) = "none"
      BY <1>2, Widths, CheckErrorNone
    <3>. QED BY <1>2, Widths, <3>1, CheckErrorNone
  <2>2. /\ r - l \in IntMin..IntMax
        /\ r - l + 1 \in IntMin..IntMax
        /\ r - w + 1 \in IntMin..IntMax
    BY <1>2, <2>1, Widths
  <2>3. IntValue(r - l) = r - l /\ IntValue(r - l + 1) = r - l + 1
    BY <2>2, IntValueFits
  <2>4. ~ub
    BY <1>2, <2>1, <2>2, <2>3, Widths DEF IntOverflows, ShiftUndefined
  <2>5. ml = 2^(r - l)
    BY <1>1, <1>2, <2>1, <2>3, Widths DEF ShiftOutcomes
  <2>6. ContextSize(r, l) = r - l + 1
    BY <1>2, <2>1, <2>3, Widths DEF ContextSize
  <2>7. (2^(r - l) - 1) * 2^l < 2^ADDRESS_BITS
    <3>1. r \in 0..(ADDRESS_BITS - 1) /\ l \in 0..r
      BY <1>2, <2>1, Widths
    <3>. QED BY <3>1, LastLeafFits
  <2>. QED BY <1>1, <2>1, <2>4, <2>5, <2>6, <2>7 DEF ConstructedTreeSound
<1>. QED BY <1>4, <1>5

(* Every state of a run has the type invariant and the soundness one.     *)
LEMMA CtorInvariant ==
    Spec => [](TypeOK /\ ConstructedTreeSound)
<1>1. Init => TypeOK /\ ConstructedTreeSound
  <2>1. 2^ADDRESS_BITS \in Nat \ {0}
    BY Widths, PowerFacts
  <2>. QED BY <2>1 DEF Init, TypeOK, ConstructedTreeSound
<1>2. [Next]_tree /\ (TypeOK /\ ConstructedTreeSound)
        => (TypeOK /\ ConstructedTreeSound)'
  BY ConstructStep DEF Next, TypeOK, ConstructedTreeSound
<1>. QED BY <1>1, <1>2, PTL DEF Spec

(* Type correctness of the constructor, for every int and address width. *)
THEOREM TypeCorrect == Spec => []TypeOK
BY CtorInvariant, PTL

(***************************************************************************)
(* For every width of int and of address_type: a tree the constructor     *)
(* returns was built without undefined behaviour, has m_max_leaves =      *)
(* 2^(root - leaf) and one context entry per height, and the address of   *)
(* its last leaf fits in address_type.  The checks the body makes after   *)
(* the member initializers are enough for every width, not only for the  *)
(* small ones TLC enumerates.                                              *)
(***************************************************************************)
THEOREM ConstructedTreeSoundCorrect == Spec => []ConstructedTreeSound
BY CtorInvariant, PTL

=============================================================================
