------------------------ MODULE BackMerkleTreeProofs ------------------------
(***************************************************************************)
(* Proofs about BackMerkleTree for every value of its constants.          *)
(***************************************************************************)
EXTENDS BackMerkleTree, MerkleProofProofs, TLAPS

(* Depth is a natural number: the tree has at least the root level.       *)
LEMMA DepthType == Depth \in Nat
BY SizesAssumption, LeafSizeAssumption DEF Depth

(***************************************************************************)
(* Type correctness: leaf_count stays within the capacity checked by       *)
(* push_back, the context keeps its depth + 1 entries, the history has    *)
(* one pushed leaf per counted leaf, and every outcome is one the code    *)
(* can produce.                                                            *)
(***************************************************************************)
THEOREM TypeCorrect == Spec => []TypeOK
<1>1. Init => TypeOK
  BY MaxLeavesAssumption DEF Init, TypeOK, Result
<1>2. TypeOK /\ [Next]_vars => TypeOK'
  <2> SUFFICES ASSUME TypeOK, [Next]_vars PROVE TypeOK'
    OBVIOUS
  <2>1. CASE \E leaf \in Leaves : PushBack(leaf)
    <3>1. PICK leaf \in Leaves : PushBack(leaf)
      BY <2>1
    <3>2. CASE /\ leaf_count >= MaxLeaves
               /\ result' = Result("push_back", "out_of_range", NullHash)
               /\ UNCHANGED <<leaf_count, context, leaves>>
      BY <3>2 DEF TypeOK, Result
    <3>3. CASE /\ leaf_count < MaxLeaves
               /\ context' = IF CarryStops = {}
                             THEN context
                             ELSE [context EXCEPT ![CarryStop] = Carry(leaf)[CarryStop]]
               /\ leaf_count' = leaf_count + 1
               /\ leaves' = Append(leaves, leaf)
               /\ result' = Result("push_back", "none", NullHash)
      <4>1. leaf_count' \in 0..MaxLeaves
        BY <3>3, MaxLeavesAssumption DEF TypeOK
      <4>2. DOMAIN context' = 0..Depth
        BY <3>3 DEF TypeOK
      <4>3. leaves' \in Seq(Leaves) /\ Len(leaves') = leaf_count'
        BY <3>3 DEF TypeOK
      <4>4. result'.op \in {"none", "push_back", "get_root_hash", "get_next_leaf_proof"}
            /\ result'.error \in {"none", "out_of_range", "runtime_error"}
        BY <3>3 DEF Result
      <4>. QED BY <4>1, <4>2, <4>3, <4>4 DEF TypeOK
    <3>. QED BY <3>1, <3>2, <3>3 DEF PushBack
  <2>2. CASE GetRootHash
    BY <2>2 DEF GetRootHash, TypeOK, Result
  <2>3. CASE GetNextLeafProof
    BY <2>3 DEF GetNextLeafProof, TypeOK, Result
  <2>4. CASE UNCHANGED vars
    BY <2>4 DEF vars, TypeOK
  <2>. QED BY <2>1, <2>2, <2>3, <2>4 DEF Next
<1>. QED BY <1>1, <1>2, PTL DEF Spec

(* Integer division of a natural by a larger divisor is zero.            *)
LEMMA DivBelowDivisor ==
    ASSUME NEW a \in Nat, NEW b \in Nat \ {0}, a < b
    PROVE  a \div b = 0
BY SMT

(***************************************************************************)
(* push_back never loses a leaf: an accepted push always stores its carry. *)
(* The step that counts a leaf is the accepted push_back, whose guard      *)
(* leaf_count < max_leaves = 2^depth leaves bit depth of leaf_count clear, *)
(* and depth is the last index the loop visits.                            *)
(***************************************************************************)
THEOREM PushStoresCarryCorrect == Spec => PushStoresCarry
<1>1. TypeOK /\ [Next]_vars => [leaf_count' = leaf_count + 1 => CarryStops # {}]_vars
  <2> SUFFICES ASSUME TypeOK, [Next]_vars, leaf_count' = leaf_count + 1
               PROVE  CarryStops # {}
    BY DEF vars
  <2>1. leaf_count < MaxLeaves
    <3>1. CASE \E leaf \in Leaves : PushBack(leaf)
      BY <3>1, MaxLeavesAssumption DEF PushBack, TypeOK
    <3>2. CASE GetRootHash \/ GetNextLeafProof \/ UNCHANGED vars
      BY <3>2, MaxLeavesAssumption DEF GetRootHash, GetNextLeafProof, vars, TypeOK
    <3>. QED BY <3>1, <3>2 DEF Next
  <2>2. leaf_count \div 2^Depth = 0
    BY <2>1, DivBelowDivisor, MaxLeavesAssumption DEF TypeOK, MaxLeaves
  <2>3. Depth \in CarryStops
    BY <2>2, DepthType DEF CarryStops, Bit
  <2>. QED BY <2>3
<1>. QED BY <1>1, TypeCorrect, PTL DEF Spec, PushStoresCarry

-----------------------------------------------------------------------------
(***************************************************************************)
(* The reference tree over any sequence of leaves: NodeOf(leaves) is       *)
(* RefNode, NodeOf(leaves') is RefNode in the next state.                  *)
(***************************************************************************)
LeafOf(lv, p) == IF p < Len(lv) THEN lv[p + 1] ELSE PristineLeaf

NodeOf(lv) ==
    LET node[h \in 0..Depth] ==
            IF h = 0
            THEN [j \in 0..(MaxLeaves - 1) |-> LeafOf(lv, j)]
            ELSE [j \in 0..(2^(Depth - h) - 1) |->
                    GetConcatHash(node[h - 1][2 * j], node[h - 1][2 * j + 1])]
    IN  node

(* The step of the recursion that builds level h from level h - 1.        *)
NodeStep(v, h) ==
    [j \in 0..(2^(Depth - h) - 1) |-> GetConcatHash(v[2 * j], v[2 * j + 1])]

LEMMA RefNodeIsNodeOf == RefNode = NodeOf(leaves) /\ RefNode' = NodeOf(leaves')
BY DEF RefNode, NodeOf, LeafAt, LeafOf

LEMMA NodeOfDef ==
    ASSUME NEW lv
    PROVE  NodeOf(lv) =
             [h \in 0..Depth |->
                IF h = 0
                THEN [j \in 0..(MaxLeaves - 1) |-> LeafOf(lv, j)]
                ELSE NodeStep(NodeOf(lv)[h - 1], h)]
<1>1. FiniteNatInductiveDefHypothesis(NodeOf(lv),
          [j \in 0..(MaxLeaves - 1) |-> LeafOf(lv, j)], NodeStep, 0, Depth)
  BY DEF FiniteNatInductiveDefHypothesis, NodeOf, NodeStep
<1>2. FiniteNatInductiveDefConclusion(NodeOf(lv),
          [j \in 0..(MaxLeaves - 1) |-> LeafOf(lv, j)], NodeStep, 0, Depth)
  BY <1>1, DepthType, FiniteNatInductiveDef
<1>. QED BY <1>2 DEF FiniteNatInductiveDefConclusion

(* Level 0 holds the leaves, padded with pristine leaves.                *)
LEMMA NodeLeaf ==
    ASSUME NEW lv, NEW j \in 0..(MaxLeaves - 1)
    PROVE  NodeOf(lv)[0][j] = LeafOf(lv, j)
<1>1. 0 \in 0..Depth
  BY DepthType
<1>2. NodeOf(lv)[0] = [i \in 0..(MaxLeaves - 1) |-> LeafOf(lv, i)]
  BY <1>1, NodeOfDef, Zenon
<1>. QED BY <1>2

(* A node above level 0 is the hash of its two children.                 *)
LEMMA NodeUp ==
    ASSUME NEW lv, NEW h \in 1..Depth, NEW j \in 0..(2^(Depth - h) - 1)
    PROVE  NodeOf(lv)[h][j] =
             GetConcatHash(NodeOf(lv)[h - 1][2 * j], NodeOf(lv)[h - 1][2 * j + 1])
<1>1. h \in 0..Depth /\ h # 0
  BY DepthType
<1>2. NodeOf(lv)[h] = NodeStep(NodeOf(lv)[h - 1], h)
  BY <1>1, NodeOfDef
<1>. QED BY <1>2, Zenon DEF NodeStep

(***************************************************************************)
(* The widths of the levels: level h of the tree has 2^(depth - h) nodes,  *)
(* twice as many as level h + 1, and each of its nodes spans 2^h leaves.   *)
(***************************************************************************)
LEMMA LevelWidths ==
    /\ \A h \in 0..Depth : 2^(Depth - h) \in Nat \ {0}
    /\ \A h \in 0..(Depth - 1) : 2^(Depth - h) = 2 * 2^(Depth - (h + 1))
    /\ \A h \in 0..(Depth + 1) : 2^h \in Nat \ {0}
    /\ \A h \in 0..Depth : 2^(h + 1) = 2 * 2^h
    /\ 2^(Depth - 0) = MaxLeaves /\ 2^0 = 1
<1>1. Depth \in 0..LOG2_ROOT_SIZE
  BY DepthType, SizesAssumption, LeafSizeAssumption DEF Depth
<1>2. \A h \in 0..Depth : Depth - h \in 0..(LOG2_ROOT_SIZE + 1)
  BY <1>1, DepthType, SizesAssumption
<1>3. \A h \in 0..(Depth - 1) : Depth - (h + 1) \in 0..LOG2_ROOT_SIZE
                                  /\ Depth - h = (Depth - (h + 1)) + 1
  BY <1>1, DepthType, SizesAssumption
<1>4. \A h \in 0..(Depth + 1) : h \in 0..(LOG2_ROOT_SIZE + 1)
  BY <1>1, DepthType, SizesAssumption
<1>5. \A h \in 0..Depth : h \in 0..LOG2_ROOT_SIZE
  BY <1>1, DepthType, SizesAssumption
<1>6. Depth - 0 = Depth
  BY <1>1
<1>7. \A h \in 0..Depth : 2^(Depth - h) \in Nat \ {0}
  BY <1>2, PowPos, Zenon
<1>8. ASSUME NEW h \in 0..(Depth - 1) PROVE 2^(Depth - h) = 2 * 2^(Depth - (h + 1))
  <2>1. Depth - (h + 1) \in 0..LOG2_ROOT_SIZE /\ Depth - h = (Depth - (h + 1)) + 1
    BY <1>3
  <2>2. 2^((Depth - (h + 1)) + 1) = 2 * 2^(Depth - (h + 1))
    BY <2>1, PowerAssumption, Zenon
  <2>. QED BY <2>1, <2>2, Zenon
<1>9. \A h \in 0..(Depth + 1) : 2^h \in Nat \ {0}
  BY <1>4, PowPos, Zenon
<1>10. \A h \in 0..Depth : 2^(h + 1) = 2 * 2^h
  BY <1>5, PowerAssumption, Zenon
<1>11. 2^(Depth - 0) = MaxLeaves /\ 2^0 = 1
  BY <1>6, PowerAssumption, Zenon DEF MaxLeaves
<1>. QED BY <1>7, <1>8, <1>9, <1>10, <1>11

(***************************************************************************)
(* A node depends only on the leaves under it: node j of level h spans the *)
(* leaves j * 2^h to (j + 1) * 2^h - 1, and two leaf sequences that agree  *)
(* there give it the same hash.                                            *)
(***************************************************************************)
LocalAt(lv1, lv2, h) ==
    \A j \in 0..(2^(Depth - h) - 1) :
        (\A p \in (j * 2^h)..((j + 1) * 2^h - 1) : LeafOf(lv1, p) = LeafOf(lv2, p))
            => NodeOf(lv1)[h][j] = NodeOf(lv2)[h][j]

LEMMA NodeLocal ==
    ASSUME NEW lv1, NEW lv2
    PROVE  \A h \in 0..Depth : LocalAt(lv1, lv2, h)
<1> DEFINE S == {h \in Nat : LocalAt(lv1, lv2, h)}
<1>1. 0 \in S
  <2> SUFFICES ASSUME NEW j \in 0..(2^(Depth - 0) - 1),
                      \A p \in (j * 2^0)..((j + 1) * 2^0 - 1) :
                          LeafOf(lv1, p) = LeafOf(lv2, p)
               PROVE  NodeOf(lv1)[0][j] = NodeOf(lv2)[0][j]
    BY DEF LocalAt
  <2>1. j \in 0..(MaxLeaves - 1) /\ j \in (j * 2^0)..((j + 1) * 2^0 - 1)
    BY LevelWidths
  <2>. QED BY <2>1, NodeLeaf
<1>2. ASSUME NEW h \in 0..(Depth - 1), h \in S
      PROVE  h + 1 \in S
  <2> DEFINE x == 2^h  y == 2^(h + 1)  w == 2^(Depth - h)  w1 == 2^(Depth - (h + 1))
  <2>1. x \in Nat \ {0} /\ y = 2 * x /\ w1 \in Nat \ {0} /\ w = 2 * w1
    BY LevelWidths, DepthType
  <2>2. LocalAt(lv1, lv2, h)
    BY <1>2
  <2> HIDE DEF x, y, w, w1
  <2> SUFFICES ASSUME NEW j \in 0..(w1 - 1),
                      \A p \in (j * y)..((j + 1) * y - 1) :
                          LeafOf(lv1, p) = LeafOf(lv2, p)
               PROVE  NodeOf(lv1)[h + 1][j] = NodeOf(lv2)[h + 1][j]
    BY DepthType DEF LocalAt, x, y, w, w1
  <2>3. 2 * j \in 0..(w - 1) /\ 2 * j + 1 \in 0..(w - 1)
    BY <2>1
  <2>4. /\ (2 * j * x)..((2 * j + 1) * x - 1) \subseteq (j * y)..((j + 1) * y - 1)
        /\ ((2 * j + 1) * x)..((2 * j + 1 + 1) * x - 1) \subseteq (j * y)..((j + 1) * y - 1)
    BY <2>1
  <2>5. NodeOf(lv1)[h][2 * j] = NodeOf(lv2)[h][2 * j]
        /\ NodeOf(lv1)[h][2 * j + 1] = NodeOf(lv2)[h][2 * j + 1]
    BY <2>2, <2>3, <2>4 DEF LocalAt, x, w
  <2>6. h + 1 \in 1..Depth /\ h + 1 - 1 = h /\ j \in 0..(2^(Depth - (h + 1)) - 1)
    BY DepthType DEF w1
  <2>. QED BY <2>5, <2>6, NodeUp
<1>3. 0..Depth \subseteq S
  <2>1. InductiveOn(S, 0, Depth)
    BY <1>1, <1>2 DEF InductiveOn
  <2>2. 0 \in Nat /\ Depth \in Int
    BY DepthType
  <2> HIDE DEF S
  <2>. QED BY <2>1, <2>2, IntervalInduction
<1>. QED BY <1>3

(***************************************************************************)
(* A node all of whose leaves lie past the pushed ones is the pristine     *)
(* hash of its height, log2_leaf_size + h.                                 *)
(***************************************************************************)
PristineAt(lv, h) ==
    \A j \in 0..(2^(Depth - h) - 1) :
        Len(lv) <= j * 2^h => NodeOf(lv)[h][j] = PristineHash[LOG2_LEAF_SIZE + h]

LEMMA NodePristine ==
    ASSUME NEW lv \in Seq(Leaves)
    PROVE  \A h \in 0..Depth : PristineAt(lv, h)
<1> DEFINE S == {h \in Nat : PristineAt(lv, h)}
<1>0. LOG2_WORD_SIZE <= LOG2_LEAF_SIZE /\ LOG2_LEAF_SIZE + Depth = LOG2_ROOT_SIZE
      /\ LOG2_LEAF_SIZE \in Nat /\ Depth \in Nat /\ Len(lv) \in Nat
  BY LeafSizeAssumption, SizesAssumption DEF Depth
<1>1. 0 \in S
  <2> SUFFICES ASSUME NEW j \in 0..(2^(Depth - 0) - 1), Len(lv) <= j * 2^0
               PROVE  NodeOf(lv)[0][j] = PristineHash[LOG2_LEAF_SIZE + 0]
    BY DEF PristineAt
  <2>1. j \in 0..(MaxLeaves - 1) /\ ~(j < Len(lv)) /\ LOG2_LEAF_SIZE + 0 = LOG2_LEAF_SIZE
    BY <1>0, LevelWidths
  <2>. QED BY <2>1, NodeLeaf DEF LeafOf, PristineLeaf
<1>2. ASSUME NEW h \in 0..(Depth - 1), h \in S
      PROVE  h + 1 \in S
  <2> DEFINE x == 2^h  y == 2^(h + 1)  w == 2^(Depth - h)  w1 == 2^(Depth - (h + 1))
             k == LOG2_LEAF_SIZE + h
  <2>1. x \in Nat \ {0} /\ y = 2 * x /\ w1 \in Nat \ {0} /\ w = 2 * w1
    BY LevelWidths, DepthType
  <2>2. PristineAt(lv, h)
    BY <1>2
  <2>3. /\ k + 1 \in LOG2_WORD_SIZE..LOG2_ROOT_SIZE /\ k + 1 # LOG2_WORD_SIZE
        /\ k + 1 - 1 = k /\ LOG2_LEAF_SIZE + (h + 1) = k + 1
    BY <1>0, SizesAssumption
  <2>4. PristineHash[k + 1] = GetConcatHash(PristineHash[k], PristineHash[k])
    <3>0. k + 1 \in (LOG2_WORD_SIZE + 1)..LOG2_ROOT_SIZE /\ k \in Int
      BY <1>0, <2>3, SizesAssumption, LeafSizeAssumption, DepthType
    <3> DEFINE m == k + 1
    <3>1. m \in (LOG2_WORD_SIZE + 1)..LOG2_ROOT_SIZE /\ m - 1 = k
      BY <3>0
    <3> HIDE DEF m, k
    <3>2. PristineHash[m] = GetConcatHash(PristineHash[m - 1], PristineHash[m - 1])
      BY <3>1, PristineUp, Zenon
    <3>. QED BY <3>1, <3>2 DEF m
  <2> HIDE DEF x, y, w, w1, k
  <2> SUFFICES ASSUME NEW j \in 0..(w1 - 1), Len(lv) <= j * y
               PROVE  NodeOf(lv)[h + 1][j] = PristineHash[k + 1]
    BY <2>3 DEF PristineAt, y, w1
  <2>5. 2 * j \in 0..(w - 1) /\ 2 * j + 1 \in 0..(w - 1)
        /\ Len(lv) <= (2 * j) * x /\ Len(lv) <= (2 * j + 1) * x
    BY <2>1, <1>0
  <2>6. NodeOf(lv)[h][2 * j] = PristineHash[k] /\ NodeOf(lv)[h][2 * j + 1] = PristineHash[k]
    BY <2>2, <2>5 DEF PristineAt, x, w, k
  <2>7. h + 1 \in 1..Depth /\ h + 1 - 1 = h /\ j \in 0..(2^(Depth - (h + 1)) - 1)
    BY DepthType DEF w1
  <2>. QED BY <2>4, <2>6, <2>7, NodeUp
<1>3. 0..Depth \subseteq S
  <2>1. InductiveOn(S, 0, Depth)
    BY <1>1, <1>2 DEF InductiveOn
  <2>2. 0 \in Nat /\ Depth \in Int
    BY DepthType
  <2> HIDE DEF S
  <2>. QED BY <2>1, <2>2, IntervalInduction
<1>. QED BY <1>3

-----------------------------------------------------------------------------
(***************************************************************************)
(* The arithmetic of the binary counter leaf_count.                        *)
(***************************************************************************)

(* The quotient step of DivPowStep, at every level of the tree.           *)
LEMMA DivLevel ==
    ASSUME NEW n \in Nat, NEW i \in 0..Depth
    PROVE  /\ n \div 2^(i + 1) = (n \div 2^i) \div 2
           /\ n \div 2^i = 2 * (n \div 2^(i + 1)) + (IF Bit(n, i) THEN 1 ELSE 0)
<1>1. i \in 0..LOG2_ROOT_SIZE
  BY DepthType, SizesAssumption, LeafSizeAssumption DEF Depth
<1>. QED BY <1>1, DivPowStep, Zenon

(***************************************************************************)
(* A count below max_leaves = 2^depth names, at level i, one of the        *)
(* 2^(depth - i) nodes: the node n \div 2^i that holds position n.         *)
(***************************************************************************)
LEMMA QuotientRange ==
    ASSUME NEW n \in 0..(MaxLeaves - 1)
    PROVE  \A i \in 0..Depth : n \div 2^i \in 0..(2^(Depth - i) - 1)
<1> DEFINE S == {i \in Nat : n \div 2^i \in 0..(2^(Depth - i) - 1)}
<1>1. 0 \in S
  <2>1. 2^(Depth - 0) = MaxLeaves /\ 2^0 = 1 /\ MaxLeaves \in Nat \ {0}
    BY LevelWidths, MaxLeavesAssumption
  <2>. QED BY <2>1
<1>2. ASSUME NEW i \in 0..(Depth - 1), i \in S
      PROVE  i + 1 \in S
  <2> DEFINE q == n \div 2^i  q1 == n \div 2^(i + 1)
             w == 2^(Depth - i)  w1 == 2^(Depth - (i + 1))
  <2>1. i \in 0..Depth /\ n \in Nat
    BY DepthType, MaxLeavesAssumption
  <2>2. q1 = q \div 2
    BY <2>1, DivLevel
  <2>3. w = 2 * w1 /\ w1 \in Nat \ {0}
    BY LevelWidths, DepthType
  <2>4. q \in 0..(w - 1)
    BY <1>2
  <2> HIDE DEF q, q1, w, w1
  <2>5. q1 \in 0..(w1 - 1)
    BY <2>2, <2>3, <2>4
  <2>. QED BY <2>5 DEF S, q1, w1
<1>3. 0..Depth \subseteq S
  <2>1. InductiveOn(S, 0, Depth)
    BY <1>1, <1>2 DEF InductiveOn
  <2>2. 0 \in Nat /\ Depth \in Int
    BY DepthType
  <2> HIDE DEF S
  <2>. QED BY <2>1, <2>2, IntervalInduction
<1>. QED BY <1>3

(***************************************************************************)
(* Adding one to n carries through its low set bits 0..k-1: the quotient  *)
(* by 2^i grows by one at every level up to the first clear bit k.        *)
(***************************************************************************)
LEMMA CarryUp ==
    ASSUME NEW n \in Nat, NEW k \in 0..Depth, \A j \in 0..(k - 1) : Bit(n, j)
    PROVE  \A i \in 0..k : (n + 1) \div 2^i = n \div 2^i + 1
<1> DEFINE S == {i \in Nat : (n + 1) \div 2^i = n \div 2^i + 1}
<1>1. 0 \in S
  <2>1. 2^0 = 1
    BY LevelWidths
  <2>. QED BY <2>1
<1>2. ASSUME NEW i \in 0..(k - 1), i \in S
      PROVE  i + 1 \in S
  <2> DEFINE m == n + 1  x == 2^i  y == 2^(i + 1)
             q == n \div x  q1 == n \div y  r == m \div x  r1 == m \div y
  <2>1. i \in 0..Depth /\ m \in Nat /\ Bit(n, i)
    BY DepthType
  <2>2. q1 = q \div 2 /\ q = 2 * q1 + 1
    BY <2>1, DivLevel
  <2>3. r1 = r \div 2
    BY <2>1, DivLevel, Zenon
  <2>4. r = q + 1
    BY <1>2
  <2>5. x \in Nat \ {0} /\ y \in Nat \ {0}
    BY <2>1, LevelWidths, DepthType
  <2> HIDE DEF m, x, y
  <2>6. q1 \in Int
    BY <2>5, DivBounds
  <2> HIDE DEF q, q1, r, r1
  <2>7. r1 = q1 + 1
    BY <2>2, <2>3, <2>4, <2>6
  <2>. QED BY <2>7 DEF S, m, y, q1, r1
<1>3. 0..k \subseteq S
  <2>1. InductiveOn(S, 0, k)
    BY <1>1, <1>2 DEF InductiveOn
  <2> HIDE DEF S
  <2>. QED BY <2>1, IntervalInduction
<1>. QED BY <1>3

(***************************************************************************)
(* Above the first clear bit k of n the carry has stopped: n + 1 and n     *)
(* have the same quotient by 2^i for every i > k.                         *)
(***************************************************************************)
LEMMA CarryAbove ==
    ASSUME NEW n \in Nat, NEW k \in 0..Depth,
           \A j \in 0..(k - 1) : Bit(n, j), ~Bit(n, k)
    PROVE  \A i \in (k + 1)..(Depth + 1) : (n + 1) \div 2^i = n \div 2^i
<1> DEFINE S == {i \in Nat : (n + 1) \div 2^i = n \div 2^i}
<1>1. k + 1 \in S
  <2> DEFINE m == n + 1  x == 2^k  y == 2^(k + 1)
             q == n \div x  q1 == n \div y  r == m \div x  r1 == m \div y
  <2>1. k \in 0..Depth /\ m \in Nat
    BY DepthType
  <2>2. q1 = q \div 2 /\ q = 2 * q1
    BY <2>1, DivLevel
  <2>3. r1 = r \div 2
    BY <2>1, DivLevel, Zenon
  <2>4. r = q + 1
    BY CarryUp
  <2>5. x \in Nat \ {0} /\ y \in Nat \ {0}
    BY <2>1, LevelWidths, DepthType
  <2> HIDE DEF m, x, y
  <2>6. q1 \in Int
    BY <2>5, DivBounds
  <2> HIDE DEF q, q1, r, r1
  <2>7. r1 = q1
    BY <2>2, <2>3, <2>4, <2>6
  <2>. QED BY <2>7 DEF S, m, y, q1, r1
<1>2. ASSUME NEW i \in (k + 1)..Depth, i \in S
      PROVE  i + 1 \in S
  <2> DEFINE m == n + 1
  <2>1. i \in 0..Depth /\ m \in Nat
    BY DepthType
  <2>2. n \div 2^(i + 1) = (n \div 2^i) \div 2
    BY <2>1, DivLevel
  <2>3. m \div 2^(i + 1) = (m \div 2^i) \div 2
    BY <2>1, DivLevel, Zenon
  <2>4. m \div 2^i = n \div 2^i
    BY <1>2
  <2>5. i + 1 \in Nat
    BY <2>1
  <2> DEFINE x == 2^i  y == 2^(i + 1)
  <2> HIDE DEF m, x, y
  <2>6. m \div y = n \div y
    BY <2>2, <2>3, <2>4 DEF x, y
  <2>. QED BY <2>5, <2>6 DEF S, m, y
<1>3. (k + 1)..(Depth + 1) \subseteq S
  <2>1. InductiveOn(S, k + 1, Depth + 1)
    BY <1>1, <1>2, DepthType DEF InductiveOn
  <2>2. k + 1 \in Nat /\ Depth + 1 \in Int
    BY DepthType
  <2> HIDE DEF S
  <2>. QED BY <2>1, <2>2, IntervalInduction
<1>. QED BY <1>3

(***************************************************************************)
(* The bits of n + 1 when bits 0..k-1 of n are set and bit k is clear:    *)
(* bits 0..k-1 clear, bit k set, the higher bits and quotients unchanged. *)
(* These are the cases of push_back's carry loop.                         *)
(***************************************************************************)
LEMMA CarryBits ==
    ASSUME NEW n \in Nat, NEW k \in 0..Depth,
           \A j \in 0..(k - 1) : Bit(n, j), ~Bit(n, k)
    PROVE  /\ \A i \in 0..(k - 1) : ~Bit(n + 1, i)
           /\ Bit(n + 1, k)
           /\ \A i \in (k + 1)..Depth : Bit(n + 1, i) = Bit(n, i)
           /\ ((n + 1) \div 2^(k + 1)) * 2 = n \div 2^k
           /\ \A i \in k..Depth : (n + 1) \div 2^(i + 1) = n \div 2^(i + 1)
<1>1. ASSUME NEW i \in 0..(k - 1) PROVE ~Bit(n + 1, i)
  <2> DEFINE x == 2^i  q == n \div x  q1 == n \div 2^(i + 1)  r == (n + 1) \div x
  <2>1. i \in 0..Depth /\ Bit(n, i) /\ i \in 0..k
    BY DepthType
  <2>2. q = 2 * q1 + 1
    BY <2>1, DivLevel
  <2>3. r = q + 1
    BY <2>1, CarryUp
  <2>4. x \in Nat \ {0} /\ 2^(i + 1) \in Nat \ {0}
    BY <2>1, LevelWidths, DepthType
  <2>5. q1 \in Int
    BY <2>4, DivBounds
  <2> HIDE DEF x, q, q1, r
  <2>6. r % 2 # 1
    BY <2>2, <2>3, <2>5
  <2>. QED BY <2>6 DEF Bit, x, r
<1>2. Bit(n + 1, k)
  <2> DEFINE x == 2^k  q == n \div x  q1 == n \div 2^(k + 1)  r == (n + 1) \div x
  <2>1. k \in 0..Depth /\ k \in 0..k
    BY DepthType
  <2>2. q = 2 * q1
    BY <2>1, DivLevel
  <2>3. r = q + 1
    BY <2>1, CarryUp
  <2>4. x \in Nat \ {0} /\ 2^(k + 1) \in Nat \ {0}
    BY <2>1, LevelWidths, DepthType
  <2>5. q1 \in Int
    BY <2>4, DivBounds
  <2> HIDE DEF x, q, q1, r
  <2>6. r % 2 = 1
    BY <2>2, <2>3, <2>5
  <2>. QED BY <2>6 DEF Bit, x, r
<1>3. ASSUME NEW i \in (k + 1)..Depth PROVE Bit(n + 1, i) = Bit(n, i)
  <2>1. i \in (k + 1)..(Depth + 1)
    BY DepthType
  <2>2. (n + 1) \div 2^i = n \div 2^i
    BY <2>1, CarryAbove
  <2>. QED BY <2>2 DEF Bit
<1>4. ((n + 1) \div 2^(k + 1)) * 2 = n \div 2^k
  <2> DEFINE q == n \div 2^k  q1 == n \div 2^(k + 1)  r1 == (n + 1) \div 2^(k + 1)
  <2>1. k \in 0..Depth /\ k + 1 \in (k + 1)..(Depth + 1)
    BY DepthType
  <2>2. q = 2 * q1
    BY <2>1, DivLevel
  <2>3. r1 = q1
    BY <2>1, CarryAbove
  <2>4. 2^(k + 1) \in Nat \ {0}
    BY <2>1, LevelWidths, DepthType
  <2>5. q1 \in Int
    BY <2>4, DivBounds
  <2> HIDE DEF q, q1, r1
  <2>. QED BY <2>2, <2>3, <2>5 DEF q, r1
<1>5. ASSUME NEW i \in k..Depth PROVE (n + 1) \div 2^(i + 1) = n \div 2^(i + 1)
  <2>1. i + 1 \in (k + 1)..(Depth + 1)
    BY DepthType
  <2>. QED BY <2>1, CarryAbove, Zenon
<1>. QED BY <1>1, <1>2, <1>3, <1>4, <1>5

-----------------------------------------------------------------------------
(***************************************************************************)
(* The definitions push_back and get_root_hash are built from.             *)
(***************************************************************************)

(* The loop of push_back breaks at the least clear bit of leaf_count.     *)
LEMMA CarryStopFacts ==
    ASSUME leaf_count \in Nat, CarryStops # {}
    PROVE  /\ CarryStop \in 0..Depth
           /\ ~Bit(leaf_count, CarryStop)
           /\ \A j \in 0..(CarryStop - 1) : Bit(leaf_count, j)
<1>1. CarryStops \in SUBSET Nat
  BY DepthType DEF CarryStops
<1>2. PICK x \in CarryStops : \A y \in CarryStops : ~(y < x)
  BY <1>1, LeastNat
<1>3. \A j \in 0..(x - 1) : Bit(leaf_count, j)
  BY <1>2, DepthType DEF CarryStops
<1>4. \E i \in CarryStops : \A j \in 0..(i - 1) : Bit(leaf_count, j)
  BY <1>2, <1>3
<1>5. CarryStop \in CarryStops /\ \A j \in 0..(CarryStop - 1) : Bit(leaf_count, j)
  BY <1>4 DEF CarryStop
<1>. QED BY <1>5 DEF CarryStops

(* One iteration of push_back's loop while the bit is set.                *)
CarryStep(v, i) == GetConcatHash(context[i - 1], v)

LEMMA CarryDef ==
    ASSUME NEW leaf
    PROVE  Carry(leaf) = [i \in 0..Depth |->
                            IF i = 0 THEN leaf ELSE CarryStep(Carry(leaf)[i - 1], i)]
<1>1. FiniteNatInductiveDefHypothesis(Carry(leaf), leaf, CarryStep, 0, Depth)
  BY DEF FiniteNatInductiveDefHypothesis, Carry, CarryStep
<1>2. FiniteNatInductiveDefConclusion(Carry(leaf), leaf, CarryStep, 0, Depth)
  BY <1>1, DepthType, FiniteNatInductiveDef
<1>. QED BY <1>2 DEF FiniteNatInductiveDefConclusion

(* One level of the fold of get_root_hash and get_next_leaf_proof.        *)
RootStep(v, i) ==
    IF Bit(leaf_count, i - 1)
    THEN GetConcatHash(Sibling(i - 1), v)
    ELSE GetConcatHash(v, Sibling(i - 1))

LEMMA RootFoldDef ==
    RootFold = [i \in 0..Depth |->
                  IF i = 0 THEN PristineLeaf ELSE RootStep(RootFold[i - 1], i)]
<1>1. FiniteNatInductiveDefHypothesis(RootFold, PristineLeaf, RootStep, 0, Depth)
  BY DEF FiniteNatInductiveDefHypothesis, RootFold, RootStep
<1>2. FiniteNatInductiveDefConclusion(RootFold, PristineLeaf, RootStep, 0, Depth)
  BY <1>1, DepthType, FiniteNatInductiveDef
<1>. QED BY <1>2 DEF FiniteNatInductiveDefConclusion

(***************************************************************************)
(* Appending a leaf changes no node that lies wholly below the old count.  *)
(***************************************************************************)
LEMMA PrefixLocal ==
    ASSUME NEW lv \in Seq(Leaves), NEW leaf, NEW i \in 0..Depth,
           NEW j \in 0..(2^(Depth - i) - 1), (j + 1) * 2^i <= Len(lv)
    PROVE  NodeOf(lv)[i][j] = NodeOf(Append(lv, leaf))[i][j]
<1> DEFINE lv2 == Append(lv, leaf)  x == 2^i
<1>1. LocalAt(lv, lv2, i)
  BY NodeLocal
<1>2. x \in Nat \ {0} /\ j \in Nat /\ Len(lv) \in Nat
  BY LevelWidths, DepthType
<1>3. ASSUME NEW p \in (j * x)..((j + 1) * x - 1) PROVE LeafOf(lv, p) = LeafOf(lv2, p)
  <2>1. p \in 0..(Len(lv) - 1)
    BY <1>2
  <2>. QED BY <2>1 DEF LeafOf, lv2
<1> HIDE DEF lv2, x
<1>4. \A p \in (j * 2^i)..((j + 1) * 2^i - 1) : LeafOf(lv, p) = LeafOf(lv2, p)
  BY <1>3 DEF x
<1>. QED BY <1>1, <1>4, Zenon DEF LocalAt, lv2

-----------------------------------------------------------------------------
(***************************************************************************)
(* push_back below capacity always finds a clear bit: bit depth of a count *)
(* below 2^depth is clear.                                                 *)
(***************************************************************************)
LEMMA CarryStopsNonEmpty ==
    ASSUME leaf_count \in 0..(MaxLeaves - 1)
    PROVE  CarryStops # {}
<1>1. leaf_count \div 2^Depth = 0
  BY DivBelowDivisor, MaxLeavesAssumption DEF MaxLeaves
<1>2. ~Bit(leaf_count, Depth)
  BY <1>1 DEF Bit
<1>. QED BY <1>2, DepthType DEF CarryStops

(***************************************************************************)
(* The carry of push_back: under the spine invariant, the value right      *)
(* holds on entering iteration i (i up to the break) is the node of level  *)
(* i that contains the new leaf, in the tree with the leaf appended.       *)
(***************************************************************************)
LEMMA CarryNode ==
    ASSUME TypeOK, Spine, leaf_count < MaxLeaves, NEW leaf \in Leaves
    PROVE  \A i \in 0..CarryStop :
               Carry(leaf)[i] = NodeOf(Append(leaves, leaf))[i][leaf_count \div 2^i]
<1> DEFINE n == leaf_count  k == CarryStop  lv2 == Append(leaves, leaf)
<1>0. /\ n \in 0..(MaxLeaves - 1) /\ Len(leaves) = n /\ leaves \in Seq(Leaves)
      /\ k \in 0..Depth /\ \A j \in 0..(k - 1) : Bit(n, j)
  <2>1. n \in 0..(MaxLeaves - 1)
    BY MaxLeavesAssumption DEF TypeOK
  <2>2. CarryStops # {}
    BY <2>1, CarryStopsNonEmpty
  <2>. QED BY <2>1, <2>2, CarryStopFacts DEF TypeOK
<1> DEFINE S == {i \in Nat : Carry(leaf)[i] = NodeOf(lv2)[i][n \div 2^i]}
<1>1. 0 \in S
  <2>1. 0 \in 0..Depth /\ 2^0 = 1 /\ n \in 0..(MaxLeaves - 1)
    BY <1>0, DepthType, LevelWidths
  <2>2. Carry(leaf)[0] = leaf
    BY <2>1, CarryDef
  <2>3. NodeOf(lv2)[0][n] = LeafOf(lv2, n)
    BY <2>1, NodeLeaf
  <2>4. LeafOf(lv2, n) = leaf
    BY <1>0 DEF LeafOf, lv2
  <2>. QED BY <2>1, <2>2, <2>3, <2>4
<1>2. ASSUME NEW i \in 0..(k - 1), i \in S
      PROVE  i + 1 \in S
  <2> DEFINE x == 2^i  q == n \div x  q1 == n \div 2^(i + 1)
             w == 2^(Depth - i)  w1 == 2^(Depth - (i + 1))
  <2>1. /\ i \in 0..Depth /\ i + 1 \in 0..Depth /\ i + 1 \in 1..Depth
        /\ i + 1 # 0 /\ i + 1 - 1 = i /\ Bit(n, i) /\ n \in Nat
    BY <1>0, DepthType
  <2>2. q = 2 * q1 + 1
    BY <2>1, DivLevel
  <2>3. q1 \in 0..(w1 - 1) /\ q \in 0..(w - 1)
    <3>1. \A h \in 0..Depth : n \div 2^h \in 0..(2^(Depth - h) - 1)
      BY <1>0, QuotientRange
    <3>. QED BY <2>1, <3>1, Zenon
  <2>4. x \in Nat \ {0} /\ w = 2 * w1 /\ w1 \in Nat \ {0}
    BY <2>1, LevelWidths, DepthType
  <2>12. x * q <= n
    <3> HIDE DEF x
    <3>. QED BY <2>1, <2>4, DivBounds DEF q
  <2>5. Carry(leaf)[i + 1] = GetConcatHash(context[i], Carry(leaf)[i])
    <3> DEFINE m == i + 1
    <3>1. m \in 0..Depth /\ m # 0 /\ m - 1 = i
      BY <2>1
    <3> HIDE DEF m
    <3>2. Carry(leaf)[m] = CarryStep(Carry(leaf)[m - 1], m)
      BY <3>1, CarryDef
    <3>. QED BY <3>1, <3>2 DEF CarryStep, m
  <2>6. context[i] = NodeOf(leaves)[i][q1 * 2]
    BY <2>1, RefNodeIsNodeOf DEF Spine
  <2>7. Carry(leaf)[i] = NodeOf(lv2)[i][q]
    BY <1>2
  <2>8. NodeOf(lv2)[i + 1][q1] =
          GetConcatHash(NodeOf(lv2)[i][2 * q1], NodeOf(lv2)[i][2 * q1 + 1])
    <3> DEFINE m == i + 1
    <3>1. m \in 1..Depth /\ m - 1 = i /\ q1 \in 0..(2^(Depth - m) - 1)
      BY <2>1, <2>3
    <3> HIDE DEF m, q1
    <3>2. NodeOf(lv2)[m][q1] =
            GetConcatHash(NodeOf(lv2)[m - 1][2 * q1], NodeOf(lv2)[m - 1][2 * q1 + 1])
      BY <3>1, NodeUp
    <3>. QED BY <3>1, <3>2 DEF m
  <2> HIDE DEF x, q, q1, w, w1
  <2>9. 2 * q1 \in 0..(2^(Depth - i) - 1) /\ (2 * q1 + 1) * 2^i <= Len(leaves)
    BY <1>0, <2>2, <2>3, <2>4, <2>12 DEF x, w
  <2>10. NodeOf(leaves)[i][2 * q1] = NodeOf(lv2)[i][2 * q1]
    BY <1>0, <2>1, <2>9, PrefixLocal
  <2>11. q1 * 2 = 2 * q1 /\ 2 * q1 + 1 = q
    BY <2>2, <2>3
  <2>. QED BY <2>5, <2>6, <2>7, <2>8, <2>10, <2>11, <2>1 DEF S, q1
<1>3. 0..k \subseteq S
  <2>1. InductiveOn(S, 0, k)
    BY <1>1, <1>2 DEF InductiveOn
  <2>2. k \in Int
    BY <1>0
  <2> HIDE DEF S
  <2>. QED BY <2>1, <2>2, IntervalInduction
<1>. QED BY <1>3

-----------------------------------------------------------------------------
(***************************************************************************)
(* The spine invariant for every value of the constants.  Spine alone is   *)
(* not inductive: its proof needs TypeOK, for the count's bound and the    *)
(* history's length, and TypeOK is an invariant by TypeCorrect.            *)
(***************************************************************************)

(* An accepted push_back keeps the spine: the carry lands at the first     *)
(* clear bit k as the subtree that ends at the new leaf, bits below k are  *)
(* cleared, and the entries above k are unchanged subtrees of old leaves.  *)
LEMMA PushBackSpine ==
    ASSUME TypeOK, Spine, NEW leaf \in Leaves, PushBack(leaf)
    PROVE  Spine'
<1>1. CASE /\ leaf_count >= MaxLeaves
           /\ result' = Result("push_back", "out_of_range", NullHash)
           /\ UNCHANGED <<leaf_count, context, leaves>>
  BY <1>1, RefNodeIsNodeOf DEF Spine
<1>2. CASE /\ leaf_count < MaxLeaves
           /\ context' = IF CarryStops = {}
                         THEN context
                         ELSE [context EXCEPT ![CarryStop] = Carry(leaf)[CarryStop]]
           /\ leaf_count' = leaf_count + 1
           /\ leaves' = Append(leaves, leaf)
           /\ result' = Result("push_back", "none", NullHash)
  <2> DEFINE n == leaf_count  k == CarryStop  lv2 == Append(leaves, leaf)
  <2>1. /\ n \in 0..(MaxLeaves - 1) /\ Len(leaves) = n /\ leaves \in Seq(Leaves)
        /\ CarryStops # {} /\ DOMAIN context = 0..Depth
    BY <1>2, CarryStopsNonEmpty, MaxLeavesAssumption DEF TypeOK
  <2>2. k \in 0..Depth /\ ~Bit(n, k) /\ \A j \in 0..(k - 1) : Bit(n, j)
    BY <2>1, CarryStopFacts
  <2>3. /\ \A i \in 0..(k - 1) : ~Bit(n + 1, i)
        /\ Bit(n + 1, k)
        /\ \A i \in (k + 1)..Depth : Bit(n + 1, i) = Bit(n, i)
        /\ ((n + 1) \div 2^(k + 1)) * 2 = n \div 2^k
        /\ \A i \in k..Depth : (n + 1) \div 2^(i + 1) = n \div 2^(i + 1)
    BY <2>1, <2>2, CarryBits
  <2>4. context' = [context EXCEPT ![k] = Carry(leaf)[k]]
    BY <1>2, <2>1
  <2> SUFFICES ASSUME NEW i \in 0..Depth, Bit(n + 1, i)
               PROVE  context'[i] = NodeOf(lv2)[i][((n + 1) \div 2^(i + 1)) * 2]
    BY <1>2, RefNodeIsNodeOf DEF Spine
  <2>5. CASE i < k
    BY <2>2, <2>3, <2>5
  <2>6. CASE i = k
    <3>1. context'[k] = Carry(leaf)[k]
      BY <2>1, <2>2, <2>4
    <3>2. Carry(leaf)[k] = NodeOf(lv2)[k][n \div 2^k]
      BY <1>2, <2>2, CarryNode
    <3>. QED BY <2>3, <2>6, <3>1, <3>2
  <2>7. CASE i > k
    <3> DEFINE x == 2^i  y == 2^(i + 1)  q == n \div x  q1 == n \div y  w == 2^(Depth - i)
    <3>1. i \in (k + 1)..Depth /\ i \in k..Depth /\ n \in Nat
      BY <2>1, <2>2, <2>7
    <3>2. Bit(n, i) /\ (n + 1) \div 2^(i + 1) = q1
      BY <2>3, <3>1
    <3>3. context'[i] = context[i]
      BY <2>1, <2>4, <2>7
    <3>4. context[i] = NodeOf(leaves)[i][q1 * 2]
      BY <3>2, RefNodeIsNodeOf DEF Spine
    <3>5. q = 2 * q1 + 1
      BY <3>1, <3>2, DivLevel
    <3>6. q \in 0..(w - 1)
      BY <2>1, QuotientRange
    <3>7. x \in Nat \ {0} /\ w \in Nat \ {0} /\ x * q <= n
      <4>1. x \in Nat \ {0} /\ w \in Nat \ {0}
        BY LevelWidths, DepthType
      <4> HIDE DEF x, w
      <4>. QED BY <4>1, <3>1, DivBounds DEF q
    <3>10. q1 \in Int
      <4>1. y \in Nat \ {0}
        BY LevelWidths, DepthType
      <4> HIDE DEF y
      <4>. QED BY <4>1, <3>1, DivBounds DEF q1
    <3> HIDE DEF q, q1, x, y, w
    <3>8. q1 * 2 \in 0..(w - 1) /\ (q1 * 2 + 1) * x <= Len(leaves)
      BY <2>1, <3>5, <3>6, <3>7, <3>10
    <3> DEFINE j == q1 * 2
    <3>9. j \in 0..(2^(Depth - i) - 1) /\ (j + 1) * 2^i <= Len(leaves)
      BY <3>8, Zenon DEF x, w, j
    <3> HIDE DEF j
    <3>11. NodeOf(leaves)[i][j] = NodeOf(lv2)[i][j]
      BY <2>1, <3>9, PrefixLocal
    <3>. QED BY <3>2, <3>3, <3>4, <3>11, Zenon DEF j
  <2>. QED BY <2>2, <2>5, <2>6, <2>7
<1>. QED BY <1>1, <1>2 DEF PushBack

(***************************************************************************)
(* Spine holds in every reachable state, for every tree size: for every    *)
(* set bit i of leaf_count, m_context[i] is the hash of the completed      *)
(* subtree of 2^i pushed leaves that bit stands for.  push_back keeps it   *)
(* (PushBackSpine); get_root_hash and get_next_leaf_proof change neither   *)
(* the count, the context nor the leaves.                                  *)
(***************************************************************************)
THEOREM SpineCorrect == Spec => []Spine
<1>1. Init => Spine
  <2> SUFFICES ASSUME Init, NEW i \in 0..Depth PROVE ~Bit(leaf_count, i)
    BY DEF Spine
  <2> DEFINE x == 2^i
  <2>1. x \in Nat \ {0}
    BY LevelWidths, DepthType
  <2> HIDE DEF x
  <2>2. 0 \div x = 0
    BY <2>1
  <2>3. Bit(leaf_count, i) <=> (leaf_count \div x) % 2 = 1
    BY DEF Bit, x
  <2>. QED BY <2>2, <2>3 DEF Init
<1>2. TypeOK /\ Spine /\ [Next]_vars => Spine'
  <2> SUFFICES ASSUME TypeOK, Spine, [Next]_vars PROVE Spine'
    OBVIOUS
  <2>1. CASE \E leaf \in Leaves : PushBack(leaf)
    BY <2>1, PushBackSpine
  <2>2. CASE UNCHANGED <<leaf_count, context, leaves>>
    BY <2>2, RefNodeIsNodeOf DEF Spine
  <2>. QED BY <2>1, <2>2 DEF Next, GetRootHash, GetNextLeafProof, vars
<1>. QED BY <1>1, <1>2, TypeCorrect, PTL DEF Spec

-----------------------------------------------------------------------------
(***************************************************************************)
(* get_root_hash's fold below capacity: under the spine invariant, after i *)
(* levels it is the node of level i that holds position leaf_count, in     *)
(* the tree padded with pristine leaves.  A set bit takes the completed    *)
(* subtree from the context on the left, a clear bit a pristine subtree on *)
(* the right.                                                              *)
(***************************************************************************)
LEMMA RootFoldNode ==
    ASSUME TypeOK, Spine, leaf_count < MaxLeaves
    PROVE  \A i \in 0..Depth : RootFold[i] = NodeOf(leaves)[i][leaf_count \div 2^i]
<1> DEFINE n == leaf_count
<1>0. n \in 0..(MaxLeaves - 1) /\ Len(leaves) = n /\ leaves \in Seq(Leaves)
  BY MaxLeavesAssumption DEF TypeOK
<1> DEFINE S == {i \in Nat : RootFold[i] = NodeOf(leaves)[i][n \div 2^i]}
<1>1. 0 \in S
  <2>1. 0 \in 0..Depth /\ 2^0 = 1
    BY DepthType, LevelWidths
  <2>2. RootFold[0] = PristineLeaf
    BY <2>1, RootFoldDef
  <2>3. NodeOf(leaves)[0][n] = PristineLeaf
    BY <1>0, NodeLeaf DEF LeafOf
  <2>. QED BY <1>0, <2>1, <2>2, <2>3
<1>2. ASSUME NEW i \in 0..(Depth - 1), i \in S
      PROVE  i + 1 \in S
  <2> DEFINE x == 2^i  y == 2^(i + 1)  q == n \div x  q1 == n \div y
             w == 2^(Depth - i)  w1 == 2^(Depth - (i + 1))  m == i + 1
  <2>1. /\ i \in 0..Depth /\ m \in 0..Depth /\ m \in 1..Depth /\ m # 0
        /\ m - 1 = i /\ n \in Nat
    BY <1>0, DepthType
  <2>2. q = 2 * q1 + (IF Bit(n, i) THEN 1 ELSE 0)
    BY <2>1, DivLevel
  <2>3. q1 \in 0..(w1 - 1) /\ q \in 0..(w - 1)
    <3>1. \A h \in 0..Depth : n \div 2^h \in 0..(2^(Depth - h) - 1)
      BY <1>0, QuotientRange
    <3>. QED BY <2>1, <3>1, Zenon
  <2>4. /\ x \in Nat \ {0} /\ y \in Nat \ {0} /\ w = 2 * w1 /\ w1 \in Nat \ {0}
    BY <2>1, LevelWidths, DepthType
  <2>5. n < x * q + x /\ q1 \in Int
    <3> HIDE DEF x, y
    <3>. QED BY <2>1, <2>4, DivBounds DEF q, q1
  <2>6. RootFold[i] = NodeOf(leaves)[i][q]
    BY <1>2
  <2>7. context[i] = NodeOf(leaves)[i][q1 * 2] \/ ~Bit(n, i)
    BY <2>1, RefNodeIsNodeOf DEF Spine
  <2>8. PristineAt(leaves, i)
    BY <1>0, <2>1, NodePristine
  <2> HIDE DEF x, y, q, q1, w, w1, m
  <2>9. RootFold[m] = RootStep(RootFold[m - 1], m)
    BY <2>1, RootFoldDef
  <2>10. NodeOf(leaves)[m][q1] =
           GetConcatHash(NodeOf(leaves)[m - 1][2 * q1], NodeOf(leaves)[m - 1][2 * q1 + 1])
    <3>1. q1 \in 0..(2^(Depth - m) - 1)
      BY <2>3 DEF w1, m
    <3>. QED BY <2>1, <3>1, NodeUp
  <2>11. RootFold[m] =
           IF Bit(n, i) THEN GetConcatHash(Sibling(i), RootFold[i])
                        ELSE GetConcatHash(RootFold[i], Sibling(i))
    BY <2>1, <2>9 DEF RootStep
  <2>12. ASSUME Bit(n, i) PROVE RootFold[m] = NodeOf(leaves)[m][q1]
    <3>1. q = 2 * q1 + 1 /\ q1 * 2 = 2 * q1
      BY <2>2, <2>5, <2>12
    <3>2. Sibling(i) = NodeOf(leaves)[i][2 * q1]
      BY <2>7, <2>12, <3>1 DEF Sibling
    <3>. QED BY <2>1, <2>6, <2>10, <2>11, <2>12, <3>1, <3>2
  <2>13. ASSUME ~Bit(n, i) PROVE RootFold[m] = NodeOf(leaves)[m][q1]
    <3>1. q = 2 * q1
      BY <2>2, <2>5, <2>13
    <3>2. 2 * q1 + 1 \in 0..(w - 1) /\ Len(leaves) <= (2 * q1 + 1) * x
      BY <1>0, <2>3, <2>4, <2>5, <3>1
    <3> DEFINE j == 2 * q1 + 1
    <3>3. j \in 0..(2^(Depth - i) - 1) /\ Len(leaves) <= j * 2^i
      BY <3>2, Zenon DEF j, w, x
    <3> HIDE DEF j
    <3>4. NodeOf(leaves)[i][j] = PristineHash[LOG2_LEAF_SIZE + i]
      BY <2>8, <3>3 DEF PristineAt
    <3>5. Sibling(i) = NodeOf(leaves)[i][j]
      BY <2>13, <3>4 DEF Sibling
    <3>. QED BY <2>1, <2>6, <2>10, <2>11, <2>13, <3>1, <3>5 DEF j
  <2>14. RootFold[m] = NodeOf(leaves)[m][q1]
    BY <2>12, <2>13
  <2>. QED BY <2>1, <2>14 DEF S, m, q1, y
<1>3. 0..Depth \subseteq S
  <2>1. InductiveOn(S, 0, Depth)
    BY <1>1, <1>2 DEF InductiveOn
  <2>2. Depth \in Int
    BY DepthType
  <2> HIDE DEF S
  <2>. QED BY <2>1, <2>2, IntervalInduction
<1>. QED BY <1>3

(***************************************************************************)
(* get_root_hash answers the reference root: below capacity the fold ends  *)
(* at the single node of level depth; at capacity bit depth of the count  *)
(* is set, and the spine says m_context[depth] is the whole tree.         *)
(***************************************************************************)
LEMMA RootHashIsRefRoot ==
    ASSUME TypeOK, Spine
    PROVE  RootHash = RefRoot
<1> DEFINE n == leaf_count  M == MaxLeaves
<1>0. Depth \in 0..Depth /\ 2^Depth = M /\ M \in Nat \ {0} /\ n \in 0..M
  BY DepthType, LevelWidths, MaxLeavesAssumption DEF TypeOK, MaxLeaves
<1>1. CASE n < M
  <2>1. RootFold[Depth] = NodeOf(leaves)[Depth][n \div 2^Depth]
    BY <1>0, <1>1, RootFoldNode
  <2>2. n \div M = 0
    BY <1>0, <1>1, DivBelowDivisor
  <2>. QED BY <1>0, <1>1, <2>1, <2>2, RefNodeIsNodeOf DEF RootHash, RefRoot
<1>2. CASE n = M
  <2> DEFINE M2 == 2^(Depth + 1)
  <2>1. M2 = 2 * M
    BY DepthType, LevelWidths DEF MaxLeaves
  <2> HIDE DEF M, M2
  <2>2. n \div M = 1 /\ n \div M2 = 0
    BY <1>0, <1>2, <2>1
  <2>3. Bit(n, Depth)
    <3>1. Bit(n, Depth) <=> (n \div M) % 2 = 1
      BY <1>0, Zenon DEF Bit
    <3>. QED BY <2>2, <3>1
  <2>4. context[Depth] = RefNode[Depth][(n \div M2) * 2]
    BY <1>0, <2>3, Zenon DEF Spine, M2
  <2>5. (n \div M2) * 2 = 0
    BY <2>2
  <2>6. ~(leaf_count < MaxLeaves)
    BY <1>0, <1>2 DEF M
  <2>. QED BY <2>4, <2>5, <2>6 DEF RootHash, RefRoot
<1>. QED BY <1>0, <1>1, <1>2

(***************************************************************************)
(* Root equivalence for every tree size: every root get_root_hash returns  *)
(* is the root of the tree of the pushed leaves padded with pristine       *)
(* leaves, before and once the tree is full.  It rests on the spine        *)
(* invariant, which is what the context must satisfy for the fold to be    *)
(* right.                                                                  *)
(***************************************************************************)
THEOREM RootEquivalenceCorrect == Spec => []RootEquivalence
<1>1. Init => RootEquivalence
  BY DEF Init, RootEquivalence, Result
<1>2. TypeOK /\ Spine /\ RootEquivalence /\ [Next]_vars => RootEquivalence'
  <2> SUFFICES ASSUME TypeOK, Spine, RootEquivalence, [Next]_vars
               PROVE  RootEquivalence'
    OBVIOUS
  <2>1. CASE \E leaf \in Leaves : PushBack(leaf)
    BY <2>1 DEF PushBack, RootEquivalence, Result
  <2>2. CASE GetRootHash
    BY <2>2, RootHashIsRefRoot, RefNodeIsNodeOf DEF GetRootHash, RootEquivalence, Result, RefRoot
  <2>3. CASE GetNextLeafProof
    BY <2>3 DEF GetNextLeafProof, RootEquivalence, Result
  <2>4. CASE UNCHANGED vars
    BY <2>4, RefNodeIsNodeOf DEF vars, RootEquivalence, RefRoot
  <2>. QED BY <2>1, <2>2, <2>3, <2>4 DEF Next
<1>. QED BY <1>1, <1>2, TypeCorrect, SpineCorrect, PTL DEF Spec

-----------------------------------------------------------------------------
(* The fields get_next_leaf_proof sets on the proof it builds.            *)
LEMMA NextLeafProofFields ==
    /\ NextLeafProof.log2_root_size = LOG2_ROOT_SIZE
    /\ NextLeafProof.log2_target_size = LOG2_LEAF_SIZE
    /\ NextLeafProof.target_address = leaf_count * 2^LOG2_LEAF_SIZE
    /\ NextLeafProof.target_hash = PristineLeaf
    /\ NextLeafProof.siblings = [s \in LOG2_LEAF_SIZE..(LOG2_ROOT_SIZE - 1) |->
                                    Sibling(s - LOG2_LEAF_SIZE)]
    /\ NextLeafProof.root_hash = RootFold[Depth]
BY DEF NextLeafProof, NewProof

(***************************************************************************)
(* The proof's own fold, merkle_tree_proof::verify, retraces               *)
(* get_next_leaf_proof's fold: shifting leaf_count by log2_leaf_size moves *)
(* bit i of the count to bit log2_leaf_size + i of the target address,     *)
(* which is the bit the verifier reads at that level.                      *)
(***************************************************************************)
LEMMA ProofFoldIsRootFold ==
    ASSUME leaf_count \in Nat
    PROVE  \A i \in 0..Depth : ProofFold(NextLeafProof)[LOG2_LEAF_SIZE + i] = RootFold[i]
<1> DEFINE P == NextLeafProof  L == LOG2_LEAF_SIZE  n == leaf_count
<1>0. /\ L \in Nat /\ LOG2_ROOT_SIZE \in Nat /\ Depth \in Nat
      /\ L + Depth = LOG2_ROOT_SIZE /\ L \in 0..LOG2_ROOT_SIZE
  BY DepthType, SizesAssumption, LeafSizeAssumption DEF Depth
<1>1. /\ P.log2_root_size = LOG2_ROOT_SIZE /\ P.log2_target_size = L
      /\ P.target_address = n * 2^L /\ P.target_hash = PristineLeaf
      /\ P.siblings = [s \in L..(LOG2_ROOT_SIZE - 1) |-> Sibling(s - L)]
  BY NextLeafProofFields
<1> HIDE DEF P
<1>2. ProofFold(P) =
        [s \in L..LOG2_ROOT_SIZE |->
            IF s = L
            THEN P.target_hash
            ELSE IF Bit(P.target_address, s - 1)
                 THEN GetConcatHash(P.siblings[s - 1], ProofFold(P)[s - 1])
                 ELSE GetConcatHash(ProofFold(P)[s - 1], P.siblings[s - 1])]
  <2>1. P.log2_target_size \in Nat /\ P.log2_root_size \in Nat
    BY <1>0, <1>1
  <2>2. ProofFold(P) =
          [s \in P.log2_target_size..P.log2_root_size |->
              IF s = P.log2_target_size
              THEN P.target_hash
              ELSE IF Bit(P.target_address, s - 1)
                   THEN GetConcatHash(P.siblings[s - 1], ProofFold(P)[s - 1])
                   ELSE GetConcatHash(ProofFold(P)[s - 1], P.siblings[s - 1])]
    BY <2>1, ProofFoldDef
  <2>. QED BY <2>2, <1>1
<1>3. \A i \in 0..(LOG2_ROOT_SIZE - L) : (n * 2^L) \div 2^(L + i) = n \div 2^i
  BY <1>0, ShiftQuotient
<1> DEFINE S == {i \in Nat : ProofFold(P)[L + i] = RootFold[i]}
<1>4. 0 \in S
  <2>1. L + 0 = L /\ L \in L..LOG2_ROOT_SIZE /\ 0 \in 0..Depth
    BY <1>0
  <2>2. RootFold[0] = PristineLeaf
    BY <2>1, RootFoldDef
  <2>. QED BY <1>1, <1>2, <2>1, <2>2
<1>5. ASSUME NEW i \in 0..(Depth - 1), i \in S
      PROVE  i + 1 \in S
  <2> DEFINE s == L + (i + 1)  m == i + 1
  <2>1. /\ s \in L..LOG2_ROOT_SIZE /\ s # L /\ s - 1 = L + i
        /\ L + i \in L..(LOG2_ROOT_SIZE - 1) /\ (L + i) - L = i
        /\ m \in 0..Depth /\ m # 0 /\ m - 1 = i /\ i \in 0..(LOG2_ROOT_SIZE - L)
    BY <1>0
  <2>2. Bit(P.target_address, L + i) <=> Bit(n, i)
    <3>1. (n * 2^L) \div 2^(L + i) = n \div 2^i
      BY <2>1, <1>3
    <3>. QED BY <1>1, <3>1 DEF Bit
  <2>3. P.siblings[L + i] = Sibling(i)
    BY <1>1, <2>1
  <2>4. ProofFold(P)[L + i] = RootFold[i]
    BY <1>5
  <2> HIDE DEF s, m
  <2>5. ProofFold(P)[s] =
          IF Bit(P.target_address, s - 1)
          THEN GetConcatHash(P.siblings[s - 1], ProofFold(P)[s - 1])
          ELSE GetConcatHash(ProofFold(P)[s - 1], P.siblings[s - 1])
    BY <1>2, <2>1
  <2>6. RootFold[m] = RootStep(RootFold[m - 1], m)
    BY <2>1, RootFoldDef
  <2>7. ProofFold(P)[s] = RootFold[m]
    BY <2>1, <2>2, <2>3, <2>4, <2>5, <2>6 DEF RootStep
  <2>. QED BY <2>7 DEF S, s, m
<1>6. 0..Depth \subseteq S
  <2>1. InductiveOn(S, 0, Depth)
    BY <1>4, <1>5 DEF InductiveOn
  <2> HIDE DEF S
  <2>. QED BY <1>0, <2>1, IntervalInduction
<1>. QED BY <1>6 DEF P

(***************************************************************************)
(* Every proof get_next_leaf_proof builds verifies, in every state: the    *)
(* root it stores is the root its siblings fold to.  So the debug build's  *)
(* re-verification never throws.                                           *)
(***************************************************************************)
LEMMA NextLeafProofVerifies ==
    ASSUME leaf_count \in Nat
    PROVE  Verify(NextLeafProof)
<1> DEFINE P == NextLeafProof  L == LOG2_LEAF_SIZE
<1>0. Depth \in 0..Depth /\ L + Depth = LOG2_ROOT_SIZE /\ L \in Nat /\ LOG2_ROOT_SIZE \in Nat
  BY DepthType, SizesAssumption, LeafSizeAssumption DEF Depth
<1>1. P.log2_root_size = LOG2_ROOT_SIZE /\ P.log2_target_size = L
      /\ P.root_hash = RootFold[Depth]
  BY NextLeafProofFields
<1> HIDE DEF P
<1>2. ProofRoot(P) = ProofFold(P)[P.log2_root_size]
  BY <1>0, <1>1, ProofFoldDef
<1>3. ProofFold(P)[L + Depth] = RootFold[Depth]
  BY <1>0, ProofFoldIsRootFold DEF P
<1>. QED BY <1>0, <1>1, <1>2, <1>3 DEF Verify, P

(***************************************************************************)
(* Next-leaf proof soundness for every tree size: get_next_leaf_proof      *)
(* never throws its internal runtime_error, and each proof it returns      *)
(* verifies, targets the pristine leaf at leaf_count << log2_leaf_size and *)
(* has the reference root as its root.  The root part rests on the spine   *)
(* invariant through RootHashIsRefRoot.                                    *)
(***************************************************************************)
THEOREM NextLeafProofSoundCorrect == Spec => []NextLeafProofSound
<1>1. Init => NextLeafProofSound
  BY DEF Init, NextLeafProofSound, Result
<1>2. TypeOK /\ Spine /\ NextLeafProofSound /\ [Next]_vars => NextLeafProofSound'
  <2> SUFFICES ASSUME TypeOK, Spine, NextLeafProofSound, [Next]_vars
               PROVE  NextLeafProofSound'
    OBVIOUS
  <2>1. CASE \E leaf \in Leaves : PushBack(leaf)
    BY <2>1 DEF PushBack, NextLeafProofSound, Result
  <2>2. CASE GetRootHash
    BY <2>2 DEF GetRootHash, NextLeafProofSound, Result
  <2>3. CASE GetNextLeafProof
    <3>1. CASE leaf_count >= MaxLeaves
      BY <2>3, <3>1 DEF GetNextLeafProof, NextLeafProofSound, Result
    <3>2. CASE leaf_count < MaxLeaves
      <4>1. leaf_count \in Nat
        BY MaxLeavesAssumption DEF TypeOK
      <4>2. Verify(NextLeafProof)
        BY <4>1, NextLeafProofVerifies
      <4>3. result' = Result("get_next_leaf_proof", "none", NextLeafProof)
        BY <2>3, <3>2, <4>1, <4>2, MaxLeavesAssumption DEF GetNextLeafProof
      <4>4. NextLeafProof.root_hash = RefRoot
        BY <3>2, RootHashIsRefRoot, NextLeafProofFields DEF RootHash
      <4>5. RefRoot' = RefRoot
        BY <2>3, RefNodeIsNodeOf DEF GetNextLeafProof, RefRoot
      <4>. QED BY <2>3, <4>2, <4>3, <4>4, <4>5, NextLeafProofFields
               DEF GetNextLeafProof, NextLeafProofSound, Result
    <3>. QED BY <3>1, <3>2, MaxLeavesAssumption DEF TypeOK
  <2>4. CASE UNCHANGED vars
    BY <2>4, RefNodeIsNodeOf DEF vars, NextLeafProofSound, RefRoot
  <2>. QED BY <2>1, <2>2, <2>3, <2>4 DEF Next
<1>. QED BY <1>1, <1>2, TypeCorrect, SpineCorrect, PTL DEF Spec

=============================================================================
