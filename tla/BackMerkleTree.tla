--------------------------- MODULE BackMerkleTree ---------------------------
(***************************************************************************)
(* back_merkle_tree (src/src/back-merkle-tree.cpp): the append-only Merkle *)
(* accumulator.  It keeps leaf_count and one context hash per height; a    *)
(* push_back is a binary-adder carry through the set bits of leaf_count.   *)
(* get_root_hash and get_next_leaf_proof fold a pristine leaf up through   *)
(* the same bits.  The tree parameters are constants that passed the      *)
(* constructor's checks (the constructor itself is BackMerkleTreeCtor).    *)
(*                                                                         *)
(* leaves is a history variable: the leaf hashes pushed so far.  The code  *)
(* does not keep it; the properties use it to state what the context and  *)
(* the answers must be.  result records the last operation's return value *)
(* or exception.                                                           *)
(***************************************************************************)
EXTENDS MerkleProof, Sequences

CONSTANTS
    LOG2_LEAF_SIZE,  \* log2 of the size of a leaf, in bytes
    Leaves,          \* the leaf hashes a caller may push
    NullHash,        \* the all-zero hash_type a fresh m_context holds
    NDEBUG           \* TRUE in release builds: no re-verification of proofs

ASSUME LeafSizeAssumption ==
    /\ LOG2_LEAF_SIZE \in Nat
    /\ LOG2_WORD_SIZE <= LOG2_LEAF_SIZE
    /\ LOG2_LEAF_SIZE <= LOG2_ROOT_SIZE

ASSUME NullHashAssumption == NullHash \notin Leaves

ASSUME NDEBUGAssumption == NDEBUG \in BOOLEAN

VARIABLES
    leaf_count,  \* m_leaf_count
    context,     \* m_context[0..depth]
    leaves,      \* history: the leaf hashes pushed, in order
    result       \* the return value or exception of the last operation

vars == <<leaf_count, context, leaves, result>>

(* depth = m_log2_root_size - m_log2_leaf_size                              *)
Depth == LOG2_ROOT_SIZE - LOG2_LEAF_SIZE

(* m_max_leaves = address_type{1} << depth                                 *)
MaxLeaves == 2^Depth

(* 2^Depth is a positive natural.  A fact of arithmetic the provers cannot *)
(* derive, as they know ^ only on literals; TLC checks it on each instance. *)
ASSUME MaxLeavesAssumption == MaxLeaves \in Nat \ {0}

PristineLeaf == PristineHash[LOG2_LEAF_SIZE]

(* An operation's outcome: error is "none" or the exception it throws.     *)
Result(op, error, value) == [op |-> op, error |-> error, value |-> value]

Init ==
    /\ leaf_count = 0
    /\ context = [i \in 0..Depth |-> NullHash]
    /\ leaves = <<>>
    /\ result = Result("none", "none", NullHash)

(***************************************************************************)
(* push_back.  The loop runs i = 0..depth: while bit i of leaf_count is    *)
(* set it combines right = H(context[i], right); at the first clear bit it *)
(* stores right in context[i] and breaks.  Carry[i] is right on entering   *)
(* iteration i; CarryStop is the iteration that breaks, if any.            *)
(***************************************************************************)
(* Mutant: the carry combined in the wrong order, H(right, context[i]).    *)
CarrySwapped(leaf) ==
    LET right[i \in 0..Depth] ==
            IF i = 0 THEN leaf ELSE GetConcatHash(right[i - 1], context[i - 1])
    IN  right

Carry(leaf) ==
    LET right[i \in 0..Depth] ==
            IF i = 0 THEN leaf ELSE GetConcatHash(context[i - 1], right[i - 1])
    IN  right

(* Mutant: the loop bound written i < depth.                              *)
CarryStopsShortLoop == {i \in 0..(Depth - 1) : ~Bit(leaf_count, i)}

CarryStops == {i \in 0..Depth : ~Bit(leaf_count, i)}

CarryStop == CHOOSE i \in CarryStops : \A j \in 0..(i - 1) : Bit(leaf_count, j)

(* Mutant: the capacity check written as > instead of >=.                *)
PushBackPastFull(leaf) ==
    \/ /\ leaf_count > MaxLeaves
       /\ result' = Result("push_back", "out_of_range", NullHash)
       /\ UNCHANGED <<leaf_count, context, leaves>>
    \/ /\ leaf_count <= MaxLeaves
       /\ context' = IF CarryStops = {}
                     THEN context
                     ELSE [context EXCEPT ![CarryStop] = Carry(leaf)[CarryStop]]
       /\ leaf_count' = leaf_count + 1
       /\ leaves' = Append(leaves, leaf)
       /\ result' = Result("push_back", "none", NullHash)

PushBack(leaf) ==
    \/ /\ leaf_count >= MaxLeaves
       /\ result' = Result("push_back", "out_of_range", NullHash)
       /\ UNCHANGED <<leaf_count, context, leaves>>
    \/ /\ leaf_count < MaxLeaves
       /\ context' = IF CarryStops = {}
                     THEN context
                     ELSE [context EXCEPT ![CarryStop] = Carry(leaf)[CarryStop]]
       /\ leaf_count' = leaf_count + 1
       /\ leaves' = Append(leaves, leaf)
       /\ result' = Result("push_back", "none", NullHash)

(***************************************************************************)
(* The fold shared by get_root_hash and get_next_leaf_proof: the hash of   *)
(* the pristine next leaf after i levels.  At level i the sibling is       *)
(* context[i] on the left when bit i of leaf_count is set, and the         *)
(* pristine subtree of log2 size log2_leaf_size + i on the right if not.   *)
(***************************************************************************)
Sibling(i) ==
    IF Bit(leaf_count, i) THEN context[i] ELSE PristineHash[LOG2_LEAF_SIZE + i]

RootFold[i \in 0..Depth] ==
    IF i = 0
    THEN PristineLeaf
    ELSE IF Bit(leaf_count, i - 1)
         THEN GetConcatHash(Sibling(i - 1), RootFold[i - 1])
         ELSE GetConcatHash(RootFold[i - 1], Sibling(i - 1))

(* Mutant: the full-tree case dropped, the fold used for every count.     *)
RootHashAlwaysFold == RootFold[Depth]

(* get_root_hash: the fold, or context[depth] once the tree is full.       *)
RootHash ==
    IF leaf_count < MaxLeaves THEN RootFold[Depth] ELSE context[Depth]

GetRootHash ==
    /\ result' = Result("get_root_hash", "none", RootHash)
    /\ UNCHANGED <<leaf_count, context, leaves>>

(***************************************************************************)
(* get_next_leaf_proof: the proof for position leaf_count.  In debug       *)
(* builds a proof that does not verify is thrown as runtime_error.         *)
(***************************************************************************)
(* Mutant: the target address not shifted by log2_leaf_size.             *)
NextLeafProofUnshifted ==
    [NewProof(LOG2_ROOT_SIZE, LOG2_LEAF_SIZE, NullHash) EXCEPT
        !.target_address = leaf_count,
        !.target_hash    = PristineLeaf,
        !.siblings       = [s \in LOG2_LEAF_SIZE..(LOG2_ROOT_SIZE - 1) |->
                               Sibling(s - LOG2_LEAF_SIZE)],
        !.root_hash      = RootFold[Depth]]

NextLeafProof ==
    [NewProof(LOG2_ROOT_SIZE, LOG2_LEAF_SIZE, NullHash) EXCEPT
        !.target_address = leaf_count * 2^LOG2_LEAF_SIZE,
        !.target_hash    = PristineLeaf,
        !.siblings       = [s \in LOG2_LEAF_SIZE..(LOG2_ROOT_SIZE - 1) |->
                               Sibling(s - LOG2_LEAF_SIZE)],
        !.root_hash      = RootFold[Depth]]

GetNextLeafProof ==
    /\ result' = IF leaf_count >= MaxLeaves
                 THEN Result("get_next_leaf_proof", "out_of_range", NullHash)
                 ELSE IF ~NDEBUG /\ ~Verify(NextLeafProof)
                 THEN Result("get_next_leaf_proof", "runtime_error", NullHash)
                 ELSE Result("get_next_leaf_proof", "none", NextLeafProof)
    /\ UNCHANGED <<leaf_count, context, leaves>>

Next ==
    \/ \E leaf \in Leaves : PushBack(leaf)
    \/ GetRootHash
    \/ GetNextLeafProof

Spec == Init /\ [][Next]_vars

-----------------------------------------------------------------------------
(***************************************************************************)
(* Reference definitions: the tree the spec describes, built bottom-up     *)
(* from the pushed leaves padded with pristine leaves.  RefNode[h][j] is   *)
(* the hash of the j-th subtree of 2^h leaves.                             *)
(***************************************************************************)
LeafAt(p) == IF p < Len(leaves) THEN leaves[p + 1] ELSE PristineLeaf

RefNode[h \in 0..Depth] ==
    IF h = 0
    THEN [j \in 0..(MaxLeaves - 1) |-> LeafAt(j)]
    ELSE [j \in 0..(2^(Depth - h) - 1) |->
            GetConcatHash(RefNode[h - 1][2 * j], RefNode[h - 1][2 * j + 1])]

RefRoot == RefNode[Depth][0]

-----------------------------------------------------------------------------
(* Type invariant.                                                         *)
TypeOK ==
    /\ leaf_count \in 0..MaxLeaves
    /\ DOMAIN context = 0..Depth
    /\ leaves \in Seq(Leaves)
    /\ Len(leaves) = leaf_count
    /\ result.op \in {"none", "push_back", "get_root_hash", "get_next_leaf_proof"}
    /\ result.error \in {"none", "out_of_range", "runtime_error"}

(***************************************************************************)
(* Spine (spec section 3 and the carry-chain note of section 9): for every *)
(* set bit i of leaf_count, context[i] is the hash of the completed        *)
(* subtree of 2^i leaves that bit stands for, the one starting at          *)
(* leaf_count with bits 0..i cleared.  A push_back that stores the carry   *)
(* in the wrong slot, combines in the wrong order or leaves a stale entry  *)
(* live breaks it, possibly only many pushes later.                        *)
(***************************************************************************)
Spine ==
    \A i \in 0..Depth :
        Bit(leaf_count, i) =>
            context[i] = RefNode[i][(leaf_count \div 2^(i + 1)) * 2]

(***************************************************************************)
(* Root equivalence: every root get_root_hash returns is the root of the   *)
(* tree whose first leaf_count leaves are the pushed ones and whose other *)
(* leaves are pristine, both before and once the tree is full.            *)
(***************************************************************************)
RootEquivalence ==
    result.op = "get_root_hash" => result.value = RefRoot

(***************************************************************************)
(* Next-leaf proof soundness: get_next_leaf_proof never throws its         *)
(* internal runtime_error, and every proof it returns verifies, targets    *)
(* the pristine leaf at address leaf_count << log2_leaf_size and has the   *)
(* reference root as its root.                                             *)
(***************************************************************************)
NextLeafProofSound ==
    result.op = "get_next_leaf_proof" =>
        /\ result.error # "runtime_error"
        /\ result.error = "none" =>
             /\ Verify(result.value)
             /\ result.value.root_hash = RefRoot
             /\ result.value.target_hash = PristineLeaf
             /\ result.value.target_address = leaf_count * 2^LOG2_LEAF_SIZE

(***************************************************************************)
(* push_back never loses a leaf: every push it accepts finds a clear bit  *)
(* of leaf_count within the loop's bound 0..depth and stores the carry    *)
(* there.  A loop bound of i < depth, or a capacity check that lets a     *)
(* push through at leaf_count = max_leaves, makes a push that counts the  *)
(* leaf but stores nothing.                                                *)
(***************************************************************************)
PushStoresCarry ==
    [][leaf_count' = leaf_count + 1 => CarryStops # {}]_vars

(***************************************************************************)
(* The spine invariant exactly as spec section 8 words it: context[i] is  *)
(* the subtree of 2^i leaves ending at position                           *)
(* (leaf_count & ~((1 << (i+1)) - 1)) - 1.                                 *)
(***************************************************************************)
SpineAsSpecified ==
    \A i \in 0..Depth :
        Bit(leaf_count, i) =>
            LET last == (leaf_count \div 2^(i + 1)) * 2^(i + 1) - 1
            IN  /\ last >= 0
                /\ (last + 1) % 2^i = 0
                /\ context[i] = RefNode[i][(last + 1) \div 2^i - 1]

=============================================================================
