---------------------------- MODULE MerkleProof ----------------------------
(***************************************************************************)
(* The hashing vocabulary shared by the Merkle components: the hasher      *)
(* (component A of the spec), the pristine-hash table (component B) and    *)
(* the Merkle proof object with its verify() (component D).  None of their *)
(* code is under src/ (pristine-merkle-tree.cpp, merkle-tree-proof.h), so  *)
(* these definitions follow spec.md sections 3, 4.A, 4.B and 4.D.          *)
(*                                                                         *)
(* The hasher is a constant operator: every property of the project is an  *)
(* equality between two computations with it, so it holds for any hash    *)
(* function.  The MC modules instantiate it with a tuple constructor,      *)
(* i.e. a collision-free hash, which is what a cryptographic hasher is     *)
(* assumed to be.                                                          *)
(***************************************************************************)
EXTENDS Integers

CONSTANTS
    LOG2_ROOT_SIZE,     \* log2 of the size of the whole tree, in bytes
    LOG2_WORD_SIZE,     \* log2 of the size of the hasher's smallest input
    ZeroWordHash,       \* leaf_hash of a word of zero bytes
    GetConcatHash(_, _) \* get_concat_hash(h, left, right, result)

ASSUME SizesAssumption ==
    /\ LOG2_WORD_SIZE \in Nat
    /\ LOG2_ROOT_SIZE \in Nat
    /\ LOG2_WORD_SIZE <= LOG2_ROOT_SIZE

(***************************************************************************)
(* The recurrence that defines powers of two, up to the largest exponent   *)
(* the Merkle components use (a bit one above the root size).  It is the   *)
(* definition of ^ and holds for every size, but the provers know ^ only   *)
(* on literals; TLC checks it on every instance.                           *)
(***************************************************************************)
ASSUME PowerAssumption ==
    /\ 2^0 = 1
    /\ \A a \in 0..LOG2_ROOT_SIZE : 2^(a + 1) = 2 * 2^a

(* Bit i of the unsigned number n: n & (address_type{1} << i) != 0.        *)
Bit(n, i) == (n \div 2^i) % 2 = 1

(***************************************************************************)
(* pristine_merkle_tree::get_hash(h): the hash of an all-zero subtree of   *)
(* size 2^h, built bottom-up from the zero word by equal-child doubling.   *)
(***************************************************************************)
PristineHash[h \in LOG2_WORD_SIZE..LOG2_ROOT_SIZE] ==
    IF h = LOG2_WORD_SIZE
    THEN ZeroWordHash
    ELSE GetConcatHash(PristineHash[h - 1], PristineHash[h - 1])

(***************************************************************************)
(* merkle_tree_proof{log2_root_size, log2_target_size}: a proof with every *)
(* field still unset.  Siblings are indexed, like set_sibling_hash does,   *)
(* by the log2 size of the sibling subtree.                                *)
(***************************************************************************)
NewProof(log2_root_size, log2_target_size, unset) ==
    [log2_root_size   |-> log2_root_size,
     log2_target_size |-> log2_target_size,
     target_address   |-> 0,
     target_hash      |-> unset,
     root_hash        |-> unset,
     siblings         |-> [s \in log2_target_size..(log2_root_size - 1) |-> unset]]

(***************************************************************************)
(* The root that the target hash and the siblings fold up to: at log2 size *)
(* s the sibling is on the left when bit s of the target address is set.   *)
(***************************************************************************)
ProofRoot(p) ==
    LET fold[s \in p.log2_target_size..p.log2_root_size] ==
            IF s = p.log2_target_size
            THEN p.target_hash
            ELSE IF Bit(p.target_address, s - 1)
                 THEN GetConcatHash(p.siblings[s - 1], fold[s - 1])
                 ELSE GetConcatHash(fold[s - 1], p.siblings[s - 1])
    IN  fold[p.log2_root_size]

(* merkle_tree_proof::verify(h)                                            *)
Verify(p) == ProofRoot(p) = p.root_hash

=============================================================================
