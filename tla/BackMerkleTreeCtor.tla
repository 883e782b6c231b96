------------------------- MODULE BackMerkleTreeCtor -------------------------
(***************************************************************************)
(* The back_merkle_tree constructor (back-merkle-tree.cpp lines 25-50).   *)
(* Its member initializers run before the body's range checks: the shift  *)
(* for m_max_leaves, the allocation of m_context and the construction of  *)
(* the pristine table all see the unchecked parameters.  Widths are       *)
(* scaled down: int has INT_BITS bits and address_type ADDRESS_BITS.      *)
(*                                                                         *)
(* Undefined behaviour (signed overflow, a shift by a negative amount or  *)
(* by the width or more) is a choice between the outcomes an x86-64 build *)
(* produces: a wrapped sum, a shift count taken modulo the width, or a    *)
(* folded constant 0.  An allocation of more than MaxAllocEntries hashes  *)
(* throws bad_alloc.  A caller may construct any number of trees, one     *)
(* after the other; tree is the outcome of the last construction.          *)
(***************************************************************************)
EXTENDS Integers

CONSTANTS
    ADDRESS_BITS,     \* std::numeric_limits<address_type>::digits
    INT_BITS,         \* width of int
    MaxAllocEntries,  \* the most hashes an allocation can obtain
    ParamValues       \* the ints a caller may pass as log2 sizes

ASSUME WidthAssumption ==
    /\ ADDRESS_BITS \in Nat \ {0}
    /\ INT_BITS \in Nat \ {0}
    /\ MaxAllocEntries \in Nat
    /\ ParamValues \subseteq -(2^(INT_BITS - 1))..(2^(INT_BITS - 1) - 1)
    /\ ADDRESS_BITS < 2^(INT_BITS - 1)

(***************************************************************************)
(* Facts of arithmetic about powers of two up to the widths, true for      *)
(* every width.  The provers know ^ only on literals, so they are stated   *)
(* here; TLC checks them on each instance.                                 *)
(***************************************************************************)
ASSUME PowerFacts ==
    /\ 2^(INT_BITS - 1) \in Nat \ {0}
    /\ 2^INT_BITS = 2 * 2^(INT_BITS - 1)
    /\ \A a \in 0..ADDRESS_BITS : 2^a \in Nat \ {0}
    /\ \A a \in 0..(ADDRESS_BITS - 1) : 2^(a + 1) = 2 * 2^a
    /\ \A a, b \in 0..ADDRESS_BITS : a + b <= ADDRESS_BITS => 2^a * 2^b = 2^(a + b)

VARIABLE tree

IntMin == -(2^(INT_BITS - 1))
IntMax == 2^(INT_BITS - 1) - 1

(* An int expression's value: x when it fits, else the wrapped value.     *)
IntValue(x) == ((x - IntMin) % 2^INT_BITS) + IntMin

IntOverflows(x) == x \notin IntMin..IntMax

(* address_type{1} << d: 2^d, or when d is out of range a masked count    *)
(* or a folded 0.                                                          *)
ShiftOutcomes(d) ==
    IF d \in 0..(ADDRESS_BITS - 1)
    THEN {2^d}
    ELSE {2^(d % ADDRESS_BITS), 0}

ShiftUndefined(d) == d \notin 0..(ADDRESS_BITS - 1)

(* Mutant: the std::max(1, ...) around the context size dropped.          *)
ContextSizeNoMax(r, l) == IntValue(r - l + 1)

(* std::max(1, log2_root_size - log2_leaf_size + 1) entries of m_context  *)
ContextSize(r, l) ==
    IF IntValue(r - l + 1) < 1 THEN 1 ELSE IntValue(r - l + 1)

(* pristine_merkle_tree{log2_root_size, log2_word_size} holds one hash per *)
(* height log2_word_size..log2_root_size (spec section 4.B).               *)
PristineSize(r, w) ==
    IF IntValue(r - w + 1) < 0 THEN 0 ELSE IntValue(r - w + 1)

(* Mutant: the address-width check of line 47 left out.                  *)
CheckErrorNoWidthCheck(r, l, w) ==
    IF r < 0      THEN "out_of_range"
    ELSE IF l < 0 THEN "out_of_range"
    ELSE IF w < 0 THEN "out_of_range"
    ELSE IF l > r THEN "out_of_range"
    ELSE IF w > l THEN "out_of_range"
    ELSE "none"

(* The body's checks, in order: the first one that fails is thrown.       *)
CheckError(r, l, w) ==
    IF r < 0                  THEN "out_of_range"
    ELSE IF l < 0             THEN "out_of_range"
    ELSE IF w < 0             THEN "out_of_range"
    ELSE IF l > r             THEN "out_of_range"
    ELSE IF w > l             THEN "out_of_range"
    ELSE IF r >= ADDRESS_BITS THEN "out_of_range"
    ELSE "none"

(***************************************************************************)
(* back_merkle_tree(log2_root_size, log2_leaf_size, log2_word_size).  ub   *)
(* records that the construction evaluated undefined behaviour.           *)
(***************************************************************************)
Construct(r, l, w) ==
    \E max_leaves \in ShiftOutcomes(IntValue(r - l)) :
        LET ub == \/ IntOverflows(r - l) \/ IntOverflows(r - l + 1)
                  \/ IntOverflows(r - w + 1) \/ ShiftUndefined(IntValue(r - l))
            status ==
                IF \/ ContextSize(r, l) > MaxAllocEntries
                   \/ PristineSize(r, w) > MaxAllocEntries THEN "bad_alloc"
                ELSE IF CheckError(r, l, w) # "none" THEN CheckError(r, l, w)
                ELSE "constructed"
        IN  tree' = [status       |-> status,
                     root         |-> r,
                     leaf         |-> l,
                     word         |-> w,
                     max_leaves   |-> max_leaves,
                     context_size |-> ContextSize(r, l),
                     ub           |-> ub]

Init == tree = [status |-> "none", root |-> 0, leaf |-> 0, word |-> 0,
                max_leaves |-> 0, context_size |-> 0, ub |-> FALSE]

Next == \E r, l, w \in ParamValues : Construct(r, l, w)

Spec == Init /\ [][Next]_tree

-----------------------------------------------------------------------------
TypeOK ==
    /\ tree.status \in {"none", "constructed", "out_of_range", "bad_alloc"}
    /\ {tree.root, tree.leaf, tree.word} \subseteq ParamValues \cup {0}
    /\ tree.max_leaves \in 0..(2^ADDRESS_BITS - 1)
    /\ tree.context_size \in Nat
    /\ tree.ub \in BOOLEAN

(***************************************************************************)
(* A tree the constructor returns is sound for its whole life: building   *)
(* it evaluated no undefined behaviour, m_max_leaves is exactly            *)
(* 2^(root - leaf), m_context has one entry per height 0..depth, and the   *)
(* address of every leaf, leaf_count << log2_leaf_size as                 *)
(* get_next_leaf_proof computes it, fits in address_type.                 *)
(***************************************************************************)
ConstructedTreeSound ==
    tree.status = "constructed" =>
        /\ ~tree.ub
        /\ 0 <= tree.word /\ tree.word <= tree.leaf /\ tree.leaf <= tree.root
        /\ tree.max_leaves = 2^(tree.root - tree.leaf)
        /\ tree.context_size = tree.root - tree.leaf + 1
        /\ (tree.max_leaves - 1) * 2^tree.leaf < 2^ADDRESS_BITS

(***************************************************************************)
(* Spec section 4.C: construction fails with an out-of-range error when a  *)
(* size is negative or inconsistent or log2_root_size would overflow the   *)
(* address word.  So every construction that does not return a tree must  *)
(* have thrown out_of_range.                                               *)
(***************************************************************************)
RejectsWithOutOfRange ==
    tree.status \notin {"none", "constructed"} => tree.status = "out_of_range"

=============================================================================
