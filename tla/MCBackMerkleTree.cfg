\* A tree of 2^3 = 8 leaves, a leaf of 2^2 words: every carry length 0..3
\* happens, the tree fills up, and the pristine table spans 6 heights.
CONSTANTS
    LOG2_ROOT_SIZE = 5
    LOG2_LEAF_SIZE = 2
    LOG2_WORD_SIZE = 0
    L1 = L1
    L2 = L2
    ZeroWord = ZeroWord
    Null = Null
    ZeroWordHash <- ZeroWord
    NullHash <- Null
    Leaves <- MCLeaves
    GetConcatHash <- MCConcatHash
    NDEBUG = TRUE
SPECIFICATION Spec
INVARIANTS
    TypeOK
    Spine
    RootEquivalence
    NextLeafProofSound
PROPERTY
    PushStoresCarry
