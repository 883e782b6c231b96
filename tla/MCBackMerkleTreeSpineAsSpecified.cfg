\* The spine invariant in the words of spec section 8, on the same tree.
CONSTANTS
    LOG2_ROOT_SIZE = 5
    LOG2_LEAF_SIZE = 2
    LOG2_WORD_SIZE = 0
    L1 = L1
    L2 = L2
    ZeroWord = ZeroWord
    Null = Null
    ZeroWordHash <- ZeroWord
    NullHash <- Null
    Leaves <- MCLeaves
    GetConcatHash <- MCConcatHash
    NDEBUG = TRUE
SPECIFICATION Spec
INVARIANT
    SpineAsSpecified
