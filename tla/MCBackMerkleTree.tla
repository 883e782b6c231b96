-------------------------- MODULE MCBackMerkleTree --------------------------
(***************************************************************************)
(* Model-checking instance of BackMerkleTree: the hasher is a tuple        *)
(* constructor, so two hashes are equal only when they were computed from *)
(* equal inputs (a collision-free hasher).                                 *)
(***************************************************************************)
EXTENDS BackMerkleTree

CONSTANTS L1, L2, ZeroWord, Null

MCConcatHash(left, right) == <<left, right>>

MCLeaves == {L1, L2}

=============================================================================
