------------------------ MODULE MCBackMerkleTreeCtor ------------------------
(***************************************************************************)
(* Model-checking instance of BackMerkleTreeCtor.  The parameters cover   *)
(* negative sizes, every ordering of the three sizes, the largest accepted *)
(* root (5), the address width (6) and beyond it (7), a root whose        *)
(* context cannot be allocated (20) and INT_MAX (127).                     *)
(***************************************************************************)
EXTENDS BackMerkleTreeCtor

MCParamValues == {-1, 0, 1, 2, 5, 6, 7, 20, 127}

=============================================================================
