--------------------------- MODULE MCStateAccess ---------------------------
(***************************************************************************)
(* Model-checking instance of StateAccess: two registers, one PMA entry,  *)
(* two memory words, words that are 0 or 1 and two privilege levels.      *)
(***************************************************************************)
EXTENDS StateAccess

CONSTANT NoArg

MCRegs == {1, 2}

MCPaddrs == {4096, 4104}

=============================================================================
