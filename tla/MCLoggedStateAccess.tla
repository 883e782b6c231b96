------------------------ MODULE MCLoggedStateAccess ------------------------
(***************************************************************************)
(* Model-checking instance of LoggedStateAccess: a 128-word machine state  *)
(* (64 shadow words and 64 of memory), a tuple-constructor hasher and a    *)
(* leaf hash that tags the word, so that equal hashes mean equal inputs.   *)
(***************************************************************************)
EXTENDS LoggedStateAccess

CONSTANT NoArg

MCConcatHash(left, right) == <<left, right>>

MCLeafHash(w) == [word |-> w]

MCZeroWordHash == MCLeafHash(0)

MCRegs == {1}

MCPaddrs == {512, 1016}

=============================================================================
