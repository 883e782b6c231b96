------------------------ MODULE MCLuaMachineBinding ------------------------
(***************************************************************************)
(* Model-checking instance of LuaMachineBinding: two addresses, so a       *)
(* freed address is handed out again while a stale pointer may still      *)
(* point to it; a cmio reason that fits in uint16 and one that does not.   *)
(***************************************************************************)
EXTENDS LuaMachineBinding

CONSTANTS o1, o2

MCObjs == {o1, o2}

MCReasons == {1, 65537}

=============================================================================
