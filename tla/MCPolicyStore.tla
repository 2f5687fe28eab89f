--------------------------- MODULE MCPolicyStore ----------------------------
(* Instances of PolicyStore for TLC.                                       *)
EXTENDS PolicyStore

CONSTANTS u1, t1
=============================================================================
