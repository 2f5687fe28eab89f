----------------------------- MODULE MCPtsPump ------------------------------
(* Instances of PtsPump for TLC.                                           *)
EXTENDS PtsPump

(* A shell at a terminal, and one of which only one stream is a terminal.  *)
AllTtys == {{"in", "out", "err"}, {"in"}, {"out"}}

(* One whose output goes to a file.                                        *)
Redirected == {{"in", "err"}}
=============================================================================
