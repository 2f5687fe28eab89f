----------------------------- MODULE MCSuDaemon -----------------------------
(* Instances of SuDaemon for TLC.                                          *)
EXTENDS SuDaemon, TLC

CONSTANTS c1, c2

(* A shell on a terminal, and a command of which one word is dropped.      *)
Shell == [args |-> <<"su">>, mount |-> FALSE, tty |-> TRUE]
Command == [args |-> <<"su", "x", "y">>, mount |-> TRUE, tty |-> FALSE]

Invokers == c1 :> 2000 @@ c2 :> 10001

(* The shell's su is root in effect, an app's is not (su.c:799).           *)
Effective == c1 :> 0 @@ c2 :> 10001
Calls == c1 :> Shell @@ c2 :> Command
=============================================================================
