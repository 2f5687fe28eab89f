------------------------------ MODULE MCSuLogs ------------------------------
(* Instances of SuLogs for TLC.                                            *)
EXTENDS SuLogs

CONSTANTS ls, e1, d1

Row(c, null, v, timed, flags, id) ==
  [command |-> c, null |-> null, policy |-> v, timed |-> timed,
   flags |-> flags, rowid |-> id]

(* No row; an old approval, a refusal under the same null command and a    *)
(* row for one command; a refusal that is timed.                           *)
Tables ==
  {{},
   {Row(AllCommands, TRUE, "allow", FALSE, Names, 1),
    Row(AllCommands, TRUE, "deny", FALSE, {"tell"}, 2),
    Row(ls, FALSE, "allow", FALSE, Names, 3)},
   {Row(AllCommands, TRUE, "allow", FALSE, Names, 1),
    Row(AllCommands, TRUE, "deny", TRUE, Names, 2)}}

Choices == {NoSettings, [NoSettings EXCEPT !["log"] = "off"],
            [NoSettings EXCEPT !["tell"] = "off"]}

OneDecision == [d \in {d1} |-> ls]
=============================================================================
