------------------------- MODULE MCAccessDecision ---------------------------
(* Instances of AccessDecision for TLC.                                    *)
EXTENDS AccessDecision

(* A stock build, and every CyanogenMod build the gates tell apart.        *)
AllDevices ==
  {d \in [sdk : {16, 19}, embedded : BOOLEAN, cm : BOOLEAN,
          debuggable : BOOLEAN, eng : BOOLEAN, access : Access] :
     ~d.embedded \/ ~d.cm => d.debuggable /\ ~d.eng /\ d.access = "unset"}

(* Rows in force for ever, expired, in force for a time for this command,  *)
(* and for another command; every sequence of at most MaxRows of them.     *)
AllRows == {r \in [policy : {"allow", "deny", "interactive"},
                  until : {0, Now, Now + 1},
                  command : {Command, AllCommands, "other"}] : <<r.until, r.command>> \in
              {<<0, AllCommands>>, <<Now, AllCommands>>, <<Now + 1, Command>>,
               <<0, "other">>}}
AllTables == UNION {[1..n -> AllRows] : n \in 0..MaxRows}
=============================================================================
