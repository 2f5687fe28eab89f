---------------------------- MODULE MCSuRequest -----------------------------
(* Instances of SuRequest for TLC.                                         *)
EXTENDS SuRequest, TLC

(* Everything the settings can be, and the plain prompt.                   *)
AllSettings == [response : {"prompt", "ALLOW", "DENY"},
                requirePermission : BOOLEAN,
                pin : BOOLEAN]

Prompt == [response |-> "prompt", requirePermission |-> FALSE, pin |-> FALSE]
PromptOnly == {Prompt}

(* Whatever may be invoked; and several invocations of one kind under the  *)
(* plain prompt beside a single one of any kind under other settings.      *)
AllCalls == [su : Su, uid : Uid, target : Target, settings : Settings]
Single == CHOOSE s \in Su : TRUE
PlainOrSingle ==
  {k \in AllCalls :
     IF k.settings = Prompt THEN k.uid \in Declared \ Granted /\ k.target \in Readable
                            ELSE k.su = Single}

Symmetry == Permutations(Su) \cup Permutations(Act) \cup Permutations(Pid)
=============================================================================
