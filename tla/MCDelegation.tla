---------------------------- MODULE MCDelegation ----------------------------
(* An instance of Delegation: a skill that names no tools, one that may    *)
(* only delegate, one that asks the user and one that is only suggested.   *)
EXTENDS Delegation

CONSTANTS plan, review, office, hint

MCDef ==
  [s \in Skills |->
     [allowed |-> CASE s = review -> {"subagent"}
                    [] s = office -> {"ask_user_question", "subagent"}
                    [] OTHER -> {},
      suggest_only |-> s = hint,
      parameters |-> s = review]]
=============================================================================
