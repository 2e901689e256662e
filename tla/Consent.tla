------------------------------- MODULE Consent ------------------------------
(***************************************************************************)
(* What asking for permission to install promises (hook.Prompter): every   *)
(* call ends at most once, it ends in "yes" or "no" only when the person   *)
(* said so, and otherwise in an error: "ctx" when the caller has withdrawn *)
(* the question, "prompt" when it could not be put.                        *)
(***************************************************************************)
CONSTANT Calls

VARIABLES said,      \* what the person answered to each call's dialog
          withdrawn, \* is the context of the call done?
          result     \* what the call returned

vars == <<said, withdrawn, result>>

Init == /\ said = [c \in Calls |-> "nothing"]
        /\ withdrawn \in [Calls -> BOOLEAN]
        /\ result = [c \in Calls |-> "none"]

Say(c) == /\ said[c] = "nothing"
          /\ \E v \in {"yes", "no"} : said' = [said EXCEPT ![c] = v]
          /\ UNCHANGED <<withdrawn, result>>

Withdraw(c) == /\ withdrawn' = [withdrawn EXCEPT ![c] = TRUE]
               /\ UNCHANGED <<said, result>>

Return(c) == /\ result[c] = "none"
             /\ \E r \in {"prompt"} \cup {said[c]} \cup (IF withdrawn[c] THEN {"ctx"} ELSE {}) :
                  r # "nothing" /\ result' = [result EXCEPT ![c] = r]
             /\ UNCHANGED <<said, withdrawn>>

Next == \E c \in Calls : Say(c) \/ Withdraw(c) \/ Return(c)

Spec == Init /\ [][Next]_vars

=============================================================================
