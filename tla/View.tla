-------------------------------- MODULE View --------------------------------
(***************************************************************************)
(* What a panel promises the person looking at it, whatever goroutines and *)
(* queues lie between the updater and the widgets: the screen shows some   *)
(* version of the model that really existed, and it never goes back to an  *)
(* older one. Versions count every change of the model, events and resets  *)
(* alike.                                                                  *)
(***************************************************************************)
EXTENDS Naturals

VARIABLES latest, \* the newest version of the model
          shown   \* the version on screen

vars == <<latest, shown>>

Init == latest = 0 /\ shown = 0

Publish == latest' = latest + 1 /\ UNCHANGED shown

Paint == shown' \in shown .. latest /\ UNCHANGED latest

Next == Publish \/ Paint

Spec == Init /\ [][Next]_vars

=============================================================================
