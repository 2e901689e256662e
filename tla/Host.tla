-------------------------------- MODULE Host ---------------------------------
(***************************************************************************)
(* What a program that embeds a panel is asked for: it starts the panel    *)
(* before anyone else holds it, and one of its goroutines runs the updater *)
(* and reports the events (README.md; fyneui/modal.go newModal).           *)
(***************************************************************************)
EXTENDS Panel

CONSTANTS Driver,  \* the goroutine that runs the updater
          MaxQueue \* bound of the model: the host adds nothing above this backlog

ASSUME HostAssumption == Driver \in Threads /\ MaxQueue \in Nat \ {0}

\* The panel as Start leaves it, before any event.
StartedInit == /\ snap = EmptyModel(0, 0)
               /\ ring = << >>
               /\ kick = TRUE
               /\ started = TRUE /\ stop = FALSE
               /\ once = "fresh" /\ sawStarted = FALSE
               /\ pump = "select" /\ held = EmptyModel(0, 0)
               /\ queue = << >>
               /\ screen = Idle(0, 0)
               /\ pc = [t \in Threads |-> "idle"]

=============================================================================
