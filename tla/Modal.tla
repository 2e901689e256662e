------------------------------- MODULE Modal --------------------------------
(***************************************************************************)
(* fyneui.Modal: a Panel inside a dialog over the host's window, and the   *)
(* decision when that dialog is on screen (fyneui/modal.go).               *)
(*                                                                         *)
(* Module Panel is extended: the closures that Show, Hide and Reset hand   *)
(* to fyne.Do share its queue with the panel's renders, and every render   *)
(* ends in afterRender. One goroutine, Driver, runs the transactions: it   *)
(* calls Reset before each, and reports its events, as README.md asks; any *)
(* goroutine may call Show (as Confirm does) and Hide, and the host Close. *)
(***************************************************************************)
EXTENDS Host

CONSTANT Methods \* which of "show", "hide", "reset", "close" the host calls

ASSUME ModalAssumption == Methods \subseteq {"show", "hide", "reset", "close"}

VARIABLES shown,     \* Modal.shown
          dismissed, \* Modal.dismissed
          visible,   \* is the dialog on the window's overlay? (Fyne's state)
          todo,      \* closures a call of Reset has still to queue
          refused    \* history: a person closed the dialog, or the host hid it,
                     \* and neither a Show nor a Reset has run since

dialog == <<shown, dismissed, visible, refused>>
modalVars == <<vars, dialog, todo>>

\* newModal: the panel is started before anyone else holds the modal.
ModalInit ==
  /\ StartedInit
  /\ shown = FALSE /\ dismissed = FALSE /\ visible = FALSE /\ refused = FALSE
  /\ todo = [t \in Threads |-> << >>]

Free(t) == pc[t] = "idle" /\ todo[t] = << >>
UIStep == UNCHANGED <<model, kick, control, pump, held, pc, todo>>
ClosureOf(op) == [op |-> op, snap |-> NoSnap]

-----------------------------------------------------------------------------
\* OnEvent adds nothing to the panel's.
ModalOnEvent(t, e) == t = Driver /\ Free(t) /\ OnEvent(t, e) /\ UNCHANGED <<dialog, todo>>

\* Show and Hide, on any goroutine: one closure each.
HostDo(t, op) ==
  /\ Free(t) /\ op \in Methods /\ Len(queue) < MaxQueue
  /\ Do(ClosureOf(op))
  /\ UNCHANGED <<model, kick, control, pump, held, screen, pc, dialog, todo>>

\* A mutant of ModalReset: the dismissal of the last transaction is kept.
ModalResetKeeping(t) ==
  /\ t = Driver /\ Free(t) /\ "reset" \in Methods
  /\ Reset(t)
  /\ todo' = [todo EXCEPT ![t] = <<"away">>]
  /\ UNCHANGED dialog

\* Reset: the panel's, then a Hide ("away" in the queue, to tell it from the
\* host's own), then a closure that forgets the dismissal.
ModalReset(t) ==
  /\ t = Driver /\ Free(t) /\ "reset" \in Methods
  /\ Reset(t)
  /\ todo' = [todo EXCEPT ![t] = <<"away", "undismiss">>]
  /\ UNCHANGED dialog

ResetDo(t) ==
  /\ pc[t] = "idle" /\ todo[t] # << >>
  /\ Do(ClosureOf(Head(todo[t])))
  /\ todo' = [todo EXCEPT ![t] = Tail(@)]
  /\ UNCHANGED <<model, kick, control, pump, held, screen, pc, dialog>>

\* Close is the panel's, and the host's to call; what becomes of two calls of it
\* at once is module Panel's subject.
ModalClose(t) ==
  /\ t # Driver /\ Free(t) /\ "close" \in Methods
  /\ Close(t)
  /\ UNCHANGED <<dialog, todo>>

-----------------------------------------------------------------------------
\* showHere, on the Fyne goroutine: a no-op when the flag says it is up.
ShowHere == shown' = TRUE /\ visible' = (visible \/ ~shown)

\* A mutant of OnClosed: the dismissal is not recorded.
OnClosedForgotten == shown' = FALSE /\ dismissed' = FALSE

\* onClosed, called by Hide and by Fyne whenever the dialog is hidden.
OnClosed == shown' = FALSE /\ dismissed' = TRUE

\* Every render ends in afterRender.
AfterRender(s) ==
  IF s.seq = 0 \/ s.phase \in {"", "check"} \/ dismissed
  THEN UNCHANGED dialog
  ELSE ShowHere /\ UNCHANGED <<dismissed, refused>>

ModalRender ==
  /\ Render
  /\ AfterRender(Head(queue).snap)
  /\ UNCHANGED todo

RunShow ==
  /\ queue # << >> /\ Head(queue).op = "show"
  /\ queue' = Tail(queue)
  /\ ShowHere /\ dismissed' = FALSE /\ refused' = FALSE
  /\ UNCHANGED screen /\ UIStep

\* A mutant of RunHide: only the flags change.
RunHideFlagOnly ==
  /\ queue # << >> /\ Head(queue).op \in {"hide", "away"}
  /\ queue' = Tail(queue)
  /\ OnClosed
  /\ refused' = (refused \/ Head(queue).op = "hide")
  /\ UNCHANGED <<visible, screen>> /\ UIStep

RunHide ==
  /\ queue # << >> /\ Head(queue).op \in {"hide", "away"}
  /\ queue' = Tail(queue)
  /\ OnClosed
  /\ visible' = IF shown THEN FALSE ELSE visible
  /\ refused' = (refused \/ Head(queue).op = "hide")
  /\ UNCHANGED screen /\ UIStep

RunUndismiss ==
  /\ queue # << >> /\ Head(queue).op = "undismiss"
  /\ queue' = Tail(queue)
  /\ dismissed' = FALSE /\ refused' = FALSE
  /\ UNCHANGED <<shown, visible, screen>> /\ UIStep

\* A person taps the dialog's own button.
UserCloses ==
  /\ visible
  /\ visible' = FALSE /\ OnClosed /\ refused' = TRUE
  /\ UNCHANGED <<queue, screen>> /\ UIStep

-----------------------------------------------------------------------------
ModalBegin(t) == \/ \E e \in Events : ModalOnEvent(t, e)
                 \/ \E op \in {"show", "hide"} : HostDo(t, op)
                 \/ ModalReset(t) \/ ModalClose(t)
ModalCallStep(t) == (CallStep(t) /\ UNCHANGED <<dialog, todo>>) \/ ResetDo(t)
ModalPump == PumpStep /\ UNCHANGED <<dialog, todo>>
FyneStep == ModalRender \/ RunShow \/ RunHide \/ RunUndismiss

ModalNext == \/ \E t \in Threads : ModalBegin(t) \/ ModalCallStep(t)
             \/ ModalPump \/ FyneStep \/ UserCloses

ModalSpec == ModalInit /\ [][ModalNext]_modalVars

-----------------------------------------------------------------------------
\* The flag the modal decides by is what the window shows: otherwise showHere
\* would skip a raise, or Hide leave the dialog up (modal.go shown).
FlagIsTruth == shown = visible

\* A dialog a person closed, or the host hid, stays away, whatever renders were
\* already queued, until a Show or a Reset has run (modal.go: "a dialog that was dismissed
\* stays dismissed").
RefusalHolds == refused => ~visible

\* Once nothing is under way, an update past the check is on screen, unless it
\* was taken away on purpose (modal.go: "The modal raises itself"; Reset: "did
\* not thereby opt out of seeing the next").
Quiet == Settled /\ \A t \in Threads : todo[t] = << >>
NewsIsShown == Quiet /\ snap.phase \notin {"", "check"} => visible \/ refused

\* What modal.go says of Reset, "takes the modal away, so the next update
\* raises it again on its own": with no news since the Reset and nothing under
\* way, no dialog is up.
ResetTakesAway == Quiet /\ snap.run > 0 /\ snap.seq = 0 => ~visible

=============================================================================
