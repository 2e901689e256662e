------------------------------ MODULE Prompter ------------------------------
(***************************************************************************)
(* Panel.Confirm (fyneui/prompter.go): a question put in a dialog that the *)
(* Fyne goroutine draws, while the caller's goroutine waits for an answer, *)
(* for its context, or for a watchdog.                                     *)
(*                                                                         *)
(* Each call has its own channel, Once and atomics; the calls share the    *)
(* Fyne goroutine and its queue. A step is one atomic operation, one       *)
(* channel operation or one call into Fyne. Callers run on goroutines of   *)
(* their own, except those in OnUI, which a host has wrongly called from a *)
(* widget callback: they hold the Fyne goroutine until they return.        *)
(***************************************************************************)
EXTENDS Sequences, Naturals

CONSTANTS Calls, \* the calls of Confirm
          OnUI,  \* the calls made from the Fyne goroutine
          NoWin  \* the calls on a panel that has no window

ASSUME PrompterAssumption == OnUI \subseteq Calls /\ NoWin \subseteq Calls

VARIABLES pc,        \* where the calling goroutine is
          ctxDone,   \* is ctx done?
          result,    \* what Confirm returned
          answer,    \* the one-slot answer channel: "empty", "yes", "no"
          once,      \* has reply's Once run?
          shown, cancelled,  \* the atomics; dlg is set along with shown
          watchdog,  \* "none", "armed", "fired", or "off" once it is nil
          visible,   \* is the dialog on screen? (Fyne's state)
          said,      \* history: what the person tapped
          queue,     \* closures handed to fyne.Do and not run yet
          ui         \* what the Fyne goroutine is doing

atomics == <<shown, cancelled>>
vars == <<pc, ctxDone, result, answer, once, atomics, watchdog, visible, said, queue, ui>>

-----------------------------------------------------------------------------
Ready == [call |-> "none", at |-> "ready"]
At(c, a) == [call |-> c, at |-> a]
Closure(c, o) == [call |-> c, op |-> o]
Put(f, c, v) == [f EXCEPT ![c] = v]

Init == /\ pc = [c \in Calls |-> "idle"]
        /\ ctxDone \in [Calls -> BOOLEAN]
        /\ result = [c \in Calls |-> "none"]
        /\ answer = [c \in Calls |-> "empty"]
        /\ once = [c \in Calls |-> FALSE]
        /\ shown = [c \in Calls |-> FALSE]
        /\ cancelled = [c \in Calls |-> FALSE]
        /\ watchdog = [c \in Calls |-> "none"]
        /\ visible = [c \in Calls |-> FALSE]
        /\ said = [c \in Calls |-> "nothing"]
        /\ queue = << >>
        /\ ui = Ready

\* Confirm returns r. A call from a widget callback gives the Fyne goroutine back.
Return(c, r) ==
  /\ pc' = Put(pc, c, "done") /\ result' = Put(result, c, r)
  /\ ui' = IF c \in OnUI THEN Ready ELSE ui

-----------------------------------------------------------------------------
\* Confirm, up to handing the dialog to the Fyne goroutine.
Confirm(c) ==
  /\ pc[c] = "idle"
  /\ c \in OnUI => ui = Ready
  /\ IF c \in NoWin THEN Return(c, "prompt") /\ UNCHANGED queue
     ELSE IF ctxDone[c] THEN Return(c, "ctx") /\ UNCHANGED queue
     ELSE /\ pc' = Put(pc, c, "arm")
          /\ ui' = IF c \in OnUI THEN At(c, "held") ELSE ui
          /\ queue' = Append(queue, Closure(c, "show"))
          /\ UNCHANGED result
  /\ UNCHANGED <<ctxDone, answer, once, atomics, watchdog, visible, said>>

\* watchdog := w.after(...).
Arm(c) ==
  /\ pc[c] = "arm"
  /\ pc' = Put(pc, c, "select") /\ watchdog' = Put(watchdog, c, "armed")
  /\ UNCHANGED <<ctxDone, result, answer, once, atomics, visible, said, queue, ui>>

\* A mutant of TakeAnswer: a receive that does not wait.
TakeAnswerPolling(c) ==
  /\ pc[c] = "select"
  /\ Return(c, answer[c])
  /\ answer' = Put(answer, c, "empty")
  /\ UNCHANGED <<ctxDone, once, atomics, watchdog, visible, said, queue>>

\* The select: any case that is ready may be taken.
TakeAnswer(c) ==
  /\ pc[c] = "select" /\ answer[c] # "empty"
  /\ Return(c, answer[c])
  /\ answer' = Put(answer, c, "empty")
  /\ UNCHANGED <<ctxDone, once, atomics, watchdog, visible, said, queue>>

TakeDone(c) ==
  /\ pc[c] = "select" /\ ctxDone[c]
  /\ pc' = Put(pc, c, "withdraw") /\ cancelled' = Put(cancelled, c, TRUE)
  /\ UNCHANGED <<ctxDone, result, answer, once, shown, watchdog, visible, said, queue, ui>>

\* Mutants of Withdraw: the dialog is not hidden; or Confirm goes on waiting
\* for the answer that hiding it sends.
WithdrawQuietly(c) ==
  /\ pc[c] = "withdraw"
  /\ Return(c, "ctx")
  /\ UNCHANGED <<ctxDone, answer, once, atomics, watchdog, visible, said, queue>>
WithdrawAndWait(c) ==
  /\ pc[c] = "withdraw"
  /\ pc' = Put(pc, c, "select")
  /\ queue' = Append(queue, Closure(c, "hide"))
  /\ UNCHANGED <<ctxDone, result, answer, once, atomics, watchdog, visible, said, ui>>

\* The rest of the ctx.Done case: hide the dialog, if it was ever made.
Withdraw(c) ==
  /\ pc[c] = "withdraw"
  /\ queue' = Append(queue, Closure(c, "hide"))
  /\ Return(c, "ctx")
  /\ UNCHANGED <<ctxDone, answer, once, atomics, watchdog, visible, said>>

\* A mutant of TakeWatchdog: the watchdog always stands down.
TakeWatchdogPatient(c) ==
  /\ pc[c] = "select" /\ watchdog[c] = "fired"
  /\ watchdog' = Put(watchdog, c, "off")
  /\ UNCHANGED <<pc, ctxDone, result, answer, once, atomics, visible, said, queue, ui>>

\* The watchdog case reads shown: with the dialog up it stands down ...
TakeWatchdog(c) ==
  /\ pc[c] = "select" /\ watchdog[c] = "fired"
  /\ watchdog' = Put(watchdog, c, "off")
  /\ pc' = IF shown[c] THEN pc ELSE Put(pc, c, "expire")
  /\ UNCHANGED <<ctxDone, result, answer, once, atomics, visible, said, queue, ui>>

\* ... and otherwise Confirm gives up.
Expire(c) ==
  /\ pc[c] = "expire"
  /\ cancelled' = Put(cancelled, c, TRUE)
  /\ Return(c, "prompt")
  /\ UNCHANGED <<ctxDone, answer, once, shown, watchdog, visible, said, queue>>

-----------------------------------------------------------------------------
\* The Fyne goroutine takes the next closure.
Take ==
  /\ ui = Ready /\ queue # << >>
  /\ ui' = At(Head(queue).call, Head(queue).op)
  /\ queue' = Tail(queue)
  /\ UNCHANGED <<pc, ctxDone, result, answer, once, atomics, watchdog, visible, said>>

\* The show closure: look at cancelled, store dlg and shown, show the dialog.
ShowChecks(c) ==
  /\ ui = At(c, "show")
  /\ ui' = IF cancelled[c] THEN Ready ELSE At(c, "store")
  /\ UNCHANGED <<pc, ctxDone, result, answer, once, atomics, watchdog, visible, said, queue>>

ShowStores(c) ==
  /\ ui = At(c, "store")
  /\ ui' = At(c, "display") /\ shown' = Put(shown, c, TRUE)
  /\ UNCHANGED <<pc, ctxDone, result, answer, once, cancelled, watchdog, visible, said, queue>>

ShowDisplays(c) ==
  /\ ui = At(c, "display")
  /\ ui' = Ready /\ visible' = Put(visible, c, TRUE)
  /\ UNCHANGED <<pc, ctxDone, result, answer, once, atomics, watchdog, said, queue>>

\* The hide closure. Fyne fires the dialog's callback on every Hide.
HideRuns(c) ==
  /\ ui = At(c, "hide")
  /\ IF shown[c] THEN ui' = At(c, "no") /\ visible' = Put(visible, c, FALSE)
     ELSE ui' = Ready /\ UNCHANGED visible
  /\ UNCHANGED <<pc, ctxDone, result, answer, once, atomics, watchdog, said, queue>>

\* The person taps one of the two buttons; the dialog hides and fires its callback.
Tap(c, v) ==
  /\ ui = Ready /\ visible[c]
  /\ ui' = At(c, v) /\ visible' = Put(visible, c, FALSE)
  /\ said' = Put(said, c, v)
  /\ UNCHANGED <<pc, ctxDone, result, answer, once, atomics, watchdog, queue>>

\* A mutant of Reply: no Once around the send.
ReplyEveryTime(c) ==
  /\ ui \in {At(c, "yes"), At(c, "no")}
  /\ answer[c] = "empty"
  /\ answer' = Put(answer, c, ui.at)
  /\ once' = Put(once, c, TRUE) /\ ui' = Ready
  /\ UNCHANGED <<pc, ctxDone, result, atomics, watchdog, visible, said, queue>>

\* reply: the first send fills the buffer, and the Once absorbs the others. A
\* send on a full channel would block the Fyne goroutine.
Reply(c) ==
  /\ ui \in {At(c, "yes"), At(c, "no")}
  /\ \/ once[c] /\ UNCHANGED <<answer, once>>
     \/ /\ ~once[c] /\ answer[c] = "empty"
        /\ answer' = Put(answer, c, ui.at) /\ once' = Put(once, c, TRUE)
  /\ ui' = Ready
  /\ UNCHANGED <<pc, ctxDone, result, atomics, watchdog, visible, said, queue>>

-----------------------------------------------------------------------------
\* The caller cancels, and the timer runs out.
CtxEnds(c) ==
  /\ ~ctxDone[c]
  /\ ctxDone' = Put(ctxDone, c, TRUE)
  /\ UNCHANGED <<pc, result, answer, once, atomics, watchdog, visible, said, queue, ui>>

Fire(c) ==
  /\ watchdog[c] = "armed"
  /\ watchdog' = Put(watchdog, c, "fired")
  /\ UNCHANGED <<pc, ctxDone, result, answer, once, atomics, visible, said, queue, ui>>

CallStep(c) == \/ Arm(c) \/ TakeAnswer(c) \/ TakeDone(c) \/ Withdraw(c)
               \/ TakeWatchdog(c) \/ Expire(c)
UIStep(c) == ShowChecks(c) \/ ShowStores(c) \/ ShowDisplays(c) \/ HideRuns(c) \/ Reply(c)
Person(c) == \E v \in {"yes", "no"} : Tap(c, v)

Next == \/ \E c \in Calls : Confirm(c) \/ CallStep(c) \/ UIStep(c) \/ Person(c)
                            \/ CtxEnds(c) \/ Fire(c)
        \/ Take

Spec == Init /\ [][Next]_vars

\* Goroutines run on and timers run out; a person need not answer, nobody has
\* to cancel, and a select does not pass over a done context for ever.
GoFairness == \A c \in Calls : WF_vars(CallStep(c)) /\ WF_vars(Fire(c))
\* The Fyne goroutine may stop at any moment.
FairSpec == Spec /\ GoFairness
\* It finishes what it has begun: what a property assumes that needs it to.
UIServes == \A c \in Calls : WF_vars(UIStep(c))

-----------------------------------------------------------------------------
Closures == [call : Calls, op : {"show", "hide"}]
UIStates == {Ready} \cup [call : Calls, at : {"held", "show", "store", "display",
                                             "hide", "yes", "no"}]

\* Every variable stays in its type (prompter.go Confirm).
TypeOK ==
  /\ pc \in [Calls -> {"idle", "arm", "select", "withdraw", "expire", "done"}]
  /\ ctxDone \in [Calls -> BOOLEAN]
  /\ result \in [Calls -> {"none", "yes", "no", "ctx", "prompt"}]
  /\ answer \in [Calls -> {"empty", "yes", "no"}]
  /\ once \in [Calls -> BOOLEAN]
  /\ shown \in [Calls -> BOOLEAN] /\ cancelled \in [Calls -> BOOLEAN]
  /\ watchdog \in [Calls -> {"none", "armed", "fired", "off"}]
  /\ visible \in [Calls -> BOOLEAN]
  /\ said \in [Calls -> {"nothing", "yes", "no"}]
  /\ queue \in Seq(Closures)
  /\ ui \in UIStates

\* Nobody's permission is made up: a call returns true, or a plain false, only
\* if the person tapped that button of that call's dialog, and each call ends
\* once (prompter.go: "A cancelled prompt is a refusal, not a silent yes").
Asked == INSTANCE Consent WITH withdrawn <- ctxDone
ImplementsConsent == Asked!Spec

\* Nothing of the call is left for the Fyne goroutine to do.
Unwound(c) == /\ \A i \in 1 .. Len(queue) : queue[i].call # c
              /\ ui = Ready \/ ui.call # c

\* A call that ended because it was answered or its context was done leaves no
\* dialog behind, however the cancellation raced the dialog's drawing
\* (prompter.go: "would strand it on screen").
AnsweredLeavesNoDialog ==
  \A c \in Calls : result[c] \in {"yes", "no", "ctx"} /\ Unwound(c) => ~visible[c]

\* The Fyne goroutine always gets free again: no reply blocks it, and a call
\* made from it by mistake unwinds (prompter.go: "the event loop unwinds
\* instead of hanging forever").
UIGetsFree == UIServes => (ui # Ready ~> ui = Ready)

\* With an interface that may never draw, a call ends by itself or has reached
\* a dialog a person may read (prompter.go, the watchdog).
CallUnwinds == \A c \in Calls : (pc[c] # "idle") ~> (pc[c] = "done" \/ shown[c])

\* A withdrawn question ends, dialog up or not (prompter.go Confirm: "blocks
\* until they answer, the context is done").
WithdrawnReturns == \A c \in Calls : (pc[c] # "idle" /\ ctxDone[c]) ~> (pc[c] = "done")

-----------------------------------------------------------------------------
\* What a comment says and the code does not do: "Showing a dialog nobody is
\* waiting for would strand it on screen", which the check of cancelled is to
\* prevent.
NoStrandedDialog == \A c \in Calls : result[c] # "none" /\ Unwound(c) => ~visible[c]

=============================================================================
