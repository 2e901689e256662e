---------------------------- MODULE Transaction -----------------------------
(***************************************************************************)
(* One update after another on a Panel: the events arrive in the order     *)
(* idunn emits them, and the claims are about the progress bar.            *)
(*                                                                         *)
(* The updater itself is not under src/. Its order of events is modelled   *)
(* from what the code relies on: the comment on steps in fyneui/phase.go   *)
(* and the emit sites fyneui/phase_test.go lists.                          *)
(***************************************************************************)
EXTENDS Host

VARIABLES last,  \* what the updater reported last in this run
          ideal, \* history: the screen had every change been painted at once
          moved  \* history: the run of the last repaint that set the bar

txVars == <<vars, last, ideal, moved>>

\* The phases that may follow a phase when nothing fails: staging reports many
\* times, Migrate, VerifyAfterApply and gc are optional.
After == [start    |-> {"check"},
          check    |-> {"check", "download"},
          download |-> {"download", "quiesce"},
          quiesce  |-> {"migrate", "apply"},
          migrate  |-> {"apply"},
          apply    |-> {"verify", "commit"},
          verify   |-> {"commit"},
          commit   |-> {"gc"},
          gc       |-> {}]

\* The phase a failure is reported under: staging's has a name of its own.
FailsAs == [check |-> "check", download |-> "stage", quiesce |-> "quiesce",
            migrate |-> "migrate", apply |-> "apply", verify |-> "verify",
            commit |-> "gc"]

Begun == [phase |-> "start", failed |-> FALSE]

\* May the updater report e after l?
Emits(l, e) ==
  \/ /\ ~l.failed /\ e.err = NoErr
     /\ e.phase \in After[l.phase]
     /\ e.progress >= 0 <=> e.phase = "download"
  \/ /\ ~l.failed /\ e.err # NoErr /\ e.progress = -1
     /\ l.phase \in DOMAIN FailsAs /\ e.phase = FailsAs[l.phase]
  \/ /\ l.failed /\ l.phase \in {"quiesce", "migrate", "apply", "verify"}
     /\ e.phase = "rollback" /\ e.progress = -1

TxInit == StartedInit /\ last = Begun /\ ideal = Idle(0, 0) /\ moved = 0

Report(e) ==
  /\ Emits(last, e) /\ Len(queue) < MaxQueue
  /\ OnEvent(Driver, e)
  /\ last' = [phase |-> e.phase, failed |-> last.failed \/ e.err # NoErr]
  /\ ideal' = Painted(ideal, snap')
  /\ UNCHANGED moved

\* A run that is over: it failed, found nothing to install, or committed.
Over == last.failed \/ last.phase \in {"check", "commit", "gc"}

\* The host resets the panel before the next run (README.md, rule 3).
NextRun ==
  /\ Over /\ Len(queue) < MaxQueue
  /\ Reset(Driver)
  /\ last' = Begun
  /\ ideal' = Painted(ideal, snap')
  /\ UNCHANGED moved

Elsewhere == (Nudge(Driver) \/ PumpStep) /\ UNCHANGED <<last, ideal, moved>>

\* Does painting s set the bar, or leave it where it is?
Sets(s) == s.seq = 0 \/ Fraction(s) # Hold

\* A repaint, with the run that the bar is of from now on.
TxRender ==
  /\ Render
  /\ moved' = IF Sets(Head(queue).snap) THEN Head(queue).snap.run ELSE moved
  /\ UNCHANGED <<last, ideal>>

TxNext == \/ \E e \in Events : Report(e)
          \/ NextRun
          \/ Elsewhere
          \/ TxRender

TxSpec == TxInit /\ [][TxNext]_txVars

-----------------------------------------------------------------------------
\* Within a run the bar goes back only while the release is being staged,
\* where core discards bytes or reports a failure, however the repaints
\* coalesce (phase.go steps: "would drive the bar backwards").
BarAdvances ==
  [][screen'.run = screen.run /\ screen'.bar < screen.bar
       => screen'.phase \in {"download", "stage"}]_txVars

\* An update that committed and did not fail ends on a full bar (phase.go
\* Fraction: "a bar left at nine tenths is how a completed install looks
\* unfinished").
CommittedIsFull ==
  Settled /\ snap.done /\ snap.err = NoErr /\ snap.phase # "rollback"
    => screen.bar = BarFull

\* Coalescing never credits a run with more than it has done: once a repaint of the
\* run has set the bar, the bar is no further than painting every change would have
\* brought it by now, and so a rollback holds it where the update got to or below it.
\* Staging is left out, where core may take progress back, and so is a bar no
\* repaint of the run has set: that one still stands where the run before left it
\* (observer.go render: "the value is held and only the wording changes").
BarIsEarned ==
  moved = snap.run /\ snap.phase \notin {"download", "stage"} => screen.bar <= ideal.bar

=============================================================================
