----------------------------- MODULE DemoWindow ------------------------------
(***************************************************************************)
(* The demo's screen (internal/demoui) over an installation on disk, the   *)
(* fixture channel it follows (internal/fixture, cmd/demo) and the work it *)
(* hands to fyneui.Run.                                                    *)
(*                                                                         *)
(* Widget callbacks and the done closures run on the Fyne goroutine, one   *)
(* at a time; the work runs on a goroutine of its own. The updater and the *)
(* launcher are external: their steps are what this screen relies on. What *)
(* the panel shows meanwhile is module Panel, and how the person is asked  *)
(* is module Prompter; here Apply asks, and waits for as long as it takes. *)
(***************************************************************************)
EXTENDS Explain, Integers

CONSTANTS CheckErrs,  \* what a check may fail with
          Refusals,   \* what an install that changed nothing may fail with
          Deferrals,  \* what an install that waits for a restart returns
          StartErrs,  \* what finishing the pending update may fail with
          MaxTasks    \* bound of the model: works in flight

Failures == (SUBSET Sentinels) \ {Nil}

ASSUME DemoAssumption ==
  /\ MaxTasks \in Nat \ {0}
  /\ CheckErrs \cup Refusals \cup Deferrals \cup StartErrs \subseteq Failures
  /\ \A e \in Deferrals : "deferred" \in e /\ \A i \in DOMAIN CasesBefore :
                                                CasesBefore[i].sentinels \cap e = {}
  /\ \A e \in CheckErrs \cup Refusals \cup StartErrs : "deferred" \notin e

\* The two releases of the fixture, in their order, and no release.
None == 0
First == 1
Second == 2
Version == None .. Second

\* What a label says of a part of the disk that cannot be read.
Unreadable == -1

\* An updater.Release: its version, and the version it would replace.
Release == [version: Version, from: Version]
NoRelease == [version |-> None, from |-> None]

VARIABLES installed, pending, \* what is on disk
          seen,      \* the two labels that say so
          pretends,  \* --busy: is the application lock always held?
          head,      \* what the channel offers
          offered,   \* Window.offered, and what the card describes
          checkOn, installOn, restartOn, \* are the buttons enabled?
          status,    \* of which work the status line speaks, and what Explain makes of
                     \* its outcome; the line itself shows the wording only
          tasks,     \* fyneui.Run's goroutines, and their results on the way back
          did        \* history: what the work that ended last did to the disk

disk == <<installed, pending>>
buttons == <<checkOn, installOn, restartOn>>
vars == <<disk, seen, pretends, head, offered, buttons, status, tasks, did>>

Says(work, outcome, severity) == [work |-> work, outcome |-> outcome, severity |-> severity]

\* report: what Explain makes of an error.
Reported(work, err) == Says(work, Explained(err).class, Explained(err).severity)

Task(work, rel) == [work |-> work, rel |-> rel, at |-> "work", err |-> Nil, res |-> "none"]

-----------------------------------------------------------------------------
\* The labels, where r is which of the two reads succeed.
Labels(r, onDisk, waiting) ==
  [installed |-> IF "installed" \in r THEN onDisk ELSE Unreadable,
   pending   |-> IF "pending" \in r THEN waiting ELSE Unreadable]

Reads == SUBSET {"installed", "pending"}

\* A mutant of RefreshState: the button is left as it was.
RefreshStateLabels ==
  /\ \E r \in Reads : seen' = Labels(r, installed, pending)
  /\ UNCHANGED restartOn

\* Window.refreshState: re-reads the disk, which may fail.
RefreshState ==
  /\ \E r \in Reads : seen' = Labels(r, installed, pending)
  /\ restartOn' = (seen'.pending \notin {None, Unreadable})

\* A mutant of Free: busy(false) enables all that busy(true) disabled.
FreeAll(enable) == checkOn' = TRUE /\ installOn' = TRUE /\ RefreshState

\* Window.busy(false), which leaves Install to a closure that has a release.
Free(enable) == checkOn' = TRUE /\ installOn' = (installOn \/ enable) /\ RefreshState

\* A mutant of Disable: busy forgets the third button.
DisableTwo == checkOn' = FALSE /\ installOn' = FALSE /\ UNCHANGED restartOn

\* Window.busy(true).
Disable == checkOn' = FALSE /\ installOn' = FALSE /\ restartOn' = FALSE

\* A tap that starts a work: busy, the status line, fyneui.Run.
Launch(work, rel) ==
  /\ Len(tasks) < MaxTasks
  /\ Disable
  /\ status' = Says(work, "started", "none")
  /\ tasks' = Append(tasks, Task(work, rel))
  /\ UNCHANGED <<disk, seen, pretends, head, offered, did>>

OnCheck == checkOn /\ Launch("check", NoRelease)
OnInstall == installOn /\ offered # NoRelease /\ Launch("install", offered)
OnRestart == restartOn /\ Launch("restart", NoRelease)

-----------------------------------------------------------------------------
\* Work i is done: rel is what it found or installed, err and res what it returns.
Works(i, rel, err, res) ==
  tasks' = [tasks EXCEPT ![i] = [@ EXCEPT !.at = "done", !.rel = rel, !.err = err, !.res = res]]

\* CheckForUpdate on the fixture: the head, unless it is installed already.
CheckWork(i) ==
  /\ tasks[i].work = "check" /\ tasks[i].at = "work"
  /\ \/ LET newer == IF head > installed THEN [version |-> head, from |-> installed] ELSE NoRelease
        IN  Works(i, newer, Nil, "none")
     \/ \E e \in CheckErrs : Works(i, NoRelease, e, "none")
  /\ UNCHANGED <<disk, seen, pretends, head, offered, buttons, status>>
  /\ did' = "nothing"

\* Apply has put its question and waits in Panel.Confirm. The dialog is up, so the
\* watchdog has stood down, and the context is one that never ends.
InstallAsks(i) ==
  /\ tasks[i].work = "install" /\ tasks[i].at = "work"
  /\ tasks' = [tasks EXCEPT ![i].at = "asked"]
  /\ UNCHANGED <<disk, seen, pretends, head, offered, buttons, status, did>>

\* The person taps yes or no.
Answer(i) ==
  /\ tasks[i].at = "asked"
  /\ \E answer \in {"agreed", "declined"} : tasks' = [tasks EXCEPT ![i].at = answer]
  /\ UNCHANGED <<disk, seen, pretends, head, offered, buttons, status, did>>

\* Apply ends: with a yes it may install, or leave the release for the next start
\* when an instance holds the lock. With a no, and before or after the question, it
\* may change nothing.
InstallWork(i) ==
  /\ tasks[i].work = "install" /\ tasks[i].at \in {"work", "agreed", "declined"}
  /\ LET rel == tasks[i].rel
         yes == tasks[i].at = "agreed"
     IN  \/ /\ yes /\ ~pretends /\ rel.from = installed
            /\ installed' = rel.version /\ pending' \in {pending, None} /\ did' = "installed"
            /\ Works(i, rel, Nil, "none")
         \/ /\ yes /\ pretends /\ rel.from = installed
            /\ pending' = rel.version /\ UNCHANGED installed /\ did' = "deferred"
            /\ \E e \in Deferrals : Works(i, rel, e, "none")
         \/ /\ UNCHANGED disk /\ did' = "nothing"
            /\ \E e \in Refusals : Works(i, rel, e, "none")
  /\ UNCHANGED <<seen, pretends, head, offered, buttons, status>>

\* launch.Start: it finishes what is pending, leaves it, or gives it up.
RestartWork(i) ==
  /\ tasks[i].work = "restart" /\ tasks[i].at = "work"
  /\ \/ /\ pending # None
        /\ installed' = pending /\ pending' = None /\ did' = "installed"
        /\ Works(i, NoRelease, Nil, "applied")
     \/ /\ pending # None /\ UNCHANGED disk /\ did' = "nothing"
        /\ Works(i, NoRelease, Nil, "skipped")
     \/ /\ pending = None /\ UNCHANGED disk /\ did' = "nothing"
        /\ Works(i, NoRelease, Nil, "nothing")
     \/ /\ pending' \in {pending, None} /\ UNCHANGED installed /\ did' = "nothing"
        /\ \E e \in StartErrs : Works(i, NoRelease, e, "none")
  /\ UNCHANGED <<seen, pretends, head, offered, buttons, status>>

-----------------------------------------------------------------------------
Done(i, work) == tasks[i].work = work /\ tasks[i].at = "done" /\ tasks' = RemoveAt(tasks, i)

\* A mutant of CheckDone: the early return comes before busy(false).
CheckDoneEarly(i) ==
  /\ Done(i, "check")
  /\ LET rel == tasks[i].rel  err == tasks[i].err
     IN  \/ /\ err # Nil
            /\ status' = Reported("check", err)
            /\ UNCHANGED <<offered, buttons, seen>>
         \/ /\ err = Nil
            /\ Free(rel # NoRelease)
            /\ status' = Says("check", IF rel = NoRelease THEN "current" ELSE "available", "none")
            /\ offered' = rel
  /\ UNCHANGED <<disk, pretends, head, did>>

\* The done closure of onCheck. After a failure the last release stays offered,
\* its button off.
CheckDone(i) ==
  /\ Done(i, "check")
  /\ LET rel == tasks[i].rel  err == tasks[i].err
     IN  \/ /\ err # Nil
            /\ Free(FALSE)
            /\ status' = Reported("check", err)
            /\ UNCHANGED offered
         \/ /\ err = Nil
            /\ Free(rel # NoRelease)
            /\ status' = Says("check", IF rel = NoRelease THEN "current" ELSE "available", "none")
            /\ offered' = rel
  /\ UNCHANGED <<disk, pretends, head, did>>

\* A mutant of AfterInstall: the channel moves on whatever the install came to.
AfterInstallAlways(rel, err) ==
  head' = IF rel.version = First THEN Second ELSE head

\* fixtureResolver's second result: 1.1.0 follows once 1.0.0 is installed.
AfterInstall(rel, err) ==
  head' = IF err = Nil /\ rel.version = First THEN Second ELSE head

\* The done closure of onInstall.
InstallDone(i) ==
  /\ Done(i, "install")
  /\ Free(FALSE)
  /\ offered' = NoRelease
  /\ status' = Reported("install", tasks[i].err)
  /\ AfterInstall(tasks[i].rel, tasks[i].err)
  /\ UNCHANGED <<disk, pretends, did>>

\* The done closure of onRestart. What was on offer stays on the card.
RestartDone(i) ==
  /\ Done(i, "restart")
  /\ Free(FALSE)
  /\ status' = IF tasks[i].err # Nil THEN Reported("restart", tasks[i].err)
               ELSE Says("restart", tasks[i].res, "none")
  /\ UNCHANGED <<disk, pretends, head, offered, did>>

-----------------------------------------------------------------------------
\* New: the screen reads the disk, the fixture starts from 1.0.0.
Init ==
  /\ installed = None /\ pending = None
  /\ \E r \in Reads : seen = Labels(r, installed, pending)
  /\ restartOn = FALSE /\ checkOn = TRUE /\ installOn = FALSE
  /\ pretends \in BOOLEAN
  /\ head = First /\ offered = NoRelease
  /\ status = Says("none", "ready", "none")
  /\ tasks = << >> /\ did = "nothing"

\* The process ends at any moment, by its window or otherwise, and another one
\* opens the same --root, or a fresh temporary directory.
Reopen ==
  /\ \/ UNCHANGED disk
     \/ installed' = None /\ pending' = None
  /\ \E r \in Reads : seen' = Labels(r, installed', pending')
  /\ restartOn' = (seen'.pending \notin {None, Unreadable})
  /\ checkOn' = TRUE /\ installOn' = FALSE
  /\ pretends' \in BOOLEAN
  /\ head' = First /\ offered' = NoRelease
  /\ status' = Says("none", "ready", "none")
  /\ tasks' = << >> /\ did' = "nothing"

TaskStep(i) == \/ CheckWork(i) \/ InstallAsks(i) \/ InstallWork(i) \/ RestartWork(i)
               \/ CheckDone(i) \/ InstallDone(i) \/ RestartDone(i)

Next == \/ OnCheck \/ OnInstall \/ OnRestart
        \/ \E i \in 1 .. Len(tasks) : TaskStep(i) \/ Answer(i)
        \/ Reopen

Spec == Init /\ [][Next]_vars

\* Works that can go on do, and their done closures are served. A person need not
\* answer: PersonAnswers is what a property assumes that needs an answer.
FairSpec == Spec /\ WF_vars(\E i \in 1 .. Len(tasks) : TaskStep(i))
PersonAnswers == WF_vars(\E i \in 1 .. Len(tasks) : Answer(i))

-----------------------------------------------------------------------------
\* One work at a time: a restart beside an install would finish an update while
\* another is being staged over it (demoui.go busy).
OneTask == Len(tasks) <= 1 /\ (checkOn => tasks = << >>)

\* Install never offers what has been overtaken: with its button on, the release
\* held is the head of the channel, over what is on disk now, whatever was
\* checked, installed, finished or failed since (demoui.go busy: the one button
\* it does not give back).
OfferFits ==
  installOn => offered # NoRelease /\ offered = [version |-> head, from |-> installed]

\* Between works the labels say what is on disk, or that it cannot be read, and
\* a restart is on offer just when an update is seen to wait (demoui.go
\* refreshState: "what it shows is what is really there").
SeenIsReal ==
  tasks = << >> => /\ seen.installed \in {installed, Unreadable}
                   /\ seen.pending \in {pending, Unreadable}
                   /\ restartOn <=> seen.pending \notin {None, Unreadable}

\* The status line tells an install from an update that waits and from one that
\* did not happen, and shows neither of the first two as trouble (demoui.go
\* report: "a deferred or declined update is not a failure").
OutcomeIsHonest ==
  tasks = << >> => /\ status.outcome = "deferred" <=> did = "deferred"
                   /\ status.outcome \in {"", "applied"} <=> did = "installed"
                   /\ did # "nothing" => status.severity \in {"none", "info"}

\* The channel never offers 1.1.0, which asks for 1.0.0 to be there, to an
\* installation that has nothing (main.go fixtureResolver, MinFromVersion).
OfferCanBeMet == head = Second => installed # None

\* However a work ends, the screen becomes usable again, if the person answers what
\* an install asks: while the question is up every button is off, and nothing but an
\* answer takes it away (demoui.go onInstall, busy).
ButtonsComeBack == PersonAnswers => (~checkOn ~> checkOn)

=============================================================================
