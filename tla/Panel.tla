------------------------------- MODULE Panel --------------------------------
(***************************************************************************)
(* fyneui.Panel: an Observer called on the updater's goroutine, a mutex-   *)
(* guarded model, a one-slot kick channel, a pump goroutine, and renders   *)
(* queued for the Fyne goroutine (fyneui/panel.go, fyneui/observer.go).    *)
(*                                                                         *)
(* One action is one critical section, one channel operation or one        *)
(* closure run by the Fyne goroutine; everything between two of them may   *)
(* interleave. Threads are the goroutines that call the panel: any of them *)
(* may call any method, as its documentation allows.                       *)
(*                                                                         *)
(* ver and run are history: ver counts the changes of the model and run    *)
(* the Resets, so that a snapshot can be told from an older one with the   *)
(* same Seq. No guard reads them but the bound MaxVersion.                 *)
(***************************************************************************)
EXTENDS Phases, Sequences

CONSTANTS Threads,    \* goroutines that call OnEvent, Start, Reset and Close
          Events,     \* the hook.Events the updater may report
          LogSize,    \* length of the retained event log
          MaxVersion  \* bound of the model: changes of the panel's model

Event == [phase: Phase, progress: Progress, err: STRING]

ASSUME PanelAssumption == /\ Events \subseteq Event
                          /\ LogSize \in Nat \ {0}
                          /\ MaxVersion \in Nat

VARIABLES snap,       \* Model.snap, under mu
          ring,       \* Panel.ring, under mu: the versions of the events kept
          kick,       \* is the one slot of the kick channel full?
          started,    \* Panel.started
          stop,       \* is the stop channel closed?
          once,       \* Panel.stopOnce: "fresh", "running", "done"
          sawStarted, \* Close's copy of started
          pump,       \* "none", "select", "taken", "deliver", "done"
          held,       \* the snapshot the pump has copied
          queue,      \* closures handed to fyne.Do and not run yet
          screen,     \* what the widgets show
          pc          \* where each calling goroutine is

model == <<snap, ring>>
control == <<started, stop, once, sawStarted>>
vars == <<snap, ring, kick, started, stop, once, sawStarted, pump, held,
          queue, screen, pc>>

-----------------------------------------------------------------------------
Error == {e.err : e \in Events} \cup {NoErr}

\* Snapshot, the part of it that is not wording. BytesDone, Rate and Remaining
\* are in module Throughput.
Snapshot == [ver: Nat, run: Nat, seq: Nat, phase: Phase, progress: Progress,
             err: Error, done: BOOLEAN]

EmptyModel(v, r) == [ver |-> v, run |-> r, seq |-> 0, phase |-> "",
                     progress |-> 0, err |-> NoErr, done |-> FALSE]

\* A mutant of Apply: the last error replaces the first.
ApplyLastError(s, e) ==
  [ver |-> s.ver + 1, run |-> s.run, seq |-> s.seq + 1,
   phase |-> e.phase, progress |-> e.progress, err |-> e.err,
   done |-> IF e.phase \in {"commit", "rollback"} THEN TRUE ELSE s.done]

\* Model.Apply.
Apply(s, e) ==
  [ver |-> s.ver + 1, run |-> s.run, seq |-> s.seq + 1,
   phase |-> e.phase, progress |-> e.progress,
   err |-> IF s.err = NoErr THEN e.err ELSE s.err,
   done |-> IF e.phase \in {"commit", "rollback"} THEN TRUE ELSE s.done]

\* Mutants of Retain: a full ring refuses the newest event, or is not trimmed.
RetainOldest(r, v) == IF Len(r) = LogSize THEN r ELSE Append(r, v)
RetainAll(r, v) == Append(r, v)

\* The bounded append of OnEvent: drop the oldest of a full ring.
Retain(r, v) == Append(IF Len(r) = LogSize THEN Tail(r) ELSE r, v)

\* The widgets, as far as render sets them. err is the banner, "nil" hidden.
Screen == [ver: Nat, run: Nat, seq: Nat, phase: Phase, bar: 0 .. BarFull,
           err: Error]

Idle(v, r) == [ver |-> v, run |-> r, seq |-> 0, phase |-> "", bar |-> 0,
               err |-> NoErr]

\* What render leaves on a screen w that is handed the snapshot s.
Painted(w, s) ==
  IF s.seq = 0 THEN Idle(s.ver, s.run)
  ELSE [ver |-> s.ver, run |-> s.run, seq |-> s.seq, phase |-> s.phase,
        bar |-> IF Fraction(s) = Hold THEN w.bar ELSE Fraction(s),
        err |-> s.err]

\* A closure in Fyne's queue: a render of the panel, or one of those Modal
\* queues around it (they carry no snapshot).
NoSnap == EmptyModel(0, 0)
Closure == [op: {"render", "show", "hide", "away", "undismiss"}, snap: Snapshot]
RenderOf(s) == [op |-> "render", snap |-> s]

\* fyne.Do: one queue, in the order the work was handed over, and no waiting.
Do(c) == queue' = Append(queue, c)

-----------------------------------------------------------------------------
Init == /\ snap = EmptyModel(0, 0)
        /\ ring = << >>
        /\ kick = FALSE
        /\ started = FALSE /\ stop = FALSE
        /\ once = "fresh" /\ sawStarted = FALSE
        /\ pump = "none" /\ held = EmptyModel(0, 0)
        /\ queue = << >>
        /\ screen = Idle(0, 0)
        /\ pc = [t \in Threads |-> "idle"]

Goto(t, from, to) == pc[t] = from /\ pc' = [pc EXCEPT ![t] = to]

\* OnEvent: its critical section. The nudge after it is a step of its own.
OnEvent(t, e) ==
  /\ Goto(t, "idle", "nudge")
  /\ snap.ver < MaxVersion
  /\ snap' = Apply(snap, e)
  /\ ring' = Retain(ring, snap'.ver)
  /\ UNCHANGED <<kick, control, pump, held, queue, screen>>

\* Reset: its critical section.
Reset(t) ==
  /\ Goto(t, "idle", "nudge")
  /\ snap.ver < MaxVersion
  /\ snap' = EmptyModel(snap.ver + 1, snap.run + 1)
  /\ ring' = << >>
  /\ UNCHANGED <<kick, control, pump, held, queue, screen>>

\* Mutants of Nudge: the slot is gone, so that a send reaches only a pump that
\* waits for it; or the send blocks while the slot is full.
NudgeUnbuffered(t) ==
  /\ Goto(t, "nudge", "idle")
  /\ kick' = (kick \/ pump = "select")
  /\ UNCHANGED <<model, control, pump, held, queue, screen>>
NudgeBlocking(t) ==
  /\ Goto(t, "nudge", "idle")
  /\ ~kick
  /\ kick' = TRUE
  /\ UNCHANGED <<model, control, pump, held, queue, screen>>

\* nudge: a send that takes the default branch when the slot is full.
Nudge(t) ==
  /\ Goto(t, "nudge", "idle")
  /\ kick' = TRUE
  /\ UNCHANGED <<model, control, pump, held, queue, screen>>

\* Start, up to the unlock. A second Start returns at once and changes nothing.
Start(t) ==
  /\ Goto(t, "idle", "spawn")
  /\ ~started
  /\ started' = TRUE
  /\ UNCHANGED <<model, kick, stop, once, sawStarted, pump, held, queue, screen>>

\* The rest of Start: go w.pump(), then a nudge.
Spawn(t) ==
  /\ Goto(t, "spawn", "nudge")
  /\ pump' = "select"
  /\ UNCHANGED <<model, kick, control, held, queue, screen>>

-----------------------------------------------------------------------------
\* Close: stopOnce runs the body once, and a second caller waits for it.
Close(t) ==
  /\ Goto(t, "idle", "closing")
  /\ once = "fresh"
  /\ once' = "running" /\ stop' = TRUE
  /\ UNCHANGED <<model, kick, started, sawStarted, pump, held, queue, screen>>

\* Close reads started under the lock; a panel never started has no pump to wait for.
CloseReads(t) ==
  /\ Goto(t, "closing", IF started THEN "await" ELSE "idle")
  /\ sawStarted' = started
  /\ once' = IF started THEN once ELSE "done"
  /\ UNCHANGED <<model, kick, started, stop, pump, held, queue, screen>>

\* A mutant of CloseAwaits: Close does not wait for the pump.
CloseAwaitsNothing(t) ==
  /\ Goto(t, "await", "idle")
  /\ once' = "done"
  /\ UNCHANGED <<model, kick, started, stop, sawStarted, pump, held, queue, screen>>

\* <-w.pumpDone.
CloseAwaits(t) ==
  /\ Goto(t, "await", "idle")
  /\ pump = "done"
  /\ once' = "done"
  /\ UNCHANGED <<model, kick, started, stop, sawStarted, pump, held, queue, screen>>

\* A Close that finds stopOnce taken blocks in it until the first has returned.
CloseAgain(t) ==
  /\ Goto(t, "idle", "join")
  /\ once = "running"
  /\ UNCHANGED <<model, kick, control, pump, held, queue, screen>>

CloseJoins(t) ==
  /\ Goto(t, "join", "idle")
  /\ once = "done"
  /\ UNCHANGED <<model, kick, control, pump, held, queue, screen>>

-----------------------------------------------------------------------------
\* pump's select: either ready case may be taken.
PumpStop ==
  /\ pump = "select" /\ stop
  /\ pump' = "done"
  /\ UNCHANGED <<model, kick, control, held, queue, screen, pc>>

PumpTake ==
  /\ pump = "select" /\ kick
  /\ pump' = "taken" /\ kick' = FALSE
  /\ UNCHANGED <<model, control, held, queue, screen, pc>>

\* deliver: copy the model under the lock ...
PumpCopy ==
  /\ pump = "taken"
  /\ pump' = "deliver" /\ held' = snap
  /\ UNCHANGED <<model, kick, control, queue, screen, pc>>

\* Mutants of PumpDeliver: it drains the kick it believes it has served; it waits
\* for the Fyne goroutine as fyne.DoAndWait would; or it hands each render over
\* on a goroutine of its own, and they arrive in any order.
PumpDeliverDraining ==
  /\ pump = "deliver"
  /\ pump' = "select" /\ kick' = FALSE
  /\ Do(RenderOf(held))
  /\ UNCHANGED <<model, control, held, screen, pc>>
PumpDeliverWaiting ==
  /\ pump = "deliver"
  /\ queue = << >>
  /\ pump' = "select"
  /\ Do(RenderOf(held))
  /\ UNCHANGED <<model, kick, control, held, screen, pc>>
PumpDeliverLoose ==
  /\ pump = "deliver"
  /\ pump' = "select"
  /\ \E i \in 0 .. Len(queue) :
       queue' = SubSeq(queue, 1, i) \o <<RenderOf(held)>> \o SubSeq(queue, i + 1, Len(queue))
  /\ UNCHANGED <<model, kick, control, held, screen, pc>>

\* ... and hand the render to the Fyne goroutine.
PumpDeliver ==
  /\ pump = "deliver"
  /\ pump' = "select"
  /\ Do(RenderOf(held))
  /\ UNCHANGED <<model, kick, control, held, screen, pc>>

\* render, on the Fyne goroutine.
Render ==
  /\ queue # << >> /\ Head(queue).op = "render"
  /\ queue' = Tail(queue)
  /\ screen' = Painted(screen, Head(queue).snap)
  /\ UNCHANGED <<model, kick, control, pump, held, pc>>

-----------------------------------------------------------------------------
\* The steps a goroutine inside a call takes, and those a caller chooses.
CallStep(t) == Nudge(t) \/ Spawn(t) \/ CloseReads(t) \/ CloseAwaits(t) \/ CloseJoins(t)
CallBegin(t) == \/ \E e \in Events : OnEvent(t, e)
                \/ Reset(t) \/ Start(t) \/ Close(t) \/ CloseAgain(t)
PumpStep == PumpStop \/ PumpTake \/ PumpCopy \/ PumpDeliver

Next == (\E t \in Threads : CallBegin(t) \/ CallStep(t)) \/ PumpStep \/ Render

Spec == Init /\ [][Next]_vars

\* Goroutines that can run do run, and select, which picks among its ready
\* cases at random, does not pass over a closed stop channel for ever. Nobody
\* has to call the panel.
GoFairness == /\ \A t \in Threads : WF_vars(CallStep(t))
              /\ WF_vars(PumpStep) /\ SF_vars(PumpStop)

\* The main loop need not serve its queue: it may stop at any moment, as during a
\* shutdown. UIServes is what a property assumes that needs it to.
FairSpec == Spec /\ GoFairness
UIServes == WF_vars(Render)

-----------------------------------------------------------------------------
\* Every variable stays in its type, and the ring within LogSize
\* (panel.go LogSize, observer.go OnEvent).
TypeOK ==
  /\ snap \in Snapshot /\ held \in Snapshot
  /\ ring \in Seq(Nat) /\ Len(ring) <= LogSize
  /\ kick \in BOOLEAN /\ started \in BOOLEAN /\ stop \in BOOLEAN
  /\ sawStarted \in BOOLEAN
  /\ once \in {"fresh", "running", "done"}
  /\ pump \in {"none", "select", "taken", "deliver", "done"}
  /\ queue \in Seq(Closure)
  /\ screen \in Screen
  /\ pc \in [Threads -> {"idle", "nudge", "spawn", "closing", "await", "join"}]

\* Coalescing loses nothing: once no nudge, copy or render is under way, the
\* widgets say what the model says (observer.go nudge: "dropping this signal
\* loses nothing"). The bar is not part of the claim: it keeps its value over
\* a phase that holds it.
Settled == /\ ~kick /\ queue = << >>
           /\ pump \notin {"taken", "deliver"}
           /\ \A t \in Threads : pc[t] # "nudge"
Shows(w, s) == w.ver = s.ver /\ w.seq = s.seq /\ w.phase = s.phase /\ w.err = s.err
SettledIsCurrent == Settled => Shows(screen, snap)

\* The log is the newest events of this transaction, in order and without a
\* gap, whatever was dropped (observer.go OnEvent).
Smaller(a, b) == IF a < b THEN a ELSE b
RingIsTail ==
  /\ Len(ring) = Smaller(snap.seq, LogSize)
  /\ \A i \in 1 .. Len(ring) : ring[i] = snap.ver - Len(ring) + i

\* A failure on screen is not redrawn as another failure, or as none, until a
\* Reset (panel.go Snapshot.Err: "stays set").
ErrorStaysOnScreen ==
  [][screen.err # NoErr /\ screen'.run = screen.run => screen'.err = screen.err]_vars

\* Once a Close that waited has returned, no pump is left to touch Fyne
\* (panel.go Close).
ClosedPumpIsGone == once = "done" /\ sawStarted => pump = "done"

\* The panel implements the view it promises: stale frames may be painted,
\* but only in the order the model went through them.
ViewOfModel == INSTANCE View WITH latest <- snap.ver, shown <- screen.ver
ImplementsView == ViewOfModel!Spec

\* Every change of the model is painted, itself or a later one in its place,
\* once the panel is started and unless it is closed, by a main loop that serves
\* its queue (panel.go Start: "Events that arrived before Start are not lost").
LatestIsPainted ==
  UIServes => \A v \in 1 .. MaxVersion :
                (started /\ snap.ver >= v) ~> (stop \/ screen.ver >= v)

\* The updater never waits for the interface: an OnEvent that has begun
\* returns though the pump is gone or the main loop stalled (observer.go:
\* "OnEvent cannot block the update").
OnEventReturns == \A t \in Threads : (pc[t] = "nudge") ~> (pc[t] = "idle")

\* Close returns even when the main loop never runs again (panel.go Close,
\* observer.go pump: no render on the way out).
CloseReturns == \A t \in Threads : (pc[t] \in {"closing", "await", "join"}) ~> (pc[t] = "idle")

=============================================================================
