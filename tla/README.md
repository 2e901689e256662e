# idunn-fyne in TLA+

`idunn-fyne` puts a Fyne user interface on the idunn updater: a panel and a modal
that show an update while it runs (`fyneui`), a packing assistant that writes a
`pack.yaml` and drives the packer (`internal/packui`, `internal/packrun`,
`internal/packmodel`), and demo programs. This directory models the parts where
goroutines, queues and flags meet: what the updater reports against what a person
sees, what a person answers against what the updater is told, what a form shows
against what is published, and what a demo offers against what is installed. TLC
checks the models on small instances; TLAPS proves most of their safety for every
value of the constants.

## 1. Inventory

### The system

Three kinds of goroutine meet. The **updater's goroutine** calls `OnEvent` inside an
open transaction and `Confirm` before one. The **Fyne goroutine** (the main loop)
runs, one after another, widget callbacks and the closures that `fyne.Do` queues; it
may be slow and, during a shutdown, it may stop. The **pump** is a goroutine of the
panel's own that turns "something changed" into renders for the main loop. Hosts may
call the exported methods from any of them.

| component | state | operations | talks to |
|---|---|---|---|
| Phase table (`phase.go`) | none | `Fraction`, `Step`, labels | read by `render` |
| Model (`progress.go`) | the snapshot, the throughput estimate | `Apply`, `Snapshot` | owned by the panel, under `mu` |
| Panel (`panel.go`, `observer.go`) | model and log under `mu`; `kick` (a one-slot channel), `stop`, `pumpDone`, `stopOnce`, `started`; the widgets | `OnEvent`, `Reset`, `Start`, `Close`, `Snapshot`, `Widget`; internally `nudge`, `pump`, `deliver`, `render` | updater → mutex → `kick` → pump → `fyne.Do` → widgets |
| Confirm (`prompter.go`) | per call: answer channel, `Once`, `shown`, `cancelled`, `dlg`, watchdog | `Confirm` | updater ↔ dialog on the Fyne goroutine; a context; a timer |
| Modal (`modal.go`) | `shown`, `dismissed`, the dialog | `Show`, `Hide`, `Reset`, `Close`, `Confirm`, `OnEvent`; internally `afterRender`, `showHere`, `onClosed` | shares the panel's queue; Fyne's dialog calls back |
| Explain (`explain.go`) | none: an ordered chain of cases | `Explain` | demo window, hosts |
| Packing assistant (`packui`) | the form; `problems`; the rows of the targets editor; `blocked`, `running`, `published`; the Publish tab's fields | edits, insertions and removals, save, publish, verify | `packmodel` for validity, `packrun` on a goroutine |
| Packer runs (`packrun`) | none beyond one run; `Verify` holds a listener, a server goroutine and a cache while it runs | `Publish`, `InspectKeyEnv`, `Verify`, report parsing | a child process, key files, the trust client over loopback HTTP |
| pack.yaml model (`packmodel`) | the configuration | `Validate`, `Emit`, mirrors of core's constants | form and file |
| Demo window (`demoui`) | the offered release, three buttons, the labels, the status line | check, install, restart | updater and launcher on a goroutine, panel, fixture |
| Fixture (`fixture`) | the head of each channel and its files, under a mutex | `Resolver` methods | stands in for the trust client |
| Commands (`cmd/*`) | flags; the demo's root and the callback that moves its channel on | `main` | wiring |

### What is hard, and what makes each part correct

* **Panel.** Repaints coalesce in a one-slot channel, the copy is taken under a lock
  but painted later, the log is bounded, and `Close` joins a pump that may be
  handing work to a main loop that no longer runs. Correct means: no update is lost
  to coalescing; frames are painted in the order they existed; a failure stays on
  screen until the transaction is over; neither the updater nor `Close` ever waits
  for the interface.
* **Progress bar.** The events come in idunn's emit order and under phase names that
  do not follow it; some phases own no position. Correct means: the bar goes back
  only where the code says it may, and a committed update fills it.
* **Modal.** Two flags decide about a dialog that Fyne and the person can close at
  any moment, while older renders are still queued. Correct means: the flag matches
  the window; a dismissal holds; news of an update reaches the person.
* **Confirm.** Answer, cancellation, watchdog and drawing race each other. Correct
  means: no permission is made up, no call hangs, no dialog is left behind.
* **Packing assistant.** A job runs in the background while everything it depends on
  can be edited; the editor's rows hold pointers into slices that other rows append
  to and cut. Correct means: a job starts alone, from a valid form and with usable
  keys; a button that tells the truth; entries that edit the field they show, with
  complaints that are their own.
* **Progress estimate.** Samples come at uneven, zero or negative intervals and the
  count may go back. Correct means: a rate between those measured, that follows a
  change of pace, and a time left that is never a wrapped number.
* **Verification.** A server is started before anything else that may fail. Correct
  means: whatever fails, it is closed and awaited, also when its goroutine has not run
  yet; success means every file, against the newest root.
* **Demo window.** Work in the background changes disk and channel under the release
  on offer, and the process may end at any point. Correct means: one work at a time; an
  Install button that fits what is there; a status line that does not show a deferred
  update as a failure.

`PROJECT.json` lists every hazard at its line, with the properties aimed at it.

## 2. The modules

```
Phases ◄── Panel ◄── Host ◄─┬─ Modal ◄───────┬─ HostProofs      View    ◄-refines- Panel
                            └─ Transaction ◄─┘                  Consent ◄-refines- Prompter
           Panel ◄── PanelProofs ◄── HostProofs                 Prompter ◄── PrompterProofs
Explain ◄── DemoWindow ◄── DemoProofs                           PackAssist ◄── PackAssistProofs
VerifyRepo ◄── VerifyProofs                                     TargetsEditor ◄── TargetsProofs
Throughput ◄── ThroughputProofs
```

An `MC*` module instantiates each state machine for TLC.

**Phases** (`phase.go`). `Steps` is the table, in hundredths of the bar; `Fraction`
is the code's function in exact ten-thousandths, with `Hold` for its negative
"leave the bar alone". Event progress is a whole percentage from -1 (indeterminate)
to 101 (a value core must not send and the code must survive).

**View.** The abstract promise of a panel: the screen shows a version of the model
that really existed and never goes back to an older one.

**Panel** (`panel.go`, `observer.go`, `progress.go`). One action per critical section,
channel operation or closure:

| code | actions |
|---|---|
| `OnEvent` | `OnEvent` (under `mu`: `Apply`, bounded append), then `Nudge` |
| `Reset` | `Reset` (under `mu`), then `Nudge` |
| `Start` | `Start` (flag), `Spawn` (`go w.pump()`), `Nudge` |
| `Close` | `Close` (`stopOnce` taken, `close(stop)`), `CloseReads`, `CloseAwaits`; `CloseAgain` and `CloseJoins` for a second caller inside the same `Once` |
| `pump` | `PumpTake` or `PumpStop`, whichever the select takes |
| `deliver` | `PumpCopy` (`Snapshot` under `mu`), `PumpDeliver` (`fyne.Do`) |
| `render` | `Render`, the next closure of Fyne's queue |

Any goroutine in `Threads` may call any method. `ver` and `run` are history: they
tell two snapshots apart and no guard reads them but the bound. The wording of a
snapshot is left out; its byte counts and the rate are module `Throughput`, which
shares no state with this one. What `fyne.Do` does is an external assumption: one
first-in-first-out queue, and it does not wait.

**Host.** What `Modal` and `Transaction` share of a program that embeds a panel: the
panel is started before anyone else holds it (`StartedInit`, from `newModal`), and
one goroutine, `Driver`, runs the updater. It has no actions of its own.

**Transaction.** A panel whose one driver reports the events of one update after
another in the order idunn emits them (`After`, `FailsAs`; external, from
`phase.go`'s comment and `phase_test.go`), with `Reset` before each run. Two history
variables no guard reads: `ideal` is the screen had every change been painted at once,
`moved` the run of the last repaint that set the bar.

**Modal** (`modal.go`). Extends `Host`: the closures of `Show`, `Hide` and `Reset`
travel in the queue of the panel's renders, and every render ends in `AfterRender`.
`visible` is Fyne's truth, `shown` the code's copy. One goroutine drives the
transactions and resets between them, as rule 3 of the repository's README asks.
`"away"` is the Hide that `Reset` queues, told apart from the host's own for the
history variable `refused` only. `Modal.Confirm` is `Show` followed by
`Panel.Confirm`.

**Consent** and **Prompter** (`prompter.go`). `Consent` says what a call of `Confirm`
may return; `Prompter` has every step of the call, of the closures it hands to Fyne
and of the dialog's buttons, for several calls at once. `OnUI` are calls a host
wrongly makes from the Fyne goroutine, which they hold until they return; `NoWin` are
calls on a panel without a window.

**PackAssist** (`packui`, `packrun`, `packmodel`). Edits of the form (each ends in
`revalidate`), edits of the Publish tab (each ends in `refresh`), saving (the bytes
are marshalled before the file dialog opens), the two jobs and their `done`
closures, and key files that come and go. A `pack.yaml` is reduced to its channel
(channel and version line together, for the delegated roles), the number of platforms, and
whether every other rule of `Validate` is met.

**TargetsEditor** (`targets.go`, `revalidate`, `Validate`). What `PackAssist` leaves out
of the form: platforms, files, and the rows they are edited in. A row keeps `at`, the
element its callbacks point to, what its entries show, and `says`, the complaints
its labels were built with. `rebuildTargets` runs before `revalidate`, so a label is
built from the complaints of the edit before, unless selecting a kind in a chooser
further up has called `revalidate` in the meantime (`Revalidated`): Fyne's
`SetSelected` runs its callback for a kind on the list and not for another. A platform
is its os-arch pair; a file its destination and kind, of which `Src` and `Mode` are
further instances. The history variable `before` keeps the complaints of the form as
the last redraw found it. The preview and the summary, which `revalidate` writes anew
every time, are left out.

**Throughput** (`sample`, `reset`, `remaining`, and `Apply` around them). Rates are exact
rationals over a common denominator `Scale`, so that the filter, the guard and the
rounding of the remaining time can be compared without error; that floating point is
close to this is assumed. `Grain` says that `Scale` is fine enough: after `n` samples a
rate is a multiple of `Grain[n]`, each sample divides by the window once, and every
interval divides what is measured, so that no `\div` of the model ever rounds a rate.
Instants are the ticks since the last sample, of which a
clock that is set back makes negative ones. The cast to a `Duration` wraps.

**VerifyRepo** (`verify.go`). One action per step of `Verify`, in its order, each with
the error it may end in and the deferred calls that error unwinds: `FailsCached` runs
`RemoveCache`, `CloseServer`, `Join`, `FailsServing` the last two. The server goroutine
may not have begun when `Close` comes. `latestRoot` is the maximum of a set of numbers;
the trust client succeeds only against a server that serves, or fails.

**Explain** (`explain.go`). An error is the set of the sentinels `errors.Is` finds in it;
`Cases` is the chain in its order with the class and the severity of each, and
`Explained` takes the first that matches. The demo's status line shows the wording
only; `status.severity` is what `Explain` attaches to it for hosts that show it.

**DemoWindow** (`demoui.go`, `cmd/demo`, `fixture.go`). The taps, the works and their `done`
closures; the disk is the installed and the pending version, each of which a read
may fail to tell. The updater and the launcher are external: a check may find or
fail, an install may install, defer or change nothing, a restart may finish, leave or
lose the pending update. An install may ask (`InstallAsks`) and then waits in
`Panel.Confirm` for an `Answer`, however long that takes: `onInstall` passes a context
that never ends, and with the dialog up the watchdog stands down. Without a yes it
changes nothing. The errors they end with are constants, sets of sentinels.
The channel is the fixture's: `head` moves from 1.0.0 to 1.1.0 in `AfterInstall`.
`Reopen` is the end of the process at any moment, and another over the same root or a
fresh one. The real-repository mode, where a publisher moves the channel, is not
modelled.

Definitions preceded by "A mutant of" are plausible mistakes, each of which breaks
the property `PROJECT.json` pairs it with; no specification uses them.

## 3. The runs

Nine runs check what holds. Every run sets `CHECK_DEADLOCK FALSE`: the models may really stop, because nobody
has to call a panel again, a person need not answer, and the bounded counters run
out. Nothing that must go on is left to the deadlock check: the temporal properties
state it.

| run | asks | bounds |
|---|---|---|
| `panel` | types, `SettledIsCurrent`, `RingIsTail`, `ClosedPumpIsGone`, `ErrorStaysOnScreen`, that `Panel` implements `View`, `OnEventReturns`, `CloseReturns`, and `LatestIsPainted` of a main loop that serves its queue | 2 goroutines, 2 events (a failure with a position, one that holds the bar), log of 2, 3 changes |
| `bar_order` | `BarAdvances`, `CommittedIsFull`, `BarIsEarned` | every phase, with and without failure, both ends of staging, 8 changes: a whole update, or a short run, a reset and another |
| `modal_safety` | `FlagIsTruth`, `RefusalHolds`, `NewsIsShown` | a driver and a host goroutine, 2 events (one that must not raise the modal, one that must), 3 changes, no Show or Hide while a closure is queued |
| `confirm` | types, `AnsweredLeavesNoDialog`, that `Prompter` implements `Consent`, `UIGetsFree`, `CallUnwinds`, `WithdrawnReturns` | 3 calls: one proper, one from the Fyne goroutine, one without a window |
| `packassist` | `PublishIsVetted`, `VerifyNeedsAPublish`, `JobsStartClean`, `RunningEnds` | 2 channels, 1 path, 1 repository or none, up to 1 platform, 1 key that comes and goes, 2 jobs |
| `targets` | `RowsInStep`, `RedrawnFilesAreJudged`, `LabelsLagOneEdit` | every configuration of up to 2 platforms with up to 2 files, each field well-formed or not, each kind on the chooser or not, as loaded and as edited |
| `throughput` | `RateIsMeasured`, `RateReacts`, `RemainingIsHonest` | a release of 4 bytes, intervals of -1 to 4 ticks around a window of 3, 6 staging events in a row, a `Duration` of 31 units at 4 to the tick |
| `verify` | `NothingLeftBehind`, `SuccessIsComplete`, `VerifyReturns` | roots 1, 9 and 10, up to 2 files, calls one after another without end |
| `demo` | `OneTask`, `OfferFits`, `SeenIsReal`, `OutcomeIsHonest`, `OfferCanBeMet`, `ButtonsComeBack` | two releases, 2 works in flight, 12 errors, the joined ones among them, processes without end |

The bounds are small because the hazards are: coalescing needs one change while the
slot is full and one after it was emptied (3 changes); the ring wraps at the third
event of a log of 2; a second failure needs a first, and a reset a third change;
news after a Reset that overtakes an old render needs an event, the Reset and an
event; two goroutines are what a race of `Start`, `Close` or `OnEvent` takes, and the
proofs of section 5 remove these bounds for most of the safety. Eight changes let an update
with every optional phase and a staging report run to its end. Two jobs, and two
works, are one more than is allowed, so a second one would be seen. Two platforms
with two files are what a duplicate, an index that shifts and a chooser above another
row take. The window of 3 ticks lets a sample be shorter, as long and longer than it,
and `MaxDuration` is small enough for a slow rate to exceed it. Root 10 is the one that
sorts before 9 as a name. `MaxQueue` keeps the host (in `Modal`) and the driver (in
`Transaction`) from adding above a backlog, never the pump.

### Where the code and its words part

Each of these runs checks one statement of a comment or of the repository's README,
and TLC refutes it. The findings in `PROJECT.json` quote both sides.

| run | what TLC shows |
|---|---|
| `modal_reset` | a render copied before `Reset` and queued behind its closures raises the dialog again |
| `confirm_stranded` | the watchdog can fire between the closure's check and its store, and leaves a dialog nobody waits for |
| `packassist_crash` | a verification indexes the first platform of a form that has none left |

Modelling met more such places. They can be read off the models, but no run is kept
for them:

* `panel.go:273`, "Close stops drawing", and `observer.go:81`, the pump "exists only
  between Start and Close": `Start` looks at `started` alone, so a `Start` after
  `Close` launches a pump (`Spawn`) whose select may take the kick before the closed
  stop channel and draw once more.
* `phase.go:97`, "A failure does not: a full bar over an error message is the worst of
  both": a failed clean-up is an event of phase `gc`, whose span (`phase.go:70`) ends
  the bar; when the commit's own render was coalesced away, the failure fills it.
* `publish.go:146`, "what the operator sees is what would run right now": `revalidate`
  (`packui.go:182`) calls `setBlocked` and not `refresh`, so after an edit of the channel
  the tab lists the old delegation keys (`EditForm` leaves `keysBox`). What a
  publish starts with is inspected anew (`JobsStartClean`).
* `targets.go:176`, "The targets editor is rebuilt on every change": on every insertion
  and removal. A text edit leaves the labels, the card's title and the mode's
  placeholder as they were. A redraw comes before the revalidation, so its labels may be
  one edit late (`LabelsLagOneEdit`; never later): a platform just added does not say
  that it has no files, and after a removal a card may show what was wrong with the
  platform that stood in its place. An editor just opened on a file shows no complaints
  but those of files at or below the first known kind.
* `targets.go:205`, "it is what the packer will read": the packer reads the file at
  `ConfigPath` when it starts (`publish.go:294`). An edit since the last save is not in
  that file, `setBlocked` asks only whether the form is valid, and `PublishWork`
  publishes what is on disk.
* `main.go:211`, the channel advances "once 1.0.0 is installed": not when the deferred
  install is finished by a restart (`RestartDone`), and not for a root that already
  holds it when the process starts (`Reopen`).
* `demoui.go:354`, "never caches what it could ask idunn": the card keeps describing a
  release a restart has overtaken. Its button stays off, which is `OfferFits`.
* `src/README.md:161` promises one repaint per main-loop turn "rather than a backlog of
  stale ones"; `PumpDeliver` queues one render per kick and nothing bounds the queue.
* `panel.go:193`, "a render that arrives late still paints the truth": `Render` paints
  the copy the pump took. What does hold is the order, `ImplementsView`.
* `observer.go:97`, "the terminal event of a transaction has already been drawn":
  `PumpStop` may be taken while that event's kick is in the slot.
* `observer.go:72`, "Coalescing here is exact, not an approximation": not for a rollback,
  which leaves the bar where the last repaint put it (`observer.go:156`). A coalesced
  rollback may hold the bar too low, and never too high for its own run once a repaint
  of that run has set it (`BarIsEarned`). If none has, the bar still stands where the run
  before left it, which may be the end.
* `src/README.md:110`: the bar is left alone by "a quiesce or a migration" and by a
  failure. The spans of `Steps` move it for both, and a staging failure moves it
  back to the start of its own span, which is why `BarAdvances` exempts staging.
* `publish.go:50`, "this repository has been published to in this session": the flag
  outlives a change of the repository directory.
* `run.go:97`, "an error with a non-nil Result means the packer ran and refused": a
  process that could not be started leaves a `Result` too (`PublishWork`).

## 4. Fairness

* A goroutine in the middle of a call goes on (`WF` of `CallStep` and of the pump's
  steps): Go's scheduler is preemptive. Nobody is obliged to begin a call.
* `SF_vars(PumpStop)`: Go's `select` picks at random among the ready cases, so a
  closed stop channel that is ready again and again is taken. Weak fairness of the
  pump would let it prefer the kick for ever.
* The main loop may stop at any moment in `Panel!FairSpec` and `Prompter!FairSpec`:
  neither assumes that a closure is ever run. `OnEventReturns`, `CloseReturns`,
  `CallUnwinds` and `WithdrawnReturns` hold all the same; not to depend on the
  interface is their point. `LatestIsPainted` and `UIGetsFree` need a main loop that
  does its work and say so: `UIServes` is their hypothesis.
* A timer that was armed fires (`WF` of `Fire`); in `PackAssist` the packer is a child
  process that exits and its `done` closure is served (`WF` of `JobStep`).
* In `DemoWindow` a work goes on and its `done` closure is served (`WF` of `TaskStep`),
  except that an install that has asked waits for a person. That wait has no bound in
  the code: `Answer` is not part of `FairSpec`, and `PersonAnswers` is the hypothesis of
  `ButtonsComeBack`. Without an answer every button stays off while the dialog is up.
* In `VerifyRepo` the call and the goroutine of `Serve` go on (`WF` of `CallStep` and
  `Serve`), and a server that was closed stops (`WF` of `closing /\ ServeEnds`), which is
  what `http.Server.Close` promises. A server that was not closed need not.
* A person need not tap unless a property says so, a host need not cancel, reset, show or close.

## 5. Proofs

`PanelProofs` proves, for every set of goroutines, every set of events, every length
of log and every number of changes, from `PanelAssumption` alone (the events are
events, the log holds at least one, the bound is a natural number):

| theorem | says |
|---|---|
| `Typing` | `Spec => []TypeOK`: in particular the log never exceeds its limit and the bar stays in its range |
| `NothingLost` | `Spec => []SettledIsCurrent` |
| `CloseJoinsPump` | `Spec => []ClosedPumpIsGone` |
| `Refinement` | `Spec => ImplementsView`, that is, `Panel` implements `View` |
| `ErrorsStay` | `Spec => ErrorStaysOnScreen` |
| `LogIsTail` | `Spec => []RingIsTail` |

None of the safety properties is inductive. The argument is a chain: the snapshots
on their way to the widgets are the screen, then the renders in Fyne's queue from
head to tail, then the pump's copy, then the model. `IInv` says of it:

* `Ordered`: along the chain versions do not decrease, and within one transaction a
  failure is repeated by everything after it (`Follows`);
* `Gapless`: unless the pump is just about to hand over its copy, the last link
  before the copy is that copy;
* `Nudged`: with no kick, no nudge and no copy under way, the copy is the model;
* `Blanks`: a snapshot without events is an empty one, which is what `render` takes
  it for;
* `OnePump`, `OneClose`: there is at most one pump to own the copy, and one body of
  `Close`.

`Gapless` and `Nudged` give `SettledIsCurrent`; `Ordered` gives the refinement and
`ErrorStaysOnScreen`, since `Render` moves the screen one link along the chain.
`IInv` is proved preserved in four lemmas, by who moves (`ControlStep`,
`ModelStep`, `PumpKeeps`, `RenderKeeps`). The lemmas about the operators
(`FractionRange`, `PaintedType`, `PaintedShows`, `ApplyType`, `FollowsTransitive`)
come first. `RingIsTail` is inductive with `TypeOK` and has a proof of its own.

`PrompterProofs` proves, for every set of calls, whichever of them come from the Fyne
goroutine or have no window, from no assumption:

| theorem | says |
|---|---|
| `Typing` | `Spec => []TypeOK` |
| `NoDialogLeft` | `Spec => []AnsweredLeavesNoDialog` |
| `Refinement` | `Spec => ImplementsConsent`, that is, `Prompter` implements `Consent` |

Its `IInv` is about one call at a time. `DrawnOnce`: a dialog comes from one closure
and one only, so nobody has answered a dialog that is up or still to come. `Genuine`:
while the call waits, the channel and the callback carry what the person tapped and
no hide is under way; the "no" that a hide makes the dialog send reaches the channel
only after the call is over. `Withdrawn`: after a withdrawal a hide stands in the queue
behind the closure that draws (`HideLast`), or has begun, or there is no dialog.
`Holding`, that a call from the Fyne goroutine holds it, is what lets `Return` give it
back. Calls meet only in the queue and on the Fyne goroutine: `Elsewhere` says that a
step of one leaves the invariant of every other alone, `Appended` and `Taken` what the
ends of the queue change, and there is one lemma per group of actions
(`InvConfirm`, `InvCall`, `InvShow`, `InvHide`, `InvTap`, `InvReply`, `InvTake`). TLC
checked `IInv` on the instance of the run `confirm` before it was proved.

`HostProofs` proves of the two systems built on a panel, from `PanelAssumption` and
`HostAssumption` (the driver is one of the goroutines; the backlog bound is a positive
number). What `PanelProofs` knows of the panel's own variables is carried over first:
every step of either system is one that the lemmas of `PanelProofs` cover
(`TxIsPanel`; in `Modal` the queue also holds the modal's closures, so there the
chain is stated again).

| theorem | says |
|---|---|
| `BarProved` | `TxSpec => BarAdvances` |
| `FullProved` | `TxSpec => []CommittedIsFull` |
| `EarnedProved` | `TxSpec => []BarIsEarned` |
| `FlagProved` | `ModalSpec => []FlagIsTruth` |
| `RefusalProved` | `ModalSpec => []RefusalHolds` |
| `NewsProved` | `ModalSpec => []NewsIsShown` |

`TxInv`, for the bar, speaks of the same chain of snapshots as `PanelProofs`, now with
where each would put the bar (`Level`):

* `Rising`: along the chain, within a run, the bar rises, except into staging;
  nothing that moves the bar follows a rollback, which holds it;
* `AllBelow`: nothing on the chain is above the `Ceiling` of the phase the updater
  reported last. This is what makes `Rising` inductive: a new event is compared with
  the ceiling of its predecessor and not with every snapshot still under way.
  `Sequel` lists which phase may come after which, `Emission` compares the two ends;
* `AtLast`, `AllPlaced`: the model is at the phase that was reported last, and every
  phase is one of the table;
* `Pictures`: the screen is a drawing of the pump's copy when nothing is queued, and
  `ideal` one of the model. With a position of its own a snapshot puts the bar in one
  place only (`PaintedBar`).

`BarIsEarned` adds `Peak`, which is about the time after a rollback was reported: every
other snapshot of its run that is still on its way, and the bar if the run has set it,
is at or below the place `ideal` holds. A rollback comes only after a phase outside of
staging (`Sequel`), where the model is the furthest of its run (`TopOfRun`, from
`Rising`); `moved` never exceeds the run on screen, so a bar the run has set is one that
`Rising` speaks of.

For the flag and the refusal (`DialogInv`): the flag is the window's state, and a
refusal is one that `dismissed` still records, with the dialog down. `ShowHere` and
`RunHide` establish it from whatever they find (`ShowHereShows`, `HideHides`); every
step of the panel but `Render` leaves the modal's variables alone.

`NewsIsShown` needs to know why no closure of an earlier `Reset` takes away the dialog
of the update that came after it. `ModalInv` says:

* `Todos`: only the driver resets, and it reports no event before both closures of its
  `Reset` are queued;
* `Fresh`: hence behind news of the running transaction the queue holds neither the
  Hide nor the un-dismissal of a `Reset`;
* `Amends`: a Hide that `Reset` queued, or has had run, is followed by an
  un-dismissal that is still to come, unless the host or the person refused meanwhile;
* `Withins`, `Current`, `Nudged`: no snapshot is ahead of the model, and the last
  render to run is of the pump's copy, which is the model when nothing is under way;
* `Raised`: news on the widgets is in the dialog, or the dialog was refused.

TLC checked `ModalInv` on the instance of `modal_safety` before it was proved.

`PackAssistProofs`, from `PackAssistAssumption`:

| theorem | says |
|---|---|
| `ButtonProved` | `Spec => []PublishIsVetted` |
| `VerifyProved` | `Spec => []VerifyNeedsAPublish` |
| `StartsProved` | `Spec => JobsStartClean` |

The invariant ties three places together: `blocked` is what `Validate` says of the form,
`running` holds exactly while the one job is on its way, and both buttons are what
`setBlocked` makes of the flags. A publish job that has ended without an error has
served its repository, which is what `VerifyNeedsAPublish` needs of `PublishDone`. That
at most one job exists is stated as "none, or one" (`Single` counts it).

`DemoProofs`, from `DemoAssumption`:

| theorem | says |
|---|---|
| `OneTaskProved` | `Spec => []OneTask` |
| `OfferProved` | `Spec => []OfferFits` |
| `SeenProved` | `Spec => []SeenIsReal` |
| `ChannelProved` | `Spec => []OfferCanBeMet` |
| `OutcomeProved` | `Spec => []OutcomeIsHonest` |

The invariant: check is on exactly when no work runs; no work, or one; a check that
has ended holds a release over the disk as it is, because nothing else has run since;
an install that has ended without an error left its release installed; and the second
release is the head only where something is.

`OutcomeProved` goes through the chain of cases of `Explain`, whose order decides. What
`DemoAssumption` says of the external updater: an install that waits for the next start
ends with `ErrDeferred`, alone or joined with errors of the cases below it (`explain.go`
names `ErrBusy`), never with one of the transport, of a cancellation or of the helper,
which stand above; and no work that left the disk alone ends with it. `DeferralIsTold`
finds the case such an error matches first, and `FailureIsTold` shows that no other
error reaches a case that tells of an install or of a deferral. `Told`
carries what a work did to the disk from its last step to its `done` closure.

`VerifyProofs`, from `VerifyAssumption`:

| theorem | says |
|---|---|
| `CleansUp` | `Spec => []NothingLeftBehind` |
| `SuccessProved` | `Spec => []SuccessIsComplete` |

The invariant says of each place in the call what is held there: nothing before the
listener, a server from then to the join, a cache between its making and its removal;
a server that is gone, or none, goes with a listener that is not open. `LatestIsNewest`
is the fact about `Max` that `SuccessProved` cites.

`TargetsProofs`, from `EditorAssumption`:

| theorem | says |
|---|---|
| `RowsProved` | `Spec => []RowsInStep` |
| `JudgedProved` | `Spec => []RedrawnFilesAreJudged` |
| `LagProved` | `Spec => []LabelsLagOneEdit` |

`InStep` states the rows by their shape, a record per entry and a function per list, so
that an edit of one entry can be followed (`EditInStep`, `PairMatches`, `FileMatches`)
and a redraw restores it whatever was known before (`RebuiltInStep`). `RebuiltIsJudged`
is the order of `fileRow`: by the time the labels of a file are read, its own chooser
has revalidated.

`LagProved` needs that the complaints are those of the form whenever an edit begins
(`KnownHolds`): what a redraw finds is then what the form before the edit had, and a
chooser on the way replaces it by what the new form has (`RebuiltSays`).

`ThroughputProofs`, from `ThroughputAssumption`:

| theorem | says |
|---|---|
| `MeasuredProved` | `Spec => []RateIsMeasured` |
| `ReactsProved` | `Spec => []RateReacts` |
| `HonestProved` | `Spec => []RemainingIsHonest` |

The assumption about `Grain` is what keeps the divisions exact (`FilterExact`, from
`DivExact`), and `Grained` is its part of the invariant. It assumes nothing of the
code: any finite set of intervals has such a `Scale`, and the floating-point numbers
of the code are taken for the exact ones they round. `Between` is that a weighted mean
lies between what it is a mean of (`FilterBetween`).

`RateReacts` needs more than it says, since a window may be cut into any number of
samples. A sample of `e` ticks leaves the share `1 - e/w` of the difference, and the
product of such shares depends on the cut; it is at most `exp(-s/w)` after `s` ticks.
`Fading` bounds it by a polynomial: `Left(w, s)/8w^3` is `1 - x + x^2/2 - x^3/8` at
`x = s/w`, which is 1 at 0, three eighths at a whole window, and above `(1 - e/w)` times
its own earlier value (`LeftStep`), so that every sample preserves it. A plain "three
eighths are left after a window" is not inductive: it says nothing on the way there.
`RemainingIsHonest` is arithmetic about the guard and the cast of `remaining`
(`RemainingFacts`).

With these every invariant and every action property that a passing run checks is
also a theorem. Model-checked only are the liveness properties, temporal formulas
under fairness being beyond the prover: `LatestIsPainted`, `OnEventReturns`,
`CloseReturns`, `UIGetsFree`, `CallUnwinds`, `WithdrawnReturns`, `RunningEnds`,
`VerifyReturns` and `ButtonsComeBack`. The refutations of section 3 are
counterexamples and need no proof.

## 6. What is not modelled, and what could follow

Not modelled, for good: wording and layout (labels, log lines, hints, the command
line as text, the sentences of `Explain`, the descriptor's card), the packer's report
(text that decides nothing), YAML emission and the regular expressions of `Validate`,
the reference-time warning (advice that nothing acts on, computed from the clock at
each refresh), the fixture's files and its hooks for tests, the demo's real-repository
mode, flags and wiring of the commands, the data race on strings between a verification
and the form, floating-point error in the rate, and the inline execution of `fyne.Do`
after the main loop has ended.

What could follow:

1. `Modal` over a `Prompter`: `Modal.Confirm` raising the modal and the question.
2. `DemoWindow` over a `Panel`: the updater's events between a tap and its `done`
   closure, and the `Reset` each tap begins with.
