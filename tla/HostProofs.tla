----------------------------- MODULE HostProofs -----------------------------
(***************************************************************************)
(* Machine-checked proofs about the two programs that embed a panel: one   *)
(* update after another (module Transaction) and the dialog (module        *)
(* Modal). Both only restrict who calls what, so that each of their steps  *)
(* is a step of the panel, and what PanelProofs shows of Panel holds.      *)
(***************************************************************************)
EXTENDS Modal, Transaction, PanelProofs

-----------------------------------------------------------------------------
\* The panel as newModal hands it out has the panel's invariant.
LEMMA StartedInv == StartedInit => IInv
<1>. SUFFICES ASSUME StartedInit PROVE IInv
  OBVIOUS
<1>. DEFINE m == EmptyModel(0, 0)
<1>1. m \in Snapshot /\ Idle(0, 0) \in Screen
  BY EmptyModelType, IdleType
<1>2. << >> \in Seq(Nat) /\ Len(<< >>) <= LogSize /\ << >> \in Seq(Closure)
  BY PanelAssumption
<1>3. TypeOK
  BY <1>1, <1>2 DEF StartedInit, TypeOK
<1>4. Blank(m) /\ Follows(m, m) /\ Follows(Idle(0, 0), m) /\ Shows(Idle(0, 0), m)
  BY DEF Blank, Follows, Shows, EmptyModel, Idle
<1>. HIDE DEF m
<1>5. /\ snap = m /\ held = m /\ screen = Idle(0, 0) /\ queue = << >>
      /\ \A i \in 1 .. Len(queue) : FALSE
  BY DEF StartedInit, m
<1>6. Blanks /\ Ordered /\ Gapless
  BY <1>4, <1>5 DEF Blanks, Ordered, Gapless
<1>7. Nudged /\ OnePump /\ OneClose
  BY DEF StartedInit, Nudged, OnePump, OneClose, ClosedPumpIsGone
<1>. QED
  BY <1>3, <1>6, <1>7 DEF IInv

\* Every step of a transaction is a step of its panel.
LEMMA TxIsPanel == [TxNext]_txVars => [Next]_vars
BY HostAssumption
   DEF TxNext, Report, NextRun, Elsewhere, TxRender, Next, CallBegin, CallStep, txVars, vars

\* What PanelProofs knows of a panel holds of a panel in transactions.
LEMMA TxPanel == TxSpec => []IInv
<1>1. TxInit => IInv
  BY StartedInv DEF TxInit
<1>2. IInv /\ [TxNext]_txVars => IInv'
  BY TxIsPanel, TypeNext, InvNext DEF IInv
<1>. QED
  BY <1>1, <1>2, PTL DEF TxSpec

-----------------------------------------------------------------------------
\* Where a snapshot puts the bar.
Level(s) == IF s.seq = 0 THEN 0 ELSE Fraction(s)

\* The phases over which the bar may go back, or is not moved at all.
MayFall == {"download", "stage", "rollback"}

\* Within a run, a snapshot after a does not put the bar below a's place. A
\* rollback holds the bar, and so is followed by nothing that moves it.
Rises(a, b) == a.run = b.run =>
                 b.phase \in MayFall \/ (a.phase # "rollback" /\ Level(a) <= Level(b))
BarRises(w, b) == w.run = b.run => b.phase \in MayFall \/ w.bar <= Level(b)

Rising == /\ Rises(held, snap) /\ BarRises(screen, held) /\ BarRises(screen, snap)
          /\ \A i \in 1 .. Len(queue) :
               /\ BarRises(screen, queue[i].snap)
               /\ Rises(queue[i].snap, held) /\ Rises(queue[i].snap, snap)
               /\ \A j \in i .. Len(queue) : Rises(queue[i].snap, queue[j].snap)

\* The furthest the bar can be once the updater has reported a phase.
Ceiling == [start |-> 0, check |-> 500, download |-> 4500, stage |-> 4500,
            quiesce |-> 4500, migrate |-> 6000, apply |-> 7500, verify |-> 8800,
            commit |-> BarFull, gc |-> BarFull, rollback |-> BarFull]

Below(s, m, l) == s.run = m.run =>
                    \/ l.phase = "rollback"
                    \/ s.phase # "rollback" /\ Level(s) <= Ceiling[l.phase]

AllBelow == /\ Below(snap, snap, last) /\ Below(held, snap, last)
            /\ \A i \in 1 .. Len(queue) : Below(queue[i].snap, snap, last)
            /\ screen.run = snap.run =>
                 last.phase = "rollback" \/ screen.bar <= Ceiling[last.phase]

\* The model is at the phase the updater reported last.
AtLast == /\ last \in [phase: KnownPhases \cup {"start"}, failed: BOOLEAN]
          /\ last.phase \in {"stage", "rollback"} => last.failed
          /\ last.failed <=> snap.err # NoErr
          /\ snap.seq = 0 <=> last.phase = "start"
          /\ snap.seq # 0 => snap.phase = last.phase
          /\ snap.done => last.phase \in {"commit", "gc", "rollback"}

\* The screen, and the one that painted everything, are drawings of the
\* snapshot the pump copied, and of the model.
Drawn(w, s) == \E v : w = Painted(v, s)
Pictures == /\ pump # "deliver" /\ queue = << >> => Drawn(screen, held)
            /\ Drawn(ideal, snap)

\* Every snapshot of an event is of a phase of the table.
Placed(s) == s.seq = 0 \/ s.phase \in KnownPhases
AllPlaced == /\ Placed(snap) /\ Placed(held)
             /\ \A i \in 1 .. Len(queue) : Placed(queue[i].snap)

TxInv == Rising /\ AllBelow /\ AtLast /\ AllPlaced /\ Pictures

-----------------------------------------------------------------------------
\* Which phase may be reported after which.
LEMMA Sequel ==
  ASSUME AtLast, NEW e \in Events, Emits(last, e)
  PROVE  \/ last.phase = "start" /\ e.phase = "check"
         \/ last.phase = "check" /\ e.phase \in {"check", "download"}
         \/ last.phase = "download" /\ e.phase \in {"download", "stage", "quiesce"}
         \/ last.phase = "quiesce" /\ e.phase \in {"quiesce", "migrate", "apply", "rollback"}
         \/ last.phase = "migrate" /\ e.phase \in {"migrate", "apply", "rollback"}
         \/ last.phase = "apply" /\ e.phase \in {"apply", "verify", "commit", "rollback"}
         \/ last.phase = "verify" /\ e.phase \in {"verify", "commit", "rollback"}
         \/ last.phase = "commit" /\ e.phase = "gc"
<1>1. CASE ~last.failed /\ e.phase \in After[last.phase]
  <2>1. last.phase \in {"start", "check", "download", "quiesce", "migrate", "apply",
                       "verify", "commit", "gc"}
    BY <1>1 DEF AtLast, KnownPhases
  <2>. QED
    BY <1>1, <2>1 DEF After
<1>2. CASE last.phase \in DOMAIN FailsAs /\ e.phase = FailsAs[last.phase]
  BY <1>2 DEF FailsAs
<1>3. CASE last.phase \in {"quiesce", "migrate", "apply", "verify"} /\ e.phase = "rollback"
  BY <1>3
<1>. QED
  BY <1>1, <1>2, <1>3 DEF Emits

\* What the order of the updater's events does to the bar: outside of the
\* phases in which it may fall, an event puts the bar no lower than any event
\* before it could have, and never above the ceiling of its phase.
LEMMA Emission ==
  ASSUME AtLast, TypeOK, NEW e \in Events, Emits(last, e)
  PROVE  /\ last.phase # "rollback" /\ e.phase \in KnownPhases
         /\ \/ e.phase = "rollback"
            \/ /\ Level(Apply(snap, e)) <= Ceiling[e.phase]
               /\ Ceiling[last.phase] <= Ceiling[e.phase]
         /\ e.phase \in MayFall \/ Ceiling[last.phase] <= Level(Apply(snap, e))
         /\ Apply(snap, e).done => e.phase \in {"commit", "gc", "rollback"}
         /\ Apply(snap, e).err = NoErr <=> ~last.failed /\ e.err = NoErr
<1>. DEFINE s == Apply(snap, e)
<1>1. /\ s.seq # 0 /\ s.phase = e.phase /\ s.progress = e.progress
      /\ s.err = IF snap.err = NoErr THEN e.err ELSE snap.err
      /\ s.done = IF e.phase \in {"commit", "rollback"} THEN TRUE ELSE snap.done
  BY DEF Apply, TypeOK, Snapshot
<1>2. snap.done \in BOOLEAN /\ e.progress \in Progress
  BY PanelAssumption DEF TypeOK, Snapshot, Event
<1>3. Level(s) = Fraction(s)
  BY <1>1 DEF Level
<1>. HIDE DEF s
<1>4. s.err = NoErr <=> ~last.failed /\ e.err = NoErr
  BY <1>1 DEF AtLast, Emits
<1>5. last.phase \in KnownPhases \cup {"start"}
  BY DEF AtLast
<1>6. last.phase # "rollback" /\ e.phase \in KnownPhases
  BY Sequel DEF KnownPhases
<1>7. s.done => e.phase \in {"commit", "gc", "rollback"}
  BY <1>1, <1>2, Sequel DEF AtLast
<1>8. CASE e.phase = "rollback"
  BY <1>1, <1>4, <1>6, <1>7, <1>8 DEF MayFall, s
<1>9. CASE e.phase \in {"commit", "gc"}
  <2>1. Fraction(s) = BarFull
    <3>1. CASE s.done /\ s.err = NoErr
      BY <1>9, <1>1, <3>1 DEF Fraction
    <3>2. CASE ~(s.done /\ s.err = NoErr)
      <4>1. s.phase = "gc"
        BY <1>1, <1>4, <1>9, <3>2, Sequel DEF Emits, FailsAs
      <4>2. s.phase \in DOMAIN Steps /\ Steps[s.phase] = [from |-> 100, to |-> 100]
        BY <4>1 DEF Steps
      <4>3. s.progress \in Progress
        BY <1>1, <1>2
      <4>. QED
        BY <3>2, <4>2, <4>3 DEF Fraction, BarFull, BarUnit, Progress
    <3>. QED
      BY <3>1, <3>2
  <2>2. Ceiling[last.phase] <= BarFull /\ Ceiling[e.phase] = BarFull /\ BarFull <= BarFull
    BY <1>5, <1>9 DEF Ceiling, KnownPhases, BarFull, BarUnit
  <2>. QED
    BY <1>3, <1>4, <1>6, <1>7, <2>1, <2>2 DEF s
<1>10. CASE e.phase = "download"
  <2>1. Fraction(s) \in 2000 .. 4500
    <3>1. s.phase \in DOMAIN Steps /\ Steps[s.phase] = [from |-> 20, to |-> 45] /\ ~s.done
      BY <1>1, <1>7, <1>10 DEF Steps
    <3>2. Fraction(s) = 2000 + (IF s.progress \in 0 .. 100 THEN s.progress * 25 ELSE 0)
      BY <1>1, <1>2, <3>1 DEF Fraction, BarUnit, Progress
    <3>. QED
      BY <1>1, <1>2, <3>2 DEF Progress
  <2>2. Ceiling[last.phase] <= 4500 /\ Ceiling[e.phase] = 4500
    BY <1>10, Sequel DEF Ceiling
  <2>. QED
    BY <1>3, <1>4, <1>6, <1>7, <1>10, <2>1, <2>2 DEF s, MayFall
<1>11. CASE e.phase = "stage"
  <2>0. e.progress = -1
    <3>1. e.phase \notin After[last.phase] \/ last.failed
      BY <1>11, Sequel DEF After
    <3>. QED
      BY <1>11, <3>1 DEF Emits
  <2>1. Fraction(s) = 3500
    BY <1>1, <1>2, <1>7, <1>11, <2>0 DEF Fraction, Steps, BarUnit, Progress
  <2>2. Ceiling[last.phase] <= 4500 /\ Ceiling[e.phase] = 4500
    BY <1>11, Sequel DEF Ceiling
  <2>. QED
    BY <1>3, <1>4, <1>6, <1>7, <1>11, <2>1, <2>2 DEF s, MayFall
<1>12. CASE e.phase \in {"check", "quiesce", "migrate", "apply", "verify"}
  <2>0. e.progress \notin 0 .. 100
    BY <1>5, <1>12 DEF Emits, After, KnownPhases
  <2>1. Fraction(s) = Ceiling[e.phase]
    BY <1>1, <1>2, <1>7, <1>12, <2>0 DEF Fraction, Steps, BarUnit, Progress, Ceiling
  <2>2. Ceiling[last.phase] <= Ceiling[e.phase]
    BY <1>12, Sequel DEF Ceiling
  <2>3. Ceiling[e.phase] <= Ceiling[e.phase]
    BY <1>12 DEF Ceiling
  <2>. QED
    BY <1>3, <1>4, <1>6, <1>7, <1>12, <2>1, <2>2, <2>3 DEF s
<1>. QED
  BY <1>6, <1>8, <1>9, <1>10, <1>11, <1>12 DEF KnownPhases

-----------------------------------------------------------------------------
\* Types a step needs: positions of the bar, and the runs of the chain.
LEMMA LevelType ==
  ASSUME NEW s \in Snapshot
  PROVE  Level(s) \in Int
<1>1. Fraction(s) \in Int
  <2>1. Hold \in Int /\ 0 .. BarFull \subseteq Int
    BY DEF Hold, BarFull, BarUnit
  <2>. QED
    BY <2>1, FractionRange
<1>. QED
  BY <1>1 DEF Level

\* Every ceiling is a position of the bar.
LEMMA CeilingType ==
  ASSUME NEW p \in KnownPhases \cup {"start"}
  PROVE  Ceiling[p] \in Nat
BY DEF Ceiling, KnownPhases, BarFull, BarUnit

\* Every queued render carries a snapshot.
LEMMA QueuedType ==
  ASSUME TypeOK, NEW i \in 1 .. Len(queue)
  PROVE  queue[i].snap \in Snapshot
<1>1. queue[i] \in Closure
  BY DEF TypeOK
<1>. QED
  BY <1>1 DEF Closure

\* An event cannot pull the bar below what is queued, copied or painted: the
\* updater never reports a phase that puts the bar under an earlier ceiling.
LEMMA ReportKeeps ==
  ASSUME TxInv, IInv, TypeOK', NEW e \in Events, Report(e)
  PROVE  TxInv'
<1>. USE DEF IInv
<1>1. /\ Emits(last, e) /\ snap' = Apply(snap, e) /\ ideal' = Painted(ideal, snap')
      /\ last' = [phase |-> e.phase, failed |-> last.failed \/ e.err # NoErr]
      /\ UNCHANGED <<pump, held, queue, screen>>
  BY DEF Report, OnEvent
<1>2. AtLast /\ AllBelow /\ Rising /\ Pictures
  BY DEF TxInv
<1>3. /\ last.phase # "rollback" /\ e.phase \in KnownPhases
      /\ \/ e.phase = "rollback"
         \/ Level(snap') <= Ceiling[e.phase] /\ Ceiling[last.phase] <= Ceiling[e.phase]
      /\ e.phase \in MayFall \/ Ceiling[last.phase] <= Level(snap')
      /\ snap'.done => e.phase \in {"commit", "gc", "rollback"}
      /\ snap'.err = NoErr <=> ~last.failed /\ e.err = NoErr
  BY <1>1, <1>2, Emission
<1>4. snap'.run = snap.run /\ snap'.seq # 0 /\ snap'.phase = e.phase
  BY <1>1 DEF Apply, TypeOK, Snapshot
<1>5. AtLast'
  <2>1. last'.failed \in BOOLEAN /\ last'.phase = e.phase /\ last'.failed = (last.failed \/ e.err # NoErr)
    BY <1>1, <1>2 DEF AtLast
  <2>2. e.phase # "start" /\ last' \in [phase: KnownPhases \cup {"start"}, failed: BOOLEAN]
    BY <1>1, <1>2, <1>3, <2>1 DEF KnownPhases, AtLast
  <2>3. e.phase \in {"stage", "rollback"} => last'.failed
    <3>1. e.phase \notin After[last.phase] \/ last.failed \/ e.phase \notin {"stage", "rollback"}
      BY <1>1, <1>2, Sequel DEF After
    <3>. QED
      BY <1>1, <2>1, <3>1 DEF Emits
  <2>. QED
    BY <1>3, <1>4, <2>1, <2>2, <2>3 DEF AtLast
<1>6. /\ Ceiling[last.phase] \in Nat /\ Ceiling[e.phase] \in Nat
      /\ Level(snap') \in Int
  BY <1>2, <1>3, CeilingType, LevelType DEF AtLast, TypeOK
<1>7. ASSUME NEW x \in Snapshot, Below(x, snap, last)
      PROVE  Rises(x, snap') /\ Below(x, snap', last')
  <2>1. Level(x) \in Int /\ last'.phase = e.phase
    BY <1>1, LevelType
  <2>2. x.run = snap.run => x.phase # "rollback" /\ Level(x) <= Ceiling[last.phase]
    BY <1>3, <1>7 DEF Below
  <2>. QED
    BY <1>3, <1>4, <1>6, <2>1, <2>2 DEF Rises, Below
<1>8. screen.run = snap.run => screen.bar <= Ceiling[last.phase]
  BY <1>2, <1>3 DEF AllBelow
<1>9. screen.bar \in Nat /\ last'.phase = e.phase
  BY <1>1 DEF TypeOK, Screen
<1>10. BarRises(screen, snap')
  BY <1>3, <1>4, <1>6, <1>8, <1>9 DEF BarRises
<1>11. \A i \in 1 .. Len(queue) : Rises(queue[i].snap, snap') /\ Below(queue[i].snap, snap', last')
  BY <1>2, <1>7, QueuedType DEF AllBelow
<1>12. Rises(held, snap') /\ Below(held, snap', last')
  BY <1>2, <1>7 DEF AllBelow, TypeOK
<1>13. Rising'
  BY <1>1, <1>2, <1>10, <1>11, <1>12 DEF Rising
<1>14. Below(snap', snap', last')
  BY <1>3, <1>4, <1>9 DEF Below
<1>15. AllBelow'
  <2>1. screen'.run = snap'.run =>
          last'.phase = "rollback" \/ screen'.bar <= Ceiling[last'.phase]
    BY <1>1, <1>3, <1>4, <1>6, <1>8, <1>9
  <2>. QED
    BY <1>1, <1>11, <1>12, <1>14, <2>1 DEF AllBelow
<1>16. Pictures' /\ AllPlaced'
  BY <1>1, <1>2, <1>3, <1>4 DEF Pictures, Drawn, TxInv, AllPlaced, Placed
<1>. QED
  BY <1>5, <1>13, <1>15, <1>16 DEF TxInv

\* A Reset opens a run nothing on its way to the screen belongs to.
LEMMA NextRunKeeps ==
  ASSUME TxInv, IInv, TypeOK', NextRun
  PROVE  TxInv'
<1>. USE DEF IInv
<1>1. /\ snap' = EmptyModel(snap.ver + 1, snap.run + 1) /\ ideal' = Painted(ideal, snap')
      /\ last' = Begun /\ UNCHANGED <<pump, held, queue, screen>>
  BY DEF NextRun, Reset
<1>2. /\ snap'.run = snap.run + 1 /\ snap'.seq = 0 /\ snap'.phase # "rollback"
      /\ snap'.err = NoErr /\ ~snap'.done /\ Level(snap') = 0
  BY <1>1, Zenon DEF EmptyModel, Level
<1>3. snap.run \in Nat /\ held.run \in Nat /\ screen.run \in Nat
  BY DEF TypeOK, Snapshot, Screen
<1>4. screen.run # snap'.run /\ held.run # snap'.run
  BY <1>2, <1>3 DEF Ordered, Follows
<1>5. ASSUME NEW i \in 1 .. Len(queue) PROVE queue[i].snap.run # snap'.run
  <2>1. queue[i].snap.run \in Nat
    BY QueuedType DEF Snapshot
  <2>2. queue[i].snap.run <= held.run /\ held.run <= snap.run
    BY DEF Ordered, Follows
  <2>. QED
    BY <1>2, <1>3, <2>1, <2>2
<1>6. Rising'
  BY <1>1, <1>4, <1>5 DEF Rising, Rises, BarRises, TxInv
<1>7. last'.phase = "start" /\ ~last'.failed /\ Ceiling["start"] = 0
  BY <1>1 DEF Begun, Ceiling
<1>8. AllBelow'
  BY <1>1, <1>2, <1>4, <1>5, <1>7 DEF AllBelow, Below
<1>9. AtLast'
  BY <1>1, <1>2, <1>7 DEF AtLast, Begun
<1>10. Pictures' /\ AllPlaced'
  BY <1>1, <1>2 DEF Pictures, Drawn, TxInv, AllPlaced, Placed
<1>. QED
  BY <1>6, <1>8, <1>9, <1>10 DEF TxInv

\* The pump's steps only add to the chain what is in it already.
LEMMA TxPumpKeeps ==
  ASSUME TxInv, IInv, TypeOK', PumpStep \/ Nudge(Driver), UNCHANGED <<last, ideal>>
  PROVE  TxInv'
<1>. USE DEF IInv, TxInv
<1>1. UNCHANGED <<snap, screen>>
  BY DEF PumpStep, PumpStop, PumpTake, PumpCopy, PumpDeliver, Nudge, model
<1>2. AtLast'
  BY <1>1 DEF AtLast
<1>3. CASE PumpStop \/ PumpTake \/ Nudge(Driver)
  <2>1. UNCHANGED <<held, queue>> /\ (pump = "deliver" <=> pump' = "deliver")
    BY <1>3 DEF PumpStop, PumpTake, Nudge
  <2>. QED
    BY <1>1, <1>2, <2>1 DEF Rising, AllBelow, AllPlaced, Pictures, Drawn
<1>4. CASE PumpCopy
  <2>1. pump' = "deliver" /\ held' = snap /\ UNCHANGED queue
    BY <1>4 DEF PumpCopy
  <2>2. Rises(snap, snap)
    <3>1. Level(snap) \in Int
      BY LevelType DEF TypeOK
    <3>2. snap.phase = "rollback" => snap.phase \in MayFall
      BY DEF MayFall
    <3>. QED
      BY <3>1, <3>2 DEF Rises
  <2>. QED
    BY <1>1, <1>2, <2>1, <2>2 DEF Rising, AllBelow, AllPlaced, Pictures, Drawn
<1>5. CASE PumpDeliver
  <2>0. /\ Len(queue') = Len(queue) + 1 /\ queue'[Len(queue')] = RenderOf(held)
        /\ \A i \in 1 .. Len(queue) : queue'[i] = queue[i]
        /\ queue' # << >> /\ Len(queue) \in Nat /\ UNCHANGED held
    BY <1>5 DEF TypeOK, PumpDeliver, Do, control, model
  <2>1. /\ Len(queue') = Len(queue) + 1 /\ queue'[Len(queue')].snap = held
        /\ \A i \in 1 .. Len(queue) : queue'[i] = queue[i]
        /\ queue' # << >> /\ Len(queue) \in Nat /\ UNCHANGED held
    BY <2>0 DEF RenderOf
  <2>2. Rises(held, held)
    <3>1. Level(held) \in Int
      BY LevelType DEF TypeOK
    <3>2. held.phase = "rollback" => held.phase \in MayFall
      BY DEF MayFall
    <3>. QED
      BY <3>1, <3>2 DEF Rises
  <2>3. Rising'
    BY <1>1, <2>1, <2>2 DEF Rising
  <2>4. AllBelow' /\ AllPlaced'
    BY <1>1, <2>1 DEF AllBelow, AllPlaced
  <2>. QED
    BY <1>1, <1>2, <2>1, <2>3, <2>4 DEF Pictures, Drawn
<1>. QED
  BY <1>3, <1>4, <1>5 DEF PumpStep

\* Where a render leaves the bar: at the place of the snapshot, or where it
\* was, which among the phases of the table only a rollback does.
LEMMA PaintedBar ==
  ASSUME NEW w, NEW s, Placed(s)
  PROVE  \/ Painted(w, s).bar = Level(s) /\ (s.phase # "rollback" \/ s.seq = 0)
         \/ Painted(w, s).bar = w.bar /\ s.phase = "rollback"
<1>1. CASE s.seq = 0
  BY <1>1 DEF Painted, Idle, Level
<1>2. CASE s.seq # 0 /\ Fraction(s) # Hold
  <2>1. s.phase # "rollback"
    BY <1>2 DEF Fraction, Steps, Hold
  <2>. QED
    BY <1>2, <2>1 DEF Painted, Level
<1>3. CASE s.seq # 0 /\ Fraction(s) = Hold
  <2>1. s.phase \in KnownPhases
    BY <1>3 DEF Placed
  <2>2. s.phase # "rollback" => Fraction(s) # Hold
    BY <2>1 DEF KnownPhases, Fraction, Steps, Hold, BarFull, BarUnit
  <2>. QED
    BY <1>3, <2>2 DEF Painted
<1>. QED
  BY <1>1, <1>2, <1>3

\* A render hands the place of the oldest queued snapshot to the bar.
LEMMA TxRenderKeeps ==
  ASSUME TxInv, IInv, TypeOK', Render, UNCHANGED <<last, ideal>>
  PROVE  TxInv'
<1>. USE DEF IInv, TxInv
<1>. DEFINE s == queue[1].snap
<1>1. /\ Len(queue) \in Nat \ {0} /\ Len(queue') = Len(queue) - 1
      /\ \A i \in 1 .. Len(queue') : queue'[i] = queue[i + 1] /\ i + 1 \in 1 .. Len(queue)
      /\ Head(queue) = queue[1] /\ 1 \in 1 .. Len(queue)
      /\ UNCHANGED <<snap, held, pump>> /\ screen' = Painted(screen, s)
  BY DEF TypeOK, Render, model
<1>2. s \in Snapshot /\ Blank(s) /\ Level(s) \in Int
  BY <1>1, QueuedType, LevelType DEF Blanks
<1>3. screen'.run = s.run /\ Shows(screen', s)
  BY <1>1, <1>2, PaintedShows
<1>4. \/ screen'.bar = Level(s)
      \/ screen'.bar = screen.bar /\ s.phase = "rollback"
  BY <1>1, PaintedBar DEF AllPlaced
<1>. HIDE DEF s
<1>5. ASSUME NEW x, Rises(s, x) PROVE BarRises(screen', x)
  BY <1>3, <1>4, <1>5 DEF Rises, BarRises
<1>6. Rising'
  <2>1. Rises(s, held) /\ Rises(s, snap) /\ \A i \in 1 .. Len(queue) : Rises(s, queue[i].snap)
    BY <1>1 DEF Rising, s
  <2>2. \A i \in 1 .. Len(queue') : \A j \in i .. Len(queue') :
          j \in 1 .. Len(queue') /\ j + 1 \in i + 1 .. Len(queue)
    BY <1>1
  <2>3. ASSUME NEW i \in 1 .. Len(queue')
        PROVE  /\ BarRises(screen', queue'[i].snap)
               /\ Rises(queue'[i].snap, held) /\ Rises(queue'[i].snap, snap)
    BY <1>1, <1>5, <2>1 DEF Rising
  <2>4. ASSUME NEW i \in 1 .. Len(queue'), NEW j \in i .. Len(queue')
        PROVE  Rises(queue'[i].snap, queue'[j].snap)
    <3>1. i + 1 \in 1 .. Len(queue) /\ j + 1 \in i + 1 .. Len(queue) /\ j \in 1 .. Len(queue')
      BY <1>1, <2>2
    <3>. QED
      BY <1>1, <3>1 DEF Rising
  <2>. QED
    BY <1>1, <1>5, <2>1, <2>3, <2>4 DEF Rising
<1>7. AllBelow'
  <2>1. Below(s, snap, last)
    BY <1>1 DEF AllBelow, s
  <2>2. screen'.run = snap.run =>
          last.phase = "rollback" \/ screen'.bar <= Ceiling[last.phase]
    BY <1>3, <1>4, <2>1 DEF Below
  <2>. QED
    BY <1>1, <2>2 DEF AllBelow
<1>8. AtLast' /\ AllPlaced'
  BY <1>1 DEF AtLast, AllPlaced
<1>9. Pictures'
  <2>1. queue' = << >> /\ pump # "deliver" => s = held
    <3>1. queue' = << >> => Len(queue) = 1 /\ queue # << >>
      BY <1>1
    <3>. QED
      BY <3>1 DEF Gapless, s
  <2>2. Drawn(screen', s)
    BY <1>1 DEF Drawn
  <2>. QED
    BY <1>1, <2>1, <2>2 DEF Pictures
<1>. QED
  BY <1>6, <1>7, <1>8, <1>9

\* The inductive invariant of a transaction.
LEMMA TxInvariance == TxSpec => []TxInv
<1>1. TxInit => TxInv
  <2>. SUFFICES ASSUME TxInit PROVE TxInv
    OBVIOUS
  <2>. DEFINE m == EmptyModel(0, 0)
  <2>1. /\ m.run = 0 /\ m.seq = 0 /\ m.phase # "rollback" /\ m.err = NoErr /\ ~m.done
        /\ Level(m) = 0 /\ Idle(0, 0).bar = 0 /\ Idle(0, 0).run = 0
    BY Zenon DEF EmptyModel, Level, Idle
  <2>2. Idle(0, 0) = Painted(Idle(0, 0), m)
    BY DEF EmptyModel, Painted
  <2>. HIDE DEF m
  <2>3. /\ snap = m /\ held = m /\ screen = Idle(0, 0) /\ ideal = Idle(0, 0)
        /\ last = [phase |-> "start", failed |-> FALSE]
        /\ \A i \in 1 .. Len(queue) : FALSE
    BY DEF TxInit, StartedInit, Begun, m
  <2>4. Rising
    BY <2>1, <2>3 DEF Rising, Rises, BarRises
  <2>5. AllBelow
    <3>1. Ceiling[last.phase] = 0
      BY <2>3 DEF Ceiling
    <3>. QED
      BY <2>1, <2>3, <3>1 DEF AllBelow, Below
  <2>6. AtLast /\ AllPlaced
    BY <2>1, <2>3 DEF AtLast, AllPlaced, Placed
  <2>7. Pictures
    BY <2>1, <2>2, <2>3 DEF Pictures, Drawn
  <2>. QED
    BY <2>4, <2>5, <2>6, <2>7 DEF TxInv
<1>2. TxInv /\ IInv /\ TypeOK' /\ [TxNext]_txVars => TxInv'
  <2>. SUFFICES ASSUME TxInv, IInv, TypeOK', [TxNext]_txVars PROVE TxInv'
    OBVIOUS
  <2>1. CASE UNCHANGED txVars
    BY <2>1 DEF txVars, vars, TxInv, Rising, AllBelow, AtLast, AllPlaced, Pictures, Drawn
  <2>. QED
    BY <2>1, ReportKeeps, NextRunKeeps, TxPumpKeeps, TxRenderKeeps DEF TxNext, Elsewhere, TxRender
<1>. QED
  BY <1>1, <1>2, TxPanel, PTL DEF TxSpec, IInv

\* Within a run the bar goes back only while the release is being staged
\* (phase.go steps: "would drive the bar backwards").
THEOREM BarProved == TxSpec => BarAdvances
<1>1. TxInv /\ IInv /\ [TxNext]_txVars
        => [screen'.run = screen.run /\ screen'.bar < screen.bar
              => screen'.phase \in {"download", "stage"}]_txVars
  <2>1. ASSUME TxInv, IInv, Render, screen'.run = screen.run, screen'.bar < screen.bar
        PROVE  screen'.phase \in {"download", "stage"}
    <3>. DEFINE s == queue[1].snap
    <3>. USE <2>1 DEF TxInv, IInv
    <3>1. 1 \in 1 .. Len(queue) /\ screen' = Painted(screen, s)
      BY DEF Render, TypeOK
    <3>2. s \in Snapshot /\ Blank(s) /\ Placed(s) /\ BarRises(screen, s) /\ Level(s) \in Int
      BY <3>1, QueuedType, LevelType DEF Blanks, AllPlaced, Rising
    <3>. HIDE DEF s
    <3>3. Shows(screen', s) /\ screen'.run = s.run
      BY <3>1, <3>2, PaintedShows
    <3>4. screen.bar \in Int
      BY DEF TypeOK, Screen
    <3>5. screen'.bar = Level(s) /\ s.phase # "rollback"
      <4>1. screen'.bar # screen.bar
        BY <2>1, <3>4
      <4>2. screen'.bar = Level(s) /\ (s.phase # "rollback" \/ s.seq = 0)
        BY <3>1, <3>2, <4>1, PaintedBar
      <4>3. s.seq = 0 => s.phase # "rollback"
        BY <3>2, Zenon DEF Blank
      <4>. QED
        BY <4>2, <4>3
    <3>6. s.phase \in MayFall
      BY <2>1, <3>2, <3>3, <3>4, <3>5 DEF BarRises
    <3>. QED
      BY <3>3, <3>5, <3>6 DEF MayFall, Shows
  <2>2. [TxNext]_txVars => Render \/ UNCHANGED screen
    BY DEF TxNext, Report, NextRun, Elsewhere, TxRender, OnEvent, Reset, Nudge, PumpStep, PumpStop,
           PumpTake, PumpCopy, PumpDeliver, txVars, vars
  <2>3. ASSUME TypeOK, UNCHANGED screen PROVE ~(screen'.bar < screen.bar)
    BY <2>3 DEF TypeOK, Screen
  <2>. QED
    BY <2>1, <2>2, <2>3 DEF IInv
<1>. QED
  BY <1>1, TxInvariance, TxPanel, PTL DEF TxSpec, BarAdvances

\* A committed update that did not fail ends on a full bar (phase.go Fraction).
THEOREM FullProved == TxSpec => []CommittedIsFull
<1>1. TxInv /\ IInv => CommittedIsFull
  <2>. SUFFICES ASSUME TxInv, IInv, Settled, snap.done, snap.err = NoErr, snap.phase # "rollback"
                PROVE  screen.bar = BarFull
    BY DEF CommittedIsFull
  <2>1. snap.seq # 0
    BY DEF TxInv, AtLast
  <2>2. Fraction(snap) = BarFull /\ BarFull # Hold
    BY DEF Fraction, BarFull, BarUnit, Hold
  <2>3. Drawn(screen, snap)
    BY DEF TxInv, IInv, Settled, Nudged, Pictures
  <2>. QED
    BY <2>1, <2>2, <2>3 DEF Drawn, Painted
<1>. QED
  BY <1>1, TxInvariance, TxPanel, PTL

\* What a rollback can still paint: once the model is at a rollback, no snapshot of
\* its run on the way to the screen puts the bar further than the rollback holds it,
\* nor is it further if a repaint of the run has set it.
Peak == /\ moved \in Nat /\ moved <= screen.run
        /\ snap.phase = "rollback" =>
             /\ held.run = snap.run /\ held.phase # "rollback" => Level(held) <= ideal.bar
             /\ \A i \in 1 .. Len(queue) :
                  queue[i].snap.run = snap.run /\ queue[i].snap.phase # "rollback"
                    => Level(queue[i].snap) <= ideal.bar
             /\ moved = snap.run => screen.bar <= ideal.bar

\* Outside of the phases in which the bar may fall, the model is the furthest of its run.
LEMMA TopOfRun ==
  ASSUME TxInv, IInv, snap.phase \notin MayFall
  PROVE  /\ ideal.bar = Level(snap)
         /\ held.run = snap.run => Level(held) <= ideal.bar
         /\ \A i \in 1 .. Len(queue) :
              queue[i].snap.run = snap.run => Level(queue[i].snap) <= ideal.bar
         /\ Peak /\ moved = snap.run => screen.bar <= ideal.bar
<1>. USE DEF TxInv, IInv
<1>1. ideal.bar = Level(snap)
  BY PaintedBar DEF Pictures, Drawn, AllPlaced, MayFall
<1>2. screen.run \in Nat /\ held.run \in Nat /\ snap.run \in Nat
  BY DEF TypeOK, Screen, Snapshot
<1>3. Peak /\ moved = snap.run => screen.run = snap.run
  BY <1>2 DEF Peak, Ordered, Follows
<1>. QED
  BY <1>1, <1>3 DEF Rising, Rises, BarRises

\* A rollback finds every other snapshot of its run at or below the place it holds.
LEMMA PeakReport ==
  ASSUME TxInv, IInv, Peak, NEW e \in Events, Report(e)
  PROVE  Peak'
<1>. USE DEF TxInv, IInv
<1>1. /\ Emits(last, e) /\ snap' = Apply(snap, e) /\ ideal' = Painted(ideal, snap')
      /\ UNCHANGED <<held, queue, screen, moved>>
  BY DEF Report, OnEvent
<1>2. snap'.run = snap.run /\ snap'.seq # 0 /\ snap'.phase = e.phase
  BY <1>1 DEF Apply, TypeOK, Snapshot
<1>3. CASE e.phase # "rollback"
  BY <1>1, <1>2, <1>3 DEF Peak
<1>4. CASE e.phase = "rollback"
  <2>1. last.phase \in {"quiesce", "migrate", "apply", "verify"}
    BY <1>1, <1>4, Sequel
  <2>2. snap.phase \notin MayFall
    BY <2>1 DEF AtLast, MayFall
  <2>3. Placed(snap')
    BY <1>2, <1>4 DEF Placed, KnownPhases
  <2>4. ideal'.bar = ideal.bar
    BY <1>1, <1>2, <1>4, <2>3, PaintedBar
  <2>. QED
    BY <1>1, <1>2, <2>2, <2>4, TopOfRun DEF Peak
<1>. QED
  BY <1>3, <1>4

\* What a render leaves is at or below the place a rollback holds.
LEMMA PeakRender ==
  ASSUME TxInv, IInv, Peak, TxRender
  PROVE  Peak'
<1>. USE DEF TxInv, IInv
<1>. DEFINE s == queue[1].snap
<1>1. /\ Len(queue) \in Nat \ {0} /\ Len(queue') = Len(queue) - 1
      /\ \A i \in 1 .. Len(queue') : queue'[i] = queue[i + 1] /\ i + 1 \in 1 .. Len(queue)
      /\ 1 \in 1 .. Len(queue) /\ UNCHANGED <<snap, held, ideal>>
      /\ screen' = Painted(screen, s) /\ moved' = IF Sets(s) THEN s.run ELSE moved
  BY DEF TypeOK, TxRender, Render, model
<1>2. s \in Snapshot /\ Blank(s) /\ Placed(s) /\ screen.run <= s.run
  BY <1>1, QueuedType DEF Blanks, AllPlaced, Ordered, Follows
<1>3. snap.phase = "rollback" /\ s.run = snap.run /\ s.phase # "rollback"
        => Level(s) <= ideal.bar
  BY <1>1 DEF Peak
<1>4. screen'.run = s.run /\ s.run \in Nat /\ screen.run \in Nat
  BY <1>1, <1>2, PaintedShows DEF TypeOK, Screen, Snapshot
<1>5. Sets(s) => screen'.bar = Level(s) /\ s.phase # "rollback"
  <2>1. s.seq = 0 => s.phase # "rollback"
    BY <1>2, Zenon DEF Blank
  <2>2. Fraction(s) # Hold => s.phase # "rollback"
    BY DEF Fraction, Steps, Hold
  <2>. QED
    BY <1>1, <1>2, <2>1, <2>2, PaintedBar DEF Sets
<1>6. ~Sets(s) => screen'.bar = screen.bar
  BY <1>1 DEF Sets, Painted
<1>. HIDE DEF s
<1>7. moved' \in Nat /\ moved' <= screen'.run
  BY <1>1, <1>2, <1>4 DEF Peak
<1>8. snap.phase = "rollback" /\ moved' = snap.run => screen'.bar <= ideal.bar
  BY <1>1, <1>3, <1>5, <1>6 DEF Peak
<1>. QED
  BY <1>1, <1>7, <1>8 DEF Peak

\* The rest adds nothing to what is on its way, or begins a run that has no rollback.
LEMMA PeakRest ==
  ASSUME TxInv, IInv, Peak, NextRun \/ Elsewhere \/ UNCHANGED txVars
  PROVE  Peak'
<1>1. CASE NextRun
  <2>1. snap' = EmptyModel(snap.ver + 1, snap.run + 1) /\ UNCHANGED <<screen, moved>>
    BY <1>1 DEF NextRun, Reset
  <2>2. snap'.phase # "rollback"
    BY <2>1 DEF EmptyModel
  <2>. QED
    BY <2>1, <2>2 DEF Peak
<1>2. CASE Elsewhere
  <2>1. UNCHANGED <<snap, screen, ideal, moved>>
    BY <1>2 DEF Elsewhere, PumpStep, PumpStop, PumpTake, PumpCopy, PumpDeliver, Nudge, model
  <2>2. CASE PumpStop \/ PumpTake \/ Nudge(Driver)
    BY <2>1, <2>2 DEF PumpStop, PumpTake, Nudge, Peak
  <2>3. CASE PumpCopy
    BY <2>1, <2>3 DEF PumpCopy, Peak
  <2>4. CASE PumpDeliver
    <3>1. /\ Len(queue') = Len(queue) + 1 /\ queue'[Len(queue')] = RenderOf(held)
          /\ \A i \in 1 .. Len(queue) : queue'[i] = queue[i]
          /\ Len(queue) \in Nat /\ UNCHANGED held
      BY <2>4 DEF IInv, TypeOK, PumpDeliver, Do, control, model
    <3>2. queue'[Len(queue')].snap = held
      BY <3>1 DEF RenderOf
    <3>. QED
      BY <2>1, <3>1, <3>2 DEF Peak
  <2>. QED
    BY <1>2, <2>2, <2>3, <2>4 DEF Elsewhere, PumpStep
<1>3. CASE UNCHANGED txVars
  BY <1>3 DEF txVars, vars, Peak
<1>. QED
  BY <1>1, <1>2, <1>3

\* Coalescing never credits a run with more than it has done, and a rollback holds
\* the bar where the update got to or below it (observer.go nudge, render).
THEOREM EarnedProved == TxSpec => []BarIsEarned
<1>1. TxInit => Peak
  <2>1. TxInit => moved = 0 /\ screen.run = 0 /\ snap.phase # "rollback"
    <3>1. EmptyModel(0, 0).phase # "rollback" /\ Idle(0, 0).run = 0
      BY Zenon DEF EmptyModel, Idle
    <3>2. TxInit => moved = 0 /\ snap = EmptyModel(0, 0) /\ screen = Idle(0, 0)
      BY DEF TxInit, StartedInit
    <3>. QED
      BY <3>1, <3>2
  <2>. QED
    BY <2>1 DEF Peak
<1>2. TxInv /\ IInv /\ Peak /\ [TxNext]_txVars => Peak'
  BY PeakReport, PeakRender, PeakRest DEF TxNext
<1>3. TxInv /\ IInv /\ Peak => BarIsEarned
  <2>. SUFFICES ASSUME TxInv, IInv, Peak, moved = snap.run,
                       snap.phase \notin {"download", "stage"}
                PROVE  screen.bar <= ideal.bar
    BY DEF BarIsEarned
  <2>1. CASE snap.phase = "rollback"
    BY <2>1 DEF Peak
  <2>2. CASE snap.phase # "rollback"
    BY <2>2, TopOfRun DEF MayFall
  <2>. QED
    BY <2>1, <2>2
<1>. QED
  BY <1>1, <1>2, <1>3, TxInvariance, TxPanel, PTL DEF TxSpec

-----------------------------------------------------------------------------
\* The flag is the window's state, and a refusal lives in dismissed.
DialogInv ==
  /\ shown \in BOOLEAN /\ dismissed \in BOOLEAN /\ refused \in BOOLEAN
  /\ shown = visible
  /\ refused => dismissed /\ ~visible

\* showHere leaves the dialog up, and the flag set, from whatever it finds.
LEMMA ShowHereShows ==
  ASSUME DialogInv, ShowHere
  PROVE  shown' = TRUE /\ visible' = TRUE
<1>1. CASE shown = TRUE
  <2>1. (visible \/ ~shown) = TRUE
    <3>1. visible = TRUE
      BY <1>1 DEF DialogInv
    <3> QED
      BY <3>1
  <2> QED
    BY <2>1 DEF ShowHere
<1>2. CASE shown = FALSE
  BY <1>2 DEF ShowHere, DialogInv
<1> QED
  BY <1>1, <1>2 DEF DialogInv

\* Hide leaves it away, and the flag cleared.
LEMMA HideHides ==
  ASSUME DialogInv, RunHide
  PROVE  shown' = FALSE /\ visible' = FALSE /\ dismissed' = TRUE /\ refused' \in BOOLEAN
<1>1. visible' = FALSE
  BY DEF RunHide, DialogInv
<1>2. refused' \in BOOLEAN
  BY DEF RunHide, DialogInv
<1> QED
  BY <1>1, <1>2 DEF RunHide, OnClosed

\* Fyne's own steps, a render and a dismissal, keep the flag and the refusal.
LEMMA FyneKeeps ==
  ASSUME DialogInv, FyneStep \/ UserCloses
  PROVE  DialogInv'
<1>1. CASE ModalRender
  <2>1. CASE UNCHANGED dialog
    BY <2>1 DEF DialogInv, dialog
  <2>2. CASE ~dismissed /\ ShowHere /\ UNCHANGED <<dismissed, refused>>
    BY <2>2, ShowHereShows DEF DialogInv
  <2> QED
    BY <1>1, <2>1, <2>2 DEF ModalRender, AfterRender
<1>2. CASE RunShow
  <2>1. ShowHere /\ dismissed' = FALSE /\ refused' = FALSE
    BY <1>2 DEF RunShow
  <2> QED
    BY <2>1, ShowHereShows DEF DialogInv
<1>3. CASE RunHide
  BY <1>3, HideHides DEF DialogInv
<1>4. CASE RunUndismiss
  BY <1>4 DEF RunUndismiss, DialogInv
<1>5. CASE UserCloses
  BY <1>5 DEF UserCloses, OnClosed, DialogInv
<1> QED
  BY <1>1, <1>2, <1>3, <1>4, <1>5 DEF FyneStep

\* Nobody but the Fyne goroutine touches the dialog or its flags.
LEMMA OthersKeep ==
  ASSUME DialogInv, \/ \E t \in Threads : ModalBegin(t) \/ ModalCallStep(t)
               \/ ModalPump
  PROVE  DialogInv'
<1>1. UNCHANGED dialog
  BY DEF ModalBegin, ModalOnEvent, HostDo, ModalReset, ModalClose, ModalCallStep, ResetDo,
         ModalPump
<1> QED
  BY <1>1 DEF DialogInv, dialog

\* The flag and the refusal are kept by every step of the modal.
LEMMA DialogHolds == ModalSpec => []DialogInv
<1>1. ModalInit => DialogInv
  BY DEF ModalInit, DialogInv
<1>2. DialogInv /\ [ModalNext]_modalVars => DialogInv'
  <2> SUFFICES ASSUME DialogInv, [ModalNext]_modalVars
               PROVE  DialogInv'
    OBVIOUS
  <2>1. CASE UNCHANGED modalVars
    BY <2>1 DEF modalVars, dialog, DialogInv
  <2> QED
    BY <2>1, FyneKeeps, OthersKeep DEF ModalNext
<1> QED
  BY <1>1, <1>2, PTL DEF ModalSpec

-----------------------------------------------------------------------------
\* The flag the modal decides by is what the window shows, through every order of
\* renders, Show, Hide, Reset and taps (modal.go shown).
THEOREM FlagProved == ModalSpec => []FlagIsTruth
<1>1. DialogInv => FlagIsTruth
  BY DEF DialogInv, FlagIsTruth
<1> QED
  BY <1>1, DialogHolds, PTL

\* A dialog that was closed or hidden stays away until a Show or a Reset has run,
\* however many renders were queued before (modal.go onClosed, afterRender).
THEOREM RefusalProved == ModalSpec => []RefusalHolds
<1>1. DialogInv => RefusalHolds
  BY DEF DialogInv, RefusalHolds
<1> QED
  BY <1>1, DialogHolds, PTL

-----------------------------------------------------------------------------
\* Snapshots of this run, and the news among them: those that raise the dialog.
Within(x, m) == x.run <= m.run /\ (x.run = m.run => x.seq <= m.seq)
News(x, m) == x.run = m.run /\ x.seq # 0 /\ x.phase \notin {"", "check"}

\* No snapshot on its way to the widgets is ahead of the model.
Withins == /\ Within(held, snap) /\ Within(screen, snap) /\ Blank(snap) /\ Blank(held)
           /\ \A i \in 1 .. Len(queue) : Within(queue[i].snap, snap) /\ Blank(queue[i].snap)

\* What a Reset has still to queue, and that no event is reported before it has.
Todos == /\ DOMAIN todo = Threads
         /\ \A t \in Threads : pc[t] # "spawn" /\ (t # Driver => todo[t] = << >>)
         /\ todo[Driver] \in {<< >>, <<"away", "undismiss">>, <<"undismiss">>}
         /\ todo[Driver] # << >> => snap.seq = 0

\* Behind news of this run, the queue holds nothing that Reset put there.
Undoing == {"away", "undismiss"}
Fresh == /\ News(screen, snap) => \A j \in 1 .. Len(queue) : queue[j].op \notin Undoing
         /\ \A i \in 1 .. Len(queue) : News(queue[i].snap, snap) =>
              \A j \in i .. Len(queue) : queue[j].op \notin Undoing

\* A Hide that Reset queued is still to be forgiven.
Forgiven(i) == \/ todo[Driver] # << >>
               \/ \E j \in i + 1 .. Len(queue) : queue[j].op = "undismiss"
Amends == /\ dismissed /\ ~refused => Forgiven(0)
          /\ \A i \in 1 .. Len(queue) : queue[i].op = "away" => Forgiven(i)

\* The newest render not yet run is of the snapshot the pump copied last.
Agrees(w, s) == Shows(w, s) /\ w.run = s.run
Current == pump # "deliver" =>
             \/ /\ \A i \in 1 .. Len(queue) : queue[i].op # "render"
                /\ Agrees(screen, held)
             \/ \E i \in 1 .. Len(queue) :
                  /\ queue[i].op = "render" /\ queue[i].snap = held
                  /\ \A j \in i + 1 .. Len(queue) : queue[j].op # "render"

\* News on the widgets is in the dialog, or the dialog was taken away.
Raised == News(screen, snap) => visible \/ refused

ModalInv == Withins /\ Todos /\ Fresh /\ Amends /\ Current /\ Nudged /\ Raised

-----------------------------------------------------------------------------
\* Fyne's queue, when its first closure has run and when one is added.
LEMMA Popped ==
  ASSUME TypeOK, queue # << >>, queue' = Tail(queue)
  PROVE  /\ Len(queue) \in Nat \ {0} /\ Len(queue') = Len(queue) - 1
         /\ 1 \in 1 .. Len(queue) /\ Head(queue) = queue[1]
         /\ \A i \in 1 .. Len(queue') : i + 1 \in 1 .. Len(queue) /\ queue'[i] = queue[i + 1]
BY DEF TypeOK

\* What fyne.Do does to the queue: one closure more, at its end.
LEMMA Pushed ==
  ASSUME TypeOK, NEW c, Do(c)
  PROVE  /\ Len(queue) \in Nat /\ Len(queue') = Len(queue) + 1
         /\ queue'[Len(queue) + 1] = c
         /\ \A i \in 1 .. Len(queue) : queue'[i] = queue[i]
BY DEF TypeOK, Do

\* The steps of the modal that are steps of its panel.
ModalPanelStep(t) == \/ \E e \in Events : ModalOnEvent(t, e)
                     \/ ModalReset(t) \/ ModalClose(t)
                     \/ CallStep(t) /\ UNCHANGED <<dialog, todo>>

\* No step of the modal takes a variable of the panel out of its type.
LEMMA ModalTypes ==
  ASSUME TypeOK, Todos, [ModalNext]_modalVars
  PROVE  TypeOK'
<1>1. ASSUME [Next]_vars PROVE TypeOK'
  BY <1>1, TypeNext
<1>2. ASSUME NEW c \in Closure, Do(c), UNCHANGED <<model, kick, control, pump, held, screen, pc>>
      PROVE  TypeOK'
  BY <1>2 DEF Do, TypeOK, model, control
<1>3. ASSUME queue # << >>, queue' = Tail(queue), UNCHANGED screen, UIStep
      PROVE  TypeOK'
  BY <1>3 DEF UIStep, TypeOK, model, control
<1>4. \A op \in {"show", "hide", "away", "undismiss"} : ClosureOf(op) \in Closure
  <2>1. NoSnap \in Snapshot
    BY EmptyModelType DEF NoSnap
  <2>. QED
    BY <2>1 DEF ClosureOf, Closure
<1>5. ASSUME NEW t \in Threads, ModalPanelStep(t) PROVE TypeOK'
  BY <1>1, <1>5 DEF ModalPanelStep, ModalOnEvent, ModalReset, ModalClose, Next, CallBegin
<1>6. ASSUME NEW t \in Threads, NEW op \in {"show", "hide"}, HostDo(t, op) PROVE TypeOK'
  BY <1>2, <1>4, <1>6 DEF HostDo
<1>7. ASSUME NEW t \in Threads, ResetDo(t) PROVE TypeOK'
  <2>1. Head(todo[t]) \in {"away", "undismiss"}
    <3>1. t = Driver /\ todo[Driver] \in {<<"away", "undismiss">>, <<"undismiss">>}
      BY <1>7 DEF ResetDo, Todos
    <3>2. Head(<<"away", "undismiss">>) = "away" /\ Head(<<"undismiss">>) = "undismiss"
      OBVIOUS
    <3>. QED
      BY <3>1, <3>2
  <2>. QED
    BY <1>2, <1>4, <1>7, <2>1 DEF ResetDo
<1>8. CASE ModalPump \/ ModalRender
  BY <1>1, <1>8 DEF ModalPump, ModalRender, Next
<1>9. CASE RunShow \/ RunHide \/ RunUndismiss
  BY <1>3, <1>9 DEF RunShow, RunHide, RunUndismiss
<1>10. CASE UserCloses
  BY <1>10 DEF UserCloses, UIStep, TypeOK, model, control
<1>11. CASE UNCHANGED modalVars
  BY <1>1, <1>11 DEF modalVars
<1>. QED
  BY <1>5, <1>6, <1>7, <1>8, <1>9, <1>10, <1>11
     DEF ModalNext, ModalBegin, ModalCallStep, ModalPanelStep, FyneStep

\* Only a snapshot of this run, and of an event, is news.
LEMMA NewsCounts ==
  ASSUME NEW x, NEW m, News(x, m)
  PROVE  x.run = m.run /\ x.seq # 0
BY Zenon DEF News

\* Before the first event of a run there is no news of it.
LEMMA NoNewsYet ==
  ASSUME Withins, TypeOK, snap.seq = 0
  PROVE  ~News(screen, snap) /\ \A i \in 1 .. Len(queue) : ~News(queue[i].snap, snap)
<1>1. ASSUME NEW x, x.seq \in Nat, Within(x, snap) PROVE ~News(x, snap)
  BY <1>1, NewsCounts DEF Within
<1>2. screen.seq \in Nat /\ \A i \in 1 .. Len(queue) : queue[i].snap.seq \in Nat
  BY QueuedType DEF TypeOK, Screen, Snapshot
<1>. QED
  BY <1>1, <1>2 DEF Withins

\* A closure that draws nothing is added behind the queue: a Show or Hide
\* undoes nothing, and a Reset's come before any news of the new run.
LEMMA PushKeeps ==
  ASSUME ModalInv, DialogInv, TypeOK, NEW t \in Threads,
         ResetDo(t) \/ \E op \in {"show", "hide"} : HostDo(t, op)
  PROVE  ModalInv'
<1>. USE DEF ModalInv
<1>1. PICK op \in {"show", "hide", "away", "undismiss"} :
        /\ Do(ClosureOf(op)) /\ UNCHANGED <<model, kick, control, pump, held, screen, pc, dialog>>
        /\ \/ op \in {"show", "hide"} /\ UNCHANGED todo
           \/ /\ op = "away" /\ todo[Driver] # << >>
              /\ todo' = [todo EXCEPT ![Driver] = <<"undismiss">>]
           \/ /\ op = "undismiss" /\ todo[Driver] # << >>
              /\ todo' = [todo EXCEPT ![Driver] = << >>]
  <2>1. CASE ResetDo(t)
    <3>1. t = Driver /\ todo[Driver] \in {<<"away", "undismiss">>, <<"undismiss">>}
      BY <2>1 DEF ResetDo, Todos
    <3>2. /\ Head(<<"away", "undismiss">>) = "away" /\ Head(<<"undismiss">>) = "undismiss"
          /\ Tail(<<"away", "undismiss">>) = <<"undismiss">> /\ Tail(<<"undismiss">>) = << >>
      OBVIOUS
    <3>. QED
      BY <2>1, <3>1, <3>2 DEF ResetDo
  <2>2. CASE \E op \in {"show", "hide"} : HostDo(t, op)
    BY <2>2 DEF HostDo
  <2>. QED
    BY <2>1, <2>2
<1>2. /\ Len(queue) \in Nat /\ Len(queue') = Len(queue) + 1
      /\ queue'[Len(queue) + 1] = ClosureOf(op)
      /\ \A i \in 1 .. Len(queue) : queue'[i] = queue[i]
  BY <1>1, Pushed
<1>3. /\ ClosureOf(op).op = op /\ ClosureOf(op).snap = NoSnap
      /\ NoSnap.seq = 0 /\ NoSnap.run = 0 /\ Blank(NoSnap)
  BY Zenon DEF ClosureOf, NoSnap, EmptyModel, Blank
<1>4. UNCHANGED <<snap, kick, pump, held, screen, pc, dismissed, refused, visible>>
  BY <1>1 DEF model, dialog
<1>5. Withins'
  <2>1. Within(NoSnap, snap)
    BY <1>3 DEF Within, TypeOK, Snapshot
  <2>. QED
    BY <1>2, <1>3, <1>4, <2>1 DEF Withins, Within
<1>6. /\ DOMAIN todo' = Threads /\ \A u \in Threads : u # Driver => todo'[u] = todo[u]
      /\ \/ todo'[Driver] = todo[Driver] /\ op \in {"show", "hide"}
         \/ todo'[Driver] = <<"undismiss">> /\ todo[Driver] # << >> /\ op = "away"
         \/ todo'[Driver] = << >> /\ todo[Driver] # << >> /\ op = "undismiss"
  BY <1>1, HostAssumption DEF Todos
<1>7. <<"undismiss">> # << >>
  OBVIOUS
<1>8. Todos'
  <2>1. todo'[Driver] \in {<< >>, <<"away", "undismiss">>, <<"undismiss">>}
    BY <1>6 DEF Todos
  <2>. QED
    BY <1>4, <1>6, <2>1 DEF Todos
<1>9. op \in Undoing => ~News(screen, snap) /\ \A i \in 1 .. Len(queue) : ~News(queue[i].snap, snap)
  <2>1. op \in Undoing => snap.seq = 0
    BY <1>1 DEF Undoing, Todos
  <2>. QED
    BY <2>1, NoNewsYet
<1>10. Fresh'
  <2>1. ~News(NoSnap, snap)
    BY <1>3, NewsCounts
  <2>. QED
    BY <1>2, <1>3, <1>4, <1>9, <2>1 DEF Fresh
<1>11. ASSUME NEW i \in 0 .. Len(queue), Forgiven(i) PROVE Forgiven(i)'
  <2>1. CASE \E j \in i + 1 .. Len(queue) : queue[j].op = "undismiss"
    BY <1>2, <2>1 DEF Forgiven
  <2>2. CASE todo[Driver] # << >>
    <3>1. CASE op = "undismiss"
      <4>1. Len(queue) + 1 \in i + 1 .. Len(queue') /\ queue'[Len(queue) + 1].op = "undismiss"
        BY <1>2, <1>3, <3>1
      <4>. QED
        BY <4>1 DEF Forgiven
    <3>2. CASE op # "undismiss"
      <4>1. todo'[Driver] # << >>
        BY <1>6, <1>7, <2>2, <3>2
      <4>. QED
        BY <4>1 DEF Forgiven
    <3>. QED
      BY <3>1, <3>2
  <2>. QED
    BY <1>11, <2>1, <2>2 DEF Forgiven
<1>12. op = "away" => todo'[Driver] # << >>
  BY <1>6, <1>7
<1>13. Amends'
  <2>1. dismissed' /\ ~refused' => Forgiven(0)'
    BY <1>2, <1>4, <1>11 DEF Amends
  <2>2. ASSUME NEW i \in 1 .. Len(queue'), queue'[i].op = "away" PROVE Forgiven(i)'
    <3>1. CASE i \in 1 .. Len(queue)
      BY <1>2, <1>11, <2>2, <3>1 DEF Amends
    <3>2. CASE i = Len(queue) + 1
      BY <1>2, <1>3, <1>12, <2>2, <3>2 DEF Forgiven
    <3>. QED
      BY <1>2, <3>1, <3>2
  <2>. QED
    BY <2>1, <2>2 DEF Amends
<1>14. Current'
  BY <1>2, <1>3, <1>4 DEF Current
<1>15. Nudged' /\ Raised'
  BY <1>1, <1>4 DEF Nudged, Raised
<1>. QED
  BY <1>5, <1>8, <1>10, <1>13, <1>14, <1>15

\* When the first closure has run, what was promised behind the others still is.
LEMMA StillForgiven ==
  ASSUME TypeOK, queue # << >>, queue' = Tail(queue), UNCHANGED todo
  PROVE  /\ \A i \in 1 .. Len(queue) : Forgiven(i) => Forgiven(i - 1)'
         /\ Head(queue).op # "undismiss" /\ Forgiven(0) => Forgiven(0)'
<1>1. /\ Len(queue) \in Nat \ {0} /\ Len(queue') = Len(queue) - 1 /\ Head(queue) = queue[1]
      /\ \A i \in 1 .. Len(queue') : queue'[i] = queue[i + 1]
  BY Popped
<1>2. ASSUME NEW i \in 0 .. Len(queue), NEW j \in i + 1 .. Len(queue), j # 1,
             queue[j].op = "undismiss"
      PROVE  /\ j - 1 \in 1 .. Len(queue') /\ queue'[j - 1].op = "undismiss"
             /\ j - 1 \in (i - 1) + 1 .. Len(queue') /\ (i = 0 => j - 1 \in 0 + 1 .. Len(queue'))
  <2>1. j - 1 \in 1 .. Len(queue') /\ (j - 1) + 1 = j
    BY <1>1, <1>2
  <2>. QED
    BY <1>1, <1>2, <2>1
<1>3. ASSUME NEW i \in 1 .. Len(queue), Forgiven(i) PROVE Forgiven(i - 1)'
  <2>1. ASSUME NEW j \in i + 1 .. Len(queue), queue[j].op = "undismiss" PROVE Forgiven(i - 1)'
    <3>1. j # 1
      OBVIOUS
    <3>2. j - 1 \in (i - 1) + 1 .. Len(queue') /\ queue'[j - 1].op = "undismiss"
      BY <1>2, <2>1, <3>1
    <3>. QED
      BY <3>2 DEF Forgiven
  <2>. QED
    BY <1>3, <2>1 DEF Forgiven
<1>4. ASSUME Head(queue).op # "undismiss", Forgiven(0) PROVE Forgiven(0)'
  <2>1. ASSUME NEW j \in 0 + 1 .. Len(queue), queue[j].op = "undismiss" PROVE Forgiven(0)'
    <3>1. j # 1
      BY <1>1, <1>4, <2>1
    <3>2. j - 1 \in 0 + 1 .. Len(queue') /\ queue'[j - 1].op = "undismiss"
      BY <1>1, <1>2, <2>1, <3>1
    <3>. QED
      BY <3>2 DEF Forgiven
  <2>. QED
    BY <1>4, <2>1 DEF Forgiven
<1>. QED
  BY <1>3, <1>4

\* When the first closure has run, nothing of Reset's is behind news of the
\* run, and every Hide of Reset's is still to be forgiven.
LEMMA StillFresh ==
  ASSUME Fresh, Amends, TypeOK, queue # << >>, queue' = Tail(queue), UNCHANGED <<snap, todo>>,
         UNCHANGED screen \/ (News(screen', snap) => News(queue[1].snap, snap))
  PROVE  Fresh' /\ \A i \in 1 .. Len(queue') : queue'[i].op = "away" => Forgiven(i)'
<1>1. /\ Len(queue) \in Nat \ {0} /\ Len(queue') = Len(queue) - 1 /\ 1 \in 1 .. Len(queue)
      /\ \A i \in 1 .. Len(queue') : i + 1 \in 1 .. Len(queue) /\ queue'[i] = queue[i + 1]
  BY Popped
<1>2. ASSUME News(screen', snap), NEW j \in 1 .. Len(queue') PROVE queue'[j].op \notin Undoing
  BY <1>1, <1>2 DEF Fresh
<1>3. ASSUME NEW i \in 1 .. Len(queue'), News(queue'[i].snap, snap), NEW j \in i .. Len(queue')
      PROVE  queue'[j].op \notin Undoing
  <2>1. j \in 1 .. Len(queue') /\ j + 1 \in i + 1 .. Len(queue)
    BY <1>1
  <2>. QED
    BY <1>1, <1>3, <2>1 DEF Fresh
<1>4. ASSUME NEW i \in 1 .. Len(queue'), queue'[i].op = "away" PROVE Forgiven(i)'
  <2>1. i + 1 \in 1 .. Len(queue) /\ Forgiven(i + 1) /\ (i + 1) - 1 = i
    BY <1>1, <1>4 DEF Amends
  <2>2. Forgiven((i + 1) - 1)'
    BY <2>1, StillForgiven
  <2>. QED
    BY <2>1, <2>2
<1>. QED
  BY <1>2, <1>3, <1>4 DEF Fresh

\* A closure that draws nothing has run.
LEMMA PopKeeps ==
  ASSUME ModalInv, DialogInv, TypeOK, RunShow \/ RunHide \/ RunUndismiss
  PROVE  ModalInv'
<1>. USE DEF ModalInv
<1>1. /\ queue # << >> /\ queue' = Tail(queue) /\ UNCHANGED <<screen, snap, held, todo, kick, pump, pc>>
      /\ Head(queue).op \in {"show", "hide", "away", "undismiss"}
  BY DEF RunShow, RunHide, RunUndismiss, UIStep, model
<1>2. /\ Len(queue) \in Nat \ {0} /\ Len(queue') = Len(queue) - 1
      /\ 1 \in 1 .. Len(queue) /\ Head(queue) = queue[1]
      /\ \A i \in 1 .. Len(queue') : i + 1 \in 1 .. Len(queue) /\ queue'[i] = queue[i + 1]
  BY <1>1, Popped
<1>3. Withins' /\ Todos' /\ Nudged'
  BY <1>1, <1>2 DEF Withins, Todos, Nudged
<1>4. Fresh' /\ \A i \in 1 .. Len(queue') : queue'[i].op = "away" => Forgiven(i)'
  BY <1>1, StillFresh
<1>5. Current'
  <2>1. ASSUME NEW i \in 1 .. Len(queue), queue[i].op = "render", queue[i].snap = held,
               \A j \in i + 1 .. Len(queue) : queue[j].op # "render"
        PROVE  Current'
    <3>1. i # 1
      BY <1>1, <1>2, <2>1
    <3>2. i - 1 \in 1 .. Len(queue') /\ queue'[i - 1] = queue[i]
      BY <1>2, <3>1
    <3>3. \A j \in (i - 1) + 1 .. Len(queue') : j \in 1 .. Len(queue') /\ j + 1 \in i + 1 .. Len(queue)
      BY <1>2, <3>1
    <3>4. \A j \in (i - 1) + 1 .. Len(queue') : queue'[j].op # "render"
      BY <1>2, <2>1, <3>3
    <3>. QED
      BY <1>1, <2>1, <3>2, <3>4 DEF Current
  <2>2. CASE (\A i \in 1 .. Len(queue) : queue[i].op # "render") /\ Agrees(screen, held)
    BY <1>1, <1>2, <2>2 DEF Current
  <2>3. CASE pump = "deliver"
    BY <1>1, <2>3 DEF Current
  <2>. QED
    BY <2>1, <2>2, <2>3 DEF Current
<1>6. Head(queue).op \in Undoing => ~News(screen, snap)
  BY <1>2 DEF Fresh
<1>7. dismissed' /\ ~refused' => Forgiven(0)'
  <2>1. CASE RunShow \/ RunUndismiss
    BY <2>1 DEF RunShow, RunUndismiss
  <2>2. CASE RunHide
    <3>1. ~refused' => Head(queue).op = "away"
      BY <2>2 DEF RunHide
    <3>2. Head(queue).op = "away" => Forgiven(1)
      BY <1>2 DEF Amends
    <3>3. Forgiven(1) => Forgiven(1 - 1)'
      BY <1>1, <1>2, StillForgiven
    <3>4. 1 - 1 = 0
      OBVIOUS
    <3>. QED
      BY <3>1, <3>2, <3>3, <3>4
  <2>. QED
    BY <2>1, <2>2
<1>8. Raised'
  <2>1. CASE RunShow
    <3>1. visible'
      BY <2>1, ShowHereShows DEF RunShow
    <3>. QED
      BY <3>1 DEF Raised
  <2>2. CASE RunHide
    <3>1. Head(queue).op = "hide" => refused'
      BY <2>2 DEF RunHide
    <3>2. Head(queue).op = "away" => ~News(screen, snap)
      BY <1>6 DEF Undoing
    <3>. QED
      BY <1>1, <2>2, <3>1, <3>2 DEF Raised, RunHide
  <2>3. CASE RunUndismiss
    BY <1>1, <1>6, <2>3 DEF Raised, RunUndismiss, Undoing
  <2>. QED
    BY <2>1, <2>2, <2>3
<1>. QED
  BY <1>3, <1>4, <1>5, <1>7, <1>8 DEF Amends

\* A render brings news to the widgets when nothing of Reset's is pending: it
\* raises the dialog, unless a person or the host has refused it.
LEMMA ModalRenderKeeps ==
  ASSUME ModalInv, DialogInv, TypeOK, ModalRender
  PROVE  ModalInv'
<1>. USE DEF ModalInv
<1>. DEFINE s == queue[1].snap
<1>1. /\ queue # << >> /\ queue' = Tail(queue) /\ UNCHANGED <<snap, held, todo, kick, pump, pc>>
      /\ Head(queue).op = "render" /\ UNCHANGED <<dismissed, refused>>
  BY DEF ModalRender, Render, AfterRender, model, dialog
<1>2. /\ Len(queue) \in Nat \ {0} /\ Len(queue') = Len(queue) - 1
      /\ 1 \in 1 .. Len(queue) /\ Head(queue) = queue[1]
      /\ \A i \in 1 .. Len(queue') : i + 1 \in 1 .. Len(queue) /\ queue'[i] = queue[i + 1]
  BY <1>1, Popped
<1>3. s \in Snapshot /\ Blank(s) /\ Within(s, snap)
  BY <1>2, QueuedType DEF Withins
<1>4. screen' = Painted(screen, s) /\ AfterRender(s)
  BY <1>2 DEF ModalRender, Render
<1>5. Agrees(screen', s)
  BY <1>3, <1>4, PaintedShows DEF Agrees
<1>6. News(screen', snap) <=> News(s, snap)
  BY <1>5, Zenon DEF Agrees, Shows, News
<1>7. Withins' /\ Todos' /\ Nudged'
  <2>1. Within(screen', snap)
    BY <1>3, <1>5 DEF Agrees, Shows, Within
  <2>. QED
    BY <1>1, <1>2, <2>1 DEF Withins, Todos, Nudged
<1>8. Fresh' /\ \A i \in 1 .. Len(queue') : queue'[i].op = "away" => Forgiven(i)'
  BY <1>1, <1>6, StillFresh
<1>9. Amends'
  <2>1. Forgiven(0) => Forgiven(0)'
    BY <1>1, StillForgiven
  <2>. QED
    BY <1>1, <1>8, <2>1 DEF Amends
<1>10. Current'
  <2>1. ASSUME NEW i \in 1 .. Len(queue), queue[i].op = "render", queue[i].snap = held,
               \A j \in i + 1 .. Len(queue) : queue[j].op # "render"
        PROVE  Current'
    <3>1. CASE i = 1
      <4>1. \A j \in 1 .. Len(queue') : j + 1 \in i + 1 .. Len(queue)
        BY <1>2, <3>1
      <4>2. \A j \in 1 .. Len(queue') : queue'[j].op # "render"
        BY <1>2, <2>1, <4>1
      <4>. QED
        BY <1>1, <1>5, <2>1, <3>1, <4>2 DEF Current
    <3>2. CASE i # 1
      <4>1. i - 1 \in 1 .. Len(queue') /\ queue'[i - 1] = queue[i]
        BY <1>2, <3>2
      <4>2. \A j \in (i - 1) + 1 .. Len(queue') : j \in 1 .. Len(queue') /\ j + 1 \in i + 1 .. Len(queue)
        BY <1>2, <3>2
      <4>3. \A j \in (i - 1) + 1 .. Len(queue') : queue'[j].op # "render"
        BY <1>2, <2>1, <4>2
      <4>. QED
        BY <1>1, <2>1, <4>1, <4>3 DEF Current
    <3>. QED
      BY <3>1, <3>2
  <2>2. ~(\A i \in 1 .. Len(queue) : queue[i].op # "render")
    BY <1>1, <1>2
  <2>3. CASE pump = "deliver"
    BY <1>1, <2>3 DEF Current
  <2>. QED
    BY <2>1, <2>2, <2>3 DEF Current
<1>11. Raised'
  <2>. SUFFICES ASSUME News(s, snap) PROVE visible' \/ refused'
    BY <1>1, <1>6 DEF Raised
  <2>1. ~(s.seq = 0 \/ s.phase \in {"", "check"})
    BY Zenon DEF News
  <2>2. CASE dismissed
    <3>1. todo[Driver] = << >>
      BY <1>2, NoNewsYet DEF Todos
    <3>2. \A j \in 1 .. Len(queue) : queue[j].op # "undismiss"
      BY <1>2 DEF Fresh, Undoing
    <3>3. ~Forgiven(0)
      BY <3>1, <3>2 DEF Forgiven
    <3>. QED
      BY <1>1, <2>2, <3>3 DEF Amends
  <2>3. CASE ~dismissed
    <3>1. ShowHere
      BY <1>4, <2>1, <2>3, Zenon DEF AfterRender
    <3>. QED
      BY <3>1, ShowHereShows
  <2>. QED
    BY <2>2, <2>3
<1>. QED
  BY <1>7, <1>8, <1>9, <1>10, <1>11

\* The driver's calls: an event comes only when nothing of a Reset is left to
\* queue, and a Reset makes old of every snapshot on its way.
LEMMA DriverKeeps ==
  ASSUME ModalInv, TypeOK, TypeOK', NEW t \in Threads,
         ModalReset(t) \/ \E e \in Events : ModalOnEvent(t, e)
  PROVE  ModalInv'
<1>. USE DEF ModalInv
<1>1. /\ t = Driver /\ todo[Driver] = << >> /\ Goto(t, "idle", "nudge")
      /\ UNCHANGED <<kick, pump, held, queue, screen, dialog>>
  BY DEF ModalReset, ModalOnEvent, Free, Reset, OnEvent
<1>2. /\ \/ snap'.run = snap.run + 1 /\ snap'.seq = 0
         \/ snap'.run = snap.run /\ snap'.seq = snap.seq + 1 /\ UNCHANGED todo
      /\ Blank(snap')
  <2>1. CASE ModalReset(t)
    <3>1. snap.ver + 1 \in Nat /\ snap.run + 1 \in Nat
      BY DEF TypeOK, Snapshot
    <3>2. snap' = EmptyModel(snap.ver + 1, snap.run + 1)
      BY <2>1 DEF ModalReset, Reset
    <3>. QED
      BY <3>1, <3>2, EmptyModelType, Zenon DEF EmptyModel
  <2>2. CASE \E e \in Events : ModalOnEvent(t, e)
    <3>1. PICK e \in Events : snap' = Apply(snap, e) /\ UNCHANGED todo
      BY <2>2 DEF ModalOnEvent, OnEvent
    <3>2. snap'.run = snap.run /\ snap'.seq = snap.seq + 1 /\ snap.seq \in Nat
      BY <3>1, ApplyType DEF TypeOK, Snapshot
    <3>3. snap'.seq # 0
      BY <3>2
    <3>. QED
      BY <3>1, <3>2, <3>3 DEF Blank
  <2>. QED
    BY <2>1, <2>2
<1>3. Todos'
  <2>1. /\ Driver \in Threads /\ DOMAIN todo' = Threads
        /\ \A u \in Threads : u # Driver => todo'[u] = todo[u]
        /\ \/ todo'[Driver] = << >>
           \/ todo'[Driver] = <<"away", "undismiss">> /\ ModalReset(t)
    BY <1>1, HostAssumption DEF ModalReset, ModalOnEvent, Todos
  <2>2. \A u \in Threads : pc'[u] # "spawn"
    BY <1>1 DEF Goto, Todos, TypeOK
  <2>3. ModalReset(t) => snap'.seq = 0
    <3>1. ModalReset(t) => snap' = EmptyModel(snap.ver + 1, snap.run + 1)
      BY DEF ModalReset, Reset
    <3>2. EmptyModel(snap.ver + 1, snap.run + 1).seq = 0
      BY Zenon DEF EmptyModel
    <3>. QED
      BY <3>1, <3>2
  <2>. QED
    BY <2>1, <2>2, <2>3 DEF Todos
<1>4. ASSUME NEW x, x.run \in Nat, x.seq \in Nat, Within(x, snap)
      PROVE  Within(x, snap') /\ (News(x, snap') => News(x, snap))
  <2>1. snap.run \in Nat /\ snap.seq \in Nat
    BY DEF TypeOK, Snapshot
  <2>2. Within(x, snap')
    BY <1>2, <1>4, <2>1 DEF Within
  <2>3. News(x, snap') => snap'.run = snap.run
    BY <1>2, <1>4, <2>1, NewsCounts DEF Within
  <2>. QED
    BY <2>2, <2>3, Zenon DEF News
<1>5. Within(held, snap')
  BY <1>4 DEF Withins, TypeOK, Snapshot
<1>6. Within(screen, snap') /\ (News(screen, snap') => News(screen, snap))
  BY <1>4 DEF Withins, TypeOK, Screen
<1>7. ASSUME NEW i \in 1 .. Len(queue)
      PROVE  /\ Within(queue[i].snap, snap')
             /\ News(queue[i].snap, snap') => News(queue[i].snap, snap)
  BY <1>4, QueuedType DEF Withins, Snapshot
<1>8. Withins'
  BY <1>1, <1>2, <1>5, <1>6, <1>7 DEF Withins
<1>9. Fresh'
  BY <1>1, <1>6, <1>7 DEF Fresh
<1>10. Amends'
  BY <1>1 DEF Amends, Forgiven, dialog
<1>11. Current' /\ Raised'
  BY <1>1, <1>6 DEF Current, Raised, dialog
<1>12. Nudged'
  BY <1>1 DEF Nudged, Goto, TypeOK
<1>. QED
  BY <1>3, <1>8, <1>9, <1>10, <1>11, <1>12

\* The pump's steps put the snapshot it copied behind everything in the queue.
LEMMA ModalPumpKeeps ==
  ASSUME ModalInv, TypeOK, ModalPump
  PROVE  ModalInv'
<1>. USE DEF ModalInv
<1>1. PumpStep /\ UNCHANGED <<snap, screen, pc, todo, visible, dismissed, refused>>
  BY DEF ModalPump, PumpStep, PumpStop, PumpTake, PumpCopy, PumpDeliver, model, dialog
<1>2. Todos' /\ Raised'
  BY <1>1 DEF Todos, Raised
<1>3. CASE PumpStop \/ PumpTake \/ PumpCopy
  <2>1. UNCHANGED queue
    BY <1>3 DEF PumpStop, PumpTake, PumpCopy
  <2>2. Fresh' /\ Amends'
    BY <1>1, <2>1 DEF Fresh, Amends, Forgiven
  <2>3. CASE PumpStop \/ PumpTake
    BY <1>1, <1>2, <2>1, <2>2, <2>3 DEF PumpStop, PumpTake, Withins, Current, Nudged
  <2>4. CASE PumpCopy
    <3>1. held' = snap /\ pump' = "deliver"
      BY <2>4 DEF PumpCopy
    <3>2. Within(snap, snap)
      BY DEF Within, TypeOK, Snapshot
    <3>. QED
      BY <1>1, <1>2, <2>1, <2>2, <3>1, <3>2 DEF Withins, Current, Nudged
  <2>. QED
    BY <1>3, <2>3, <2>4
<1>4. CASE PumpDeliver
  <2>1. pump = "deliver" /\ pump' = "select" /\ Do(RenderOf(held)) /\ UNCHANGED <<held, kick>>
    BY <1>4 DEF PumpDeliver
  <2>2. /\ Len(queue) \in Nat /\ Len(queue') = Len(queue) + 1
        /\ queue'[Len(queue) + 1] = RenderOf(held)
        /\ \A i \in 1 .. Len(queue) : queue'[i] = queue[i]
    BY <2>1, Pushed
  <2>3. RenderOf(held).op = "render" /\ RenderOf(held).snap = held /\ "render" \notin Undoing
    BY DEF RenderOf, Undoing
  <2>4. Withins' /\ Nudged'
    BY <1>1, <2>1, <2>2, <2>3 DEF Withins, Nudged
  <2>5. Fresh'
    BY <1>1, <2>2, <2>3 DEF Fresh
  <2>6. ASSUME NEW i \in 0 .. Len(queue), Forgiven(i) PROVE Forgiven(i)'
    BY <1>1, <2>2, <2>6 DEF Forgiven
  <2>7. Amends'
    <3>1. ASSUME NEW i \in 1 .. Len(queue'), queue'[i].op = "away" PROVE Forgiven(i)'
      <4>1. i \in 1 .. Len(queue) /\ queue[i].op = "away"
        BY <2>2, <2>3, <3>1
      <4>. QED
        BY <2>6, <4>1 DEF Amends
    <3>2. dismissed' /\ ~refused' => Forgiven(0)'
      BY <1>1, <2>2, <2>6 DEF Amends
    <3>. QED
      BY <3>1, <3>2 DEF Amends
  <2>8. Current'
    <3>1. Len(queue) + 1 \in 1 .. Len(queue') /\ \A j \in Len(queue) + 1 + 1 .. Len(queue') : FALSE
      BY <2>2
    <3>2. \E i \in 1 .. Len(queue') :
            /\ queue'[i].op = "render" /\ queue'[i].snap = held'
            /\ \A j \in i + 1 .. Len(queue') : queue'[j].op # "render"
      BY <2>1, <2>2, <2>3, <3>1
    <3>. QED
      BY <3>2 DEF Current
  <2>. QED
    BY <1>2, <2>4, <2>5, <2>7, <2>8
<1>. QED
  BY <1>1, <1>3, <1>4 DEF PumpStep

\* What is left touches neither a snapshot nor the queue: the other steps of a
\* call, Close, and a person who takes the dialog away.
LEMMA RestKeeps ==
  ASSUME ModalInv, TypeOK, TypeOK',
         \/ \E t \in Threads : ModalClose(t) \/ (CallStep(t) /\ UNCHANGED <<dialog, todo>>)
         \/ UserCloses \/ UNCHANGED modalVars
  PROVE  ModalInv'
<1>. USE DEF ModalInv
<1>1. UNCHANGED <<snap, held, queue, screen, todo>>
  BY DEF ModalClose, Close, CallStep, Nudge, Spawn, CloseReads, CloseAwaits, CloseJoins,
         UserCloses, UIStep, modalVars, vars, model
<1>2. Withins' /\ Fresh'
  BY <1>1 DEF Withins, Fresh
<1>3. CASE UserCloses
  <2>1. UNCHANGED <<kick, pump, pc>> /\ refused'
    BY <1>3 DEF UserCloses, UIStep
  <2>. QED
    BY <1>1, <1>2, <2>1 DEF Todos, Amends, Forgiven, Current, Nudged, Raised
<1>4. CASE UNCHANGED modalVars
  BY <1>1, <1>2, <1>4 DEF modalVars, vars, dialog, Todos, Amends, Forgiven, Current, Nudged, Raised
<1>5. ASSUME NEW t \in Threads, ModalClose(t) \/ (CallStep(t) /\ UNCHANGED <<dialog, todo>>)
      PROVE  ModalInv'
  <2>1. UNCHANGED dialog
    BY <1>5 DEF ModalClose
  <2>2. Amends' /\ Raised'
    BY <1>1, <2>1 DEF Amends, Forgiven, Raised, dialog
  <2>3. pump' = pump
    BY <1>5 DEF ModalClose, Close, CallStep, Nudge, Spawn, CloseReads, CloseAwaits, CloseJoins,
                Todos, Goto
  <2>4. (\A u \in Threads : pc'[u] # "spawn") /\ Nudged'
    BY <1>1, <1>5, <2>3 DEF ModalClose, Close, CallStep, Nudge, Spawn, CloseReads, CloseAwaits,
                CloseJoins, Todos, Goto, Nudged, TypeOK
  <2>. QED
    BY <1>1, <1>2, <2>2, <2>3, <2>4 DEF Todos, Current
<1>. QED
  BY <1>3, <1>4, <1>5

\* The inductive invariant of the dialog.
LEMMA ModalInvariance == ModalSpec => [](TypeOK /\ ModalInv)
<1>1. ModalInit => TypeOK /\ ModalInv
  <2>. SUFFICES ASSUME ModalInit PROVE TypeOK /\ ModalInv
    OBVIOUS
  <2>1. StartedInit /\ TypeOK /\ Blank(snap) /\ Blank(held)
    BY StartedInv DEF ModalInit, IInv, Blanks
  <2>2. /\ queue = << >> /\ \A i \in 1 .. Len(queue) : FALSE
        /\ snap = EmptyModel(0, 0) /\ held = snap /\ screen = Idle(0, 0)
        /\ kick = TRUE /\ dismissed = FALSE /\ todo = [t \in Threads |-> << >>]
        /\ pc = [t \in Threads |-> "idle"]
    BY <2>1 DEF StartedInit, ModalInit
  <2>3. /\ snap.run = 0 /\ snap.seq = 0 /\ screen.run = 0 /\ screen.seq = 0
        /\ Agrees(screen, held)
    BY <2>2, Zenon DEF EmptyModel, Idle, Agrees, Shows
  <2>4. Withins
    BY <2>1, <2>2, <2>3 DEF Withins, Within
  <2>5. Todos
    BY <2>2, HostAssumption DEF Todos
  <2>6. Fresh /\ Raised
    BY <2>2, <2>3, NewsCounts DEF Fresh, Raised
  <2>7. Amends /\ Current /\ Nudged
    BY <2>2, <2>3 DEF Amends, Current, Nudged
  <2>. QED
    BY <2>1, <2>4, <2>5, <2>6, <2>7 DEF ModalInv
<1>2. TypeOK /\ ModalInv /\ DialogInv /\ [ModalNext]_modalVars => (TypeOK /\ ModalInv)'
  <2>. SUFFICES ASSUME TypeOK, ModalInv, DialogInv, [ModalNext]_modalVars
                PROVE  TypeOK' /\ ModalInv'
    OBVIOUS
  <2>1. TypeOK'
    BY ModalTypes DEF ModalInv
  <2>2. ASSUME NEW t \in Threads, ModalBegin(t) \/ ModalCallStep(t) PROVE ModalInv'
    BY <2>1, <2>2, PushKeeps, DriverKeeps, RestKeeps DEF ModalBegin, ModalCallStep
  <2>. QED
    BY <2>1, <2>2, ModalPumpKeeps, ModalRenderKeeps, PopKeeps, RestKeeps DEF ModalNext, FyneStep
<1>. QED
  BY <1>1, <1>2, DialogHolds, PTL DEF ModalSpec

\* Once nothing is under way, an update past the check is on screen, unless it
\* was taken away on purpose (modal.go: "The modal raises itself"; Reset).
THEOREM NewsProved == ModalSpec => []NewsIsShown
<1>1. ModalInv => NewsIsShown
  <2>1. ASSUME ModalInv, Quiet PROVE Agrees(screen, snap) /\ Blank(snap) /\ Raised
    <3>1. held = snap /\ pump # "deliver" /\ \A i \in 1 .. Len(queue) : FALSE
      BY <2>1 DEF Quiet, Settled, ModalInv, Nudged
    <3>. QED
      BY <2>1, <3>1 DEF ModalInv, Current, Withins
  <2>2. ASSUME Agrees(screen, snap), Blank(snap), snap.phase \notin {"", "check"}
        PROVE  News(screen, snap)
    BY <2>2, Zenon DEF Agrees, Shows, Blank, News
  <2>. QED
    BY <2>1, <2>2, Zenon DEF NewsIsShown, Raised
<1>. QED
  BY <1>1, ModalInvariance, PTL

=============================================================================
