----------------------------- MODULE PanelProofs -----------------------------
(***************************************************************************)
(* Machine-checked proofs about module Panel, for any set of goroutines,   *)
(* any events, any length of the log and any number of events.             *)
(*                                                                         *)
(* IInv is the inductive invariant: the snapshots on their way to the      *)
(* widgets form one chain, from the screen through the queue and the       *)
(* pump's copy to the model, that is ordered by Follows and has no gap.    *)
(***************************************************************************)
EXTENDS Panel, TLAPS

\* b is a later snapshot than a, and repeats its failure within its transaction.
Follows(a, b) == /\ a.ver <= b.ver /\ a.run <= b.run
                 /\ a.run = b.run /\ a.err # NoErr => b.err = a.err

\* A snapshot with Seq 0 is an empty model, which render shows as "Idle.".
Blank(s) == s.seq = 0 => s.phase = "" /\ s.err = NoErr

Blanks == /\ Blank(snap) /\ Blank(held)
          /\ \A i \in 1 .. Len(queue) : Blank(queue[i].snap)

Ordered == /\ Follows(held, snap) /\ Follows(screen, held)
           /\ \A i \in 1 .. Len(queue) :
                /\ queue[i].op = "render"
                /\ Follows(screen, queue[i].snap) /\ Follows(queue[i].snap, held)
                /\ \A j \in i .. Len(queue) : Follows(queue[i].snap, queue[j].snap)

\* The newest render not yet run is of the snapshot the pump copied last.
Gapless == pump # "deliver" =>
             IF queue = << >> THEN Shows(screen, held)
             ELSE queue[Len(queue)].snap = held

\* With no nudge in sight the pump has copied the current model.
Nudged == ~kick /\ pump # "taken" /\ (\A t \in Threads : pc[t] # "nudge") => held = snap

\* There is one pump, and Start is what starts it.
OnePump == /\ ~started => pump = "none" /\ \A t \in Threads : pc[t] # "spawn"
           /\ \A t \in Threads : pc[t] = "spawn" =>
                pump = "none" /\ \A u \in Threads : pc[u] = "spawn" => u = t

\* One goroutine is inside the body of Close.
OneClose == /\ \A t \in Threads : pc[t] \in {"closing", "await"} =>
                 /\ once = "running"
                 /\ \A u \in Threads : pc[u] \in {"closing", "await"} => u = t
            /\ ClosedPumpIsGone

IInv == TypeOK /\ Blanks /\ Ordered /\ Gapless /\ Nudged /\ OnePump /\ OneClose

-----------------------------------------------------------------------------
\* Fraction is a position of the bar or Hold: no phase and no progress, in or
\* out of range, gives the widget anything else.
LEMMA FractionRange ==
  ASSUME NEW s \in Snapshot
  PROVE  Fraction(s) = Hold \/ Fraction(s) \in 0 .. BarFull
<1>1. CASE s.phase \in DOMAIN Steps
  <2>. DEFINE from == Steps[s.phase].from
              span == Steps[s.phase].to - Steps[s.phase].from
  <2>1. s.phase \in KnownPhases
    BY <1>1 DEF Steps, KnownPhases
  <2>2. \/ from = Hold
        \/ from \in 0 .. 100 /\ span \in {0, 4, 8, 10, 12, 13, 15, 25} /\ from + span <= 100
    BY <2>1 DEF Steps, KnownPhases, Hold
  <2>3. CASE from = Hold
    BY <1>1, <2>3 DEF Fraction, Hold, BarFull, BarUnit
  <2>4. CASE from \in 0 .. 100 /\ span \in {0, 4, 8, 10, 12, 13, 15, 25} /\ from + span <= 100
    <3>. DEFINE part == IF s.progress \in 0 .. 100 THEN s.progress * span ELSE 0
    <3>1. part \in 0 .. 100 * span
      BY <2>4 DEF Snapshot
    <3>2. from * BarUnit + part \in 0 .. BarFull
      <4>. HIDE DEF part, from, span
      <4>. QED
        BY <2>4, <3>1 DEF BarFull, BarUnit
    <3>3. Fraction(s) \in {BarFull, from * BarUnit + part}
      BY <1>1, <2>4 DEF Fraction
    <3>4. BarFull \in 0 .. BarFull
      BY DEF BarFull, BarUnit
    <3>. HIDE DEF part, from, span
    <3>. QED
      BY <3>2, <3>3, <3>4
  <2>. QED
    BY <2>2, <2>3, <2>4
<1>2. CASE s.phase \notin DOMAIN Steps
  BY <1>2 DEF Fraction, Hold, BarFull, BarUnit
<1>. QED
  BY <1>1, <1>2

\* What render draws for an empty model is a screen.
LEMMA IdleType ==
  ASSUME NEW v \in Nat, NEW r \in Nat
  PROVE  Idle(v, r) \in Screen
<1>1. 0 \in 0 .. BarFull
  BY DEF BarFull, BarUnit
<1>2. NoErr \in Error /\ "" \in Phase
  BY DEF Error, Phase
<1>. QED
  BY <1>1, <1>2 DEF Idle, Screen

\* Whatever snapshot a render is handed, it leaves a screen.
LEMMA PaintedType ==
  ASSUME NEW w \in Screen, NEW s \in Snapshot
  PROVE  Painted(w, s) \in Screen
<1>. DEFINE bar == IF Fraction(s) = Hold THEN w.bar ELSE Fraction(s)
<1>1. bar \in 0 .. BarFull
  BY FractionRange DEF Screen
<1>2. s.ver \in Nat /\ s.run \in Nat /\ s.seq \in Nat /\ s.phase \in Phase /\ s.err \in Error
  BY DEF Snapshot
<1>. HIDE DEF bar
<1>3. [ver |-> s.ver, run |-> s.run, seq |-> s.seq, phase |-> s.phase,
       bar |-> bar, err |-> s.err] \in Screen
  BY <1>1, <1>2 DEF Screen
<1>. QED
  BY <1>2, <1>3, IdleType DEF Painted, bar

\* A render draws its snapshot. It needs Blank: with Seq 0 render looks at
\* nothing else and shows no phase and no error.
LEMMA PaintedShows ==
  ASSUME NEW w, NEW s \in Snapshot, Blank(s)
  PROVE  Shows(Painted(w, s), s) /\ Painted(w, s).run = s.run
BY DEF Painted, Shows, Blank, Idle, Snapshot

\* An event is one more change of the same run and cannot replace an error.
LEMMA ApplyType ==
  ASSUME NEW s \in Snapshot, NEW e \in Events
  PROVE  /\ Apply(s, e) \in Snapshot /\ Apply(s, e).seq = s.seq + 1
         /\ Apply(s, e).ver = s.ver + 1 /\ Apply(s, e).run = s.run
         /\ s.err # NoErr => Apply(s, e).err = s.err
<1>. DEFINE err == IF s.err = NoErr THEN e.err ELSE s.err
            done == IF e.phase \in {"commit", "rollback"} THEN TRUE ELSE s.done
<1>1. e.phase \in Phase /\ e.progress \in Progress /\ e.err \in Error
  BY PanelAssumption DEF Event, Error
<1>2. s.ver \in Nat /\ s.run \in Nat /\ s.seq \in Nat /\ s.err \in Error /\ s.done \in BOOLEAN
  BY DEF Snapshot
<1>3. err \in Error
  BY <1>1, <1>2
<1>4. done \in BOOLEAN
  BY <1>2
<1>. HIDE DEF err, done
<1>5. [ver |-> s.ver + 1, run |-> s.run, seq |-> s.seq + 1, phase |-> e.phase,
       progress |-> e.progress, err |-> err, done |-> done] \in Snapshot
  BY <1>1, <1>2, <1>3, <1>4 DEF Snapshot
<1>. QED
  BY <1>5 DEF Apply, err, done

\* The model Reset leaves is well typed and blank.
LEMMA EmptyModelType ==
  ASSUME NEW v \in Nat, NEW r \in Nat
  PROVE  /\ EmptyModel(v, r) \in Snapshot /\ Blank(EmptyModel(v, r))
         /\ EmptyModel(v, r).ver = v /\ EmptyModel(v, r).run = r
BY DEF EmptyModel, Snapshot, Phase, Progress, Error, Blank

\* The chain of snapshots is ordered end to end.
LEMMA FollowsTransitive ==
  ASSUME NEW a, NEW b, NEW c,
         a.ver \in Nat, b.ver \in Nat, c.ver \in Nat,
         a.run \in Nat, b.run \in Nat, c.run \in Nat,
         Follows(a, b), Follows(b, c)
  PROVE  Follows(a, c)
BY DEF Follows

-----------------------------------------------------------------------------
\* A new panel is well typed.
LEMMA TypeInit == Init => TypeOK
<1>1. EmptyModel(0, 0) \in Snapshot /\ Idle(0, 0) \in Screen
  BY EmptyModelType, IdleType
<1>2. << >> \in Seq(Nat) /\ Len(<< >>) <= LogSize /\ << >> \in Seq(Closure)
  BY PanelAssumption
<1>. QED
  BY <1>1, <1>2 DEF Init, TypeOK

\* No step takes a variable out of its type.
LEMMA TypeNext == TypeOK /\ [Next]_vars => TypeOK'
<1>. SUFFICES ASSUME TypeOK, [Next]_vars PROVE TypeOK'
  OBVIOUS
<1>. USE DEF TypeOK
<1>1. ASSUME NEW t \in Threads, NEW e \in Events, OnEvent(t, e) PROVE TypeOK'
  <2>1. snap' \in Snapshot /\ snap'.ver \in Nat
    BY <1>1, ApplyType DEF OnEvent, Snapshot
  <2>2. ring' \in Seq(Nat) /\ Len(ring') <= LogSize
    BY <1>1, <2>1, PanelAssumption DEF OnEvent, Retain
  <2>. QED
    BY <1>1, <2>1, <2>2 DEF OnEvent, Goto, control
<1>2. ASSUME NEW t \in Threads, Reset(t) PROVE TypeOK'
  <2>1. snap.ver + 1 \in Nat /\ snap.run + 1 \in Nat
    BY DEF Snapshot
  <2>2. snap' \in Snapshot
    BY <1>2, <2>1, EmptyModelType DEF Reset
  <2>. QED
    BY <1>2, <2>2, PanelAssumption DEF Reset, Goto, control
<1>3. ASSUME NEW t \in Threads, Nudge(t) \/ Spawn(t) \/ Start(t) PROVE TypeOK'
  BY <1>3 DEF Nudge, Spawn, Start, Goto, control, model
<1>4. ASSUME NEW t \in Threads, Close(t) \/ CloseAgain(t) \/ CloseJoins(t) PROVE TypeOK'
  BY <1>4 DEF Close, CloseAgain, CloseJoins, Goto, control, model
<1>5. ASSUME NEW t \in Threads, CloseReads(t) \/ CloseAwaits(t) PROVE TypeOK'
  BY <1>5 DEF CloseReads, CloseAwaits, Goto, control, model
<1>6. CASE PumpStop \/ PumpTake \/ PumpCopy
  BY <1>6 DEF PumpStop, PumpTake, PumpCopy, control, model
<1>7. CASE PumpDeliver
  <2>1. RenderOf(held) \in Closure
    BY DEF RenderOf, Closure
  <2>. QED
    BY <1>7, <2>1 DEF PumpDeliver, Do, control, model
<1>8. CASE Render
  <2>1. Head(queue) \in Closure /\ queue' \in Seq(Closure)
    BY <1>8 DEF Render
  <2>2. screen' \in Screen
    BY <1>8, <2>1, PaintedType DEF Render, Closure
  <2>. QED
    BY <1>8, <2>1, <2>2 DEF Render, control, model
<1>9. CASE UNCHANGED vars
  BY <1>9 DEF vars
<1>. QED
  BY <1>1, <1>2, <1>3, <1>4, <1>5, <1>6, <1>7, <1>8, <1>9
     DEF Next, CallBegin, CallStep, PumpStep

\* Every variable has its type in every state.
THEOREM Typing == Spec => []TypeOK
BY TypeInit, TypeNext, PTL DEF Spec

-----------------------------------------------------------------------------
\* A new panel satisfies the inductive invariant.
LEMMA InvInit == Init => IInv
<1>. SUFFICES ASSUME Init PROVE IInv
  OBVIOUS
<1>1. TypeOK
  BY TypeInit
<1>. DEFINE m == EmptyModel(0, 0)
<1>2. Blank(m) /\ Follows(m, m) /\ Follows(Idle(0, 0), m)
  BY DEF Blank, Follows, EmptyModel, Idle
<1>. HIDE DEF m
<1>3. /\ snap = m /\ held = m /\ screen = Idle(0, 0)
      /\ \A i \in 1 .. Len(queue) : FALSE
  BY DEF Init, m
<1>4. Blanks /\ Ordered
  BY <1>2, <1>3 DEF Blanks, Ordered
<1>5. Gapless /\ Nudged
  BY DEF Init, Gapless, Shows, Nudged, EmptyModel, Idle
<1>6. OnePump /\ OneClose
  BY DEF Init, OnePump, OneClose, ClosedPumpIsGone
<1>. QED
  BY <1>1, <1>4, <1>5, <1>6 DEF IInv

\* The calls that touch neither a snapshot nor the queue leave the chain alone.
LEMMA ControlStep ==
  ASSUME IInv, TypeOK', UNCHANGED <<snap, held, queue, screen>>,
         NEW t \in Threads,
         \/ Nudge(t) \/ Spawn(t) \/ Start(t)
         \/ Close(t) \/ CloseReads(t) \/ CloseAwaits(t) \/ CloseAgain(t) \/ CloseJoins(t)
  PROVE  IInv'
<1>. USE DEF IInv, TypeOK, Goto, control, model
<1>1. Blanks' /\ Ordered'
  BY DEF Blanks, Ordered
<1>2. CASE Nudge(t)
  BY <1>1, <1>2 DEF Nudge, Gapless, Nudged, OnePump, OneClose, ClosedPumpIsGone
<1>3. CASE Spawn(t)
  BY <1>1, <1>3 DEF Spawn, Gapless, Nudged, OnePump, OneClose, ClosedPumpIsGone
<1>4. CASE Start(t)
  BY <1>1, <1>4 DEF Start, Gapless, Nudged, OnePump, OneClose, ClosedPumpIsGone
<1>5. CASE Close(t)
  BY <1>1, <1>5 DEF Close, Gapless, Nudged, OnePump, OneClose, ClosedPumpIsGone
<1>6. CASE CloseReads(t)
  BY <1>1, <1>6 DEF CloseReads, Gapless, Nudged, OnePump, OneClose, ClosedPumpIsGone
<1>7. CASE CloseAwaits(t)
  BY <1>1, <1>7 DEF CloseAwaits, Gapless, Nudged, OnePump, OneClose, ClosedPumpIsGone
<1>8. CASE CloseAgain(t) \/ CloseJoins(t)
  BY <1>1, <1>8 DEF CloseAgain, CloseJoins, Gapless, Nudged, OnePump, OneClose, ClosedPumpIsGone
<1>. QED
  BY <1>2, <1>3, <1>4, <1>5, <1>6, <1>7, <1>8

\* A change of the model, by OnEvent or Reset, lengthens the chain at its end.
LEMMA ModelStep ==
  ASSUME IInv, TypeOK', NEW t \in Threads,
         Reset(t) \/ \E e \in Events : OnEvent(t, e)
  PROVE  IInv'
<1>. USE DEF IInv
<1>1. Goto(t, "idle", "nudge") /\ UNCHANGED <<kick, control, pump, held, queue, screen>>
  BY DEF Reset, OnEvent
<1>2. Follows(snap, snap') /\ Blank(snap')
  <2>1. CASE Reset(t)
    <3>1. snap.ver + 1 \in Nat /\ snap.run + 1 \in Nat
      BY DEF TypeOK, Snapshot
    <3>2. snap' = EmptyModel(snap.ver + 1, snap.run + 1)
      BY <2>1 DEF Reset
    <3>3. Blank(snap') /\ snap'.ver = snap.ver + 1 /\ snap'.run = snap.run + 1
      BY <3>1, <3>2, EmptyModelType
    <3>. QED
      BY <3>3 DEF Follows, TypeOK, Snapshot
  <2>2. CASE \E e \in Events : OnEvent(t, e)
    <3>1. PICK e \in Events : snap' = Apply(snap, e)
      BY <2>2 DEF OnEvent
    <3>2. snap \in Snapshot /\ snap.ver \in Nat /\ snap.seq \in Nat
      BY DEF TypeOK, Snapshot
    <3>3. /\ snap'.ver = snap.ver + 1 /\ snap'.run = snap.run /\ snap'.seq = snap.seq + 1
          /\ snap.err # NoErr => snap'.err = snap.err
      BY <3>1, <3>2, ApplyType
    <3>4. snap.run <= snap.run
      BY <3>2 DEF Snapshot
    <3>5. Follows(snap, snap')
      BY <3>2, <3>3, <3>4 DEF Follows
    <3>6. snap'.seq # 0
      BY <3>2, <3>3
    <3>. QED
      BY <3>5, <3>6 DEF Blank
  <2>. QED
    BY <2>1, <2>2
<1>3. Blanks' /\ Gapless'
  BY <1>1, <1>2 DEF Blanks, Gapless
<1>4. Ordered'
  BY <1>1, <1>2, FollowsTransitive DEF Ordered, TypeOK, Snapshot
<1>5. Nudged' /\ OnePump' /\ OneClose'
  BY <1>1 DEF Nudged, OnePump, OneClose, ClosedPumpIsGone, Goto, TypeOK, control
<1>. QED
  BY <1>3, <1>4, <1>5

\* The pump's steps: the chain is cut nowhere between the model and the queue.
LEMMA PumpKeeps ==
  ASSUME IInv, TypeOK', PumpStep
  PROVE  IInv'
<1>. USE DEF IInv
<1>1. CASE PumpStop \/ PumpTake
  BY <1>1 DEF PumpStop, PumpTake, control, model, Blanks, Ordered, Gapless, Nudged,
              OnePump, OneClose, ClosedPumpIsGone
<1>2. CASE PumpCopy
  <2>. USE <1>2 DEF PumpCopy, control, model
  <2>1. Blanks' /\ Gapless'
    BY DEF Blanks, Gapless
  <2>2. Follows(snap, snap)
    BY DEF Follows, TypeOK, Snapshot
  <2>3. Follows(screen, snap)
    BY FollowsTransitive DEF Ordered, TypeOK, Snapshot, Screen
  <2>4. ASSUME NEW i \in 1 .. Len(queue) PROVE Follows(queue[i].snap, snap)
    <3>1. queue[i] \in Closure
      BY DEF TypeOK
    <3>2. queue[i].snap \in Snapshot
      BY <3>1 DEF Closure
    <3>. QED
      BY <3>2, FollowsTransitive DEF Ordered, TypeOK, Snapshot
  <2>5. Ordered'
    BY <2>2, <2>3, <2>4 DEF Ordered
  <2>6. Nudged' /\ OnePump' /\ OneClose'
    BY DEF Nudged, OnePump, OneClose, ClosedPumpIsGone
  <2>. QED
    BY <2>1, <2>5, <2>6
<1>3. CASE PumpDeliver
  <2>. USE <1>3 DEF PumpDeliver, Do, control, model
  <2>1. /\ Len(queue') = Len(queue) + 1 /\ queue'[Len(queue')] = RenderOf(held)
        /\ \A i \in 1 .. Len(queue) : queue'[i] = queue[i]
        /\ queue' # << >> /\ Len(queue) \in Nat
    BY DEF TypeOK
  <2>2. RenderOf(held).op = "render" /\ RenderOf(held).snap = held
    BY DEF RenderOf
  <2>3. Blanks' /\ Gapless'
    BY <2>1, <2>2 DEF Blanks, Gapless
  <2>4. Follows(held, held)
    BY DEF Follows, TypeOK, Snapshot
  <2>5. Ordered'
    BY <2>1, <2>2, <2>4 DEF Ordered
  <2>6. Nudged' /\ OnePump' /\ OneClose'
    BY DEF Nudged, OnePump, OneClose, ClosedPumpIsGone
  <2>. QED
    BY <2>3, <2>5, <2>6
<1>. QED
  BY <1>1, <1>2, <1>3 DEF PumpStep

\* A render moves the head of the chain to the screen.
LEMMA RenderKeeps ==
  ASSUME IInv, TypeOK', Render
  PROVE  IInv'
<1>. USE DEF IInv, Render, control, model
<1>. DEFINE s == queue[1].snap
<1>1. /\ Len(queue) \in Nat \ {0} /\ Len(queue') = Len(queue) - 1
      /\ \A i \in 1 .. Len(queue') : queue'[i] = queue[i + 1]
      /\ Head(queue) = queue[1] /\ 1 \in 1 .. Len(queue)
  BY DEF TypeOK
<1>2. s \in Snapshot /\ Blank(s)
  <2>1. queue[1] \in Closure
    BY <1>1 DEF TypeOK
  <2>. QED
    BY <1>1, <2>1 DEF Closure, Blanks
<1>3. Shows(screen', s) /\ screen'.run = s.run
  BY <1>1, <1>2, PaintedShows
<1>4. Blanks'
  BY <1>1 DEF Blanks
<1>5. ASSUME NEW x, Follows(s, x) PROVE Follows(screen', x)
  BY <1>3, <1>5 DEF Follows, Shows
<1>6. Ordered'
  <2>1. \A j \in 1 .. Len(queue) : Follows(s, queue[j].snap)
    BY <1>1 DEF Ordered
  <2>2. Follows(screen', held)
    BY <1>1, <1>5 DEF Ordered
  <2>3. \A i \in 1 .. Len(queue') : i + 1 \in 1 .. Len(queue)
    BY <1>1
  <2>4. \A i \in 1 .. Len(queue') : Follows(screen', queue'[i].snap)
    BY <1>1, <1>5, <2>1, <2>3
  <2>5. \A i \in 1 .. Len(queue') : \A j \in i .. Len(queue') :
          Follows(queue'[i].snap, queue'[j].snap)
    <3>1. \A i \in 1 .. Len(queue') : \A j \in i .. Len(queue') :
            j \in 1 .. Len(queue') /\ j + 1 \in i + 1 .. Len(queue)
      BY <1>1
    <3>. QED
      BY <1>1, <2>3, <3>1 DEF Ordered
  <2>. QED
    BY <1>1, <2>2, <2>3, <2>4, <2>5 DEF Ordered
<1>7. Gapless'
  <2>. SUFFICES ASSUME pump # "deliver"
                PROVE  IF queue' = << >> THEN Shows(screen', held)
                       ELSE queue'[Len(queue')].snap = held
    BY DEF Gapless
  <2>0. queue[Len(queue)].snap = held
    BY DEF Gapless
  <2>1. CASE Len(queue) = 1
    BY <1>1, <1>3, <2>0, <2>1 DEF TypeOK
  <2>2. CASE Len(queue) # 1
    <3>1. queue' # << >> /\ Len(queue') \in 1 .. Len(queue')
      BY <1>1, <2>2
    <3>2. queue'[Len(queue')] = queue[Len(queue') + 1]
      BY <1>1, <3>1
    <3>. QED
      BY <1>1, <2>0, <3>1, <3>2
  <2>. QED
    BY <2>1, <2>2
<1>8. Nudged' /\ OnePump' /\ OneClose'
  BY DEF Nudged, OnePump, OneClose, ClosedPumpIsGone
<1>. QED
  BY <1>4, <1>6, <1>7, <1>8

-----------------------------------------------------------------------------
\* Every step keeps the inductive invariant.
LEMMA InvNext == IInv /\ TypeOK' /\ [Next]_vars => IInv'
<1>. SUFFICES ASSUME IInv, TypeOK', [Next]_vars PROVE IInv'
  OBVIOUS
<1>1. ASSUME NEW t \in Threads, CallBegin(t) \/ CallStep(t) PROVE IInv'
  <2>1. CASE Reset(t) \/ \E e \in Events : OnEvent(t, e)
    BY <2>1, ModelStep
  <2>2. CASE \/ Nudge(t) \/ Spawn(t) \/ Start(t) \/ Close(t) \/ CloseReads(t)
             \/ CloseAwaits(t) \/ CloseAgain(t) \/ CloseJoins(t)
    <3>1. UNCHANGED <<snap, held, queue, screen>>
      BY <2>2 DEF Nudge, Spawn, Start, Close, CloseReads, CloseAwaits, CloseAgain,
                  CloseJoins, model
    <3>. QED
      BY <2>2, <3>1, ControlStep
  <2>. QED
    BY <1>1, <2>1, <2>2 DEF CallBegin, CallStep
<1>2. CASE PumpStep
  BY <1>2, PumpKeeps
<1>3. CASE Render
  BY <1>3, RenderKeeps
<1>4. CASE UNCHANGED vars
  BY <1>4 DEF vars, IInv, Blanks, Ordered, Gapless, Nudged, OnePump, OneClose, ClosedPumpIsGone
<1>. QED
  BY <1>1, <1>2, <1>3, <1>4 DEF Next

\* The inductive invariant of the panel.
THEOREM Invariance == Spec => []IInv
<1>1. Init => IInv
  BY InvInit
<1>2. IInv /\ TypeOK' /\ [Next]_vars => IInv'
  BY InvNext
<1>. QED
  BY <1>1, <1>2, Typing, PTL DEF Spec

\* With nothing under way, the widgets say what the model says: coalescing in
\* the one-slot kick channel loses no update (observer.go nudge).
THEOREM NothingLost == Spec => []SettledIsCurrent
<1>1. IInv => SettledIsCurrent
  BY DEF IInv, SettledIsCurrent, Settled, Gapless, Nudged
<1>. QED
  BY <1>1, Invariance, PTL

\* When Close has waited and returned, the pump has returned (panel.go Close).
THEOREM CloseJoinsPump == Spec => []ClosedPumpIsGone
<1>1. IInv => ClosedPumpIsGone
  BY DEF IInv, OneClose
<1>. QED
  BY <1>1, Invariance, PTL

-----------------------------------------------------------------------------
\* A step changes the screen only by painting a snapshot that follows it.
LEMMA ScreenStep ==
  ASSUME IInv, [Next]_vars
  PROVE  \/ UNCHANGED screen
         \/ UNCHANGED snap /\ Follows(screen, screen') /\ screen'.ver \in screen.ver .. snap.ver
<1>1. CASE Render
  <2>. DEFINE s == queue[1].snap
  <2>. USE <1>1 DEF Render, IInv, model
  <2>1. 1 \in 1 .. Len(queue) /\ queue[1] = Head(queue) /\ queue[1] \in Closure
    BY DEF TypeOK
  <2>2. s \in Snapshot /\ Blank(s) /\ Follows(screen, s) /\ Follows(s, held) /\ Follows(held, snap)
    BY <2>1 DEF Closure, Blanks, Ordered
  <2>3. Shows(screen', s) /\ screen'.run = s.run
    BY <2>1, <2>2, PaintedShows
  <2>4. Follows(screen, screen')
    BY <2>2, <2>3 DEF Follows, Shows
  <2>5. screen'.ver \in screen.ver .. snap.ver
    BY <2>2, <2>3 DEF Follows, Shows, TypeOK, Snapshot, Screen
  <2>. QED
    BY <2>4, <2>5
<1>2. ASSUME NEW t \in Threads, CallBegin(t) \/ CallStep(t) PROVE UNCHANGED screen
  BY <1>2 DEF CallBegin, CallStep, OnEvent, Reset, Start, Close, CloseAgain, Nudge, Spawn,
              CloseReads, CloseAwaits, CloseJoins
<1>3. CASE PumpStep \/ UNCHANGED vars
  BY <1>3 DEF PumpStep, PumpStop, PumpTake, PumpCopy, PumpDeliver, vars
<1>. QED
  BY <1>1, <1>2, <1>3 DEF Next

\* A step changes the model's version by one, or not at all.
LEMMA VersionStep ==
  ASSUME IInv, [Next]_vars
  PROVE  UNCHANGED snap \/ (snap'.ver = snap.ver + 1 /\ UNCHANGED screen)
<1>1. ASSUME NEW t \in Threads, NEW e \in Events, OnEvent(t, e)
      PROVE  snap'.ver = snap.ver + 1 /\ UNCHANGED screen
  BY <1>1, ApplyType DEF OnEvent, IInv, TypeOK
<1>2. ASSUME NEW t \in Threads, Reset(t)
      PROVE  snap'.ver = snap.ver + 1 /\ UNCHANGED screen
  BY <1>2 DEF Reset, EmptyModel
<1>3. ASSUME NEW t \in Threads,
             \/ Start(t) \/ Close(t) \/ CloseAgain(t) \/ CallStep(t)
      PROVE  UNCHANGED snap
  BY <1>3 DEF CallStep, Start, Close, CloseAgain, Nudge, Spawn, CloseReads, CloseAwaits,
              CloseJoins, model
<1>4. CASE PumpStep \/ Render \/ UNCHANGED vars
  BY <1>4 DEF PumpStep, PumpStop, PumpTake, PumpCopy, PumpDeliver, Render, vars, model
<1>. QED
  BY <1>1, <1>2, <1>3, <1>4 DEF Next, CallBegin

\* The panel is a view of its model: what it paints existed, and is never
\* older than what it painted before.
THEOREM Refinement == Spec => ImplementsView
<1>1. Init => ViewOfModel!Init
  <2>1. EmptyModel(0, 0).ver = 0 /\ Idle(0, 0).ver = 0
    BY DEF EmptyModel, Idle
  <2>. QED
    BY <2>1 DEF Init, ViewOfModel!Init
<1>2. IInv /\ [Next]_vars => [ViewOfModel!Next]_ViewOfModel!vars
  <2>. SUFFICES ASSUME IInv, [Next]_vars PROVE [ViewOfModel!Next]_ViewOfModel!vars
    OBVIOUS
  <2>. QED
    BY ScreenStep, VersionStep
       DEF ViewOfModel!Next, ViewOfModel!vars, ViewOfModel!Publish, ViewOfModel!Paint
<1>. QED
  BY <1>1, <1>2, Invariance, PTL DEF Spec, ImplementsView, ViewOfModel!Spec

\* A failure on screen is repainted as itself until a Reset is painted.
THEOREM ErrorsStay == Spec => ErrorStaysOnScreen
<1>1. IInv /\ [Next]_vars => [screen.err # NoErr /\ screen'.run = screen.run
                                => screen'.err = screen.err]_vars
  BY ScreenStep DEF Follows
<1>. QED
  BY <1>1, Invariance, PTL DEF Spec, ErrorStaysOnScreen

-----------------------------------------------------------------------------
\* The retained log is the newest events of the transaction, without a gap.
THEOREM LogIsTail == Spec => []RingIsTail
<1>1. Init => RingIsTail
  <2>1. EmptyModel(0, 0).seq = 0 /\ Len(<< >>) = 0 /\ Smaller(0, LogSize) = 0
    BY PanelAssumption DEF EmptyModel, Smaller
  <2>. QED
    BY <2>1 DEF Init, RingIsTail
<1>2. TypeOK /\ RingIsTail /\ [Next]_vars => RingIsTail'
  <2>. SUFFICES ASSUME TypeOK, RingIsTail, [Next]_vars PROVE RingIsTail'
    OBVIOUS
  <2>1. ASSUME NEW t \in Threads, NEW e \in Events, OnEvent(t, e) PROVE RingIsTail'
    <3>. DEFINE v == snap.ver + 1
    <3>1. /\ snap.ver \in Nat /\ snap.seq \in Nat /\ ring \in Seq(Nat) /\ LogSize \in Nat \ {0}
          /\ snap'.ver = v /\ snap'.seq = snap.seq + 1 /\ ring' = Retain(ring, v)
      BY <2>1, ApplyType, PanelAssumption DEF OnEvent, TypeOK, Snapshot
    <3>. HIDE DEF v
    <3>2. CASE Len(ring) = LogSize
      <4>1. /\ Len(ring') = Len(ring) /\ ring'[Len(ring)] = v
            /\ \A i \in 1 .. Len(ring) - 1 : ring'[i] = ring[i + 1]
        BY <3>1, <3>2 DEF Retain, v
      <4>2. Len(ring') = Smaller(snap'.seq, LogSize)
        BY <3>1, <3>2, <4>1 DEF RingIsTail, Smaller
      <4>3. ASSUME NEW i \in 1 .. Len(ring') PROVE ring'[i] = snap'.ver - Len(ring') + i
        <5>1. Len(ring) \in Nat /\ Len(ring') \in Nat /\ i \in Nat
          BY <3>1, <3>2, <4>1
        <5>2. CASE i = Len(ring')
          BY <3>1, <3>2, <4>1, <5>1, <5>2 DEF v
        <5>3. CASE i # Len(ring')
          <6>1. i + 1 \in 1 .. Len(ring) /\ ring'[i] = ring[i + 1]
            BY <3>2, <4>1, <5>1, <5>3
          <6>2. ring[i + 1] = snap.ver - Len(ring) + (i + 1)
            BY <6>1 DEF RingIsTail
          <6>3. snap.ver - Len(ring) + (i + 1) = (snap.ver + 1) - Len(ring) + i
            <7>1. \A a, b, c \in Nat : a - b + (c + 1) = (a + 1) - b + c
              OBVIOUS
            <7>. QED
              BY <3>1, <5>1, <7>1
          <6>. QED
            BY <3>1, <4>1, <6>1, <6>2, <6>3 DEF v
        <5>. QED
          BY <5>2, <5>3
      <4>. QED
        BY <4>2, <4>3 DEF RingIsTail
    <3>3. CASE Len(ring) # LogSize
      <4>1. /\ Len(ring') = Len(ring) + 1 /\ ring'[Len(ring) + 1] = v
            /\ \A i \in 1 .. Len(ring) : ring'[i] = ring[i]
        BY <3>1, <3>3 DEF Retain, v
      <4>2. Len(ring') = Smaller(snap'.seq, LogSize)
        BY <3>1, <3>3, <4>1 DEF RingIsTail, Smaller
      <4>3. ASSUME NEW i \in 1 .. Len(ring') PROVE ring'[i] = snap'.ver - Len(ring') + i
        <5>1. Len(ring) \in Nat /\ Len(ring') \in Nat /\ i \in Nat
          BY <3>1, <3>3, <4>1
        <5>2. CASE i = Len(ring')
          BY <3>1, <3>3, <4>1, <5>1, <5>2 DEF v
        <5>3. CASE i # Len(ring')
          <6>1. i \in 1 .. Len(ring) /\ ring'[i] = ring[i]
            BY <3>3, <4>1, <5>1, <5>3
          <6>2. ring[i] = snap.ver - Len(ring) + (i)
            BY <6>1 DEF RingIsTail
          <6>. QED
            BY <3>1, <4>1, <5>1, <6>1, <6>2 DEF v
        <5>. QED
          BY <5>2, <5>3
      <4>. QED
        BY <4>2, <4>3 DEF RingIsTail
    <3>. QED
      BY <3>2, <3>3
  <2>2. ASSUME NEW t \in Threads, Reset(t) PROVE RingIsTail'
    <3>1. snap'.seq = 0 /\ ring' = << >>
      BY <2>2 DEF Reset, EmptyModel
    <3>2. Len(<< >>) = 0 /\ Smaller(0, LogSize) = 0
      BY PanelAssumption DEF Smaller
    <3>. QED
      BY <3>1, <3>2 DEF RingIsTail
  <2>3. CASE UNCHANGED model
    BY <2>3 DEF model, RingIsTail
  <2>4. ASSUME NEW t \in Threads, Start(t) \/ Close(t) \/ CloseAgain(t) \/ CallStep(t)
        PROVE  UNCHANGED model
    BY <2>4 DEF CallStep, Start, Close, CloseAgain, Nudge, Spawn, CloseReads, CloseAwaits,
                CloseJoins, model
  <2>5. CASE PumpStep \/ Render \/ UNCHANGED vars
    BY <2>3, <2>5 DEF PumpStep, PumpStop, PumpTake, PumpCopy, PumpDeliver, Render, vars, model
  <2>. QED
    BY <2>1, <2>2, <2>3, <2>4, <2>5 DEF Next, CallBegin
<1>. QED
  BY <1>1, <1>2, Typing, PTL DEF Spec

=============================================================================
