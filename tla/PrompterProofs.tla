---------------------------- MODULE PrompterProofs ---------------------------
(***************************************************************************)
(* Machine-checked proofs about module Prompter, for any number of calls,  *)
(* whichever of them are made from the Fyne goroutine or without a window. *)
(*                                                                         *)
(* The inductive invariant IInv follows one call from its closures in the  *)
(* queue to the dialog and the answer channel: a dialog is drawn at most   *)
(* once, an answer is what the person tapped as long as the call waits for *)
(* it, and a hide that follows a withdrawal never overtakes the dialog.    *)
(***************************************************************************)
EXTENDS Prompter, TLAPS

\* The Fyne goroutine is drawing the dialog of c.
Drawing(c) == ui = At(c, "show") \/ ui = At(c, "store") \/ ui = At(c, "display")

\* What is in the queue for c.
In(c, op) == \E i \in 1 .. Len(queue) : queue[i] = Closure(c, op)
OneShow(c) == \A i, j \in 1 .. Len(queue) :
                queue[i] = Closure(c, "show") /\ queue[j] = Closure(c, "show") => i = j
HideLast(c) == \E j \in 1 .. Len(queue) :
                 /\ queue[j] = Closure(c, "hide")
                 /\ \A i \in j .. Len(queue) : queue[i] # Closure(c, "show")

\* A dialog still to come.
ToShow(c) == Drawing(c) \/ In(c, "show")

\* A call has no result before it is over.
Open(c) == result[c] = "none" <=> pc[c] # "done"

\* A dialog is drawn once, for a call that has begun and nobody has answered.
DrawnOnce(c) ==
  /\ pc[c] = "idle" => said[c] = "nothing"
  /\ ToShow(c) => pc[c] # "idle" /\ ~visible[c] /\ said[c] = "nothing"
  /\ visible[c] => pc[c] # "idle" /\ shown[c] /\ said[c] = "nothing"
  /\ Drawing(c) => ~In(c, "show")
  /\ OneShow(c)
  /\ ui = At(c, "display") => shown[c]

\* While a call waits, its answer is the person's, and nothing hides its dialog.
Genuine(c) ==
  pc[c] # "done" => /\ answer[c] # "empty" => answer[c] = said[c]
                    /\ ui = At(c, "yes") => said[c] = "yes"
                    /\ ui = At(c, "no") => said[c] = "no"
                    /\ ui # At(c, "hide") /\ ~In(c, "hide")

\* What a call has returned was said, or its context is done.
Earned(c) == /\ pc[c] = "withdraw" => ctxDone[c]
             /\ result[c] \in {"yes", "no"} => said[c] = result[c]

\* A call from the Fyne goroutine holds it.
Holding(c) == c \in OnUI /\ pc[c] \notin {"idle", "done"} => ui = At(c, "held")

\* A withdrawn call has no dialog, or a hide that comes after it.
Withdrawn(c) ==
  result[c] = "ctx" => \/ ~visible[c] /\ ~ToShow(c)
                       \/ ui = At(c, "hide") /\ ~ToShow(c)
                       \/ HideLast(c)

CallInv(c) == Open(c) /\ DrawnOnce(c) /\ Genuine(c) /\ Earned(c) /\ Holding(c) /\ Withdrawn(c)

IInv == TypeOK /\ \A c \in Calls : CallInv(c)

-----------------------------------------------------------------------------
\* Every state of the Fyne goroutine is one of its states, and the closures put
\* in its queue are closures.
LEMMA TypeInit == Init => TypeOK
  BY DEF Init, TypeOK, UIStates

LEMMA UIStateOf ==
  ASSUME NEW c \in Calls,
         NEW a \in {"held", "show", "store", "display", "hide", "yes", "no"}
  PROVE  At(c, a) \in UIStates /\ At(c, a) # Ready /\ Ready \in UIStates
  BY DEF At, UIStates, Ready

LEMMA TypeNext == TypeOK /\ [Next]_vars => TypeOK'
<1>. SUFFICES ASSUME TypeOK, [Next]_vars PROVE TypeOK'
  OBVIOUS
<1>1. ASSUME NEW c \in Calls, Confirm(c) PROVE TypeOK'
  <2>1. CASE c \in NoWin \/ ctxDone[c]
    BY <1>1, <2>1, UIStateOf DEF Confirm, atomics, Return, TypeOK, Put
  <2>2. CASE c \notin NoWin /\ ~ctxDone[c]
    <3>1. Closure(c, "show") \in Closures
      BY DEF Closure, Closures
    <3>2. /\ pc' = Put(pc, c, "arm") /\ ui' = IF c \in OnUI THEN At(c, "held") ELSE ui
          /\ queue' = Append(queue, Closure(c, "show"))
          /\ result' = result
      BY <1>1, <2>2 DEF Confirm
    <3>3. queue' \in Seq(Closures)
      BY <3>1, <3>2 DEF TypeOK
    <3>4. UNCHANGED <<ctxDone, result, answer, once, shown, cancelled, watchdog, visible, said>>
      BY <1>1, <2>2 DEF Confirm, atomics
    <3>. QED
      BY <3>2, <3>3, <3>4, UIStateOf DEF TypeOK, Put
  <2>. QED
    BY <2>1, <2>2
<1>2. ASSUME NEW c \in Calls, CallStep(c) PROVE TypeOK'
  <2>1. CASE Arm(c)
    BY <2>1 DEF Arm, atomics, TypeOK, Put
  <2>2. CASE TakeAnswer(c)
    BY <2>2, UIStateOf DEF TakeAnswer, atomics, Return, TypeOK, Put
  <2>3. CASE TakeDone(c)
    BY <2>3 DEF TakeDone, atomics, TypeOK, Put
  <2>4. CASE Withdraw(c)
    <3>1. Closure(c, "hide") \in Closures
      BY DEF Closure, Closures
    <3>2. queue' \in Seq(Closures)
      BY <2>4, <3>1 DEF Withdraw, TypeOK
    <3>. QED
      BY <2>4, <3>2, UIStateOf DEF Withdraw, atomics, Return, TypeOK, Put
  <2>5. CASE TakeWatchdog(c)
    BY <2>5 DEF TakeWatchdog, atomics, TypeOK, Put
  <2>6. CASE Expire(c)
    BY <2>6, UIStateOf DEF Expire, atomics, Return, TypeOK, Put
  <2>. QED
    BY <1>2, <2>1, <2>2, <2>3, <2>4, <2>5, <2>6 DEF CallStep
<1>3. ASSUME NEW c \in Calls, UIStep(c) PROVE TypeOK'
  <2>1. CASE ShowChecks(c)
    BY <2>1, UIStateOf DEF ShowChecks, atomics, TypeOK
  <2>2. CASE ShowStores(c)
    BY <2>2, UIStateOf DEF ShowStores, atomics, TypeOK, Put
  <2>3. CASE ShowDisplays(c)
    BY <2>3, UIStateOf DEF ShowDisplays, atomics, TypeOK, Put
  <2>4. CASE HideRuns(c)
    BY <2>4, UIStateOf DEF HideRuns, atomics, TypeOK, Put
  <2>5. CASE Reply(c)
    <3>1. ui.at \in {"yes", "no"}
      BY <2>5 DEF Reply, At
    <3>2. answer' = answer \/ answer' = [answer EXCEPT ![c] = ui.at]
      BY <2>5 DEF Reply, Put
    <3>3. once' = once \/ once' = [once EXCEPT ![c] = TRUE]
      BY <2>5 DEF Reply, Put
    <3>4. /\ answer' \in [Calls -> {"empty", "yes", "no"}]
          /\ once' \in [Calls -> BOOLEAN]
      <4>1. once \in [Calls -> BOOLEAN] /\ answer \in [Calls -> {"empty", "yes", "no"}]
        BY DEF TypeOK
      <4>2. answer' \in [Calls -> {"empty", "yes", "no"}]
        BY <3>1, <3>2, <4>1
      <4>3. once' \in [Calls -> BOOLEAN]
        BY <3>3, <4>1
      <4>. QED
        BY <4>2, <4>3
    <3>5. ui' \in UIStates
      BY <2>5, UIStateOf DEF Reply
    <3>6. UNCHANGED <<pc, ctxDone, result, shown, cancelled, watchdog, visible, said, queue>>
      BY <2>5 DEF Reply, atomics
    <3>. QED
      BY <3>4, <3>5, <3>6 DEF TypeOK
  <2>. QED
    BY <1>3, <2>1, <2>2, <2>3, <2>4, <2>5 DEF UIStep
<1>4. ASSUME NEW c \in Calls, Person(c) PROVE TypeOK'
  BY <1>4, UIStateOf DEF Person, Tap, atomics, TypeOK, Put
<1>5. ASSUME NEW c \in Calls, CtxEnds(c) \/ Fire(c) PROVE TypeOK'
  BY <1>5 DEF CtxEnds, Fire, atomics, TypeOK, Put
<1>6. CASE Take
  <2>1. Head(queue) \in Closures /\ Tail(queue) \in Seq(Closures)
    BY <1>6 DEF Take, TypeOK
  <2>2. Head(queue).call \in Calls /\ Head(queue).op \in {"show", "hide"}
    BY <2>1 DEF Closures
  <2>. QED
    BY <1>6, <2>1, <2>2, UIStateOf DEF Take, atomics, TypeOK
<1>7. CASE UNCHANGED vars
  BY <1>7 DEF vars, atomics, TypeOK
<1>. QED
  BY <1>1, <1>2, <1>3, <1>4, <1>5, <1>6, <1>7 DEF Next

\* Type correctness of Confirm.
THEOREM Typing == Spec => []TypeOK
  BY TypeInit, TypeNext, PTL DEF Spec

-----------------------------------------------------------------------------
\* Two closures, or two states of the Fyne goroutine, differ if they are of
\* different calls or kinds.
LEMMA Distinct ==
  ASSUME NEW c, NEW d, NEW a, NEW b
  PROVE  /\ Closure(c, a) = Closure(d, b) <=> c = d /\ a = b
         /\ At(c, a) = At(d, b) <=> c = d /\ a = b
         /\ At(c, a).at = a
         /\ a # "ready" => At(c, a) # Ready
  BY DEF Closure, At, Ready

\* What a closure x at the end of the queue changes for a call c.
LEMMA Appended ==
  ASSUME TypeOK, NEW x \in Closures, queue' = Append(queue, x), NEW c
  PROVE  /\ In(c, "show")' <=> In(c, "show") \/ x = Closure(c, "show")
         /\ In(c, "hide")' <=> In(c, "hide") \/ x = Closure(c, "hide")
         /\ OneShow(c) /\ (x = Closure(c, "show") => ~In(c, "show")) => OneShow(c)'
         /\ HideLast(c) /\ x # Closure(c, "show") => HideLast(c)'
         /\ x = Closure(c, "hide") => HideLast(c)'
<1>1. queue \in Seq(Closures)
  BY DEF TypeOK
<1>2. /\ Len(queue) \in Nat /\ Len(queue') = Len(queue) + 1
      /\ \A i \in 1 .. Len(queue) : queue'[i] = queue[i]
      /\ queue'[Len(queue) + 1] = x
  BY <1>1
<1>3. Closure(c, "hide") # Closure(c, "show")
  BY Distinct
<1>4. ASSUME NEW o PROVE In(c, o)' <=> In(c, o) \/ x = Closure(c, o)
  BY <1>2 DEF In
<1>5. OneShow(c) /\ (x = Closure(c, "show") => ~In(c, "show")) => OneShow(c)'
  BY <1>2 DEF In, OneShow
<1>6. HideLast(c) /\ x # Closure(c, "show") => HideLast(c)'
  BY <1>2 DEF HideLast
<1>7. x = Closure(c, "hide") => HideLast(c)'
  BY <1>2, <1>3 DEF HideLast
<1>. QED
  BY <1>4, <1>5, <1>6, <1>7

\* What taking the first closure changes for a call c.
LEMMA Taken ==
  ASSUME TypeOK, queue # << >>, queue' = Tail(queue), NEW c
  PROVE  /\ In(c, "show") <=> In(c, "show")' \/ Head(queue) = Closure(c, "show")
         /\ In(c, "hide") <=> In(c, "hide")' \/ Head(queue) = Closure(c, "hide")
         /\ OneShow(c) => OneShow(c)' /\ (Head(queue) = Closure(c, "show") => ~In(c, "show")')
         /\ HideLast(c) => HideLast(c)' \/ (Head(queue) = Closure(c, "hide") /\ ~In(c, "show"))
<1>1. queue \in Seq(Closures)
  BY DEF TypeOK
<1>2. /\ Len(queue) \in Nat \ {0} /\ Len(queue') = Len(queue) - 1
      /\ Head(queue) = queue[1]
      /\ \A i \in 1 .. Len(queue) - 1 : queue'[i] = queue[i + 1]
  BY <1>1
<1>3. ASSUME NEW i \in 1 .. Len(queue), i # 1
      PROVE  i - 1 \in 1 .. Len(queue') /\ queue[i] = queue'[i - 1]
  <2>1. i - 1 \in 1 .. Len(queue) - 1 /\ (i - 1) + 1 = i
    BY <1>2, <1>3
  <2>. QED
    BY <1>2, <2>1
<1>4. ASSUME NEW i \in 1 .. Len(queue')
      PROVE  i + 1 \in 1 .. Len(queue) /\ i + 1 # 1 /\ queue[i + 1] = queue'[i]
  BY <1>2
<1>5. 1 \in 1 .. Len(queue)
  BY <1>2
<1>6. ASSUME NEW o PROVE In(c, o) <=> In(c, o)' \/ Head(queue) = Closure(c, o)
  <2>1. ASSUME In(c, o), Head(queue) # Closure(c, o) PROVE In(c, o)'
    <3>1. PICK i \in 1 .. Len(queue) : queue[i] = Closure(c, o)
      BY <2>1 DEF In
    <3>. QED
      BY <1>2, <1>3, <2>1, <3>1 DEF In
  <2>2. ASSUME In(c, o)' PROVE In(c, o)
    <3>1. PICK i \in 1 .. Len(queue') : queue'[i] = Closure(c, o)
      BY <2>2 DEF In
    <3>. QED
      BY <1>4, <3>1 DEF In
  <2>3. Head(queue) = Closure(c, o) => In(c, o)
    BY <1>2, <1>5 DEF In
  <2>. QED
    BY <2>1, <2>2, <2>3
<1>7. ASSUME OneShow(c) PROVE OneShow(c)' /\ (Head(queue) = Closure(c, "show") => ~In(c, "show")')
  <2>1. ASSUME NEW i \in 1 .. Len(queue'), NEW j \in 1 .. Len(queue'),
               queue'[i] = Closure(c, "show"), queue'[j] = Closure(c, "show")
        PROVE  i = j
    <3>1. i + 1 = j + 1
      BY <1>4, <1>7, <2>1 DEF OneShow
    <3>. QED
      BY <3>1
  <2>2. ASSUME NEW i \in 1 .. Len(queue'), queue'[i] = Closure(c, "show"),
               Head(queue) = Closure(c, "show")
        PROVE  FALSE
    BY <1>2, <1>4, <1>5, <1>7, <2>2 DEF OneShow
  <2>. QED
    BY <2>1, <2>2 DEF In, OneShow
<1>8. ASSUME HideLast(c)
      PROVE  HideLast(c)' \/ (Head(queue) = Closure(c, "hide") /\ ~In(c, "show"))
  <2>1. PICK j \in 1 .. Len(queue) :
          /\ queue[j] = Closure(c, "hide")
          /\ \A i \in j .. Len(queue) : queue[i] # Closure(c, "show")
    BY <1>8 DEF HideLast
  <2>2. CASE j = 1
    BY <1>2, <2>1, <2>2 DEF In
  <2>3. CASE j # 1
    <3>1. j - 1 \in 1 .. Len(queue') /\ queue'[j - 1] = Closure(c, "hide")
      BY <1>3, <2>1, <2>3
    <3>2. ASSUME NEW i \in j - 1 .. Len(queue') PROVE queue'[i] # Closure(c, "show")
      <4>1. i \in 1 .. Len(queue') /\ i + 1 \in j .. Len(queue)
        BY <1>2, <2>3, <3>2
      <4>. QED
        BY <1>4, <2>1, <4>1
    <3>. QED
      BY <3>1, <3>2 DEF HideLast
  <2>. QED
    BY <2>2, <2>3
<1>. QED
  BY <1>6, <1>7, <1>8

-----------------------------------------------------------------------------
\* A step leaves the queue as it is for a call d, and the Fyne goroutine.
SameQueue(d) == /\ In(d, "show")' <=> In(d, "show")
                /\ In(d, "hide")' <=> In(d, "hide")
                /\ OneShow(d) => OneShow(d)'
                /\ HideLast(d) => HideLast(d)'
SameUI(d) ==
  /\ ui' = At(d, "show") <=> ui = At(d, "show")
  /\ ui' = At(d, "store") <=> ui = At(d, "store")
  /\ ui' = At(d, "display") <=> ui = At(d, "display")
  /\ ui' = At(d, "hide") <=> ui = At(d, "hide")
  /\ ui' = At(d, "yes") <=> ui = At(d, "yes")
  /\ ui' = At(d, "no") <=> ui = At(d, "no")
  /\ ui = At(d, "held") => ui' = At(d, "held")

LEMMA QueueUnchanged ==
  ASSUME NEW d, UNCHANGED queue
  PROVE  SameQueue(d)
  BY DEF SameQueue, In, OneShow, HideLast

\* A step that is about another call leaves this one's part of the invariant.
LEMMA Elsewhere ==
  ASSUME NEW d, CallInv(d), SameQueue(d), SameUI(d),
         pc'[d] = pc[d], ctxDone'[d] = ctxDone[d], result'[d] = result[d],
         answer'[d] = answer[d], shown'[d] = shown[d], visible'[d] = visible[d],
         said'[d] = said[d]
  PROVE  CallInv(d)'
<1>1. Open(d)'
  BY DEF CallInv, Open
<1>2. ToShow(d)' <=> ToShow(d)
  BY DEF ToShow, Drawing, SameQueue, SameUI
<1>3. DrawnOnce(d)'
  BY <1>2 DEF CallInv, DrawnOnce, Drawing, SameQueue, SameUI
<1>4. Genuine(d)'
  BY DEF CallInv, Genuine, SameQueue, SameUI
<1>5. Earned(d)'
  BY DEF CallInv, Earned
<1>6. Holding(d)'
  BY DEF CallInv, Holding, SameUI
<1>7. Withdrawn(d)'
  BY <1>2 DEF CallInv, Withdrawn, SameQueue, SameUI
<1>. QED
  BY <1>1, <1>3, <1>4, <1>5, <1>6, <1>7 DEF CallInv

-----------------------------------------------------------------------------
\* Returning, a call that the Fyne goroutine made gives it back, and no other.
LEMMA Returned ==
  ASSUME NEW c \in Calls, NEW r, Return(c, r), Holding(c),
         pc[c] # "done", pc[c] = "idle" /\ c \in OnUI => ui = Ready
  PROVE  /\ ui' = ui \/ (ui' = Ready /\ (ui = Ready \/ ui = At(c, "held")))
         /\ \A d \in Calls : d # c => SameUI(d)
<1>1. ui' = ui \/ (ui' = Ready /\ (ui = Ready \/ ui = At(c, "held")))
  BY DEF Return, Holding
<1>2. ASSUME NEW d \in Calls, d # c PROVE SameUI(d)
  BY <1>1, <1>2 DEF SameUI, At, Ready
<1>. QED
  BY <1>1, <1>2

\* The invariant holds at first.
LEMMA InvInit == Init => IInv
<1>. SUFFICES ASSUME Init, NEW c \in Calls PROVE CallInv(c)
  BY TypeInit DEF IInv
<1>1. ui = Ready /\ Len(queue) = 0
  BY DEF Init
<1>2. ~In(c, "show") /\ ~In(c, "hide") /\ OneShow(c)
  BY <1>1 DEF In, OneShow
<1>3. /\ ui # At(c, "show") /\ ui # At(c, "store") /\ ui # At(c, "display")
      /\ ui # At(c, "hide") /\ ui # At(c, "yes") /\ ui # At(c, "no")
  BY <1>1, Distinct
<1>4. pc[c] = "idle" /\ result[c] = "none" /\ answer[c] = "empty" /\ ~visible[c] /\ said[c] = "nothing"
  BY DEF Init
<1>. QED
  BY <1>2, <1>3, <1>4 DEF CallInv, Open, DrawnOnce, ToShow, Drawing, Genuine, Earned, Holding, Withdrawn

\* Beginning a call keeps the invariant.
LEMMA InvConfirm ==
  ASSUME IInv, NEW c \in Calls, Confirm(c), NEW d \in Calls
  PROVE  CallInv(d)'
<1>. USE DEF IInv
<1>1. /\ UNCHANGED <<ctxDone, answer, once, shown, cancelled, watchdog, visible, said>>
      /\ pc[c] = "idle" /\ (c \in OnUI => ui = Ready)
  BY DEF Confirm, atomics
<1>2. pc \in [Calls -> {"idle", "arm", "select", "withdraw", "expire", "done"}]
      /\ result \in [Calls -> {"none", "yes", "no", "ctx", "prompt"}]
  BY DEF TypeOK
<1>3. CallInv(c) /\ CallInv(d)
  OBVIOUS
<1>4. /\ result[c] = "none" /\ said[c] = "nothing" /\ answer[c] = "empty"
      /\ ~ToShow(c) /\ ~visible[c] /\ ~In(c, "hide") /\ ui # At(c, "hide")
      /\ ui # At(c, "yes") /\ ui # At(c, "no") /\ OneShow(c)
  BY <1>1, <1>2, <1>3 DEF CallInv, Open, DrawnOnce, Genuine, TypeOK
<1>5. CASE c \in NoWin \/ ctxDone[c]
  <2>1. PICK r \in {"prompt", "ctx"} : Return(c, r) /\ queue' = queue /\ (r = "ctx" => ctxDone[c])
    BY <1>5 DEF Confirm
  <2>2. pc' = Put(pc, c, "done") /\ result' = Put(result, c, r)
    BY <2>1 DEF Return
  <2>3. /\ pc'[c] = "done" /\ result'[c] = r
        /\ d # c => pc'[d] = pc[d] /\ result'[d] = result[d]
    BY <1>2, <2>2 DEF Put
  <2>4. /\ ui' = ui \/ (ui' = Ready /\ (ui = Ready \/ ui = At(c, "held")))
        /\ d # c => SameUI(d)
    BY <1>1, <1>3, <2>1, Returned DEF CallInv
  <2>5. CASE d # c
    BY <1>1, <1>3, <2>1, <2>3, <2>4, <2>5, QueueUnchanged, Elsewhere
  <2>6. CASE d = c
    <3>1. SameQueue(c)
      BY <2>1, QueueUnchanged
    <3>2. ~ToShow(c)'
      BY <1>4, <2>4, <3>1, Distinct DEF ToShow, Drawing, SameQueue
    <3>3. OneShow(c)' /\ ui' # At(c, "display")
      BY <1>4, <2>4, <3>1, <3>2 DEF SameQueue, ToShow, Drawing
    <3>4. Open(c)' /\ Genuine(c)' /\ Earned(c)' /\ Holding(c)' /\ Withdrawn(c)'
      BY <1>1, <1>4, <2>3, <3>2 DEF Open, Genuine, Earned, Holding, Withdrawn
    <3>5. DrawnOnce(c)'
      BY <1>1, <1>4, <2>3, <3>2, <3>3 DEF DrawnOnce, ToShow
    <3>. QED
      BY <2>6, <3>4, <3>5 DEF CallInv
  <2>. QED
    BY <2>5, <2>6
<1>6. CASE c \notin NoWin /\ ~ctxDone[c]
  <2>1. /\ pc' = Put(pc, c, "arm") /\ result' = result
        /\ queue' = Append(queue, Closure(c, "show"))
        /\ ui' = IF c \in OnUI THEN At(c, "held") ELSE ui
    BY <1>6 DEF Confirm
  <2>2. pc'[c] = "arm" /\ (d # c => pc'[d] = pc[d])
    BY <1>2, <2>1 DEF Put
  <2>3. Closure(c, "show") \in Closures
    BY DEF Closure, Closures
  <2>4. CASE d # c
    <3>1. Closure(c, "show") # Closure(d, "show") /\ Closure(c, "show") # Closure(d, "hide")
      BY <2>4 DEF Closure
    <3>2. SameQueue(d)
      BY <2>1, <2>3, <3>1, Appended DEF SameQueue
    <3>3. SameUI(d)
      BY <1>1, <2>1, <2>4 DEF SameUI, At, Ready
    <3>. QED
      BY <1>1, <1>3, <2>1, <2>2, <2>4, <3>2, <3>3, Elsewhere
  <2>5. CASE d = c
    <3>1. /\ ui' # At(c, "show") /\ ui' # At(c, "store") /\ ui' # At(c, "display")
          /\ ui' # At(c, "hide") /\ ui' # At(c, "yes") /\ ui' # At(c, "no")
          /\ c \in OnUI => ui' = At(c, "held")
      BY <1>4, <2>1 DEF ToShow, Drawing, At
    <3>2. ~In(c, "hide")' /\ OneShow(c)'
      <4>1. Closure(c, "show") # Closure(c, "hide")
        BY DEF Closure
      <4>. QED
        BY <1>4, <2>1, <2>3, <4>1, Appended DEF ToShow
    <3>3. Open(c)' /\ Genuine(c)' /\ Earned(c)' /\ Holding(c)' /\ Withdrawn(c)'
      BY <1>1, <1>4, <2>1, <2>2, <3>1, <3>2 DEF Open, Genuine, Earned, Holding, Withdrawn
    <3>4. DrawnOnce(c)'
      BY <1>1, <1>4, <2>2, <3>1, <3>2 DEF DrawnOnce, Drawing
    <3>. QED
      BY <2>5, <3>3, <3>4 DEF CallInv
  <2>. QED
    BY <2>4, <2>5
<1>. QED
  BY <1>5, <1>6

\* A step by which calls wait, or contexts and watchdogs end, keeps the invariant.
LEMMA InvWaiting ==
  ASSUME NEW d \in Calls, CallInv(d),
         UNCHANGED <<result, answer, shown, visible, said, queue, ui>>,
         \/ pc'[d] = pc[d]
         \/ pc[d] \notin {"idle", "done"} /\ pc'[d] \notin {"idle", "done"},
         pc'[d] = "withdraw" => ctxDone'[d]
  PROVE  CallInv(d)'
<1>1. SameQueue(d)
  BY QueueUnchanged
<1>2. ToShow(d)' <=> ToShow(d)
  BY <1>1 DEF ToShow, Drawing, SameQueue
<1>3. Open(d)' /\ Genuine(d)' /\ Earned(d)' /\ Holding(d)' /\ Withdrawn(d)'
  BY <1>1, <1>2 DEF CallInv, Open, Genuine, Earned, Holding, Withdrawn, SameQueue
<1>4. DrawnOnce(d)'
  BY <1>1, <1>2 DEF CallInv, DrawnOnce, Drawing, SameQueue
<1>. QED
  BY <1>3, <1>4 DEF CallInv

\* A call that returns what was said, or after it has asked for its dialog to
\* be hidden, keeps the invariant.
LEMMA InvReturn ==
  ASSUME IInv, NEW c \in Calls, NEW r \in {"yes", "no", "ctx", "prompt"}, NEW d \in Calls,
         Return(c, r), pc[c] \notin {"idle", "done"},
         UNCHANGED <<ctxDone, shown, visible, said>>,
         d # c => answer'[d] = answer[d],
         queue' = queue \/ queue' = Append(queue, Closure(c, "hide")),
         r \in {"yes", "no"} => said[c] = r,
         r = "ctx" => queue' = Append(queue, Closure(c, "hide"))
  PROVE  CallInv(d)'
<1>1. /\ TypeOK /\ CallInv(c) /\ CallInv(d)
      /\ pc \in [Calls -> {"idle", "arm", "select", "withdraw", "expire", "done"}]
      /\ result \in [Calls -> {"none", "yes", "no", "ctx", "prompt"}]
  BY DEF IInv, TypeOK
<1>2. /\ pc'[c] = "done" /\ result'[c] = r
      /\ d # c => pc'[d] = pc[d] /\ result'[d] = result[d]
  BY <1>1 DEF Return, Put
<1>3. /\ ui' = ui \/ (ui' = Ready /\ (ui = Ready \/ ui = At(c, "held")))
      /\ d # c => SameUI(d)
  BY <1>1, Returned DEF CallInv
<1>4. Closure(c, "hide") \in Closures /\ Closure(c, "hide") # Closure(c, "show")
  BY DEF Closure, Closures
<1>5. CASE d # c
  <2>1. Closure(c, "hide") # Closure(d, "show") /\ Closure(c, "hide") # Closure(d, "hide")
    BY <1>5 DEF Closure
  <2>2. SameQueue(d)
    <3>1. CASE queue' = queue
      BY <3>1, QueueUnchanged
    <3>2. CASE queue' = Append(queue, Closure(c, "hide"))
      BY <1>1, <1>4, <2>1, <3>2, Appended DEF SameQueue
    <3>. QED
      BY <3>1, <3>2
  <2>. QED
    BY <1>1, <1>2, <1>3, <1>5, <2>2, Elsewhere
<1>6. CASE d = c
  <2>1. /\ In(c, "show")' <=> In(c, "show")
        /\ OneShow(c) => OneShow(c)'
        /\ r = "ctx" => HideLast(c)'
    <3>1. CASE queue' = queue
      BY <3>1, <1>1, <1>4, QueueUnchanged, Appended DEF SameQueue
    <3>2. CASE queue' = Append(queue, Closure(c, "hide"))
      BY <1>1, <1>4, <3>2, Appended
    <3>. QED
      BY <3>1, <3>2
  <2>2. Drawing(c)' <=> Drawing(c)
    BY <1>3 DEF Drawing, At, Ready
  <2>3. ui' = At(c, "display") => ui = At(c, "display")
    BY <1>3 DEF At, Ready
  <2>4. ToShow(c)' <=> ToShow(c)
    BY <2>1, <2>2 DEF ToShow
  <2>5. Open(c)' /\ Genuine(c)' /\ Earned(c)' /\ Holding(c)' /\ Withdrawn(c)'
    BY <1>2, <2>1 DEF Open, Genuine, Earned, Holding, Withdrawn
  <2>6. DrawnOnce(c)'
    BY <1>1, <1>2, <2>1, <2>2, <2>3, <2>4 DEF CallInv, DrawnOnce
  <2>. QED
    BY <1>6, <2>5, <2>6 DEF CallInv
<1>. QED
  BY <1>5, <1>6

\* Each step of a calling goroutine, its context and its watchdog keeps the invariant.
LEMMA InvCall ==
  ASSUME IInv, NEW c \in Calls, CallStep(c) \/ CtxEnds(c) \/ Fire(c), NEW d \in Calls
  PROVE  CallInv(d)'
<1>1. /\ TypeOK /\ CallInv(c) /\ CallInv(d)
      /\ pc \in [Calls -> {"idle", "arm", "select", "withdraw", "expire", "done"}]
      /\ ctxDone \in [Calls -> BOOLEAN] /\ answer \in [Calls -> {"empty", "yes", "no"}]
  BY DEF IInv, TypeOK
<1>2. pc[d] = "withdraw" => ctxDone[d]
  BY <1>1 DEF CallInv, Earned
<1>3. CASE Arm(c)
  BY <1>1, <1>2, <1>3, InvWaiting DEF Arm, Put, atomics
<1>4. CASE TakeDone(c)
  BY <1>1, <1>2, <1>4, InvWaiting DEF TakeDone, Put
<1>5. CASE TakeWatchdog(c)
  BY <1>1, <1>2, <1>5, InvWaiting DEF TakeWatchdog, Put, atomics
<1>6. CASE CtxEnds(c)
  BY <1>1, <1>2, <1>6, InvWaiting DEF CtxEnds, Put, atomics
<1>7. CASE Fire(c)
  BY <1>1, <1>2, <1>7, InvWaiting DEF Fire, atomics
<1>8. CASE TakeAnswer(c)
  <2>1. /\ pc[c] = "select" /\ answer[c] \in {"yes", "no"} /\ Return(c, answer[c])
        /\ answer' = Put(answer, c, "empty")
        /\ UNCHANGED <<ctxDone, shown, visible, said, queue>>
    BY <1>1, <1>8 DEF TakeAnswer, atomics
  <2>2. answer[c] = said[c]
    BY <1>1, <2>1 DEF CallInv, Genuine
  <2>3. d # c => answer'[d] = answer[d]
    BY <1>1, <2>1 DEF Put
  <2>. QED
    BY <2>1, <2>2, <2>3, InvReturn
<1>9. CASE Withdraw(c)
  BY <1>9, InvReturn DEF Withdraw, atomics
<1>10. CASE Expire(c)
  BY <1>10, InvReturn DEF Expire
<1>. QED
  BY <1>3, <1>4, <1>5, <1>6, <1>7, <1>8, <1>9, <1>10 DEF CallStep

\* Each step of the show closure keeps the invariant.
LEMMA InvShow ==
  ASSUME IInv, NEW c \in Calls, ShowChecks(c) \/ ShowStores(c) \/ ShowDisplays(c), NEW d \in Calls
  PROVE  CallInv(d)'
<1>1. /\ TypeOK /\ CallInv(c) /\ CallInv(d)
      /\ shown \in [Calls -> BOOLEAN] /\ visible \in [Calls -> BOOLEAN]
  BY DEF IInv, TypeOK
<1>2. /\ Drawing(c) /\ UNCHANGED <<pc, ctxDone, result, answer, said, queue>>
      /\ ui' = Ready \/ ui' = At(c, "store") \/ ui' = At(c, "display")
  BY DEF ShowChecks, ShowStores, ShowDisplays, Drawing, atomics
<1>3. /\ ui = At(c, "store") \/ shown' = shown
      /\ ui = At(c, "display") \/ visible' = visible
      /\ ui = At(c, "store") => shown' = Put(shown, c, TRUE) /\ ui' = At(c, "display")
      /\ ui = At(c, "display") => visible' = Put(visible, c, TRUE) /\ ui' = Ready
      /\ ui = At(c, "show") => ui' # At(c, "display")
  <2>1. CASE ShowChecks(c)
    BY <2>1 DEF ShowChecks, atomics, At, Ready
  <2>2. CASE ShowStores(c)
    BY <2>2 DEF ShowStores, At, Ready
  <2>3. CASE ShowDisplays(c)
    BY <2>3 DEF ShowDisplays, atomics, At, Ready
  <2>. QED
    BY <2>1, <2>2, <2>3
<1>4. SameQueue(d) /\ SameQueue(c)
  BY <1>2, QueueUnchanged
<1>5. CASE d # c
  <2>1. SameUI(d)
    BY <1>2, <1>5 DEF SameUI, Drawing, At, Ready
  <2>2. shown'[d] = shown[d] /\ visible'[d] = visible[d]
    BY <1>1, <1>3, <1>5 DEF Put
  <2>. QED
    BY <1>1, <1>2, <1>4, <2>1, <2>2, Elsewhere
<1>6. CASE d = c
  <2>1. /\ ui # At(c, "held") /\ ui # Ready
        /\ ui' # At(c, "hide") /\ ui' # At(c, "yes") /\ ui' # At(c, "no") /\ ui' # At(c, "show")
    BY <1>2 DEF Drawing, At, Ready
  <2>2. /\ ~In(c, "show")' /\ pc[c] # "idle" /\ ~visible[c] /\ said[c] = "nothing" /\ OneShow(c)'
        /\ result[c] = "ctx" => HideLast(c)'
    BY <1>1, <1>2, <1>4, <2>1 DEF CallInv, DrawnOnce, ToShow, Withdrawn, SameQueue, Drawing, At
  <2>3. Open(c)' /\ Genuine(c)' /\ Earned(c)' /\ Holding(c)' /\ Withdrawn(c)'
    BY <1>1, <1>2, <1>4, <2>1, <2>2
       DEF CallInv, Open, Genuine, Earned, Holding, Withdrawn, SameQueue
  <2>4. CASE ui = At(c, "display")
    <3>1. shown[c] /\ shown' = shown /\ ~Drawing(c)'
      BY <1>1, <1>3, <2>4 DEF CallInv, DrawnOnce, Drawing, At, Ready
    <3>2. DrawnOnce(c)'
      BY <1>2, <2>2, <3>1 DEF DrawnOnce, ToShow, Drawing
    <3>. QED
      BY <1>6, <2>3, <3>2 DEF CallInv
  <2>5. CASE ui # At(c, "display")
    <3>1. ~visible'[c] /\ (ui' = At(c, "display") => shown'[c])
      BY <1>1, <1>2, <1>3, <2>2, <2>5 DEF Drawing, Put
    <3>2. DrawnOnce(c)'
      BY <1>2, <2>2, <3>1 DEF DrawnOnce
    <3>. QED
      BY <1>6, <2>3, <3>2 DEF CallInv
  <2>. QED
    BY <2>4, <2>5
<1>. QED
  BY <1>5, <1>6

\* The hide closure keeps the invariant: a call that still waits is never hidden.
LEMMA InvHide ==
  ASSUME IInv, NEW c \in Calls, HideRuns(c), NEW d \in Calls
  PROVE  CallInv(d)'
<1>1. /\ TypeOK /\ CallInv(c) /\ CallInv(d)
      /\ shown \in [Calls -> BOOLEAN] /\ visible \in [Calls -> BOOLEAN]
  BY DEF IInv, TypeOK
<1>2. /\ ui = At(c, "hide") /\ UNCHANGED <<pc, ctxDone, result, answer, shown, said, queue>>
      /\ ui' = Ready \/ ui' = At(c, "no")
      /\ \/ shown[c] /\ visible' = Put(visible, c, FALSE)
         \/ ~shown[c] /\ visible' = visible
  BY DEF HideRuns, atomics
<1>3. SameQueue(d) /\ SameQueue(c)
  BY <1>2, QueueUnchanged
<1>4. CASE d # c
  <2>1. SameUI(d)
    BY <1>2, <1>4 DEF SameUI, At, Ready
  <2>2. visible'[d] = visible[d]
    BY <1>1, <1>2, <1>4 DEF Put
  <2>. QED
    BY <1>1, <1>2, <1>3, <2>1, <2>2, Elsewhere
<1>5. CASE d = c
  <2>1. pc[c] = "done"
    BY <1>1, <1>2 DEF CallInv, Genuine
  <2>2. ~visible'[c]
    BY <1>1, <1>2 DEF CallInv, DrawnOnce, Put
  <2>3. ~Drawing(c) /\ ~Drawing(c)' /\ ui' # At(c, "display")
    BY <1>2 DEF Drawing, At, Ready
  <2>4. ToShow(c)' <=> ToShow(c)
    BY <1>3, <2>3 DEF ToShow, SameQueue
  <2>5. Open(c)' /\ Genuine(c)' /\ Earned(c)' /\ Holding(c)'
    BY <1>1, <1>2, <2>1 DEF CallInv, Open, Genuine, Earned, Holding
  <2>6. DrawnOnce(c)'
    BY <1>1, <1>2, <1>3, <2>2, <2>3, <2>4 DEF CallInv, DrawnOnce, SameQueue
  <2>7. Withdrawn(c)'
    BY <1>1, <1>2, <1>3, <2>2, <2>4 DEF CallInv, Withdrawn, SameQueue
  <2>. QED
    BY <1>5, <2>5, <2>6, <2>7 DEF CallInv
<1>. QED
  BY <1>4, <1>5

\* A tap keeps the invariant: it is the first answer of its call.
LEMMA InvTap ==
  ASSUME IInv, NEW c \in Calls, NEW v \in {"yes", "no"}, Tap(c, v), NEW d \in Calls
  PROVE  CallInv(d)'
<1>1. /\ TypeOK /\ CallInv(c) /\ CallInv(d)
      /\ visible \in [Calls -> BOOLEAN] /\ said \in [Calls -> {"nothing", "yes", "no"}]
      /\ answer \in [Calls -> {"empty", "yes", "no"}]
  BY DEF IInv, TypeOK
<1>2. /\ ui = Ready /\ visible[c] /\ UNCHANGED <<pc, ctxDone, result, answer, shown, queue>>
      /\ ui' = At(c, v) /\ visible' = Put(visible, c, FALSE) /\ said' = Put(said, c, v)
  BY DEF Tap, atomics
<1>3. SameQueue(d) /\ SameQueue(c)
  BY <1>2, QueueUnchanged
<1>4. CASE d # c
  <2>1. SameUI(d)
    BY <1>2, <1>4 DEF SameUI, At, Ready
  <2>2. visible'[d] = visible[d] /\ said'[d] = said[d]
    BY <1>1, <1>2, <1>4 DEF Put
  <2>. QED
    BY <1>1, <1>2, <1>3, <2>1, <2>2, Elsewhere
<1>5. CASE d = c
  <2>1. ~visible'[c] /\ said'[c] = v
    BY <1>1, <1>2 DEF Put
  <2>2. pc[c] # "idle" /\ said[c] = "nothing" /\ ~ToShow(c) /\ OneShow(c)
    BY <1>1, <1>2 DEF CallInv, DrawnOnce
  <2>3. /\ ~Drawing(c)' /\ ui' # At(c, "display") /\ ui' # At(c, "hide")
        /\ ui' = At(c, "yes") => v = "yes"
        /\ ui' = At(c, "no") => v = "no"
    BY <1>2 DEF Drawing, At
  <2>4. ~ToShow(c)'
    BY <1>3, <2>2, <2>3 DEF ToShow, SameQueue
  <2>5. DrawnOnce(c)'
    BY <1>2, <1>3, <2>1, <2>2, <2>3, <2>4 DEF DrawnOnce, SameQueue
  <2>6. Genuine(c)'
    BY <1>1, <1>2, <1>3, <2>1, <2>2, <2>3 DEF CallInv, Genuine, SameQueue
  <2>7. ui # At(c, "held")
    BY <1>2 DEF At, Ready
  <2>8. Open(c)' /\ Earned(c)' /\ Holding(c)'
    BY <1>1, <1>2, <2>2, <2>7 DEF CallInv, Open, Earned, Holding
  <2>9. Withdrawn(c)'
    BY <2>1, <2>4 DEF Withdrawn
  <2>. QED
    BY <1>5, <2>5, <2>6, <2>8, <2>9 DEF CallInv
<1>. QED
  BY <1>4, <1>5

\* The dialog's callback keeps the invariant: it sends what was said.
LEMMA InvReply ==
  ASSUME IInv, NEW c \in Calls, Reply(c), NEW d \in Calls
  PROVE  CallInv(d)'
<1>1. /\ TypeOK /\ CallInv(c) /\ CallInv(d)
      /\ answer \in [Calls -> {"empty", "yes", "no"}]
  BY DEF IInv, TypeOK
<1>2. /\ UNCHANGED <<pc, ctxDone, result, shown, visible, said, queue>> /\ ui' = Ready
      /\ answer' = answer \/ answer' = Put(answer, c, ui.at)
  BY DEF Reply, atomics
<1>3. PICK v \in {"yes", "no"} : ui = At(c, v)
  BY DEF Reply
<1>4. SameQueue(d) /\ SameQueue(c)
  BY <1>2, QueueUnchanged
<1>5. ui.at = v
  BY <1>3 DEF At
<1>6. CASE d # c
  <2>1. SameUI(d)
    BY <1>2, <1>3, <1>6 DEF SameUI, At, Ready
  <2>2. answer'[d] = answer[d]
    BY <1>1, <1>2, <1>6 DEF Put
  <2>. QED
    BY <1>1, <1>2, <1>4, <2>1, <2>2, Elsewhere
<1>7. CASE d = c
  <2>1. /\ ~Drawing(c) /\ ~Drawing(c)' /\ ui # At(c, "held") /\ ui # At(c, "hide")
        /\ ui' # At(c, "hide") /\ ui' # At(c, "yes") /\ ui' # At(c, "no") /\ ui' # At(c, "display")
    BY <1>2, <1>3 DEF Drawing, At, Ready
  <2>2. ToShow(c)' <=> ToShow(c)
    BY <1>4, <2>1 DEF ToShow, SameQueue
  <2>3. answer'[c] = answer[c] \/ answer'[c] = v
    BY <1>1, <1>2, <1>5 DEF Put
  <2>4. Genuine(c)'
    BY <1>1, <1>2, <1>3, <1>4, <2>1, <2>3 DEF CallInv, Genuine, SameQueue
  <2>5. Open(c)' /\ Earned(c)' /\ Holding(c)'
    BY <1>1, <1>2, <2>1 DEF CallInv, Open, Earned, Holding
  <2>6. DrawnOnce(c)'
    BY <1>1, <1>2, <1>4, <2>1, <2>2 DEF CallInv, DrawnOnce, SameQueue
  <2>7. Withdrawn(c)'
    BY <1>1, <1>2, <1>4, <2>1, <2>2 DEF CallInv, Withdrawn, SameQueue
  <2>. QED
    BY <1>7, <2>4, <2>5, <2>6, <2>7 DEF CallInv
<1>. QED
  BY <1>6, <1>7

\* Taking the next closure keeps the invariant: closures run in their order.
LEMMA InvTake ==
  ASSUME IInv, Take, NEW d \in Calls
  PROVE  CallInv(d)'
<1>. DEFINE c == Head(queue).call
            o == Head(queue).op
<1>1. /\ TypeOK /\ CallInv(d) /\ queue \in Seq(Closures)
  BY DEF IInv, TypeOK
<1>2. /\ UNCHANGED <<pc, ctxDone, result, answer, shown, visible, said>>
      /\ ui = Ready /\ ui' = At(c, o) /\ queue # << >> /\ queue' = Tail(queue)
  BY DEF Take, atomics
<1>3. Head(queue) \in Closures
  BY <1>1, <1>2
<1>4. Head(queue) = Closure(c, o) /\ o \in {"show", "hide"}
  BY <1>3 DEF Closure, Closures
<1>5. /\ In(d, "show") <=> In(d, "show")' \/ Head(queue) = Closure(d, "show")
      /\ In(d, "hide") <=> In(d, "hide")' \/ Head(queue) = Closure(d, "hide")
      /\ OneShow(d) => OneShow(d)' /\ (Head(queue) = Closure(d, "show") => ~In(d, "show")')
      /\ HideLast(d) => HideLast(d)' \/ (Head(queue) = Closure(d, "hide") /\ ~In(d, "show"))
  BY <1>1, <1>2, Taken
<1>. HIDE DEF c, o
<1>6. ~Drawing(d) /\ ui # At(d, "held")
  BY <1>2 DEF Drawing, At, Ready
<1>7. CASE d # c
  <2>1. Head(queue) # Closure(d, "show") /\ Head(queue) # Closure(d, "hide")
    BY <1>4, <1>7 DEF Closure
  <2>2. SameQueue(d)
    BY <1>5, <2>1 DEF SameQueue
  <2>3. SameUI(d)
    BY <1>2, <1>7 DEF SameUI, At, Ready
  <2>. QED
    BY <1>1, <1>2, <2>2, <2>3, Elsewhere
<1>8. CASE d = c /\ o = "show"
  <2>1. /\ Head(queue) = Closure(d, "show") /\ Head(queue) # Closure(d, "hide")
        /\ ui' = At(d, "show")
    BY <1>2, <1>4, <1>8 DEF Closure
  <2>2. /\ ui' # At(d, "hide") /\ ui' # At(d, "yes") /\ ui' # At(d, "no") /\ ui' # At(d, "display")
    BY <2>1 DEF At
  <2>3. ToShow(d) /\ OneShow(d)
    BY <1>1, <1>5, <2>1 DEF ToShow, CallInv, DrawnOnce
  <2>4. DrawnOnce(d)'
    BY <1>1, <1>2, <1>5, <2>1, <2>2, <2>3 DEF CallInv, DrawnOnce
  <2>5. ui # At(d, "hide")
    BY <1>2 DEF At, Ready
  <2>6. Withdrawn(d)'
    BY <1>1, <1>2, <1>5, <2>1, <2>3, <2>5 DEF CallInv, Withdrawn
  <2>7. Open(d)' /\ Genuine(d)' /\ Earned(d)' /\ Holding(d)'
    BY <1>1, <1>2, <1>5, <1>6, <2>2 DEF CallInv, Open, Genuine, Earned, Holding
  <2>. QED
    BY <2>4, <2>6, <2>7 DEF CallInv
<1>9. CASE d = c /\ o = "hide"
  <2>1. /\ Head(queue) = Closure(d, "hide") /\ Head(queue) # Closure(d, "show")
        /\ ui' = At(d, "hide")
    BY <1>2, <1>4, <1>9 DEF Closure
  <2>2. ~Drawing(d)' /\ ui' # At(d, "display")
    BY <2>1 DEF Drawing, At
  <2>3. pc[d] = "done"
    BY <1>1, <1>5, <2>1 DEF CallInv, Genuine
  <2>4. ToShow(d)' <=> ToShow(d)
    BY <1>5, <1>6, <2>1, <2>2 DEF ToShow
  <2>5. ToShow(d)' => In(d, "show")
    BY <1>6, <2>4 DEF ToShow
  <2>6. ui # At(d, "hide")
    BY <1>2 DEF At, Ready
  <2>7. DrawnOnce(d)'
    BY <1>1, <1>2, <1>5, <2>2, <2>4 DEF CallInv, DrawnOnce
  <2>8. Withdrawn(d)'
    BY <1>1, <1>2, <1>5, <2>1, <2>4, <2>5, <2>6 DEF CallInv, Withdrawn
  <2>9. Open(d)' /\ Genuine(d)' /\ Earned(d)' /\ Holding(d)'
    BY <1>1, <1>2, <2>3 DEF CallInv, Open, Genuine, Earned, Holding
  <2>. QED
    BY <2>7, <2>8, <2>9 DEF CallInv
<1>. QED
  BY <1>4, <1>7, <1>8, <1>9

\* Every step keeps the invariant.
LEMMA InvNext == IInv /\ [Next]_vars => IInv'
<1>. SUFFICES ASSUME IInv, [Next]_vars PROVE IInv'
  OBVIOUS
<1>1. TypeOK'
  BY TypeNext DEF IInv
<1>2. ASSUME NEW d \in Calls PROVE CallInv(d)'
  <2>1. ASSUME NEW c \in Calls, Confirm(c) PROVE CallInv(d)'
    BY <2>1, InvConfirm
  <2>2. ASSUME NEW c \in Calls, CallStep(c) \/ CtxEnds(c) \/ Fire(c) PROVE CallInv(d)'
    BY <2>2, InvCall
  <2>3. ASSUME NEW c \in Calls, UIStep(c) PROVE CallInv(d)'
    BY <2>3, InvShow, InvHide, InvReply DEF UIStep
  <2>4. ASSUME NEW c \in Calls, Person(c) PROVE CallInv(d)'
    BY <2>4, InvTap DEF Person
  <2>5. CASE Take
    BY <2>5, InvTake
  <2>6. CASE UNCHANGED vars
    <3>1. CallInv(d)
      BY DEF IInv
    <3>2. UNCHANGED <<pc, ctxDone, result, answer, shown, visible, said, queue, ui>>
      BY <2>6 DEF vars, atomics
    <3>3. pc[d] = "withdraw" => ctxDone[d]
      BY <3>1 DEF CallInv, Earned
    <3>. QED
      BY <3>1, <3>2, <3>3, InvWaiting
  <2>. QED
    BY <2>1, <2>2, <2>3, <2>4, <2>5, <2>6 DEF Next
<1>. QED
  BY <1>1, <1>2 DEF IInv

\* The inductive invariant of Confirm.
THEOREM Invariance == Spec => []IInv
  BY InvInit, InvNext, PTL DEF Spec

-----------------------------------------------------------------------------
\* A call that ended because it was answered or its context was done leaves no
\* dialog behind (prompter.go, the ctx.Done case), however many calls share
\* the Fyne goroutine.
THEOREM NoDialogLeft == Spec => []AnsweredLeavesNoDialog
<1>1. IInv => AnsweredLeavesNoDialog
  <2>. SUFFICES ASSUME IInv, NEW c \in Calls, result[c] \in {"yes", "no", "ctx"}, Unwound(c)
                PROVE  ~visible[c]
    BY DEF AnsweredLeavesNoDialog
  <2>1. CallInv(c)
    BY DEF IInv
  <2>2. CASE result[c] \in {"yes", "no"}
    BY <2>1, <2>2 DEF CallInv, Earned, DrawnOnce
  <2>3. CASE result[c] = "ctx"
    <3>1. ~HideLast(c)
      BY DEF Unwound, HideLast, Closure
    <3>2. ui # At(c, "hide")
      BY DEF Unwound, At, Ready
    <3>. QED
      BY <2>1, <2>3, <3>1, <3>2 DEF CallInv, Withdrawn
  <2>. QED
    BY <2>2, <2>3
<1>. QED
  BY Invariance, <1>1, PTL

-----------------------------------------------------------------------------
\* Refinement: at first, and at every step, Confirm does what Consent allows.
LEMMA ConsentInit == Init => Asked!Init
  BY DEF Init, Asked!Init

\* A return of c in the code is one of the specification's.
LEMMA ConsentReturn ==
  ASSUME IInv, NEW c \in Calls, NEW r, Return(c, r), pc[c] # "done",
         r = "prompt" \/ (r # "nothing" /\ r = said[c]) \/ (r = "ctx" /\ ctxDone[c]),
         UNCHANGED <<said, ctxDone>>
  PROVE  Asked!Return(c)
<1>1. result[c] = "none"
  BY DEF IInv, CallInv, Open
<1>2. result' = [result EXCEPT ![c] = r]
  BY DEF Return, Put
<1>3. r # "nothing" /\ r \in {"prompt"} \cup {said[c]} \cup (IF ctxDone[c] THEN {"ctx"} ELSE {})
  OBVIOUS
<1>. QED
  BY <1>1, <1>2, <1>3 DEF Asked!Return

LEMMA ConsentNext == IInv /\ [Next]_vars => [Asked!Next]_(Asked!vars)
<1>. SUFFICES ASSUME IInv, [Next]_vars PROVE [Asked!Next]_(Asked!vars)
  OBVIOUS
<1>. USE DEF Asked!vars
<1>1. TypeOK /\ \A c \in Calls : CallInv(c)
  BY DEF IInv
<1>2. ASSUME NEW c \in Calls, Confirm(c) PROVE [Asked!Next]_(Asked!vars)
  <2>1. UNCHANGED <<said, ctxDone>> /\ pc[c] # "done"
    BY <1>2 DEF Confirm
  <2>2. CASE c \in NoWin
    BY <1>2, <2>1, <2>2, ConsentReturn DEF Confirm, Asked!Next
  <2>3. CASE c \notin NoWin /\ ctxDone[c]
    BY <1>2, <2>1, <2>3, ConsentReturn DEF Confirm, Asked!Next
  <2>4. CASE c \notin NoWin /\ ~ctxDone[c]
    BY <1>2, <2>1, <2>4 DEF Confirm
  <2>. QED
    BY <2>2, <2>3, <2>4
<1>3. ASSUME NEW c \in Calls, CallStep(c) PROVE [Asked!Next]_(Asked!vars)
  <2>1. CASE TakeAnswer(c)
    <3>1. answer[c] \in {"yes", "no"} /\ pc[c] # "done"
      BY <1>1, <1>3, <2>1 DEF TakeAnswer, TypeOK
    <3>2. answer[c] = said[c]
      BY <1>1, <3>1 DEF CallInv, Genuine
    <3>. QED
      BY <2>1, <3>1, <3>2, ConsentReturn DEF TakeAnswer, Asked!Next
  <2>2. CASE Withdraw(c)
    <3>1. ctxDone[c]
      BY <1>1, <2>2 DEF Withdraw, CallInv, Earned
    <3>. QED
      BY <2>2, <3>1, ConsentReturn DEF Withdraw, Asked!Next
  <2>3. CASE Expire(c)
    BY <2>3, ConsentReturn DEF Expire, Asked!Next
  <2>4. CASE Arm(c) \/ TakeDone(c) \/ TakeWatchdog(c)
    BY <2>4 DEF Arm, TakeDone, TakeWatchdog
  <2>. QED
    BY <1>3, <2>1, <2>2, <2>3, <2>4 DEF CallStep
<1>4. ASSUME NEW c \in Calls, UIStep(c) \/ Fire(c) PROVE [Asked!Next]_(Asked!vars)
  BY <1>4 DEF UIStep, ShowChecks, ShowStores, ShowDisplays, HideRuns, Reply, Fire
<1>5. ASSUME NEW c \in Calls, NEW v \in {"yes", "no"}, Tap(c, v) PROVE Asked!Say(c)
  <2>1. said[c] = "nothing"
    BY <1>1, <1>5 DEF Tap, CallInv, DrawnOnce
  <2>. QED
    BY <1>5, <2>1 DEF Tap, Put, Asked!Say
<1>6. ASSUME NEW c \in Calls, CtxEnds(c) PROVE Asked!Withdraw(c)
  BY <1>6 DEF CtxEnds, Put, Asked!Withdraw
<1>7. CASE Take
  BY <1>7 DEF Take
<1>8. CASE UNCHANGED vars
  BY <1>8 DEF vars
<1>. QED
  BY <1>2, <1>3, <1>4, <1>5, <1>6, <1>7, <1>8 DEF Next, Person, Asked!Next

\* Permission is never made up: Confirm implements Consent for any number of
\* calls in flight (prompter.go, "a refusal, not a silent yes").
THEOREM Refinement == Spec => ImplementsConsent
<1>1. IInv /\ [Next]_vars => [Asked!Next]_(Asked!vars)
  BY ConsentNext
<1>. QED
  BY Invariance, ConsentInit, <1>1, PTL DEF Spec, ImplementsConsent, Asked!Spec

=============================================================================
