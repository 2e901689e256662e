----------------------------- MODULE DemoProofs ------------------------------
(***************************************************************************)
(* Machine-checked proofs about module DemoWindow, for any errors the      *)
(* updater and the launcher may end with, and any bound on the works.      *)
(*                                                                         *)
(* The screen is right because it is busy: while a work is under way no    *)
(* button is on, so what the work found is still so when it reports. IInv  *)
(* says that, and what may be relied on of the work that is done.          *)
(***************************************************************************)
EXTENDS DemoWindow, SequenceTheorems, WellFoundedInduction, TLAPS

Tasks == [work: {"check", "install", "restart"}, rel: Release,
          at: {"work", "asked", "agreed", "declined", "done"},
          err: SUBSET Sentinels, res: {"none", "applied", "skipped", "nothing"}]

\* What holds of a work: a check that found a release found what is still on offer,
\* an install has a release, and when it has succeeded it is there.
Fits(t) ==
  /\ t.work = "check" /\ t.at = "done" /\ t.err = Nil /\ t.rel # NoRelease =>
       t.rel = [version |-> head, from |-> installed]
  /\ t.work = "install" => t.rel.version # None
  /\ t.work = "install" /\ t.at = "done" /\ t.err = Nil => installed = t.rel.version

Types ==
  /\ installed \in Version /\ pending \in Version
  /\ head \in {First, Second} /\ offered \in Release
  /\ checkOn \in BOOLEAN /\ installOn \in BOOLEAN /\ restartOn \in BOOLEAN

\* There is at most one work, and with it no button is on.
NotTwo ==
  /\ tasks = << >> \/ \E t \in Tasks : tasks = <<t>> /\ Fits(t)
  /\ checkOn <=> tasks = << >>
  /\ tasks # << >> => ~installOn /\ ~restartOn

IInv == Types /\ NotTwo /\ OfferFits /\ SeenIsReal /\ OfferCanBeMet

-----------------------------------------------------------------------------
\* A sequence of one element.
LEMMA Single ==
  ASSUME NEW t
  PROVE  /\ Append(<< >>, t) = <<t>> /\ <<t>> # << >> /\ Len(<<t>>) = 1 /\ <<t>>[1] = t
         /\ \A m : <<m>> = <<t>> => m = t
<1>1. Append(<< >>, t) = <<t>>
  OBVIOUS
<1>2. Len(<<t>>) = 1 /\ <<t>>[1] = t /\ Len(<< >>) = 0
  OBVIOUS
<1>3. ASSUME NEW m, <<m>> = <<t>>
      PROVE  m = t
  <2>1. <<m>>[1] = m
    OBVIOUS
  <2> QED
    BY <1>2, <1>3, <2>1
<1>4. <<t>> # << >>
  BY <1>2
<1> QED
  BY <1>1, <1>2, <1>3, <1>4

\* A step of a work is a step of the only one.
LEMMA OnlyTask ==
  ASSUME NotTwo, NEW i \in 1 .. Len(tasks)
  PROVE  /\ i = 1 /\ tasks[1] \in Tasks /\ tasks = <<tasks[1]>> /\ Fits(tasks[1])
         /\ ~checkOn /\ ~installOn /\ ~restartOn
<1>1. CASE tasks = << >>
  <2>1. Len(<< >>) = 0
    OBVIOUS
  <2> QED
    BY <1>1, <2>1
<1>2. ASSUME NEW t \in Tasks, tasks = <<t>>, Fits(t)
      PROVE  i = 1 /\ tasks[1] \in Tasks /\ tasks = <<tasks[1]>> /\ Fits(tasks[1])
  <2>1. Len(<<t>>) = 1 /\ <<t>>[1] = t
    OBVIOUS
  <2>2. i \in 1 .. 1
    BY <1>2, <2>1
  <2>3. tasks[1] = t
    BY <1>2, <2>1
  <2> QED
    BY <1>2, <2>2, <2>3
<1> QED
  BY <1>1, <1>2, Single DEF NotTwo

\* The end of the only work leaves none.
LEMMA LastOneOut ==
  ASSUME NotTwo, NEW i \in 1 .. Len(tasks), tasks' = RemoveAt(tasks, i)
  PROVE  tasks' = << >>
<1> DEFINE t == tasks[1]
<1>1. i = 1 /\ tasks = <<t>>
  BY OnlyTask
<1> HIDE DEF t
<1>2. Len(<<t>>) = 1 /\ SubSeq(<<t>>, 1, 0) = << >> /\ SubSeq(<<t>>, 2, 1) = << >>
  OBVIOUS
<1>3. tasks' = SubSeq(<<t>>, 1, 0) \o SubSeq(<<t>>, 2, 1)
  BY <1>1, <1>2 DEF RemoveAt
<1> QED
  BY <1>2, <1>3

\* What a work ends with is noted in it.
LEMMA WorksEnds ==
  ASSUME NotTwo, NEW i \in 1 .. Len(tasks), NEW rel \in Release, NEW err \in SUBSET Sentinels,
         NEW res \in {"none", "applied", "skipped", "nothing"}, Works(i, rel, err, res)
  PROVE  \E u \in Tasks : /\ tasks' = <<u>> /\ u.work = tasks[1].work /\ u.at = "done"
                          /\ u.rel = rel /\ u.err = err /\ u.res = res
<1> DEFINE t == tasks[1]
           u == [t EXCEPT !.at = "done", !.rel = rel, !.err = err, !.res = res]
<1>1. i = 1 /\ t \in Tasks /\ tasks = <<t>>
  BY OnlyTask
<1>2. /\ u \in Tasks /\ u.work = t.work /\ u.at = "done" /\ u.rel = rel /\ u.err = err
      /\ u.res = res
  BY <1>1 DEF Tasks
<1>3. tasks' = [tasks EXCEPT ![1] = u]
  BY <1>1 DEF Works
<1> HIDE DEF t, u
<1>4. [<<t>> EXCEPT ![1] = u] = <<u>>
  OBVIOUS
<1> QED
  BY <1>1, <1>2, <1>3, <1>4 DEF t

\* The constants of the releases.
LEMMA Versions ==
  /\ None \in Version /\ First \in Version /\ Second \in Version
  /\ First # None /\ Second # None /\ First # Second
  /\ NoRelease \in Release /\ Nil \in SUBSET Sentinels
BY DEF Version, None, First, Second, NoRelease, Release, Nil

\* Errors, in the sense of the assumption, are errors.
LEMMA ErrorsFail ==
  \A e \in CheckErrs \cup Refusals \cup Deferrals \cup StartErrs :
    e # Nil /\ e \in SUBSET Sentinels
<1>1. CheckErrs \cup Refusals \cup Deferrals \cup StartErrs \subseteq Failures
  BY DemoAssumption, Zenon
<1>2. ASSUME NEW e \in CheckErrs \cup Refusals \cup Deferrals \cup StartErrs
      PROVE  e \in SUBSET Sentinels /\ e # Nil
  <2>1. e \in Failures
    BY <1>1
  <2> QED
    BY <2>1 DEF Failures
<1> QED
  BY <1>2

\* What the labels can say.
LEMMA LabelsSay ==
  \A r \in Reads : \A a, b :
    Labels(r, a, b).installed \in {a, Unreadable} /\ Labels(r, a, b).pending \in {b, Unreadable}
<1>1. ASSUME NEW r \in Reads, NEW a, NEW b
      PROVE  /\ Labels(r, a, b).installed \in {a, Unreadable}
             /\ Labels(r, a, b).pending \in {b, Unreadable}
  <2> DEFINE x == IF "installed" \in r THEN a ELSE Unreadable
             y == IF "pending" \in r THEN b ELSE Unreadable
  <2>1. x \in {a, Unreadable} /\ y \in {b, Unreadable}
    OBVIOUS
  <2>2. Labels(r, a, b) = [installed |-> x, pending |-> y]
    BY DEF Labels
  <2> HIDE DEF x, y
  <2> QED
    BY <2>1, <2>2
<1> QED
  BY <1>1

-----------------------------------------------------------------------------
LEMMA InitInv == Init => IInv
<1> SUFFICES ASSUME Init
             PROVE  IInv
  OBVIOUS
<1>1. Types /\ NotTwo
  BY Versions DEF Init, Types, NotTwo
<1>2. OfferFits /\ OfferCanBeMet
  BY Versions DEF Init, OfferFits, OfferCanBeMet
<1>3. SeenIsReal
  BY DEF Init, SeenIsReal, Labels, None, Unreadable
<1> QED
  BY <1>1, <1>2, <1>3 DEF IInv

LEMMA ReopenKeeps ==
  ASSUME IInv, Reopen
  PROVE  IInv'
<1>1. Types' /\ NotTwo'
  <2>1. restartOn' \in BOOLEAN
    BY DEF Reopen
  <2> QED
    BY <2>1, Versions DEF Reopen, Types, NotTwo, IInv, disk
<1>2. OfferFits' /\ OfferCanBeMet'
  BY Versions DEF Reopen, OfferFits, OfferCanBeMet
<1>3. SeenIsReal'
  <2>1. PICK r \in Reads : seen' = Labels(r, installed', pending')
    BY DEF Reopen
  <2>2. restartOn' = (seen'.pending \notin {None, Unreadable})
    BY DEF Reopen
  <2> QED
    BY <2>1, <2>2, LabelsSay DEF SeenIsReal
<1> QED
  BY <1>1, <1>2, <1>3 DEF IInv

\* The three taps.
LEMMA TapKeeps ==
  ASSUME IInv, OnCheck \/ OnInstall \/ OnRestart
  PROVE  IInv'
<1>1. PICK work \in {"check", "install", "restart"}, rel \in Release :
        Launch(work, rel) /\ (work = "install" => rel.version # None) /\ tasks = << >>
  <2>1. CASE OnCheck
    BY <2>1, Versions DEF OnCheck, IInv, NotTwo
  <2>2. CASE OnInstall
    <3>1. offered.version = head /\ tasks = << >>
      BY <2>2 DEF OnInstall, IInv, OfferFits, NotTwo
    <3> QED
      BY <2>2, <3>1, Versions DEF OnInstall, IInv, Types
  <2>3. CASE OnRestart
    BY <2>3, Versions DEF OnRestart, IInv, NotTwo
  <2> QED
    BY <2>1, <2>2, <2>3
<1> DEFINE t == Task(work, rel)
<1>2. /\ t \in Tasks /\ t.at = "work" /\ t.work = work /\ t.rel = rel
      /\ tasks' = Append(<< >>, t)
  BY <1>1, Versions DEF Launch, Task, Tasks
<1> HIDE DEF t
<1>3. tasks' = <<t>> /\ tasks' # << >>
  BY <1>2, Single
<1>4. ~checkOn' /\ ~installOn' /\ ~restartOn' /\ UNCHANGED <<installed, pending, head, offered>>
  BY <1>1 DEF Launch, Disable, disk
<1>5. Types'
  BY <1>1, <1>4 DEF IInv, Types, Launch, Disable
<1>6. Fits(t)'
  BY <1>1, <1>2 DEF Fits
<1>7. NotTwo'
  BY <1>2, <1>3, <1>4, <1>6 DEF NotTwo
<1> QED
  BY <1>3, <1>4, <1>5, <1>7 DEF IInv, OfferFits, SeenIsReal, OfferCanBeMet

\* The works themselves.
LEMMA WorkKeeps ==
  ASSUME IInv, NEW i \in 1 .. Len(tasks), CheckWork(i) \/ InstallWork(i) \/ RestartWork(i)
  PROVE  IInv'
<1> DEFINE t == tasks[1]
<1>1. /\ i = 1 /\ t \in Tasks /\ tasks = <<t>> /\ Fits(t)
      /\ ~checkOn /\ ~installOn /\ ~restartOn
  BY OnlyTask DEF IInv
<1>2. t.rel \in Release /\ t.rel.version \in Version /\ installed \in Version
      /\ pending \in Version
  BY <1>1 DEF Tasks, Release, IInv, Types
<1>3. UNCHANGED <<head, offered, checkOn, installOn, restartOn>>
  BY DEF CheckWork, InstallWork, RestartWork, buttons
<1> HIDE DEF t
<1>4. PICK rel \in Release, err \in SUBSET Sentinels,
           res \in {"none", "applied", "skipped", "nothing"} :
        /\ Works(i, rel, err, res)
        /\ t.work = "check" => /\ installed' = installed
                               /\ (err = Nil /\ rel # NoRelease =>
                                     rel = [version |-> head, from |-> installed])
        /\ t.work = "install" => rel.version # None /\ (err = Nil => installed' = rel.version)
        /\ installed' \in Version /\ pending' \in Version
        /\ installed # None => installed' # None
  <2>1. CASE CheckWork(i)
    <3>1. t.work = "check" /\ UNCHANGED <<installed, pending>>
      BY <1>1, <2>1 DEF CheckWork, disk, t
    <3>2. CASE Works(i, IF head > installed THEN [version |-> head, from |-> installed]
                        ELSE NoRelease, Nil, "none")
      <4>1. CASE head > installed
        <5>1. [version |-> head, from |-> installed] \in Release
          BY <1>2, Versions DEF IInv, Types, Release
        <5> QED
          BY <1>2, <3>1, <3>2, <4>1, <5>1, Versions
      <4>2. CASE ~(head > installed)
        BY <1>2, <3>1, <3>2, <4>2, Versions
      <4> QED
        BY <4>1, <4>2
    <3>3. ASSUME NEW e \in CheckErrs, Works(i, NoRelease, e, "none")
          PROVE  \E rel \in Release, err \in SUBSET Sentinels :
                   Works(i, rel, err, "none") /\ rel = NoRelease
      BY <3>3, Versions, ErrorsFail
    <3>4. CASE \E e \in CheckErrs : Works(i, NoRelease, e, "none")
      BY <1>2, <3>1, <3>3, <3>4, Versions
    <3> QED
      BY <2>1, <3>2, <3>4 DEF CheckWork
  <2>2. CASE InstallWork(i)
    <3>1. t.work = "install" /\ t.rel.version # None
      BY <1>1, <2>2 DEF InstallWork, Fits, t
    <3>2. CASE /\ installed' = t.rel.version /\ pending' \in {pending, None}
               /\ Works(i, t.rel, Nil, "none")
      BY <1>2, <3>1, <3>2, Versions
    <3>3. CASE /\ pending' = t.rel.version /\ UNCHANGED installed
               /\ \E e \in Deferrals : Works(i, t.rel, e, "none")
      BY <1>2, <3>1, <3>3, ErrorsFail
    <3>4. CASE /\ UNCHANGED <<installed, pending>>
               /\ \E e \in Refusals : Works(i, t.rel, e, "none")
      BY <1>2, <3>1, <3>4, ErrorsFail
    <3> QED
      BY <1>1, <2>2, <3>2, <3>3, <3>4 DEF InstallWork, disk, t
  <2>3. CASE RestartWork(i)
    <3>1. t.work = "restart"
      BY <1>1, <2>3 DEF RestartWork, t
    <3>2. CASE \E res \in {"applied", "skipped", "nothing"} : Works(i, NoRelease, Nil, res)
               /\ pending' \in {pending, None}
               /\ (installed' = installed \/ (pending # None /\ installed' = pending))
      BY <1>2, <3>1, <3>2, Versions
    <3>3. CASE /\ pending' \in {pending, None} /\ UNCHANGED installed
               /\ \E e \in StartErrs : Works(i, NoRelease, e, "none")
      BY <1>2, <3>1, <3>3, ErrorsFail, Versions
    <3> QED
      BY <2>3, <3>2, <3>3 DEF RestartWork, disk
  <2> QED
    BY <2>1, <2>2, <2>3
<1>5. PICK u \in Tasks : /\ tasks' = <<u>> /\ u.work = t.work /\ u.at = "done"
                         /\ u.rel = rel /\ u.err = err
  BY <1>4, WorksEnds DEF IInv, t
<1>6. Fits(u)'
  BY <1>3, <1>4, <1>5 DEF Fits
<1>7. tasks' # << >>
  BY <1>5, Single
<1>8. NotTwo' /\ Types'
  BY <1>1, <1>3, <1>4, <1>5, <1>6, <1>7 DEF NotTwo, Types, IInv
<1> QED
  BY <1>1, <1>3, <1>4, <1>7, <1>8 DEF IInv, OfferFits, SeenIsReal, OfferCanBeMet

\* Asking and answering leave the work where it was, but for the question.
LEMMA AskKeeps ==
  ASSUME IInv, NEW i \in 1 .. Len(tasks), InstallAsks(i) \/ Answer(i)
  PROVE  IInv' /\ tasks' # << >> /\ tasks'[1].at # "done"
<1> DEFINE t == tasks[1]
<1>1. /\ i = 1 /\ t \in Tasks /\ tasks = <<t>> /\ Fits(t)
      /\ ~checkOn /\ ~installOn /\ ~restartOn
  BY OnlyTask DEF IInv
<1>2. UNCHANGED <<installed, pending, head, offered, checkOn, installOn, restartOn>>
  BY DEF InstallAsks, Answer, disk, buttons
<1>3. PICK at \in {"asked", "agreed", "declined"} : tasks' = [tasks EXCEPT ![1].at = at]
  BY <1>1 DEF InstallAsks, Answer
<1>4. PICK u \in Tasks : /\ u.at = at /\ u.work = t.work /\ u.rel = t.rel
                         /\ tasks' = [tasks EXCEPT ![1] = u]
  <2>1. [t EXCEPT !.at = at] \in Tasks
    BY <1>1 DEF Tasks
  <2> QED
    BY <1>1, <1>3, <2>1 DEF Tasks
<1>5. tasks' = <<u>>
  <2>1. [<<t>> EXCEPT ![1] = u] = <<u>>
    OBVIOUS
  <2> QED
    BY <1>1, <1>4, <2>1
<1>6. tasks' # << >> /\ u.at # "done"
  BY <1>4, <1>5, Single
<1>7. Fits(u)'
  BY <1>1, <1>2, <1>4, <1>6 DEF Fits
<1>8. NotTwo' /\ Types'
  BY <1>1, <1>2, <1>4, <1>5, <1>6, <1>7 DEF NotTwo, Types, IInv
<1> QED
  BY <1>1, <1>2, <1>5, <1>6, <1>8 DEF IInv, OfferFits, SeenIsReal, OfferCanBeMet

\* The labels and the button that re-reading the disk leaves are right.
LEMMA ReadIsReal ==
  ASSUME RefreshState, UNCHANGED disk
  PROVE  SeenIsReal' /\ restartOn' \in BOOLEAN
<1>1. PICK r \in Reads : seen' = Labels(r, installed, pending)
  BY DEF RefreshState
<1>2. seen'.installed \in {installed', Unreadable} /\ seen'.pending \in {pending', Unreadable}
  BY <1>1, LabelsSay DEF disk
<1> QED
  BY <1>2 DEF RefreshState, SeenIsReal

\* The done closures.
LEMMA DoneKeeps ==
  ASSUME IInv, NEW i \in 1 .. Len(tasks), CheckDone(i) \/ InstallDone(i) \/ RestartDone(i)
  PROVE  IInv'
<1> DEFINE t == tasks[1]
<1>1. /\ i = 1 /\ t \in Tasks /\ tasks = <<t>> /\ Fits(t)
      /\ ~checkOn /\ ~installOn /\ ~restartOn
  BY OnlyTask DEF IInv
<1>2. tasks' = << >>
  BY LastOneOut DEF IInv, CheckDone, InstallDone, RestartDone, Done
<1>3. t.rel \in Release
  BY <1>1 DEF Tasks
<1> HIDE DEF t
<1>4. PICK enable \in BOOLEAN : Free(enable) /\ UNCHANGED <<installed, pending>>
  BY DEF CheckDone, InstallDone, RestartDone, disk
<1>5. SeenIsReal' /\ restartOn' \in BOOLEAN /\ checkOn' = TRUE
  BY <1>4, ReadIsReal DEF Free, disk
<1>6. CASE CheckDone(i)
  <2>1. t.work = "check" /\ t.at = "done" /\ UNCHANGED <<installed, pending, head>>
    BY <1>1, <1>6 DEF CheckDone, Done, disk, t
  <2>2. CASE Free(FALSE) /\ UNCHANGED offered
    BY <1>1, <1>2, <1>5, <2>1, <2>2
       DEF IInv, Types, NotTwo, OfferFits, OfferCanBeMet, Free
  <2>3. CASE t.err = Nil /\ Free(t.rel # NoRelease) /\ offered' = t.rel
    <3>1. installOn' <=> t.rel # NoRelease
      BY <1>1, <2>3 DEF Free
    <3>2. OfferFits'
      BY <1>1, <2>1, <2>3, <3>1 DEF Fits, OfferFits
    <3> QED
      BY <1>1, <1>2, <1>3, <1>5, <2>1, <2>3, <3>1, <3>2
         DEF IInv, Types, NotTwo, OfferCanBeMet, Free
  <2> QED
    BY <1>1, <1>6, <2>2, <2>3 DEF CheckDone, t
<1>7. CASE InstallDone(i)
  <2>1. /\ t.work = "install" /\ t.at = "done" /\ UNCHANGED <<installed, pending>>
        /\ Free(FALSE) /\ offered' = NoRelease /\ AfterInstall(t.rel, t.err)
    BY <1>1, <1>7 DEF InstallDone, Done, disk, t
  <2>2. head' \in {First, Second} /\ OfferCanBeMet'
    BY <1>1, <2>1, Versions DEF AfterInstall, IInv, Types, OfferCanBeMet, Fits
  <2> QED
    BY <1>1, <1>2, <1>5, <2>1, <2>2, Versions DEF IInv, Types, NotTwo, OfferFits, Free
<1>8. CASE RestartDone(i)
  <2>1. UNCHANGED <<installed, pending, head, offered>> /\ Free(FALSE)
    BY <1>8 DEF RestartDone, disk
  <2> QED
    BY <1>1, <1>2, <1>5, <2>1 DEF IInv, Types, NotTwo, OfferFits, OfferCanBeMet, Free
<1> QED
  BY <1>6, <1>7, <1>8

LEMMA InvHolds == Spec => []IInv
<1>1. IInv /\ [Next]_vars => IInv'
  <2> SUFFICES ASSUME IInv, [Next]_vars
               PROVE  IInv'
    OBVIOUS
  <2>1. CASE UNCHANGED vars
    BY <2>1 DEF vars, IInv, Types, NotTwo, Fits, OfferFits, SeenIsReal, OfferCanBeMet,
                disk, buttons
  <2> QED
    BY <2>1, ReopenKeeps, TapKeeps, WorkKeeps, AskKeeps, DoneKeeps DEF Next, TaskStep
<1> QED
  BY <1>1, InitInv, PTL DEF Spec

-----------------------------------------------------------------------------
\* One work at a time, whatever is tapped in whatever order (demoui.go busy).
THEOREM OneTaskProved == Spec => []OneTask
<1>1. IInv => OneTask
  <2>1. Len(<< >>) = 0
    OBVIOUS
  <2>2. ASSUME IInv
        PROVE  Len(tasks) = 0 \/ Len(tasks) = 1
    BY <2>1, <2>2, Single DEF IInv, NotTwo
  <2>3. \A n \in {0, 1} : n <= 1
    OBVIOUS
  <2>4. IInv => Len(tasks) \in {0, 1}
    BY <2>2
  <2>5. IInv => Len(tasks) <= 1
    BY <2>3, <2>4, Zenon
  <2> QED
    BY <2>5 DEF IInv, NotTwo, OneTask
<1> QED
  BY <1>1, InvHolds, PTL

\* Install is on only for what the channel offers now over what is installed now
\* (demoui.go busy, onCheck).
THEOREM OfferProved == Spec => []OfferFits
<1>1. IInv => OfferFits
  BY DEF IInv
<1> QED
  BY <1>1, InvHolds, PTL

\* Between works the labels and the restart button are what the disk says
\* (demoui.go refreshState).
THEOREM SeenProved == Spec => []SeenIsReal
<1>1. IInv => SeenIsReal
  BY DEF IInv
<1> QED
  BY <1>1, InvHolds, PTL

\* The channel is never ahead of an installation that has nothing (cmd/demo
\* fixtureResolver).
THEOREM ChannelProved == Spec => []OfferCanBeMet
<1>1. IInv => OfferCanBeMet
  BY DEF IInv
<1> QED
  BY <1>1, InvHolds, PTL

-----------------------------------------------------------------------------
\* The least of some numbers is one of them.
LEMMA Least ==
  ASSUME NEW I \in SUBSET Nat, I # {}
  PROVE  Min(I) \in I /\ \A j \in I : Min(I) <= j
<1> DEFINE R == OpToRel(<, Nat)
<1>1. IsWellFoundedOn(R, Nat)
  BY NatLessThanWellFounded
<1>2. \A a, b \in Nat : a < b => <<a, b>> \in R
  BY DEF OpToRel
<1> HIDE DEF R
<1>3. PICK m \in I : \A j \in I : ~ (<<j, m>> \in R)
  BY <1>1, WFMin, Zenon
<1>4. ASSUME NEW j \in I
      PROVE  m <= j
  <2>1. j \in Nat /\ m \in Nat /\ ~ (j < m)
    BY <1>2, <1>3
  <2> QED
    BY <2>1
<1> QED
  BY <1>4, Zenon DEF Min

\* The cases of Explain, in three parts.
AllCases == {CasesBefore[i] : i \in 1 .. 10} \cup {CasesAfter[i] : i \in 1 .. 11}
              \cup {Deferred, Busy}

LEMMA CaseParts ==
  /\ Len(CasesBefore) = 10 /\ DOMAIN CasesBefore = 1 .. 10 /\ CasesBefore \in Seq(AllCases)
  /\ Len(CasesAfter) = 11 /\ CasesAfter \in Seq(AllCases)
  /\ <<Deferred, Busy>> \in Seq(AllCases)
<1>1. /\ Len(CasesBefore) = 10 /\ DOMAIN CasesBefore = 1 .. 10
      /\ CasesBefore = [i \in 1 .. 10 |-> CasesBefore[i]]
  BY DEF CasesBefore
<1>2. Len(CasesAfter) = 11 /\ CasesAfter = [i \in 1 .. 11 |-> CasesAfter[i]]
  BY DEF CasesAfter
<1>3. \A i \in 1 .. 10 : CasesBefore[i] \in AllCases
  BY DEF AllCases
<1>4. \A i \in 1 .. 11 : CasesAfter[i] \in AllCases
  BY DEF AllCases
<1>5. Deferred \in AllCases /\ Busy \in AllCases
  BY DEF AllCases
<1>6. CasesBefore \in Seq(AllCases)
  BY <1>1, <1>3, SeqDef
<1>7. CasesAfter \in Seq(AllCases)
  BY <1>2, <1>4, SeqDef
<1> QED
  BY <1>1, <1>2, <1>5, <1>6, <1>7

\* Where each case stands.
LEMMA CasesInOrder ==
  /\ Len(Cases) = 23
  /\ \A i \in 1 .. 10 : Cases[i] = CasesBefore[i]
  /\ Cases[11] = Deferred /\ Cases[12] = Busy
  /\ \A i \in 1 .. 11 : Cases[i + 12] = CasesAfter[i]
<1> DEFINE two == <<Deferred, Busy>>
           front == CasesBefore \o two
           all == front \o CasesAfter
<1>1. Len(two) = 2 /\ two[1] = Deferred /\ two[2] = Busy
  OBVIOUS
<1>2. two \in Seq(AllCases)
  BY CaseParts
<1>3. all = Cases
  BY DEF Cases
<1> HIDE DEF two
<1>4. /\ front \in Seq(AllCases) /\ Len(front) = 10 + 2
      /\ \A i \in 1 .. 10 + 2 : front[i] = IF i <= 10 THEN CasesBefore[i] ELSE two[i - 10]
  <2>1. /\ CasesBefore \o two \in Seq(AllCases)
        /\ Len(CasesBefore \o two) = Len(CasesBefore) + Len(two)
        /\ \A i \in 1 .. Len(CasesBefore) + Len(two) : (CasesBefore \o two)[i] =
             IF i <= Len(CasesBefore) THEN CasesBefore[i] ELSE two[i - Len(CasesBefore)]
    BY CaseParts, <1>2, ConcatProperties, Zenon
  <2>2. Len(CasesBefore) = 10
    BY CaseParts
  <2> QED
    BY <1>1, <2>1, <2>2
<1> HIDE DEF front
<1>5. /\ Len(all) = 12 + 11
      /\ \A i \in 1 .. 12 + 11 : all[i] = IF i <= 12 THEN front[i] ELSE CasesAfter[i - 12]
  <2>1. /\ Len(front \o CasesAfter) = Len(front) + Len(CasesAfter)
        /\ \A i \in 1 .. Len(front) + Len(CasesAfter) : (front \o CasesAfter)[i] =
             IF i <= Len(front) THEN front[i] ELSE CasesAfter[i - Len(front)]
    BY CaseParts, <1>4, ConcatProperties, Zenon
  <2>2. Len(CasesAfter) = 11 /\ Len(front) = 12
    BY CaseParts, <1>4
  <2> QED
    BY <2>1, <2>2
<1> HIDE DEF all
<1> QED
  BY <1>1, <1>3, <1>4, <1>5

\* Only the case of a deferral is called "deferred", and none is called as the work
\* that succeeded is.
LEMMA CaseNames ==
  /\ \A i \in 1 .. Len(Cases) : i # 11 => Cases[i].class \notin {"", "applied", "deferred"}
  /\ Cases[11].class = "deferred" /\ Cases[11].severity = "info"
  /\ Cases[11].sentinels = {"deferred"}
<1> DEFINE before(i) == CasesBefore[i].class
           after(i) == CasesAfter[i].class
<1>1. /\ before(1) = "cancelled" /\ before(2) = "clock_skew" /\ before(3) = "time_floor"
      /\ before(4) = "network" /\ before(5) = "elevation_declined"
      /\ before(6) = "elevation_unsupported" /\ before(7) = "elevation_request"
      /\ before(8) = "elevation_failed" /\ before(9) = "prompt" /\ before(10) = "declined"
  BY DEF CasesBefore, Case
<1>2. /\ after(1) = "check" /\ after(2) = "migrate" /\ after(3) = "stale"
      /\ after(4) = "policy" /\ after(5) = "installer_refused" /\ after(6) = "config"
      /\ after(7) = "verify" /\ after(8) = "resolve" /\ after(9) = "permission"
      /\ after(10) = "disk" /\ after(11) = "launch"
  BY DEF CasesAfter, Case
<1>3. Busy.class = "busy"
  BY DEF Busy, Case
<1>4. Cases[11].class = "deferred" /\ Cases[11].severity = "info"
      /\ Cases[11].sentinels = {"deferred"}
  BY CasesInOrder DEF Deferred, Case
<1> HIDE DEF before, after
<1>5. ASSUME NEW i \in 1 .. 10
      PROVE  before(i) \notin {"", "applied", "deferred"}
  <2>1. i \in {1, 2, 3, 4, 5, 6, 7, 8, 9, 10}
    OBVIOUS
  <2> QED
    BY <1>1, <2>1, Zenon
<1>6. ASSUME NEW i \in 1 .. 11
      PROVE  after(i) \notin {"", "applied", "deferred"}
  <2>1. i \in {1, 2, 3, 4, 5, 6, 7, 8, 9, 10, 11}
    OBVIOUS
  <2> QED
    BY <1>2, <2>1, Zenon
<1>7. ASSUME NEW i \in 1 .. Len(Cases), i # 11
      PROVE  Cases[i].class \notin {"", "applied", "deferred"}
  <2>1. \/ i \in 1 .. 10 /\ Cases[i] = CasesBefore[i]
        \/ Cases[i] = Busy
        \/ \E j \in 1 .. 11 : Cases[i] = CasesAfter[j]
    <3>1. i \in 1 .. 10 \/ i = 12 \/ (i - 12 \in 1 .. 11 /\ i = (i - 12) + 12)
      BY <1>7, CasesInOrder
    <3> QED
      BY <3>1, CasesInOrder
  <2>2. Busy.class \notin {"", "applied", "deferred"}
    BY <1>3, Zenon
  <2> QED
    BY <1>5, <1>6, <2>1, <2>2, Zenon DEF before, after
<1> QED
  BY <1>4, <1>7, Zenon

\* Explain finds the first case that an error fits.
LEMMA FirstFit ==
  ASSUME NEW err, err # Nil
  PROVE  \/ /\ Explained(err) = Case("unknown", "error", {})
            /\ \A i \in 1 .. Len(Cases) : Cases[i].sentinels \cap err = {}
         \/ \E i \in 1 .. Len(Cases) :
              /\ Explained(err) = Cases[i] /\ Cases[i].sentinels \cap err # {}
              /\ \A j \in 1 .. Len(Cases) : Cases[j].sentinels \cap err # {} => i <= j
<1> DEFINE Fit(c) == c.sentinels \cap err # {}
           I == {i \in 1 .. Len(Cases) : Fit(Cases[i])}
           n == SelectInSeq(Cases, Fit)
<1>1. n = IF I # {} THEN Min(I) ELSE 0
  BY DEF SelectInSeq
<1>2. Explained(err) = IF n = 0 THEN Case("unknown", "error", {}) ELSE Cases[n]
  BY Zenon DEF Explained
<1>3. I \in SUBSET Nat
  OBVIOUS
<1>4. CASE I = {}
  BY <1>1, <1>2, <1>4
<1>5. CASE I # {}
  <2>1. Min(I) \in I /\ \A j \in I : Min(I) <= j
    BY <1>3, <1>5, Least
  <2>2. n \in I /\ \A j \in I : n <= j
    BY <1>1, <1>5, <2>1
  <2>3. n # 0
    BY <2>2
  <2> QED
    BY <1>2, <2>2, <2>3
<1> QED
  BY <1>4, <1>5

\* How an outcome of each kind is told.
LEMMA NilIsTold == Explained(Nil).class = "" /\ Explained(Nil).severity = "none"
<1>1. Explained(Nil) = Case("", "none", {})
  BY Zenon DEF Explained
<1>2. \A a, b, c : Case(a, b, c).class = a /\ Case(a, b, c).severity = b
  BY DEF Case
<1>3. Case("", "none", {}).class = "" /\ Case("", "none", {}).severity = "none"
  BY <1>2, Zenon
<1> QED
  BY <1>1, <1>3, Zenon

LEMMA DeferralIsTold ==
  ASSUME NEW e \in Deferrals
  PROVE  Explained(e).class = "deferred" /\ Explained(e).severity = "info"
<1>1. "deferred" \in e /\ \A i \in 1 .. 10 : CasesBefore[i].sentinels \cap e = {}
  BY DemoAssumption, CaseParts
<1>2. e # Nil
  BY <1>1 DEF Nil
<1>3. Cases[11].sentinels \cap e # {}
  BY <1>1, CaseNames, Zenon
<1>4. 11 \in 1 .. Len(Cases)
  BY CasesInOrder
<1>5. \A i \in 1 .. 10 : Cases[i].sentinels \cap e = {}
  BY <1>1, CasesInOrder
<1>6. Explained(e) = Cases[11]
  <2>1. PICK i \in 1 .. Len(Cases) :
          /\ Explained(e) = Cases[i] /\ Cases[i].sentinels \cap e # {}
          /\ \A j \in 1 .. Len(Cases) : Cases[j].sentinels \cap e # {} => i <= j
    BY <1>2, <1>3, <1>4, FirstFit
  <2>2. i <= 11
    BY <1>3, <1>4, <2>1
  <2>3. i \in 1 .. 10 \/ i = 11
    BY <2>2
  <2> QED
    BY <1>5, <2>1, <2>3
<1> QED
  BY <1>6, CaseNames, Zenon

LEMMA FailureIsTold ==
  ASSUME NEW e, e # Nil, "deferred" \notin e
  PROVE  Explained(e).class \notin {"", "applied", "deferred"}
<1>1. Cases[11].sentinels \cap e = {}
  BY CaseNames, Zenon
<1>2. CASE Explained(e) = Case("unknown", "error", {})
  <2>1. \A a, b, c : Case(a, b, c).class = a
    BY DEF Case
  <2>2. Case("unknown", "error", {}).class = "unknown"
    BY <2>1, Zenon
  <2> QED
    BY <1>2, <2>2, Zenon
<1>3. CASE \E i \in 1 .. Len(Cases) : Explained(e) = Cases[i] /\ Cases[i].sentinels \cap e # {}
  BY <1>1, <1>3, CaseNames, Zenon
<1> QED
  BY <1>2, <1>3, FirstFit

-----------------------------------------------------------------------------
\* A work that is done returns what it did to the disk.
Told(t) ==
  t.at = "done" =>
    /\ t.work = "check" => did = "nothing" /\ t.err \in CheckErrs \cup {Nil}
    /\ t.work = "install" => \/ did = "installed" /\ t.err = Nil
                             \/ did = "deferred" /\ t.err \in Deferrals
                             \/ did = "nothing" /\ t.err \in Refusals
    /\ t.work = "restart" => \/ did = "installed" /\ t.err = Nil /\ t.res = "applied"
                             \/ did = "nothing" /\ t.err = Nil /\ t.res \in {"skipped", "nothing"}
                             \/ did = "nothing" /\ t.err \in StartErrs

Outcomes == (tasks # << >> => Told(tasks[1])) /\ OutcomeIsHonest

\* The works tell what they did.
LEMMA WorkTells ==
  ASSUME IInv, NEW i \in 1 .. Len(tasks), CheckWork(i) \/ InstallWork(i) \/ RestartWork(i)
  PROVE  tasks' # << >> /\ Told(tasks[1])'
<1> DEFINE t == tasks[1]
<1>1. i = 1 /\ t \in Tasks
  BY OnlyTask DEF IInv
<1>2. t.rel \in Release
  BY <1>1 DEF Tasks
<1>3. ASSUME NEW rel \in Release, NEW err \in SUBSET Sentinels,
             NEW res \in {"none", "applied", "skipped", "nothing"}, Works(i, rel, err, res)
      PROVE  \E u \in Tasks : /\ tasks' = <<u>> /\ tasks' # << >> /\ tasks'[1] = u
                              /\ u.work = t.work /\ u.err = err /\ u.res = res
  BY <1>3, WorksEnds, Single DEF IInv
<1> HIDE DEF t
<1>4. CASE CheckWork(i)
  <2>1. t.work = "check" /\ did' = "nothing"
    BY <1>1, <1>4 DEF CheckWork, t
  <2>2. PICK rel \in Release, err \in CheckErrs \cup {Nil} : Works(i, rel, err, "none")
    <3>1. [version |-> head, from |-> installed] \in Release
      BY Versions DEF IInv, Types, Release
    <3>2. PICK rel \in Release : \/ Works(i, rel, Nil, "none")
                                \/ \E e \in CheckErrs : Works(i, rel, e, "none")
      BY <1>4, <3>1, Versions DEF CheckWork
    <3> QED
      BY <3>2
  <2>3. err \in SUBSET Sentinels
    BY ErrorsFail, Versions
  <2> QED
    BY <1>3, <2>1, <2>2, <2>3 DEF Told
<1>5. CASE InstallWork(i)
  <2>1. t.work = "install"
    BY <1>1, <1>5 DEF InstallWork, t
  <2>2. PICK err \in SUBSET Sentinels :
          /\ Works(i, t.rel, err, "none")
          /\ \/ did' = "installed" /\ err = Nil
             \/ did' = "deferred" /\ err \in Deferrals
             \/ did' = "nothing" /\ err \in Refusals
    <3>1. CASE did' = "installed" /\ Works(i, t.rel, Nil, "none")
      BY <3>1, Versions
    <3>2. CASE did' = "deferred" /\ \E e \in Deferrals : Works(i, t.rel, e, "none")
      BY <3>2, ErrorsFail
    <3>3. CASE did' = "nothing" /\ \E e \in Refusals : Works(i, t.rel, e, "none")
      BY <3>3, ErrorsFail
    <3> QED
      BY <1>1, <1>5, <3>1, <3>2, <3>3 DEF InstallWork, t
  <2> QED
    BY <1>2, <1>3, <2>1, <2>2 DEF Told
<1>6. CASE RestartWork(i)
  <2>1. t.work = "restart"
    BY <1>1, <1>6 DEF RestartWork, t
  <2>2. PICK err \in SUBSET Sentinels, res \in {"none", "applied", "skipped", "nothing"} :
          /\ Works(i, NoRelease, err, res)
          /\ \/ did' = "installed" /\ err = Nil /\ res = "applied"
             \/ did' = "nothing" /\ err = Nil /\ res \in {"skipped", "nothing"}
             \/ did' = "nothing" /\ err \in StartErrs
    <3>1. CASE did' = "installed" /\ Works(i, NoRelease, Nil, "applied")
      BY <3>1, Versions
    <3>2. CASE did' = "nothing" /\ Works(i, NoRelease, Nil, "skipped")
      BY <3>2, Versions
    <3>3. CASE did' = "nothing" /\ Works(i, NoRelease, Nil, "nothing")
      BY <3>3, Versions
    <3>4. CASE did' = "nothing" /\ \E e \in StartErrs : Works(i, NoRelease, e, "none")
      BY <3>4, ErrorsFail
    <3> QED
      BY <1>6, <3>1, <3>2, <3>3, <3>4 DEF RestartWork
  <2> QED
    BY <1>3, <2>1, <2>2, Versions DEF Told
<1> QED
  BY <1>4, <1>5, <1>6

\* What the status line makes of an answer.
LEMMA ReportedTells ==
  ASSUME NEW work, NEW err
  PROVE  /\ Reported(work, err).outcome = Explained(err).class
         /\ Reported(work, err).severity = Explained(err).severity
BY DEF Reported, Says

LEMMA DoneTells ==
  ASSUME IInv, Outcomes, NEW i \in 1 .. Len(tasks),
         CheckDone(i) \/ InstallDone(i) \/ RestartDone(i)
  PROVE  Outcomes'
<1> DEFINE t == tasks[1]
<1>1. i = 1 /\ t \in Tasks /\ tasks = <<t>>
  BY OnlyTask DEF IInv
<1>2. tasks' = << >>
  BY LastOneOut DEF IInv, CheckDone, InstallDone, RestartDone, Done
<1>3. tasks # << >>
  BY <1>1, Single
<1>4. Told(t) /\ t.at = "done" /\ did' = did
  BY <1>1, <1>3 DEF Outcomes, CheckDone, InstallDone, RestartDone, Done
<1> DEFINE s == status'
<1> HIDE DEF t, s
<1>5. SUFFICES /\ s.outcome = "deferred" <=> did = "deferred"
               /\ s.outcome \in {"", "applied"} <=> did = "installed"
               /\ did # "nothing" => s.severity \in {"none", "info"}
  BY <1>2, <1>4, Zenon DEF Outcomes, OutcomeIsHonest, s
<1>6. \A o, v, w : Says(w, o, v).outcome = o /\ Says(w, o, v).severity = v
  BY DEF Says
<1>7. \A e \in CheckErrs \cup Refusals \cup StartErrs :
        \A w : Reported(w, e).outcome \notin {"", "applied", "deferred"}
  <2>1. ASSUME NEW e \in CheckErrs \cup Refusals \cup StartErrs, NEW w
        PROVE  Reported(w, e).outcome \notin {"", "applied", "deferred"}
    <3>1. e # Nil /\ "deferred" \notin e
      BY ErrorsFail, DemoAssumption, Zenon
    <3> QED
      BY <3>1, ReportedTells, FailureIsTold, Zenon
  <2> QED
    BY <2>1
<1>8. CASE CheckDone(i)
  <2>1. t.work = "check" /\ did = "nothing" /\ t.err \in CheckErrs \cup {Nil}
    BY <1>1, <1>4, <1>8 DEF CheckDone, Done, Told, t
  <2>2. CASE t.err # Nil
    <3>1. s = Reported("check", t.err) /\ t.err \in CheckErrs
      BY <1>1, <1>8, <2>1, <2>2 DEF CheckDone, t, s
    <3> QED
      BY <1>7, <2>1, <3>1, Zenon
  <2>3. CASE t.err = Nil
    <3>1. s \in {Says("check", "current", "none"), Says("check", "available", "none")}
      BY <1>1, <1>8, <2>3 DEF CheckDone, t, s
    <3>2. s.outcome \in {"current", "available"}
      BY <1>6, <3>1
    <3> QED
      BY <2>1, <3>2, Zenon
  <2> QED
    BY <2>2, <2>3
<1>9. CASE InstallDone(i)
  <2>1. t.work = "install" /\ s = Reported("install", t.err)
    BY <1>1, <1>9 DEF InstallDone, Done, t, s
  <2>2. s.outcome = Explained(t.err).class /\ s.severity = Explained(t.err).severity
    BY <2>1, ReportedTells
  <2>3. CASE did = "installed" /\ t.err = Nil
    BY <2>2, <2>3, NilIsTold, Zenon
  <2>4. CASE did = "deferred" /\ t.err \in Deferrals
    BY <2>2, <2>4, DeferralIsTold, Zenon
  <2>5. CASE did = "nothing" /\ t.err \in Refusals
    BY <1>7, <2>1, <2>5, Zenon
  <2> QED
    BY <1>4, <2>1, <2>3, <2>4, <2>5 DEF Told
<1>10. CASE RestartDone(i)
  <2>1. /\ t.work = "restart"
        /\ s = IF t.err # Nil THEN Reported("restart", t.err) ELSE Says("restart", t.res, "none")
    BY <1>1, <1>10 DEF RestartDone, Done, t, s
  <2>2. CASE did = "installed" /\ t.err = Nil /\ t.res = "applied"
    <3>1. s.outcome = "applied" /\ s.severity = "none"
      BY <1>6, <2>1, <2>2
    <3> QED
      BY <2>2, <3>1, Zenon
  <2>3. CASE did = "nothing" /\ t.err = Nil /\ t.res \in {"skipped", "nothing"}
    <3>1. s.outcome \in {"skipped", "nothing"}
      BY <1>6, <2>1, <2>3
    <3> QED
      BY <2>3, <3>1, Zenon
  <2>4. CASE did = "nothing" /\ t.err \in StartErrs
    <3>1. s = Reported("restart", t.err)
      BY <2>1, <2>4, ErrorsFail
    <3> QED
      BY <1>7, <2>4, <3>1, Zenon
  <2> QED
    BY <1>4, <2>1, <2>2, <2>3, <2>4 DEF Told
<1> QED
  BY <1>8, <1>9, <1>10

LEMMA OutcomesKeep == IInv /\ Outcomes /\ [Next]_vars => Outcomes'
<1> SUFFICES ASSUME IInv, Outcomes, [Next]_vars
             PROVE  Outcomes'
  OBVIOUS
<1>1. CASE OnCheck \/ OnInstall \/ OnRestart
  <2>1. PICK work, rel : tasks = << >> /\ tasks' = Append(tasks, Task(work, rel))
    BY <1>1 DEF OnCheck, OnInstall, OnRestart, Launch, IInv, NotTwo
  <2>2. tasks' # << >> /\ tasks'[1] = Task(work, rel)
    BY <2>1, Single
  <2>3. tasks'[1].at = "work"
    BY <2>2 DEF Task
  <2> QED
    BY <2>2, <2>3 DEF Outcomes, OutcomeIsHonest, Told
<1>2. ASSUME NEW i \in 1 .. Len(tasks), CheckWork(i) \/ InstallWork(i) \/ RestartWork(i)
      PROVE  Outcomes'
  BY <1>2, WorkTells DEF Outcomes, OutcomeIsHonest
<1>3. ASSUME NEW i \in 1 .. Len(tasks), CheckDone(i) \/ InstallDone(i) \/ RestartDone(i)
      PROVE  Outcomes'
  BY <1>3, DoneTells
<1>4. ASSUME NEW i \in 1 .. Len(tasks), InstallAsks(i) \/ Answer(i)
      PROVE  Outcomes'
  BY <1>4, AskKeeps DEF Outcomes, OutcomeIsHonest, Told
<1>5. CASE Reopen
  <2>1. tasks' = << >> /\ did' = "nothing" /\ status' = Says("none", "ready", "none")
    BY <1>5 DEF Reopen
  <2>2. status'.outcome = "ready"
    BY <2>1 DEF Says
  <2> QED
    BY <2>1, <2>2, Zenon DEF Outcomes, OutcomeIsHonest
<1>6. CASE UNCHANGED vars
  BY <1>6, Zenon DEF vars, Outcomes, OutcomeIsHonest, Told
<1> QED
  BY <1>1, <1>2, <1>3, <1>4, <1>5, <1>6 DEF Next, TaskStep

\* The status line tells an install from an update that waits and from one that did
\* not happen, for any errors the updater may end with (demoui.go report, explain.go).
THEOREM OutcomeProved == Spec => []OutcomeIsHonest
<1>1. Init => Outcomes
  <2> SUFFICES ASSUME Init
               PROVE  Outcomes
    OBVIOUS
  <2>1. tasks = << >> /\ did = "nothing" /\ status = Says("none", "ready", "none")
    BY DEF Init
  <2>2. status.outcome = "ready"
    BY <2>1 DEF Says
  <2> QED
    BY <2>1, <2>2, Zenon DEF Outcomes, OutcomeIsHonest
<1>2. Outcomes => OutcomeIsHonest
  BY DEF Outcomes
<1> QED
  BY <1>1, <1>2, OutcomesKeep, InvHolds, PTL DEF Spec

=============================================================================
