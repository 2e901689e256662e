-------------------------- MODULE PackAssistProofs ---------------------------
(***************************************************************************)
(* Machine-checked proofs about module PackAssist, for any channels, paths *)
(* and repositories, and however many platforms and jobs are allowed.      *)
(***************************************************************************)
EXTENDS PackAssist, TLAPS

Jobs == [kind: {"publish", "verify"}, config: Paths \cup {""}, repo: Repos \cup {""},
         at: {"work", "done"},
         err: {"nil", "ErrPublish", "ErrNotFound", "ErrUsage", "ErrVerify"}, res: BOOLEAN]

\* The types the argument needs.
Types ==
  /\ form \in Form
  /\ configPath \in Paths \cup {""} /\ repoDir \in Repos \cup {""}
  /\ blocked \in BOOLEAN /\ running \in BOOLEAN /\ published \in BOOLEAN

\* There is a job just when running is set, and only one.
OneJob == /\ jobs = << >> \/ \E j \in Jobs : jobs = <<j>>
          /\ running <=> jobs # << >>

\* The buttons are what setBlocked makes of the flags, and blocked is the form's.
ButtonsFollow ==
  /\ blocked <=> Problems(form)
  /\ publishOn <=> (HasRunner /\ ~blocked /\ ~running)
  /\ verifyOn <=> (published /\ ~running)

\* What has been published, or is about to be noted as such, the packer has served.
Served ==
  /\ published => servedTo # {}
  /\ \A j \in Jobs : /\ jobs = <<j>> /\ j.kind = "publish"
                      /\ j.at = "done" /\ j.err = "nil"
                      => servedTo # {}

IInv == Types /\ OneJob /\ ButtonsFollow /\ Served

-----------------------------------------------------------------------------
\* A sequence of one element.
LEMMA Single ==
  ASSUME NEW j
  PROVE  /\ Append(<< >>, j) = <<j>> /\ <<j>> # << >> /\ Len(<<j>>) = 1 /\ <<j>>[1] = j
         /\ \A m : <<m>> = <<j>> => m = j
<1>1. Append(<< >>, j) = <<j>>
  OBVIOUS
<1>2. Len(<<j>>) = 1 /\ <<j>>[1] = j /\ Len(<< >>) = 0
  OBVIOUS
<1>3. ASSUME NEW m, <<m>> = <<j>>
      PROVE  m = j
  <2>1. <<m>>[1] = m
    OBVIOUS
  <2> QED
    BY <1>2, <1>3, <2>1
<1>4. <<j>> # << >>
  BY <1>2
<1> QED
  BY <1>1, <1>2, <1>3, <1>4

LEMMA JobsLength == OneJob => Len(jobs) \in Nat
<1>1. Len(<< >>) = 0
  OBVIOUS
<1> QED
  BY <1>1, Single DEF OneJob

\* The step of a job is the step of the only one.
LEMMA OneIndex ==
  ASSUME OneJob, NEW i \in 1 .. Len(jobs)
  PROVE  i = 1 /\ jobs[1] \in Jobs /\ jobs = <<jobs[1]>>
<1>1. CASE jobs = << >>
  <2>1. Len(<< >>) = 0
    OBVIOUS
  <2> QED
    BY <1>1, <2>1
<1>2. ASSUME NEW j \in Jobs, jobs = <<j>>
      PROVE  i = 1 /\ jobs[1] \in Jobs /\ jobs = <<jobs[1]>>
  <2>1. Len(<<j>>) = 1 /\ <<j>>[1] = j
    OBVIOUS
  <2>2. i \in 1 .. 1
    BY <1>2, <2>1
  <2> QED
    BY <1>2, <2>1, <2>2
<1> QED
  BY <1>1, <1>2 DEF OneJob

\* The end of the only job leaves none (publish.go, the done closures).
LEMMA LastOneOut ==
  ASSUME OneJob, NEW i \in 1 .. Len(jobs), Dequeue(i)
  PROVE  jobs' = << >>
<1> DEFINE j == jobs[1]
<1>1. i = 1 /\ jobs = <<j>>
  BY OneIndex
<1> HIDE DEF j
<1>2. Len(<<j>>) = 1 /\ SubSeq(<<j>>, 1, 0) = << >> /\ SubSeq(<<j>>, 2, 1) = << >>
  OBVIOUS
<1>3. jobs' = SubSeq(<<j>>, 1, 0) \o SubSeq(<<j>>, 2, 1)
  BY <1>1, <1>2 DEF Dequeue
<1> QED
  BY <1>2, <1>3

LEMMA InitInv == Init => IInv
<1> SUFFICES ASSUME Init
             PROVE  IInv
  OBVIOUS
<1>1. form \in Form
  <2>1. CASE configPath # "" /\ saved[configPath] # NoFile
    BY <2>1 DEF Init
  <2>2. CASE ~(configPath # "" /\ saved[configPath] # NoFile)
    <3>1. form = [channel |-> "stable", targets |-> 1, rest |-> FALSE]
      BY <2>2 DEF Init
    <3>2. "stable" \in Channels /\ MaxTargets \in Nat \ {0}
      BY PackAssistAssumption, Zenon
    <3>3. 1 \in 0 .. MaxTargets
      BY <3>2
    <3> QED
      BY <3>1, <3>2, <3>3 DEF Form
  <2> QED
    BY <2>1, <2>2
<1>2. blocked \in BOOLEAN /\ (blocked <=> Problems(form))
  BY <1>1 DEF Init, Problems, Form
<1>3. Types /\ OneJob /\ Served
  BY <1>1, <1>2 DEF Init, Types, OneJob, Served
<1>4. ButtonsFollow
  BY <1>2, PackAssistAssumption DEF Init, ButtonsFollow
<1> QED
  BY <1>3, <1>4 DEF IInv

\* The operator's actions.
LEMMA OperatorKeeps ==
  ASSUME IInv, \/ \E f \in Form : EditForm(f)
               \/ EditRequest \/ OnSave \/ SaveStep
               \/ \E k \in Breakable : KeyFileChanges(k)
  PROVE  IInv'
<1> USE DEF IInv, Types, OneJob, ButtonsFollow, Served, fields, flags
<1>1. ASSUME NEW f \in Form, EditForm(f)
      PROVE  IInv'
  <2>1. Problems(f) \in BOOLEAN
    BY DEF Problems, Form
  <2> QED
    BY <1>1, <2>1 DEF EditForm, SetBlocked, Problems
<1>2. CASE EditRequest
  BY <1>2 DEF EditRequest, Refresh, SetBlocked, Problems
<1>3. CASE OnSave
  BY <1>3 DEF OnSave, Problems
<1>4. CASE SaveCancelled
  BY <1>4 DEF SaveCancelled, Problems
<1>5. ASSUME NEW p \in Paths, SaveFails(p)
      PROVE  IInv'
  BY <1>5 DEF SaveFails, Problems
<1>6. ASSUME NEW p \in Paths, SaveWrites(p)
      PROVE  IInv'
  <2>1. CASE p = configPath
    BY <1>6, <2>1 DEF SaveWrites, Problems
  <2>2. CASE p # configPath
    BY <1>6, <2>2 DEF SaveWrites, Refresh, SetBlocked, Problems
  <2> QED
    BY <2>1, <2>2
<1>7. ASSUME NEW k \in Breakable, KeyFileChanges(k)
      PROVE  IInv'
  BY <1>7 DEF KeyFileChanges, Problems
<1> QED
  BY <1>1, <1>2, <1>3, <1>4, <1>5, <1>6, <1>7 DEF SaveStep

\* The two taps that start a job.
LEMMA StartKeeps ==
  ASSUME IInv, OnPublish \/ OnVerify
  PROVE  IInv' /\ jobs = << >>
<1> USE DEF IInv, Types, OneJob, ButtonsFollow, Served, fields
<1>1. CASE OnPublish
  <2>1. ~running /\ jobs = << >>
    BY <1>1 DEF OnPublish
  <2> DEFINE j == Job("publish", configPath, repoDir)
  <2>2. j \in Jobs /\ j.at = "work"
    BY DEF Job, Jobs
  <2>3. jobs' = Append(jobs, j)
    BY <1>1 DEF OnPublish
  <2> HIDE DEF j
  <2>4. jobs' = <<j>> /\ <<j>> # << >> /\ \A m : <<m>> = <<j>> => m = j
    BY <2>1, <2>3, Single
  <2>5. Types' /\ OneJob' /\ Served'
    BY <1>1, <2>2, <2>4 DEF OnPublish, SetBlocked
  <2>6. ButtonsFollow'
    BY <1>1 DEF OnPublish, SetBlocked, Problems
  <2> QED
    BY <2>1, <2>4, <2>5, <2>6
<1>2. CASE OnVerify
  <2>1. ~running /\ jobs = << >>
    BY <1>2 DEF OnVerify
  <2> DEFINE j == Job("verify", "", repoDir)
  <2>2. j \in Jobs /\ j.at = "work"
    BY DEF Job, Jobs
  <2>3. jobs' = Append(jobs, j)
    BY <1>2 DEF OnVerify
  <2> HIDE DEF j
  <2>4. jobs' = <<j>> /\ <<j>> # << >> /\ \A m : <<m>> = <<j>> => m = j
    BY <2>1, <2>3, Single
  <2>5. Types' /\ OneJob' /\ Served'
    BY <1>2, <2>2, <2>4 DEF OnVerify, SetBlocked
  <2>6. ButtonsFollow'
    BY <1>2 DEF OnVerify, SetBlocked, Problems
  <2> QED
    BY <2>1, <2>4, <2>5, <2>6
<1> QED
  BY <1>1, <1>2

Errs == {"nil", "ErrPublish", "ErrNotFound", "ErrUsage", "ErrVerify"}

\* What a job returns is noted in it, and it stays the only one.
LEMMA EndsKeeps ==
  ASSUME OneJob, NEW i \in 1 .. Len(jobs), NEW e \in Errs, NEW r \in BOOLEAN, Ends(i, e, r)
  PROVE  \E k \in Jobs : jobs' = <<k>> /\ k.kind = jobs[i].kind /\ k.err = e
<1> DEFINE j == jobs[1]
           k == [j EXCEPT !.at = "done", !.err = e, !.res = r]
<1>1. i = 1 /\ j \in Jobs /\ jobs = <<j>>
  BY OneIndex
<1>2. k \in Jobs /\ k.kind = j.kind /\ k.err = e
  BY <1>1 DEF Jobs, Errs
<1>3. jobs' = [jobs EXCEPT ![1] = k]
  BY <1>1 DEF Ends
<1> HIDE DEF j, k
<1>4. [<<j>> EXCEPT ![1] = k] = <<k>>
  OBVIOUS
<1> QED
  BY <1>1, <1>2, <1>3, <1>4 DEF j

LEMMA WorkKeeps ==
  ASSUME IInv, NEW i \in 1 .. Len(jobs), PublishWork(i) \/ VerifyWork(i)
  PROVE  IInv'
<1> USE DEF Errs
<1>1. CASE PublishWork(i)
  <2>1. PICK e \in Errs, r \in BOOLEAN :
          Ends(i, e, r) /\ (e = "nil" => servedTo' # {}) /\ servedTo \subseteq servedTo'
    <3>1. CASE Ends(i, "ErrPublish", FALSE) /\ UNCHANGED servedTo
      BY <3>1
    <3>2. CASE Ends(i, "ErrNotFound", FALSE) /\ UNCHANGED servedTo
      BY <3>2
    <3>3. CASE Ends(i, "ErrPublish", TRUE) /\ UNCHANGED servedTo
      BY <3>3
    <3>4. ASSUME NEW code \in 0 .. 2, Packer(i, code),
                 Ends(i, <<"nil", "ErrPublish", "ErrUsage">>[code + 1], TRUE)
          PROVE  \E e \in Errs, r \in BOOLEAN :
                   Ends(i, e, r) /\ (e = "nil" => servedTo' # {}) /\ servedTo \subseteq servedTo'
      <4>1. CASE code = 0
        <5>0. <<"nil", "ErrPublish", "ErrUsage">>[code + 1] = "nil"
          BY <4>1
        <5>1. Ends(i, "nil", TRUE)
          BY <3>4, <5>0
        <5>2. servedTo' # {} /\ servedTo \subseteq servedTo'
          BY <3>4, <4>1 DEF Packer
        <5> QED
          BY <5>1, <5>2
      <4>2. CASE code = 1
        <5>0. <<"nil", "ErrPublish", "ErrUsage">>[code + 1] = "ErrPublish"
          BY <4>2
        <5>1. Ends(i, "ErrPublish", TRUE)
          BY <3>4, <5>0
        <5>2. servedTo' = servedTo
          BY <3>4, <4>2 DEF Packer
        <5> QED
          BY <5>1, <5>2
      <4>3. CASE code = 2
        <5>0. <<"nil", "ErrPublish", "ErrUsage">>[code + 1] = "ErrUsage"
          BY <4>3
        <5>1. Ends(i, "ErrUsage", TRUE)
          BY <3>4, <5>0
        <5>2. servedTo' = servedTo
          BY <3>4, <4>3 DEF Packer
        <5> QED
          BY <5>1, <5>2
      <4> QED
        BY <4>1, <4>2, <4>3
    <3> QED
      BY <1>1, <3>1, <3>2, <3>3, <3>4 DEF PublishWork
  <2>2. PICK k \in Jobs : jobs' = <<k>> /\ k.kind = jobs[i].kind /\ k.err = e
    BY <2>1, EndsKeeps DEF IInv
  <2>3. UNCHANGED <<fields, flags>> /\ jobs # << >>
    BY <1>1, OneIndex, Single DEF PublishWork, IInv
  <2>4. \A m \in Jobs : jobs' = <<m>> => m = k
    BY <2>2, Single
  <2> QED
    BY <2>1, <2>2, <2>3, <2>4, Single
       DEF IInv, Types, OneJob, ButtonsFollow, Served, fields, flags, Problems
<1>2. CASE VerifyWork(i)
  <2>1. UNCHANGED <<fields, flags, servedTo>> /\ jobs[i].kind = "verify"
    BY <1>2 DEF VerifyWork
  <2>2. CASE UNCHANGED jobs
    BY <2>1, <2>2 DEF IInv, Types, OneJob, ButtonsFollow, Served, fields, flags, Problems
  <2>3. ASSUME NEW e \in Errs, Ends(i, e, FALSE)
        PROVE  IInv'
    <3>1. PICK k \in Jobs : jobs' = <<k>> /\ k.kind = "verify"
      <4>1. \E k \in Jobs : jobs' = <<k>> /\ k.kind = jobs[i].kind /\ k.err = e
        BY <2>3, EndsKeeps DEF IInv
      <4> QED
        BY <2>1, <4>1
    <3>2. jobs # << >>
      BY OneIndex, Single DEF IInv
    <3>3. \A m \in Jobs : jobs' = <<m>> => m = k
      BY <3>1, Single
    <3> QED
      BY <2>1, <3>1, <3>2, <3>3, Single
         DEF IInv, Types, OneJob, ButtonsFollow, Served, fields, flags, Problems
  <2> QED
    BY <1>2, <2>2, <2>3 DEF VerifyWork
<1> QED
  BY <1>1, <1>2

LEMMA DoneKeeps ==
  ASSUME IInv, NEW i \in 1 .. Len(jobs), PublishDone(i) \/ VerifyDone(i)
  PROVE  IInv' /\ jobs' = << >>
<1>1. jobs' = << >>
  BY LastOneOut DEF IInv, PublishDone, VerifyDone
<1> USE DEF IInv, Types, OneJob, ButtonsFollow, Served, fields
<1>2. CASE PublishDone(i)
  <2>1. i = 1 /\ jobs[1] \in Jobs /\ jobs = <<jobs[1]>>
    BY OneIndex
  <2>2. published' \in BOOLEAN /\ (published' => servedTo # {})
    BY <1>2, <2>1 DEF PublishDone
  <2> QED
    BY <1>1, <1>2, <2>2 DEF PublishDone, SetBlocked, Problems
<1>3. CASE VerifyDone(i)
  BY <1>1, <1>3 DEF VerifyDone, SetBlocked, Problems
<1> QED
  BY <1>1, <1>2, <1>3

LEMMA InvHolds == Spec => []IInv
<1>1. IInv /\ [Next]_vars => IInv'
  <2> SUFFICES ASSUME IInv, [Next]_vars
               PROVE  IInv'
    OBVIOUS
  <2>1. CASE UNCHANGED vars
    BY <2>1 DEF vars, IInv, Types, OneJob, ButtonsFollow, Served, fields, flags, Problems
  <2> QED
    BY <2>1, OperatorKeeps, StartKeeps, WorkKeeps, DoneKeeps DEF Next, JobStep
<1> QED
  BY <1>1, InitInv, PTL DEF Spec

-----------------------------------------------------------------------------
\* The Publish button tells the truth about the form as it is, whatever was edited
\* while a job ran (publish.go setBlocked).
THEOREM ButtonProved == Spec => []PublishIsVetted
<1>1. IInv => PublishIsVetted
  BY DEF IInv, ButtonsFollow, OneJob, PublishIsVetted
<1> QED
  BY <1>1, InvHolds, PTL

\* A verification is on offer only after the packer has published (publish.go
\* published).
THEOREM VerifyProved == Spec => []VerifyNeedsAPublish
<1>1. IInv => VerifyNeedsAPublish
  BY DEF IInv, ButtonsFollow, Served, VerifyNeedsAPublish
<1> QED
  BY <1>1, InvHolds, PTL

\* A job starts alone, and a publish from a valid form with keys that are usable
\* (publish.go onPublish).
THEOREM StartsProved == Spec => JobsStartClean
<1> DEFINE Clean == Len(jobs') > Len(jobs) =>
                      /\ jobs = << >>
                      /\ jobs'[Len(jobs')].kind = "publish" =>
                           ~Problems(form) /\ KeyNames(form) \cap badKeys = {}
<1>1. IInv /\ [Next]_vars => [Clean]_vars
  <2> SUFFICES ASSUME IInv, Next
               PROVE  Clean
    OBVIOUS
  <2>0. Len(jobs) \in Nat
    BY JobsLength DEF IInv
  <2>1. CASE OnPublish
    <3>1. ~Problems(form) /\ KeyNames(form) \cap badKeys = {}
      BY <2>1 DEF OnPublish, KeyStatuses, IInv, ButtonsFollow
    <3> QED
      BY <2>1, <3>1, StartKeeps
  <2>2. CASE OnVerify
    <3> DEFINE j == Job("verify", "", repoDir)
    <3>1. jobs = << >> /\ jobs' = Append(jobs, j) /\ j.kind = "verify"
      BY <2>2, StartKeeps DEF OnVerify, Job
    <3> HIDE DEF j
    <3>2. Len(jobs') = 1 /\ jobs'[1] = j
      BY <3>1, Single
    <3> QED
      BY <3>1, <3>2
  <2>3. ASSUME NEW i \in 1 .. Len(jobs), JobStep(i)
        PROVE  Clean
    <3>1. CASE PublishWork(i) \/ VerifyWork(i)
      <4>1. IInv' /\ jobs = <<jobs[1]>>
        BY <3>1, WorkKeeps, OneIndex DEF IInv
      <4>2. Len(jobs) = 1 /\ (jobs' = << >> \/ \E k : jobs' = <<k>>)
        BY <4>1, Single DEF IInv, OneJob
      <4>3. Len(<< >>) = 0
        OBVIOUS
      <4> QED
        BY <4>2, <4>3, Single
    <3>2. CASE PublishDone(i) \/ VerifyDone(i)
      BY <2>0, <3>2, DoneKeeps
    <3> QED
      BY <2>3, <3>1, <3>2 DEF JobStep
  <2>4. CASE \/ \E f \in Form : EditForm(f)
             \/ EditRequest \/ OnSave \/ SaveStep
             \/ \E k \in Breakable : KeyFileChanges(k)
    <3>1. jobs' = jobs
      BY <2>4 DEF EditForm, EditRequest, OnSave, SaveStep, SaveCancelled, SaveFails,
                  SaveWrites, KeyFileChanges
    <3> QED
      BY <2>0, <3>1
  <2> QED
    BY <2>1, <2>2, <2>3, <2>4 DEF Next
<1> QED
  BY <1>1, InvHolds, PTL DEF Spec, JobsStartClean

=============================================================================
