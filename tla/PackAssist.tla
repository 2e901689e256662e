----------------------------- MODULE PackAssist -----------------------------
(***************************************************************************)
(* The packing assistant: the wizard's form, its Publish tab and the runs  *)
(* of the packer and of the verification client it starts (internal/       *)
(* packui, and Runner.Publish of internal/packrun).                        *)
(*                                                                         *)
(* The operator's actions run on the Fyne goroutine, one at a time. A job  *)
(* runs on a goroutine of its own (fyneui.Run) while the operator goes on  *)
(* editing, and its last closure comes back through the Fyne queue.        *)
(*                                                                         *)
(* A pack.yaml is abstracted to its channel, which stands for channel and  *)
(* version line together and so for the delegated roles, and the optional  *)
(* keys, a publish would use; to how many platforms it lists; and to       *)
(* whether every other rule of Config.Validate is met.                     *)
(***************************************************************************)
EXTENDS Sequences, Naturals

CONSTANTS Channels,   \* the channels an operator may type
          Paths,      \* where a pack.yaml may be kept
          Repos,      \* the repository directories
          Breakable,  \* the keys whose files come and go while the wizard is open
          HasRunner,  \* was the assistant given a packer to run?
          MaxTargets, \* bound of the model: platforms in the form
          MaxJobs     \* bound of the model: jobs in flight

\* The three required keys stand or fall together; a channel has one of its own.
Keys == {"roles"} \cup Channels

ASSUME PackAssistAssumption ==
  /\ Breakable \subseteq Keys /\ HasRunner \in BOOLEAN
  /\ "stable" \in Channels /\ Channels \cap {"", "roles", "torn"} = {}
  /\ "" \notin Paths \cup Repos
  /\ MaxTargets \in Nat \ {0} /\ MaxJobs \in Nat \ {0}

VARIABLES form,       \* Wizard.cfg
          saved,      \* what each path holds on disk
          configPath, repoDir, \* Options.ConfigPath, Options.RepoDir
          timeOk,     \* does the reference-time field parse?
          badKeys,    \* the keys whose variable names no usable file
          keysBox,    \* the keys the Publish tab lists, and those it finds fault with
          blocked, running, published, \* publishUI's flags
          publishOn, verifyOn,         \* are its two buttons enabled?
          saving,     \* the bytes an open save dialog will write, NoFile without one
          jobs,       \* fyneui.Run's goroutines, and their results on the way back
          servedTo,   \* history: repositories the packer has published to
          crashed     \* has the process panicked?

fields == <<form, saved, configPath, repoDir, timeOk>>
flags == <<blocked, running, published, publishOn, verifyOn>>
vars == <<fields, badKeys, keysBox, flags, saving, jobs, servedTo, crashed>>

-----------------------------------------------------------------------------
Form == [channel: Channels, targets: 0 .. MaxTargets, rest: BOOLEAN]
NoFile == [channel |-> "", targets |-> 0, rest |-> FALSE]
Torn == [channel |-> "torn", targets |-> 0, rest |-> FALSE]

\* Config.Validate, as far as anybody acts on it: does it find a problem?
Problems(f) == ~f.rest \/ f.targets = 0

\* publishUI.keyStatuses: the required keys, and the delegations of the channel
\* and of its version line.
KeyNames(f) == {"roles", f.channel}
KeyStatuses(f) == [names |-> KeyNames(f), bad |-> KeyNames(f) \cap badKeys]

\* publishUI.setBlocked, called with the flags as they are by then.
SetBlocked(b) ==
  /\ blocked' = b
  /\ publishOn' = (HasRunner /\ ~b /\ ~running')
  /\ verifyOn' = (published' /\ ~running')

\* publishUI.refresh. The command line it shows is wording.
Refresh == keysBox' = KeyStatuses(form) /\ SetBlocked(blocked)

\* A job. A publish carries its request; a verification its repository, and the
\* wizard's own configuration, which it shares with the form.
Job(k, c, r) == [kind |-> k, config |-> c, repo |-> r, at |-> "work", err |-> "nil",
                 res |-> FALSE]

-----------------------------------------------------------------------------
\* New: the form is the file named on the command line, or a blank one.
Init == /\ saved \in [Paths -> Form \cup {NoFile}]
        /\ configPath \in Paths \cup {""}
        /\ form = IF configPath # "" /\ saved[configPath] # NoFile THEN saved[configPath]
                  ELSE [channel |-> "stable", targets |-> 1, rest |-> FALSE]
        /\ repoDir \in Repos \cup {""}
        /\ timeOk = TRUE
        /\ badKeys \in SUBSET Breakable
        /\ keysBox = KeyStatuses(form)
        /\ running = FALSE /\ published = FALSE
        /\ blocked = Problems(form)
        /\ publishOn = (HasRunner /\ ~blocked) /\ verifyOn = FALSE
        /\ saving = NoFile
        /\ jobs = << >>
        /\ servedTo = {}
        /\ crashed = FALSE

\* The operator can reach the window: no dialog is over it.
Free == ~crashed /\ saving = NoFile

\* An edit of the form: every one ends in revalidate.
EditForm(f) ==
  /\ Free /\ f # form
  /\ \/ f.targets = form.targets                                   \* a text field
     \/ f.channel = form.channel /\ f.targets = form.targets + 1 /\ ~f.rest
                              \* a platform, which comes without its files
     \/ f.channel = form.channel /\ f.targets = form.targets - 1   \* one removed
  /\ form' = f
  /\ UNCHANGED <<running, published>> /\ SetBlocked(Problems(f))
  /\ UNCHANGED <<saved, configPath, repoDir, timeOk, badKeys, keysBox, saving, jobs,
                 servedTo, crashed>>

\* An edit of the Publish tab's fields: every one ends in refresh.
EditRequest ==
  /\ Free
  /\ \/ repoDir' \in Repos \cup {""} /\ UNCHANGED <<configPath, timeOk>>
     \/ configPath' \in Paths \cup {""} /\ UNCHANGED <<repoDir, timeOk>>
     \/ timeOk' \in BOOLEAN /\ UNCHANGED <<configPath, repoDir>>
  /\ <<repoDir', configPath', timeOk'>> # <<repoDir, configPath, timeOk>>
  /\ UNCHANGED <<running, published>> /\ Refresh
  /\ UNCHANGED <<form, saved, badKeys, saving, jobs, servedTo, crashed>>

\* onSave marshals the form, then lets the operator choose a file.
OnSave ==
  /\ Free
  /\ saving' = form
  /\ UNCHANGED <<fields, badKeys, keysBox, flags, jobs, servedTo, crashed>>

SaveCancelled ==
  /\ ~crashed /\ saving # NoFile
  /\ saving' = NoFile
  /\ UNCHANGED <<fields, badKeys, keysBox, flags, jobs, servedTo, crashed>>

\* The file is open, and so empty, when the write fails.
SaveFails(p) ==
  /\ ~crashed /\ saving # NoFile
  /\ saved' = [saved EXCEPT ![p] = Torn]
  /\ saving' = NoFile
  /\ UNCHANGED <<form, configPath, repoDir, timeOk, badKeys, keysBox, flags, jobs,
                 servedTo, crashed>>

\* setConfigPath puts the path in its entry, which refreshes if it changes.
SaveWrites(p) ==
  /\ ~crashed /\ saving # NoFile
  /\ saved' = [saved EXCEPT ![p] = saving]
  /\ saving' = NoFile
  /\ configPath' = p
  /\ UNCHANGED <<running, published>>
  /\ IF p = configPath THEN UNCHANGED <<keysBox, blocked, publishOn, verifyOn>> ELSE Refresh
  /\ UNCHANGED <<form, repoDir, timeOk, badKeys, jobs, servedTo, crashed>>

-----------------------------------------------------------------------------
\* A mutant of OnPublish: the statuses are those the tab lists.
OnPublishAsListed ==
  /\ Free /\ publishOn /\ Len(jobs) < MaxJobs
  /\ timeOk /\ keysBox.bad = {}
  /\ running' = TRUE /\ UNCHANGED published
  /\ SetBlocked(blocked)
  /\ jobs' = Append(jobs, Job("publish", configPath, repoDir))
  /\ UNCHANGED <<fields, badKeys, keysBox, saving, servedTo, crashed>>

\* onPublish: a malformed time or an unusable key ends it with a message only.
OnPublish ==
  /\ Free /\ publishOn /\ Len(jobs) < MaxJobs
  /\ timeOk /\ KeyStatuses(form).bad = {}
  /\ running' = TRUE /\ UNCHANGED published
  /\ SetBlocked(blocked)
  /\ jobs' = Append(jobs, Job("publish", configPath, repoDir))
  /\ UNCHANGED <<fields, badKeys, keysBox, saving, servedTo, crashed>>

OnVerify ==
  /\ Free /\ verifyOn /\ Len(jobs) < MaxJobs
  /\ running' = TRUE /\ UNCHANGED published
  /\ SetBlocked(blocked)
  /\ jobs' = Append(jobs, Job("verify", "", repoDir))
  /\ UNCHANGED <<fields, badKeys, keysBox, saving, servedTo, crashed>>

\* Job i has err to report, with a Result or none. A process that could not be
\* started leaves a Result too.
Ends(i, err, res) == jobs' = [jobs EXCEPT ![i].at = "done", ![i].err = err, ![i].res = res]

\* What the packer makes of the pack.yaml that is on disk when it reads it. It
\* has the last word: it may refuse what the form let pass.
Packer(i, code) ==
  LET j == jobs[i]
  IN  /\ code = 0 => j.config \in Paths /\ saved[j.config] \in Form
                       /\ ~Problems(saved[j.config])
      /\ servedTo' = IF code = 0 THEN servedTo \cup {j.repo} ELSE servedTo

\* Runner.Publish after its own check of the keys, which onPublish has made on
\* the same statuses: the request, the binary, the process, its exit code.
PublishWork(i) ==
  /\ ~crashed /\ jobs[i].kind = "publish" /\ jobs[i].at = "work"
  /\ \/ /\ jobs[i].config = "" \/ jobs[i].repo = ""
        /\ Ends(i, "ErrPublish", FALSE) /\ UNCHANGED servedTo
     \/ /\ jobs[i].config # "" /\ jobs[i].repo # ""
        /\ \/ Ends(i, "ErrNotFound", FALSE) /\ UNCHANGED servedTo
           \/ Ends(i, "ErrPublish", TRUE) /\ UNCHANGED servedTo
           \/ \E code \in 0 .. 2 :
                /\ Packer(i, code)
                /\ Ends(i, <<"nil", "ErrPublish", "ErrUsage">>[code + 1], TRUE)
  /\ UNCHANGED <<fields, badKeys, keysBox, flags, saving, crashed>>

\* Verify, on its goroutine, indexes the platforms of the form as they are by now.
VerifyWork(i) ==
  /\ ~crashed /\ jobs[i].kind = "verify" /\ jobs[i].at = "work"
  /\ IF form.targets = 0 THEN crashed' = TRUE /\ UNCHANGED jobs
     ELSE /\ \/ jobs[i].repo # "" /\ Ends(i, "nil", FALSE)
             \/ Ends(i, "ErrVerify", FALSE)
          /\ UNCHANGED crashed
  /\ UNCHANGED <<fields, badKeys, keysBox, flags, saving, servedTo>>

\* Mutants of PublishDone: a failure leaves running set; a Result, and not the
\* error, decides that the repository has been published to; or the closure
\* restores the validity the form had before it.
Dequeue(i) == jobs' = SubSeq(jobs, 1, i - 1) \o SubSeq(jobs, i + 1, Len(jobs))
PublishDoneOnSuccess(i) ==
  /\ ~crashed /\ jobs[i].kind = "publish" /\ jobs[i].at = "done"
  /\ running' = (jobs[i].err # "nil")
  /\ published' = (published \/ jobs[i].err = "nil")
  /\ SetBlocked(blocked)
  /\ Dequeue(i)
  /\ UNCHANGED <<fields, badKeys, keysBox, saving, servedTo, crashed>>
PublishDoneByResult(i) ==
  /\ ~crashed /\ jobs[i].kind = "publish" /\ jobs[i].at = "done"
  /\ running' = FALSE
  /\ published' = (published \/ jobs[i].res)
  /\ SetBlocked(blocked)
  /\ Dequeue(i)
  /\ UNCHANGED <<fields, badKeys, keysBox, saving, servedTo, crashed>>
PublishDoneUnblocking(i) ==
  /\ ~crashed /\ jobs[i].kind = "publish" /\ jobs[i].at = "done"
  /\ running' = FALSE
  /\ published' = (published \/ jobs[i].err = "nil")
  /\ SetBlocked(FALSE)
  /\ Dequeue(i)
  /\ UNCHANGED <<fields, badKeys, keysBox, saving, servedTo, crashed>>

\* The done closure of onPublish.
PublishDone(i) ==
  /\ ~crashed /\ jobs[i].kind = "publish" /\ jobs[i].at = "done"
  /\ running' = FALSE
  /\ published' = (published \/ jobs[i].err = "nil")
  /\ SetBlocked(blocked)
  /\ Dequeue(i)
  /\ UNCHANGED <<fields, badKeys, keysBox, saving, servedTo, crashed>>

\* The done closure of onVerify.
VerifyDone(i) ==
  /\ ~crashed /\ jobs[i].kind = "verify" /\ jobs[i].at = "done"
  /\ running' = FALSE /\ UNCHANGED published
  /\ SetBlocked(blocked)
  /\ Dequeue(i)
  /\ UNCHANGED <<fields, badKeys, keysBox, saving, servedTo, crashed>>

\* A key file is moved away, or put in its place.
KeyFileChanges(k) ==
  /\ ~crashed
  /\ badKeys' = IF k \in badKeys THEN badKeys \ {k} ELSE badKeys \cup {k}
  /\ UNCHANGED <<fields, keysBox, flags, saving, jobs, servedTo, crashed>>

-----------------------------------------------------------------------------
JobStep(i) == PublishWork(i) \/ VerifyWork(i) \/ PublishDone(i) \/ VerifyDone(i)
SaveStep == SaveCancelled \/ \E p \in Paths : SaveFails(p) \/ SaveWrites(p)

Next == \/ \E f \in Form : EditForm(f)
        \/ EditRequest \/ OnSave \/ SaveStep \/ OnPublish \/ OnVerify
        \/ \E i \in 1 .. Len(jobs) : JobStep(i)
        \/ \E k \in Breakable : KeyFileChanges(k)

Spec == Init /\ [][Next]_vars

\* A job runs to its end: the packer is a child that exits, and the main loop
\* runs what it is handed. The operator need do nothing.
FairSpec == Spec /\ WF_vars(\E i \in 1 .. Len(jobs) : JobStep(i))

-----------------------------------------------------------------------------
\* A job starts alone: the end of the one would clear the other's running. And a
\* publish starts from a form without problems and with keys that are usable then,
\* whatever the button and the list of keys were last set to (publish.go setBlocked,
\* onPublish).
JobsStartClean ==
  [][Len(jobs') > Len(jobs) =>
       /\ jobs = << >>
       /\ jobs'[Len(jobs')].kind = "publish" =>
            ~Problems(form) /\ KeyNames(form) \cap badKeys = {}]_vars

\* The Publish button says what the form is worth now, whatever was edited
\* while a job ran (publish.go setBlocked: "disables publishing while the form
\* still has problems").
PublishIsVetted == publishOn <=> HasRunner /\ jobs = << >> /\ ~Problems(form)

\* Verification is on offer only after the packer has really published in this
\* session (publish.go published).
VerifyNeedsAPublish == verifyOn => servedTo # {}

\* However a job ends, the tab becomes usable again (publish.go onPublish).
RunningEnds == running ~> (~running \/ crashed)

-----------------------------------------------------------------------------
\* What comments say and the code does not do.

\* targets.go rebuildTargets: "A release needs at least one" platform, and the
\* verification of a release takes it from there.
VerifySurvives == ~crashed

=============================================================================
