---------------------------- MODULE TargetsEditor ----------------------------
(***************************************************************************)
(* The second step of the packing assistant (internal/packui/targets.go):  *)
(* the platforms of a pack.yaml and their files, the rows of widgets they  *)
(* are edited in, and the complaints of Config.Validate those rows show.   *)
(*                                                                         *)
(* Everything runs on the Fyne goroutine, one callback at a time. What can *)
(* go wrong is that rows and configuration part: a row's callbacks write   *)
(* through a pointer into a slice that other callbacks append to and cut,  *)
(* and its labels are read from the complaints known when it was built.    *)
(*                                                                         *)
(* A platform is its "os-arch" pair, a file its destination and kind; Src  *)
(* and Mode are edited and judged as Dst is.                               *)
(***************************************************************************)
EXTENDS SequencesExt, Integers

CONSTANTS Pairs,        \* the well-formed os-arch pairs
          Dsts,         \* the well-formed destinations
          MaxPlatforms, \* bound of the model
          MaxFiles      \* bound of the model: files per platform

ASSUME EditorAssumption ==
  /\ "linux-amd64" \in Pairs /\ "bad" \notin Pairs /\ "" \notin Dsts
  /\ MaxPlatforms \in Nat \ {0} /\ MaxFiles \in Nat \ {0}

VARIABLES targets,  \* Wizard.cfg.Targets
          problems, \* Wizard.problems: the fields with a complaint
          rows,     \* the widgets
          rebuilt,  \* history: was the last edit one that redraws the editor?
          before    \* history: the complaints of the form just before that edit

vars == <<targets, problems, rows, rebuilt, before>>

\* The kinds of the chooser, and one a loaded file may have that is not on it.
Known == "data"
File == [dst: Dsts \cup {""}, kind: {Known, "odd"}]
Platform == [pair: Pairs \cup {"bad"}, files: BoundedSeq(File, MaxFiles)]
NewPlatform == [pair |-> "linux-amd64", files |-> << >>]
NewFile == [dst |-> "", kind |-> Known]

-----------------------------------------------------------------------------
\* Config.Validate, on what this step edits. A field of a platform has file 0.
Problem(i, j, f) == [platform |-> i, file |-> j, field |-> f]

PlatformProblems(t, i) ==
  {Problem(i, 0, f) : f \in
     (IF t[i].pair = "bad" THEN {"os"} ELSE {})
       \cup (IF \E h \in 1 .. i - 1 : t[h].pair = t[i].pair THEN {"twice"} ELSE {})
       \cup (IF t[i].files = << >> THEN {"files"} ELSE {})}

FileProblems(t, i, j) ==
  LET fs == t[i].files
  IN  {Problem(i, j, f) : f \in
         (IF fs[j].dst = "" \/ \E h \in 1 .. j - 1 : fs[h].dst = fs[j].dst THEN {"dst"} ELSE {})
           \cup (IF fs[j].kind # Known THEN {"kind"} ELSE {})}

FileIds(t) == UNION {{i} \X DOMAIN t[i].files : i \in DOMAIN t}

Validate(t) == UNION {PlatformProblems(t, i) : i \in DOMAIN t}
                 \cup UNION {FileProblems(t, k[1], k[2]) : k \in FileIds(t)}

-----------------------------------------------------------------------------
\* The labels of one row, given the complaints known when they are built.
Says(known, i, j) == {p.field : p \in {q \in known : q.platform = i /\ q.file = j}}

\* Has the editor of t, drawn top down, revalidated by the time the labels of file
\* j of platform i are built? Selecting a row's kind in its chooser does, if the
\* kind is on it. Platform i's own labels come before its files': j is 0.
Revalidated(t, i, j) ==
  \E k \in FileIds(t) : /\ k[1] < i \/ (k[1] = i /\ k[2] <= j)
                        /\ t[k[1]].files[k[2]].kind = Known

Heard(t, known, i, j) == IF Revalidated(t, i, j) THEN Validate(t) ELSE known

\* A mutant of FileRow: the labels are built before the chooser is set.
FileRowLabelsFirst(t, known, i, j) ==
  [dst |-> t[i].files[j].dst, kind |-> t[i].files[j].kind,
   says |-> Says(Heard(t, known, i, j - 1), i, j)]

\* Wizard.fileRow.
FileRow(t, known, i, j) ==
  [dst |-> t[i].files[j].dst, kind |-> t[i].files[j].kind,
   says |-> Says(Heard(t, known, i, j), i, j)]

\* Wizard.platformCard: at is the element its callbacks point to, 0 one of an
\* array the configuration no longer uses.
PlatformCard(t, known, i) ==
  [at |-> i, pair |-> t[i].pair, says |-> Says(Heard(t, known, i, 0), i, 0),
   files |-> [j \in DOMAIN t[i].files |-> FileRow(t, known, i, j)]]

\* Wizard.rebuildTargets.
RebuildTargets(t, known) == [i \in DOMAIN t |-> PlatformCard(t, known, i)]

\* Wizard.revalidate. The preview and the summary, which it writes anew as well,
\* are left out.
Revalidate(t) == problems' = Validate(t)

\* What every insertion and removal ends with.
Redraw(t) == /\ targets' = t
             /\ rows' = RebuildTargets(t, problems)
             /\ Revalidate(t)
             /\ rebuilt' = TRUE /\ before' = Validate(targets)

-----------------------------------------------------------------------------
Init == /\ targets \in BoundedSeq(Platform, MaxPlatforms)
        /\ rows = RebuildTargets(targets, {})
        /\ problems = Validate(targets)
        /\ rebuilt = TRUE /\ before = {}

\* A mutant of AddPlatform: only the new card is drawn. The others keep their
\* pointers, into an array the append may have left behind.
AddPlatformPatched ==
  LET t == Append(targets, NewPlatform)
  IN  /\ Len(targets) < MaxPlatforms
      /\ targets' = t
      /\ \E grown \in BOOLEAN :
           rows' = Append([i \in DOMAIN rows |-> [rows[i] EXCEPT !.at = IF grown THEN 0 ELSE i]],
                          PlatformCard(t, problems, Len(t)))
      /\ Revalidate(t)
      /\ rebuilt' = TRUE /\ before' = Validate(targets)

AddPlatform == Len(targets) < MaxPlatforms /\ Redraw(Append(targets, NewPlatform))

\* A mutant of RemovePlatform: what was complained about is not judged again.
RemovePlatformQuietly(i) ==
  /\ targets' = RemoveAt(targets, i)
  /\ rows' = RebuildTargets(targets', problems)
  /\ rebuilt' = TRUE /\ before' = Validate(targets)
  /\ UNCHANGED problems

RemovePlatform(i) == Redraw(RemoveAt(targets, i))

AddFile(i) ==
  /\ Len(targets[i].files) < MaxFiles
  /\ Redraw([targets EXCEPT ![i].files = Append(@, NewFile)])

RemoveFile(i, j) == Redraw([targets EXCEPT ![i].files = RemoveAt(@, j)])

\* A key in an entry, or a choice: the row's callback writes, and revalidates. No
\* label of the editor is read again.
Types(t, r) == /\ targets' = t
               /\ rows' = r
               /\ Revalidate(t)
               /\ rebuilt' = FALSE /\ before' = {}

TypePair(i, s) ==
  /\ s # rows[i].pair
  /\ Types(IF rows[i].at \in DOMAIN targets THEN [targets EXCEPT ![rows[i].at].pair = s] ELSE targets,
           [rows EXCEPT ![i].pair = s])

TypeDst(i, j, s) == /\ s # rows[i].files[j].dst
                    /\ Types([targets EXCEPT ![i].files[j].dst = s],
                             [rows EXCEPT ![i].files[j].dst = s])

ChooseKind(i, j) == Types([targets EXCEPT ![i].files[j].kind = Known],
                          [rows EXCEPT ![i].files[j].kind = Known])

Next ==
  \/ AddPlatform
  \/ \E i \in DOMAIN targets :
       \/ RemovePlatform(i) \/ AddFile(i)
       \/ \E s \in Pairs \cup {"bad"} : TypePair(i, s)
       \/ \E j \in DOMAIN targets[i].files :
            \/ RemoveFile(i, j) \/ ChooseKind(i, j)
            \/ \E s \in Dsts \cup {""} : TypeDst(i, j, s)

Spec == Init /\ [][Next]_vars

-----------------------------------------------------------------------------
\* Every entry shows the field of the configuration it edits, whatever has been
\* inserted, removed and typed (targets.go rebuildTargets: "keeps the widget tree
\* and the model in step by construction").
RowsInStep ==
  /\ Len(rows) = Len(targets)
  /\ \A i \in DOMAIN rows :
       /\ rows[i].at = i /\ rows[i].pair = targets[i].pair
       /\ Len(rows[i].files) = Len(targets[i].files)
       /\ \A j \in DOMAIN rows[i].files :
            /\ rows[i].files[j].dst = targets[i].files[j].dst
            /\ rows[i].files[j].kind = targets[i].files[j].kind

\* Right after the editor was redrawn, a file whose kind the chooser knows shows
\* exactly its own complaints, although revalidate has yet to run when the labels
\* are read (targets.go problemLabel: "The targets editor is rebuilt on every
\* change, so these are read once").
RedrawnFilesAreJudged ==
  rebuilt => \A k \in FileIds(targets) :
    targets[k[1]].files[k[2]].kind = Known =>
      rows[k[1]].files[k[2]].says = Says(Validate(targets), k[1], k[2])

\* The labels every row of widgets r shows are those of the complaints known, or of
\* the complaints other.
SaysEither(r, known, other) ==
  \A i \in DOMAIN r :
    /\ r[i].says \in {Says(known, i, 0), Says(other, i, 0)}
    /\ \A j \in DOMAIN r[i].files : r[i].files[j].says \in {Says(known, i, j), Says(other, i, j)}

\* No label of a redrawn editor is older than the edit that redrew it: each says what
\* is wrong at its place in the form as it is, or in the form just before that edit,
\* though the redraw comes before the revalidation and the chooser of some row may
\* revalidate half way through it (targets.go rebuildTargets before revalidate).
LabelsLagOneEdit == rebuilt => SaysEither(rows, before, Validate(targets))

=============================================================================
