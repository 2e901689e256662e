---------------------------- MODULE TargetsProofs ----------------------------
(***************************************************************************)
(* Machine-checked proofs about module TargetsEditor, for any pairs and    *)
(* destinations and any number of platforms and files.                     *)
(***************************************************************************)
EXTENDS TargetsEditor, SequenceTheorems, TLAPS

\* A platform with any number of files.
Entry == [pair: Pairs \cup {"bad"}, files: Seq(File)]

\* Row r is the row of platform p, the ith, whatever its labels say. It is stated
\* by the shape of the row, so that an edit of one entry can be followed.
Matches(r, p, i) ==
  /\ r = [at |-> i, pair |-> p.pair, says |-> r.says, files |-> r.files]
  /\ r.files = [j \in 1 .. Len(p.files) |-> r.files[j]]
  /\ \A j \in 1 .. Len(p.files) :
       r.files[j] = [dst |-> p.files[j].dst, kind |-> p.files[j].kind, says |-> r.files[j].says]

InStep(r, t) == /\ r = [i \in 1 .. Len(t) |-> r[i]]
                /\ \A i \in 1 .. Len(t) : Matches(r[i], t[i], i)

IInv == targets \in Seq(Entry) /\ InStep(rows, targets)

-----------------------------------------------------------------------------
\* A function over 1 .. n is a sequence of length n.
LEMMA LenOfFunction ==
  ASSUME NEW n \in Nat, NEW f, f = [i \in 1 .. n |-> f[i]]
  PROVE  Len(f) = n /\ DOMAIN f = 1 .. n
<1> DEFINE S == {f[i] : i \in 1 .. n}
<1>1. f \in [1 .. n -> S]
  OBVIOUS
<1>2. f \in Seq(S) /\ DOMAIN f = 1 .. n
  BY <1>1
<1> QED
  BY <1>2, LenProperties

\* Rows in step with the configuration are what RowsInStep asks for.
LEMMA InStepIsRowsInStep ==
  ASSUME IInv
  PROVE  RowsInStep
<1>1. /\ Len(targets) \in Nat
      /\ \A i \in 1 .. Len(targets) : Len(targets[i].files) \in Nat
  <2>1. \A i \in 1 .. Len(targets) : targets[i] \in Entry
    BY ElementOfSeq DEF IInv
  <2> QED
    BY <2>1, LenProperties DEF IInv, Entry
<1>2. Len(rows) = Len(targets) /\ DOMAIN rows = 1 .. Len(targets)
  BY <1>1, LenOfFunction DEF IInv, InStep
<1>3. ASSUME NEW i \in 1 .. Len(targets)
      PROVE  /\ rows[i].at = i /\ rows[i].pair = targets[i].pair
             /\ Len(rows[i].files) = Len(targets[i].files)
             /\ DOMAIN rows[i].files = 1 .. Len(targets[i].files)
             /\ \A j \in DOMAIN rows[i].files :
                  /\ rows[i].files[j].dst = targets[i].files[j].dst
                  /\ rows[i].files[j].kind = targets[i].files[j].kind
  <2>1. Matches(rows[i], targets[i], i)
    BY DEF IInv, InStep
  <2>2. rows[i].at = i /\ rows[i].pair = targets[i].pair
    BY <2>1 DEF Matches
  <2>3. /\ Len(rows[i].files) = Len(targets[i].files)
        /\ DOMAIN rows[i].files = 1 .. Len(targets[i].files)
    BY <1>1, <2>1, LenOfFunction DEF Matches
  <2>4. \A j \in 1 .. Len(targets[i].files) :
          /\ rows[i].files[j].dst = targets[i].files[j].dst
          /\ rows[i].files[j].kind = targets[i].files[j].kind
    <3>1. ASSUME NEW j \in 1 .. Len(targets[i].files)
          PROVE  rows[i].files[j] = [dst |-> targets[i].files[j].dst, kind |-> targets[i].files[j].kind,
                                     says |-> rows[i].files[j].says]
      BY <2>1 DEF Matches
    <3>2. ASSUME NEW j \in 1 .. Len(targets[i].files)
          PROVE  /\ rows[i].files[j].dst = targets[i].files[j].dst
                 /\ rows[i].files[j].kind = targets[i].files[j].kind
      <4> DEFINE x == rows[i].files[j]
                 a == targets[i].files[j].dst
                 b == targets[i].files[j].kind
                 c == rows[i].files[j].says
      <4>1. x = [dst |-> a, kind |-> b, says |-> c]
        BY <3>1
      <4> HIDE DEF x, a, b, c
      <4>2. x.dst = a /\ x.kind = b
        BY <4>1
      <4> QED
        BY <4>2 DEF x, a, b
    <3> QED
      BY <3>2
  <2> QED
    BY <2>2, <2>3, <2>4
<1> QED
  BY <1>2, <1>3 DEF RowsInStep

\* What is drawn anew is in step, whatever was known to be wrong (targets.go
\* rebuildTargets).
LEMMA RebuiltInStep ==
  ASSUME NEW t \in Seq(Entry), NEW known
  PROVE  InStep(RebuildTargets(t, known), t)
<1> DEFINE r == RebuildTargets(t, known)
<1>1. DOMAIN t = 1 .. Len(t)
  BY LenProperties
<1>2. r = [i \in 1 .. Len(t) |-> PlatformCard(t, known, i)]
  BY <1>1 DEF RebuildTargets
<1>3. ASSUME NEW i \in 1 .. Len(t)
      PROVE  Matches(PlatformCard(t, known, i), t[i], i)
  <2>1. t[i].files \in Seq(File)
    <3>1. t[i] \in Entry
      BY ElementOfSeq
    <3> QED
      BY <3>1 DEF Entry
  <2>2. DOMAIN t[i].files = 1 .. Len(t[i].files)
    BY <2>1, LenProperties
  <2>3. PlatformCard(t, known, i).files = [j \in 1 .. Len(t[i].files) |-> FileRow(t, known, i, j)]
    BY <2>2 DEF PlatformCard
  <2>4. \A j \in 1 .. Len(t[i].files) :
          FileRow(t, known, i, j) = [dst |-> t[i].files[j].dst, kind |-> t[i].files[j].kind,
                                     says |-> FileRow(t, known, i, j).says]
    BY DEF FileRow
  <2>5. PlatformCard(t, known, i) =
          [at |-> i, pair |-> t[i].pair, says |-> PlatformCard(t, known, i).says,
           files |-> PlatformCard(t, known, i).files]
    BY DEF PlatformCard
  <2> QED
    BY <2>3, <2>4, <2>5 DEF Matches
<1>4. \A i \in 1 .. Len(t) : r[i] = PlatformCard(t, known, i)
  BY <1>2
<1>5. \A i \in 1 .. Len(t) : Matches(r[i], t[i], i)
  BY <1>3, <1>4
<1>6. r = [i \in 1 .. Len(t) |-> r[i]]
  BY <1>2, <1>4
<1> QED
  BY <1>5, <1>6 DEF InStep

\* By the time the labels of a file are read, drawing that very file has revalidated,
\* if the chooser knows its kind (targets.go fileRow).
LEMMA RebuiltIsJudged ==
  ASSUME NEW t \in Seq(Entry), NEW known, NEW k \in FileIds(t),
         t[k[1]].files[k[2]].kind = Known
  PROVE  RebuildTargets(t, known)[k[1]].files[k[2]].says = Says(Validate(t), k[1], k[2])
<1>1. PICK i \in DOMAIN t : k \in {i} \X DOMAIN t[i].files
  BY DEF FileIds
<1>2. k[1] = i /\ k[2] \in DOMAIN t[i].files /\ k = <<i, k[2]>>
  BY <1>1
<1>3. i \in 1 .. Len(t) /\ t[i] \in Entry
  BY <1>1, LenProperties, ElementOfSeq
<1>4. k[2] \in Nat
  <2>1. t[i].files \in Seq(File)
    BY <1>3 DEF Entry
  <2> QED
    BY <1>2, <2>1, LenProperties
<1>5. Revalidated(t, i, k[2])
  BY <1>2, <1>3, <1>4 DEF Revalidated
<1>6. FileRow(t, known, i, k[2]).says = Says(Validate(t), i, k[2])
  BY <1>5 DEF FileRow, Heard
<1>7. RebuildTargets(t, known)[i] = PlatformCard(t, known, i)
  BY <1>1 DEF RebuildTargets
<1>8. PlatformCard(t, known, i).files[k[2]] = FileRow(t, known, i, k[2])
  BY <1>2 DEF PlatformCard
<1> QED
  BY <1>2, <1>6, <1>7, <1>8

-----------------------------------------------------------------------------
\* An edit of row i and of what it points to leaves the others in step.
LEMMA EditInStep ==
  ASSUME NEW t \in Seq(Entry), NEW r, InStep(r, t), NEW i \in 1 .. Len(t),
         NEW p \in Entry, NEW q, Matches(q, p, i)
  PROVE  /\ [t EXCEPT ![i] = p] \in Seq(Entry)
         /\ InStep([r EXCEPT ![i] = q], [t EXCEPT ![i] = p])
<1> DEFINE u == [t EXCEPT ![i] = p]
           v == [r EXCEPT ![i] = q]
<1>1. /\ u \in Seq(Entry) /\ Len(u) = Len(t)
      /\ \A j \in 1 .. Len(t) : u[j] = IF j = i THEN p ELSE t[j]
  BY ExceptSeq
<1>2. DOMAIN r = 1 .. Len(t)
  BY DEF InStep
<1>3. /\ v = [j \in 1 .. Len(t) |-> v[j]]
      /\ \A j \in 1 .. Len(t) : v[j] = IF j = i THEN q ELSE r[j]
  BY <1>2
<1>4. \A j \in 1 .. Len(t) : Matches(v[j], u[j], j)
  BY <1>1, <1>3 DEF InStep
<1> QED
  BY <1>1, <1>3, <1>4 DEF InStep

\* A new value for the pair of a row and of its platform.
LEMMA PairMatches ==
  ASSUME NEW r, NEW p, NEW i, Matches(r, p, i), p \in Entry, NEW s \in Pairs \cup {"bad"}
  PROVE  [p EXCEPT !.pair = s] \in Entry /\ Matches([r EXCEPT !.pair = s], [p EXCEPT !.pair = s], i)
<1> DEFINE c == r.says
           fs == r.files
           q == [r EXCEPT !.pair = s]
           o == [p EXCEPT !.pair = s]
<1>1. r = [at |-> i, pair |-> p.pair, says |-> c, files |-> fs]
  BY DEF Matches
<1>2. o \in Entry /\ o.pair = s /\ o.files = p.files
  BY DEF Entry
<1> HIDE DEF c, fs, o
<1>3. q = [at |-> i, pair |-> s, says |-> c, files |-> fs]
  BY <1>1
<1> HIDE DEF q
<1>4. q.says = c /\ q.files = fs
  BY <1>3
<1>5. q = [at |-> i, pair |-> o.pair, says |-> q.says, files |-> q.files]
  BY <1>2, <1>3, <1>4
<1>6. /\ q.files = [j \in 1 .. Len(o.files) |-> q.files[j]]
      /\ \A j \in 1 .. Len(o.files) :
           q.files[j] = [dst |-> o.files[j].dst, kind |-> o.files[j].kind, says |-> q.files[j].says]
  BY <1>2, <1>4 DEF Matches, fs
<1>7. Matches(q, o, i)
  BY <1>5, <1>6 DEF Matches
<1> QED
  BY <1>2, <1>7 DEF q, o

\* A new file for row j of a card and of its platform.
LEMMA FileMatches ==
  ASSUME NEW r, NEW p, NEW i, Matches(r, p, i), p \in Entry,
         NEW j \in 1 .. Len(p.files), NEW f \in File, NEW g,
         g = [dst |-> f.dst, kind |-> f.kind, says |-> g.says]
  PROVE  /\ [p EXCEPT !.files[j] = f] \in Entry
         /\ Matches([r EXCEPT !.files[j] = g], [p EXCEPT !.files[j] = f], i)
<1> DEFINE c == r.says
           fs == r.files
           hs == [fs EXCEPT ![j] = g]
           q == [r EXCEPT !.files[j] = g]
           o == [p EXCEPT !.files[j] = f]
           n == Len(p.files)
<1>1. r = [at |-> i, pair |-> p.pair, says |-> c, files |-> fs]
  BY DEF Matches
<1>2. p.files \in Seq(File)
  BY DEF Entry
<1>3. /\ o = [p EXCEPT !.files = [p.files EXCEPT ![j] = f]]
      /\ [p.files EXCEPT ![j] = f] \in Seq(File) /\ Len([p.files EXCEPT ![j] = f]) = n
      /\ \A k \in 1 .. n : [p.files EXCEPT ![j] = f][k] = IF k = j THEN f ELSE p.files[k]
  BY <1>2, ExceptSeq
<1>4. /\ o \in Entry /\ o.pair = p.pair /\ Len(o.files) = n
      /\ \A k \in 1 .. n : o.files[k] = IF k = j THEN f ELSE p.files[k]
  BY <1>3 DEF Entry
<1>5. DOMAIN fs = 1 .. n
  BY DEF Matches
<1>6. /\ hs = [k \in 1 .. n |-> hs[k]]
      /\ \A k \in 1 .. n : hs[k] = IF k = j THEN g ELSE fs[k]
  BY <1>5
<1>7. \A k \in 1 .. n : k # j =>
        fs[k] = [dst |-> p.files[k].dst, kind |-> p.files[k].kind, says |-> fs[k].says]
  BY DEF Matches
<1> HIDE DEF c, fs, o, n
<1>8. q = [at |-> i, pair |-> p.pair, says |-> c, files |-> hs]
  BY <1>1
<1> HIDE DEF q, hs
<1>9. q.says = c /\ q.files = hs
  BY <1>8
<1>10. q = [at |-> i, pair |-> o.pair, says |-> q.says, files |-> q.files]
  BY <1>4, <1>8, <1>9
<1>11. q.files = [k \in 1 .. Len(o.files) |-> q.files[k]]
  BY <1>4, <1>6, <1>9
<1>12. ASSUME NEW k \in 1 .. Len(o.files)
       PROVE  q.files[k] = [dst |-> o.files[k].dst, kind |-> o.files[k].kind, says |-> q.files[k].says]
  <2>1. k \in 1 .. n
    BY <1>4
  <2>2. CASE k = j
    <3>1. q.files[k] = g /\ o.files[k] = f
      BY <1>4, <1>6, <1>9, <2>1, <2>2
    <3> QED
      BY <3>1
  <2>3. CASE k # j
    <3>1. q.files[k] = fs[k] /\ o.files[k] = p.files[k]
      BY <1>4, <1>6, <1>9, <2>1, <2>3
    <3> QED
      BY <1>7, <2>1, <2>3, <3>1
  <2> QED
    BY <2>2, <2>3
<1>13. Matches(q, o, i)
  BY <1>10, <1>11, <1>12 DEF Matches
<1> QED
  BY <1>4, <1>13 DEF q, o

-----------------------------------------------------------------------------
LEMMA RedrawInStep ==
  ASSUME NEW t \in Seq(Entry), Redraw(t)
  PROVE  IInv'
BY RebuiltInStep DEF Redraw, IInv

\* Sequences of bounded length are sequences, as are those with an element removed.
LEMMA BoundedIsSeq ==
  ASSUME NEW S, NEW n \in Nat
  PROVE  BoundedSeq(S, n) \subseteq Seq(S)
BY DEF BoundedSeq, SeqOf

LEMMA RemoveAtIsSeq ==
  ASSUME NEW S, NEW s \in Seq(S), NEW i \in 1 .. Len(s)
  PROVE  RemoveAt(s, i) \in Seq(S)
<1>1. Len(s) \in Nat /\ \A j \in 1 .. Len(s) : s[j] \in S
  BY LenProperties, ElementOfSeq
<1>2. SubSeq(s, 1, i - 1) \in Seq(S) /\ SubSeq(s, i + 1, Len(s)) \in Seq(S)
  BY <1>1, SubSeqProperties
<1> QED
  BY <1>2, ConcatProperties DEF RemoveAt

LEMMA InitInv == Init => IInv
<1> SUFFICES ASSUME Init
             PROVE  IInv
  OBVIOUS
<1>1. BoundedSeq(Platform, MaxPlatforms) \subseteq Seq(Entry)
  <2>1. Platform \subseteq Entry
    BY BoundedIsSeq, EditorAssumption DEF Platform, Entry
  <2>2. Seq(Platform) \subseteq Seq(Entry)
    BY <2>1
  <2> QED
    BY <2>2, BoundedIsSeq, EditorAssumption
<1> QED
  BY <1>1, RebuiltInStep DEF Init, IInv

\* Insertions and removals.
LEMMA RedrawKeeps ==
  ASSUME IInv
  PROVE  /\ AddPlatform => IInv'
         /\ \A i \in DOMAIN targets :
              /\ RemovePlatform(i) => IInv'
              /\ AddFile(i) => IInv'
              /\ \A j \in DOMAIN targets[i].files : RemoveFile(i, j) => IInv'
<1>1. targets \in Seq(Entry) /\ DOMAIN targets = 1 .. Len(targets)
  BY LenProperties DEF IInv
<1>2. ASSUME AddPlatform
      PROVE  IInv'
  <2>1. NewPlatform \in Entry
    <3>1. << >> \in Seq(File)
      OBVIOUS
    <3>2. "linux-amd64" \in Pairs
      BY EditorAssumption
    <3> QED
      BY <3>1, <3>2 DEF NewPlatform, Entry
  <2>2. Append(targets, NewPlatform) \in Seq(Entry)
    BY <1>1, <2>1, AppendProperties
  <2> QED
    BY <1>2, <2>2, RedrawInStep DEF AddPlatform
<1>3. ASSUME NEW i \in DOMAIN targets, RemovePlatform(i)
      PROVE  IInv'
  <2>1. RemoveAt(targets, i) \in Seq(Entry)
    BY <1>1, RemoveAtIsSeq
  <2> QED
    BY <1>3, <2>1, RedrawInStep DEF RemovePlatform
<1>4. ASSUME NEW i \in DOMAIN targets, NEW fs \in Seq(File)
      PROVE  [targets EXCEPT ![i].files = fs] \in Seq(Entry)
  <2>1. targets[i] \in Entry
    BY <1>1, ElementOfSeq
  <2>2. [targets[i] EXCEPT !.files = fs] \in Entry
    BY <2>1 DEF Entry
  <2> QED
    BY <1>1, <2>2, ExceptSeq
<1>5. \A i \in DOMAIN targets : targets[i].files \in Seq(File)
  <2>1. \A i \in DOMAIN targets : targets[i] \in Entry
    BY <1>1, ElementOfSeq
  <2> QED
    BY <2>1 DEF Entry
<1>6. ASSUME NEW i \in DOMAIN targets, AddFile(i)
      PROVE  IInv'
  <2>1. NewFile \in File
    BY DEF NewFile, File
  <2>2. Append(targets[i].files, NewFile) \in Seq(File)
    BY <1>5, <2>1, AppendProperties
  <2>3. [targets EXCEPT ![i].files = Append(targets[i].files, NewFile)] \in Seq(Entry)
    BY <1>4, <2>2
  <2> QED
    BY <1>6, <2>3, RedrawInStep DEF AddFile
<1>7. ASSUME NEW i \in DOMAIN targets, NEW j \in DOMAIN targets[i].files, RemoveFile(i, j)
      PROVE  IInv'
  <2>1. j \in 1 .. Len(targets[i].files)
    BY <1>5, LenProperties
  <2>2. RemoveAt(targets[i].files, j) \in Seq(File)
    BY <1>5, <2>1, RemoveAtIsSeq
  <2>3. [targets EXCEPT ![i].files = RemoveAt(targets[i].files, j)] \in Seq(Entry)
    BY <1>4, <2>2
  <2> QED
    BY <1>7, <2>3, RedrawInStep DEF RemoveFile
<1> QED
  BY <1>2, <1>3, <1>6, <1>7

\* What an edit leaves of the row of a file.
LEMMA EntrySet ==
  ASSUME NEW x, NEW a, NEW b, x = [dst |-> a, kind |-> b, says |-> x.says], NEW s
  PROVE  /\ [x EXCEPT !.dst = s] = [dst |-> s, kind |-> b, says |-> [x EXCEPT !.dst = s].says]
         /\ [x EXCEPT !.kind = s] = [dst |-> a, kind |-> s, says |-> [x EXCEPT !.kind = s].says]
<1> DEFINE c == x.says
           y == [x EXCEPT !.dst = s]
           z == [x EXCEPT !.kind = s]
<1>1. x = [dst |-> a, kind |-> b, says |-> c]
  OBVIOUS
<1> HIDE DEF c
<1>2. y = [dst |-> s, kind |-> b, says |-> c] /\ z = [dst |-> a, kind |-> s, says |-> c]
  BY <1>1
<1> HIDE DEF y, z
<1>3. y = [dst |-> s, kind |-> b, says |-> y.says] /\ z = [dst |-> a, kind |-> s, says |-> z.says]
  BY <1>2
<1> QED
  BY <1>3 DEF y, z

\* Keys and choices.
LEMMA EditKeeps ==
  ASSUME IInv, NEW i \in DOMAIN targets
  PROVE  /\ \A s \in Pairs \cup {"bad"} : TypePair(i, s) => IInv'
         /\ \A j \in DOMAIN targets[i].files :
              /\ ChooseKind(i, j) => IInv'
              /\ \A s \in Dsts \cup {""} : TypeDst(i, j, s) => IInv'
<1>1. /\ targets \in Seq(Entry) /\ DOMAIN targets = 1 .. Len(targets)
      /\ i \in 1 .. Len(targets) /\ targets[i] \in Entry
  BY LenProperties, ElementOfSeq DEF IInv
<1>2. InStep(rows, targets) /\ Matches(rows[i], targets[i], i)
  BY <1>1 DEF IInv, InStep
<1>3. ASSUME NEW s \in Pairs \cup {"bad"}, TypePair(i, s)
      PROVE  IInv'
  <2>1. rows[i].at = i
    BY <1>2 DEF Matches
  <2>2. /\ targets' = [targets EXCEPT ![i] = [targets[i] EXCEPT !.pair = s]]
        /\ rows' = [rows EXCEPT ![i] = [rows[i] EXCEPT !.pair = s]]
    BY <1>3, <2>1 DEF TypePair, Types
  <2> QED
    BY <1>1, <1>2, <2>2, PairMatches, EditInStep DEF IInv
<1>4. ASSUME NEW j \in DOMAIN targets[i].files, NEW f \in File, NEW g,
             g = [dst |-> f.dst, kind |-> f.kind, says |-> g.says],
             targets' = [targets EXCEPT ![i].files[j] = f],
             rows' = [rows EXCEPT ![i].files[j] = g]
      PROVE  IInv'
  <2>1. targets[i].files \in Seq(File)
    BY <1>1 DEF Entry
  <2>2. j \in 1 .. Len(targets[i].files)
    BY <2>1, LenProperties
  <2>3. /\ targets' = [targets EXCEPT ![i] = [targets[i] EXCEPT !.files[j] = f]]
        /\ rows' = [rows EXCEPT ![i] = [rows[i] EXCEPT !.files[j] = g]]
    BY <1>4
  <2>4. /\ [targets[i] EXCEPT !.files[j] = f] \in Entry
        /\ Matches([rows[i] EXCEPT !.files[j] = g], [targets[i] EXCEPT !.files[j] = f], i)
    BY <1>1, <1>2, <1>4, <2>2, FileMatches
  <2> QED
    BY <1>1, <1>2, <2>3, <2>4, EditInStep DEF IInv
<1>5. ASSUME NEW j \in DOMAIN targets[i].files
      PROVE  /\ targets[i].files[j] \in File
             /\ rows[i].files[j] = [dst |-> targets[i].files[j].dst,
                                    kind |-> targets[i].files[j].kind,
                                    says |-> rows[i].files[j].says]
  <2>1. targets[i].files \in Seq(File) /\ j \in 1 .. Len(targets[i].files)
    BY <1>1, LenProperties DEF Entry
  <2> QED
    BY <1>2, <2>1, ElementOfSeq DEF Matches
<1>6. ASSUME NEW j \in DOMAIN targets[i].files, NEW v
      PROVE  /\ [rows[i].files[j] EXCEPT !.dst = v] =
                  [dst |-> v, kind |-> targets[i].files[j].kind,
                   says |-> [rows[i].files[j] EXCEPT !.dst = v].says]
             /\ [rows[i].files[j] EXCEPT !.kind = v] =
                  [dst |-> targets[i].files[j].dst, kind |-> v,
                   says |-> [rows[i].files[j] EXCEPT !.kind = v].says]
  <2> DEFINE x == rows[i].files[j]
             a == targets[i].files[j].dst
             b == targets[i].files[j].kind
  <2>1. x = [dst |-> a, kind |-> b, says |-> x.says]
    BY <1>5
  <2> HIDE DEF x, a, b
  <2>2. /\ [x EXCEPT !.dst = v] = [dst |-> v, kind |-> b, says |-> [x EXCEPT !.dst = v].says]
        /\ [x EXCEPT !.kind = v] = [dst |-> a, kind |-> v, says |-> [x EXCEPT !.kind = v].says]
    BY <2>1, EntrySet
  <2> QED
    BY <2>2 DEF x, a, b
<1>7. ASSUME NEW j \in DOMAIN targets[i].files, NEW s \in Dsts \cup {""}, TypeDst(i, j, s)
      PROVE  IInv'
  <2> DEFINE f == [targets[i].files[j] EXCEPT !.dst = s]
             g == [rows[i].files[j] EXCEPT !.dst = s]
  <2>1. f \in File /\ f.dst = s /\ f.kind = targets[i].files[j].kind
    BY <1>5 DEF File
  <2>2. g = [dst |-> f.dst, kind |-> f.kind, says |-> g.says]
    <3>1. g = [dst |-> s, kind |-> targets[i].files[j].kind, says |-> g.says]
      BY <1>6
    <3> HIDE DEF f, g
    <3> QED
      BY <2>1, <3>1
  <2>3. /\ targets' = [targets EXCEPT ![i].files[j] = f]
        /\ rows' = [rows EXCEPT ![i].files[j] = g]
    BY <1>7 DEF TypeDst, Types
  <2> HIDE DEF f, g
  <2> QED
    BY <1>4, <2>1, <2>2, <2>3
<1>8. ASSUME NEW j \in DOMAIN targets[i].files, ChooseKind(i, j)
      PROVE  IInv'
  <2> DEFINE f == [targets[i].files[j] EXCEPT !.kind = Known]
             g == [rows[i].files[j] EXCEPT !.kind = Known]
  <2>1. f \in File /\ f.kind = Known /\ f.dst = targets[i].files[j].dst
    BY <1>5 DEF File
  <2>2. g = [dst |-> f.dst, kind |-> f.kind, says |-> g.says]
    <3>1. g = [dst |-> targets[i].files[j].dst, kind |-> Known, says |-> g.says]
      BY <1>6
    <3> HIDE DEF f, g
    <3> QED
      BY <2>1, <3>1
  <2>3. /\ targets' = [targets EXCEPT ![i].files[j] = f]
        /\ rows' = [rows EXCEPT ![i].files[j] = g]
    BY <1>8 DEF ChooseKind, Types
  <2> HIDE DEF f, g
  <2> QED
    BY <1>4, <2>1, <2>2, <2>3
<1> QED
  BY <1>3, <1>7, <1>8

LEMMA StepInv == IInv /\ [Next]_vars => IInv'
<1> SUFFICES ASSUME IInv, [Next]_vars
             PROVE  IInv'
  OBVIOUS
<1>1. CASE Next
  BY <1>1, RedrawKeeps, EditKeeps DEF Next
<1>2. CASE UNCHANGED vars
  BY <1>2 DEF vars, IInv, InStep, Matches
<1> QED
  BY <1>1, <1>2

LEMMA IInvHolds == Spec => []IInv
BY InitInv, StepInv, PTL DEF Spec

-----------------------------------------------------------------------------
\* Whatever is inserted, removed and typed, every entry shows the field it edits
\* (targets.go rebuildTargets).
THEOREM RowsProved == Spec => []RowsInStep
<1>1. IInv => RowsInStep
  BY InStepIsRowsInStep
<1> QED
  BY <1>1, IInvHolds, PTL

\* Redrawn, a file whose kind the chooser knows shows its own complaints, whatever
\* was known when the drawing began (targets.go fileRow, problemLabel).
THEOREM JudgedProved == Spec => []RedrawnFilesAreJudged
<1>1. Init => RedrawnFilesAreJudged
  <2> SUFFICES ASSUME Init
               PROVE  RedrawnFilesAreJudged
    OBVIOUS
  <2>1. targets \in Seq(Entry)
    BY InitInv DEF IInv
  <2> QED
    BY <2>1, RebuiltIsJudged DEF Init, RedrawnFilesAreJudged
<1>2. ASSUME IInv, IInv', RedrawnFilesAreJudged, [Next]_vars
      PROVE  RedrawnFilesAreJudged'
  <2>1. ASSUME NEW t, Redraw(t)
        PROVE  RedrawnFilesAreJudged'
    <3>1. t = targets' /\ t \in Seq(Entry) /\ rows' = RebuildTargets(t, problems)
      BY <1>2, <2>1 DEF Redraw, IInv
    <3>2. \A k \in FileIds(t) : t[k[1]].files[k[2]].kind = Known =>
            rows'[k[1]].files[k[2]].says = Says(Validate(t), k[1], k[2])
      BY <3>1, RebuiltIsJudged
    <3> QED
      BY <3>1, <3>2 DEF RedrawnFilesAreJudged
  <2>2. ASSUME NEW t, NEW r, Types(t, r)
        PROVE  RedrawnFilesAreJudged'
    BY <2>2 DEF Types, RedrawnFilesAreJudged
  <2>3. CASE Next
    BY <2>1, <2>2, <2>3 DEF Next, AddPlatform, RemovePlatform, AddFile, RemoveFile, TypePair,
       TypeDst, ChooseKind
  <2>4. CASE UNCHANGED vars
    BY <1>2, <2>4 DEF vars, RedrawnFilesAreJudged
  <2> QED
    BY <1>2, <2>3, <2>4
<1> QED
  BY <1>1, <1>2, IInvHolds, PTL DEF Spec

\* After every edit the complaints are those of the form as it stands (targets.go
\* revalidate).
LEMMA KnownHolds == Spec => [](problems = Validate(targets))
<1>1. Init => problems = Validate(targets)
  BY DEF Init
<1>2. ASSUME problems = Validate(targets), [Next]_vars
      PROVE  problems' = Validate(targets')
  <2>1. CASE Next
    BY <2>1 DEF Next, AddPlatform, RemovePlatform, AddFile, RemoveFile, TypePair, TypeDst,
       ChooseKind, Redraw, Types, Revalidate
  <2>2. CASE UNCHANGED vars
    BY <1>2, <2>2 DEF vars
  <2> QED
    BY <1>2, <2>1, <2>2
<1>3. ASSUME problems = Validate(targets), [Next]_vars
      PROVE  (problems = Validate(targets))'
  BY <1>2, <1>3 DEF Validate, PlatformProblems, FileProblems, Problem, FileIds
<1> QED
  BY <1>1, <1>3, PTL DEF Spec

\* Each label of a redrawn editor is of what was known when the drawing began, or
\* of the form drawn, if the chooser of a row above it has revalidated.
LEMMA RebuiltSays ==
  ASSUME NEW t \in Seq(Entry), NEW known
  PROVE  SaysEither(RebuildTargets(t, known), known, Validate(t))
<1> DEFINE r == RebuildTargets(t, known)
<1>1. ASSUME NEW i, NEW j
      PROVE  Says(Heard(t, known, i, j), i, j) \in {Says(known, i, j), Says(Validate(t), i, j)}
  BY DEF Heard
<1>2. ASSUME NEW i \in DOMAIN r
      PROVE  /\ r[i].says \in {Says(known, i, 0), Says(Validate(t), i, 0)}
             /\ \A j \in DOMAIN r[i].files :
                  r[i].files[j].says \in {Says(known, i, j), Says(Validate(t), i, j)}
  <2>1. r[i] = PlatformCard(t, known, i)
    BY <1>2 DEF RebuildTargets
  <2>2. r[i].says \in {Says(known, i, 0), Says(Validate(t), i, 0)}
    BY <1>1, <2>1 DEF PlatformCard
  <2>3. r[i].files = [j \in DOMAIN t[i].files |-> FileRow(t, known, i, j)]
    BY <2>1 DEF PlatformCard
  <2>4. ASSUME NEW j \in DOMAIN r[i].files
        PROVE  r[i].files[j].says \in {Says(known, i, j), Says(Validate(t), i, j)}
    BY <1>1, <2>3, <2>4 DEF FileRow
  <2> QED
    BY <2>2, <2>4
<1> QED
  BY <1>2 DEF SaysEither

\* No label of a redrawn editor is older than the edit that redrew it (targets.go
\* rebuildTargets, which every callback runs before revalidate).
THEOREM LagProved == Spec => []LabelsLagOneEdit
<1>1. Init => LabelsLagOneEdit
  <2> SUFFICES ASSUME Init
               PROVE  LabelsLagOneEdit
    OBVIOUS
  <2>1. targets \in Seq(Entry)
    BY InitInv DEF IInv
  <2> QED
    BY <2>1, RebuiltSays DEF Init, LabelsLagOneEdit
<1>2. ASSUME IInv', problems = Validate(targets), LabelsLagOneEdit, [Next]_vars
      PROVE  LabelsLagOneEdit'
  <2>1. ASSUME NEW t, Redraw(t)
        PROVE  LabelsLagOneEdit'
    <3>1. /\ t = targets' /\ t \in Seq(Entry) /\ rows' = RebuildTargets(t, problems)
          /\ before' = problems
      BY <1>2, <2>1 DEF Redraw, IInv
    <3>2. SaysEither(rows', before', Validate(t))
      BY <3>1, RebuiltSays
    <3>3. SaysEither(rows', before', Validate(targets'))
      BY <3>1, <3>2
    <3> QED
      BY <3>3 DEF LabelsLagOneEdit
  <2>2. ASSUME NEW t, NEW r, Types(t, r)
        PROVE  LabelsLagOneEdit'
    BY <2>2 DEF Types, LabelsLagOneEdit
  <2>3. CASE Next
    BY <2>1, <2>2, <2>3 DEF Next, AddPlatform, RemovePlatform, AddFile, RemoveFile, TypePair,
       TypeDst, ChooseKind
  <2>4. CASE UNCHANGED vars
    BY <1>2, <2>4 DEF vars, LabelsLagOneEdit
  <2> QED
    BY <1>2, <2>3, <2>4
<1> QED
  BY <1>1, <1>2, IInvHolds, KnownHolds, PTL DEF Spec

=============================================================================
