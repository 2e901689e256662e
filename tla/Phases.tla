------------------------------- MODULE Phases -------------------------------
(***************************************************************************)
(* The phase table of fyneui/phase.go: which span of the progress bar each *)
(* lifecycle phase of an update owns, and where a snapshot puts the bar.   *)
(*                                                                         *)
(* The spans are hundredths of the bar and Event.Progress is a whole       *)
(* percentage, so a position of the bar is exact in ten-thousandths.       *)
(* Wording (the labels of the table) is left out.                          *)
(***************************************************************************)
EXTENDS Integers

KnownPhases == {"check", "download", "stage", "quiesce", "migrate", "apply",
                "verify", "commit", "gc", "rollback"}

\* "" is the phase of a model no event has reached, "unknown" stands for every
\* phase idunn may add that this table does not list.
Phase == KnownPhases \cup {"", "unknown"}

\* An error an event carries; NoErr is Go's nil.
NoErr == "nil"

Hold == -1
BarUnit == 100
BarFull == 100 * BarUnit

\* Event.Progress in percent: -1 is "indeterminate", and a value above 100 is
\* one core must not send and Fraction must survive.
Progress == -1 .. 101

\* A mutant of Steps: verify keeps its slot from when it preceded the
\* irreversible phases.
StepsVerifyEarly ==
  [check    |-> [from |->  5, to |->  20],
   download |-> [from |-> 20, to |->  45],
   stage    |-> [from |-> 35, to |->  45],
   verify   |-> [from |-> 45, to |->  53],
   quiesce  |-> [from |-> 53, to |->  60],
   migrate  |-> [from |-> 60, to |->  75],
   apply    |-> [from |-> 75, to |->  96],
   commit   |-> [from |-> 96, to |-> 100],
   gc       |-> [from |-> 100, to |-> 100],
   rollback |-> [from |-> Hold, to |-> Hold]]

\* A mutant of Steps: a rollback has a span of its own, at the start of the bar.
StepsRollbackBack ==
  [check    |-> [from |->  5, to |->  20],
   download |-> [from |-> 20, to |->  45],
   stage    |-> [from |-> 35, to |->  45],
   quiesce  |-> [from |-> 45, to |->  60],
   migrate  |-> [from |-> 60, to |->  75],
   apply    |-> [from |-> 75, to |->  88],
   verify   |-> [from |-> 88, to |->  96],
   commit   |-> [from |-> 96, to |-> 100],
   gc       |-> [from |-> 100, to |-> 100],
   rollback |-> [from |->  0, to |->   0]]

\* The span of the bar a phase owns, in hundredths of the bar.
Steps == [check    |-> [from |->  5, to |->  20],
          download |-> [from |-> 20, to |->  45],
          stage    |-> [from |-> 35, to |->  45],
          quiesce  |-> [from |-> 45, to |->  60],
          migrate  |-> [from |-> 60, to |->  75],
          apply    |-> [from |-> 75, to |->  88],
          verify   |-> [from |-> 88, to |->  96],
          commit   |-> [from |-> 96, to |-> 100],
          gc       |-> [from |-> 100, to |-> 100],
          rollback |-> [from |-> Hold, to |-> Hold]]

\* A mutant of Fraction: completion is left to the phase's own position.
FractionByPhase(s) ==
  IF s.phase \notin DOMAIN Steps \/ Steps[s.phase].from < 0 THEN Hold
  ELSE LET st == Steps[s.phase]
       IN  st.from * BarUnit
             + (IF s.progress \in 0 .. 100 THEN s.progress * (st.to - st.from) ELSE 0)

\* The value of the bar for a snapshot s, or Hold for "leave it where it is".
Fraction(s) ==
  IF s.done /\ s.err = NoErr /\ s.phase # "rollback" THEN BarFull
  ELSE IF s.phase \notin DOMAIN Steps \/ Steps[s.phase].from < 0 THEN Hold
  ELSE LET st == Steps[s.phase]
       IN  st.from * BarUnit
             + (IF s.progress \in 0 .. 100 THEN s.progress * (st.to - st.from) ELSE 0)

=============================================================================
