------------------------------- MODULE MCPanel ------------------------------
(***************************************************************************)
(* Instances of module Panel for TLC.                                      *)
(***************************************************************************)
EXTENDS Panel

\* Two failures that can be told apart: one that leaves the bar where its phase
\* puts it, one that holds it.
MCFailures ==
  {[phase |-> "apply",    progress |-> -1, err |-> "refused"],
   [phase |-> "rollback", progress |-> -1, err |-> "undone"]}

=============================================================================
