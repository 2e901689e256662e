---------------------------- MODULE MCTransaction ---------------------------
(***************************************************************************)
(* Instances of module Transaction for TLC.                                *)
(***************************************************************************)
EXTENDS Transaction

\* Every phase, with and without a failure, and the two ends of staging.
MCEvents ==
  {e \in [phase: KnownPhases, progress: {-1, 0, 100}, err: {NoErr, "failed"}] :
     e.progress = -1 \/ (e.phase = "download" /\ e.err = NoErr)}

=============================================================================
