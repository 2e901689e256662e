--------------------------- MODULE MCTargetsEditor ---------------------------
(***************************************************************************)
(* Instances of module TargetsEditor for TLC.                              *)
(***************************************************************************)
EXTENDS TargetsEditor

=============================================================================
