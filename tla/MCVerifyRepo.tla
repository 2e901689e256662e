---------------------------- MODULE MCVerifyRepo -----------------------------
(***************************************************************************)
(* Instances of module VerifyRepo for TLC.                                 *)
(***************************************************************************)
EXTENDS VerifyRepo

=============================================================================
