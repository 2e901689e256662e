---------------------------- MODULE MCPackAssist ----------------------------
(***************************************************************************)
(* Instances of module PackAssist for TLC.                                 *)
(***************************************************************************)
EXTENDS PackAssist

=============================================================================
