------------------------------- MODULE MCModal ------------------------------
(***************************************************************************)
(* Instances of module Modal for TLC.                                      *)
(***************************************************************************)
EXTENDS Modal

\* An event that must not raise the modal and one that must.
MCEvents == {[phase |-> "check",    progress |-> -1, err |-> NoErr],
             [phase |-> "download", progress |-> 50, err |-> NoErr]}

=============================================================================
