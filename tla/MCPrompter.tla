----------------------------- MODULE MCPrompter -----------------------------
(***************************************************************************)
(* Instances of module Prompter for TLC: two calls in flight, or one made  *)
(* from the Fyne goroutine beside one that is not.                         *)
(***************************************************************************)
EXTENDS Prompter

=============================================================================
