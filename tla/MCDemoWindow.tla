---------------------------- MODULE MCDemoWindow ----------------------------
(***************************************************************************)
(* Instances of module DemoWindow for TLC: for every kind of answer of the *)
(* updater an error it is made of, alone and joined with others.           *)
(***************************************************************************)
EXTENDS DemoWindow

MCCheckErrs == {{"net"}, {"resolve"}, {"expiry", "trust"}}
MCRefusals == {{"declined"}, {"prompt"}, {"verify", "not exist"}, {"stale"}, {"other"}}
MCDeferrals == {{"deferred"}, {"deferred", "busy"}}
MCStartErrs == {{"launch"}, {"launch", "permission"}}

=============================================================================
