---------------------------- MODULE MCThroughput -----------------------------
(***************************************************************************)
(* Instances of module Throughput for TLC.                                 *)
(***************************************************************************)
EXTENDS Throughput

MCElapsed == {-1, 0, 1, 2, 3, 4}

\* Powers of the window.
MCGrain == [n \in 0 .. 6 |-> 3 ^ (6 - n)]

=============================================================================
