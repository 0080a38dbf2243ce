---------------------------- MODULE MCStreamView ----------------------------
(* StreamView on a small instance, for TLC: the current socket, one that    *)
(* was closed, and a new one.                                               *)
EXTENDS StreamView, TLC
==============================================================================
