------------------------------ MODULE MCStartup ------------------------------
(* Startup on a small instance, for TLC.                                   *)
EXTENDS Startup, TLC

\* 8080, the same port after truncation, and a free port.
SomePorts   == {8080, 73616, 65536}
SomeThreads == {-1, 0, 1, 2}
==============================================================================
