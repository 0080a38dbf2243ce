------------------------------- MODULE MCAuth -------------------------------
(* Auth on small instances, for TLC.                                       *)
EXTENDS Auth, TLC

Symmetric == Permutations(Threads) \cup Permutations(Ips) \cup Permutations(Tokens)
==============================================================================
