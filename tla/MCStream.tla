------------------------------ MODULE MCStream ------------------------------
(* StreamManager on small instances, for TLC.                              *)
EXTENDS StreamManager, TLC

Symmetric == Permutations(Conns)

BothSources == {0, 1}
ColorSource == {0}
ColorViews  == {"color"}
MixedViews  == {"color", "both"}
==============================================================================
