----------------------------- MODULE MCLifecycle -----------------------------
(* Lifecycle on small instances, for TLC.                                  *)
EXTENDS Lifecycle, TLC

BothSources == {0, 1}
ColorSource == {0}
ColorViews  == {"color"}
BothViews   == {"both"}
==============================================================================
