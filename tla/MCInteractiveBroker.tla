------------------------ MODULE MCInteractiveBroker ------------------------
(* Instances of InteractiveBroker for TLC: three requests over two permits,  *)
(* an intercept channel and a row table that fill up.                        *)
EXTENDS InteractiveBroker, TLC

Symmetry == Permutations(Requests)
=============================================================================
