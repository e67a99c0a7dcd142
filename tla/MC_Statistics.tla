---------------------------- MODULE MC_Statistics ----------------------------
(* Model-checking instance of Statistics: RSS values whose steps include   *)
(* exactly +-5 MB, just over it, well over it and small ones.              *)
EXTENDS Statistics

MCValues == {0, 5, 6, 11}
=============================================================================
