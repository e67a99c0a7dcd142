--------------------------- MODULE MC_FontDiscovery ---------------------------
(* Model-checking instance of FontDiscovery: two preferred families (say   *)
(* DejaVu Sans and Liberation Sans) and one that is not, each in a file    *)
(* that loads or one that does not, listed in any order.                   *)
EXTENDS FontDiscovery

MCNames == {"DejaVu", "Liberation", "Other"}

MCPreferred == {"DejaVu", "Liberation"}
=============================================================================
