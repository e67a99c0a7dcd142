---------------------------- MODULE MC_LegendLoop ----------------------------
(* Model-checking instance of LegendLoop: every sequence of at most four   *)
(* labels over the three labels create_memory_graph adds and a second      *)
(* '<Total Memory:' label, so that repeated and competing totals occur.    *)
EXTENDS LegendLoop

MCLabelSet == {"Used", "Total", "Total2", "SysAvg"}
MCTotalLabels == {"Total", "Total2"}
=============================================================================
