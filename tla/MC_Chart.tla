------------------------------- MODULE MC_Chart -------------------------------
(* Model-checking instance of Chart.  System memory in units of 0.05 GB    *)
(* (margin 0.1 GB = 2, half span 0.1 GB = 2) up to 0.3 GB; process memory  *)
(* in units of 10 MB (margin and half span 50 MB = 5) up to 120 MB; one    *)
(* run length at every breakpoint of the time axis, and longer ones up to  *)
(* the longest a log with one midnight can give; system logs spanning up   *)
(* to eight hours, since the system monitor runs on its own schedule.     *)
EXTENDS Chart

MCSysValues == 0..6
MCRssValues == 0..12
MCTimeRanges == {0, 60, 300, 1800, 3600, 7200, 28800, 172799}
\* System logs spanning as long as, or longer than, the process log.
MCSysTimeRanges == {0, 300, 7200, 28800}
=============================================================================
