---------------------------- MODULE MC_PidstatLog ----------------------------
(* Model-checking instance of PidstatLog: a three-second day, the lines    *)
(* that take each path through the loop, and up to five lines after the   *)
(* banner (enough for two midnights among four samples).                   *)
EXTENDS PidstatLog

MCDayLen == 3

\* One line for each filtered path, and every time for the rows of the
\* target pid with 8 (parts[8] missing) and 9 fields.
MCLines ==
    {[kind |-> "header"],
     [kind |-> "row", nf |-> 7, pid |-> TargetPid, time |-> 0],
     [kind |-> "row", nf |-> 9, pid |-> OtherPid, time |-> 0]}
    \cup [kind : {"row"}, nf : {8, 9}, pid : {TargetPid},
          time : (0..(MCDayLen - 1)) \cup {BadTime}]

=============================================================================
