----------------------------- MODULE PidstatLog -----------------------------
(***************************************************************************)
(* parse_pidstat_log(filename, target_pid) of                              *)
(* src/utils/memory-usage-analysis/analyze_cb_spider_memory.py.            *)
(*                                                                         *)
(* The file is read whole (f.readlines()); its first two lines are the     *)
(* pidstat banner and are skipped by position (lines[2:]).  Every later    *)
(* line is one loop iteration: it is filtered as a header, filtered by     *)
(* field count and pid, rejected with a "Parsing error" diagnostic, or     *)
(* appended to data as one sample.  The contents of the file are chosen    *)
(* line by line from the constant set Lines, which is the same as choosing *)
(* the whole file up front, since nothing else reads the file.             *)
(*                                                                         *)
(* Clock times are seconds of the day scaled to 0..DayLen-1; base_date is  *)
(* midnight of the current day (0) and timedelta(days=1) is DayLen.        *)
(* Only the fields the control flow depends on are kept: the number of     *)
(* whitespace-separated fields, parts[2] (the pid) and parts[0] (the       *)
(* time).  A line whose time or numeric fields fail strptime/int/float     *)
(* carries the model value BadTime.                                        *)
(***************************************************************************)
EXTENDS Integers, Sequences, SequencesExt, FiniteSets

CONSTANTS
    TargetPid,   \* target_pid
    OtherPid,    \* the pid of any other process in the log
    DayLen,      \* timedelta(days=1), in model seconds
    BadTime,     \* a parts[0] (or numeric field) that raises ValueError
    Lines,       \* the lines the log file may contain after the banner
    MaxLines     \* bound on the number of lines after the banner

ASSUME DayLen \in Nat \ {0} /\ MaxLines \in Nat

Times == 0..(DayLen - 1)

\* A line the header test of line 65 drops: blank, "Linux ..." or "... UID ...".
HeaderLine == [kind : {"header"}]
\* A line that passes line 65, split into nf fields.
RowLine == [kind : {"row"}, nf : Nat, pid : {TargetPid, OtherPid},
            time : Times \cup {BadTime}]

ASSUME Lines \subseteq HeaderLine \cup RowLine

VARIABLES
    banner,    \* how many of the first two lines (skipped by lines[2:]) are read
    log,       \* the lines of lines[2:] the loop has consumed, in order
    data,      \* the list data: one [time, timestamp] record per sample
    diag,      \* number of "Parsing error" diagnostics printed
    returned   \* pd.DataFrame(data) has been returned

vars == <<banner, log, data, diag, returned>>

Sample == [time : Times, timestamp : 0..(2 * DayLen - 1)]

TypeOK ==
    /\ banner \in 0..2
    /\ log \in Seq(Lines) /\ Len(log) <= MaxLines
    /\ data \in Seq(Sample)
    /\ diag \in Nat
    /\ returned \in BOOLEAN

-----------------------------------------------------------------------------
(* Plausible-bug variants of the definitions below, used by mutation runs. *)

\* The field-count guard written against the index it reads (parts[8]).
RowSelectedNine(l) == l.kind = "row" /\ l.nf >= 9 /\ l.pid = TargetPid
\* The midnight test made non-strict.
RolloverLe(t) ==
    IF Len(data) > 0 /\ t <= Last(data).timestamp THEN t + DayLen ELSE t

\* Only the IndexError of parts[8] rejects a row; the time is not validated.
ParseFailsIndexOnly(l) == l.nf < 9

-----------------------------------------------------------------------------
\* Lines 65-67: not a header, len(parts) >= 8 and parts[2] == str(target_pid).
RowSelected(l) == l.kind = "row" /\ l.nf >= 8 /\ l.pid = TargetPid

\* Lines 68-96: strptime/int/float raise ValueError on a bad field, and
\* parts[8] raises IndexError when the row has exactly 8 fields.
ParseFails(l) == l.time = BadTime \/ l.nf < 9

\* Lines 73-81: the time on base_date, moved one day on when it is earlier
\* than the timestamp of the last sample appended.
Rollover(t) ==
    IF Len(data) > 0 /\ t < Last(data).timestamp THEN t + DayLen ELSE t

Init ==
    /\ banner = 0
    /\ log = <<>>
    /\ data = <<>>
    /\ diag = 0
    /\ returned = FALSE

\* lines[2:]: one of the first two lines, whatever it holds, is skipped.
SkipBanner ==
    /\ ~returned
    /\ banner < 2
    /\ banner' = banner + 1
    /\ UNCHANGED <<log, data, diag, returned>>

\* One iteration of the loop of line 64 on the next line l.
Iteration(l) ==
    /\ ~returned
    /\ banner = 2
    /\ Len(log) < MaxLines
    /\ log' = Append(log, l)
    /\ UNCHANGED <<banner, returned>>

\* Line 65 or 67 is false: the line is dropped without a word.
SkipLine(l) ==
    /\ Iteration(l)
    /\ ~RowSelected(l)
    /\ UNCHANGED <<data, diag>>

\* Lines 94-96: a conversion raised; the line is reported and skipped.
ParseError(l) ==
    /\ Iteration(l)
    /\ RowSelected(l)
    /\ ParseFails(l)
    /\ diag' = diag + 1
    /\ UNCHANGED data

\* Lines 69-93: the sample is appended with its rolled-over timestamp.
AppendSample(l) ==
    /\ Iteration(l)
    /\ RowSelected(l)
    /\ ~ParseFails(l)
    /\ data' = Append(data, [time |-> l.time, timestamp |-> Rollover(l.time)])
    /\ UNCHANGED diag

\* Line 98: the loop has run out of lines (the file may be shorter than the
\* banner); pd.DataFrame(data) is returned.
Return ==
    /\ ~returned
    /\ returned' = TRUE
    /\ UNCHANGED <<banner, log, data, diag>>

Next ==
    \/ SkipBanner
    \/ \E l \in Lines : SkipLine(l) \/ ParseError(l) \/ AppendSample(l)
    \/ Return

Spec == Init /\ [][Next]_vars

-----------------------------------------------------------------------------
(* Properties                                                              *)

\* The lines the spec (section 4.1) says the reader accepts: at least 8
\* fields and the target pid in parts[2].
MatchingLine(l) == l.kind = "row" /\ l.nf >= 8 /\ l.pid = TargetPid

\* Clock readings of consecutive samples and the backward steps among them.
Steps == 1..(Len(data) - 1)
Crossings == {i \in Steps : data[i + 1].time < data[i].time}

\* No line for the target pid is lost silently: every line the spec accepts
\* has become either a sample or a "Parsing error" diagnostic (lines 64-96).
NoSilentDrop ==
    Len(data) + diag = Len(SelectSeq(log, MatchingLine))

\* Midnight rollover (lines 79-81, spec section 8): while the samples have
\* crossed midnight at most once, the first sample is on base_date and each
\* later one is exactly the clock difference, taken modulo one day, after
\* the one before it (23:59:59 then 00:00:05 is 6 seconds later).
SingleMidnightGaps ==
    Cardinality(Crossings) <= 1 =>
        /\ data # <<>> => data[1].timestamp = data[1].time
        /\ \A i \in Steps :
               data[i + 1].timestamp - data[i].timestamp
                   = (data[i + 1].time - data[i].time) % DayLen

\* Spec section 8: the samples come out in non-decreasing timestamp order,
\* however many midnights the log spans (the >24h warning of line 442
\* expects such logs).
MonotoneTimestamps ==
    \A i \in Steps : data[i].timestamp <= data[i + 1].timestamp

\* Spec section 8: N well-formed lines with the target pid and at least 8
\* fields give exactly N samples.
EveryMatchingLineSampled ==
    Len(data) = Len(SelectSeq(log, LAMBDA l : MatchingLine(l) /\ l.time # BadTime))

=============================================================================
