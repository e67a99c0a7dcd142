---------------------------- MODULE MemoryAnalysis ----------------------------
(***************************************************************************)
(* main() of src/utils/memory-usage-analysis/analyze_cb_spider_memory.py:  *)
(* the sequence execution-time lookup, log check, parse_pidstat_log,       *)
(* parse_system_memory_log, analyze_memory_usage, create_memory_graph and  *)
(* save_to_excel, with every early return and every exception that ends   *)
(* the run.                                                                *)
(*                                                                         *)
(* The program is one thread; pc names the next call of main.  The files   *)
(* it reads are chosen in Init and never change during the run.  A file's  *)
(* content is abstracted to what decides the control flow: absent, a      *)
(* float or not (execution-time files), no rows for the pid or rows (the  *)
(* pidstat log), unreadable, header only, rows with all or with only the  *)
(* chart's columns (the system memory CSV).                                *)
(* The outputs <prefix>.png and <prefix>.xlsx may already exist from an   *)
(* earlier run ("old") and become "new" when this run writes them.         *)
(***************************************************************************)
EXTENDS Naturals

\* The execution-time files main may read (lines 405-423): the path passed
\* as argv[6], execution_time_<base>.txt derived from the log name, and the
\* first execution_time_*.txt that os.listdir returns.
ExecFiles == {"arg", "derived", "listed"}
ExecContent == {"absent", "float", "garbage"}
LogContent == {"absent", "norows", "rows"}
\* "rows": rows with every column the code reads; "graphcols": rows with
\* timestamp, total_memory_gb and used_memory_gb (all create_memory_graph
\* reads) but without available_memory_gb or memory_usage_percent.
SystemContent == {"absent", "unreadable", "headeronly", "rows", "graphcols"}
\* "partial": a workbook holding only the sheets written before an exception.
OutputState == {"absent", "old", "new", "partial"}

Steps == {"Args", "LoadExecTime", "CheckLog", "ParsePidstat", "ParseSystem",
          "Analyze", "Graph", "Excel"}
Terminal == {"done", "aborted", "crashed"}
Argv == {"full", "badpid", "title", "none"}

VARIABLES
    argv,         \* the command line: "full" (6 arguments, sys.argv[3] an
                  \* integer), "badpid" (6, sys.argv[3] not one), "title"
                  \* (the title only) or "none"
    execFile,     \* [ExecFiles -> ExecContent]
    logFile,      \* the pidstat log
    systemFile,   \* the system memory log
    xlsxWritable, \* <prefix>.xlsx can be created or overwritten
    pc,           \* next step of main, or how the run ended
    raisedIn,     \* the step whose exception ended the run, or "none"
    execTime,     \* which file execution_time_sec came from, or "none"
    spider,       \* spider_df: "unset", "empty" or "rows"
    system,       \* system_df: "unset", "empty", "rows" or "graphcols"
    reported,     \* analyze_memory_usage has printed its statistics
    png,          \* <prefix>.png
    pngExecTime,  \* the execution time in the title of the chart written
    xlsx          \* <prefix>.xlsx

inputs == <<argv, execFile, logFile, systemFile, xlsxWritable>>
vars == <<inputs, pc, raisedIn, execTime, spider, system, reported,
          png, pngExecTime, xlsx>>

TypeOK ==
    /\ argv \in Argv
    /\ execFile \in [ExecFiles -> ExecContent]
    /\ logFile \in LogContent
    /\ systemFile \in SystemContent
    /\ xlsxWritable \in BOOLEAN
    /\ pc \in Steps \cup Terminal
    /\ raisedIn \in Steps \cup {"none"}
    /\ execTime \in ExecFiles \cup {"none"}
    /\ spider \in {"unset", "empty", "rows"}
    /\ system \in {"unset", "empty", "rows", "graphcols"}
    /\ reported \in BOOLEAN
    /\ png \in OutputState /\ xlsx \in OutputState
    /\ pngExecTime \in ExecFiles \cup {"none"}

-----------------------------------------------------------------------------
(* Plausible-bug variant used by mutation runs: the empty check of line    *)
(* 434 left out.                                                           *)
ParsedNoCheck(s) == "ParseSystem"

-----------------------------------------------------------------------------
\* Lines 434-436: an empty spider_df ends the run before anything is written.
Parsed(s) == IF s = "empty" THEN "aborted" ELSE "ParseSystem"

\* parse_system_memory_log (lines 44-52): read_csv/to_datetime failures are
\* caught and give an empty DataFrame, as does a CSV with a header only.
SystemParsed(f) == IF f \in {"rows", "graphcols"} THEN f ELSE "empty"

\* Lines 405-423: the file execution_time_sec is read from, in the order
\* the code tries them; os.path.exists is all that is asked of each.
ExecSource ==
    IF argv = "full" /\ execFile["arg"] # "absent" THEN "arg"
    ELSE IF execFile["derived"] # "absent" THEN "derived"
    ELSE IF execFile["listed"] # "absent" THEN "listed"
    ELSE "none"

Init ==
    /\ argv \in Argv
    /\ execFile \in [ExecFiles -> ExecContent]
    /\ logFile \in LogContent
    /\ systemFile \in SystemContent
    /\ xlsxWritable \in BOOLEAN
    /\ pc = "Args"
    /\ raisedIn = "none"
    /\ execTime = "none"
    /\ spider = "unset" /\ system = "unset"
    /\ reported = FALSE
    /\ png \in {"absent", "old"} /\ xlsx \in {"absent", "old"}
    /\ pngExecTime = "none"

\* The step the exception of a step comes from ends the run.
Raise(step) ==
    /\ pc' = "crashed"
    /\ raisedIn' = step

\* Lines 469-488: int(sys.argv[3]) raises on a pid that is not a number
\* before main is called; otherwise main runs with the arguments given, or
\* with the default paths, pid and prefix of lines 394-403.
ParseArgs ==
    /\ pc = "Args"
    /\ IF argv = "badpid"
          THEN Raise("Args")
          ELSE pc' = "LoadExecTime" /\ UNCHANGED raisedIn
    /\ UNCHANGED <<inputs, execTime, spider, system, reported, png,
                   pngExecTime, xlsx>>

\* Lines 405-423: float(f.read().strip()) raises on a file that is not a
\* number; nothing catches it.
LoadExecTime ==
    /\ pc = "LoadExecTime"
    /\ IF ExecSource # "none" /\ execFile[ExecSource] = "garbage"
          THEN Raise("LoadExecTime") /\ UNCHANGED execTime
          ELSE /\ execTime' = ExecSource
               /\ pc' = "CheckLog"
               /\ UNCHANGED raisedIn
    /\ UNCHANGED <<inputs, spider, system, reported, png, pngExecTime, xlsx>>

\* Lines 425-427: a missing log ends the run.
CheckLog ==
    /\ pc = "CheckLog"
    /\ pc' = IF logFile = "absent" THEN "aborted" ELSE "ParsePidstat"
    /\ UNCHANGED <<inputs, raisedIn, execTime, spider, system, reported,
                   png, pngExecTime, xlsx>>

\* Lines 432-444: parse_pidstat_log, then the empty check.
ParsePidstat ==
    /\ pc = "ParsePidstat"
    /\ spider' = IF logFile = "rows" THEN "rows" ELSE "empty"
    /\ pc' = Parsed(spider')
    /\ UNCHANGED <<inputs, raisedIn, execTime, system, reported,
                   png, pngExecTime, xlsx>>

\* Lines 446-452: a missing file is reported and system_df stays empty.
ParseSystem ==
    /\ pc = "ParseSystem"
    /\ system' = IF systemFile = "absent" THEN "empty"
                  ELSE SystemParsed(systemFile)
    /\ pc' = "Analyze"
    /\ UNCHANGED <<inputs, raisedIn, execTime, spider, reported,
                   png, pngExecTime, xlsx>>

\* Line 455, analyze_memory_usage (lines 100-143): prints the statistics.
Analyze ==
    /\ pc = "Analyze"
    /\ reported' = TRUE
    /\ pc' = "Graph"
    /\ UNCHANGED <<inputs, raisedIn, execTime, spider, system,
                   png, pngExecTime, xlsx>>

(* Plausible-bug variants used by mutation runs: save_to_excel never      *)
(* called after the chart (lines 461-463 lost), and a workbook failure     *)
(* caught and reported instead of ending the run.                          *)
GraphSkipsExcel ==
    /\ pc = "Graph"
    /\ IF system = "empty"
          THEN Raise("Graph") /\ UNCHANGED <<png, pngExecTime>>
          ELSE /\ png' = "new"
               /\ pngExecTime' = execTime
               /\ pc' = "done"
               /\ UNCHANGED raisedIn
    /\ UNCHANGED <<inputs, execTime, spider, system, reported, xlsx>>

ExcelSwallowsError ==
    /\ pc = "Excel"
    /\ CASE ~xlsxWritable -> UNCHANGED xlsx
        [] system = "graphcols" -> xlsx' = "partial"
        [] OTHER -> xlsx' = "new"
    /\ pc' = "done"
    /\ UNCHANGED <<inputs, raisedIn, execTime, spider, system, reported,
                   png, pngExecTime>>

\* Lines 458-459, create_memory_graph (lines 145-320): line 169 reads
\* system_df['total_memory_gb'].iloc[0] whether or not system_df is empty,
\* which raises KeyError (no columns) or IndexError (no rows).
Graph ==
    /\ pc = "Graph"
    /\ IF system = "empty"
          THEN Raise("Graph") /\ UNCHANGED <<png, pngExecTime>>
          ELSE /\ png' = "new"
               /\ pngExecTime' = execTime
               /\ pc' = "Excel"
               /\ UNCHANGED raisedIn
    /\ UNCHANGED <<inputs, execTime, spider, system, reported, xlsx>>

\* Lines 462-467, save_to_excel (lines 322-389): opening the workbook for
\* writing (line 347) fails on a location that cannot be written, and the
\* exception is not handled.  Inside the with block, the selection of the
\* system columns (line 356) raises KeyError on a CSV without
\* available_memory_gb or memory_usage_percent after the first sheet has
\* been written; ExcelWriter.__exit__ closes, and so saves, the workbook
\* before the exception ends the run.
Excel ==
    /\ pc = "Excel"
    /\ CASE ~xlsxWritable ->
              Raise("Excel") /\ UNCHANGED xlsx
        [] system = "graphcols" ->
              Raise("Excel") /\ xlsx' = "partial"
        [] OTHER ->
              /\ xlsx' = "new"
              /\ pc' = "done"
              /\ UNCHANGED raisedIn
    /\ UNCHANGED <<inputs, execTime, spider, system, reported,
                   png, pngExecTime>>

Next ==
    \/ ParseArgs
    \/ LoadExecTime
    \/ CheckLog
    \/ ParsePidstat
    \/ ParseSystem
    \/ Analyze
    \/ Graph
    \/ Excel

\* main runs on one thread to the end: every step it has taken is followed
\* by the next one.
Spec == Init /\ [][Next]_vars /\ WF_vars(Next)

-----------------------------------------------------------------------------
(* Properties                                                              *)

\* Spec section 7(c): nothing is written for a log without rows for the pid;
\* a chart or workbook of this run exists only after the samples were
\* parsed non-empty and the statistics printed (lines 432-463).
OutputsOnlyFromRows ==
    (png = "new" \/ xlsx \in {"new", "partial"}) => spider = "rows" /\ reported

\* Spec section 5: a missing or unusable system memory log, and a failed
\* execution-time lookup, degrade the run (it proceeds without that data);
\* neither create_memory_graph nor the reading of an execution-time file
\* ends it.
OptionalInputsDegrade == raisedIn \notin {"Graph", "LoadExecTime"}

\* Spec section 8 (end-to-end): a log with rows for the pid, a system
\* memory CSV with rows and a writable output location give a new chart
\* and a new three-sheet workbook; main, one thread running to its end,
\* gets there (lines 425-467).  An execution-time file that is not a
\* number is excluded: it ends the run (OptionalInputsDegrade); so is a pid
\* argument that is not a number, which the command line does not allow.
HappyInputs ==
    /\ argv # "badpid"
    /\ logFile = "rows" /\ systemFile = "rows" /\ xlsxWritable
    /\ ExecSource = "none" \/ execFile[ExecSource] = "float"

EndToEnd == HappyInputs => <>(png = "new" /\ xlsx = "new")

\* The chart is saved before the workbook is written (lines 458-463): a run
\* that has ended leaving a new chart beside an old or missing workbook of
\* the same prefix has ended in the exception of save_to_excel, so the
\* mismatch never follows a run that reports success.
MixedOutputsSignalled ==
    (pc \in Terminal /\ png = "new" /\ xlsx # "new") => raisedIn = "Excel"

\* Spec section 6: <prefix>.xlsx is the three-sheet workbook of section
\* 4.4; a run never leaves a workbook holding only some of its sheets.
WorkbookComplete == xlsx # "partial"

=============================================================================
