# TLA+ models of the cb-spider memory-usage analysis utility

This directory holds TLA+ models of the analysis scripts in this repository.
The models are checked with TLC. The code under study is
`src/utils/memory-usage-analysis/analyze_cb_spider_memory.py`, called "the
script" below. It reads a pidstat log and a system memory CSV, prints
statistics, draws a two-panel chart and writes a workbook.
`src/metadataTest/specTest/usingSpark.py` is a fixed sequence of Spark library
calls and is not modelled (see the last section).

## 1. Inventory

The script runs on one thread, from start to finish. Nothing in it runs
concurrently. What makes it hard is not interleaving but the following:

- state carried from one loop iteration to the next (the rollover of the parser);
- early returns and exceptions that end the run part-way through;
- optional inputs that may be missing or malformed;
- numeric edge cases in the axis and tick computations.

| Component | Code | State it keeps | Operations | Interacts with |
|---|---|---|---|---|
| Log Reader (pidstat) | `parse_pidstat_log`, lines 54-98 | `lines`, `base_date`, the list `data` | skip the 2-line banner; per line: header filter, field-count and pid filter, parse (`strptime`, `int`, `float`, `parts[8]`), midnight rollover against `data[-1]`, append or print a diagnostic; return the DataFrame | called by `main`; its rows feed every later step |
| Log Reader (system CSV) | `parse_system_memory_log`, lines 44-52 | none | `read_csv`, `to_datetime`; any exception gives an empty DataFrame | called by `main` only if the file exists |
| Statistics Engine | `analyze_memory_usage`, lines 100-143 | none (prints) | time span, mean/min/max/std of RSS and VSZ, counts of changes > 5 MB and < -5 MB | called by `main` |
| Report Renderer | `create_memory_graph`, lines 145-320 | adds `rss_mb` to `spider_df`; the figure | system panel (line 169 reads `total_memory_gb.iloc[0]` always), y-limits with margin and minimum span, legend reorder and dedup, process panel, time-axis format and tick interval by run length, `savefig` | called by `main`; reads both DataFrames |
| Exporter | `save_to_excel`, lines 322-389 | the workbook | sheet 1 spider rows; sheet 2 only if system rows exist; sheet 3 statistics, 9 rows plus 3 with system rows | called by `main` after the chart |
| Orchestrator | `main`, lines 391-467; `__main__`, 469-488 | arguments, `execution_time_sec`, both DataFrames | default arguments; execution time from argv[6], else from `execution_time_<base>.txt`, else from the first `execution_time_*.txt` listed; abort if no log; parse; abort if empty; >24 h warning; system log if it exists; analyze, graph, excel | calls everything; an exception anywhere ends the process |
| Font discovery | `get_system_font`, lines 18-42 | `preferred_fonts`, `rcParams` | scan the font listing, skipping files that fail to load; set the first preferred name, or `sans-serif`, as the font family | runs at import; chart styling only |
| Spark report | `usingSpark.py` | none | read CSV, group, count, show | none |

### What makes each component correct

- **Log Reader.** Every line for the target pid either becomes a sample or
  is reported; nothing is dropped silently. Samples keep the file's order.
  Timestamps never decrease. Across midnight, a timestamp is exactly the
  clock difference after the one before it.
- **Orchestrator.** Outputs are written only for a log that has rows for
  the pid. A missing or malformed optional input (system log, execution-time
  file) degrades the run and does not end it. A missing primary log, or one
  with no rows for the pid, aborts before anything is written.
- **Report Renderer.** Each panel's limits contain its data with the margin
  and never go below zero. A narrow range is widened to the minimum span.
  Each panel's time axis has at most 15 ticks. The legend has the total
  entry first and every label once.
- **Exporter.** The workbook on disk is the whole three-sheet workbook, or
  the run has failed visibly.
- **Font discovery.** The font family is the first readable preferred font
  of the listing, or `sans-serif`. A file that fails to load is skipped and
  never ends the scan.
- **Statistics.** The change counts are the number of steps beyond ±5 MB,
  and the largest rise and fall are printed when one qualifies.

The hazards behind these properties are listed, each at its source line, in
`PROJECT.json` under `"hazards"`.

## 2. Modules

| Module | Models | State (VARIABLES) | Actions |
|---|---|---|---|
| `PidstatLog` | `parse_pidstat_log` | `banner` (banner lines skipped), `log` (the lines of `lines[2:]` consumed), `data` (samples: clock time and timestamp), `diag` (diagnostics printed), `returned` | `SkipBanner`, `SkipLine`, `ParseError`, `AppendSample` (one per loop iteration, the line chosen with `\E l \in Lines`), `Return` |
| `MC_PidstatLog` | instance for TLC | | `MCLines`: one line for each path through the loop body; `MCDayLen = 3` |
| `MemoryAnalysis` | `main` and the calls it makes, with `parse_system_memory_log` as `SystemParsed` | the command line `argv` and the input files (fixed in `Init`), `pc`, `raisedIn`, `execTime`, `spider`, `system`, `reported`, `png`, `pngExecTime`, `xlsx` | `ParseArgs`, `LoadExecTime`, `CheckLog`, `ParsePidstat`, `ParseSystem`, `Analyze`, `Graph`, `Excel` |
| `Statistics` | the change-pattern part of `analyze_memory_usage` (lines 129-141) | `series` (RSS in MB), `report` (what is printed) | `Analyze`; `Diff` is RECURSIVE |
| `MC_Statistics` | instance for TLC | | `MCValues = {0, 5, 6, 11}` |
| `Chart` | `create_memory_graph`: limits, ticks, legend, the line-169 exception | `rss`, `used` (min/max of each series), `timeRange` (process span), `sysRange` (system span), `status`, `ylim1`, `ylim2`, `xticks`, `legend` | `RenderRaises`, `Render` |
| `MC_Chart` | instance for TLC | | memory units and value ranges, run lengths |
| `LegendSpec` | spec section 4.3's legend promise (abstract) | `labels`, `legend`, `done` | `Show`: the legend becomes `Expected(labels)` in one step |
| `LegendLoop` | the legend loops of lines 216-236, one iteration per step | `labels`, `phase`, `i`, `dummyIdx`, `moved`, `out` (`new_labels`), `seen` | `ScanStep`, `ScanEnd`, `Move`, `DedupStep`, `ShowLegend` |
| `MC_LegendLoop` | instance for TLC | | labels `Used`, `Total`, `Total2`, `SysAvg`; two of them total entries |
| `FontDiscovery` | `get_system_font` and the `rcParams` settings, lines 18-42 | `fontList` (`findSystemFonts`), `i`, `preferred` (`preferred_fonts`), `phase`, `rcFamily` (`rcParams['font.family']`) | `ScanFont` (one loop iteration, the bare `except` included), `FontChosen` (the return and line 41) |
| `MC_FontDiscovery` | instance for TLC | | names `DejaVu`, `Liberation` (preferred) and `Other` |

`Chart` keeps `LegendOrder`, a one-expression form of the same legend
algorithm, for its `Render` step. `LegendLoop` checks that algorithm loop by
loop against `LegendSpec`.

Abstraction choices:

- A pidstat line keeps only what steers the loop: the header test, the field
  count, `parts[2]`, and `parts[0]` (with `BadTime` standing for any field
  that raises `ValueError`). Nothing else reads the file, so choosing the
  file one line at a time is the same as choosing it up front.
- A day is `DayLen` model seconds. `base_date` is 0 and `timedelta(days=1)`
  is `DayLen`.
- In `MemoryAnalysis`, the command line is one of four kinds:
  - six arguments with a numeric pid;
  - six arguments with a pid that `int()` rejects;
  - the title only;
  - none.

  The last two run `main` on its default paths. A file is reduced to what
  decides the control flow:
  - absent;
  - float or garbage, for the execution-time files;
  - no rows or rows, for the pidstat log;
  - for the system CSV: unreadable, header only, rows with every column,
    or rows with only the columns the chart reads (`graphcols`: no
    `available_memory_gb` or no `memory_usage_percent`).

  Outputs start "absent" or "old", the latter left by an earlier run with the
  same prefix. They become "new" when written. A workbook becomes "partial"
  when `save_to_excel` raises inside its `with pd.ExcelWriter(...)` block:
  `ExcelWriter.__exit__` calls `close()` whether or not an exception is
  under way (pandas 1.x and 2.x), so the sheets written so far are saved.
  An exception that nothing catches sets `pc = "crashed"`, and `raisedIn`
  records the step that raised.
- In `Chart`, a series is reduced to its min and max, the only values the
  limits read. Memory values are exact integers: 0.05 GB units for the
  system panel and 10 MB units for the process panel. Limits are kept
  doubled so that the centre `(y_max + y_min) / 2` is an integer.
  The tick count of an axis spanning `r` seconds is not computed exactly.
  It is bounded below by `r \div every`, which is used to show the cap
  violated. It is bounded above by `TicksAtMost(r, every)` =
  ⌊1.1·r / every⌋ + 1, which is used to show the cap kept. The axis view is
  the data span plus the default 5% margin at each end, and a date locator
  ticks the multiples of its interval inside it. `ax1` and `ax2` do not share x (line 151): `ax2` spans the
  process samples (`timeRange`) and `ax1` the system samples (`sysRange`).
  Both get the locator the loop of line 288 picks from `timeRange`.
  `locator_params(nbins=15)` is modelled by what it does to a
  `MinuteLocator`/`SecondLocator`: nothing. `Locator.set_params` only warns.
  At a system span of exactly 0.2 GB, float rounding decides the test of
  line 206. `Render` takes both outcomes (`Narrow`'s `edgeWidens`). In exact
  arithmetic both give the same limits, so only rounding-sized differences
  are left out.
- In `FontDiscovery`, a font file is its family name and whether
  `get_name()` returns or raises. The keyword test of line 28 is membership
  of the name in `Preferred`. The listing is any sequence of files, because
  `findSystemFonts` has no fixed order.
- In `Statistics`, RSS values are whole MB. `rss_kb / 1024` is exact in
  floating point, so a step of exactly 5 MB compares as in the model.

## 3. Runs

| Run | Config | Expect | What it shows |
|---|---|---|---|
| `parser` | `PidstatLog.cfg` on `MC_PidstatLog` | pass | `NoSilentDrop`: every line the spec accepts is a sample or a diagnostic. `SingleMidnightGaps`: with at most one backward clock step, the first sample is on `base_date` and each gap is the clock difference mod one day (the spec's 23:59:59 → 00:00:05 = 6 s case). 3.9M states, all logs of up to 6 lines after the banner. |
| `parser_two_midnights` | `PidstatLog_monotone.cfg` | violation | `MonotoneTimestamps` fails. Clock times 2, 1, 0 give timestamps 2, 4, 3: the third sample is compared with an already shifted timestamp and moved only one day. |
| `parser_eight_fields` | `PidstatLog_count.cfg` | violation | `EveryMatchingLineSampled` fails. A single 8-field row for the pid passes `len(parts) >= 8` and dies on `parts[8]`. |
| `main` | `MemoryAnalysis.cfg` | pass | Over all combinations of inputs and old outputs (50k states): `OutputsOnlyFromRows`, a new or partial output exists only after rows were parsed and statistics printed. `MixedOutputsSignalled`, a run that ends with a new chart beside an old, missing or partial workbook ended in the exception of `save_to_excel`. `EndToEnd` (liveness, spec section 8), a run with rows in both logs, a writable location, a numeric pid argument and no malformed execution-time file ends with a new chart and a new workbook. |
| `main_optional_inputs` | `MemoryAnalysis_degrade.cfg` | violation | `OptionalInputsDegrade` (spec section 5: a missing or malformed optional input degrades the run) fails. TLC's trace has a non-numeric `execution_time_*.txt` found by the directory scan, which ends the run at `LoadExecTime`. The property restricted to `Graph` also fails: with no system log, `create_memory_graph` raises at line 169. |
| `main_partial_workbook` | `MemoryAnalysis_workbook.cfg` | violation | `WorkbookComplete` fails. A system CSV with the chart's columns but without `available_memory_gb` gets a chart. `save_to_excel` then raises `KeyError` at line 356, after sheet 1, and the writer saves a one-sheet workbook over the old one. |
| `statistics` | `Statistics.cfg` on `MC_Statistics` | pass | `ChangePatternsMatchSpec`: for every RSS series of 1-6 samples over values whose steps include exactly ±5 MB, the printed counts and largest rise/fall are those of spec section 4.2. The code's `rss_diff.max()` over all steps equals the largest qualifying rise whenever it is printed. |
| `chart` | `Chart.cfg` on `MC_Chart` | pass | `YLimitsBracketData`: for every min ≤ max pair of both panels, the limits are at least the margin above the max, and the margin below the min or zero, also after re-centring. `ProcessTicksWithinBreakpoints`: for process runs of 1 s to two hours, every breakpoint included, the process panel has at most 15 ticks (the cap of line 313), counted as an upper bound with the default 5% x-margin at each end: at most ⌊1.1·r / every⌋ + 1. The worst case is 12 ticks at exactly 300 s. `TypeOK` also checks that limits never go below zero. 165k states. |
| `chart_min_span` | `Chart_minspan.cfg` | violation | `YLimitsMinSpan` fails. Below 50 MB RSS (0.1 GB system memory), the clamp at 0 cuts the widened span below 100 MB (0.2 GB). |
| `chart_ticks` | `Chart_ticks.cfg` | violation | `TickCountCapped` (both panels) fails. TLC's trace has a one-sample process log, which picks 10-second ticks for both axes, and a system log spanning 300 s or more. `ax1` then gets at least 30 ticks, or at least 720 for a two-hour system log. Which of these TLC reports varies from run to run. Independently, `nbins` has no effect, and an 8-hour process run gets at least 16 ticks on `ax2` at 30-minute intervals. |
| `font` | `FontDiscovery.cfg` on `MC_FontDiscovery` | pass | `FontChoiceMatchesSpec`: for every listing of up to 4 font files (9k states), each of two preferred families or another one, readable or not, the font family set at import is the first readable preferred font in listing order, or `sans-serif` when there is none. An unreadable file never hides a good one after it. |
| `legend` | `LegendLoop.cfg` on `MC_LegendLoop` | pass | `LegendRefinesSpec`: `LegendLoop` implements `LegendSpec` under `legend <- IF phase = "done" THEN out ELSE <<>>`, `done <- phase = "done"`. Every loop step but the last is a stutter of the abstract spec, and the loops always end. This covers all 5461 label sequences of length 0-6, with repeated labels and two competing total entries. |

Each violation is explained in `PROJECT.json` under `"findings"`. Every
property of a passing run has a mutant: a plausible bug in the mapped
definition under which TLC finds the property violated.

- `ParseFails` → `ParseFailsIndexOnly` (the time not validated) breaks the
  parser's `TypeOK`.
- `RowSelected` → `RowSelectedNine` (guard `>= 9`) breaks `NoSilentDrop`.
- `Rollover` → `RolloverLe` (`<=`) breaks `SingleMidnightGaps`.
- `Parsed` → `ParsedNoCheck` (the empty check of line 434 dropped) breaks
  `OutputsOnlyFromRows`.
- `Excel` → `ExcelSwallowsError` (a failed workbook caught and the run
  reported complete) breaks `MixedOutputsSignalled`.
- `Graph` → `GraphSkipsExcel` (`save_to_excel` never called after the
  chart) breaks `EndToEnd`.
- `IsIncrease` → `IsIncreaseGe` (`>=` for `>`) breaks
  `ChangePatternsMatchSpec`.
- `YLimits` → `YLimitsNoClamp` (the re-centred bottom not clamped) breaks
  the chart's `TypeOK`. `YLimits` → `YLimitsDataSpan` (the widening test on
  the unpadded range) breaks `YLimitsBracketData`.
- `TickSpec` → `TickSpecCopied` (the 10-second locator copied into the
  5-minute branch) breaks `ProcessTicksWithinBreakpoints`.
- `ScanStep` → `ScanStepNoBreak` (the `break` of line 222 dropped, so the
  last total entry is moved) breaks `LegendRefinesSpec`.
- `ScanFont` → `ScanFontStopOnError` (the bare `except: continue` of line
  30 written as `break`) breaks `FontChoiceMatchesSpec`.

`MemoryAnalysis`, `LegendLoop` and `FontDiscovery` define `TypeOK`, but no
run checks it.
Their abstractions have no plausible code bug that would give a variable
an ill-typed value, so no mutant could break it.

### Bounds and why they are enough

- `DayLen = 3`, `MaxLines = 6`. Two midnights need three samples, and one
  midnight followed by a parse error and another sample needs four lines.
  Six lines leave room for a header or other-pid line among those.
  Every path of the loop body appears in `MCLines`, and every clock time
  with both 8 and 9 fields. A larger day only renames the times.
- `MemoryAnalysis` enumerates every combination of its finite input
  abstraction, so there is nothing to bound.
- `MC_Chart` takes values 0..0.3 GB and 0..120 MB, which cover both sides of
  the margin (0.1 GB, 50 MB) and of the minimum span. The run lengths are
  each breakpoint of lines 294-306, plus 8 h and the longest
  single-midnight log (172799 s). System spans are 0, 5 min, 2 h and 8 h.
- `MC_LegendLoop`: sequences of up to 6 labels over 4 labels. This is enough
  for a total entry after a duplicate, two totals, and a total repeated
  before and after another label. One call of `create_memory_graph` adds 3.
- `MC_FontDiscovery`: listings of up to 4 files over 3 names, each
  readable or not. That is enough for an unreadable preferred file before a
  readable one, a non-preferred file between them, and two readable
  preferred files in both orders.
- `MC_Statistics`: up to 6 samples over {0, 5, 6, 11}. The steps are then
  0, ±1, ±5, ±6 and ±11, so the threshold, just past it, and several
  qualifying steps of different size all occur.

### Fairness

`MemoryAnalysis.Spec`, `LegendLoop.Spec` and `FontDiscovery.Spec` have
`WF_vars(Next)`. The
script is one thread that always takes its next step, and every loop in
them runs over a finite list. Under this fairness, `EndToEnd` checks that
`main` reaches both outputs. `LegendRefinesSpec` includes the abstract
`WF_vars(Show)`, so it checks that the loops end with a legend. No
fairness is assumed where nothing must eventually happen: `PidstatLog`,
`Chart` and `Statistics`. All runs stop in terminal states, so their
configs say `CHECK_DEADLOCK FALSE`. The terminal states are `returned`,
`done/aborted/crashed`, `saved/raised`, `phase = "done"` and a printed
report, and `phase = "done"` for the font. The program really does stop
there.

## 4. Plan

Done:
- first sitting: steps 1-3;
- second sitting: steps 5, 6 and 8, with part of 4;
- third sitting: `__main__`'s argument handling, the float boundary of line
  206, and larger bounds for the parser, legend and statistics. Step 7 was
  considered and set aside (below);
- fourth sitting: step 9, font discovery. The two spec section 5
  violations were merged into one run, `main_optional_inputs`.

1. **`PidstatLog`**: the parser. Done.
2. **`MemoryAnalysis`**: the orchestrator with every early return and
   uncaught exception, from the command line on. Done.
3. **`Chart`**: limits (with the float outcome at the boundary), ticks of
   both axes, the legend operator, the line-169 exception. Done.
4. **Outputs across runs.** A new chart beside a stale or partial workbook
   (line 463) is covered by `MixedOutputsSignalled` and `WorkbookComplete`,
   and `EndToEnd` is the liveness of `main`. Which run an
   `execution_time_*.txt` belongs to (line 420) is not modelled: see
   section 5.
5. **`Statistics`**: change-pattern counts against a reference. Done.
6. **`Exporter`**: the partial workbook. Done.
7. **Composition of `PidstatLog` into `MemoryAnalysis`.** Not done. The
   parser reaches the rest of the program only through "empty or not",
   which `MemoryAnalysis` chooses over both outcomes, and through the time
   range. `Chart` ranges over every time range a log with at most one
   midnight can give. The `>24 h` warning that would read it only prints.
   A composed model would repeat these checks on a larger state space.
8. **Legend**: `LegendLoop` refines `LegendSpec`. Done.
9. **`FontDiscovery`**: the import-time font scan. Done.

## 5. Not modelled

- `usingSpark.py`: library calls with no control flow of its own.
- `axes.unicode_minus` (line 42): a constant setting.
- Which names contain a keyword of line 28. The lower-casing and substring
  test are abstracted to the set `Preferred`, so a monospace family such as
  "DejaVu Sans Mono" counts as preferred, as it does in the code.
- Drawing: plotted lines, colours, annotation text, title text, label
  rotation and layout. The peak annotation uses `idxmax`, the first maximum,
  which is pure data display.
- Means, minima, maxima and standard deviations of `analyze_memory_usage`
  and of the statistics sheet. Each is one library call whose value is only
  printed or written. A single sample gives a NaN deviation, which
  `round()` and `to_excel` pass through without raising.
- Floating-point rounding beyond the line-206 comparison: the models use
  exact integers.
- Number formatting in prints and spreadsheet cells.
- Which run an `execution_time_*.txt` file found by `os.listdir` belongs to
  (line 420). The spec prescribes that fallback, and nothing in the code can
  tell the files apart.
- The date of `base_date` (line 62). No code compares the process
  timestamps with the system CSV's: they are on separate axes and sheets.
- A failure of `savefig` (line 318), for example an unwritable output
  directory, before the workbook is attempted. `EndToEnd` assumes the
  chart can be written. Only the workbook's failure is modelled.
- The legend of one call holds three distinct labels (a fresh `ax1` per
  call). `LegendLoop` checks the algorithm on every label sequence, which
  is more than the program feeds it, so no hazard is listed for it.
- Composition of the parser with `main`: see plan step 7.
