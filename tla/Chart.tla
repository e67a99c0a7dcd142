------------------------------- MODULE Chart -------------------------------
(***************************************************************************)
(* create_memory_graph (lines 145-320 of                                   *)
(* src/utils/memory-usage-analysis/analyze_cb_spider_memory.py): what the  *)
(* chart shows of the data, namely the vertical limits of both panels, the *)
(* time-axis ticks and the order of the legend of the system panel.  Line  *)
(* styles, colours, fonts and the text of labels are left out.             *)
(*                                                                         *)
(* A series is abstracted to its minimum and maximum, the only values the  *)
(* limits depend on.  Memory values are integers in a unit chosen so that  *)
(* the margins are whole (MC_Chart: 0.05 GB for the system panel, 10 MB   *)
(* for the process panel).  Limits are kept doubled, so that the centre    *)
(* (y_max + y_min) / 2 of lines 207 and 259 stays an integer.              *)
(***************************************************************************)
EXTENDS Integers, Sequences, FiniteSets

CONSTANTS
    SysValues,   \* used_memory_gb values, in SysUnit
    SysPad,      \* margin_gb * 2 (line 202), in SysUnit
    SysHalf,     \* half of the 0.2 GB minimum span (lines 206-209)
    RssValues,   \* rss_mb values, in RssUnit
    RssPad,      \* margin_mb (line 254), in RssUnit
    RssHalf,     \* half of the 100 MB minimum span (lines 258-261)
    TimeRanges,  \* (max - min timestamp).total_seconds() (line 290)
    SysTimeRanges, \* the seconds system_df['timestamp'] spans
    MaxTicks     \* the tick bound of line 313-314 (nbins=15)

\* The legend labels of the system panel (lines 165-187), in the order the
\* calls add them; Total is the invisible '<Total Memory:...>' entry.
Labels == <<"Used", "Total", "SysAvg">>
IsTotal(l) == l = "Total"

Range(S) == {r \in [lo : S, hi : S] : r.lo <= r.hi}
NoSeries == [lo |-> -1, hi |-> -1]

VARIABLES
    rss,        \* [lo, hi] of spider_df['rss_mb']; never empty (main checks)
    used,       \* [lo, hi] of system_df['used_memory_gb'], or NoSeries
    timeRange,  \* seconds between the first and the last sample
    sysRange,   \* seconds the system samples span (ax1's own x range)
    status,     \* "pending", "saved" (line 318) or "raised"
    ylim1,      \* doubled [bottom, top] of ax1
    ylim2,      \* doubled [bottom, top] of ax2
    xticks,     \* [format, every] of the major locator of both axes
    legend      \* the labels ax1.legend receives

vars == <<rss, used, timeRange, sysRange, status, ylim1, ylim2, xticks, legend>>

\* Axis limits never start below zero (max(0, ...) on lines 202, 208, 254, 260).
Limits == [bottom : Nat, top : Nat]
Formats == {"%H:%M:%S", "%H:%M"}

TypeOK ==
    /\ rss \in Range(RssValues)
    /\ used \in Range(SysValues) \cup {NoSeries}
    /\ timeRange \in TimeRanges
    /\ sysRange \in SysTimeRanges
    /\ status \in {"pending", "saved", "raised"}
    /\ ylim1 \in Limits \cup {NoSeries}
    /\ ylim2 \in Limits \cup {NoSeries}
    /\ xticks \in [format : Formats, every : Nat] \cup {NoSeries}
    /\ legend \in Seq({"Used", "Total", "SysAvg"})

-----------------------------------------------------------------------------
\* Lines 206 and 258: the span is narrower than the minimum.  The system
\* panel compares floats built from CSV values and 0.05 * 2 against 0.2, so
\* at an exact span of 0.2 GB rounding decides; edgeWidens is that outcome.
Narrow(span, half, edgeWidens) ==
    span < 2 * half \/ (span = 2 * half /\ edgeWidens)

(* Plausible-bug variants of YLimits, used by mutation runs.               *)

\* The widened bottom not clamped at zero.
YLimitsNoClamp(lo, hi, pad, half, edgeWidens) ==
    LET yMin == IF lo - pad > 0 THEN lo - pad ELSE 0
        yMax == hi + pad
        c2 == yMin + yMax
    IN IF Narrow(yMax - yMin, half, edgeWidens)
          THEN [bottom |-> c2 - 2 * half, top |-> c2 + 2 * half]
          ELSE [bottom |-> 2 * yMin, top |-> 2 * yMax]

\* The widening test on the unpadded data range instead of the padded one.
YLimitsDataSpan(lo, hi, pad, half, edgeWidens) ==
    LET yMin == IF lo - pad > 0 THEN lo - pad ELSE 0
        yMax == hi + pad
        c2 == yMin + yMax
    IN IF Narrow(hi - lo, half, edgeWidens)
          THEN [bottom |-> IF c2 - 2 * half > 0 THEN c2 - 2 * half ELSE 0,
                top |-> c2 + 2 * half]
          ELSE [bottom |-> 2 * yMin, top |-> 2 * yMax]

-----------------------------------------------------------------------------
\* Lines 194-211 (pad = 2 * margin_gb) and 246-263 (pad = margin_mb): the
\* data range padded on both sides, the bottom clamped at zero, and a range
\* narrower than 2 * half replaced by [max(0, centre - half), centre + half].
\* The result is doubled.
YLimits(lo, hi, pad, half, edgeWidens) ==
    LET yMin == IF lo - pad > 0 THEN lo - pad ELSE 0
        yMax == hi + pad
        c2 == yMin + yMax
    IN IF Narrow(yMax - yMin, half, edgeWidens)
          THEN [bottom |-> IF c2 - 2 * half > 0 THEN c2 - 2 * half ELSE 0,
                top |-> c2 + 2 * half]
          ELSE [bottom |-> 2 * yMin, top |-> 2 * yMax]

\* Lines 193-213: the limits of the system panel, with the float outcome of
\* the comparison at the boundary.
SysLimits(r, edgeWidens) == YLimits(r.lo, r.hi, SysPad, SysHalf, edgeWidens)

\* Lines 245-265: the limits of the process panel.  rss_kb / 1024 and the
\* 50 MB margins are exact in floating point, so the comparison is exact.
RssLimits(r) == YLimits(r.lo, r.hi, RssPad, RssHalf, FALSE)

\* A plausible-bug variant used by mutation runs: the SecondLocator of the
\* first branch copied into the second.
TickSpecCopied(r) ==
    CASE r <= 60   -> [format |-> "%H:%M:%S", every |-> 10]
      [] r <= 300  -> [format |-> "%H:%M:%S", every |-> 10]
      [] r <= 1800 -> [format |-> "%H:%M", every |-> 300]
      [] r <= 3600 -> [format |-> "%H:%M", every |-> 600]
      [] r <= 7200 -> [format |-> "%H:%M", every |-> 1200]
      [] OTHER     -> [format |-> "%H:%M", every |-> 1800]

\* Lines 288-311: the label format and the tick interval (in seconds) of
\* the time axis, chosen by the length of the run.  The loop of line 288
\* gives ax1 and ax2, which do not share x (line 151), the same locator,
\* computed from the process samples' span.
TickSpec(r) ==
    CASE r <= 60   -> [format |-> "%H:%M:%S", every |-> 10]
      [] r <= 300  -> [format |-> "%H:%M:%S", every |-> 30]
      [] r <= 1800 -> [format |-> "%H:%M", every |-> 300]
      [] r <= 3600 -> [format |-> "%H:%M", every |-> 600]
      [] r <= 7200 -> [format |-> "%H:%M", every |-> 1200]
      [] OTHER     -> [format |-> "%H:%M", every |-> 1800]

\* Lines 216-236: the first Total entry moved to the front, then every
\* label after its first occurrence dropped.
RECURSIVE Dedup(_, _)
Dedup(s, seen) ==
    IF s = <<>> THEN <<>>
    ELSE IF Head(s) \in seen THEN Dedup(Tail(s), seen)
    ELSE <<Head(s)>> \o Dedup(Tail(s), seen \cup {Head(s)})

LegendOrder(ls) ==
    LET totals == {i \in DOMAIN ls : IsTotal(ls[i])}
        moved == IF totals = {} THEN ls
                 ELSE LET d == CHOOSE i \in totals : \A j \in totals : i <= j
                      IN <<ls[d]>> \o SubSeq(ls, 1, d - 1)
                                   \o SubSeq(ls, d + 1, Len(ls))
    IN Dedup(moved, {})

Init ==
    /\ rss \in Range(RssValues)
    /\ used \in Range(SysValues) \cup {NoSeries}
    /\ timeRange \in TimeRanges
    /\ sysRange \in IF used = NoSeries THEN {0} ELSE SysTimeRanges
    /\ status = "pending"
    /\ ylim1 = NoSeries /\ ylim2 = NoSeries /\ xticks = NoSeries
    /\ legend = <<>>

\* Line 169: system_df['total_memory_gb'].iloc[0] raises on an empty
\* system_df, before anything is drawn or saved.
RenderRaises ==
    /\ status = "pending"
    /\ used = NoSeries
    /\ status' = "raised"
    /\ UNCHANGED <<rss, used, timeRange, sysRange, ylim1, ylim2, xticks,
                   legend>>

\* Lines 145-320 with a non-empty system_df: both panels, the shared time
\* axis, the legend, and plt.savefig.
Render ==
    /\ status = "pending"
    /\ used # NoSeries
    /\ \E edgeWidens \in BOOLEAN : ylim1' = SysLimits(used, edgeWidens)
    /\ ylim2' = RssLimits(rss)
    /\ xticks' = TickSpec(timeRange)
    /\ legend' = LegendOrder(Labels)
    /\ status' = "saved"
    /\ UNCHANGED <<rss, used, timeRange, sysRange>>

Next == RenderRaises \/ Render

Spec == Init /\ [][Next]_vars

-----------------------------------------------------------------------------
(* Properties                                                              *)

\* Spec sections 4.3 and 8: each panel shows all of its data with at least
\* the margin above the maximum and, unless the axis starts at zero, below
\* the minimum, also after a narrow range has been re-centred.
Brackets(lim, lo, hi, pad) ==
    /\ lim.bottom <= 2 * (lo - pad) \/ lim.bottom = 0
    /\ lim.top >= 2 * (hi + pad)

YLimitsBracketData ==
    status = "saved" =>
        /\ Brackets(ylim1, used.lo, used.hi, SysPad)
        /\ Brackets(ylim2, rss.lo, rss.hi, RssPad)

\* Spec section 4.3: a range narrower than the minimum span (0.2 GB, 100
\* MB) is widened symmetrically to at least that span.
YLimitsMinSpan ==
    status = "saved" =>
        /\ ylim1.top - ylim1.bottom >= 4 * SysHalf
        /\ ylim2.top - ylim2.bottom >= 4 * RssHalf

\* Line 313 ("Limit tick count (max 15)") and spec section 4.3: each
\* panel's time axis has at most MaxTicks major ticks whatever the length
\* of the run; an axis spanning r seconds has at least r \div every ticks.
\* ax2 spans the process samples and ax1 the system samples (line 151).
TickCountCapped ==
    status = "saved" =>
        /\ timeRange \div xticks.every <= MaxTicks
        /\ sysRange \div xticks.every <= MaxTicks

\* The x view of ax2 is the process span r widened by the default 5% axis
\* margin at each end, and a date locator puts its ticks on multiples of
\* its interval inside that view: at most (11 * r) \div (10 * every) + 1.
TicksAtMost(r, every) == (11 * r) \div (10 * every) + 1

\* The breakpoints of lines 294-311 keep the process panel within the cap
\* of line 313 (15 major ticks) for every run of up to two hours, at each
\* breakpoint included, though locator_params (line 314) changes nothing.
\* A one-sample log (r = 0) is left out: the locator widens a zero-width
\* view by an amount that depends on the matplotlib version.
ProcessTicksWithinBreakpoints ==
    status = "saved" /\ 0 < timeRange /\ timeRange <= 7200
        => TicksAtMost(timeRange, xticks.every) <= MaxTicks

=============================================================================
