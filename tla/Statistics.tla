------------------------------ MODULE Statistics ------------------------------
(***************************************************************************)
(* The change-pattern analysis of analyze_memory_usage (lines 130-140 of   *)
(* src/utils/memory-usage-analysis/analyze_cb_spider_memory.py): rss_diff  *)
(* = rss_mb.diff(), the steps above +Threshold and below -Threshold, and   *)
(* the largest step each way, printed only when a step qualifies.          *)
(*                                                                         *)
(* RSS values are whole MB.  rss_kb / 1024 is exact in floating point, so  *)
(* a step of exactly Threshold MB compares as it does here.  The leading   *)
(* NaN of diff() is left out: it fails both comparisons and max()/min()    *)
(* skip it.  Means, extrema and deviations are only printed and are not    *)
(* modelled.                                                               *)
(***************************************************************************)
EXTENDS Integers, Sequences, SequencesExt, FiniteSets

CONSTANTS
    Values,      \* the RSS values a sample may have, in MB
    Threshold,   \* the 5 MB of lines 131-132
    MaxLen,      \* bound on the number of samples
    None         \* a value not printed

VARIABLES
    series,      \* df['rss_kb'] / 1024, in sample order
    report       \* what lines 134-140 print, or None before the call

vars == <<series, report>>

Report == [increases : Nat, decreases : Nat,
           maxIncrease : Int \cup {None}, maxDecrease : Int \cup {None}]

TypeOK ==
    /\ series \in Seq(Values) /\ 1 <= Len(series) /\ Len(series) <= MaxLen
    /\ report \in Report \cup {None}

-----------------------------------------------------------------------------
(* A plausible-bug variant used by mutation runs: the increase test made   *)
(* inclusive.                                                              *)
IsIncreaseGe(d) == d >= Threshold

-----------------------------------------------------------------------------
\* Line 130: rss_mb.diff() without its leading NaN.
RECURSIVE Diff(_)
Diff(s) == IF Len(s) < 2 THEN <<>> ELSE <<s[2] - s[1]>> \o Diff(Tail(s))

\* Line 131: the filter rss_diff > 5.
IsIncrease(d) == d > Threshold

\* Line 132: the filter rss_diff < -5.
IsDecrease(d) == d < -Threshold

\* Lines 130-140: the counts, and rss_diff.max() / rss_diff.min() when a
\* step in that direction qualifies.
ChangePatterns(s) ==
    LET d == Diff(s)
        inc == SelectSeq(d, IsIncrease)
        dec == SelectSeq(d, IsDecrease)
    IN [increases |-> Len(inc),
        decreases |-> Len(dec),
        maxIncrease |-> IF Len(inc) > 0 THEN Max(Range(d)) ELSE None,
        maxDecrease |-> IF Len(dec) > 0 THEN Min(Range(d)) ELSE None]

\* main calls analyze_memory_usage only with a non-empty spider_df.
Init ==
    /\ series \in BoundedSeq(Values, MaxLen) \ {<<>>}
    /\ report = None

\* Line 455: analyze_memory_usage(spider_df).
Analyze ==
    /\ report = None
    /\ report' = ChangePatterns(series)
    /\ UNCHANGED series

Spec == Init /\ [][Analyze]_vars

-----------------------------------------------------------------------------
(* Reference: spec section 4.2, stated over pairs of consecutive samples.  *)

Pairs(s) == 1..(Len(s) - 1)
Step(s, i) == s[i + 1] - s[i]
Ups(s) == {i \in Pairs(s) : Step(s, i) > Threshold}
Downs(s) == {i \in Pairs(s) : s[i] - s[i + 1] > Threshold}

\* Spec section 4.2: the number of steps that rise, and that fall, by more
\* than Threshold, and the largest rise and the largest fall (printed as a
\* negative change, the form rss_diff.min() takes) whenever one qualifies.
SpecChangePatterns(s) ==
    [increases |-> Cardinality(Ups(s)),
     decreases |-> Cardinality(Downs(s)),
     maxIncrease |-> IF Ups(s) = {} THEN None
                     ELSE Max({Step(s, i) : i \in Ups(s)}),
     maxDecrease |-> IF Downs(s) = {} THEN None
                     ELSE Min({Step(s, i) : i \in Downs(s)})]

\* Lines 130-140 report what section 4.2 describes for every series: the
\* maximum over all steps (rss_diff.max()) is the largest qualifying rise
\* whenever one is printed, and a step of exactly Threshold MB counts in
\* neither direction.
ChangePatternsMatchSpec ==
    report # None => report = SpecChangePatterns(series)

=============================================================================
