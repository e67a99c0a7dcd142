------------------------------ MODULE LegendLoop ------------------------------
(***************************************************************************)
(* Lines 216-236 of create_memory_graph                                    *)
(* (src/utils/memory-usage-analysis/analyze_cb_spider_memory.py), one loop *)
(* iteration per step: the search for the first '<Total Memory:' label     *)
(* (lines 218-222, with its break), the move of that entry to the front    *)
(* (lines 223-226) and the de-duplication loop (lines 228-235), ending in  *)
(* ax1.legend (line 236).  A handle travels with its label, so the labels  *)
(* stand for the (handle, label) pairs.                                    *)
(*                                                                         *)
(* The labels the axis holds are any sequence of at most MaxLabels labels, *)
(* so that the algorithm is checked on more than the three labels one call *)
(* of create_memory_graph adds.                                            *)
(***************************************************************************)
EXTENDS Integers, Sequences, SequencesExt, FiniteSets

CONSTANTS
    LabelSet,      \* the labels an axis may hold
    TotalLabels,   \* those that start with '<Total Memory:'
    MaxLabels      \* bound on the number of labels

ASSUME TotalLabels \subseteq LabelSet /\ MaxLabels \in Nat

IsTotal(l) == l \in TotalLabels

VARIABLES
    labels,    \* labels from ax1.get_legend_handles_labels() (line 216)
    phase,     \* "scan", "move", "dedup" or "done"
    i,         \* the loop index of the current loop
    dummyIdx,  \* dummy_idx; 0 stands for None
    moved,     \* labels after the move of lines 223-226
    out,       \* new_labels
    seen       \* seen

vars == <<labels, phase, i, dummyIdx, moved, out, seen>>

Inputs == BoundedSeq(LabelSet, MaxLabels)

TypeOK ==
    /\ labels \in Inputs
    /\ phase \in {"scan", "move", "dedup", "done"}
    /\ i \in 1..(MaxLabels + 1)
    /\ dummyIdx \in 0..MaxLabels
    /\ moved \in Seq(LabelSet)
    /\ out \in Seq(LabelSet)
    /\ seen \subseteq LabelSet

-----------------------------------------------------------------------------
(* Plausible-bug variant used by mutation runs: the break of line 222      *)
(* left out, so the last total entry is the one moved.                     *)
ScanStepNoBreak ==
    /\ phase = "scan"
    /\ i <= Len(labels)
    /\ IF IsTotal(labels[i]) THEN dummyIdx' = i ELSE UNCHANGED dummyIdx
    /\ i' = i + 1
    /\ UNCHANGED <<labels, phase, moved, out, seen>>

-----------------------------------------------------------------------------
\* Lines 225-226: the entry at d in front, the others in their order.
MoveFront(s, d) == <<s[d]>> \o SubSeq(s, 1, d - 1) \o SubSeq(s, d + 1, Len(s))

Init ==
    /\ labels \in Inputs
    /\ phase = "scan"
    /\ i = 1
    /\ dummyIdx = 0
    /\ moved = <<>>
    /\ out = <<>>
    /\ seen = {}

\* Lines 218-222: one iteration of the search; the first total entry found
\* ends the loop.
ScanStep ==
    /\ phase = "scan"
    /\ i <= Len(labels)
    /\ IF IsTotal(labels[i])
          THEN dummyIdx' = i /\ phase' = "move" /\ UNCHANGED i
          ELSE i' = i + 1 /\ UNCHANGED <<dummyIdx, phase>>
    /\ UNCHANGED <<labels, moved, out, seen>>

\* Line 219: the search runs out of labels.
ScanEnd ==
    /\ phase = "scan"
    /\ i > Len(labels)
    /\ phase' = "move"
    /\ UNCHANGED <<labels, i, dummyIdx, moved, out, seen>>

\* Lines 223-230: the move, if a total entry was found; the dedup loop starts.
Move ==
    /\ phase = "move"
    /\ moved' = IF dummyIdx # 0 THEN MoveFront(labels, dummyIdx) ELSE labels
    /\ phase' = "dedup"
    /\ i' = 1
    /\ UNCHANGED <<labels, dummyIdx, out, seen>>

\* Lines 231-235: one iteration of the de-duplication loop.
DedupStep ==
    /\ phase = "dedup"
    /\ i <= Len(moved)
    /\ IF moved[i] \notin seen
          THEN out' = Append(out, moved[i]) /\ seen' = seen \cup {moved[i]}
          ELSE UNCHANGED <<out, seen>>
    /\ i' = i + 1
    /\ UNCHANGED <<labels, phase, dummyIdx, moved>>

\* Line 236: ax1.legend(new_handles, new_labels).
ShowLegend ==
    /\ phase = "dedup"
    /\ i > Len(moved)
    /\ phase' = "done"
    /\ UNCHANGED <<labels, i, dummyIdx, moved, out, seen>>

Next == ScanStep \/ ScanEnd \/ Move \/ DedupStep \/ ShowLegend

\* The loops run on the one thread of the script, each to its end.
Spec == Init /\ [][Next]_vars /\ WF_vars(Next)

-----------------------------------------------------------------------------
(* Refinement: the legend the loops show is the one LegendSpec describes.  *)

Abstract == INSTANCE LegendSpec
    WITH legend <- IF phase = "done" THEN out ELSE <<>>,
         done <- phase = "done"

\* Spec section 4.3: the loops of lines 216-236 eventually show the legend,
\* and it is the first total entry followed by every other label once, in
\* the order of first occurrence.
LegendRefinesSpec == Abstract!Spec

=============================================================================
