------------------------------ MODULE LegendSpec ------------------------------
(***************************************************************************)
(* What spec section 4.3 promises of the legend of the system panel: the   *)
(* synthetic "total capacity" entry first, and every label once, the first *)
(* occurrence winning.  In one step the labels the axis holds become the   *)
(* legend.  LegendLoop is shown to implement this specification.           *)
(***************************************************************************)
EXTENDS Integers, Sequences, FiniteSets

CONSTANTS
    Inputs,        \* the label sequences an axis may hold
    IsTotal(_)     \* the label is a '<Total Memory:...>' entry

VARIABLES
    labels,        \* the labels of the axis, in the order they were added
    legend,        \* the legend shown; <<>> until it is shown
    done           \* the legend has been shown

vars == <<labels, legend, done>>

\* The elements of s that occur nowhere before, in the order of s.
FirstOccurrences(s) ==
    LET keep == {i \in DOMAIN s : \A j \in 1..(i - 1) : s[j] # s[i]}
        rank(i) == Cardinality({j \in keep : j <= i})
    IN [k \in 1..Cardinality(keep) |-> s[CHOOSE i \in keep : rank(i) = k]]

\* The legend section 4.3 describes: the first total entry in front of the
\* other labels, each label once, first occurrence first.
Expected(s) ==
    LET totals == {i \in DOMAIN s : IsTotal(s[i])}
    IN IF totals = {} THEN FirstOccurrences(s)
       ELSE LET t == s[CHOOSE i \in totals : \A j \in totals : i <= j]
            IN <<t>> \o SelectSeq(FirstOccurrences(s), LAMBDA l : l # t)

Init ==
    /\ labels \in Inputs
    /\ legend = <<>>
    /\ done = FALSE

Show ==
    /\ ~done
    /\ legend' = Expected(labels)
    /\ done' = TRUE
    /\ UNCHANGED labels

Spec == Init /\ [][Show]_vars /\ WF_vars(Show)

=============================================================================
