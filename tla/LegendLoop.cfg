\* Lines 215-235 implement the legend order of spec section 4.3.
\* The loops end with ax1.legend, so the run may stop.
CONSTANTS
    LabelSet <- MCLabelSet
    TotalLabels <- MCTotalLabels
    MaxLabels = 6
SPECIFICATION Spec
PROPERTY LegendRefinesSpec
CHECK_DEADLOCK FALSE
