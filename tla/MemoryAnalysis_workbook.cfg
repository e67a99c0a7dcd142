\* main(): a workbook on disk after the run holds all of its sheets.
SPECIFICATION Spec
INVARIANTS WorkbookComplete
CHECK_DEADLOCK FALSE
