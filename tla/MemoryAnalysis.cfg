\* main(): outputs are written only for a log with rows for the pid, a
\* chart without its workbook only after save_to_excel raised, and a run
\* on good inputs ends with both outputs.
\* main returns, so the run may stop.
SPECIFICATION Spec
INVARIANTS OutputsOnlyFromRows MixedOutputsSignalled
PROPERTY EndToEnd
CHECK_DEADLOCK FALSE
