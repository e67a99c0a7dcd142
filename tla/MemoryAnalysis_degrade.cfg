\* main(): a missing or empty system memory log, or an unusable
\* execution-time file, must not end the run.
SPECIFICATION Spec
INVARIANTS OptionalInputsDegrade
CHECK_DEADLOCK FALSE
