\* The object is destroyed right after it was created.
SPECIFICATION Spec
CONSTANTS
  Users = {u1}
  StepResults = {"again"}
  StartedFirst = FALSE
INVARIANTS FreedAfterRun
\* The object is freed in the end.
CHECK_DEADLOCK FALSE
