\* Three runs of the script: a second one after an interrupted one, and a
\* third after a rollback.
SPECIFICATION Spec
CONSTANTS
  None = None
  MaxRuns = 3
CHECK_DEADLOCK FALSE
INVARIANTS
  UpdateTypeOK
  PreviousRecoverable
  RollbackRestores
  UpdateIsWhole
