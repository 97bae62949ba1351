\* Two handlers, but one update of each process.
CONSTANTS
  Updater = {u1, u2}
  Version = {v1, v2}
  First = v1
  MaxOld = 2
  Tmp = Tmp
  Astray = Astray
  None = None
  Serial = TRUE
SPECIFICATION Spec
INVARIANTS TypeOK BackupKept NextStartRunsUpdate
CHECK_DEADLOCK FALSE
