\* Updates of one process one after the other.
CONSTANTS
  Updater = {u1}
  Version = {v1, v2}
  First = v1
  MaxOld = 2
  Tmp = Tmp
  Astray = Astray
  None = None
  Serial = FALSE
SPECIFICATION Spec
PROPERTY UpdateInstalled
CHECK_DEADLOCK FALSE
