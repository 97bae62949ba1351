\* One assignment beside one REQUEST, two addresses.
CONSTANTS
  None = None
  Mac = {m1, m2}
  Vmid = {v1, v2}
  Ip = {i1, i2}
  Worker = {w1}
  Configs <- OnlyOn
  PanelSerial = TRUE
SPECIFICATION Spec
INVARIANT AckMatchesRequest
