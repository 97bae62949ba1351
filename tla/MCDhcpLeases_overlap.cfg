\* Two overlapping assignments of one VM.
CONSTANTS
  None = None
  Mac = {m1, m2}
  Vmid = {v1, v2}
  Ip = {i1}
  Worker = {w1, w2}
  Configs <- OnlyOn
  PanelSerial = FALSE
SPECIFICATION Spec
INVARIANT OneRowPerVmid
