\* Two handlers and the listener, the panel serial per VM.
CONSTANTS
  m1 = m1  m2 = m2
  None = None
  Mac = {m1, m2}
  Vmid = {v1, v2}
  Ip = {i1}
  Worker = {w1, w2}
  Configs <- Firewalls
  PanelSerial = TRUE
  Slots = {0, 1}
  Cards <- CardsMC
SPECIFICATION IdentitySpec
INVARIANTS IdentityTypeOK OneRowPerVmid ServedByItsMac LeaseStands AnswerWasLeased
PROPERTIES OnlyPanelRebinds RegistrySpec
SYMMETRY Sym
