\* Two nodes, a guest of each kind, two requests and the poll.
CONSTANTS
  Node = {n1, n2}
  Local = n1
  Vm = {v}
  Ct = {ct}
  Password = {p1, p2}
  Handler = {h1, h2}
  Poller = poller
  None = None
  MaxChanges = 2
  MaxListings = 1
SPECIFICATION Spec
INVARIANTS TypeOK StayersListedOnce PasswordIsSet
PROPERTY ForgottenForCause
SYMMETRY Alike
