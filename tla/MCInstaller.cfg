\* One request at a time, the start and the installer; two executables.
CONSTANTS
  d = d x = x
  Config = {d, x} Default = d Valid = {d} Cuts <- CutsMC
  None = None Empty = Empty Bad = Bad
  Main = main Installer = installer
  Handler = {h1}
  Version = {v1, v2} Own = Own Packaged = "whole"
SPECIFICATION HostSpec
INVARIANTS TypeOK HostTypeOK AcknowledgedHolds RefusedForCause StartableForCause
PROPERTY InstallDelivers
SYMMETRY Sym
