\* Every string of up to seven bytes after a header of three: an option 53 and an
\* option 50 with an address of two bytes, in both orders, whole or cut off.
CONSTANTS
  Byte = {0, 1, 2, 3, 9}
  MaxBytes = 7
  Datagram <- DatagramMC
  HeaderLen = 3
  BootRequest = 1
  Cookie = 9
  AddrLen = 2
  Pad = 0
  End = 9
  MsgType = 1
  ReqIp = 2
SPECIFICATION Spec
INVARIANTS ParsesLastOptions NoPanic
PROPERTY Terminates
CHECK_DEADLOCK FALSE
