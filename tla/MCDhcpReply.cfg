\* Every address, gateway and cidr of four-bit addresses.
CONSTANTS W = 4 MaxValue = 3 MaxDns = 5 Secs = 8
SPECIFICATION Spec
INVARIANTS RouterOnLink WidenedOnlyOnce HintIsAccepted ClientReadsReply ReplyArrives
CHECK_DEADLOCK FALSE
