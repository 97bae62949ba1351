--------------------------- MODULE MCDhcpOptions ---------------------------
(* A small instance of DhcpOptions: every string of options behind one header, and *)
(* every header.                                                                   *)
EXTENDS DhcpOptions

CONSTANT MaxBytes    \* bound: the bytes after the cookie

Strings(max) == UNION {[1 .. n -> Byte] : n \in 0 .. max}

\* Nothing else in a header that is accepted is looked at.
OneHeader == [i \in 1 .. HeaderLen |-> IF i = 1 THEN BootRequest ELSE Cookie]

DatagramMC == Strings(HeaderLen) \cup {OneHeader \o options : options \in Strings(MaxBytes)}
=============================================================================
