----------------------------- MODULE DhcpOptions -----------------------------
(***************************************************************************)
(* A received datagram (parse_dhcp_request, src/src/dhcp.rs): the checks   *)
(* of the fixed header and the loop over code, length and value bytes, one *)
(* action per iteration.                                                   *)
(*                                                                         *)
(* A header is HeaderLen bytes long (240 in the code): the first stands    *)
(* for op, htype and hlen, the last for the magic cookie, those between    *)
(* for the fields that are copied.  An address is AddrLen bytes long (4 in *)
(* the code); the alphabet Byte holds the codes the loop tells apart and   *)
(* the lengths around AddrLen.  A code and a length are never compared, so *)
(* small numbers may stand for both.                                       *)
(***************************************************************************)
EXTENDS Integers, Sequences, FiniteSets, FiniteSetsExt, Functions

CONSTANTS
  Byte,        \* the values of a byte
  Datagram,    \* the datagrams that may arrive
  HeaderLen,   \* the bytes up to the cookie
  BootRequest, \* 1: op, htype and hlen of a request on Ethernet
  Cookie,      \* the magic cookie
  AddrLen,     \* the bytes of an address
  Pad, End,    \* 0 and 255
  MsgType,     \* 53
  ReqIp        \* 50

ASSUME BytesAssumption ==
  /\ Byte \subseteq 0 .. 255 /\ {BootRequest, Cookie, Pad, End, MsgType, ReqIp} \subseteq Byte
  /\ Pad # End
  /\ HeaderLen \in Nat \ {0, 1} /\ AddrLen \in Nat \ {0}
  /\ Datagram \subseteq Seq(Byte)

VARIABLES
  packet,      \* the bytes
  idx,         \* the next byte (from 1)
  pc,          \* "header", "loop", then "parsed" or "ignored"
  header,      \* the bytes read of the header
  msgType,     \* the message type so far: <<>> or one byte
  requested    \* the requested address so far: <<>> or AddrLen bytes

vars == <<packet, idx, pc, header, msgType, requested>>

\* A read past the end, which panics, stands out as no byte.
Panic == 256
At(i) == IF i \in DOMAIN packet THEN packet[i] ELSE Panic

Value(i, n) == [k \in 1 .. n |-> At(i + k - 1)]

-----------------------------------------------------------------------------
(* The header. *)

\* Mutant: the cookie is not counted.
TooShortForCookie == Len(packet) < HeaderLen - 1

TooShort == Len(packet) < HeaderLen

Short ==
  /\ pc = "header"
  /\ TooShort
  /\ pc' = "ignored"
  /\ UNCHANGED <<packet, idx, header, msgType, requested>>

ReadHeader ==
  /\ pc = "header"
  /\ ~TooShort
  /\ header' = Value(1, HeaderLen)
  /\ UNCHANGED <<packet, idx, msgType, requested>>

IsRequest == At(1) = BootRequest /\ At(HeaderLen) = Cookie

Foreign == ReadHeader /\ ~IsRequest /\ pc' = "ignored"

Header == ReadHeader /\ IsRequest /\ pc' = "loop"

-----------------------------------------------------------------------------
(* One iteration. *)

InLoop == pc = "loop" /\ idx <= Len(packet)

\* A packet without a message type is ignored.
Leave ==
  /\ pc' = IF msgType = <<>> THEN "ignored" ELSE "parsed"
  /\ UNCHANGED <<packet, idx, header, msgType, requested>>

Exhausted == pc = "loop" /\ idx > Len(packet) /\ Leave

EndOption == InLoop /\ At(idx) = End /\ Leave

\* Mutant: the index is not advanced before the loop continues.
PaddingStays ==
  /\ InLoop
  /\ At(idx) = Pad
  /\ UNCHANGED vars

Padding ==
  /\ InLoop
  /\ At(idx) = Pad
  /\ idx' = idx + 1
  /\ UNCHANGED <<packet, pc, header, msgType, requested>>

Tlv == InLoop /\ At(idx) \notin {Pad, End}

\* Mutant: the length byte is taken for granted.
LengthGranted == FALSE

\* The length byte, or the value, is cut off by the end of the packet.
NoLength == idx + 1 > Len(packet)

\* Mutant: off by one.
CutOffLate == ~NoLength /\ idx + 2 + At(idx + 1) > Len(packet) + 2

CutOff == ~NoLength /\ idx + 2 + At(idx + 1) > Len(packet) + 1

Truncated ==
  /\ Tlv
  /\ NoLength \/ CutOff
  /\ Leave

\* Mutant: the first message type counts.
TakesFirstMsgType(code, n) == code = MsgType /\ n >= 1 /\ msgType = <<>>

TakesMsgType(code, n) == code = MsgType /\ n >= 1

TakesReqIp(code, n) == code = ReqIp /\ n = AddrLen

Option ==
  /\ Tlv
  /\ ~NoLength
  /\ ~CutOff
  /\ LET code == At(idx)
         n == At(idx + 1)
     IN  /\ msgType' = IF TakesMsgType(code, n) THEN Value(idx + 2, 1) ELSE msgType
         /\ requested' = IF TakesReqIp(code, n) THEN Value(idx + 2, AddrLen) ELSE requested
         /\ idx' = idx + 2 + n
  /\ UNCHANGED <<packet, pc, header>>

Init ==
  /\ packet \in Datagram
  /\ idx = HeaderLen + 1
  /\ pc = "header"
  /\ header = <<>>
  /\ msgType = <<>>
  /\ requested = <<>>

Next == Short \/ Foreign \/ Header \/ Exhausted \/ EndOption \/ Padding \/ Truncated \/ Option

Spec == Init /\ [][Next]_vars /\ WF_vars(Next)

-----------------------------------------------------------------------------
(* Correctness, against the options as a set. *)

First == HeaderLen + 1

\* The positions a walk over whole options visits: the first, and what follows a padding
\* byte or a whole option at a visited position.
Follows(i) ==
  CASE packet[i] = Pad -> {i + 1}
    [] packet[i] = End -> {}
    [] OTHER -> IF i + 1 \in DOMAIN packet THEN {i + 2 + packet[i + 1]} ELSE {}

IsPath(path, i) ==
  /\ {First, i} \subseteq path
  /\ \A j \in path \ {i} : \E k \in Follows(j) \cap path : \A l \in path : l > j => l >= k

Visited ==
  {i \in First .. Len(packet) : \E path \in SUBSET (First .. i) : IsPath(path, i)}

\* The whole options of the packet, each as the position of its code.
Options ==
  {i \in Visited :
     /\ packet[i] \notin {Pad, End}
     /\ i + 1 \in DOMAIN packet
     /\ i + 1 + packet[i + 1] <= Len(packet)}

OptionsOf(code, lengths) ==
  {i \in Options : packet[i] = code /\ packet[i + 1] \in lengths}

LastOf(code, lengths) ==
  LET S == OptionsOf(code, lengths) IN  IF S = {} THEN 0 ELSE Max(S)

Ended == pc \in {"parsed", "ignored"}

Valid ==
  /\ Len(packet) >= HeaderLen
  /\ packet[1] = BootRequest /\ packet[HeaderLen] = Cookie

\* A datagram is a request exactly if its header is one's and it has a message type;
\* the parser takes that from the last whole option 53 that is not empty, and the
\* requested address from the last whole option 50 of the length of an address,
\* whatever precedes, follows or cuts them off.
ParsesLastOptions ==
  Ended =>
    LET m == LastOf(MsgType, 1 .. 255)
        r == LastOf(ReqIp, {AddrLen})
    IN  /\ pc = "parsed" <=> Valid /\ m # 0
        /\ pc = "parsed" =>
             /\ msgType = SubSeq(packet, m + 2, m + 2)
             /\ requested = IF r = 0 THEN <<>> ELSE SubSeq(packet, r + 2, r + 1 + AddrLen)

\* No datagram, however short or malformed, makes the listener read past its end: not
\* the header, not a value, not the code or the length byte the next iteration reads.
NoPanic ==
  /\ Panic \notin Range(header) \cup Range(msgType) \cup Range(requested)
  /\ Tlv => At(idx) # Panic /\ (NoLength \/ At(idx + 1) # Panic)

\* No datagram keeps the listener in the loop.
Terminates == <>Ended
=============================================================================
