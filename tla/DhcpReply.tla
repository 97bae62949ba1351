------------------------------ MODULE DhcpReply ------------------------------
(***************************************************************************)
(* The datagram that answers a client (build_dhcp_response, build_dhcp_    *)
(* nak_response, push_option and resolve_dhcp_target in src/src/dhcp.rs),  *)
(* from the assignment of the lease (LeaseNetwork) to the client that      *)
(* takes the options apart, one by one.                                    *)
(*                                                                         *)
(* Which answer a client gets is the matter of DhcpLeases; here it is any. *)
(* An address or a time is one octet, not four, and the longest value an   *)
(* option may have is scaled down with it; the octet of an address or of a *)
(* mask of LeaseNetwork is its bits.                                       *)
(***************************************************************************)
EXTENDS LeaseNetwork, Sequences

CONSTANTS
  MaxValue,    \* the longest value of an option: 255 octets in the code
  MaxDns,      \* bound: DNS servers of a lease
  Secs         \* the lease time answered

ASSUME ReplyAssumption == MaxValue \in Nat \ {0} /\ MaxDns \in Nat /\ Secs \in Nat

VARIABLES
  dns,         \* the DNS servers of the lease
  client,      \* what the client is doing, and if it is behind a relay
  reply,       \* what is sent, and to where
  left,        \* the options the client has not taken apart yet
  got          \* those it has

vars == <<netVars, dns, client, reply, left, got>>

Server == 3    \* octets that stand for the server's address and the text of a NAK
Text == 4
End == 255

Offer == 2
Ack == 5
Nak == 6

-----------------------------------------------------------------------------
(* The client's message. *)

\* A client that renews writes to the server itself; the others broadcast.
Unicasts(c) == c.state = "renewing"

HasAddress(c) == c.state \in {"renewing", "rebinding"}

Relayed(c) == c.remote /\ ~Unicasts(c)

Packet(c) ==
  [giaddr |-> IF Relayed(c) THEN "relay" ELSE "zero",
   ciaddr |-> IF HasAddress(c) THEN "own" ELSE "zero",
   src |-> CASE Relayed(c) -> "relay"
             [] ~Relayed(c) /\ HasAddress(c) -> "own"
             [] OTHER -> "zero"]

-----------------------------------------------------------------------------
(* The answer. *)

\* Mutant: a length that does not fit its octet wraps.
AnyOption(code, value) ==
  IF value = <<>> THEN <<>> ELSE <<code, Len(value) % (MaxValue + 1)>> \o value

PushOption(code, value) ==
  IF value = <<>> \/ Len(value) > MaxValue THEN <<>>
  ELSE <<code, Len(value)>> \o value

LeaseOptions(type) ==
  PushOption(53, <<type>>) \o PushOption(54, <<Server>>)
    \o PushOption(1, <<CidrToMask(outcome.cidr)>>) \o PushOption(3, <<request.gateway>>)
    \o PushOption(6, dns)
    \o PushOption(51, <<Secs>>) \o PushOption(58, <<Secs \div 2>>)
    \o PushOption(59, <<(Secs * 7) \div 8>>) \o <<End>>

NakOptions ==
  PushOption(53, <<Nak>>) \o PushOption(54, <<Server>>) \o PushOption(56, <<Text>>)
    \o <<End>>

\* Mutant: the sender is answered.
TargetOfSource(p) ==
  CASE p.src # "zero" -> [ip |-> p.src, port |-> 68]
    [] p.ciaddr # "zero" -> [ip |-> p.ciaddr, port |-> 68]
    [] p.giaddr # "zero" -> [ip |-> p.giaddr, port |-> 67]
    [] OTHER -> [ip |-> "broadcast", port |-> 68]

ResolveDhcpTarget(p) ==
  CASE p.giaddr # "zero" -> [ip |-> p.giaddr, port |-> 67]
    [] p.giaddr = "zero" /\ p.ciaddr # "zero" -> [ip |-> p.ciaddr, port |-> 68]
    [] p.giaddr = "zero" /\ p.ciaddr = "zero" /\ p.src # "zero" -> [ip |-> p.src, port |-> 68]
    [] OTHER -> [ip |-> "broadcast", port |-> 68]

NoReply == [kind |-> "none", to |-> [ip |-> "nowhere", port |-> 0]]

Send(kind, options) ==
  /\ outcome.status = "ok"
  /\ reply = NoReply
  /\ reply' = [kind |-> kind, to |-> ResolveDhcpTarget(Packet(client))]
  /\ left' = options
  /\ UNCHANGED <<netVars, dns, client, got>>

SendLease == \E type \in {Offer, Ack} : Send("lease", LeaseOptions(type))

SendNak == Send("nak", NakOptions)

-----------------------------------------------------------------------------
(* The client's side: the options one after the other, up to the end or to *)
(* one that is cut off, as RFC 2132 has them.                              *)

Whole(options) ==
  /\ Len(options) >= 2 /\ options[1] # End
  /\ Len(options) >= options[2] + 2

TakeOption ==
  /\ Whole(left)
  /\ got' = got \cup {[code |-> left[1], value |-> SubSeq(left, 3, left[2] + 2)]}
  /\ left' = SubSeq(left, left[2] + 3, Len(left))
  /\ UNCHANGED <<netVars, dns, client, reply>>

Reads(code) == {o.value : o \in {o \in got : o.code = code}}

Arrives(c, to) ==
  \/ to = [ip |-> "relay", port |-> 67] /\ Relayed(c)
  \/ to = [ip |-> "own", port |-> 68] /\ HasAddress(c)
  \/ to = [ip |-> "broadcast", port |-> 68] /\ ~c.remote

-----------------------------------------------------------------------------

Init ==
  /\ NetworkInit
  /\ \E n \in 0 .. MaxDns : dns = [i \in 1 .. n |-> i]
  /\ client \in [state : {"selecting", "rebooting", "renewing", "rebinding"}, remote : BOOLEAN]
  /\ reply = NoReply
  /\ left = <<>>
  /\ got = {}

Next ==
  \/ (Assign \/ Retry) /\ UNCHANGED <<dns, client, reply, left, got>>
  \/ SendLease \/ SendNak \/ TakeOption

Spec == Init /\ [][Next]_vars

-----------------------------------------------------------------------------
(* Correctness. *)

Finished(kind) == reply.kind = kind /\ ~Whole(left)

\* Whatever DNS servers the lease has, the client comes to the end of the options and has
\* found each one it needs, with its value and no other; the servers, all of them or, if
\* they are too many, none.  Of a NAK it knows that it is one, and from whom.
ClientReadsReply ==
  /\ Finished("lease") =>
       /\ left = <<End>>
       /\ Reads(53) \in {{<<Offer>>}, {<<Ack>>}}
       /\ Reads(54) = {<<Server>>}
       /\ Reads(3) = {<<request.gateway>>}
       /\ \E mask \in Addr : Reads(1) = {<<mask>>}
       /\ Reads(6) = IF Len(dns) \in 1 .. MaxValue THEN {dns} ELSE {}
       /\ Reads(51) = {<<Secs>>}
       /\ \E t1, t2 \in 0 .. Secs : t1 <= t2 /\ Reads(58) = {<<t1>>} /\ Reads(59) = {<<t2>>}
  /\ Finished("nak") =>
       left = <<End>> /\ Reads(53) = {<<Nak>>} /\ Reads(54) = {<<Server>>}

\* The answer reaches the client: on the link of the server or behind a relay, with an
\* address it may be reached at or without one.
ReplyArrives == reply.kind # "none" => Arrives(client, reply.to)

OnLink(a, b, mask) == \A k \in 1 .. W : mask[k] = 1 => a[k] = b[k]

Length(mask) == Cardinality({k \in 1 .. W : mask[k] = 1})

\* A client can always reach the router it is given: by the mask of the same answer,
\* the router is on the client's own link.
RouterOnLink ==
  Finished("lease") =>
    \A mask \in Reads(1), router \in Reads(3) : OnLink(request.ip, router[1], mask[1])

\* The mask answered is the requested one, or one bit shorter and then only because
\* the requested one would put the gateway off the link.
WidenedOnlyOnce ==
  Finished("lease") =>
    \A mask \in Reads(1) :
      \/ Length(mask[1]) = request.cidr
      \/ /\ Length(mask[1]) = request.cidr - 1
         /\ request.ip[request.cidr] # request.gateway[request.cidr]
=============================================================================
