-------------------------- MODULE DhcpReply_proofs --------------------------
(***************************************************************************)
(* Theorems about LeaseNetwork and DhcpReply, for addresses of any width.  *)
(***************************************************************************)
EXTENDS DhcpReply, SequenceTheorems, FiniteSetTheorems, TLAPS

-----------------------------------------------------------------------------
(* LeaseNetwork: which prefix is accepted. *)

\* The bits of a mask: c ones, then zeros.
LEMMA MaskBits ==
  ASSUME NEW c \in 0 .. W
  PROVE  /\ SubnetMask(c) = [k \in 1 .. W |-> IF k <= c THEN 1 ELSE 0]
         /\ CidrToMask(c) = SubnetMask(c)
<1>1. W \in Nat /\ c \in Nat /\ c <= W
  BY WidthAssumption
<1>2. CASE c = 0
  <2>1. Zeros = [k \in 1 .. W |-> IF k <= c THEN 1 ELSE 0]
    BY <1>1, <1>2 DEF Zeros
  <2> QED
    BY <1>2, <2>1 DEF SubnetMask, CidrToMask
<1>3. CASE c # 0
  <2>1. \A k \in 1 .. W : k + (W - c) <= W <=> k <= c
    BY <1>1
  <2>2. \A k \in 1 .. W : k <= c => k + (W - c) \in 1 .. W
    BY <1>1
  <2>3. \A k \in 1 .. W : k <= c => Ones[k + (W - c)] = 1
    BY <2>2 DEF Ones
  <2>4. ShiftLeft(Ones, W - c) = [k \in 1 .. W |-> IF k <= c THEN 1 ELSE 0]
    BY <2>1, <2>3 DEF ShiftLeft
  <2> QED
    BY <1>3, <2>4 DEF SubnetMask, CidrToMask
<1> QED
  BY <1>2, <1>3

\* Two addresses are on one network under c exactly if their c leading bits agree.
LEMMA SharedBits ==
  ASSUME NEW a \in Addr, NEW b \in Addr, NEW c \in 0 .. W
  PROVE  SameNetwork(a, b, c) <=> \A k \in 1 .. W : k <= c => a[k] = b[k]
<1> DEFINE mask == SubnetMask(c)
<1>0. mask = [k \in 1 .. W |-> IF k <= c THEN 1 ELSE 0]
  BY MaskBits
<1> HIDE DEF mask
<1>1. \A k \in 1 .. W : mask[k] = 1 <=> k <= c
  BY <1>0
<1>2. \A k \in 1 .. W : /\ BitAnd(a, mask)[k] = IF k <= c THEN a[k] ELSE 0
                        /\ BitAnd(b, mask)[k] = IF k <= c THEN b[k] ELSE 0
  BY <1>1 DEF BitAnd
<1>3. BitAnd(a, mask) = BitAnd(b, mask)
        <=> \A k \in 1 .. W : BitAnd(a, mask)[k] = BitAnd(b, mask)[k]
  BY DEF BitAnd
<1> QED
  BY <1>2, <1>3 DEF SameNetwork, mask

\* A prefix under which the addresses agree is taken as it is.
LEMMA SharedIsAccepted ==
  ASSUME NEW ip, NEW gateway, NEW c \in 1 .. W, SameNetwork(ip, gateway, c)
  PROVE  EffectiveCidr(ip, gateway, c) = Accepted(c)
<1>1. W \in Nat /\ c \in Nat /\ c # 0 /\ ~(c > W)
  BY WidthAssumption
<1> QED
  BY <1>1 DEF EffectiveCidr

\* The prefix an error mentions is one under which they agree.
LEMMA HintIsShared ==
  ASSUME NEW ip, NEW gateway, NEW c \in Cidr, EffectiveCidr(ip, gateway, c).status = "hint"
  PROVE  /\ EffectiveCidr(ip, gateway, c).cidr \in 1 .. W
         /\ SameNetwork(ip, gateway, EffectiveCidr(ip, gateway, c).cidr)
<1> DEFINE p == CHOOSE q \in 1 .. c - 1 : LongestShared(ip, gateway, c, q)
<1>bounds. W \in Nat /\ c \in Int
  BY WidthAssumption DEF Cidr
<1>Accepted. \A x : Accepted(x).status # "hint" /\ Refused.status # "hint"
  BY DEF Accepted, Refused
<1>LongestShared. /\ ~(c > W)
                  /\ \E q \in 1 .. c - 1 : LongestShared(ip, gateway, c, q)
                  /\ EffectiveCidr(ip, gateway, c) = Mentioning(p)
  BY <1>bounds, <1>Accepted DEF EffectiveCidr, Cidr
<1>LongestSharedIp. p \in 1 .. c - 1 /\ LongestShared(ip, gateway, c, p)
  BY <1>LongestShared
<1> HIDE DEF p
<1>EffectiveCidr. EffectiveCidr(ip, gateway, c).cidr = p
  BY <1>LongestShared DEF Mentioning
<1> QED
  BY <1>bounds, <1>LongestShared, <1>LongestSharedIp, <1>EffectiveCidr DEF LongestShared

\* A prefix that is accepted is the requested one, or one bit shorter and then only since
\* the requested one would part the addresses; under it they agree, so that the router
\* of the lease is on its network.
THEOREM AcceptedIsShared ==
  ASSUME NEW ip \in Addr, NEW gateway \in Addr, NEW c \in Cidr,
         EffectiveCidr(ip, gateway, c).status = "ok"
  PROVE  \E e \in 0 .. W :
           /\ EffectiveCidr(ip, gateway, c) = Accepted(e)
           /\ SameNetwork(ip, gateway, e)
           /\ e # c => e = c - 1 /\ ~SameNetwork(ip, gateway, c)
<1>bounds. W \in Nat /\ c \in Int
  BY WidthAssumption DEF Cidr
<1>Refused. Refused.status # "ok" /\ \A x : Mentioning(x).status # "ok"
  BY DEF Mentioning, Refused
<1>same. CASE c = 0
  <2>EffectiveCidr. EffectiveCidr(ip, gateway, c) = Accepted(0)
    BY <1>bounds, <1>same DEF EffectiveCidr
  <2>bounds. 0 \in 0 .. W /\ \A k \in 1 .. W : ~(k <= 0)
    BY <1>bounds
  <2>SameNetwork. SameNetwork(ip, gateway, 0)
    BY <2>bounds, SharedBits
  <2> QED
    BY <1>same, <2>EffectiveCidr, <2>bounds, <2>SameNetwork
<1>isSameNetwork. CASE c # 0 /\ SameNetwork(ip, gateway, c)
  <2>within. ~(c > W)
    <3>1. c > W => EffectiveCidr(ip, gateway, c) = Refused
      BY <1>bounds, <1>isSameNetwork, WidthAssumption DEF EffectiveCidr
    <3> QED
      BY <1>Refused, <3>1
  <2>bounds. c \in 1 .. W
    BY <1>bounds, <1>isSameNetwork, <2>within DEF Cidr
  <2>EffectiveCidr. EffectiveCidr(ip, gateway, c) = Accepted(c)
    BY <1>isSameNetwork, <2>bounds, SharedIsAccepted
  <2>typed. c \in 0 .. W
    BY <1>bounds, <2>bounds
  <2> QED
    BY <1>isSameNetwork, <2>EffectiveCidr, <2>typed
<1>isNotSameNetwork. CASE c # 0 /\ ~SameNetwork(ip, gateway, c)
  <2>EffectiveCidr.
      EffectiveCidr(ip, gateway, c) = Accepted(c - 1) /\ SameNetwork(ip, gateway, c - 1) /\ c \in 2 .. W
    BY <1>bounds, <1>Refused, <1>isNotSameNetwork DEF EffectiveCidr, Cidr, OneLooser
  <2> QED
    BY <1>bounds, <1>Refused, <1>isNotSameNetwork, <2>EffectiveCidr
<1> QED
  BY <1>same, <1>isSameNetwork, <1>isNotSameNetwork

\* What an assignment is answered with, and what a hint has made of it.
NetworkInv ==
  /\ request \in [ip : Addr, gateway : Addr, cidr : Cidr, hinted : BOOLEAN]
  /\ outcome = None
       \/ outcome = EffectiveCidr(request.ip, request.gateway, request.cidr)
  /\ request.hinted =>
       /\ request.cidr \in 1 .. W
       /\ SameNetwork(request.ip, request.gateway, request.cidr)

\* Each step keeps it.
LEMMA NetworkStep ==
  ASSUME NetworkInv, [Next]_vars
  PROVE  NetworkInv'
<1>Assign. CASE Assign
  BY <1>Assign DEF Assign, NetworkInv
<1>Retry. CASE Retry
  <2>1. outcome = EffectiveCidr(request.ip, request.gateway, request.cidr)
    BY <1>Retry DEF Retry, NetworkInv, None
  <2>2. outcome.cidr \in 1 .. W /\ SameNetwork(request.ip, request.gateway, outcome.cidr)
    BY <1>Retry, <2>1, HintIsShared DEF Retry, NetworkInv
  <2>3. outcome.cidr \in Cidr
    BY <2>2, WidthAssumption DEF Cidr
  <2>4. /\ request' \in [ip : Addr, gateway : Addr, cidr : Cidr, hinted : BOOLEAN]
        /\ request'.ip = request.ip /\ request'.gateway = request.gateway
        /\ request'.cidr = outcome.cidr /\ outcome' = None
    BY <1>Retry, <2>3 DEF Retry, NetworkInv
  <2> QED
    BY <2>2, <2>4 DEF NetworkInv
<1>Unchanged. CASE UNCHANGED netVars
  BY <1>Unchanged DEF NetworkInv, netVars
<1> QED
  BY <1>Assign, <1>Retry, <1>Unchanged DEF Next, SendLease, SendNak, Send, TakeOption, vars

\* The cidr an error message tells the panel to try is accepted exactly as it is, for
\* every pair of addresses of any width.
THEOREM HintsAccepted == Spec => []HintIsAccepted
<1>init. Init => NetworkInv
  BY DEF Init, NetworkInit, NetworkInv
<1>step. NetworkInv /\ [Next]_vars => NetworkInv'
  BY NetworkStep
<1>NetworkInv. NetworkInv => HintIsAccepted
  BY SharedIsAccepted DEF NetworkInv, HintIsAccepted
<1> QED
  BY <1>init, <1>step, <1>NetworkInv, PTL DEF Spec

-----------------------------------------------------------------------------
(* DhcpReply: where an answer goes. *)

\* Every client is reached at the address resolve_dhcp_target takes.
LEMMA TargetArrives ==
  ASSUME NEW c \in [state : {"selecting", "rebooting", "renewing", "rebinding"}, remote : BOOLEAN]
  PROVE  Arrives(c, ResolveDhcpTarget(Packet(c)))
BY DEF Arrives, ResolveDhcpTarget, Packet, Relayed, HasAddress, Unicasts

-----------------------------------------------------------------------------
(* What a datagram says, and a client that takes it apart. *)

Octet == Nat \cup Addr

Entry == [code : Nat \ {End}, value : Seq(Octet)]

\* push_option carries the option.
Carried(o) == o.value # <<>> /\ Len(o.value) <= MaxValue

\* rest[k] is what a datagram with the options opts has from the k-th on.  No two
\* successive options are dropped, and not the last.
Encodes(opts, rest) ==
  /\ opts \in Seq(Entry) /\ rest \in Seq(Seq(Octet)) /\ Len(rest) = Len(opts) + 1
  /\ rest[Len(rest)] = <<End>>
  /\ \A k \in 1 .. Len(opts) :
       /\ rest[k] = PushOption(opts[k].code, opts[k].value) \o rest[k + 1]
       /\ ~Carried(opts[k]) => k < Len(opts) /\ Carried(opts[k + 1])

\* The client has taken the options before the k-th.
TakenUpTo(opts, rest, k) ==
  /\ left = rest[k]
  /\ got = {opts[j] : j \in {j \in 1 .. k - 1 : Carried(opts[j])}}
  /\ k < Len(rest) => Carried(opts[k])

\* It is somewhere in a datagram with these options.
Reading(opts, datagram) ==
  \E rest : /\ Encodes(opts, rest) /\ rest[1] = datagram
            /\ \E k \in 1 .. Len(rest) : TakenUpTo(opts, rest, k)

\* Options that are not carried leave no octet.
LEMMA Pushed ==
  ASSUME NEW o \in Entry
  PROVE  PushOption(o.code, o.value)
           = IF Carried(o) THEN <<o.code, Len(o.value)>> \o o.value ELSE <<>>
<1>1. Len(o.value) \in Nat /\ MaxValue \in Nat
  BY ReplyAssumption DEF Entry
<1>2. Len(o.value) > MaxValue <=> ~(Len(o.value) <= MaxValue)
  BY <1>1
<1> QED
  BY <1>2 DEF PushOption, Carried

\* Sequences one behind the other.
LEMMA Joined ==
  ASSUME NEW a \in Seq(Octet), NEW b \in Seq(Octet)
  PROVE  /\ a \o b \in Seq(Octet) /\ Len(a \o b) = Len(a) + Len(b)
         /\ \A i \in 1 .. Len(a) : (a \o b)[i] = a[i]
         /\ \A i \in 1 .. Len(b) : (a \o b)[Len(a) + i] = b[i]
<1> DEFINE m == Len(a)
           n == Len(b)
<1>bounds. m \in Nat /\ n \in Nat
  BY LenProperties
<1>Octet. /\ a \o b \in Seq(Octet) /\ Len(a \o b) = m + n
          /\ \A i \in 1 .. m + n : (a \o b)[i] = IF i <= m THEN a[i] ELSE b[i - m]
  BY ConcatProperties
<1> HIDE DEF m, n
<1>front. ASSUME NEW i \in 1 .. m
          PROVE  (a \o b)[i] = a[i]
  <2>bounds. i \in 1 .. m + n /\ i <= m
    BY <1>bounds
  <2> QED
    BY <1>bounds, <1>Octet, <2>bounds
<1>back. ASSUME NEW i \in 1 .. n
         PROVE  (a \o b)[m + i] = b[i]
  <2>bounds. m + i \in 1 .. m + n /\ ~(m + i <= m) /\ m + i - m = i
    BY <1>bounds
  <2> QED
    BY <1>bounds, <1>Octet, <2>bounds
<1> QED
  BY <1>Octet, <1>front, <1>back DEF m, n

\* A part of a sequence, octet for octet.
LEMMA Sliced ==
  ASSUME NEW s \in Seq(Octet), NEW t \in Seq(Octet), NEW n, n = Len(t),
         NEW m \in Nat, NEW l \in Int, l = m + n, l <= Len(s),
         \A i \in 1 .. n : s[m + i] = t[i]
  PROVE  SubSeq(s, m + 1, l) = t
<1>bounds. n \in Nat /\ Len(s) \in Nat
  BY LenProperties
<1>Octet. \A i \in m + 1 .. l : s[i] \in Octet
  <2> TAKE i \in m + 1 .. l
  <2>1. i \in 1 .. Len(s)
    BY <1>bounds
  <2> QED
    BY <2>1, ElementOfSeq
<1>rest. m + 1 \in Int /\ l - (m + 1) + 1 = n /\ (m + 1 <= l <=> n # 0)
  BY <1>bounds
<1>part. /\ SubSeq(s, m + 1, l) \in Seq(Octet)
         /\ Len(SubSeq(s, m + 1, l)) = IF m + 1 <= l THEN l - (m + 1) + 1 ELSE 0
         /\ \A i \in 1 .. l - (m + 1) + 1 : SubSeq(s, m + 1, l)[i] = s[m + 1 + i - 1]
  BY <1>Octet, <1>rest, SubSeqProperties
<1>length. Len(SubSeq(s, m + 1, l)) = n
  BY <1>rest, <1>part
<1>values. \A i \in 1 .. n : SubSeq(s, m + 1, l)[i] = t[i]
  <2> TAKE i \in 1 .. n
  <2>1. i \in 1 .. l - (m + 1) + 1 /\ m + 1 + i - 1 = m + i
    BY <1>bounds, <1>rest
  <2> QED
    BY <1>part, <2>1
<1> QED
  BY <1>part, <1>length, <1>values, SeqEqual

\* What a client makes of octets that begin with an option.
LEMMA TakesFirst ==
  ASSUME NEW o \in Entry, Carried(o), NEW rest \in Seq(Octet),
         NEW s, s = PushOption(o.code, o.value) \o rest
  PROVE  /\ s \in Seq(Octet)
         /\ Whole(s)
         /\ [code |-> s[1], value |-> SubSeq(s, 3, s[2] + 2)] = o
         /\ SubSeq(s, s[2] + 3, Len(s)) = rest
<1> DEFINE n == Len(o.value)
           r == Len(rest)
           head == <<o.code, n>>
           front == head \o o.value
<1>code.
    /\ o.code \in Nat /\ o.code # End /\ o.value \in Seq(Octet) /\ n \in Nat /\ r \in Nat
    /\ o = [code |-> o.code, value |-> o.value]
  BY DEF Entry
<1>head. head \in Seq(Octet) /\ Len(head) = 2 /\ head[1] = o.code /\ head[2] = n
  BY <1>code DEF Octet
<1>front. s = front \o rest
  BY Pushed
<1> HIDE DEF head, n, r
<1>frontOctet. /\ front \in Seq(Octet) /\ Len(front) = 2 + n
               /\ \A i \in 1 .. 2 : front[i] = head[i]
               /\ \A i \in 1 .. n : front[2 + i] = o.value[i]
  <2>1. /\ front \in Seq(Octet) /\ Len(front) = Len(head) + Len(o.value)
        /\ \A i \in 1 .. Len(head) : front[i] = head[i]
        /\ \A i \in 1 .. Len(o.value) : front[Len(head) + i] = o.value[i]
    BY <1>code, <1>head, Joined
  <2> HIDE DEF front
  <2> QED
    BY <1>head, <2>1 DEF n
<1> HIDE DEF front
<1>Octet. /\ s \in Seq(Octet) /\ Len(s) = 2 + n + r
          /\ \A i \in 1 .. 2 + n : s[i] = front[i]
          /\ \A i \in 1 .. r : s[2 + n + i] = rest[i]
  <2>1. /\ s \in Seq(Octet) /\ Len(s) = Len(front) + Len(rest)
        /\ \A i \in 1 .. Len(front) : s[i] = front[i]
        /\ \A i \in 1 .. Len(rest) : s[Len(front) + i] = rest[i]
    <3>1. /\ front \o rest \in Seq(Octet) /\ Len(front \o rest) = Len(front) + Len(rest)
          /\ \A i \in 1 .. Len(front) : (front \o rest)[i] = front[i]
          /\ \A i \in 1 .. Len(rest) : (front \o rest)[Len(front) + i] = rest[i]
      BY <1>frontOctet, Joined
    <3> QED
      BY <1>front, <3>1
  <2> QED
    BY <1>frontOctet, <2>1 DEF r
<1>header. s[1] = o.code /\ s[2] = n
  <2>bounds. 1 \in 1 .. 2 + n /\ 2 \in 1 .. 2 + n /\ 1 \in 1 .. 2 /\ 2 \in 1 .. 2
    BY <1>code
  <2> QED
    BY <1>head, <1>frontOctet, <1>Octet, <2>bounds
<1>Whole. Whole(s)
  <2>bounds. 2 + n + r >= 2 /\ 2 + n + r >= n + 2
    BY <1>code
  <2> QED
    BY <1>code, <1>Octet, <1>header, <2>bounds DEF Whole
<1>value. SubSeq(s, 3, n + 2) = o.value
  <2>values. \A i \in 1 .. n : s[2 + i] = o.value[i]
    <3> TAKE i \in 1 .. n
    <3>bounds. 2 + i \in 1 .. 2 + n
      BY <1>code
    <3> QED
      BY <1>frontOctet, <1>Octet, <3>bounds
  <2>bounds. n + 2 = 2 + n /\ n + 2 \in Int /\ n + 2 <= 2 + n + r /\ 2 \in Nat
    BY <1>code
  <2> DEFINE m == 2
  <2>sizes. m \in Nat /\ n + 2 = m + n /\ m + 1 = 3
    BY <1>code
  <2>4. \A i \in 1 .. n : s[m + i] = o.value[i]
    BY <2>values
  <2> HIDE DEF m
  <2>length. n = Len(o.value) /\ n + 2 <= Len(s)
    BY <1>code, <1>Octet, <2>bounds DEF n
  <2> DEFINE v == o.value
             l == n + 2
  <2>Octet. /\ v \in Seq(Octet) /\ n = Len(v) /\ \A i \in 1 .. n : s[m + i] = v[i]
            /\ l \in Int /\ l = m + n /\ l <= Len(s)
    BY <1>code, <2>bounds, <2>sizes, <2>4, <2>length
  <2> HIDE DEF v, l
  <2>value. SubSeq(s, m + 1, l) = v
    BY <1>Octet, <2>sizes, <2>Octet, Sliced
  <2> QED
    BY <2>sizes, <2>value DEF v, l
<1>rest. SubSeq(s, n + 3, Len(s)) = rest
  <2>bounds. /\ 2 + n \in Nat /\ 2 + n + r \in Int /\ 2 + n + r <= 2 + n + r
             /\ n + 3 = 2 + n + 1
    BY <1>code
  <2>rest. SubSeq(s, 2 + n + 1, 2 + n + r) = rest
    BY <1>Octet, <2>bounds, Sliced DEF r
  <2> QED
    BY <1>Octet, <2>bounds, <2>rest
<1> QED
  BY <1>code, <1>Octet, <1>header, <1>Whole, <1>value, <1>rest

\* The end is no option.
LEMMA EndIsNoOption == ~Whole(<<End>>)
BY DEF Whole

\* Each option taken is the next of the datagram that is carried.
LEMMA TakesNext ==
  ASSUME NEW opts, NEW datagram, Reading(opts, datagram), TakeOption
  PROVE  Reading(opts, datagram)'
<1>Encodes. PICK rest : /\ Encodes(opts, rest) /\ rest[1] = datagram
                        /\ \E k \in 1 .. Len(rest) : TakenUpTo(opts, rest, k)
  BY DEF Reading
<1>EncodesOpts. PICK k \in 1 .. Len(rest) :
                   Encodes(opts, rest) /\ rest[1] = datagram /\ TakenUpTo(opts, rest, k)
  BY <1>Encodes
<1>opts. /\ Len(opts) \in Nat /\ Len(rest) = Len(opts) + 1
         /\ \A j \in 1 .. Len(opts) : opts[j] \in Entry
         /\ \A j \in 1 .. Len(rest) : rest[j] \in Seq(Octet)
  BY <1>EncodesOpts DEF Encodes
<1>rest. k < Len(rest)
  <2>1. k = Len(rest) => left = <<End>>
    BY <1>EncodesOpts DEF TakenUpTo, Encodes
  <2>2. k # Len(rest)
    BY <2>1, EndIsNoOption DEF TakeOption
  <2> QED
    BY <1>opts, <2>2
<1>optsRest. k \in 1 .. Len(opts) /\ k + 1 \in 1 .. Len(rest) /\ Carried(opts[k])
  BY <1>EncodesOpts, <1>opts, <1>rest DEF TakenUpTo
<1>left. left = PushOption(opts[k].code, opts[k].value) \o rest[k + 1]
  BY <1>EncodesOpts, <1>optsRest DEF TakenUpTo, Encodes
<1>newLeft. left' = rest[k + 1] /\ got' = got \cup {opts[k]}
  BY <1>opts, <1>optsRest, <1>left, TakesFirst DEF TakeOption
<1> DEFINE Before(m) == {j \in 1 .. m - 1 : Carried(opts[j])}
<1>newGot. got' = {opts[j] : j \in Before(k + 1)}
  <2>Before. Before(k + 1) = Before(k) \cup {k}
    BY <1>optsRest
  <2>got. got = {opts[j] : j \in Before(k)}
    BY <1>EncodesOpts DEF TakenUpTo
  <2> HIDE DEF Before
  <2> QED
    BY <1>newLeft, <2>Before, <2>got
<1>isRest. CASE k + 1 < Len(rest) => Carried(opts[k + 1])
  <2>TakenUpTo. TakenUpTo(opts, rest, k + 1)'
    BY <1>newLeft, <1>newGot, <1>isRest DEF TakenUpTo
  <2> QED
    BY <1>EncodesOpts, <1>optsRest, <2>TakenUpTo DEF Reading
<1>isNotCarried. CASE k + 1 < Len(rest) /\ ~Carried(opts[k + 1])
  <2>opts. k + 1 \in 1 .. Len(opts) /\ k + 2 \in 1 .. Len(rest) /\ k + 1 + 1 = k + 2
    BY <1>opts, <1>optsRest, <1>isNotCarried
  <2>Carried.
      Carried(opts[k + 2]) /\ rest[k + 1] = PushOption(opts[k + 1].code, opts[k + 1].value) \o rest[k + 2]
    BY <1>EncodesOpts, <1>isNotCarried, <2>opts DEF Encodes
  <2>rest. rest[k + 1] = rest[k + 2]
    <3>rest. rest[k + 1] = <<>> \o rest[k + 2]
      BY <1>opts, <1>isNotCarried, <2>opts, <2>Carried, Pushed
    <3> QED
      BY <1>opts, <2>opts, <3>rest, ConcatEmptySeq
  <2>Before. Before(k + 2) = Before(k + 1)
    BY <1>optsRest, <1>isNotCarried
  <2>TakenUpTo. TakenUpTo(opts, rest, k + 2)'
    <3> HIDE DEF Before
    <3>newGot. got' = {opts[j] : j \in Before(k + 2)}
      BY <1>newGot, <2>Before
    <3> QED
      BY <1>newLeft, <2>Carried, <2>rest, <3>newGot DEF TakenUpTo, Before
  <2> QED
    BY <1>EncodesOpts, <2>opts, <2>TakenUpTo DEF Reading
<1> QED
  BY <1>isRest, <1>isNotCarried

-----------------------------------------------------------------------------
(* The options of the two answers. *)

Opt(code, octet) == [code |-> code, value |-> <<octet>>]

LeaseList(type) ==
  << Opt(53, type), Opt(54, Server), Opt(1, CidrToMask(outcome.cidr)), Opt(3, request.gateway),
     [code |-> 6, value |-> dns],
     Opt(51, Secs), Opt(58, Secs \div 2), Opt(59, (Secs * 7) \div 8) >>

NakList == << Opt(53, Nak), Opt(54, Server), Opt(56, Text) >>

\* No two options have one code.
Distinct(opts) == \A i, j \in 1 .. Len(opts) : opts[i].code = opts[j].code => i = j

\* An option with a value of one octet is carried.
LEMMA OneOctet ==
  ASSUME NEW code \in Nat \ {End}, NEW octet \in Octet
  PROVE  Opt(code, octet) \in Entry /\ Carried(Opt(code, octet))
<1>1. <<octet>> \in Seq(Octet) /\ <<octet>> # <<>> /\ Len(<<octet>>) = 1
  OBVIOUS
<1>2. 1 <= MaxValue
  BY ReplyAssumption
<1> QED
  BY <1>1, <1>2 DEF Entry, Carried, Opt

\* The options of a lease are entries; only that of the DNS servers may be dropped.
LEMMA LeaseEntries ==
  ASSUME NEW type \in {Offer, Ack},
         outcome.cidr \in 0 .. W, request.gateway \in Addr, dns \in Seq(Nat)
  PROVE  /\ LeaseList(type) \in Seq(Entry) /\ Len(LeaseList(type)) = 8
         /\ \A k \in 1 .. 8 : k # 5 => Carried(LeaseList(type)[k])
         /\ Distinct(LeaseList(type))
<1> DEFINE o == LeaseList(type)
           codes == <<53, 54, 1, 3, 6, 51, 58, 59>>
<1>Secs. /\ Secs \in Octet /\ Secs \div 2 \in Octet /\ (Secs * 7) \div 8 \in Octet
         /\ type \in Octet /\ Server \in Octet /\ request.gateway \in Octet
  BY ReplyAssumption DEF Octet, Offer, Ack, Server
<1>CidrToMask. CidrToMask(outcome.cidr) \in Octet
  <2>1. CidrToMask(outcome.cidr) = [k \in 1 .. W |-> IF k <= outcome.cidr THEN 1 ELSE 0]
    BY MaskBits
  <2> QED
    BY <2>1 DEF Octet, Addr
<1>code. [code |-> 6, value |-> dns] \in Entry
  <2>1. dns \in Seq(Octet)
    BY SeqMonotonic DEF Octet
  <2> QED
    BY <2>1 DEF Entry, End
<1>Entry. /\ o[1] \in Entry /\ Carried(o[1]) /\ o[2] \in Entry /\ Carried(o[2])
          /\ o[3] \in Entry /\ Carried(o[3]) /\ o[4] \in Entry /\ Carried(o[4])
          /\ o[5] \in Entry
          /\ o[6] \in Entry /\ Carried(o[6]) /\ o[7] \in Entry /\ Carried(o[7])
          /\ o[8] \in Entry /\ Carried(o[8])
  <2>End. /\ 53 \in Nat \ {End} /\ 54 \in Nat \ {End} /\ 1 \in Nat \ {End}
          /\ 3 \in Nat \ {End} /\ 51 \in Nat \ {End} /\ 58 \in Nat \ {End}
          /\ 59 \in Nat \ {End}
    BY DEF End
  <2>Opt. /\ o[1] = Opt(53, type) /\ o[2] = Opt(54, Server)
          /\ o[3] = Opt(1, CidrToMask(outcome.cidr)) /\ o[4] = Opt(3, request.gateway)
          /\ o[5] = [code |-> 6, value |-> dns]
          /\ o[6] = Opt(51, Secs) /\ o[7] = Opt(58, Secs \div 2)
          /\ o[8] = Opt(59, (Secs * 7) \div 8)
    BY DEF LeaseList
  <2> HIDE DEF o
  <2>Entry. o[1] \in Entry /\ Carried(o[1]) /\ o[2] \in Entry /\ Carried(o[2])
    BY <1>Secs, <2>End, <2>Opt, OneOctet
  <2>EntryCarried. o[3] \in Entry /\ Carried(o[3]) /\ o[4] \in Entry /\ Carried(o[4])
    BY <1>Secs, <1>CidrToMask, <2>End, <2>Opt, OneOctet
  <2>fifth. o[5] \in Entry
    BY <1>code, <2>Opt
  <2>Carried. o[6] \in Entry /\ Carried(o[6]) /\ o[7] \in Entry /\ Carried(o[7])
    BY <1>Secs, <2>End, <2>Opt, OneOctet
  <2>eighth. o[8] \in Entry /\ Carried(o[8])
    BY <1>Secs, <2>End, <2>Opt, OneOctet
  <2> QED
    BY <2>Entry, <2>EntryCarried, <2>fifth, <2>Carried, <2>eighth
<1>bounds. Len(o) = 8 /\ DOMAIN o = 1 .. 8 /\ o = [k \in 1 .. 8 |-> o[k]]
  BY DEF LeaseList
<1>codeCodes. /\ o[1].code = codes[1] /\ o[2].code = codes[2] /\ o[3].code = codes[3]
              /\ o[4].code = codes[4] /\ o[5].code = codes[5] /\ o[6].code = codes[6]
              /\ o[7].code = codes[7] /\ o[8].code = codes[8]
  BY DEF LeaseList, Opt
<1> HIDE DEF o
<1>EntryCarried.
    \A k \in 1 .. 8 : o[k] \in Entry /\ (k # 5 => Carried(o[k])) /\ o[k].code = codes[k]
  <2> TAKE k \in 1 .. 8
  <2>positions. k = 1 \/ k = 2 \/ k = 3 \/ k = 4 \/ k = 5 \/ k = 6 \/ k = 7 \/ k = 8
    OBVIOUS
  <2> HIDE DEF codes
  <2> QED
    BY <1>Entry, <1>codeCodes, <2>positions
<1>optionsType. o \in Seq(Entry)
  BY <1>bounds, <1>EntryCarried
<1>codes. \A i, j \in 1 .. 8 : codes[i] = codes[j] => i = j
  <2> DEFINE place(c) == CASE c = 53 -> 1 [] c = 54 -> 2 [] c = 1 -> 3 [] c = 3 -> 4
                           [] c = 6 -> 5 [] c = 51 -> 6 [] c = 58 -> 7 [] c = 59 -> 8
  <2>0. /\ codes[1] = 53 /\ codes[2] = 54 /\ codes[3] = 1 /\ codes[4] = 3
        /\ codes[5] = 6 /\ codes[6] = 51 /\ codes[7] = 58 /\ codes[8] = 59
    OBVIOUS
  <2> HIDE DEF codes
  <2>1. \A i \in 1 .. 8 : place(codes[i]) = i
    <3> TAKE i \in 1 .. 8
    <3>1. i = 1 \/ i = 2 \/ i = 3 \/ i = 4 \/ i = 5 \/ i = 6 \/ i = 7 \/ i = 8
      OBVIOUS
    <3> QED
      BY <2>0, <3>1
  <2> HIDE DEF place
  <2> QED
    BY <2>1
<1> HIDE DEF codes
<1>Distinct. Distinct(o)
  BY <1>bounds, <1>EntryCarried, <1>codes DEF Distinct
<1> QED
  BY <1>bounds, <1>EntryCarried, <1>optionsType, <1>Distinct DEF o

\* Those of a NAK are all carried.
LEMMA NakEntries ==
  /\ NakList \in Seq(Entry) /\ Len(NakList) = 3
  /\ \A k \in 1 .. 3 : Carried(NakList[k])
  /\ Distinct(NakList)
<1> DEFINE o == NakList
           codes == <<53, 54, 56>>
<1>Nak. Nak \in Octet /\ Server \in Octet /\ Text \in Octet
  BY DEF Octet, Nak, Server, Text
<1>End. 53 \in Nat \ {End} /\ 54 \in Nat \ {End} /\ 56 \in Nat \ {End}
  BY DEF End
<1>Entry. /\ o[1] \in Entry /\ Carried(o[1]) /\ o[2] \in Entry /\ Carried(o[2])
          /\ o[3] \in Entry /\ Carried(o[3])
  BY <1>Nak, <1>End, OneOctet DEF NakList
<1>bounds. Len(o) = 3 /\ DOMAIN o = 1 .. 3 /\ o = [k \in 1 .. 3 |-> o[k]]
  BY DEF NakList
<1>code. o[1].code = codes[1] /\ o[2].code = codes[2] /\ o[3].code = codes[3]
  BY DEF NakList, Opt
<1> HIDE DEF o
<1>EntryCarried. \A k \in 1 .. 3 : o[k] \in Entry /\ Carried(o[k]) /\ o[k].code = codes[k]
  <2> TAKE k \in 1 .. 3
  <2>positions. k = 1 \/ k = 2 \/ k = 3
    OBVIOUS
  <2> HIDE DEF codes
  <2> QED
    BY <1>Entry, <1>code, <2>positions
<1>optionsType. o \in Seq(Entry)
  BY <1>bounds, <1>EntryCarried
<1>codes. \A i, j \in 1 .. 3 : codes[i] = codes[j] => i = j
  OBVIOUS
<1>Distinct. Distinct(o)
  BY <1>bounds, <1>EntryCarried, <1>codes DEF Distinct
<1> QED
  BY <1>bounds, <1>EntryCarried, <1>optionsType, <1>Distinct DEF o

\* Octets one behind the other are octets, in whichever order they are put together.
LEMMA Together ==
  /\ \A a, b \in Seq(Octet) : a \o b \in Seq(Octet)
  /\ \A a, b, c \in Seq(Octet) : (a \o b) \o c = a \o (b \o c)
BY ConcatProperties, ConcatAssociative

\* An option is pushed as octets.
LEMMA PushedOctets ==
  ASSUME NEW o \in Entry
  PROVE  PushOption(o.code, o.value) \in Seq(Octet)
<1>1. o.code \in Octet /\ o.value \in Seq(Octet) /\ Len(o.value) \in Octet
  BY DEF Entry, Octet
<1>2. <<o.code, Len(o.value)>> \in Seq(Octet)
  BY <1>1
<1> HIDE DEF Octet
<1>3. <<o.code, Len(o.value)>> \o o.value \in Seq(Octet)
  BY <1>1, <1>2, Together
<1> QED
  BY <1>3, Pushed, EmptySeq

\* An answer with a lease encodes its options.
LEMMA LeaseEncoded ==
  ASSUME NEW type \in {Offer, Ack},
         outcome.cidr \in 0 .. W, request.gateway \in Addr, dns \in Seq(Nat)
  PROVE  \E rest : Encodes(LeaseList(type), rest) /\ rest[1] = LeaseOptions(type)
<1> DEFINE o == LeaseList(type)
           p(k) == PushOption(o[k].code, o[k].value)
<1>Entry. /\ o \in Seq(Entry) /\ Len(o) = 8 /\ \A k \in 1 .. 8 : o[k] \in Entry
          /\ \A k \in 1 .. 8 : k # 5 => Carried(o[k])
  BY LeaseEntries, ElementOfSeq
<1>LeaseOptions. LeaseOptions(type) =
                   p(1) \o p(2) \o p(3) \o p(4) \o p(5) \o p(6) \o p(7) \o p(8) \o <<End>>
  BY DEF LeaseOptions, LeaseList, Opt
<1> HIDE DEF o
<1>Octet. \A k \in 1 .. 8 : p(k) \in Seq(Octet)
  BY <1>Entry, PushedOctets
<1>parts.
    /\ p(1) \in Seq(Octet) /\ p(2) \in Seq(Octet) /\ p(3) \in Seq(Octet) /\ p(4) \in Seq(Octet)
    /\ p(5) \in Seq(Octet) /\ p(6) \in Seq(Octet) /\ p(7) \in Seq(Octet) /\ p(8) \in Seq(Octet)
  BY <1>Octet
<1> DEFINE r9 == <<End>>
           r8 == p(8) \o r9
           r7 == p(7) \o r8
           r6 == p(6) \o r7
           r5 == p(5) \o r6
           r4 == p(4) \o r5
           r3 == p(3) \o r4
           r2 == p(2) \o r3
           r1 == p(1) \o r2
           rest == <<r1, r2, r3, r4, r5, r6, r7, r8, r9>>
<1> HIDE DEF p, r1, r2, r3, r4, r5, r6, r7, r8, r9
<1>r9. r9 \in Seq(Octet)
  BY DEF r9, Octet, End
<1>r8. /\ r8 \in Seq(Octet) /\ r7 \in Seq(Octet) /\ r6 \in Seq(Octet) /\ r5 \in Seq(Octet)
       /\ r4 \in Seq(Octet) /\ r3 \in Seq(Octet) /\ r2 \in Seq(Octet) /\ r1 \in Seq(Octet)
  BY <1>parts, <1>r9, Together DEF r1, r2, r3, r4, r5, r6, r7, r8
<1>LeaseOptionsType. LeaseOptions(type) = r1
  <2> DEFINE a2 == p(1) \o p(2)
             a3 == a2 \o p(3)
             a4 == a3 \o p(4)
             a5 == a4 \o p(5)
             a6 == a5 \o p(6)
             a7 == a6 \o p(7)
             a8 == a7 \o p(8)
  <2>LeaseOptions. LeaseOptions(type) = a8 \o r9
    BY <1>LeaseOptions DEF r9
  <2> HIDE DEF a2, a3, a4, a5, a6, a7, a8
  <2>a2. a2 \in Seq(Octet) /\ a2 \o r3 = r1
    <3>1. a2 \in Seq(Octet)
      BY <1>parts, <1>r9, <1>r8, Together DEF a2
    <3>2. a2 \o r3 = p(1) \o (p(2) \o r3)
      <4>1. p(1) \in Seq(Octet) /\ p(2) \in Seq(Octet) /\ r3 \in Seq(Octet)
        BY <1>parts, <1>r9, <1>r8
      <4> QED
        BY <4>1, ConcatAssociative, SMTT(30) DEF a2
    <3> QED
      BY <3>1, <3>2 DEF r1, r2
  <2>a3. a3 \in Seq(Octet) /\ a3 \o r4 = r1
    <3>a3. a3 \in Seq(Octet)
      BY <1>parts, <1>r9, <1>r8, <2>a2, Together DEF a3
    <3>a3R4. a3 \o r4 = a2 \o (p(3) \o r4)
      <4>1. a2 \in Seq(Octet) /\ p(3) \in Seq(Octet) /\ r4 \in Seq(Octet)
        BY <1>parts, <1>r9, <1>r8, <2>a2
      <4> QED
        BY <4>1, ConcatAssociative, SMTT(30) DEF a3
    <3> QED
      BY <3>a3, <2>a2, <3>a3R4 DEF r3
  <2>a4. a4 \in Seq(Octet) /\ a4 \o r5 = r1
    <3>a4. a4 \in Seq(Octet)
      BY <1>parts, <1>r9, <1>r8, <2>a3, Together DEF a4
    <3>a4R5. a4 \o r5 = a3 \o (p(4) \o r5)
      <4>1. a3 \in Seq(Octet) /\ p(4) \in Seq(Octet) /\ r5 \in Seq(Octet)
        BY <1>parts, <1>r9, <1>r8, <2>a3
      <4> QED
        BY <4>1, ConcatAssociative, SMTT(30) DEF a4
    <3> QED
      BY <3>a4, <2>a3, <3>a4R5 DEF r4
  <2>a5. a5 \in Seq(Octet) /\ a5 \o r6 = r1
    <3>a5. a5 \in Seq(Octet)
      BY <1>parts, <1>r9, <1>r8, <2>a4, Together DEF a5
    <3>a5R6. a5 \o r6 = a4 \o (p(5) \o r6)
      <4>1. a4 \in Seq(Octet) /\ p(5) \in Seq(Octet) /\ r6 \in Seq(Octet)
        BY <1>parts, <1>r9, <1>r8, <2>a4
      <4> QED
        BY <4>1, ConcatAssociative, SMTT(30) DEF a5
    <3> QED
      BY <3>a5, <2>a4, <3>a5R6 DEF r5
  <2>a6. a6 \in Seq(Octet) /\ a6 \o r7 = r1
    <3>a6. a6 \in Seq(Octet)
      BY <1>parts, <1>r9, <1>r8, <2>a5, Together DEF a6
    <3>a6R7. a6 \o r7 = a5 \o (p(6) \o r7)
      <4>1. a5 \in Seq(Octet) /\ p(6) \in Seq(Octet) /\ r7 \in Seq(Octet)
        BY <1>parts, <1>r9, <1>r8, <2>a5
      <4> QED
        BY <4>1, ConcatAssociative, SMTT(30) DEF a6
    <3> QED
      BY <3>a6, <2>a5, <3>a6R7 DEF r6
  <2>a7. a7 \in Seq(Octet) /\ a7 \o r8 = r1
    <3>a7. a7 \in Seq(Octet)
      BY <1>parts, <1>r9, <1>r8, <2>a6, Together DEF a7
    <3>a7R8. a7 \o r8 = a6 \o (p(7) \o r8)
      <4>1. a6 \in Seq(Octet) /\ p(7) \in Seq(Octet) /\ r8 \in Seq(Octet)
        BY <1>parts, <1>r9, <1>r8, <2>a6
      <4> QED
        BY <4>1, ConcatAssociative, SMTT(30) DEF a7
    <3> QED
      BY <3>a7, <2>a6, <3>a7R8 DEF r7
  <2>a8. a8 \in Seq(Octet) /\ a8 \o r9 = r1
    <3>a8. a8 \in Seq(Octet)
      BY <1>parts, <1>r9, <1>r8, <2>a7, Together DEF a8
    <3>a8R9. a8 \o r9 = a7 \o (p(8) \o r9)
      <4>1. a7 \in Seq(Octet) /\ p(8) \in Seq(Octet) /\ r9 \in Seq(Octet)
        BY <1>parts, <1>r9, <1>r8, <2>a7
      <4> QED
        BY <4>1, ConcatAssociative, SMTT(30) DEF a8
    <3> QED
      BY <3>a8, <2>a7, <3>a8R9 DEF r8
  <2> QED
    BY <2>LeaseOptions, <2>a8
<1>rest. /\ rest \in Seq(Seq(Octet)) /\ Len(rest) = 9
         /\ rest[1] = r1 /\ rest[2] = r2 /\ rest[3] = r3 /\ rest[4] = r4 /\ rest[5] = r5
         /\ rest[6] = r6 /\ rest[7] = r7 /\ rest[8] = r8 /\ rest[9] = r9
  BY <1>r9, <1>r8
<1> HIDE DEF rest
<1>bounds. \A k \in 1 .. 8 : rest[k] = p(k) \o rest[k + 1]
  <2> TAKE k \in 1 .. 8
  <2>1.
      /\ rest[1] = p(1) \o rest[2] /\ rest[2] = p(2) \o rest[3] /\ rest[3] = p(3) \o rest[4]
      /\ rest[4] = p(4) \o rest[5] /\ rest[5] = p(5) \o rest[6] /\ rest[6] = p(6) \o rest[7]
      /\ rest[7] = p(7) \o rest[8] /\ rest[8] = p(8) \o rest[9]
    BY <1>rest DEF r1, r2, r3, r4, r5, r6, r7, r8
  <2>2. \/ k = 1 /\ k + 1 = 2
        \/ k = 2 /\ k + 1 = 3
        \/ k = 3 /\ k + 1 = 4
        \/ k = 4 /\ k + 1 = 5
        \/ k = 5 /\ k + 1 = 6
        \/ k = 6 /\ k + 1 = 7
        \/ k = 7 /\ k + 1 = 8
        \/ k = 8 /\ k + 1 = 9
    OBVIOUS
  <2> QED
    BY <2>1, <2>2
<1>notCarried. \A k \in 1 .. 8 : ~Carried(o[k]) => k < 8 /\ Carried(o[k + 1])
  <2>1. \A k \in 1 .. 8 : k = 5 => k < 8 /\ k + 1 \in 1 .. 8 /\ k + 1 # 5
    OBVIOUS
  <2> QED
    BY <1>Entry, <2>1
<1>Encodes. Encodes(o, rest)
  <2>count. Len(o) + 1 = 9
    BY <1>Entry
  <2>rest. rest[Len(rest)] = <<End>>
    BY <1>rest DEF r9
  <2> QED
    BY <1>Entry, <1>rest, <1>bounds, <1>notCarried, <2>count, <2>rest DEF Encodes, p
<1> QED
  BY <1>LeaseOptionsType, <1>rest, <1>Encodes DEF o

\* A NAK encodes its options.
LEMMA NakEncoded == \E rest : Encodes(NakList, rest) /\ rest[1] = NakOptions
<1> DEFINE o == NakList
           p(k) == PushOption(o[k].code, o[k].value)
<1>Entry. /\ o \in Seq(Entry) /\ Len(o) = 3 /\ \A k \in 1 .. 3 : o[k] \in Entry
          /\ \A k \in 1 .. 3 : Carried(o[k])
  BY NakEntries, ElementOfSeq
<1>NakOptions. NakOptions = p(1) \o p(2) \o p(3) \o <<End>>
  BY DEF NakOptions, NakList, Opt
<1> HIDE DEF o
<1>Octet. \A k \in 1 .. 3 : p(k) \in Seq(Octet)
  BY <1>Entry, PushedOctets
<1>parts. p(1) \in Seq(Octet) /\ p(2) \in Seq(Octet) /\ p(3) \in Seq(Octet)
  BY <1>Octet
<1> DEFINE r4 == <<End>>
           r3 == p(3) \o r4
           r2 == p(2) \o r3
           r1 == p(1) \o r2
           rest == <<r1, r2, r3, r4>>
<1> HIDE DEF p, r1, r2, r3, r4
<1>r4. r4 \in Seq(Octet)
  BY DEF r4, Octet, End
<1>r3. r3 \in Seq(Octet) /\ r2 \in Seq(Octet) /\ r1 \in Seq(Octet)
  BY <1>parts, <1>r4, Together DEF r1, r2, r3
<1>NakOptionsR1. NakOptions = r1
  <2> DEFINE a2 == p(1) \o p(2)
             a3 == a2 \o p(3)
  <2>NakOptions. NakOptions = a3 \o r4
    BY <1>NakOptions DEF r4
  <2> HIDE DEF a2, a3
  <2>a2. a2 \in Seq(Octet) /\ a2 \o r3 = r1
    <3>1. a2 \in Seq(Octet)
      BY <1>parts, <1>r4, <1>r3, Together DEF a2
    <3>2. a2 \o r3 = p(1) \o (p(2) \o r3)
      <4>1. p(1) \in Seq(Octet) /\ p(2) \in Seq(Octet) /\ r3 \in Seq(Octet)
        BY <1>parts, <1>r4, <1>r3
      <4> QED
        BY <4>1, ConcatAssociative, SMTT(30) DEF a2
    <3> QED
      BY <3>1, <3>2 DEF r1, r2
  <2>a3. a3 \in Seq(Octet) /\ a3 \o r4 = r1
    <3>a3. a3 \in Seq(Octet)
      BY <1>parts, <1>r4, <1>r3, <2>a2, Together DEF a3
    <3>a3R4. a3 \o r4 = a2 \o (p(3) \o r4)
      <4>1. a2 \in Seq(Octet) /\ p(3) \in Seq(Octet) /\ r4 \in Seq(Octet)
        BY <1>parts, <1>r4, <1>r3, <2>a2
      <4> QED
        BY <4>1, ConcatAssociative, SMTT(30) DEF a3
    <3> QED
      BY <3>a3, <2>a2, <3>a3R4 DEF r3
  <2> QED
    BY <2>NakOptions, <2>a3
<1>rest. /\ rest \in Seq(Seq(Octet)) /\ Len(rest) = 4
         /\ rest[1] = r1 /\ rest[2] = r2 /\ rest[3] = r3 /\ rest[4] = r4
  BY <1>r4, <1>r3
<1> HIDE DEF rest
<1>bounds. \A k \in 1 .. 3 : rest[k] = p(k) \o rest[k + 1]
  <2> TAKE k \in 1 .. 3
  <2>1. rest[1] = p(1) \o rest[2] /\ rest[2] = p(2) \o rest[3] /\ rest[3] = p(3) \o rest[4]
    BY <1>rest DEF r1, r2, r3
  <2>2. (k = 1 /\ k + 1 = 2) \/ (k = 2 /\ k + 1 = 3) \/ (k = 3 /\ k + 1 = 4)
    OBVIOUS
  <2> QED
    BY <2>1, <2>2
<1>Encodes. Encodes(o, rest)
  <2>count. Len(o) + 1 = 4
    BY <1>Entry
  <2>rest. rest[Len(rest)] = <<End>>
    BY <1>rest DEF r4
  <2> QED
    BY <1>Entry, <1>rest, <1>bounds, <2>count, <2>rest DEF Encodes, p
<1> QED
  BY <1>NakOptionsR1, <1>rest, <1>Encodes DEF o

-----------------------------------------------------------------------------
(* The steps of a run. *)

\* An answer that is sent is read from its first option on.
LEMMA Begun ==
  ASSUME NEW opts, NEW datagram, NEW rest, Encodes(opts, rest), rest[1] = datagram,
         Carried(opts[1]), left' = datagram, got' = {}
  PROVE  Reading(opts, datagram)'
<1>1. 1 \in 1 .. Len(rest)
  BY DEF Encodes
<1>2. {opts[j] : j \in {j \in 1 .. 1 - 1 : Carried(opts[j])}} = {}
  OBVIOUS
<1>3. TakenUpTo(opts, rest, 1)'
  BY <1>2 DEF TakenUpTo
<1> QED
  BY <1>1, <1>3 DEF Reading

\* A prefix that is accepted, of the assignment there is.
LEMMA Accepts ==
  ASSUME NetworkInv, outcome.status = "ok"
  PROVE  /\ request.ip \in Addr /\ request.gateway \in Addr /\ request.cidr \in 0 .. W
         /\ outcome.cidr \in 0 .. W
         /\ SameNetwork(request.ip, request.gateway, outcome.cidr)
         /\ outcome.cidr # request.cidr =>
              /\ outcome.cidr = request.cidr - 1
              /\ ~SameNetwork(request.ip, request.gateway, request.cidr)
<1>request. /\ request.ip \in Addr /\ request.gateway \in Addr /\ request.cidr \in Cidr
            /\ outcome = EffectiveCidr(request.ip, request.gateway, request.cidr)
  BY DEF NetworkInv, None
<1>outcome.
    PICK e \in 0 .. W :
       /\ outcome = Accepted(e)
       /\ SameNetwork(request.ip, request.gateway, e)
       /\ e # request.cidr => e = request.cidr - 1
                                /\ ~SameNetwork(request.ip, request.gateway, request.cidr)
  BY <1>request, AcceptedIsShared
<1>outcomeCidr. outcome.cidr = e
  BY <1>outcome DEF Accepted
<1>requestCidr. request.cidr \in 0 .. W
  <2>1. request.cidr > W => outcome = Refused
    BY <1>request, WidthAssumption DEF EffectiveCidr, Cidr
  <2>2. Refused.status # "ok"
    BY DEF Refused
  <2>3. ~(request.cidr > W)
    BY <2>1, <2>2
  <2> QED
    BY <1>request, <2>3, WidthAssumption DEF Cidr
<1> QED
  BY <1>request, <1>outcome, <1>outcomeCidr, <1>requestCidr

\* An answer is sent for an assignment that was accepted, to where its client is, and the
\* client is somewhere in its options.
ReplyInv ==
  /\ NetworkInv
  /\ client \in [state : {"selecting", "rebooting", "renewing", "rebinding"}, remote : BOOLEAN]
  /\ dns \in Seq(Nat)
  /\ reply.kind \in {"none", "lease", "nak"}
  /\ reply.kind = "none" => left = <<>> /\ got = {}
  /\ reply.kind # "none" =>
       outcome.status = "ok" /\ reply.to = ResolveDhcpTarget(Packet(client))
  /\ reply.kind = "lease" =>
       \E type \in {Offer, Ack} : Reading(LeaseList(type), LeaseOptions(type))
  /\ reply.kind = "nak" => Reading(NakList, NakOptions)

\* The options depend on the lease alone.
LEMMA SameLease ==
  ASSUME UNCHANGED <<netVars, dns>>
  PROVE  \A type : LeaseList(type)' = LeaseList(type) /\ LeaseOptions(type)' = LeaseOptions(type)
BY DEF netVars, LeaseList, LeaseOptions

\* Sending keeps the invariant.
LEMMA SendKeeps ==
  ASSUME ReplyInv, SendLease \/ SendNak
  PROVE  ReplyInv'
<1>SendLease. CASE SendLease
  <2>Send. PICK type \in {Offer, Ack} : Send("lease", LeaseOptions(type))
    BY <1>SendLease DEF SendLease
  <2>outcome. /\ outcome.status = "ok" /\ UNCHANGED <<netVars, dns, client>>
              /\ reply' = [kind |-> "lease", to |-> ResolveDhcpTarget(Packet(client))]
              /\ left' = LeaseOptions(type) /\ got' = {}
    BY <2>Send DEF Send, NoReply, ReplyInv
  <2>outcomeCidr. outcome.cidr \in 0 .. W /\ request.gateway \in Addr /\ dns \in Seq(Nat)
    BY <2>outcome, Accepts DEF ReplyInv
  <2>Encodes. PICK rest : Encodes(LeaseList(type), rest) /\ rest[1] = LeaseOptions(type)
    BY <2>outcomeCidr, LeaseEncoded
  <2>Carried. Carried(LeaseList(type)[1])
    <3>1. 1 \in 1 .. 8 /\ 1 # 5
      OBVIOUS
    <3> QED
      BY <2>outcomeCidr, <3>1, LeaseEntries
  <2>LeaseList.
      PICK opts, datagram : opts = LeaseList(type) /\ datagram = LeaseOptions(type)
    OBVIOUS
  <2>Reading. Reading(opts, datagram)'
    BY <2>outcome, <2>Encodes, <2>Carried, <2>LeaseList, Begun
  <2>ReadingLeaseList. Reading(LeaseList(type), LeaseOptions(type))'
    BY <2>outcome, <2>LeaseList, <2>Reading, SameLease
  <2>NetworkInv. NetworkInv'
    BY <2>outcome DEF ReplyInv, NetworkInv, netVars
  <2> QED
    BY <2>outcome, <2>ReadingLeaseList, <2>NetworkInv DEF ReplyInv, netVars
<1>SendNak. CASE SendNak
  <2>outcome. /\ outcome.status = "ok" /\ UNCHANGED <<netVars, dns, client>>
              /\ reply' = [kind |-> "nak", to |-> ResolveDhcpTarget(Packet(client))]
              /\ left' = NakOptions /\ got' = {}
    BY <1>SendNak DEF SendNak, Send, NoReply, ReplyInv
  <2>Encodes. PICK rest : Encodes(NakList, rest) /\ rest[1] = NakOptions
    BY NakEncoded
  <2>Carried. Carried(NakList[1])
    BY NakEntries
  <2>Reading. Reading(NakList, NakOptions)'
    BY <2>outcome, <2>Encodes, <2>Carried, Begun
  <2>NetworkInv. NetworkInv'
    BY <2>outcome DEF ReplyInv, NetworkInv, netVars
  <2> QED
    BY <2>outcome, <2>Reading, <2>NetworkInv DEF ReplyInv, netVars
<1> QED
  BY <1>SendLease, <1>SendNak

\* Each step keeps it.
LEMMA ReplyStep ==
  ASSUME ReplyInv, [Next]_vars
  PROVE  ReplyInv'
<1>NetworkInv. NetworkInv'
  BY NetworkStep DEF ReplyInv
<1>isAssign. CASE (Assign \/ Retry) /\ UNCHANGED <<dns, client, reply, left, got>>
  <2>outcome. outcome.status # "ok"
    BY <1>isAssign DEF Assign, Retry, None
  <2>reply. reply.kind = "none" /\ left = <<>> /\ got = {}
    BY <2>outcome DEF ReplyInv
  <2> QED
    BY <1>NetworkInv, <1>isAssign, <2>reply DEF ReplyInv
<1>SendLeaseOrSendNak. CASE SendLease \/ SendNak
  BY <1>SendLeaseOrSendNak, SendKeeps
<1>TakeOption. CASE TakeOption
  <2>netVars. UNCHANGED <<netVars, dns, client, reply>> /\ Whole(left)
    BY <1>TakeOption DEF TakeOption
  <2>Reading.
      ASSUME reply.kind = "lease"
      PROVE  \E type \in {Offer, Ack} : Reading(LeaseList(type), LeaseOptions(type))'
    <3>Reading. PICK type \in {Offer, Ack} : Reading(LeaseList(type), LeaseOptions(type))
      BY <2>Reading DEF ReplyInv
    <3>LeaseList.
        PICK opts, datagram : opts = LeaseList(type) /\ datagram = LeaseOptions(type)
      OBVIOUS
    <3>ReadingOpts. Reading(opts, datagram)'
      BY <1>TakeOption, <3>Reading, <3>LeaseList, TakesNext
    <3>ReadingLeaseList. Reading(LeaseList(type), LeaseOptions(type))'
      BY <2>netVars, <3>LeaseList, <3>ReadingOpts, SameLease
    <3> QED
      BY <3>ReadingLeaseList
  <2>reply. reply.kind = "nak" => Reading(NakList, NakOptions)'
    BY <1>TakeOption, TakesNext DEF ReplyInv
  <2>replyKind. reply.kind # "none"
    BY <2>netVars DEF ReplyInv, Whole
  <2> QED
    BY <1>NetworkInv, <2>netVars, <2>Reading, <2>reply, <2>replyKind DEF ReplyInv, netVars
<1>Unchanged. CASE UNCHANGED vars
  <2>1. \A opts, datagram : Reading(opts, datagram)' <=> Reading(opts, datagram)
    BY <1>Unchanged DEF vars, Reading, TakenUpTo
  <2>2.
      \A type : LeaseList(type)' = LeaseList(type) /\ LeaseOptions(type)' = LeaseOptions(type)
    BY <1>Unchanged, SameLease DEF vars
  <2> QED
    BY <1>NetworkInv, <1>Unchanged, <2>1, <2>2 DEF vars, netVars, ReplyInv
<1> QED
  BY <1>isAssign, <1>SendLeaseOrSendNak, <1>TakeOption, <1>Unchanged DEF Next

\* The invariant of an answer.
THEOREM ReplyInvariant == Spec => []ReplyInv
<1>init. Init => ReplyInv
  <2> SUFFICES ASSUME Init PROVE ReplyInv
    OBVIOUS
  <2>1. NetworkInv
    BY DEF Init, NetworkInit, NetworkInv
  <2>2. dns \in Seq(Nat)
    BY ReplyAssumption DEF Init
  <2> QED
    BY <2>1, <2>2 DEF Init, ReplyInv, NoReply
<1>step. ReplyInv /\ [Next]_vars => ReplyInv'
  BY ReplyStep
<1> QED
  BY <1>init, <1>step, PTL DEF Spec

\* An answer reaches its client, on the link or behind a relay, whatever lease it is of.
THEOREM RepliesArrive == Spec => []ReplyArrives
<1>1. ReplyInv => ReplyArrives
  BY TargetArrives DEF ReplyInv, ReplyArrives
<1> QED
  BY <1>1, ReplyInvariant, PTL

-----------------------------------------------------------------------------
(* What has been read at the end. *)

\* A client that can take no more has read every option that is carried, once.
LEMMA AllRead ==
  ASSUME NEW opts, NEW datagram, Reading(opts, datagram), ~Whole(left), Distinct(opts)
  PROVE  /\ left = <<End>>
         /\ \A i \in 1 .. Len(opts) :
              Reads(opts[i].code) = IF Carried(opts[i]) THEN {opts[i].value} ELSE {}
<1>Encodes.
    PICK rest : Encodes(opts, rest) /\ \E k \in 1 .. Len(rest) : TakenUpTo(opts, rest, k)
  BY DEF Reading
<1>EncodesOpts. PICK k \in 1 .. Len(rest) : Encodes(opts, rest) /\ TakenUpTo(opts, rest, k)
  BY <1>Encodes
<1>opts. /\ Len(opts) \in Nat /\ Len(rest) = Len(opts) + 1
         /\ \A j \in 1 .. Len(opts) : opts[j] \in Entry
         /\ \A j \in 1 .. Len(rest) : rest[j] \in Seq(Octet)
  BY <1>EncodesOpts DEF Encodes
<1>rest. k = Len(rest)
  <2> SUFFICES ASSUME k < Len(rest) PROVE FALSE
    BY <1>opts
  <2>opts. k \in 1 .. Len(opts) /\ k + 1 \in 1 .. Len(rest)
    BY <1>opts
  <2>Carried.
      Carried(opts[k]) /\ left = PushOption(opts[k].code, opts[k].value) \o rest[k + 1]
    BY <1>EncodesOpts, <2>opts DEF TakenUpTo, Encodes
  <2> QED
    BY <1>opts, <2>opts, <2>Carried, TakesFirst
<1>left. left = <<End>>
  BY <1>EncodesOpts, <1>rest DEF TakenUpTo, Encodes
<1>got. got = {opts[j] : j \in {j \in 1 .. Len(opts) : Carried(opts[j])}}
  <2>1. k - 1 = Len(opts)
    BY <1>opts, <1>rest
  <2> QED
    BY <1>EncodesOpts, <2>1 DEF TakenUpTo
<1>gotCode.
    ASSUME NEW i \in 1 .. Len(opts)
    PROVE  {o \in got : o.code = opts[i].code} = IF Carried(opts[i]) THEN {opts[i]} ELSE {}
  BY <1>got DEF Distinct
<1>Reads. ASSUME NEW i \in 1 .. Len(opts)
          PROVE  Reads(opts[i].code) = IF Carried(opts[i]) THEN {opts[i].value} ELSE {}
  BY <1>gotCode DEF Reads
<1> QED
  BY <1>left, <1>Reads

\* What a client reads of the answer with a lease.
LEMMA LeaseRead ==
  ASSUME ReplyInv, Finished("lease")
  PROVE  \E type \in {Offer, Ack} :
           /\ left = <<End>>
           /\ Reads(53) = {<<type>>} /\ Reads(54) = {<<Server>>}
           /\ Reads(1) = {<<CidrToMask(outcome.cidr)>>} /\ Reads(3) = {<<request.gateway>>}
           /\ Reads(6) = IF Len(dns) \in 1 .. MaxValue THEN {dns} ELSE {}
           /\ Reads(51) = {<<Secs>>} /\ Reads(58) = {<<Secs \div 2>>}
           /\ Reads(59) = {<<(Secs * 7) \div 8>>}
<1>Reading. PICK type \in {Offer, Ack} : Reading(LeaseList(type), LeaseOptions(type))
  BY DEF ReplyInv, Finished
<1>outcome. outcome.cidr \in 0 .. W /\ request.gateway \in Addr /\ dns \in Seq(Nat)
  BY Accepts DEF ReplyInv, Finished
<1> DEFINE o == LeaseList(type)
<1>Distinct. Len(o) = 8 /\ Distinct(o) /\ \A k \in 1 .. 8 : k # 5 => Carried(o[k])
  BY <1>outcome, LeaseEntries
<1>left. /\ left = <<End>>
         /\ \A i \in 1 .. 8 : Reads(o[i].code) = IF Carried(o[i]) THEN {o[i].value} ELSE {}
  BY <1>Reading, <1>Distinct, AllRead DEF Finished
<1>code.
    /\ o[1].code = 53 /\ o[1].value = <<type>> /\ o[2].code = 54 /\ o[2].value = <<Server>>
    /\ o[3].code = 1 /\ o[3].value = <<CidrToMask(outcome.cidr)>>
    /\ o[4].code = 3 /\ o[4].value = <<request.gateway>>
    /\ o[5].code = 6 /\ o[5].value = dns
    /\ o[6].code = 51 /\ o[6].value = <<Secs>>
    /\ o[7].code = 58 /\ o[7].value = <<Secs \div 2>>
    /\ o[8].code = 59 /\ o[8].value = <<(Secs * 7) \div 8>>
  BY DEF LeaseList, Opt
<1> HIDE DEF o
<1>Reads. /\ Reads(53) = {<<type>>} /\ Reads(54) = {<<Server>>}
          /\ Reads(1) = {<<CidrToMask(outcome.cidr)>>} /\ Reads(3) = {<<request.gateway>>}
  <2>1. /\ Reads(o[1].code) = {o[1].value} /\ Reads(o[2].code) = {o[2].value}
        /\ Reads(o[3].code) = {o[3].value} /\ Reads(o[4].code) = {o[4].value}
    BY <1>Distinct, <1>left
  <2> QED
    BY <1>code, <2>1
<1>ReadsSecs. /\ Reads(51) = {<<Secs>>} /\ Reads(58) = {<<Secs \div 2>>}
              /\ Reads(59) = {<<(Secs * 7) \div 8>>}
  <2>1. /\ Reads(o[6].code) = {o[6].value} /\ Reads(o[7].code) = {o[7].value}
        /\ Reads(o[8].code) = {o[8].value}
    BY <1>Distinct, <1>left
  <2> QED
    BY <1>code, <2>1
<1>ReadsDns. Reads(6) = IF Len(dns) \in 1 .. MaxValue THEN {dns} ELSE {}
  <2>Carried. Carried(o[5]) <=> dns # <<>> /\ Len(dns) <= MaxValue
    BY <1>code DEF Carried
  <2>dns. dns # <<>> <=> Len(dns) # 0
    BY <1>outcome, EmptySeq
  <2>dnsMaxValue. Len(dns) \in Nat /\ MaxValue \in Nat
    BY <1>outcome, ReplyAssumption
  <2>CarriedDns. Carried(o[5]) <=> Len(dns) \in 1 .. MaxValue
    BY <2>Carried, <2>dns, <2>dnsMaxValue
  <2>Reads. Reads(o[5].code) = IF Carried(o[5]) THEN {o[5].value} ELSE {}
    BY <1>left
  <2> QED
    BY <1>code, <2>CarriedDns, <2>Reads
<1> QED
  BY <1>left, <1>Reads, <1>ReadsSecs, <1>ReadsDns

\* Whatever DNS servers the lease has, the client comes to the end of the options with
\* each one that the server pushed, its value and no other; the DNS servers are there, all
\* of them, unless they are too many; and a NAK is read as one.
THEOREM ClientsReadReplies == Spec => []ClientReadsReply
<1>Finished. ASSUME ReplyInv, Finished("lease")
             PROVE  /\ left = <<End>>
                    /\ Reads(53) \in {{<<Offer>>}, {<<Ack>>}}
                    /\ Reads(54) = {<<Server>>}
                    /\ Reads(3) = {<<request.gateway>>}
                    /\ \E mask \in Addr : Reads(1) = {<<mask>>}
                    /\ Reads(6) = IF Len(dns) \in 1 .. MaxValue THEN {dns} ELSE {}
                    /\ Reads(51) = {<<Secs>>}
                    /\ \E t1, t2 \in 0 .. Secs :
                         t1 <= t2 /\ Reads(58) = {<<t1>>} /\ Reads(59) = {<<t2>>}
  <2>1. CidrToMask(outcome.cidr) \in Addr
    <3>1. outcome.cidr \in 0 .. W
      BY <1>Finished, Accepts DEF ReplyInv, Finished
    <3> QED
      BY <3>1, MaskBits DEF Addr
  <2>2. /\ Secs \div 2 \in 0 .. Secs /\ (Secs * 7) \div 8 \in 0 .. Secs
        /\ Secs \div 2 <= (Secs * 7) \div 8
    BY ReplyAssumption
  <2> QED
    BY <1>Finished, <2>1, <2>2, LeaseRead
<1>2. ASSUME ReplyInv, Finished("nak")
      PROVE  left = <<End>> /\ Reads(53) = {<<Nak>>} /\ Reads(54) = {<<Server>>}
  <2>left. /\ left = <<End>>
           /\ \A i \in 1 .. 3 : Reads(NakList[i].code) = {NakList[i].value}
    BY <1>2, AllRead, NakEntries DEF ReplyInv, Finished
  <2>NakList. /\ NakList[1].code = 53 /\ NakList[1].value = <<Nak>>
              /\ NakList[2].code = 54 /\ NakList[2].value = <<Server>>
    BY DEF NakList, Opt
  <2>Reads.
      Reads(NakList[1].code) = {NakList[1].value} /\ Reads(NakList[2].code) = {NakList[2].value}
    BY <2>left
  <2> QED
    BY <2>left, <2>NakList, <2>Reads
<1>3. ReplyInv => ClientReadsReply
  BY <1>Finished, <1>2 DEF ClientReadsReply
<1> QED
  BY <1>3, ReplyInvariant, PTL

\* By the mask of the answer, the router of the answer is on the client's own link.
THEOREM RoutersOnLink == Spec => []RouterOnLink
<1>Finished. ASSUME ReplyInv, Finished("lease")
             PROVE  \A mask \in Reads(1), router \in Reads(3) :
                      OnLink(request.ip, router[1], mask[1])
  <2>1. /\ request.ip \in Addr /\ request.gateway \in Addr /\ outcome.cidr \in 0 .. W
        /\ SameNetwork(request.ip, request.gateway, outcome.cidr)
    BY <1>Finished, Accepts DEF ReplyInv, Finished
  <2>2. \A k \in 1 .. W : k <= outcome.cidr => request.ip[k] = request.gateway[k]
    BY <2>1, SharedBits
  <2>3. CidrToMask(outcome.cidr) = [k \in 1 .. W |-> IF k <= outcome.cidr THEN 1 ELSE 0]
    BY <2>1, MaskBits
  <2>4. OnLink(request.ip, request.gateway, CidrToMask(outcome.cidr))
    BY <2>2, <2>3 DEF OnLink
  <2>5. Reads(1) = {<<CidrToMask(outcome.cidr)>>} /\ Reads(3) = {<<request.gateway>>}
    BY <1>Finished, LeaseRead
  <2> QED
    BY <2>4, <2>5
<1>2. ReplyInv => RouterOnLink
  BY <1>Finished DEF RouterOnLink
<1> QED
  BY <1>2, ReplyInvariant, PTL

\* As many ones as the prefix is long.
LEMMA MaskLength ==
  ASSUME NEW c \in 0 .. W
  PROVE  Length(CidrToMask(c)) = c
<1>1. CidrToMask(c) = [k \in 1 .. W |-> IF k <= c THEN 1 ELSE 0]
  BY MaskBits
<1>2. W \in Nat
  BY WidthAssumption
<1>3. {k \in 1 .. W : CidrToMask(c)[k] = 1} = 1 .. c
  BY <1>1, <1>2
<1>4. Cardinality(1 .. c) = c
  BY <1>2, FS_Interval
<1> QED
  BY <1>3, <1>4 DEF Length

\* The mask that is answered has the requested length, or is one bit shorter and then only
\* since the requested one parts the client from its router, by the last bit.
THEOREM WidensOnlyOnce == Spec => []WidenedOnlyOnce
<1>Finished. ASSUME ReplyInv, Finished("lease")
             PROVE  \A mask \in Reads(1) :
                      \/ Length(mask[1]) = request.cidr
                      \/ /\ Length(mask[1]) = request.cidr - 1
                         /\ request.ip[request.cidr] # request.gateway[request.cidr]
  <2>request. /\ request.ip \in Addr /\ request.gateway \in Addr /\ request.cidr \in 0 .. W
              /\ outcome.cidr \in 0 .. W
              /\ SameNetwork(request.ip, request.gateway, outcome.cidr)
              /\ outcome.cidr # request.cidr =>
                   /\ outcome.cidr = request.cidr - 1
                   /\ ~SameNetwork(request.ip, request.gateway, request.cidr)
    BY <1>Finished, Accepts DEF ReplyInv, Finished
  <2>outcome. \A k \in 1 .. W : k <= outcome.cidr => request.ip[k] = request.gateway[k]
    BY <2>request, SharedBits
  <2>Length. Length(CidrToMask(outcome.cidr)) = outcome.cidr
    BY <2>request, MaskLength
  <2>requestIp. ASSUME outcome.cidr # request.cidr
                PROVE  request.ip[request.cidr] # request.gateway[request.cidr]
    <3>request. PICK k \in 1 .. W : k <= request.cidr /\ request.ip[k] # request.gateway[k]
      BY <2>request, <2>requestIp, SharedBits
    <3>requestCidr. ~(k <= request.cidr - 1)
      BY <2>request, <2>outcome, <2>requestIp, <3>request
    <3>cidr. k = request.cidr
      BY <2>request, <3>request, <3>requestCidr
    <3> QED
      BY <3>request, <3>cidr
  <2>Reads. Reads(1) = {<<CidrToMask(outcome.cidr)>>}
    BY <1>Finished, LeaseRead
  <2> QED
    BY <2>request, <2>Length, <2>requestIp, <2>Reads
<1>2. ReplyInv => WidenedOnlyOnce
  BY <1>Finished DEF WidenedOnlyOnce
<1> QED
  BY <1>2, ReplyInvariant, PTL
=============================================================================
