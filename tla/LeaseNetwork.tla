---------------------------- MODULE LeaseNetwork ----------------------------
(***************************************************************************)
(* The network of a lease (src/src/dhcp.rs): which prefix length           *)
(* assign_static_lease accepts for an address and a gateway, widening it   *)
(* by at most one bit, and what a panel makes of the error message.  What  *)
(* the client is given of it is in DhcpReply.                              *)
(*                                                                         *)
(* An address is its W bits (32 in the code), the highest first.           *)
(***************************************************************************)
EXTENDS Integers, FiniteSets

CONSTANT W     \* the bits of an address

ASSUME WidthAssumption == W \in Nat \ {0}

VARIABLES
  request,   \* the ip, gateway and cidr of an assignment
  outcome    \* what effective_cidr_for_gateway_and_ip makes of it

netVars == <<request, outcome>>

Addr == [1 .. W -> {0, 1}]
Cidr == 0 .. W + 1    \* bound: W + 1 stands for every cidr over W

-----------------------------------------------------------------------------
(* The code's functions. *)

Zeros == [k \in 1 .. W |-> 0]
Ones == [k \in 1 .. W |-> 1]

\* a << n, for n < W.
ShiftLeft(a, n) == [k \in 1 .. W |-> IF k + n <= W THEN a[k + n] ELSE 0]

BitAnd(a, b) == [k \in 1 .. W |-> IF b[k] = 1 THEN a[k] ELSE 0]

SubnetMask(c) == IF c = 0 THEN Zeros ELSE ShiftLeft(Ones, W - c)

SameNetwork(ip, gateway, c) ==
  BitAnd(ip, SubnetMask(c)) = BitAnd(gateway, SubnetMask(c))

Accepted(c) == [status |-> "ok", cidr |-> c]
Mentioning(c) == [status |-> "hint", cidr |-> c]
Refused == [status |-> "error", cidr |-> 0]

\* Mutant: the loop takes its first prefix unseen.
FirstPrefix(ip, gateway, c, p) == p = c - 1

\* The prefix at which the loop for the hint breaks: it tries the longest first.
LongestShared(ip, gateway, c, p) ==
  SameNetwork(ip, gateway, p) /\ \A q \in p + 1 .. c - 1 : ~SameNetwork(ip, gateway, q)

\* Mutant: widened by two bits.
TwoLooser(c) == c - 2

OneLooser(c) == c - 1

EffectiveCidr(ip, gateway, c) ==
  CASE c > W -> Refused
    [] c = 0 -> Accepted(0)
    [] c \in 1 .. W /\ SameNetwork(ip, gateway, c) -> Accepted(c)
    [] c \in 2 .. W /\ ~SameNetwork(ip, gateway, c)
         /\ SameNetwork(ip, gateway, OneLooser(c)) -> Accepted(OneLooser(c))
    [] OTHER -> IF \E p \in 1 .. c - 1 : LongestShared(ip, gateway, c, p)
                THEN Mentioning(CHOOSE p \in 1 .. c - 1 : LongestShared(ip, gateway, c, p))
                ELSE Refused

\* Mutant: without its case for 0, a shift by the whole width wraps to a shift by none.
MaskOfShift(c) == ShiftLeft(Ones, (W - c) % W)

CidrToMask(c) == IF c = 0 THEN Zeros ELSE ShiftLeft(Ones, W - c)

-----------------------------------------------------------------------------

None == [status |-> "none", cidr |-> 0]

Assign ==
  /\ outcome = None
  /\ outcome' = EffectiveCidr(request.ip, request.gateway, request.cidr)
  /\ UNCHANGED request

\* The panel follows the hint of an error message: "try cidr: ...".
Retry ==
  /\ outcome.status = "hint"
  /\ request' = [request EXCEPT !.cidr = outcome.cidr, !.hinted = TRUE]
  /\ outcome' = None

NetworkInit ==
  /\ request \in [ip : Addr, gateway : Addr, cidr : Cidr, hinted : {FALSE}]
  /\ outcome = None

-----------------------------------------------------------------------------
(* Correctness. *)

\* The cidr an error message tells the panel to try is accepted exactly as it is.
HintIsAccepted ==
  request.hinted /\ outcome # None => outcome = Accepted(request.cidr)
=============================================================================
