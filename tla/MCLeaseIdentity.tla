-------------------------- MODULE MCLeaseIdentity --------------------------
(* A small instance of LeaseIdentity. *)
EXTENDS LeaseIdentity, TLC

CONSTANTS m1, m2

OffConfig ==
  [enabled |-> TRUE, mode |-> "off", allowMacs |-> {}, allowVmids |-> {},
   denyMacs |-> {}, denyVmids |-> {}]

\* DHCP off, and DHCP on with each firewall mode; a MAC is listed.
Firewalls ==
  {OffConfig, [OffConfig EXCEPT !.enabled = FALSE],
   [OffConfig EXCEPT !.mode = "blocklist", !.denyMacs = {m1}],
   [OffConfig EXCEPT !.mode = "allowlist", !.allowMacs = {m1}]}

\* One card, in the second slot, or two.
SomeCards == {<<None, m1>>, <<m2, m1>>}

SlotOf(c) == [n \in Slots |-> c[n + 1]]

CardsMC == {SlotOf(c) : c \in SomeCards}

Sym == Permutations(Vmid) \cup Permutations(Worker)
=============================================================================
