---------------------------- MODULE LeaseIdentity ----------------------------
(***************************************************************************)
(* Whose lease a row is: DhcpLeases with the VMs of the cluster, whose     *)
(* network cards change while the panel assigns leases to them             *)
(* (resolve_qemu_identity and extract_qemu_mac in src/src/proxmox.rs), and *)
(* with what the panel has been told of their leases.                      *)
(*                                                                         *)
(* Every step is one of DhcpLeases or leaves its variables alone.  Where a *)
(* VM is and how it is found is the matter of Proxmox: a VM that is        *)
(* migrated, removed or replaced while it is asked for gives an error or   *)
(* the cards of its successor.                                             *)
(***************************************************************************)
EXTENDS DhcpLeases, Integers

CONSTANTS
  Slots,       \* bound: the keys net0, net1, ... of a config; ten in the code
  Cards        \* the network cards a VM may have: a MAC per slot, or None

ASSUME CardsAssumption ==
  /\ Slots \subseteq Nat
  /\ Cards \subseteq [Slots -> Mac \cup {None}]

VARIABLES
  cards,       \* the network cards of each VM
  served,      \* history: the VMs whose last assignment was answered with 200, and
               \* nobody has begun to undo it
  steady,      \* history: the VMs whose cards have not changed since the last
               \* assignment of theirs began
  told         \* history: the VMs an assignment of which was answered with 200, and
               \* whose lease was not removed since, nor given to another VM with its
               \* MAC, nor lost by a handler that ended between its two statements

identityVars == <<vars, cards, served, steady, told>>

-----------------------------------------------------------------------------
(* The MAC of a VM. *)

WithMac(c) == {n \in Slots : c[n] # None}

\* Mutant: the slots are tried in another order.
LastMac(c) == {c[n] : n \in {k \in WithMac(c) : \A l \in WithMac(c) : k >= l}}

\* The first slot with a value that holds a MAC; no MAC is no identity.
ExtractQemuMac(c) == {c[n] : n \in {k \in WithMac(c) : \A l \in WithMac(c) : k <= l}}

\* The administrator replaces network cards, or the VM.
ChangeCards(v, c) ==
  /\ cards' = [cards EXCEPT ![v] = c]
  /\ steady' = steady \ {v}
  /\ UNCHANGED <<vars, served, told>>

-----------------------------------------------------------------------------
(* The panel's assignments. *)

Begins(w, v, i) ==
  /\ AssignStart(w, v, i)
  /\ served' = served \ {v}
  /\ steady' = steady \cup {v}
  /\ UNCHANGED told

IdentifiesVm(w) ==
  /\ api[w].pc = "resolve"
  /\ \E m \in ExtractQemuMac(cards[api[w].vmid]) : Identify(w, m)
  /\ UNCHANGED <<served, steady, told>>

Deletes(w) == AssignDelete(w) /\ UNCHANGED <<served, steady, told>>

\* A VM that had the MAC before has lost its row.
TakenFrom(m) == {r.vmid : r \in Select(m)}

Answers(w) ==
  /\ AssignInsert(w)
  /\ served' = (served \ TakenFrom(api[w].mac)) \cup {api[w].vmid}
  /\ told' = (told \ TakenFrom(api[w].mac)) \cup {api[w].vmid}
  /\ UNCHANGED steady

\* The VMs whose row is deleted and not inserted yet.
Between(ws) == {api[w].vmid : w \in {u \in ws : api[u].pc = "insert"}}

GivesUp(w) ==
  /\ Abort(w)
  /\ told' = told \ Between({w})
  /\ UNCHANGED <<served, steady>>

ProcessEnds(c) ==
  /\ Restart(c)
  /\ told' = told \ Between(Worker)
  /\ UNCHANGED <<served, steady>>

Removes(v) ==
  /\ Remove(v)
  /\ served' = served \ {v}
  /\ told' = told \ {v}
  /\ UNCHANGED steady

-----------------------------------------------------------------------------

IdentityInit ==
  /\ Init
  /\ cards \in [Vmid -> Cards]
  /\ served = {}
  /\ steady = Vmid
  /\ told = {}

HandlerNext ==
  \/ \E w \in Worker, v \in Vmid, i \in Ip : Begins(w, v, i)
  \/ \E w \in Worker : IdentifiesVm(w) \/ Deletes(w) \/ Answers(w) \/ GivesUp(w)
  \/ \E v \in Vmid : Removes(v)

IdentityNext ==
  \/ /\ \/ HandlerNext
        \/ ListenerNext /\ UNCHANGED <<served, steady, told>>
        \/ \E c \in Configs : ProcessEnds(c)
     /\ UNCHANGED cards
  \/ \E v \in Vmid, c \in Cards : ChangeCards(v, c)

IdentitySpec == IdentityInit /\ [][IdentityNext]_identityVars

-----------------------------------------------------------------------------
(* Correctness. *)

\* The types of the lease table and of the variables of this module.
IdentityTypeOK ==
  /\ TypeOK
  /\ cards \in [Vmid -> Cards]
  /\ served \subseteq Vmid /\ steady \subseteq Vmid /\ told \subseteq Vmid

\* m is the VM's MAC as Proxmox orders its cards.
IsMacOf(m, v) ==
  \E n \in Slots : m = cards[v][n] /\ \A k \in Slots : k < n => cards[v][k] = None

\* A VM whose assignment was answered with 200 has a lease until the panel begins to
\* change that; if its network cards are as they were when the assignment began, it is
\* the lease of its first MAC, whatever else was assigned, sent or restarted.
ServedByItsMac ==
  \A v \in served \cap steady :
    \E r \in leases : r.vmid = v /\ IsMacOf(r.mac, v)

HasLease(v) == \E r \in leases : r.vmid = v

\* The lease the panel was told of stands, through any number of further assignments of
\* that VM that fail before their DELETE, of assignments of other VMs, RELEASEs and
\* restarts: the VM has a row, but for the moment in which a handler replaces it.
LeaseStands ==
  \A v \in told :
    HasLease(v) \/ \E w \in Worker : api[w].vmid = v /\ api[w].pc = "insert"

\* What the panel, the clients and the cluster do is what DhcpLeases allows.
ImplementsLeases == Spec
=============================================================================
