----------------------------- MODULE DhcpLeases -----------------------------
(***************************************************************************)
(* The DHCP lease table of FeatherTail (src/src/dhcp.rs) and the two kinds *)
(* of task that use it concurrently: the HTTP handlers of the panel's      *)
(* requests (src/src/routes/api/dhcp.rs) and the one DHCP listener.        *)
(*                                                                         *)
(* One action is one SQL statement, which SQLite commits on its own: the   *)
(* code opens no transaction, so tasks interleave at every await between   *)
(* two statements.  Lease times are the subject of LeaseTerm; here a lease *)
(* is active or released.  A packet that changes nothing and gets no       *)
(* answer is a stuttering step.                                            *)
(***************************************************************************)
CONSTANTS
  Mac, Vmid, Ip,
  Worker,        \* HTTP handler tasks that may run at once
  None,          \* no value
  Configs,       \* the [dhcp] sections the configuration file may hold
  PanelSerial    \* the panel has at most one assignment per VM under way

ASSUME NoneAssumption ==
  None \notin Mac \cup Vmid \cup Ip
             \cup [mac : Mac, ip : Ip, state : {"active", "released"}]

ASSUME ConfigsAssumption ==
  \A c \in Configs :
    /\ c.enabled \in BOOLEAN
    /\ c.mode \in {"off", "blocklist", "allowlist"}

VARIABLES
  leases,    \* the table dhcp_leases: a set of rows
  api,       \* the assign_lease handlers, one per worker
  listener,  \* run_listener and the packet it has in hand
  config,    \* the configuration the process was started with
  held       \* history: what a lookup of the packet's MAC would have
             \* returned, at every moment since the listener's own lookup

vars == <<leases, api, listener, config, held>>

Row == [mac : Mac, vmid : Vmid, ip : Ip, state : {"active", "released"}]

-----------------------------------------------------------------------------
(* SQL: each operator is the result of one statement. *)

SelectFrom(table, m) == {r \in table : r.mac = m}

Select(m) == SelectFrom(leases, m)

\* Mutant: assign_static_lease without its DELETE.
KeepsVmid(v) == leases

WithoutVmid(v) == {r \in leases : r.vmid # v}

\* Mutant: an INSERT that does not replace the row of the MAC.
InsertedBeside(m, v, i) ==
  leases \cup {[mac |-> m, vmid |-> v, ip |-> i, state |-> "active"]}

\* Mutant: INSERT OR IGNORE, which leaves a MAC with the VM that has it.
InsertedOrIgnored(m, v, i) ==
  IF Select(m) = {} THEN InsertedBeside(m, v, i) ELSE leases

Upserted(m, v, i) ==
  {r \in leases : r.mac # m}
    \cup {[mac |-> m, vmid |-> v, ip |-> i, state |-> "active"]}

\* Mutant: a release that deletes the row.
ReleasedByDelete(m) == {r \in leases : r.mac # m}

\* Mutant: a release that writes a state no statement looks for.
ReleasedAsExpired(m) ==
  {[r EXCEPT !.state = IF r.mac = m THEN "expired" ELSE @] : r \in leases}

Released(m) ==
  {[r EXCEPT !.state = IF r.mac = m THEN "released" ELSE @] : r \in leases}

\* Commits a new table; the history notes what the packet's MAC has in it.
Write(table) ==
  /\ leases' = table
  /\ held' = IF listener.kind = "none" THEN held
             ELSE held \cup {SelectFrom(table, listener.mac)}

-----------------------------------------------------------------------------
(* POST /dhcp/leases and DELETE /dhcp/leases/vm/{vmid}. *)

Idle == [pc |-> "idle", vmid |-> None, ip |-> None, mac |-> None]

\* The panel's own order: no second assignment of a VM while one is under way.
MayAssign(v) == PanelSerial => \A w \in Worker : api[w].vmid # v

AssignStart(w, v, i) ==
  /\ api[w].pc = "idle"
  /\ MayAssign(v)
  /\ api' = [api EXCEPT ![w] = [pc |-> "resolve", vmid |-> v, ip |-> i, mac |-> None]]
  /\ UNCHANGED <<leases, listener, config, held>>

\* resolve_qemu_identity: the VM's MAC is whatever Proxmox says at this time.
Identify(w, m) ==
  /\ api[w].pc = "resolve"
  /\ config.enabled
  /\ api' = [api EXCEPT ![w] =
                [pc |-> "delete", vmid |-> @.vmid, ip |-> @.ip, mac |-> m]]
  /\ UNCHANGED <<leases, listener, config, held>>

AssignDelete(w) ==
  /\ api[w].pc = "delete"
  /\ Write(WithoutVmid(api[w].vmid))
  /\ api' = [api EXCEPT ![w].pc = "insert"]
  /\ UNCHANGED <<listener, config>>

AssignInsert(w) ==
  /\ api[w].pc = "insert"
  /\ Write(Upserted(api[w].mac, api[w].vmid, api[w].ip))
  /\ api' = [api EXCEPT ![w] = Idle]
  /\ UNCHANGED <<listener, config>>

\* An answer other than 200 (400, 404, 500, 503), or a client that closes the
\* connection, which drops the handler at its await.
Abort(w) ==
  /\ api[w].pc # "idle"
  /\ api' = [api EXCEPT ![w] = Idle]
  /\ UNCHANGED <<leases, listener, config, held>>

Remove(v) ==
  /\ config.enabled
  /\ Write(WithoutVmid(v))
  /\ UNCHANGED <<api, listener, config>>

-----------------------------------------------------------------------------
(* The DHCP listener. *)

NoAnswer(pc, m) == [pc |-> pc, mac |-> m, want |-> None, kind |-> "none",
                    found |-> {}]

Waiting == NoAnswer("recv", None)
Releasing(m) == NoAnswer("release", m)

HasActive(rows) == \E r \in rows : r.state = "active"

HostAllowed(m, rows) ==
  LET listed(macs, vmids) == m \in macs \/ \E r \in rows : r.vmid \in vmids
  IN  /\ config.mode = "blocklist" => ~listed(config.denyMacs, config.denyVmids)
      /\ config.mode = "allowlist" => listed(config.allowMacs, config.allowVmids)

\* The lease is unknown, released, or not the address the client names
\* (option 50, else a nonzero ciaddr; None: neither).
Refused(rows, want) ==
  \/ ~HasActive(rows)
  \/ want # None /\ \E r \in rows : r.ip # want

\* The packet is in hand from its lookup to its answer.
TakeUp(pc, m, want, kind) ==
  /\ listener.pc = "recv"
  /\ config.enabled
  /\ listener' = [pc |-> pc, mac |-> m, want |-> want, kind |-> kind,
                  found |-> Select(m)]
  /\ held' = {Select(m)}
  /\ UNCHANGED <<leases, api, config>>

Offer(m) ==
  /\ HostAllowed(m, Select(m))
  /\ HasActive(Select(m))
  /\ TakeUp("send", m, None, "OFFER")

Nak(m, want) ==
  /\ ~HostAllowed(m, Select(m)) \/ Refused(Select(m), want)
  /\ TakeUp("send", m, want, "NAK")

Accept(m, want) ==
  /\ HostAllowed(m, Select(m))
  /\ ~Refused(Select(m), want)
  /\ TakeUp("renew", m, want, "ACK")

\* renew_lease_by_mac, the UPDATE of an active row; LeaseTerm has its times.
RenewHit ==
  /\ listener.pc = "renew"
  /\ HasActive(Select(listener.mac))
  /\ listener' = [listener EXCEPT !.pc = "refetch"]
  /\ UNCHANGED <<leases, api, config, held>>

\* No active row any more: the answer is built from the row looked up before.
RenewMiss ==
  /\ listener.pc = "renew"
  /\ ~HasActive(Select(listener.mac))
  /\ listener' = [listener EXCEPT !.pc = "send"]
  /\ UNCHANGED <<leases, api, config, held>>

\* Mutant: the row looked up first is not kept.
RefetchedOnly(rows) == rows

\* The row that is answered with: the renewed one, or the old one if it is gone.
Refetched(rows) == IF rows = {} THEN listener.found ELSE rows

Refetch ==
  /\ listener.pc = "refetch"
  /\ listener' = [listener EXCEPT !.pc = "send",
                                  !.found = Refetched(Select(listener.mac))]
  /\ UNCHANGED <<leases, api, config, held>>

\* The answer is sent, or an error drops the packet at any of its awaits.
Done ==
  /\ listener.pc # "recv"
  /\ listener' = Waiting
  /\ held' = {}
  /\ UNCHANGED <<leases, api, config>>

\* A RELEASE is obeyed before any lookup and whatever the firewall says.
TakeRelease(m) ==
  /\ listener.pc = "recv"
  /\ config.enabled
  /\ listener' = Releasing(m)
  /\ UNCHANGED <<leases, api, config, held>>

Release ==
  /\ listener.pc = "release"
  /\ leases' = Released(listener.mac)
  /\ listener' = Waiting
  /\ UNCHANGED <<api, config, held>>

-----------------------------------------------------------------------------
(* The process ends at any point (exit, kill, power) and is started again,  *)
(* perhaps with another configuration; only the committed table survives.   *)

Restart(c) ==
  /\ config' = c
  /\ api' = [w \in Worker |-> Idle]
  /\ listener' = Waiting
  /\ held' = {}
  /\ UNCHANGED leases

Init ==
  /\ leases = {}
  /\ api = [w \in Worker |-> Idle]
  /\ listener = Waiting
  /\ config \in Configs
  /\ held = {}

PanelNext ==
  \/ \E w \in Worker, v \in Vmid, i \in Ip : AssignStart(w, v, i)
  \/ \E w \in Worker, m \in Mac : Identify(w, m)
  \/ \E w \in Worker : AssignDelete(w) \/ AssignInsert(w) \/ Abort(w)
  \/ \E v \in Vmid : Remove(v)

ListenerNext ==
  \/ \E m \in Mac : Offer(m) \/ TakeRelease(m)
  \/ \E m \in Mac, want \in Ip \cup {None} : Nak(m, want) \/ Accept(m, want)
  \/ RenewHit \/ RenewMiss \/ Refetch \/ Release \/ Done

Next ==
  \/ PanelNext
  \/ ListenerNext
  \/ \E c \in Configs : Restart(c)

Spec == Init /\ [][Next]_vars
-----------------------------------------------------------------------------
(* Correctness. *)

AssignType ==
  {Idle}
    \cup [pc : {"resolve"}, vmid : Vmid, ip : Ip, mac : {None}]
    \cup [pc : {"delete", "insert"}, vmid : Vmid, ip : Ip, mac : Mac]

Packet(pcs, kinds) ==
  [pc : pcs, mac : Mac, want : Ip \cup {None}, kind : kinds,
   found : SUBSET Row]

ListenerType ==
  {Waiting}
    \cup {Releasing(m) : m \in Mac}
    \cup Packet({"renew", "refetch"}, {"ACK"})
    \cup Packet({"send"}, {"OFFER", "NAK", "ACK"})

\* The types of the table, the handlers, the listener and the history: a handler
\* reaches its INSERT only with a VM, an address and a MAC.
TypeOK ==
  /\ leases \in SUBSET Row
  /\ api \in [Worker -> AssignType]
  /\ listener \in ListenerType
  /\ config \in Configs
  /\ held \in SUBSET SUBSET Row

\* A VM has at most one row, so that "the lease of VM v" in the API
\* (DELETE /dhcp/leases/vm/{vmid}, the list of servers) means something, although
\* assign_static_lease deletes the old row and inserts the new one separately.
OneRowPerVmid ==
  \A r, s \in leases : r.vmid = s.vmid => r = s

Answering == listener.pc = "send" /\ listener.kind \in {"OFFER", "ACK"}

\* An OFFER or ACK carries a row the client really had, in state active, at some
\* moment while its packet was in hand: a lookup made before a concurrent
\* assignment or removal may be answered, an older or a released one never.
AnswerWasLeased ==
  Answering => /\ listener.found \in held
               /\ HasActive(listener.found)

\* "dhcp nak sent for mismatched requested ip": a REQUEST that names an address is not
\* acknowledged with the lease of another one.
AckMatchesRequest ==
  Answering /\ listener.kind = "ACK" /\ listener.want # None =>
    \A r \in listener.found : r.ip = listener.want

Bindings == {<<r.mac, r.vmid, r.ip>> : r \in leases}

\* Packets and restarts never create, delete or readdress a lease: a step that
\* changes which MAC and VM has which address is one of the panel's, so a
\* client's RELEASE cannot take a static lease away from its VM.
OnlyPanelRebinds == [][Bindings' # Bindings => UNCHANGED listener]_vars

-----------------------------------------------------------------------------
(* What the properties above rest on, step by step. *)

\* mac is the table's primary key.
OneRowPerMac ==
  \A r, s \in leases : r.mac = s.mac => r = s

\* A handler between its two statements is alone with its VM, whose row is gone.
Alone ==
  /\ \A w, u \in Worker :
       api[w].vmid # None /\ api[w].vmid = api[u].vmid => w = u
  /\ \A w \in Worker :
       api[w].pc = "insert" => \A r \in leases : r.vmid # api[w].vmid

\* The table of a panel that assigns each VM serially.
TableInv == OneRowPerMac /\ OneRowPerVmid /\ Alone

\* A packet on its way to an OFFER or ACK: what it found was active, what it will
\* find can only be active, since a RELEASE waits for the listener.
PacketInv ==
  /\ OneRowPerMac
  /\ listener.kind # "none" => Select(listener.mac) \in held
  /\ listener.pc \in {"renew", "refetch"} =>
       \A r \in Select(listener.mac) : r.state = "active"
  /\ listener.kind \in {"OFFER", "ACK"} =>
       /\ listener.found \in held
       /\ HasActive(listener.found)

-----------------------------------------------------------------------------
(* The table as a registry. *)

\* The lease of a VM, as VmLeases has it.
LeaseIn(table, v) ==
  IF \E r \in table : r.vmid = v
  THEN LET r == CHOOSE r \in table : r.vmid = v
       IN  [mac |-> r.mac, ip |-> r.ip, state |-> r.state]
  ELSE None

Registry == INSTANCE VmLeases WITH lease <- [v \in Vmid |-> LeaseIn(leases, v)]

\* Whatever tasks interleave and wherever the process stops, the table is a
\* registry with one lease per VM and one VM per MAC, changed only by
\* assignments, removals and releases.
RegistrySpec == Registry!Spec
=============================================================================
