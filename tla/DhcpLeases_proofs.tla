-------------------------- MODULE DhcpLeases_proofs --------------------------
(***************************************************************************)
(* Theorems about the table of leases, for every set of MACs, VMs,         *)
(* addresses, workers and configurations: those about DhcpLeases by        *)
(* itself, then those about LeaseIdentity, whose steps are steps of        *)
(* DhcpLeases: what holds of the table alone holds of it with the cards of *)
(* the VMs, an assignment that was answered holds for the VM's own MAC,    *)
(* and the lease it gave stands.                                           *)
(***************************************************************************)
EXTENDS LeaseIdentity, TLAPS

-----------------------------------------------------------------------------
(* Types. *)

\* What a statement makes of a well-typed table is a well-typed table.
LEMMA TableTypes ==
  ASSUME leases \in SUBSET Row
  PROVE  /\ \A m \in Mac : Select(m) \in SUBSET Row /\ Released(m) \in SUBSET Row
         /\ \A v \in Vmid : WithoutVmid(v) \in SUBSET Row
         /\ \A m \in Mac, v \in Vmid, i \in Ip : Upserted(m, v, i) \in SUBSET Row
<1>select. \A m \in Mac : Select(m) \in SUBSET Row
  BY DEF Select, SelectFrom
<1>released. ASSUME NEW m \in Mac PROVE Released(m) \in SUBSET Row
  BY DEF Released, Row
<1>delete. \A v \in Vmid : WithoutVmid(v) \in SUBSET Row
  BY DEF WithoutVmid
<1>upsert. \A m \in Mac, v \in Vmid, i \in Ip : Upserted(m, v, i) \in SUBSET Row
  BY DEF Upserted, Row
<1> QED
  BY <1>select, <1>released, <1>delete, <1>upsert

\* What a handler's pc says about the rest of its record.
LEMMA HandlerTypes ==
  ASSUME TypeOK, NEW w \in Worker
  PROVE  /\ api[w].pc = "resolve" => api[w].vmid \in Vmid /\ api[w].ip \in Ip
         /\ api[w].pc \in {"delete", "insert"} =>
              /\ api[w].vmid \in Vmid
              /\ api[w].ip \in Ip
              /\ api[w].mac \in Mac
BY DEF TypeOK, AssignType, Idle

\* What the listener's pc says about the packet in hand.
LEMMA PacketTypes ==
  ASSUME TypeOK, listener.pc \notin {"recv", "release"}
  PROVE  /\ listener.mac \in Mac
         /\ listener.want \in Ip \cup {None}
         /\ listener.found \in SUBSET Row
         /\ listener \in Packet({"renew", "refetch"}, {"ACK"})
              \cup Packet({"send"}, {"OFFER", "NAK", "ACK"})
BY DEF TypeOK, ListenerType, Packet, Waiting, Releasing, NoAnswer

\* A RELEASE in hand has a MAC.
LEMMA ReleaseTypes ==
  ASSUME TypeOK, listener.pc = "release"
  PROVE  listener.mac \in Mac
BY DEF TypeOK, ListenerType, Packet, Waiting, Releasing, NoAnswer

\* A write of a well-typed table keeps the history well typed.
LEMMA WriteTypes ==
  ASSUME TypeOK, NEW t \in SUBSET Row, Write(t)
  PROVE  leases' \in SUBSET Row /\ held' \in SUBSET SUBSET Row
<1>1. SelectFrom(t, listener.mac) \in SUBSET Row
  BY DEF SelectFrom
<1> QED
  BY <1>1 DEF Write, TypeOK

\* Every step of the program keeps the types.
LEMMA TypeStep ==
  ASSUME TypeOK, [Next]_vars
  PROVE  TypeOK'
<1>AssignStart. ASSUME NEW w \in Worker, NEW v \in Vmid, NEW i \in Ip, AssignStart(w, v, i)
                PROVE  TypeOK'
  BY <1>AssignStart DEF AssignStart, TypeOK, AssignType
<1>Identify. ASSUME NEW w \in Worker, NEW m \in Mac, Identify(w, m)
             PROVE  TypeOK'
  BY <1>Identify, HandlerTypes DEF Identify, TypeOK, AssignType
<1>AssignDelete. ASSUME NEW w \in Worker, AssignDelete(w)
                 PROVE  TypeOK'
  <2>1. [api[w] EXCEPT !.pc = "insert"] \in AssignType
    BY <1>AssignDelete DEF AssignDelete, TypeOK, AssignType, Idle
  <2>2. WithoutVmid(api[w].vmid) \in SUBSET Row
    BY <1>AssignDelete, TableTypes, HandlerTypes DEF AssignDelete, TypeOK
  <2> QED
    BY <1>AssignDelete, <2>1, <2>2, WriteTypes DEF AssignDelete, TypeOK
<1>AssignInsert. ASSUME NEW w \in Worker, AssignInsert(w)
                 PROVE  TypeOK'
  <2>1. Upserted(api[w].mac, api[w].vmid, api[w].ip) \in SUBSET Row
    BY <1>AssignInsert, TableTypes, HandlerTypes DEF AssignInsert, TypeOK
  <2>2. Idle \in AssignType
    BY DEF AssignType
  <2> QED
    BY <1>AssignInsert, <2>1, <2>2, WriteTypes DEF AssignInsert, TypeOK
<1>Abort. ASSUME NEW w \in Worker, Abort(w)
          PROVE  TypeOK'
  BY <1>Abort DEF Abort, TypeOK, AssignType
<1>Remove. ASSUME NEW v \in Vmid, Remove(v)
           PROVE  TypeOK'
  <2>1. WithoutVmid(v) \in SUBSET Row
    BY TableTypes DEF TypeOK
  <2> QED
    BY <1>Remove, <2>1, WriteTypes DEF Remove, TypeOK
<1>Offer. ASSUME NEW m \in Mac, Offer(m)
          PROVE  TypeOK'
  BY <1>Offer, TableTypes DEF Offer, TakeUp, TypeOK, ListenerType, Packet
<1>Nak. ASSUME NEW m \in Mac, NEW want \in Ip \cup {None}, Nak(m, want)
        PROVE  TypeOK'
  BY <1>Nak, TableTypes DEF Nak, TakeUp, TypeOK, ListenerType, Packet
<1>Accept. ASSUME NEW m \in Mac, NEW want \in Ip \cup {None}, Accept(m, want)
           PROVE  TypeOK'
  BY <1>Accept, TableTypes DEF Accept, TakeUp, TypeOK, ListenerType, Packet
<1>RenewHit. CASE RenewHit
  BY <1>RenewHit, PacketTypes DEF RenewHit, TypeOK, ListenerType, Packet
<1>RenewMiss. CASE RenewMiss
  BY <1>RenewMiss, PacketTypes DEF RenewMiss, TypeOK, ListenerType, Packet
<1>Refetch. CASE Refetch
  <2>1. Refetched(Select(listener.mac)) \in SUBSET Row
    BY <1>Refetch, TableTypes, PacketTypes DEF Refetch, Refetched, TypeOK
  <2> QED
    BY <1>Refetch, <2>1, PacketTypes DEF Refetch, TypeOK, ListenerType, Packet
<1>Done. CASE Done
  BY <1>Done DEF Done, TypeOK, ListenerType
<1>TakeRelease. ASSUME NEW m \in Mac, TakeRelease(m)
                PROVE  TypeOK'
  BY <1>TakeRelease DEF TakeRelease, TypeOK, ListenerType
<1>Release. CASE Release
  <2>1. listener.mac \in Mac
    BY <1>Release, ReleaseTypes DEF Release
  <2> QED
    BY <1>Release, <2>1, TableTypes DEF Release, TypeOK, ListenerType
<1>Restart. ASSUME NEW c \in Configs, Restart(c)
            PROVE  TypeOK'
  BY <1>Restart DEF Restart, TypeOK, ListenerType, AssignType
<1>Unchanged. CASE UNCHANGED vars
  BY <1>Unchanged DEF vars, TypeOK
<1> QED
  BY <1>AssignStart, <1>Identify, <1>AssignDelete, <1>AssignInsert, <1>Abort, <1>Remove,
     <1>Offer, <1>Nak, <1>Accept, <1>RenewHit, <1>RenewMiss, <1>Refetch, <1>Done,
     <1>TakeRelease, <1>Restart, <1>Unchanged, <1>Release
  DEF Next, PanelNext, ListenerNext

\* The table, the handlers and the listener always have their types: no handler
\* reaches the INSERT of assign_static_lease without a VM, an address and a MAC.
THEOREM TypeCorrect == Spec => []TypeOK
<1>init. Init => TypeOK
  BY DEF Init, TypeOK, AssignType, ListenerType
<1>step. TypeOK /\ [Next]_vars => TypeOK'
  BY TypeStep
<1> QED
  BY <1>init, <1>step, PTL DEF Spec

-----------------------------------------------------------------------------
(* The table. *)

\* Which rows a statement leaves, in terms of the rows there were.
LEMMA TableRows ==
  ASSUME NEW m, NEW v, NEW i
  PROVE  /\ \A r \in WithoutVmid(v) : r \in leases /\ r.vmid # v
         /\ \A r \in Upserted(m, v, i) :
              \/ r = [mac |-> m, vmid |-> v, ip |-> i, state |-> "active"]
              \/ r \in leases /\ r.mac # m
BY DEF WithoutVmid, Upserted

\* A RELEASE rewrites the state of rows and nothing else.
LEMMA ReleasedRows ==
  ASSUME leases \in SUBSET Row, NEW m, NEW r \in Released(m)
  PROVE  \E s \in leases :
           /\ r.mac = s.mac /\ r.vmid = s.vmid /\ r.ip = s.ip
           /\ r.state = IF s.mac = m THEN "released" ELSE s.state
           /\ r = [s EXCEPT !.state = IF s.mac = m THEN "released" ELSE s.state]
<1>1. PICK s \in leases :
        r = [s EXCEPT !.state = IF s.mac = m THEN "released" ELSE s.state]
  BY DEF Released
<1>2. s \in Row
  OBVIOUS
<1> QED
  BY <1>1, <1>2 DEF Row

\* mac stays a key whatever happens: the INSERT resolves the conflict.
LEMMA MacKeyStep ==
  ASSUME TypeOK, OneRowPerMac, [Next]_vars
  PROVE  OneRowPerMac'
<1>AssignDelete. ASSUME NEW w \in Worker, AssignDelete(w)
                 PROVE  OneRowPerMac'
  <2>1. \A r \in leases' : r \in leases
    BY <1>AssignDelete, TableRows DEF AssignDelete, Write
  <2> QED
    BY <2>1 DEF OneRowPerMac
<1>AssignInsert. ASSUME NEW w \in Worker, AssignInsert(w)
                 PROVE  OneRowPerMac'
  BY <1>AssignInsert, TableRows DEF AssignInsert, Write, OneRowPerMac
<1>Remove. ASSUME NEW v \in Vmid, Remove(v)
           PROVE  OneRowPerMac'
  BY <1>Remove, TableRows DEF Remove, Write, OneRowPerMac
<1>Release. CASE Release
  <2> DEFINE m == listener.mac
  <2> SUFFICES ASSUME NEW r \in Released(m), NEW s \in Released(m), r.mac = s.mac
               PROVE  r = s
    BY <1>Release DEF Release, OneRowPerMac
  <2>mac.
      PICK r0 \in leases :
        r.mac = r0.mac /\ r = [r0 EXCEPT !.state = IF r0.mac = m THEN "released" ELSE r0.state]
    BY ReleasedRows DEF TypeOK
  <2>macState.
      PICK s0 \in leases :
        s.mac = s0.mac /\ s = [s0 EXCEPT !.state = IF s0.mac = m THEN "released" ELSE s0.state]
    BY ReleasedRows DEF TypeOK
  <2>r0. r0 = s0
    BY <2>mac, <2>macState DEF OneRowPerMac
  <2> QED
    BY <2>mac, <2>macState, <2>r0
<1>Unchanged. CASE UNCHANGED leases
  BY <1>Unchanged DEF OneRowPerMac
<1> QED
  BY <1>AssignDelete, <1>AssignInsert, <1>Remove, <1>Release, <1>Unchanged
  DEF Next, PanelNext, ListenerNext, AssignStart, Identify, Abort, Offer, Nak, Accept,
      TakeRelease, TakeUp, RenewHit, RenewMiss, Refetch, Done, Restart, vars

\* With a serial panel the handler that inserts is the only one with its VM, and
\* nothing can have brought back the row it deleted.
LEMMA TableStep ==
  ASSUME PanelSerial, TypeOK, TableInv, [Next]_vars
  PROVE  TableInv'
<1> USE DEF TableInv
<1>OneRowPerMac. OneRowPerMac'
  BY MacKeyStep
<1>AssignStart. ASSUME NEW w \in Worker, NEW v \in Vmid, NEW i \in Ip, AssignStart(w, v, i)
                PROVE  OneRowPerVmid' /\ Alone'
  BY <1>AssignStart DEF AssignStart, MayAssign, TypeOK, OneRowPerVmid, Alone
<1>Identify. ASSUME NEW w \in Worker, NEW m \in Mac, Identify(w, m)
             PROVE  OneRowPerVmid' /\ Alone'
  BY <1>Identify DEF Identify, TypeOK, OneRowPerVmid, Alone
<1>AssignDelete. ASSUME NEW w \in Worker, AssignDelete(w)
                 PROVE  OneRowPerVmid' /\ Alone'
  <2>newApi. \A u \in Worker : api'[u].vmid = api[u].vmid
    BY <1>AssignDelete DEF AssignDelete, TypeOK
  <2>newApiApi. \A u \in Worker : u # w => api'[u] = api[u]
    BY <1>AssignDelete DEF AssignDelete, TypeOK
  <2>leases. \A r \in leases' : r \in leases /\ r.vmid # api[w].vmid
    BY <1>AssignDelete, TableRows DEF AssignDelete, Write
  <2> QED
    BY <2>newApi, <2>newApiApi, <2>leases DEF OneRowPerVmid, Alone
<1>AssignInsert. ASSUME NEW w \in Worker, AssignInsert(w)
                 PROVE  OneRowPerVmid' /\ Alone'
  <2> DEFINE new == [mac |-> api[w].mac, vmid |-> api[w].vmid,
                     ip |-> api[w].ip, state |-> "active"]
  <2>new. \A r \in leases' : r = new \/ r \in leases
    BY <1>AssignInsert, TableRows DEF AssignInsert, Write
  <2>vmid. \A r \in leases : r.vmid # api[w].vmid
    BY <1>AssignInsert DEF AssignInsert, Alone
  <2>newApi. \A u \in Worker : api'[u] = IF u = w THEN Idle ELSE api[u]
    BY <1>AssignInsert DEF AssignInsert, TypeOK
  <2>api. \A u \in Worker : u # w => api[u].vmid # api[w].vmid
    BY <1>AssignInsert, HandlerTypes, NoneAssumption DEF AssignInsert, Alone
  <2>OneRowPerVmid. OneRowPerVmid'
    BY <2>new, <2>vmid DEF OneRowPerVmid
  <2>Alone. Alone'
    BY <2>new, <2>newApi, <2>api DEF Alone, Idle
  <2> QED
    BY <2>OneRowPerVmid, <2>Alone
<1>Abort. ASSUME NEW w \in Worker, Abort(w)
          PROVE  OneRowPerVmid' /\ Alone'
  BY <1>Abort DEF Abort, Idle, TypeOK, OneRowPerVmid, Alone
<1>Remove. ASSUME NEW v \in Vmid, Remove(v)
           PROVE  OneRowPerVmid' /\ Alone'
  BY <1>Remove, TableRows DEF Remove, Write, OneRowPerVmid, Alone
<1>Release. CASE Release
  <2> DEFINE m == listener.mac
  <2>vmid. \A r \in leases' : \E s \in leases : r.vmid = s.vmid
    BY <1>Release, ReleasedRows DEF Release, TypeOK
  <2>OneRowPerVmid. OneRowPerVmid'
    <3> SUFFICES ASSUME NEW r \in Released(m), NEW s \in Released(m), r.vmid = s.vmid
                 PROVE  r = s
      BY <1>Release DEF Release, OneRowPerVmid
    <3>1.
        PICK r0 \in leases :
          r.vmid = r0.vmid /\ r = [r0 EXCEPT !.state = IF r0.mac = m THEN "released" ELSE r0.state]
      BY ReleasedRows DEF TypeOK
    <3>2.
        PICK s0 \in leases :
          s.vmid = s0.vmid /\ s = [s0 EXCEPT !.state = IF s0.mac = m THEN "released" ELSE s0.state]
      BY ReleasedRows DEF TypeOK
    <3> QED
      BY <3>1, <3>2 DEF OneRowPerVmid
  <2>Alone. Alone'
    BY <1>Release, <2>vmid DEF Release, Alone
  <2> QED
    BY <1>OneRowPerMac, <2>OneRowPerVmid, <2>Alone
<1>Unchanged. CASE UNCHANGED <<leases, api>>
  BY <1>OneRowPerMac, <1>Unchanged DEF OneRowPerVmid, Alone
<1>Restart. ASSUME NEW c \in Configs, Restart(c)
            PROVE  OneRowPerVmid' /\ Alone'
  BY <1>Restart DEF Restart, Idle, OneRowPerVmid, Alone
<1>ListenerNext. CASE ListenerNext
  BY <1>OneRowPerMac, <1>Release, <1>Unchanged, <1>ListenerNext
  DEF ListenerNext, Offer, Nak, Accept, TakeRelease, TakeUp, RenewHit, RenewMiss,
      Refetch, Done
<1>PanelNext. CASE PanelNext
  BY <1>OneRowPerMac, <1>AssignStart, <1>Identify, <1>AssignDelete, <1>AssignInsert,
     <1>Abort, <1>Remove, <1>PanelNext
  DEF PanelNext
<1> QED
  BY <1>OneRowPerMac, <1>Unchanged, <1>Restart, <1>ListenerNext, <1>PanelNext DEF Next, vars

\* If the panel assigns each VM serially, a VM never has two rows, although the
\* DELETE and the INSERT of assign_static_lease are two transactions and the
\* process may stop between them.
THEOREM UniqueLease ==
  ASSUME PanelSerial
  PROVE  Spec => []OneRowPerVmid
<1>init. Init => TypeOK /\ TableInv
  BY DEF Init, TypeOK, AssignType, ListenerType, TableInv, OneRowPerMac, OneRowPerVmid,
         Alone, Idle
<1>step. TypeOK /\ TableInv /\ [Next]_vars => (TypeOK /\ TableInv)'
  BY TypeStep, TableStep
<1>implies. TableInv => OneRowPerVmid
  BY DEF TableInv
<1> QED
  BY <1>init, <1>step, <1>implies, PTL DEF Spec

-----------------------------------------------------------------------------
(* The answers. *)

\* A packet that is not on its way to an answer has no kind.
LEMMA NoKind ==
  ASSUME TypeOK
  PROVE  /\ listener.kind = "none" => listener.pc \notin {"renew", "refetch"}
         /\ listener.pc \in {"recv", "release"} => listener.kind = "none"
BY DEF TypeOK, ListenerType, Packet, Waiting, Releasing, NoAnswer

\* What a panel statement does to the row of the packet in hand: the history
\* grows by what a lookup would now return, and only active rows appear.
LEMMA PanelWrite ==
  ASSUME TypeOK, PacketInv, OneRowPerMac', NEW t, Write(t),
         UNCHANGED <<listener, config>>,
         \A r \in t : r \in leases \/ r.state = "active"
  PROVE  PacketInv'
<1>1. CASE listener.kind = "none"
  BY <1>1, NoKind DEF PacketInv
<1>2. CASE listener.kind # "none"
  <2>written. held' = held \cup {SelectFrom(t, listener.mac)} /\ leases' = t
    BY <1>2 DEF Write
  <2>lookup. Select(listener.mac)' \in held'
    BY <2>written DEF Select
  <2>active. ASSUME \A r \in Select(listener.mac) : r.state = "active"
             PROVE  \A r \in Select(listener.mac)' : r.state = "active"
    BY <2>written, <2>active DEF Select, SelectFrom
  <2> QED
    BY <2>written, <2>lookup, <2>active DEF PacketInv
<1> QED
  BY <1>1, <1>2

\* What the listener takes up for an answer is active; the history starts with it.
LEMMA TakenUp ==
  ASSUME TypeOK, OneRowPerMac, NEW m \in Mac, NEW want \in Ip \cup {None},
         NEW pc \in {"renew", "send"}, NEW kind \in {"OFFER", "ACK"},
         HostAllowed(m, Select(m)), ~Refused(Select(m), want),
         TakeUp(pc, m, want, kind)
  PROVE  PacketInv'
<1>packet. /\ listener'.pc = pc /\ listener'.mac = m /\ listener'.want = want
           /\ listener'.found = Select(m)
           /\ held' = {Select(m)} /\ UNCHANGED <<leases, config>>
  BY DEF TakeUp
<1>lookup. Select(listener.mac)' = Select(m)
  BY <1>packet DEF Select
<1>active. PICK r \in Select(m) : r.state = "active"
  BY DEF Refused, HasActive
<1>only. \A s \in Select(m) : s = r
  BY DEF Select, SelectFrom, OneRowPerMac
<1>key. OneRowPerMac'
  BY <1>packet DEF OneRowPerMac
<1> QED
  BY <1>packet, <1>lookup, <1>active, <1>only, <1>key
  DEF PacketInv, HasActive

\* Every step keeps what an answer rests on.
LEMMA PacketStep ==
  ASSUME TypeOK, PacketInv, [Next]_vars
  PROVE  PacketInv'
<1>OneRowPerMac. OneRowPerMac'
  BY MacKeyStep DEF PacketInv
<1>AssignDelete. ASSUME NEW w \in Worker, AssignDelete(w)
                 PROVE  PacketInv'
  BY <1>OneRowPerMac, <1>AssignDelete, PanelWrite, TableRows DEF AssignDelete
<1>AssignInsert. ASSUME NEW w \in Worker, AssignInsert(w)
                 PROVE  PacketInv'
  <2>1. \A r \in Upserted(api[w].mac, api[w].vmid, api[w].ip) :
          r \in leases \/ r.state = "active"
    BY TableRows
  <2> QED
    BY <1>OneRowPerMac, <1>AssignInsert, <2>1, PanelWrite DEF AssignInsert
<1>Remove. ASSUME NEW v \in Vmid, Remove(v)
           PROVE  PacketInv'
  BY <1>OneRowPerMac, <1>Remove, PanelWrite, TableRows DEF Remove
<1>Offer. ASSUME NEW m \in Mac, Offer(m)
          PROVE  PacketInv'
  <2>1. ~Refused(Select(m), None)
    BY <1>Offer DEF Offer, Refused
  <2> QED
    BY <1>Offer, <2>1, TakenUp DEF Offer, PacketInv
<1>Nak. ASSUME NEW m \in Mac, NEW want \in Ip \cup {None}, Nak(m, want)
        PROVE  PacketInv'
  BY <1>OneRowPerMac, <1>Nak DEF Nak, TakeUp, PacketInv, Select
<1>Accept. ASSUME NEW m \in Mac, NEW want \in Ip \cup {None}, Accept(m, want)
           PROVE  PacketInv'
  BY <1>Accept, TakenUp DEF Accept, PacketInv
<1>RenewHit. CASE RenewHit
  BY <1>OneRowPerMac, <1>RenewHit, PacketTypes
  DEF RenewHit, PacketInv, Packet, Select
<1>RenewMiss. CASE RenewMiss
  BY <1>OneRowPerMac, <1>RenewMiss, PacketTypes
  DEF RenewMiss, PacketInv, Packet, Select
<1>Refetch. CASE Refetch
  <2> DEFINE rows == Refetched(Select(listener.mac))
  <2>rows. rows \in held /\ HasActive(rows)
    BY <1>Refetch, PacketTypes DEF Refetch, Refetched, PacketInv, HasActive, Packet
  <2>newListener. /\ listener'.pc = "send" /\ listener'.found = rows
                  /\ listener'.mac = listener.mac /\ listener'.want = listener.want
                  /\ UNCHANGED <<leases, config, held>>
    BY <1>Refetch, PacketTypes DEF Refetch, Packet
  <2>listener. listener.kind = "ACK"
    BY <1>Refetch, PacketTypes DEF Refetch, Packet
  <2>Select. Select(listener.mac)' \in held'
    BY <1>Refetch, <2>newListener, <2>listener
    DEF Refetch, PacketInv, Select
  <2> QED
    BY <1>OneRowPerMac, <2>rows, <2>newListener, <2>Select DEF PacketInv
<1>isNewListener. CASE listener'.pc \in {"recv", "release"} /\ listener'.kind = "none"
  BY <1>OneRowPerMac, <1>isNewListener DEF PacketInv
<1>Unchanged. CASE UNCHANGED <<leases, listener, config, held>>
  BY <1>OneRowPerMac, <1>Unchanged DEF PacketInv, Select
<1>PanelNext. CASE PanelNext
  BY <1>AssignDelete, <1>AssignInsert, <1>Remove, <1>Unchanged, <1>PanelNext
  DEF PanelNext, AssignStart, Identify, Abort
<1>ListenerNext. CASE ListenerNext
  BY <1>Offer, <1>Nak, <1>Accept, <1>RenewHit, <1>RenewMiss, <1>Refetch, <1>isNewListener,
     <1>ListenerNext
  DEF ListenerNext, Done, Waiting, Releasing, NoAnswer, TakeRelease, Release
<1> QED
  BY <1>isNewListener, <1>Unchanged, <1>PanelNext, <1>ListenerNext
  DEF Next, Restart, Waiting, NoAnswer, vars

\* Whatever the panel does while a packet is in hand, an OFFER or ACK carries a lease
\* the client had, in state active, in that time.
THEOREM AnswersHold == Spec => []AnswerWasLeased
<1>init. Init => TypeOK /\ PacketInv
  BY DEF Init, TypeOK, AssignType, ListenerType, PacketInv, OneRowPerMac, Waiting, NoAnswer
<1>step. TypeOK /\ PacketInv /\ [Next]_vars => (TypeOK /\ PacketInv)'
  BY TypeStep, PacketStep
<1>implies. PacketInv => AnswerWasLeased
  BY DEF PacketInv, AnswerWasLeased, Answering
<1> QED
  BY <1>init, <1>step, <1>implies, PTL DEF Spec

-----------------------------------------------------------------------------
(* The registry. *)

\* In a table with one row per VM, the lease of a VM is its row.
LEMMA LeaseIsRow ==
  ASSUME NEW table \in SUBSET Row,
         \A r, s \in table : r.vmid = s.vmid => r = s,
         NEW v
  PROVE  /\ \A r \in table : r.vmid = v =>
              LeaseIn(table, v) = [mac |-> r.mac, ip |-> r.ip, state |-> r.state]
         /\ (\A r \in table : r.vmid # v) => LeaseIn(table, v) = None
BY DEF LeaseIn

\* A lease is held under a MAC exactly if a row says so.
LEMMA HoldsRow ==
  ASSUME TypeOK, OneRowPerVmid, NEW v \in Vmid, NEW m \in Mac
  PROVE  Registry!Holds(v, m) <=> \E r \in leases : r.vmid = v /\ r.mac = m
<1>isVmid. CASE \A r \in leases : r.vmid # v
  BY <1>isVmid, LeaseIsRow DEF Registry!Holds, TypeOK, OneRowPerVmid
<1>Registry. ASSUME NEW r \in leases, r.vmid = v
             PROVE  Registry!Holds(v, m) <=> \E s \in leases : s.vmid = v /\ s.mac = m
  <2>LeaseIn. LeaseIn(leases, v) = [mac |-> r.mac, ip |-> r.ip, state |-> r.state]
    BY <1>Registry, LeaseIsRow DEF TypeOK, OneRowPerVmid
  <2>Row. r \in Row
    BY DEF TypeOK
  <2>LeaseInLeases. LeaseIn(leases, v) # None
    BY <2>LeaseIn, <2>Row, NoneAssumption DEF Row
  <2> QED
    BY <1>Registry, <2>LeaseIn, <2>LeaseInLeases DEF Registry!Holds, OneRowPerVmid
<1> QED
  BY <1>isVmid, <1>Registry

\* DELETE ... WHERE vmid is the registry's Remove.
LEMMA DeleteRemoves ==
  ASSUME TypeOK, OneRowPerVmid, NEW v \in Vmid, leases' = WithoutVmid(v)
  PROVE  Registry!Remove(v)
<1>1. ASSUME NEW u \in Vmid
      PROVE  LeaseIn(leases', u) = IF u = v THEN None ELSE LeaseIn(leases, u)
  <2>newLeases. leases' \in SUBSET Row /\ \A r, s \in leases' : r.vmid = s.vmid => r = s
    BY TableRows DEF TypeOK, OneRowPerVmid
  <2>newLeasesLeases. \A r : r \in leases' <=> r \in leases /\ r.vmid # v
    BY DEF WithoutVmid
  <2>isVmid. CASE \A r \in leases : r.vmid # u
    BY <2>newLeases, <2>newLeasesLeases, <2>isVmid, LeaseIsRow DEF TypeOK, OneRowPerVmid
  <2>LeaseIn. ASSUME NEW r \in leases, r.vmid = u
              PROVE  LeaseIn(leases', u) = IF u = v THEN None ELSE LeaseIn(leases, u)
    BY <2>newLeases, <2>newLeasesLeases, <2>LeaseIn, LeaseIsRow DEF TypeOK, OneRowPerVmid
  <2> QED
    BY <2>isVmid, <2>LeaseIn
<1> QED
  BY <1>1 DEF Registry!Remove

\* The upsert, of a VM without a row, is the registry's Assign.
LEMMA InsertAssigns ==
  ASSUME TypeOK, OneRowPerVmid, NEW m \in Mac, NEW v \in Vmid, NEW i \in Ip,
         \A r \in leases : r.vmid # v,
         leases' = Upserted(m, v, i)
  PROVE  Registry!Assign(v, m, i)
<1> DEFINE new == [mac |-> m, vmid |-> v, ip |-> i, state |-> "active"]
<1>newLeases. \A r : r \in leases' <=> r = new \/ (r \in leases /\ r.mac # m)
  BY DEF Upserted
<1>newLeasesRow. leases' \in SUBSET Row
  BY TableTypes DEF TypeOK
<1>vmid. \A r, s \in leases' : r.vmid = s.vmid => r = s
  BY <1>newLeases DEF OneRowPerVmid
<1>LeaseIn. ASSUME NEW u \in Vmid
            PROVE  LeaseIn(leases', u) =
                     IF u = v THEN [mac |-> m, ip |-> i, state |-> "active"]
                     ELSE IF Registry!Holds(u, m) THEN None ELSE LeaseIn(leases, u)
  <2>same. CASE u = v
    <3>new. new \in leases' /\ new.vmid = u
      BY <1>newLeases, <2>same
    <3> QED
      BY <1>newLeasesRow, <1>vmid, <2>same, <3>new, LeaseIsRow
  <2>isRegistry. CASE u # v /\ Registry!Holds(u, m)
    <3>vmid. \A r \in leases' : r.vmid # u
      BY <1>newLeases, <2>isRegistry, HoldsRow DEF OneRowPerVmid
    <3> QED
      BY <1>newLeasesRow, <1>vmid, <2>isRegistry, <3>vmid, LeaseIsRow
  <2>isNotRegistry. CASE u # v /\ ~Registry!Holds(u, m)
    <3>vmid. \A r \in leases : r.vmid = u => r \in leases'
      BY <1>newLeases, <2>isNotRegistry, HoldsRow
    <3>vmidLeases. \A r \in leases' : r.vmid = u => r \in leases
      BY <1>newLeases, <2>isNotRegistry
    <3>isVmid. CASE \A r \in leases : r.vmid # u
      BY <1>newLeasesRow, <1>vmid, <2>isNotRegistry, <3>vmidLeases, <3>isVmid, LeaseIsRow
      DEF TypeOK, OneRowPerVmid
    <3>LeaseIn. ASSUME NEW r \in leases, r.vmid = u
                PROVE  LeaseIn(leases', u) = LeaseIn(leases, u)
      BY <1>newLeasesRow, <1>vmid, <3>vmid, <3>LeaseIn, LeaseIsRow DEF TypeOK, OneRowPerVmid
    <3> QED
      BY <2>isNotRegistry, <3>isVmid, <3>LeaseIn
  <2> QED
    BY <2>same, <2>isRegistry, <2>isNotRegistry
<1> QED
  BY <1>LeaseIn DEF Registry!Assign

\* The UPDATE of a RELEASE is the registry's Release.
LEMMA UpdateReleases ==
  ASSUME TypeOK, OneRowPerVmid, OneRowPerVmid', NEW m \in Mac, leases' = Released(m)
  PROVE  Registry!Release(m)
<1>newLeases. leases' \in SUBSET Row
  BY TableTypes DEF TypeOK
<1>LeaseIn. ASSUME NEW u \in Vmid
            PROVE  LeaseIn(leases', u) =
                     IF Registry!Holds(u, m)
                     THEN [LeaseIn(leases, u) EXCEPT !.state = "released"]
                     ELSE LeaseIn(leases, u)
  <2>isVmid. CASE \A r \in leases : r.vmid # u
    <3>1. \A r \in leases' : r.vmid # u
      BY <2>isVmid, ReleasedRows DEF TypeOK
    <3>2. LeaseIn(leases', u) = None
      BY <1>newLeases, <3>1, LeaseIsRow DEF OneRowPerVmid
    <3>3. LeaseIn(leases, u) = None /\ ~Registry!Holds(u, m)
      BY <2>isVmid, LeaseIsRow, HoldsRow DEF TypeOK, OneRowPerVmid
    <3> QED
      BY <3>2, <3>3
  <2>LeaseIn. ASSUME NEW s \in leases, s.vmid = u
              PROVE  LeaseIn(leases', u) =
                       IF Registry!Holds(u, m)
                       THEN [LeaseIn(leases, u) EXCEPT !.state = "released"]
                       ELSE LeaseIn(leases, u)
    <3> DEFINE r == [s EXCEPT !.state = IF s.mac = m THEN "released" ELSE @]
    <3>newLeases. r \in leases'
      BY DEF Released
    <3>Row. /\ s \in Row
            /\ r.mac = s.mac /\ r.vmid = s.vmid /\ r.ip = s.ip
            /\ r.state = IF s.mac = m THEN "released" ELSE s.state
      BY DEF TypeOK, Row
    <3> HIDE DEF r
    <3>LeaseIn. LeaseIn(leases', u) = [mac |-> r.mac, ip |-> r.ip, state |-> r.state]
      BY <1>newLeases, <2>LeaseIn, <3>newLeases, <3>Row, LeaseIsRow DEF OneRowPerVmid
    <3>LeaseInLeases. LeaseIn(leases, u) = [mac |-> s.mac, ip |-> s.ip, state |-> s.state]
      BY <2>LeaseIn, LeaseIsRow DEF TypeOK, OneRowPerVmid
    <3>Registry. Registry!Holds(u, m) <=> s.mac = m
      BY <2>LeaseIn, HoldsRow DEF OneRowPerVmid
    <3> QED
      BY <3>Row, <3>LeaseIn, <3>LeaseInLeases, <3>Registry
  <2> QED
    BY <2>isVmid, <2>LeaseIn
<1> QED
  BY <1>LeaseIn DEF Registry!Release

\* Every step of the program is a step of the registry or leaves it alone.
LEMMA RegistryStep ==
  ASSUME PanelSerial, TypeOK, TableInv, [Next]_vars
  PROVE  [Registry!Next]_([v \in Vmid |-> LeaseIn(leases, v)])
<1> DEFINE map == [v \in Vmid |-> LeaseIn(leases, v)]
<1>1. OneRowPerVmid /\ OneRowPerVmid'
  BY TableStep DEF TableInv
<1>AssignDelete. ASSUME NEW w \in Worker, AssignDelete(w)
                 PROVE  Registry!Next
  BY <1>1, <1>AssignDelete, HandlerTypes, DeleteRemoves
  DEF AssignDelete, Write, Registry!Next
<1>AssignInsert. ASSUME NEW w \in Worker, AssignInsert(w)
                 PROVE  Registry!Next
  <2>1. \A r \in leases : r.vmid # api[w].vmid
    BY <1>AssignInsert DEF AssignInsert, TableInv, Alone
  <2> QED
    BY <1>1, <1>AssignInsert, <2>1, HandlerTypes, InsertAssigns
    DEF AssignInsert, Write, Registry!Next
<1>Remove. ASSUME NEW v \in Vmid, Remove(v)
           PROVE  Registry!Next
  BY <1>1, <1>Remove, DeleteRemoves DEF Remove, Write, Registry!Next
<1>Release. CASE Release
  BY <1>1, <1>Release, ReleaseTypes, UpdateReleases DEF Release, Registry!Next
<1>Unchanged. CASE UNCHANGED leases
  BY <1>Unchanged
<1> QED
  BY <1>AssignDelete, <1>AssignInsert, <1>Remove, <1>Release, <1>Unchanged
  DEF Next, PanelNext, ListenerNext, AssignStart, Identify, Abort, Offer, Nak, Accept,
      TakeRelease, TakeUp, RenewHit, RenewMiss, Refetch, Done, Restart, vars

\* With a serial panel the table implements the registry: one lease per VM, one
\* VM per MAC, changed only by assignments, removals and releases, whatever
\* tasks interleave and wherever the process stops.
THEOREM Refinement ==
  ASSUME PanelSerial
  PROVE  Spec => RegistrySpec
<1>init. Init => TypeOK /\ TableInv
  BY DEF Init, TypeOK, AssignType, ListenerType, TableInv, OneRowPerMac, OneRowPerVmid,
         Alone, Idle
<1>step. TypeOK /\ TableInv /\ [Next]_vars => (TypeOK /\ TableInv)'
  BY TypeStep, TableStep
<1>maps. Init => Registry!Init
  BY DEF Init, Registry!Init, LeaseIn
<1>refines. TypeOK /\ TableInv /\ [Next]_vars =>
              [Registry!Next]_([v \in Vmid |-> LeaseIn(leases, v)])
  BY RegistryStep
<1> QED
  BY <1>init, <1>step, <1>maps, <1>refines, PTL DEF Spec, RegistrySpec, Registry!Spec

\* A packet or a restart never creates, deletes or readdresses a lease.
THEOREM PacketsKeepBindings == Spec => OnlyPanelRebinds
<1>step. TypeOK /\ [Next]_vars => [Bindings' # Bindings => UNCHANGED listener]_vars
  <2> SUFFICES ASSUME TypeOK, [Next]_vars, listener' # listener \/ leases' # leases
               PROVE  Bindings' # Bindings => UNCHANGED listener
    BY DEF vars, Bindings
  <2>PanelNext. CASE PanelNext
    BY <2>PanelNext
    DEF PanelNext, AssignStart, Identify, AssignDelete, AssignInsert, Abort, Remove
  <2>Release. CASE Release
    <3> DEFINE m == listener.mac
               set(s) == [s EXCEPT !.state = IF s.mac = m THEN "released" ELSE @]
               key(r) == <<r.mac, r.vmid, r.ip>>
    <3>1. \A s \in leases : key(set(s)) = key(s)
      BY DEF TypeOK, Row
    <3>2. leases' = {set(s) : s \in leases}
      BY <2>Release DEF Release, Released
    <3> HIDE DEF set, key
    <3>3. {key(r) : r \in leases'} = {key(r) : r \in leases}
      BY <3>1, <3>2
    <3> QED
      BY <3>3 DEF Bindings, key
  <2>3. CASE leases' = leases
    BY <2>3 DEF Bindings
  <2> QED
    BY <2>PanelNext, <2>Release, <2>3
    DEF Next, ListenerNext, Offer, Nak, Accept, TakeRelease, TakeUp, RenewHit, RenewMiss,
        Refetch, Done, Restart, vars
<1>typed. Spec => []TypeOK
  BY TypeCorrect
<1> QED
  BY <1>step, <1>typed, PTL DEF Spec, OnlyPanelRebinds

-----------------------------------------------------------------------------
(* LeaseIdentity. *)

-----------------------------------------------------------------------------
(* Every step is one of DhcpLeases. *)

\* The MAC a lookup of the VM returns is one of its cards', and the first.
LEMMA MacOfVm ==
  ASSUME cards \in [Vmid -> Cards], NEW v \in Vmid, NEW m \in ExtractQemuMac(cards[v])
  PROVE  m \in Mac /\ IsMacOf(m, v)
<1>slots. cards[v] \in [Slots -> Mac \cup {None}]
  BY CardsAssumption
<1>first. PICK n \in WithMac(cards[v]) :
            m = cards[v][n] /\ \A l \in WithMac(cards[v]) : n <= l
  BY DEF ExtractQemuMac
<1>found. n \in Slots /\ cards[v][n] # None
  BY <1>first DEF WithMac
<1>before. ASSUME NEW k \in Slots, k < n
           PROVE  cards[v][k] = None
  <2>1. k \in Nat /\ n \in Nat
    BY <1>found, <1>before, CardsAssumption
  <2>2. k \notin WithMac(cards[v])
    BY <1>first, <1>before, <2>1
  <2> QED
    BY <2>2 DEF WithMac
<1> QED
  BY <1>slots, <1>first, <1>found, <1>before DEF IsMacOf

\* A step of the VMs, the panel, the clients or the cluster is a step of DhcpLeases
\* or leaves its variables alone.
LEMMA LeaseStep ==
  ASSUME TypeOK, cards \in [Vmid -> Cards], [IdentityNext]_identityVars
  PROVE  [Next]_vars
<1>IdentifiesVm. ASSUME NEW w \in Worker, IdentifiesVm(w)
                 PROVE  Next
  <2>1. api[w].vmid \in Vmid
    BY <1>IdentifiesVm, HandlerTypes DEF IdentifiesVm
  <2>2. PICK m \in ExtractQemuMac(cards[api[w].vmid]) : Identify(w, m)
    BY <1>IdentifiesVm DEF IdentifiesVm
  <2>3. m \in Mac
    BY <2>1, <2>2, MacOfVm
  <2> QED
    BY <2>2, <2>3 DEF Next, PanelNext
<1>HandlerNext. CASE HandlerNext
  BY <1>IdentifiesVm, <1>HandlerNext
  DEF HandlerNext, Begins, Deletes, Answers, GivesUp, Removes, Next, PanelNext
<1>ListenerNextOrRestart. CASE ListenerNext \/ \E c \in Configs : Restart(c)
  BY <1>ListenerNextOrRestart DEF Next
<1>Unchanged. CASE UNCHANGED vars
  BY <1>Unchanged
<1> QED
  BY <1>HandlerNext, <1>ListenerNextOrRestart, <1>Unchanged
  DEF IdentityNext, ChangeCards, ProcessEnds, identityVars

\* Each step keeps the types of the variables added to DhcpLeases.
LEMMA IdentityTypeStep ==
  ASSUME IdentityTypeOK, [IdentityNext]_identityVars
  PROVE  IdentityTypeOK'
<1> USE DEF IdentityTypeOK
<1>leases. TypeOK'
  BY LeaseStep, TypeStep
<1>cards. cards' \in [Vmid -> Cards]
  BY DEF IdentityNext, ChangeCards, ProcessEnds, identityVars
<1>answers. served' \subseteq Vmid /\ steady' \subseteq Vmid /\ told' \subseteq Vmid
  <2>Answers. ASSUME NEW w \in Worker, Answers(w)
              PROVE  /\ served' \subseteq Vmid /\ steady' \subseteq Vmid
                     /\ told' \subseteq Vmid
    BY <2>Answers, HandlerTypes DEF Answers, AssignInsert
  <2>HandlerNext. CASE HandlerNext
    BY <2>Answers, <2>HandlerNext
    DEF HandlerNext, Begins, IdentifiesVm, Deletes, GivesUp, Removes
  <2> QED
    BY <2>HandlerNext DEF IdentityNext, ChangeCards, ProcessEnds, identityVars
<1> QED
  BY <1>leases, <1>cards, <1>answers

\* The variables keep their types.
THEOREM IdentityTypeCorrect == IdentitySpec => []IdentityTypeOK
<1>init. IdentityInit => IdentityTypeOK
  BY DEF IdentityInit, IdentityTypeOK, Init, TypeOK, AssignType, ListenerType
<1>step. IdentityTypeOK /\ [IdentityNext]_identityVars => IdentityTypeOK'
  BY IdentityTypeStep
<1> QED
  BY <1>init, <1>step, PTL DEF IdentitySpec

\* What the VMs, the panel, the clients and the cluster do to the lease table is what
\* DhcpLeases allows, so that what is proved of it holds here.
THEOREM IdentityImplementsLeases == IdentitySpec => ImplementsLeases
<1>init. IdentityInit => Init
  BY DEF IdentityInit
<1>step. IdentityTypeOK /\ [IdentityNext]_identityVars => [Next]_vars
  BY LeaseStep DEF IdentityTypeOK
<1> QED
  BY <1>init, <1>step, IdentityTypeCorrect, PTL DEF IdentitySpec, Spec, ImplementsLeases

-----------------------------------------------------------------------------
(* An assignment that was answered holds. *)

\* A VM whose assignment was answered has none under way, and a handler that has the
\* MAC of a VM whose cards stayed has the first.
ServedInv ==
  /\ \A v \in served : \A w \in Worker : api[w].vmid # v
  /\ \A w \in Worker :
       api[w].pc \in {"delete", "insert"} /\ api[w].vmid \in steady
         => IsMacOf(api[w].mac, api[w].vmid)
  /\ ServedByItsMac

\* Only the cards say which MAC is the first.
LEMMA CardsDecide ==
  ASSUME IdentityTypeOK, NEW v \in Vmid, NEW m, cards'[v] = cards[v], IsMacOf(m, v)
  PROVE  IsMacOf(m, v)'
BY DEF IsMacOf

\* Whatever changes the cards of a VM ends its being steady.
LEMMA ChangeCardsKeeps ==
  ASSUME IdentityTypeOK, ServedInv, NEW v \in Vmid, NEW c \in Cards, ChangeCards(v, c)
  PROVE  ServedInv'
<1>changed. UNCHANGED <<leases, api, served>> /\ steady' = steady \ {v}
  BY DEF ChangeCards, vars
<1>steady. ASSUME NEW u \in steady', NEW m, IsMacOf(m, u)
           PROVE  IsMacOf(m, u)'
  <2>1. u \in Vmid /\ u # v
    BY <1>changed, <1>steady DEF IdentityTypeOK
  <2>2. cards'[u] = cards[u]
    BY <2>1 DEF ChangeCards, IdentityTypeOK
  <2> QED
    BY <1>steady, <2>1, <2>2, CardsDecide
<1>idle. \A u \in served', w \in Worker : api'[w].vmid # u
  BY <1>changed DEF ServedInv
<1>handlers.
    ASSUME NEW w \in Worker, api'[w].pc \in {"delete", "insert"}, api'[w].vmid \in steady'
    PROVE  IsMacOf(api[w].mac, api[w].vmid)'
  BY <1>changed, <1>steady, <1>handlers DEF ServedInv
<1>leases. ServedByItsMac'
  <2> SUFFICES ASSUME NEW u \in served', u \in steady'
               PROVE  \E r \in leases' : r.vmid = u /\ IsMacOf(r.mac, u)'
    BY DEF ServedByItsMac
  <2>1. PICK r \in leases : r.vmid = u /\ IsMacOf(r.mac, u)
    BY <1>changed DEF ServedInv, ServedByItsMac
  <2> QED
    BY <1>changed, <1>steady, <2>1
<1> QED
  BY <1>changed, <1>idle, <1>handlers, <1>leases DEF ServedInv

\* Each step keeps the invariant, if the panel assigns every VM serially.
LEMMA ServedStep ==
  ASSUME PanelSerial, IdentityTypeOK, TableInv, ServedInv, [IdentityNext]_identityVars
  PROVE  ServedInv'
<1> USE DEF IdentityTypeOK
<1>Begins.
    ASSUME NEW w \in Worker, NEW v \in Vmid, NEW i \in Ip, Begins(w, v, i), cards' = cards
    PROVE  ServedInv'
  <2> DEFINE r == [pc |-> "resolve", vmid |-> v, ip |-> i, mac |-> None]
  <2>newApi. /\ api' = [api EXCEPT ![w] = r] /\ leases' = leases
             /\ served' = served \ {v} /\ steady' = steady \cup {v}
             /\ \A u \in Worker : api[u].vmid # v
    BY <1>Begins DEF Begins, AssignStart, MayAssign
  <2>newApiApi. \A u \in Worker : api'[u] = IF u = w THEN r ELSE api[u]
    BY <2>newApi DEF TypeOK
  <2>newApiVmid. \A x \in served', u \in Worker : api'[u].vmid # x
    BY <2>newApi, <2>newApiApi DEF ServedInv
  <2>newApiPc. \A u \in Worker :
                 api'[u].pc \in {"delete", "insert"} /\ api'[u].vmid \in steady'
                   => IsMacOf(api'[u].mac, api'[u].vmid)
    BY <2>newApi, <2>newApiApi DEF ServedInv
  <2>ServedByItsMac. ServedByItsMac'
    BY <1>Begins, <2>newApi DEF ServedInv, ServedByItsMac, IsMacOf
  <2> QED
    BY <1>Begins, <2>newApiVmid, <2>newApiPc, <2>ServedByItsMac DEF ServedInv, IsMacOf
<1>IdentifiesVm. ASSUME NEW w \in Worker, IdentifiesVm(w), cards' = cards
                 PROVE  ServedInv'
  <2>api. api[w].pc = "resolve" /\ api[w].vmid \in Vmid
    BY <1>IdentifiesVm, HandlerTypes DEF IdentifiesVm
  <2>Identify. PICK m \in ExtractQemuMac(cards[api[w].vmid]) : Identify(w, m)
    BY <1>IdentifiesVm DEF IdentifiesVm
  <2>IsMacOf. IsMacOf(m, api[w].vmid)
    BY <2>api, <2>Identify, MacOfVm
  <2> DEFINE r == [pc |-> "delete", vmid |-> api[w].vmid, ip |-> api[w].ip, mac |-> m]
  <2>newApi. /\ api' = [api EXCEPT ![w] = r]
             /\ UNCHANGED <<leases, served, steady>>
    BY <1>IdentifiesVm, <2>Identify DEF Identify, IdentifiesVm
  <2>newApiApi. \A u \in Worker : api'[u] = IF u = w THEN r ELSE api[u]
    BY <2>newApi DEF TypeOK
  <2> HIDE DEF r
  <2>vmid. r.vmid = api[w].vmid /\ r.mac = m
    BY DEF r
  <2>newApiVmid. \A x \in served', u \in Worker : api'[u].vmid # x
    BY <2>newApi, <2>newApiApi, <2>vmid DEF ServedInv
  <2>newApiPc. \A u \in Worker :
                 api'[u].pc \in {"delete", "insert"} /\ api'[u].vmid \in steady'
                   => IsMacOf(api'[u].mac, api'[u].vmid)
    BY <2>IsMacOf, <2>newApi, <2>newApiApi, <2>vmid DEF ServedInv
  <2> QED
    BY <1>IdentifiesVm, <2>newApi, <2>newApiVmid, <2>newApiPc
    DEF ServedInv, ServedByItsMac, IsMacOf
<1>Deletes. ASSUME NEW w \in Worker, Deletes(w), cards' = cards
            PROVE  ServedInv'
  <2>api. /\ api[w].pc = "delete" /\ leases' = WithoutVmid(api[w].vmid)
          /\ api' = [api EXCEPT ![w].pc = "insert"]
          /\ UNCHANGED <<served, steady>>
    BY <1>Deletes DEF Deletes, AssignDelete, Write
  <2>newApi. \A u \in Worker : api'[u].vmid = api[u].vmid /\ api'[u].mac = api[u].mac
                             /\ (api'[u].pc = api[u].pc \/ u = w)
    BY <2>api DEF TypeOK, AssignType, Idle
  <2>apiVmid. \A v \in served : v # api[w].vmid
    BY DEF ServedInv
  <2>ServedByItsMac. ServedByItsMac'
    BY <1>Deletes, <2>api, <2>apiVmid DEF ServedInv, ServedByItsMac, WithoutVmid, IsMacOf
  <2> QED
    BY <1>Deletes, <2>api, <2>newApi, <2>ServedByItsMac DEF ServedInv, IsMacOf
<1>Answers. ASSUME NEW w \in Worker, Answers(w), cards' = cards
            PROVE  ServedInv'
  <2> DEFINE m == api[w].mac
             v == api[w].vmid
             i == api[w].ip
             new == [mac |-> m, vmid |-> v, ip |-> i, state |-> "active"]
  <2>api. /\ api[w].pc = "insert" /\ leases' = Upserted(m, v, i)
          /\ api' = [api EXCEPT ![w] = Idle]
          /\ served' = (served \ TakenFrom(m)) \cup {v} /\ steady' = steady
    BY <1>Answers DEF Answers, AssignInsert, Write
  <2>Mac. m \in Mac /\ v \in Vmid
    BY <2>api, HandlerTypes
  <2>newApi. \A u \in Worker : api'[u] = IF u = w THEN Idle ELSE api[u]
    BY <2>api DEF TypeOK
  <2>apiVmid. \A u \in Worker : u # w => api[u].vmid # v
    BY <2>Mac, NoneAssumption DEF TableInv, Alone
  <2>newApiVmid. \A x \in served', u \in Worker : api'[u].vmid # x
    BY <2>api, <2>Mac, <2>newApi, <2>apiVmid, NoneAssumption DEF ServedInv, Idle
  <2>newApiPc. \A u \in Worker :
                 api'[u].pc \in {"delete", "insert"} /\ api'[u].vmid \in steady'
                   => IsMacOf(api'[u].mac, api'[u].vmid)
    BY <2>api, <2>newApi DEF ServedInv, Idle
  <2>new. new \in leases' /\ new.vmid = v /\ new.mac = m
    BY <2>api DEF Upserted
  <2>steady. v \in steady => IsMacOf(m, v)
    BY <2>api DEF ServedInv
  <2>vmid. \A r \in leases : r.vmid \notin TakenFrom(m) => r \in leases'
    BY <2>api DEF Upserted, TakenFrom, Select, SelectFrom
  <2>vmidIsMacOf. ASSUME NEW u \in served', u \in steady'
                  PROVE  \E r \in leases' : r.vmid = u /\ IsMacOf(r.mac, u)
    <3>same. CASE u = v
      BY <2>api, <2>new, <2>steady, <2>vmidIsMacOf, <3>same
    <3>other. CASE u # v
      <4>1. u \in served \cap steady /\ u \notin TakenFrom(m)
        BY <2>api, <2>vmidIsMacOf, <3>other
      <4> QED
        BY <4>1, <2>vmid DEF ServedInv, ServedByItsMac
    <3> QED
      BY <3>same, <3>other
  <2> QED
    BY <1>Answers, <2>newApiVmid, <2>newApiPc, <2>vmidIsMacOf
    DEF ServedInv, ServedByItsMac, IsMacOf
<1>GivesUp. ASSUME NEW w \in Worker, GivesUp(w), cards' = cards
            PROVE  ServedInv'
  <2>1. /\ api' = [api EXCEPT ![w] = Idle]
        /\ UNCHANGED <<leases, served, steady>>
    BY <1>GivesUp DEF GivesUp, Abort
  <2>2. \A u \in Worker : api'[u] = IF u = w THEN Idle ELSE api[u]
    BY <2>1 DEF TypeOK
  <2> QED
    BY <1>GivesUp, <2>1, <2>2, NoneAssumption DEF ServedInv, ServedByItsMac, IsMacOf, Idle
<1>Removes. ASSUME NEW v \in Vmid, Removes(v), cards' = cards
            PROVE  ServedInv'
  <2>1. /\ leases' = WithoutVmid(v) /\ served' = served \ {v}
        /\ UNCHANGED <<api, steady>>
    BY <1>Removes DEF Removes, Remove, Write
  <2> QED
    BY <1>Removes, <2>1 DEF ServedInv, ServedByItsMac, IsMacOf, WithoutVmid
<1>ListenerNext. ASSUME ListenerNext, UNCHANGED <<served, steady, cards>>
                 PROVE  ServedInv'
  <2>1. UNCHANGED api
    BY <1>ListenerNext
    DEF ListenerNext, Offer, Nak, Accept, TakeUp, TakeRelease, RenewHit, RenewMiss,
        Refetch, Release, Done
  <2>Release. CASE Release
    <3> DEFINE m == listener.mac
               set(s) == [s EXCEPT !.state = IF s.mac = m THEN "released" ELSE @]
    <3>1. \A s \in leases : set(s).vmid = s.vmid /\ set(s).mac = s.mac
      BY DEF TypeOK, Row
    <3>2. leases' = {set(s) : s \in leases}
      BY <2>Release DEF Release, Released
    <3> HIDE DEF set
    <3>3. ServedByItsMac'
      BY <1>ListenerNext, <3>1, <3>2 DEF ServedInv, ServedByItsMac, IsMacOf
    <3> QED
      BY <1>ListenerNext, <2>1, <3>3 DEF ServedInv, IsMacOf
  <2>Unchanged. CASE UNCHANGED leases
    BY <1>ListenerNext, <2>1, <2>Unchanged DEF ServedInv, ServedByItsMac, IsMacOf
  <2> QED
    BY <1>ListenerNext, <2>Release, <2>Unchanged
    DEF ListenerNext, Offer, Nak, Accept, TakeUp, TakeRelease, RenewHit, RenewMiss,
        Refetch, Done
<1>Restart. ASSUME NEW c \in Configs, Restart(c), UNCHANGED <<served, steady, cards>>
            PROVE  ServedInv'
  <2>1. UNCHANGED leases /\ \A w \in Worker : api'[w] = Idle
    BY <1>Restart DEF Restart
  <2> QED
    BY <1>Restart, <2>1, NoneAssumption DEF ServedInv, ServedByItsMac, IsMacOf, Idle
<1>9. CASE HandlerNext /\ cards' = cards
  BY <1>Begins, <1>IdentifiesVm, <1>Deletes, <1>Answers, <1>GivesUp, <1>Removes, <1>9
  DEF HandlerNext
<1>Unchanged. CASE UNCHANGED <<vars, cards, served, steady>>
  BY <1>Unchanged DEF ServedInv, ServedByItsMac, IsMacOf, vars
<1> QED
  BY <1>ListenerNext, <1>Restart, <1>9, <1>Unchanged, ChangeCardsKeeps
  DEF IdentityNext, ProcessEnds, identityVars

\* Types, table and invariant hold together.
LEMMA ServedInvariant ==
  ASSUME PanelSerial
  PROVE  IdentitySpec => [](IdentityTypeOK /\ TableInv /\ ServedInv)
<1>init. IdentityInit => IdentityTypeOK /\ TableInv /\ ServedInv
  BY NoneAssumption
  DEF IdentityInit, IdentityTypeOK, Init, TypeOK, AssignType, ListenerType, TableInv,
      OneRowPerMac, OneRowPerVmid, Alone, ServedInv, ServedByItsMac, Idle
<1>step. IdentityTypeOK /\ TableInv /\ ServedInv /\ [IdentityNext]_identityVars
           => (IdentityTypeOK /\ TableInv /\ ServedInv)'
  <2> SUFFICES ASSUME IdentityTypeOK, TableInv, ServedInv, [IdentityNext]_identityVars
               PROVE  IdentityTypeOK' /\ TableInv' /\ ServedInv'
    OBVIOUS
  <2>1. [Next]_vars
    BY LeaseStep DEF IdentityTypeOK
  <2> QED
    BY <2>1, IdentityTypeStep, TableStep, ServedStep DEF IdentityTypeOK
<1> QED
  BY <1>init, <1>step, PTL DEF IdentitySpec

\* A panel that assigns each VM serially and is answered 200 has given the VM a lease,
\* and as long as the VM's cards stay it is that of its first MAC, whatever other VMs,
\* clients and restarts do.
THEOREM AnsweredHolds ==
  ASSUME PanelSerial
  PROVE  IdentitySpec => []ServedByItsMac
<1>implies. ServedInv => ServedByItsMac
  BY DEF ServedInv
<1> QED
  BY <1>implies, ServedInvariant, PTL

-----------------------------------------------------------------------------
(* The lease the panel was told of stands. *)

Replacing(v) == \E w \in Worker : api[w].vmid = v /\ api[w].pc = "insert"

\* Each step keeps it, also if assignments of one VM overlap.
LEMMA StandsStep ==
  ASSUME IdentityTypeOK, LeaseStands, [IdentityNext]_identityVars
  PROVE  LeaseStands'
<1> SUFFICES ASSUME NEW v \in told', ~HasLease(v)'
             PROVE  Replacing(v)'
  BY DEF LeaseStands, Replacing
<1> USE DEF HasLease, Replacing
<1>before. ASSUME v \in told
           PROVE  HasLease(v) \/ Replacing(v)
  BY <1>before DEF LeaseStands
<1>api. api \in [Worker -> AssignType]
  BY DEF IdentityTypeOK, TypeOK
<1>Begins. ASSUME NEW w \in Worker, NEW u \in Vmid, NEW i \in Ip, Begins(w, u, i)
           PROVE  Replacing(v)'
  BY <1>api, <1>before, <1>Begins DEF Begins, AssignStart
<1>IdentifiesVm. ASSUME NEW w \in Worker, IdentifiesVm(w)
                 PROVE  Replacing(v)'
  BY <1>api, <1>before, <1>IdentifiesVm DEF IdentifiesVm, Identify
<1>Deletes. ASSUME NEW w \in Worker, Deletes(w)
            PROVE  Replacing(v)'
  BY <1>api, <1>before, <1>Deletes DEF Deletes, AssignDelete, Write, WithoutVmid
<1>Answers. ASSUME NEW w \in Worker, Answers(w)
            PROVE  Replacing(v)'
  <2>table. /\ leases' = Upserted(api[w].mac, api[w].vmid, api[w].ip)
            /\ api' = [api EXCEPT ![w] = Idle]
            /\ told' = (told \ TakenFrom(api[w].mac)) \cup {api[w].vmid}
    BY <1>Answers DEF Answers, AssignInsert, Write
  <2>inserted. \E r \in leases' : r.vmid = api[w].vmid
    <3> DEFINE r == [mac |-> api[w].mac, vmid |-> api[w].vmid, ip |-> api[w].ip,
                     state |-> "active"]
    <3>1. r \in leases' /\ r.vmid = api[w].vmid
      BY <2>table DEF Upserted
    <3> QED
      BY <3>1
  <2>other. v # api[w].vmid /\ v \in told /\ v \notin TakenFrom(api[w].mac)
    BY <2>table, <2>inserted
  <2>kept. ~HasLease(v)
    BY <2>table, <2>other DEF Upserted, TakenFrom, Select, SelectFrom
  <2>replacing. PICK u \in Worker : api[u].vmid = v /\ api[u].pc = "insert"
    BY <1>before, <2>other, <2>kept
  <2> QED
    BY <1>api, <2>table, <2>other, <2>replacing
<1>GivesUp. ASSUME NEW w \in Worker, GivesUp(w)
            PROVE  Replacing(v)'
  BY <1>api, <1>before, <1>GivesUp DEF GivesUp, Abort, Between
<1>Removes. ASSUME NEW u \in Vmid, Removes(u)
            PROVE  Replacing(v)'
  BY <1>before, <1>Removes DEF Removes, Remove, Write, WithoutVmid
<1>ProcessEnds. ASSUME NEW c \in Configs, ProcessEnds(c)
                PROVE  Replacing(v)'
  BY <1>before, <1>ProcessEnds DEF ProcessEnds, Restart, Between
<1>Release. CASE Release /\ UNCHANGED told
  <2>1. ASSUME NEW r \in leases
        PROVE  \E s \in leases' : s.vmid = r.vmid
    <3>row. r \in Row
      BY DEF IdentityTypeOK, TypeOK
    <3> DEFINE s == [r EXCEPT !.state = IF r.mac = listener.mac THEN "released" ELSE @]
    <3>1. s \in leases'
      BY <1>Release DEF Release, Released
    <3>2. s.vmid = r.vmid
      BY <3>row DEF Row
    <3> HIDE DEF s
    <3> QED
      BY <3>1, <3>2
  <2>replacing. Replacing(v)
    BY <1>before, <1>Release, <2>1
  <2> QED
    BY <1>Release, <2>replacing DEF Release
<1>Unchanged. CASE UNCHANGED <<leases, api, told>>
  BY <1>before, <1>Unchanged
<1>HandlerNext. CASE HandlerNext
  BY <1>Begins, <1>IdentifiesVm, <1>Deletes, <1>Answers, <1>GivesUp, <1>Removes,
     <1>HandlerNext
  DEF HandlerNext
<1>ListenerNext. CASE ListenerNext /\ UNCHANGED told
  BY <1>Release, <1>Unchanged, <1>ListenerNext
  DEF ListenerNext, Offer, Nak, Accept, TakeUp, TakeRelease, RenewHit, RenewMiss, Refetch,
      Done
<1> QED
  BY <1>HandlerNext, <1>ListenerNext, <1>ProcessEnds, <1>Unchanged
  DEF IdentityNext, ChangeCards, identityVars, vars

\* A VM the panel was told has a lease keeps it, through assignments that fail before
\* their first statement and whatever is done to other VMs, however assignments
\* overlap; only a handler that ends between its two statements loses it.
THEOREM TheLeaseStands == IdentitySpec => []LeaseStands
<1>init. IdentityInit => LeaseStands
  BY DEF IdentityInit, LeaseStands
<1> QED
  BY <1>init, StandsStep, IdentityTypeCorrect, PTL DEF IdentitySpec
=============================================================================
