------------------------------ MODULE VmLeases ------------------------------
(***************************************************************************)
(* What the lease table promises the panel, without SQL, requests or       *)
(* packets: every VM has at most one lease, every MAC address at most one  *)
(* VM.  Assigning replaces the VM's lease and takes the MAC away from      *)
(* whichever VM had it; a RELEASE marks the lease of a MAC as released.    *)
(* DhcpLeases implements this specification.                               *)
(***************************************************************************)
CONSTANTS Mac, Vmid, Ip,
          None      \* the VM has no lease

VARIABLE lease      \* the lease of every VM

Lease == [mac : Mac, ip : Ip, state : {"active", "released"}]

Holds(v, m) == lease[v] # None /\ lease[v].mac = m

Init == lease = [v \in Vmid |-> None]

Assign(v, m, i) ==
  lease' = [u \in Vmid |->
              IF u = v THEN [mac |-> m, ip |-> i, state |-> "active"]
              ELSE IF Holds(u, m) THEN None ELSE lease[u]]

Remove(v) == lease' = [lease EXCEPT ![v] = None]

Release(m) ==
  lease' = [v \in Vmid |->
              IF Holds(v, m) THEN [lease[v] EXCEPT !.state = "released"]
              ELSE lease[v]]

Next ==
  \/ \E v \in Vmid, m \in Mac, i \in Ip : Assign(v, m, i)
  \/ \E v \in Vmid : Remove(v)
  \/ \E m \in Mac : Release(m)

Spec == Init /\ [][Next]_lease
=============================================================================
