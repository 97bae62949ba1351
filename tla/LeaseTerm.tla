------------------------------ MODULE LeaseTerm ------------------------------
(***************************************************************************)
(* The times of one lease (src/src/dhcp.rs): the lease_start and lease_end *)
(* of its row, as assign_static_lease, renew_lease_by_mac and              *)
(* release_lease_by_mac write them, and the lease time and timers T1 and   *)
(* T2 that build_dhcp_response puts into the answers.                      *)
(*                                                                         *)
(* The clock moves between any two awaits of a packet, and the process may *)
(* be started again with another configured lease time: PUT config checks  *)
(* nothing, so any u64 may be configured.  Times are seconds in an i64,    *)
(* the lease times of requests and configuration a u64, those of an answer *)
(* a u32; the widths and the three fallbacks of the code are constants, so *)
(* that a small instance meets every boundary.                             *)
(***************************************************************************)
EXTENDS Integers

CONSTANTS
  I64Max,      \* the largest i64
  U32Max,      \* the largest u32
  Floor,       \* the shortest lease time answered: 60
  Hour,        \* the lease time answered for one too long for a u32: 3600
  Day,         \* what a u64 too large for an i64 is taken for: 86400
  ConfigTimes, \* what dhcp.lease_time_secs may be set to
  Requested,   \* the lease_time_secs the panel may ask for
  MaxNow,      \* bound: the clock of the model stops there
  HandLimit    \* bound: the longest a packet is in hand

ASSUME WidthsAssumption ==
  /\ {I64Max, U32Max, Floor, Hour, Day} \subseteq Nat
  /\ Floor <= Hour /\ Hour <= U32Max /\ Day <= I64Max

ASSUME TimesAssumption ==
  /\ ConfigTimes \subseteq Nat /\ Requested \subseteq Nat
  /\ MaxNow \in Nat /\ MaxNow <= I64Max
  /\ HandLimit \in Nat /\ HandLimit < Floor

VARIABLES
  now,        \* the clock
  configured, \* the dhcp.lease_time_secs this process was started with
  row,        \* the row of the lease
  packet,     \* the DISCOVER or REQUEST in hand
  answer,     \* the last answer sent
  promise     \* history: what the last ACK promised of the lease, and whether a
              \* renewal of it is due to be answered

vars == <<now, configured, row, packet, answer, promise>>

-----------------------------------------------------------------------------
(* Arithmetic. *)

ToI64(secs) == IF secs <= I64Max THEN secs ELSE Day

\* Mutant: the sum is not stored in an i64.
AddUnbounded(a, b) == a + b

\* i64 addition of two values that are not negative; a release build wraps.
AddI64(a, b) == IF a + b <= I64Max THEN a + b ELSE a + b - 2 * (I64Max + 1)

EndAfter(secs) == AddI64(now, ToI64(secs))

\* Mutant: no floor under the lease time.
NoFloor(secs) == secs

AtLeastFloor(secs) == IF secs < Floor THEN Floor ELSE secs

ToU32(secs) == IF secs <= U32Max THEN secs ELSE Hour

\* The lease time answered for a row that ends at end.
Remaining(end) == IF end > now THEN end - now ELSE ToI64(configured)
Term(end) == ToU32(AtLeastFloor(Remaining(end)))

SaturatingMul7(secs) == IF 7 * secs <= U32Max THEN 7 * secs ELSE U32Max

T1(term) == term \div 2
T2(term) == SaturatingMul7(term) \div 8

-----------------------------------------------------------------------------
(* The row. *)

NoRow == [state |-> "none", start |-> 0, end |-> 0]
\* until: the end of the lease the last ACK promised, at: when it was sent, under: the
\* lease time configured then; renewed: the one configured at the last renewal.
NoPromise == [due |-> FALSE, at |-> 0, until |-> 0, under |-> 0, renewed |-> 0]

Assign(secs) ==
  /\ row' = [state |-> "active", start |-> now, end |-> EndAfter(secs)]
  /\ promise' = NoPromise
  /\ UNCHANGED <<now, configured, packet, answer>>

Remove ==
  /\ row' = NoRow
  /\ promise' = NoPromise
  /\ UNCHANGED <<now, configured, packet, answer>>

\* A RELEASE waits until the listener is done with the packet in hand.
Release ==
  /\ packet.pc = "recv"
  /\ row.state # "none"
  /\ row' = [row EXCEPT !.state = "released", !.end = now]
  /\ promise' = NoPromise
  /\ UNCHANGED <<now, configured, packet, answer>>

-----------------------------------------------------------------------------
(* A DISCOVER or REQUEST that is not refused, from its lookup to its answer. *)

Waiting == [pc |-> "recv", kind |-> "none", end |-> 0, spent |-> 0]

Lookup(pc, kind) ==
  /\ packet.pc = "recv"
  /\ row.state = "active"
  /\ packet' = [pc |-> pc, kind |-> kind, end |-> row.end, spent |-> 0]
  /\ UNCHANGED <<now, configured, row, answer, promise>>

Discover == Lookup("reply", "OFFER")

Request == Lookup("renew", "ACK")

\* The end of a renewed lease is counted from now, whatever it was.
RenewedEnd == EndAfter(configured)

RenewHit ==
  /\ packet.pc = "renew"
  /\ row.state = "active"
  /\ row' = [row EXCEPT !.start = now, !.end = RenewedEnd]
  /\ packet' = [packet EXCEPT !.pc = "refetch"]
  /\ promise' = [promise EXCEPT !.due = TRUE, !.renewed = configured]
  /\ UNCHANGED <<now, configured, answer>>

RenewMiss ==
  /\ packet.pc = "renew"
  /\ row.state # "active"
  /\ packet' = [packet EXCEPT !.pc = "reply"]
  /\ UNCHANGED <<now, configured, row, answer, promise>>

\* Mutant: the answer is built from the row before its renewal.
RefetchedStale == packet.end

\* The second SELECT; a row that is gone leaves the first one's end.
RefetchedEnd == IF row.state = "none" THEN packet.end ELSE row.end

Refetch ==
  /\ packet.pc = "refetch"
  /\ packet' = [packet EXCEPT !.pc = "reply", !.end = RefetchedEnd]
  /\ UNCHANGED <<now, configured, row, answer, promise>>

\* build_dhcp_response reads the clock again.
Reply ==
  /\ packet.pc = "reply"
  /\ LET term == Term(packet.end)
     IN  /\ answer' = [kind |-> packet.kind, term |-> term,
                       t1 |-> T1(term), t2 |-> T2(term)]
         /\ promise' = IF promise.due
                       THEN [due |-> FALSE, at |-> now, until |-> now + term,
                             under |-> configured, renewed |-> promise.renewed]
                       ELSE promise
  /\ packet' = Waiting
  /\ UNCHANGED <<now, configured, row>>

Dropped ==
  /\ packet' = Waiting
  /\ promise' = [promise EXCEPT !.due = FALSE]
  /\ UNCHANGED <<now, row, answer>>

\* An error drops the packet.
Drop == packet.pc # "recv" /\ Dropped /\ UNCHANGED configured

\* The process ends, at any moment, and is started with what is configured then.
Restart(secs) == configured' = secs /\ Dropped

Tick ==
  /\ now < MaxNow
  /\ packet.pc # "recv" => packet.spent < HandLimit
  /\ now' = now + 1
  /\ packet' = IF packet.pc = "recv" THEN packet
               ELSE [packet EXCEPT !.spent = @ + 1]
  /\ UNCHANGED <<configured, row, answer, promise>>

Init ==
  /\ now = 0
  /\ configured \in ConfigTimes
  /\ row = NoRow
  /\ packet = Waiting
  /\ answer = [kind |-> "none", term |-> 0, t1 |-> 0, t2 |-> 0]
  /\ promise = NoPromise

Next ==
  \/ \E secs \in Requested \cup {configured} : Assign(secs)
  \/ Remove \/ Release
  \/ Discover \/ Request \/ RenewHit \/ RenewMiss \/ Refetch \/ Reply \/ Drop
  \/ \E secs \in ConfigTimes : Restart(secs)
  \/ Tick

Spec == Init /\ [][Next]_vars

-----------------------------------------------------------------------------
(* Correctness. *)

I64 == -(I64Max + 1) .. I64Max

PacketType == [pc : {"recv", "renew", "refetch", "reply"},
               kind : {"none", "OFFER", "ACK"}, end : I64, spent : 0 .. HandLimit]

AnswerType == [kind : {"none", "OFFER", "ACK"}, term : Nat, t1 : Nat, t2 : Nat]

\* Every time in the row and in the packet fits an i64, wrapped or not.
TypeOK ==
  /\ now \in 0 .. MaxNow
  /\ configured \in ConfigTimes
  /\ row \in [state : {"none", "active", "released"}, start : I64, end : I64]
  /\ packet \in PacketType
  /\ answer \in AnswerType
  /\ promise \in [due : BOOLEAN, at : 0 .. MaxNow, until : Nat, under : Nat, renewed : Nat]

\* Whatever lease time the panel asked for (even one that overflows lease_end) and
\* however late the answer, the lease time answered is a u32 of at least the floor
\* and the timers are ordered T1 <= T2 <= lease time, as long as the multiplication
\* for T2 does not saturate.
TermInRange ==
  answer.kind # "none" =>
    /\ answer.term \in Floor .. U32Max
    /\ 7 * answer.term <= U32Max =>
         answer.t1 <= answer.t2 /\ answer.t2 <= answer.term

Overflowed == row.end < row.start

\* A client that was sent an ACK, and whose lease nobody has assigned, removed or
\* released since, finds its row to last as long as it was promised, through every
\* later renewal, error and restart.  The exceptions are three: the floor may promise
\* more; a renewal by a process that is configured with a shorter lease time than the
\* one that promised may cut the row; and a configured lease time that overflows an
\* i64 leaves a row that has ended.
PromiseCovered ==
  \/ promise.until <= row.end
  \/ promise.until <= promise.at + Floor
  \/ ToI64(promise.renewed) < ToI64(promise.under)
  \/ Overflowed
=============================================================================
