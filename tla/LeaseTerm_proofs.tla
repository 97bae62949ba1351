--------------------------- MODULE LeaseTerm_proofs ---------------------------
(***************************************************************************)
(* Proofs about LeaseTerm, for every integer width, every lease time the   *)
(* configuration and the requests may name, and every clock.               *)
(***************************************************************************)
EXTENDS LeaseTerm, TLAPS

USE WidthsAssumption, TimesAssumption

-----------------------------------------------------------------------------
(* Arithmetic. *)

\* A lease time becomes an i64 that is not negative.
LEMMA ToI64Type ==
  ASSUME NEW secs \in Nat
  PROVE  ToI64(secs) \in 0 .. I64Max
BY DEF ToI64

\* Sums of such values wrap into the i64 range.
LEMMA EndAfterType ==
  ASSUME now \in 0 .. MaxNow, NEW secs \in Nat
  PROVE  EndAfter(secs) \in I64
BY ToI64Type DEF EndAfter, AddI64, I64

\* The end of a lease is its lease time from now, or the sum has wrapped.
LEMMA EndAfterValue ==
  ASSUME now \in 0 .. MaxNow, NEW secs \in Nat
  PROVE  EndAfter(secs) = now + ToI64(secs) \/ EndAfter(secs) < now
BY ToI64Type DEF EndAfter, AddI64

\* Whatever the row's end, the lease time answered is a u32 of at least the floor.
LEMMA TermBounds ==
  ASSUME now \in 0 .. MaxNow, configured \in Nat, NEW end \in I64
  PROVE  Term(end) \in Floor .. U32Max
BY ToI64Type DEF Term, ToU32, AtLeastFloor, Remaining, I64

\* A lease time is not longer than what is left of the row, or it is the floor.
LEMMA TermWithinRow ==
  ASSUME now \in 0 .. MaxNow, NEW end \in I64, end > now
  PROVE  Term(end) = Floor \/ now + Term(end) <= end
BY DEF Term, ToU32, AtLeastFloor, Remaining, I64

\* A row that has ended is answered with the configured lease time, or the floor.
LEMMA TermOfEndedRow ==
  ASSUME now \in 0 .. MaxNow, configured \in Nat, NEW end \in I64, end <= now
  PROVE  Term(end) <= Floor \/ Term(end) <= ToI64(configured)
BY ToI64Type DEF Term, ToU32, AtLeastFloor, Remaining, I64

\* T1 <= T2 <= lease time, unless the multiplication for T2 saturates.
LEMMA TimersOrdered ==
  ASSUME NEW term \in Nat, 7 * term <= U32Max
  PROVE  T1(term) <= T2(term) /\ T2(term) <= term
BY DEF T1, T2, SaturatingMul7

\* The timers are natural numbers.
LEMMA TimerTypes ==
  ASSUME NEW term \in Nat
  PROVE  T1(term) \in Nat /\ T2(term) \in Nat
<1>1. SaturatingMul7(term) \in Nat
  BY DEF SaturatingMul7
<1>2. \A n \in Nat : n \div 2 \in Nat /\ n \div 8 \in Nat
  OBVIOUS
<1> QED
  BY <1>1, <1>2 DEF T1, T2

-----------------------------------------------------------------------------
(* Types and answers. *)

PromiseType == [due : BOOLEAN, at : 0 .. MaxNow, until : Nat, under : Nat, renewed : Nat]

Inv == TypeOK /\ TermInRange

\* A dropped packet leaves everything but itself as it was.
LEMMA DroppedTypes ==
  ASSUME Inv, Dropped, configured' \in ConfigTimes
  PROVE  Inv'
<1>1. promise' \in PromiseType
  BY DEF Inv, TypeOK, PromiseType, Dropped
<1> QED
  BY <1>1 DEF Inv, TypeOK, PromiseType, Dropped, Waiting, PacketType, TermInRange, I64

\* Every step keeps the types and the bounds of the last answer.
LEMMA InvStep ==
  ASSUME Inv, [Next]_vars
  PROVE  Inv'
<1> USE DEF Inv, TypeOK, PromiseType
<1>0. now \in I64
  BY DEF I64
<1>Assign. ASSUME NEW secs \in Requested \cup {configured}, Assign(secs)
           PROVE  Inv'
  BY <1>Assign, EndAfterType DEF Assign, NoPromise, TermInRange, I64
<1>Remove. CASE Remove
  BY <1>Remove DEF Remove, NoRow, NoPromise, TermInRange, I64
<1>Release. CASE Release
  <2>1. row' \in [state : {"none", "active", "released"}, start : I64, end : I64]
    BY <1>0, <1>Release DEF Release
  <2> QED
    BY <1>Release, <2>1 DEF Release, NoPromise, TermInRange
<1>DiscoverOrRequest. CASE Discover \/ Request
  BY <1>DiscoverOrRequest DEF Discover, Request, Lookup, PacketType, TermInRange
<1>RenewHit. CASE RenewHit
  <2>1. RenewedEnd \in I64
    BY EndAfterType DEF RenewedEnd
  <2>2. row' \in [state : {"none", "active", "released"}, start : I64, end : I64]
    BY <1>0, <1>RenewHit, <2>1 DEF RenewHit
  <2>3. promise' \in PromiseType
    BY <1>RenewHit DEF RenewHit
  <2> QED
    BY <1>RenewHit, <2>2, <2>3 DEF RenewHit, PacketType, TermInRange
<1>RenewMiss. CASE RenewMiss
  BY <1>RenewMiss DEF RenewMiss, PacketType, TermInRange
<1>Refetch. CASE Refetch
  BY <1>Refetch DEF Refetch, RefetchedEnd, PacketType, TermInRange
<1>Reply. CASE Reply
  <2> DEFINE term == Term(packet.end)
  <2>term. term \in Floor .. U32Max /\ term \in Nat
    BY TermBounds DEF PacketType
  <2>T1. T1(term) \in Nat /\ T2(term) \in Nat
    BY <2>term, TimerTypes
  <2>termU32Max. 7 * term <= U32Max => T1(term) <= T2(term) /\ T2(term) <= term
    BY <2>term, TimersOrdered
  <2>newAnswer.
      answer' = [kind |-> packet.kind, term |-> term, t1 |-> T1(term), t2 |-> T2(term)]
    BY <1>Reply DEF Reply
  <2> HIDE DEF term
  <2>newAnswerAnswerType. answer' \in AnswerType /\ TermInRange'
    BY <2>term, <2>T1, <2>termU32Max, <2>newAnswer DEF AnswerType, PacketType, TermInRange
  <2>newPromise. promise' \in PromiseType
    BY <1>Reply, <2>term DEF Reply, term
  <2> QED
    BY <1>Reply, <2>newAnswerAnswerType, <2>newPromise DEF Reply, Waiting, PacketType, I64
<1>Drop. CASE Drop
  BY <1>Drop, DroppedTypes DEF Drop
<1>Restart. ASSUME NEW secs \in ConfigTimes, Restart(secs)
            PROVE  Inv'
  BY <1>Restart, DroppedTypes DEF Restart
<1>Tick. CASE Tick
  BY <1>Tick DEF Tick, PacketType, TermInRange
<1>Unchanged. CASE UNCHANGED vars
  BY <1>Unchanged DEF vars, TermInRange
<1> QED
  BY <1>Assign, <1>Remove, <1>Release, <1>DiscoverOrRequest, <1>RenewHit, <1>RenewMiss,
     <1>Refetch, <1>Reply, <1>Drop, <1>Restart, <1>Tick, <1>Unchanged
  DEF Next

\* The initial state has the types.
LEMMA InvInit == Init => Inv
BY DEF Init, Inv, TypeOK, TermInRange, NoRow, NoPromise, Waiting, PacketType, AnswerType,
       I64

\* Every time that is stored fits an i64, whatever lease time the panel asks for.
THEOREM TypeCorrect == Spec => []TypeOK
<1>1. Inv => TypeOK
  BY DEF Inv
<1> QED
  BY <1>1, InvInit, InvStep, PTL DEF Spec

\* Every answer's lease time is a u32 of at least the floor, with T1 <= T2 <= lease
\* time as long as T2 does not saturate, for every lease time requested.
THEOREM AnswerInRange == Spec => []TermInRange
<1>1. Inv => TermInRange
  BY DEF Inv
<1> QED
  BY <1>1, InvInit, InvStep, PTL DEF Spec

-----------------------------------------------------------------------------
(* Promises. *)

\* No promise is longer than the lease time it was made under, or the floor; a renewal
\* that is due to be answered is of the row as it is, whose end is the configured lease
\* time after the renewal unless that has wrapped.
PromiseInv ==
  /\ PromiseCovered
  /\ promise.at <= now
  /\ \/ promise.until <= promise.at + ToI64(promise.under)
     \/ promise.until <= promise.at + Floor
  /\ promise.due =>
       /\ packet.pc \in {"refetch", "reply"}
       /\ packet.pc = "reply" => packet.end = row.end
       /\ row.state = "active"
       /\ promise.renewed = configured
       /\ row.start <= now /\ now <= row.start + packet.spent
       /\ row.end = row.start + ToI64(configured) \/ Overflowed

\* Every step keeps the promises covered.
LEMMA PromiseStep ==
  ASSUME Inv, PromiseInv, [Next]_vars
  PROVE  PromiseInv'
<1> USE ToI64Type DEF Inv, TypeOK, PromiseInv, PromiseCovered, Overflowed
<1>Assign. ASSUME NEW secs \in Requested \cup {configured}, Assign(secs)
           PROVE  PromiseInv'
  BY <1>Assign DEF Assign, NoPromise
<1>Remove. CASE Remove
  BY <1>Remove DEF Remove, NoPromise
<1>Release. CASE Release
  BY <1>Release DEF Release, NoPromise
<1>DiscoverOrRequest. CASE Discover \/ Request
  BY <1>DiscoverOrRequest DEF Discover, Request, Lookup
<1>RenewHit. CASE RenewHit
  <2> DEFINE end == RenewedEnd
  <2>end. (end = now + ToI64(configured) \/ end < now) /\ end \in I64
    BY EndAfterValue, EndAfterType DEF RenewedEnd
  <2>row. row' = [row EXCEPT !.start = now, !.end = end] /\ row.state = "active"
    BY <1>RenewHit DEF RenewHit
  <2>promise. /\ promise' = [promise EXCEPT !.due = TRUE, !.renewed = configured]
              /\ packet' = [packet EXCEPT !.pc = "refetch"] /\ packet.spent \in Nat
              /\ now' = now /\ configured' = configured
    BY <1>RenewHit DEF RenewHit, PacketType
  <2> HIDE DEF end
  <2>covered. PromiseCovered'
    BY <2>end, <2>row, <2>promise DEF ToI64, I64
  <2> QED
    BY <2>end, <2>row, <2>promise, <2>covered DEF PacketType, ToI64
<1>RenewMiss. CASE RenewMiss
  BY <1>RenewMiss DEF RenewMiss
<1>Refetch. CASE Refetch
  BY <1>Refetch DEF Refetch, RefetchedEnd, PacketType
<1>Reply. CASE Reply
  <2> DEFINE term == Term(packet.end)
  <2>isNotPromise. CASE ~promise.due
    BY <1>Reply, <2>isNotPromise DEF Reply, Waiting
  <2>isPromise. CASE promise.due
    <3>packet. packet.end = row.end /\ row.end \in I64 /\ packet.spent < Floor
      BY <1>Reply, <2>isPromise DEF Reply, PacketType
    <3>newPromise.
        /\ promise' = [due |-> FALSE, at |-> now, until |-> now + term,
                       under |-> configured, renewed |-> configured]
        /\ row' = row /\ now' = now
      BY <1>Reply, <2>isPromise DEF Reply
    <3>natural. term \in Nat
      BY <3>packet, TermBounds DEF I64
    <3>isRow. CASE row.end > now
      <4>term. term = Floor \/ now + term <= row.end
        BY <3>packet, <3>isRow, TermWithinRow
      <4> HIDE DEF term
      <4> QED
        BY <2>isPromise, <3>packet, <3>newPromise, <3>natural, <4>term DEF I64
    <3>isEnd. CASE row.end <= now
      <4>ended. term <= Floor \/ term <= ToI64(configured)
        BY <3>packet, <3>isEnd, TermOfEndedRow
      <4>short. Overflowed \/ ToI64(configured) < Floor
        BY <2>isPromise, <3>packet, <3>isEnd DEF PacketType, I64
      <4> HIDE DEF term
      <4> QED
        BY <2>isPromise, <3>newPromise, <3>natural, <4>ended, <4>short DEF I64
    <3> QED
      BY <3>packet, <3>isRow, <3>isEnd DEF I64
  <2> QED
    BY <2>isNotPromise, <2>isPromise
<1>Dropped. CASE Dropped
  BY <1>Dropped DEF Dropped
<1>Tick. CASE Tick
  BY <1>Tick DEF Tick, PacketType, I64
<1>Unchanged. CASE UNCHANGED vars
  BY <1>Unchanged DEF vars
<1> QED
  BY <1>Assign, <1>Remove, <1>Release, <1>DiscoverOrRequest, <1>RenewHit, <1>RenewMiss,
     <1>Refetch, <1>Reply, <1>Dropped, <1>Tick, <1>Unchanged
  DEF Next, Drop, Restart

\* What an ACK promises a client stays covered by its row, through every renewal, error
\* and restart, until the panel or the client itself ends the lease: only the floor, a
\* renewal under a shorter configured lease time and an overflow may break a promise.
THEOREM PromisesCovered == Spec => []PromiseCovered
<1>init. Init => PromiseInv
  BY ToI64Type DEF Init, PromiseInv, PromiseCovered, NoPromise, NoRow
<1>PromiseInv. PromiseInv => PromiseCovered
  BY DEF PromiseInv
<1> QED
  BY <1>init, <1>PromiseInv, InvInit, InvStep, PromiseStep, PTL DEF Spec
=============================================================================
