------------------------- MODULE DhcpOptions_proofs -------------------------
(***************************************************************************)
(* Theorems about DhcpOptions, for datagrams of every length and content.  *)
(***************************************************************************)
EXTENDS DhcpOptions, TLAPS

-----------------------------------------------------------------------------
(* Values. *)

\* A byte is a number below the one that stands for a panic.
LEMMA Bytes ==
  ASSUME packet \in Seq(Byte)
  PROVE  /\ Len(packet) \in Nat /\ DOMAIN packet = 1 .. Len(packet)
         /\ \A i \in 1 .. Len(packet) :
              /\ packet[i] \in Byte /\ packet[i] \in 0 .. 255
              /\ At(i) = packet[i] /\ At(i) # Panic
<1>packet. Len(packet) \in Nat /\ DOMAIN packet = 1 .. Len(packet)
  OBVIOUS
<1>octets. \A i \in 1 .. Len(packet) : packet[i] \in Byte
  OBVIOUS
<1>bytes. \A b \in Byte : b \in 0 .. 255
  BY BytesAssumption
<1>bounds. \A i \in 1 .. Len(packet) : packet[i] \in 0 .. 255
  BY <1>octets, <1>bytes
<1>5. \A i \in 1 .. Len(packet) : At(i) = packet[i]
  BY <1>packet DEF At
<1>Panic. \A b \in 0 .. 255 : b # Panic
  BY DEF Panic
<1> QED
  BY <1>packet, <1>octets, <1>bounds, <1>5, <1>Panic

\* A value that is not cut off is read as it is in the packet.
LEMMA ValueInside ==
  ASSUME packet \in Seq(Byte), NEW i \in Nat \ {0}, NEW n \in Nat, i + n <= Len(packet) + 1
  PROVE  /\ Value(i, n) \in [1 .. n -> Byte]
         /\ Value(i, n) = SubSeq(packet, i, i + n - 1)
<1>1. \A k \in 1 .. n : i + k - 1 \in 1 .. Len(packet)
  BY Bytes
<1>2. \A k \in 1 .. n : At(i + k - 1) = packet[i + k - 1] /\ packet[i + k - 1] \in Byte
  BY <1>1, Bytes
<1>3. SubSeq(packet, i, i + n - 1) = [k \in 1 .. n |-> packet[i + k - 1]]
  <2>1. 1 .. (i + n - 1) - i + 1 = 1 .. n
    OBVIOUS
  <2> QED
    BY <2>1, Bytes, <1>1
<1> QED
  BY <1>2, <1>3 DEF Value

-----------------------------------------------------------------------------
(* The walk.  There is one path through a packet: whatever position i is reached, the  *)
(* path to it has every position reached before.                                       *)

\* Every path that goes as far as j comes by j.
AllVisit(j) ==
  \A i \in First .. Len(packet) : \A path \in SUBSET (First .. i) :
    i >= j /\ IsPath(path, i) => j \in path

\* Where the walk begins.
LEMMA Begins ==
  ASSUME packet \in Seq(Byte)
  PROVE  AllVisit(First) /\ (First <= Len(packet) => First \in Visited)
<1>First. First \in Nat /\ Len(packet) \in Nat
  BY Bytes, BytesAssumption DEF First
<1>IsPath. IsPath({First}, First)
  BY DEF IsPath
<1>singleton. {First} \in SUBSET (First .. First)
  BY <1>First
<1>AllVisit. AllVisit(First)
  BY DEF AllVisit, IsPath
<1>FirstPacket. First <= Len(packet) => First \in First .. Len(packet)
  BY <1>First
<1> QED
  BY <1>IsPath, <1>singleton, <1>AllVisit, <1>FirstPacket DEF Visited

\* After a position with one successor the walk is at that successor, and it has come by
\* nothing in between.
LEMMA GoesTo ==
  ASSUME packet \in Seq(Byte),
         NEW i \in Visited, AllVisit(i), NEW j \in Nat, j > i, Follows(i) = {j}
  PROVE  /\ AllVisit(j)
         /\ j <= Len(packet) => j \in Visited
         /\ \A k \in Visited : k >= i /\ k < j => k = i
<1>First. First \in Nat /\ Len(packet) \in Nat /\ i \in First .. Len(packet)
  BY Bytes, BytesAssumption DEF First, Visited
<1>IsPath. ASSUME NEW k \in First .. Len(packet), NEW path \in SUBSET (First .. k),
                  IsPath(path, k), k >= i, k # i
           PROVE  j \in path /\ \A l \in path : l > i => l >= j
  <2>1. i \in path \ {k}
    BY <1>IsPath DEF AllVisit
  <2>2. PICK m \in Follows(i) \cap path : \A l \in path : l > i => l >= m
    BY <1>IsPath, <2>1 DEF IsPath
  <2>3. m = j
    BY <2>2
  <2> QED
    BY <2>2, <2>3
<1>AllVisit. AllVisit(j)
  BY <1>First, <1>IsPath DEF AllVisit
<1>Visited. ASSUME j <= Len(packet)
            PROVE  j \in Visited
  <2>IsPath. PICK path \in SUBSET (First .. i) : IsPath(path, i)
    BY DEF Visited
  <2>path. path \cup {j} \in SUBSET (First .. j)
    BY <1>First
  <2>below. \A k \in path : k < j
    BY <1>First
  <2>bounds.
      ASSUME NEW k \in (path \cup {j}) \ {j}
      PROVE  \E l \in Follows(k) \cap (path \cup {j}) : \A m \in path \cup {j} : m > k => m >= l
    <3>1. CASE k = i
      BY <1>First, <3>1
    <3>2. CASE k # i
      <4>1. k \in path \ {i}
        BY <2>bounds, <3>2
      <4>2. PICK l \in Follows(k) \cap path : \A m \in path : m > k => m >= l
        BY <2>IsPath, <4>1 DEF IsPath
      <4>3. l \in First .. i /\ l < j
        BY <2>below, <4>2
      <4>4. j >= l
        BY <1>First, <4>3
      <4> QED
        BY <4>2, <4>4
    <3> QED
      BY <3>1, <3>2
  <2>IsPathPath. IsPath(path \cup {j}, j)
    BY <2>IsPath, <2>bounds DEF IsPath
  <2>First. j \in First .. Len(packet)
    BY <1>First, <1>Visited
  <2> QED
    BY <2>path, <2>IsPathPath, <2>First DEF Visited
<1>bounds. ASSUME NEW k \in Visited, k >= i, k < j, k # i
           PROVE  FALSE
  <2>IsPath. PICK path \in SUBSET (First .. k) : IsPath(path, k)
    BY DEF Visited
  <2>First. k \in First .. Len(packet)
    BY DEF Visited
  <2>path. j \in path
    BY <1>IsPath, <1>bounds, <2>IsPath, <2>First
  <2> QED
    BY <1>First, <1>bounds, <2>First, <2>path
<1> QED
  BY <1>AllVisit, <1>Visited, <1>bounds

\* After a position whose successor is outside the packet the walk is over.
LEMMA GoesNowhere ==
  ASSUME packet \in Seq(Byte),
         NEW i \in Visited, AllVisit(i), \A j \in Follows(i) : j > Len(packet)
  PROVE  \A k \in Visited : k <= i
<1>First. First \in Nat /\ Len(packet) \in Nat /\ i \in First .. Len(packet)
  BY Bytes, BytesAssumption DEF First, Visited
<1>beyond. ASSUME NEW k \in Visited, k > i
           PROVE  FALSE
  <2>IsPath. PICK path \in SUBSET (First .. k) : IsPath(path, k)
    BY DEF Visited
  <2>First. k \in First .. Len(packet)
    BY DEF Visited
  <2>path. i \in path \ {k}
    BY <1>First, <1>beyond, <2>IsPath, <2>First DEF AllVisit
  <2>next. PICK j \in Follows(i) \cap path : TRUE
    BY <2>IsPath, <2>path DEF IsPath
  <2>FirstPacket. j \in First .. k /\ j > Len(packet)
    BY <2>next
  <2> QED
    BY <1>First, <2>First, <2>FirstPacket
<1> QED
  BY <1>First, <1>beyond DEF Visited

-----------------------------------------------------------------------------
(* What is read of the options. *)

\* field is what the last option of S says, which has n bytes of it; nothing if there
\* is none.
Tells(field, n, S) ==
  IF S = {} THEN field = <<>>
  ELSE \E m \in S : (\A i \in S : i <= m) /\ field = SubSeq(packet, m + 2, m + 1 + n)

MsgTypes == OptionsOf(MsgType, 1 .. 255)

ReqIps == OptionsOf(ReqIp, {AddrLen})

Before(S, j) == {i \in S : i < j}

\* The loop has come by every position below idx that it should, and by no other, and
\* has read the options found there.
SoFar ==
  /\ idx >= First
  /\ AllVisit(idx) /\ (idx <= Len(packet) => idx \in Visited)
  /\ Tells(msgType, 1, Before(MsgTypes, idx))
  /\ Tells(requested, AddrLen, Before(ReqIps, idx))

\* It has read them all.
Finally ==
  /\ Tells(msgType, 1, MsgTypes)
  /\ Tells(requested, AddrLen, ReqIps)

Typed ==
  /\ packet \in Seq(Byte)
  /\ pc \in {"header", "loop", "parsed", "ignored"}
  /\ idx \in Nat
  /\ header \in {<<>>} \cup [1 .. HeaderLen -> Byte]
  /\ msgType \in {<<>>} \cup [1 .. 1 -> Byte]
  /\ requested \in {<<>>} \cup [1 .. AddrLen -> Byte]

ParseInv ==
  /\ Typed
  /\ pc = "header" => idx = First /\ msgType = <<>> /\ requested = <<>>
  /\ pc = "loop" => Valid /\ SoFar
  /\ pc = "parsed" => Valid /\ Finally /\ msgType # <<>>
  /\ pc = "ignored" => ~Valid \/ (Finally /\ msgType = <<>>)

\* The options lie where the walk comes by.
LEMMA OptionsVisited ==
  ASSUME packet \in Seq(Byte), NEW code, NEW lengths
  PROVE  /\ OptionsOf(code, lengths) \subseteq Visited
         /\ Visited \subseteq First .. Len(packet)
         /\ First \in Nat \ {0} /\ Len(packet) \in Nat
BY Bytes, BytesAssumption DEF OptionsOf, Options, Visited, First

\* An option that is passed counts if it is whole and of the kind; nothing else does.
LEMMA Passes ==
  ASSUME packet \in Seq(Byte), NEW code, NEW lengths,
         NEW i \in Visited, NEW j \in Nat, j > i,
         \A k \in Visited : k >= i /\ k < j => k = i
  PROVE  Before(OptionsOf(code, lengths), j)
           = Before(OptionsOf(code, lengths), i) \cup (OptionsOf(code, lengths) \cap {i})
<1>1. /\ OptionsOf(code, lengths) \subseteq Visited /\ Visited \subseteq Int
      /\ i \in Int
  BY OptionsVisited
<1>2. ASSUME NEW k \in OptionsOf(code, lengths)
      PROVE  k < j <=> k < i \/ k = i
  <2>1. k \in Visited /\ k \in Int
    BY <1>1
  <2> QED
    BY <1>1, <2>1
<1> QED
  BY <1>2 DEF Before

\* What a field tells, if the option at i does not count, or if it is read.
LEMMA TellsNext ==
  ASSUME packet \in Seq(Byte), NEW code, NEW lengths, NEW i \in Visited, NEW j \in Nat, j > i,
         \A k \in Visited : k >= i /\ k < j => k = i,
         NEW old, NEW new, NEW n, Tells(old, n, Before(OptionsOf(code, lengths), i)),
         IF i \in OptionsOf(code, lengths) THEN new = SubSeq(packet, i + 2, i + 1 + n)
         ELSE new = old
  PROVE  Tells(new, n, Before(OptionsOf(code, lengths), j))
<1> DEFINE O == OptionsOf(code, lengths)
<1>Before. Before(O, j) = Before(O, i) \cup (O \cap {i})
  BY Passes
<1>bounds. i \in Int /\ \A k \in Before(O, i) : k \in Int /\ k < i
  BY OptionsVisited DEF Before
<1>outside. CASE i \notin O
  BY <1>Before, <1>outside
<1>inside. CASE i \in O
  <2>1. i \in Before(O, j) /\ \A k \in Before(O, j) : k <= i
    BY <1>Before, <1>bounds, <1>inside
  <2> QED
    BY <1>inside, <2>1 DEF Tells
<1> QED
  BY <1>outside, <1>inside

\* When no position from i on is come by but i, which does not count, all is read.
LEMMA TellsAll ==
  ASSUME packet \in Seq(Byte), NEW code, NEW lengths, NEW i \in Int,
         \A k \in Visited : k <= i, i \notin OptionsOf(code, lengths)
  PROVE  Before(OptionsOf(code, lengths), i) = OptionsOf(code, lengths)
BY OptionsVisited DEF Before

\* What is said of the packet stays true of it.
LEMMA SamePacket ==
  ASSUME packet' = packet
  PROVE  /\ Visited' = Visited /\ MsgTypes' = MsgTypes /\ ReqIps' = ReqIps
         /\ Valid' = Valid /\ (AllVisit(idx') => AllVisit(idx)')
BY DEF Visited, IsPath, Follows, First, MsgTypes, ReqIps, OptionsOf, Options, Valid,
       AllVisit
-----------------------------------------------------------------------------
(* The steps. *)

\* The loop is over, and what it has read is all there is.
LEMMA LeaveKeeps ==
  ASSUME ParseInv, pc = "loop", Leave,
         Before(MsgTypes, idx) = MsgTypes, Before(ReqIps, idx) = ReqIps
  PROVE  ParseInv'
<1>1. Valid' /\ Finally'
  BY SamePacket DEF ParseInv, SoFar, Finally, Tells, Leave
<1>2. Typed'
  BY DEF ParseInv, Typed, Leave
<1> QED
  BY <1>1, <1>2 DEF ParseInv, Leave

\* The loop ends at a byte that nothing follows.
LEMMA EndKeeps ==
  ASSUME ParseInv, pc = "loop", Leave, idx <= Len(packet),
         \A j \in Follows(idx) : j > Len(packet), idx \notin Options
  PROVE  ParseInv'
<1>packet. packet \in Seq(Byte) /\ idx \in Nat /\ idx \in Visited /\ AllVisit(idx)
  BY DEF ParseInv, Typed, SoFar
<1>idx. \A k \in Visited : k <= idx
  BY <1>packet, GoesNowhere
<1>idxMsgTypes. idx \notin MsgTypes /\ idx \notin ReqIps
  BY DEF MsgTypes, ReqIps, OptionsOf
<1>Before. Before(MsgTypes, idx) = MsgTypes /\ Before(ReqIps, idx) = ReqIps
  BY <1>packet, <1>idx, <1>idxMsgTypes, TellsAll DEF MsgTypes, ReqIps
<1> QED
  BY <1>Before, LeaveKeeps

\* The loop goes on to j, behind idx, with an option there read or none.
LEMMA GoesOnKeeps ==
  ASSUME ParseInv, pc = "loop", idx <= Len(packet),
         NEW j \in Nat, j > idx, Follows(idx) = {j}, idx' = j,
         UNCHANGED <<packet, pc, header>>,
         IF idx \in MsgTypes THEN msgType' = SubSeq(packet, idx + 2, idx + 1 + 1)
         ELSE msgType' = msgType,
         IF idx \in ReqIps THEN requested' = SubSeq(packet, idx + 2, idx + 1 + AddrLen)
         ELSE requested' = requested,
         msgType' \in {<<>>} \cup [1 .. 1 -> Byte],
         requested' \in {<<>>} \cup [1 .. AddrLen -> Byte]
  PROVE  ParseInv'
<1>packet.
    packet \in Seq(Byte) /\ idx \in Nat /\ idx \in Visited /\ AllVisit(idx) /\ First \in Nat
  BY BytesAssumption DEF ParseInv, Typed, SoFar, First
<1>AllVisit. /\ AllVisit(j)
             /\ j <= Len(packet) => j \in Visited
             /\ \A k \in Visited : k >= idx /\ k < j => k = idx
  BY <1>packet, GoesTo
<1>Tells. Tells(msgType', 1, Before(MsgTypes, j))
  <2> DEFINE one == 1
  <2>Tells. Tells(msgType, one, Before(OptionsOf(MsgType, 1 .. 255), idx))
    BY DEF MsgTypes, ParseInv, SoFar
  <2>idx. IF idx \in OptionsOf(MsgType, 1 .. 255)
          THEN msgType' = SubSeq(packet, idx + 2, idx + 1 + one)
          ELSE msgType' = msgType
    BY DEF MsgTypes
  <2> HIDE DEF one
  <2>TellsNewMsgType. Tells(msgType', one, Before(OptionsOf(MsgType, 1 .. 255), j))
    BY <1>packet, <1>AllVisit, <2>Tells, <2>idx, TellsNext
  <2> QED
    BY <2>TellsNewMsgType DEF MsgTypes, one
<1>TellsNewRequested. Tells(requested', AddrLen, Before(ReqIps, j))
  BY <1>packet, <1>AllVisit, TellsNext DEF ReqIps, ParseInv, SoFar
<1>Valid. Valid'
  BY SamePacket DEF ParseInv
<1>newIdx. idx' >= First'
  BY <1>packet DEF ParseInv, SoFar, First
<1>AllVisitIdx. AllVisit(idx)' /\ (idx' <= Len(packet') => idx' \in Visited')
  BY <1>AllVisit, SamePacket
<1>TellsMsgType.
    Tells(msgType, 1, Before(MsgTypes, idx))' /\ Tells(requested, AddrLen, Before(ReqIps, idx))'
  BY <1>Tells, <1>TellsNewRequested, SamePacket DEF Tells, Before
<1>Typed. Typed'
  BY DEF ParseInv, Typed
<1> QED
  BY <1>Valid, <1>newIdx, <1>AllVisitIdx, <1>TellsMsgType, <1>Typed DEF ParseInv, SoFar

\* What is at idx, and what follows it.
LEMMA AtIndex ==
  ASSUME ParseInv, InLoop
  PROVE  /\ packet \in Seq(Byte) /\ idx \in Nat \ {0} /\ idx \in DOMAIN packet
         /\ At(idx) = packet[idx] /\ packet[idx] \in Nat /\ Len(packet) \in Nat
         /\ idx \in Visited
         /\ At(idx) = Pad => Follows(idx) = {idx + 1}
         /\ At(idx) = End => Follows(idx) = {}
         /\ Tlv /\ NoLength => Follows(idx) = {}
         /\ Tlv /\ ~NoLength =>
              /\ At(idx + 1) = packet[idx + 1] /\ packet[idx + 1] \in 0 .. 255
              /\ Follows(idx) = {idx + 2 + packet[idx + 1]}
<1>typed. /\ packet \in Seq(Byte) /\ idx \in Nat /\ idx >= First /\ First \in Nat \ {0}
          /\ idx <= Len(packet)
  BY BytesAssumption DEF ParseInv, Typed, SoFar, First, InLoop
<1>inside.
    idx \in 1 .. Len(packet) /\ Len(packet) \in Nat /\ DOMAIN packet = 1 .. Len(packet)
  BY <1>typed, Bytes
<1>here. At(idx) = packet[idx] /\ packet[idx] \in Nat
  <2>1. At(idx) = packet[idx] /\ packet[idx] \in 0 .. 255
    BY <1>typed, <1>inside, Bytes
  <2> QED
    BY <2>1
<1>visited. idx \in Visited
  BY <1>typed DEF ParseInv, SoFar, InLoop
<1>pad. At(idx) = Pad => Follows(idx) = {idx + 1}
  BY <1>here, BytesAssumption DEF Follows
<1>end. At(idx) = End => Follows(idx) = {}
  BY <1>here, BytesAssumption DEF Follows
<1>tlv.
    Tlv => Follows(idx) = IF idx + 1 \in DOMAIN packet THEN {idx + 2 + packet[idx + 1]} ELSE {}
  BY <1>here DEF Follows, Tlv
<1>length. idx + 1 \in DOMAIN packet <=> ~NoLength
  BY <1>typed, <1>inside DEF NoLength
<1>value. ~NoLength => At(idx + 1) = packet[idx + 1] /\ packet[idx + 1] \in 0 .. 255
  BY <1>typed, <1>inside, <1>length, Bytes
<1> QED
  BY <1>typed, <1>inside, <1>here, <1>visited, <1>pad, <1>end, <1>tlv, <1>length, <1>value

\* The actions that leave the loop.
LEMMA LoopEndKeeps ==
  ASSUME ParseInv, Exhausted \/ EndOption \/ Truncated
  PROVE  ParseInv'
<1>Exhausted. CASE Exhausted
  <2>1. packet \in Seq(Byte) /\ idx \in Nat /\ idx > Len(packet)
    BY <1>Exhausted DEF ParseInv, Typed, Exhausted
  <2>2. /\ \A k \in MsgTypes : k < idx
        /\ \A k \in ReqIps : k < idx
    BY <2>1, OptionsVisited DEF MsgTypes, ReqIps
  <2>3. Before(MsgTypes, idx) = MsgTypes /\ Before(ReqIps, idx) = ReqIps
    BY <2>2 DEF Before
  <2> QED
    BY <1>Exhausted, <2>3, LeaveKeeps DEF Exhausted
<1>EndOption. CASE EndOption
  <2>1. idx \notin Options
    BY <1>EndOption, AtIndex DEF EndOption, Options
  <2>2. Follows(idx) = {}
    BY <1>EndOption, AtIndex DEF EndOption
  <2> QED
    BY <1>EndOption, <2>1, <2>2, EndKeeps DEF EndOption, InLoop
<1>Truncated. CASE Truncated
  <2>InLoop. InLoop
    BY <1>Truncated DEF Truncated, Tlv
  <2>NoLength. CASE NoLength
    <3>Follows. Follows(idx) = {}
      BY <1>Truncated, <2>InLoop, <2>NoLength, AtIndex DEF Truncated
    <3>idx. idx \notin Options
      BY <2>InLoop, <2>NoLength, AtIndex, Bytes DEF NoLength, Options
    <3> QED
      BY <1>Truncated, <2>InLoop, <3>Follows, <3>idx, EndKeeps DEF Truncated, InLoop
  <2>CutOff. CASE CutOff
    <3>Follows. /\ Follows(idx) = {idx + 2 + packet[idx + 1]}
                /\ packet[idx + 1] \in 0 .. 255 /\ At(idx + 1) = packet[idx + 1]
                /\ idx \in Nat /\ Len(packet) \in Nat
      BY <1>Truncated, <2>InLoop, <2>CutOff, AtIndex DEF Truncated, CutOff
    <3>idx.
        idx + 2 + packet[idx + 1] > Len(packet) /\ ~(idx + 1 + packet[idx + 1] <= Len(packet))
      <4>idx. idx + 2 + packet[idx + 1] > Len(packet) + 1
        BY <2>CutOff, <3>Follows DEF CutOff
      <4>bounds. \A i, l \in Nat : \A n \in 0 .. 255 :
                   i + 2 + n > l + 1 => i + 2 + n > l /\ ~(i + 1 + n <= l)
        OBVIOUS
      <4> QED
        BY <3>Follows, <4>idx, <4>bounds
    <3>idxOptions. idx \notin Options
      BY <3>idx DEF Options
    <3> QED
      BY <1>Truncated, <2>InLoop, <3>Follows, <3>idx, <3>idxOptions, EndKeeps
      DEF Truncated, InLoop
  <2> QED
    BY <1>Truncated, <2>NoLength, <2>CutOff DEF Truncated
<1> QED
  BY <1>Exhausted, <1>EndOption, <1>Truncated

\* Padding is passed, and says nothing.
LEMMA PaddingKeeps ==
  ASSUME ParseInv, Padding
  PROVE  ParseInv'
<1>InLoop. InLoop /\ At(idx) = Pad
  BY DEF Padding
<1>idx. idx \in Nat /\ packet[idx] = Pad /\ Follows(idx) = {idx + 1}
  BY <1>InLoop, AtIndex
<1>idxMsgTypes. idx \notin MsgTypes /\ idx \notin ReqIps
  BY <1>idx DEF MsgTypes, ReqIps, OptionsOf, Options
<1>pc. /\ pc = "loop" /\ idx <= Len(packet)
       /\ msgType \in {<<>>} \cup [1 .. 1 -> Byte]
       /\ requested \in {<<>>} \cup [1 .. AddrLen -> Byte]
  BY <1>InLoop DEF InLoop, ParseInv, Typed
<1>bounds. idx + 1 \in Nat /\ idx + 1 > idx
  BY <1>idx
<1>newIdx. idx' = idx + 1 /\ UNCHANGED <<packet, pc, header, msgType, requested>>
  BY DEF Padding
<1> QED
  BY <1>idx, <1>idxMsgTypes, <1>pc, <1>bounds, <1>newIdx, GoesOnKeeps

\* A whole option is passed, and read if its code and length ask for it.
LEMMA OptionKeeps ==
  ASSUME ParseInv, Option
  PROVE  ParseInv'
<1> DEFINE n == packet[idx + 1]
<1>InLoop. InLoop /\ Tlv /\ ~NoLength /\ ~CutOff
  BY DEF Option, Tlv
<1>packet. /\ packet \in Seq(Byte) /\ idx \in Nat \ {0} /\ Len(packet) \in Nat
           /\ At(idx) = packet[idx] /\ At(idx + 1) = n /\ n \in 0 .. 255
           /\ Follows(idx) = {idx + 2 + n}
  BY <1>InLoop, AtIndex
<1> HIDE DEF n
<1>idx. idx + 2 + n <= Len(packet) + 1 /\ idx + 1 <= Len(packet) /\ idx <= Len(packet)
  <2>idx. ~(idx + 2 + n > Len(packet) + 1) /\ ~(idx + 1 > Len(packet))
    BY <1>InLoop, <1>packet DEF CutOff, NoLength
  <2>bounds.
      \A i, l \in Nat : \A k \in 0 .. 255 :
        ~(i + 2 + k > l + 1) /\ ~(i + 1 > l) => i + 2 + k <= l + 1 /\ i + 1 <= l /\ i <= l
    OBVIOUS
  <2> QED
    BY <1>packet, <2>idx, <2>bounds
<1>idxPacket. idx + 1 + n <= Len(packet) /\ idx + 1 \in DOMAIN packet
  BY <1>packet, <1>idx, Bytes
<1>idxOptions. idx \in Options
  BY <1>InLoop, <1>packet, <1>idxPacket, AtIndex DEF Options, Tlv, n
<1>idxMsgTypes. /\ idx \in MsgTypes <=> TakesMsgType(At(idx), At(idx + 1))
                /\ idx \in ReqIps <=> TakesReqIp(At(idx), At(idx + 1))
  <2>bounds. n \in 1 .. 255 <=> n >= 1
    BY <1>packet
  <2> QED
    BY <1>packet, <1>idxOptions, <2>bounds
    DEF MsgTypes, ReqIps, OptionsOf, TakesMsgType, TakesReqIp, n
<1>Value. n >= 1 => /\ Value(idx + 2, 1) \in [1 .. 1 -> Byte]
                    /\ Value(idx + 2, 1) = SubSeq(packet, idx + 2, idx + 1 + 1)
  <2>1. n >= 1 => /\ idx + 2 \in Nat \ {0} /\ idx + 2 + 1 <= Len(packet) + 1
                  /\ idx + 2 + 1 - 1 = idx + 1 + 1
    BY <1>packet, <1>idx
  <2>2. n >= 1 => /\ Value(idx + 2, 1) \in [1 .. 1 -> Byte]
                  /\ Value(idx + 2, 1) = SubSeq(packet, idx + 2, idx + 2 + 1 - 1)
    BY <1>packet, <2>1, ValueInside
  <2> QED
    BY <2>1, <2>2
<1>AddrLen.
    n = AddrLen => /\ Value(idx + 2, AddrLen) \in [1 .. AddrLen -> Byte]
                   /\ Value(idx + 2, AddrLen) = SubSeq(packet, idx + 2, idx + 1 + AddrLen)
  <2>AddrLen. AddrLen \in Nat
    BY BytesAssumption
  <2>AddrLenIdx.
      n = AddrLen => /\ idx + 2 \in Nat \ {0} /\ idx + 2 + AddrLen <= Len(packet) + 1
                     /\ idx + 2 + AddrLen - 1 = idx + 1 + AddrLen
    BY <1>packet, <1>idx, <2>AddrLen
  <2> QED
    BY <1>packet, <2>AddrLen, <2>AddrLenIdx, ValueInside
<1>newMsgType. /\ msgType' = IF idx \in MsgTypes THEN Value(idx + 2, 1) ELSE msgType
               /\ requested' = IF idx \in ReqIps THEN Value(idx + 2, AddrLen) ELSE requested
               /\ idx' = idx + 2 + n
               /\ UNCHANGED <<packet, pc, header>>
  BY <1>packet, <1>idxMsgTypes DEF Option
<1>idxReqIps. (idx \in MsgTypes => n >= 1) /\ (idx \in ReqIps => n = AddrLen)
  BY <1>packet, <1>idxMsgTypes DEF TakesMsgType, TakesReqIp
<1>msgType. /\ msgType \in {<<>>} \cup [1 .. 1 -> Byte]
            /\ requested \in {<<>>} \cup [1 .. AddrLen -> Byte]
            /\ pc = "loop"
  BY <1>InLoop DEF InLoop, ParseInv, Typed
<1>bounds. idx + 2 + n \in Nat /\ idx + 2 + n > idx
  BY <1>packet
<1>idxNewMsgType.
    /\ IF idx \in MsgTypes THEN msgType' = SubSeq(packet, idx + 2, idx + 1 + 1)
       ELSE msgType' = msgType
    /\ msgType' \in {<<>>} \cup [1 .. 1 -> Byte]
  BY <1>Value, <1>newMsgType, <1>idxReqIps, <1>msgType
<1>idxNewRequested.
    /\ IF idx \in ReqIps THEN requested' = SubSeq(packet, idx + 2, idx + 1 + AddrLen)
       ELSE requested' = requested
    /\ requested' \in {<<>>} \cup [1 .. AddrLen -> Byte]
  BY <1>AddrLen, <1>newMsgType, <1>idxReqIps, <1>msgType
<1> QED
  BY <1>packet, <1>idx, <1>newMsgType, <1>msgType, <1>bounds, <1>idxNewMsgType,
     <1>idxNewRequested, GoesOnKeeps

\* The header decides whether the loop begins; it begins with nothing read.
LEMMA HeaderKeeps ==
  ASSUME ParseInv, Short \/ Foreign \/ Header
  PROVE  ParseInv'
<1>packet. /\ packet \in Seq(Byte) /\ Len(packet) \in Nat
           /\ HeaderLen \in Nat \ {0, 1} /\ First \in Nat
  BY Bytes, BytesAssumption DEF ParseInv, Typed, First
<1>packetIdx. /\ UNCHANGED <<packet, idx, msgType, requested>>
              /\ pc = "header" /\ idx = First /\ msgType = <<>> /\ requested = <<>>
  BY DEF ParseInv, Short, Foreign, Header, ReadHeader
<1>notTooShort. ~TooShort => /\ Value(1, HeaderLen) \in [1 .. HeaderLen -> Byte]
                             /\ IsRequest <=> Valid
  <2>notTooShort. ~TooShort => HeaderLen <= Len(packet)
    BY <1>packet DEF TooShort
  <2>notTooShortHeaderLen. ~TooShort => 1 + HeaderLen <= Len(packet) + 1
    BY <1>packet, <2>notTooShort
  <2>notTooShortAt. ~TooShort => At(1) = packet[1] /\ At(HeaderLen) = packet[HeaderLen]
    BY <1>packet, <2>notTooShort, Bytes
  <2>notTooShortValue. ~TooShort => Value(1, HeaderLen) \in [1 .. HeaderLen -> Byte]
    BY <1>packet, <2>notTooShortHeaderLen, ValueInside
  <2> QED
    BY <1>packet, <2>notTooShort, <2>notTooShortAt, <2>notTooShortValue DEF IsRequest, Valid
<1>Typed. Typed'
  BY <1>packetIdx, <1>notTooShort DEF ParseInv, Typed, Short, Foreign, Header, ReadHeader
<1>ShortOrForeign. CASE Short \/ Foreign
  <2>notValid. ~Valid /\ pc' = "ignored"
    BY <1>packet, <1>notTooShort, <1>ShortOrForeign
    DEF Short, TooShort, Valid, Foreign, ReadHeader
  <2>notValidNext. ~Valid'
    BY <1>packetIdx, <2>notValid, SamePacket
  <2> QED
    BY <1>Typed, <2>notValid, <2>notValidNext DEF ParseInv
<1>Header. CASE Header
  <2>Valid. Valid' /\ pc' = "loop"
    BY <1>packetIdx, <1>notTooShort, <1>Header, SamePacket DEF Header, ReadHeader
  <2>AllVisit. AllVisit(First) /\ (First <= Len(packet) => First \in Visited)
    BY <1>packet, Begins
  <2>Before. Before(MsgTypes, First) = {} /\ Before(ReqIps, First) = {}
    BY <1>packet, OptionsVisited DEF Before, MsgTypes, ReqIps
  <2>SoFar. SoFar
    BY <1>packet, <1>packetIdx, <2>AllVisit, <2>Before DEF SoFar, Tells
  <2>soFarNext. SoFar'
    BY <1>packetIdx, <2>SoFar, SamePacket DEF SoFar, Tells, Before, First
  <2> QED
    BY <1>Typed, <2>Valid, <2>soFarNext DEF ParseInv
<1> QED
  BY <1>ShortOrForeign, <1>Header

\* The invariant of the loop.
THEOREM ParseInvariant == Spec => []ParseInv
<1>init. Init => ParseInv
  BY BytesAssumption DEF Init, ParseInv, Typed, First
<1>step. ParseInv /\ [Next]_vars => ParseInv'
  <2> SUFFICES ASSUME ParseInv, [Next]_vars
               PROVE  ParseInv'
    OBVIOUS
  <2>1. CASE Short \/ Foreign \/ Header
    BY <2>1, HeaderKeeps
  <2>2. CASE Exhausted \/ EndOption \/ Truncated
    BY <2>2, LoopEndKeeps
  <2>Padding. CASE Padding
    BY <2>Padding, PaddingKeeps
  <2>Option. CASE Option
    BY <2>Option, OptionKeeps
  <2>Unchanged. CASE UNCHANGED vars
    BY <2>Unchanged, SamePacket
       DEF vars, ParseInv, Typed, SoFar, Finally, Tells, Before, First
  <2> QED
    BY <2>1, <2>2, <2>Padding, <2>Option, <2>Unchanged DEF Next
<1> QED
  BY <1>init, <1>step, PTL DEF Spec

-----------------------------------------------------------------------------
(* What the invariant is for. *)

\* No byte past the end of a datagram is read: none of the bytes the parser has copied is
\* the one that would stand for a panic of its slice indexing.
THEOREM NeverPanics == Spec => []NoPanic
<1>1. ParseInv => NoPanic
  <2> SUFFICES ASSUME ParseInv PROVE NoPanic
    OBVIOUS
  <2>1. \A b \in Byte : b # Panic
    BY BytesAssumption DEF Panic
  <2>2. ASSUME NEW n \in Nat, NEW field \in {<<>>} \cup [1 .. n -> Byte]
        PROVE  Panic \notin Range(field)
    BY <2>1, <2>2 DEF Range
  <2>3. HeaderLen \in Nat /\ AddrLen \in Nat
    BY BytesAssumption
  <2>copied. Panic \notin Range(header) \cup Range(msgType) \cup Range(requested)
    BY <2>2, <2>3 DEF ParseInv, Typed
  <2>ahead. ASSUME Tlv PROVE At(idx) # Panic /\ (NoLength \/ At(idx + 1) # Panic)
    <3>loop. InLoop /\ idx \in 1 .. Len(packet)
      BY <2>ahead, AtIndex DEF Tlv
    <3>code. At(idx) # Panic
      BY <3>loop, Bytes DEF ParseInv, Typed
    <3>length. ~NoLength => idx + 1 \in 1 .. Len(packet)
      BY <3>loop, Bytes DEF NoLength, ParseInv, Typed
    <3> QED
      BY <3>code, <3>length, Bytes DEF ParseInv, Typed
  <2> QED
    BY <2>copied, <2>ahead DEF NoPanic
<1> QED
  BY <1>1, ParseInvariant, PTL

\* The largest of a set that has a largest.
LEMMA MaxIs ==
  ASSUME NEW S \in SUBSET Int, NEW m \in S, \A i \in S : i <= m
  PROVE  Max(S) = m
<1> DEFINE Top(x) == \A y \in S : x >= y
<1>1. Top(m) /\ \A x \in S : Top(x) => x = m
  OBVIOUS
<1> HIDE DEF Top
<1>2. (CHOOSE x \in S : Top(x)) = m
  BY <1>1
<1> QED
  BY <1>2 DEF Max, Top

\* A field tells the last option of the kind.
LEMMA TellsLast ==
  ASSUME packet \in Seq(Byte), NEW code, NEW lengths, NEW field, NEW n \in Nat,
         Tells(field, n, OptionsOf(code, lengths))
  PROVE  LET m == LastOf(code, lengths)
         IN  /\ m \in Nat
             /\ m = 0 <=> OptionsOf(code, lengths) = {}
             /\ field = IF m = 0 THEN <<>> ELSE SubSeq(packet, m + 2, m + 1 + n)
<1> DEFINE O == OptionsOf(code, lengths)
<1>bounds. O \in SUBSET Int /\ \A i \in O : i \in Nat \ {0}
  BY OptionsVisited
<1>empty. CASE O = {}
  BY <1>empty DEF Tells, LastOf
<1>some. CASE O # {}
  <2>field. PICK m \in O : (\A i \in O : i <= m) /\ field = SubSeq(packet, m + 2, m + 1 + n)
    BY <1>some DEF Tells
  <2>LastOf. LastOf(code, lengths) = m
    BY <1>bounds, <1>some, <2>field, MaxIs DEF LastOf
  <2> QED
    BY <1>bounds, <1>some, <2>field, <2>LastOf
<1> QED
  BY <1>empty, <1>some

\* What the parser makes of a datagram that is over: a request, exactly if the header is
\* one's and some whole option 53 has a value; of several such options the last counts, and
\* so does the last whole option 50 that has the length of an address.
THEOREM LastOptionsCount == Spec => []ParsesLastOptions
<1>1. ParseInv => ParsesLastOptions
  <2> SUFFICES ASSUME ParseInv, Ended PROVE ParsesLastOptions
    BY DEF ParsesLastOptions
  <2> DEFINE m == LastOf(MsgType, 1 .. 255)
             r == LastOf(ReqIp, {AddrLen})
  <2>packet. packet \in Seq(Byte) /\ AddrLen \in Nat
    BY BytesAssumption DEF ParseInv, Typed
  <2>Finally.
      Finally => /\ m \in Nat
                 /\ msgType = IF m = 0 THEN <<>> ELSE SubSeq(packet, m + 2, m + 2)
                 /\ requested = IF r = 0 THEN <<>> ELSE SubSeq(packet, r + 2, r + 1 + AddrLen)
    <3> SUFFICES ASSUME Finally
                 PROVE  /\ m \in Nat
                        /\ msgType = IF m = 0 THEN <<>> ELSE SubSeq(packet, m + 2, m + 2)
                        /\ requested = IF r = 0 THEN <<>>
                                       ELSE SubSeq(packet, r + 2, r + 1 + AddrLen)
      OBVIOUS
    <3>msgType. /\ m \in Nat
                /\ msgType = IF m = 0 THEN <<>> ELSE SubSeq(packet, m + 2, m + 1 + 1)
      BY <2>packet, TellsLast DEF Finally, MsgTypes
    <3>requested. requested = IF r = 0 THEN <<>> ELSE SubSeq(packet, r + 2, r + 1 + AddrLen)
      BY <2>packet, TellsLast DEF Finally, ReqIps
    <3> HIDE DEF m, r
    <3>equal. m + 1 + 1 = m + 2
      BY <3>msgType
    <3> QED
      BY <3>msgType, <3>requested, <3>equal
  <2> HIDE DEF m, r
  <2>bounds. ASSUME m \in Nat
             PROVE  SubSeq(packet, m + 2, m + 2) # <<>>
    <3> DEFINE at(k) == packet[k + (m + 2) - 1]
    <3>equal. 1 .. (m + 2) - (m + 2) + 1 = 1 .. 1
      BY <2>bounds
    <3> HIDE DEF at
    <3>packet. SubSeq(packet, m + 2, m + 2) = [k \in 1 .. 1 |-> at(k)]
      BY <2>packet, <2>bounds, <3>equal DEF at
    <3>inside. 1 \in DOMAIN [k \in 1 .. 1 |-> at(k)]
      OBVIOUS
    <3>4. 1 \in DOMAIN SubSeq(packet, m + 2, m + 2)
      BY <3>packet, <3>inside
    <3>outside. 1 \notin DOMAIN <<>>
      OBVIOUS
    <3> QED
      BY <3>4, <3>outside
  <2>isPc. CASE pc = "parsed"
    <3>Valid. Valid /\ Finally /\ msgType # <<>>
      BY <2>isPc DEF ParseInv
    <3>positive. m # 0
      BY <2>Finally, <3>Valid
    <3> QED
      BY <2>Finally, <2>isPc, <3>Valid, <3>positive DEF ParsesLastOptions, m, r
  <2>pc. CASE pc = "ignored"
    <3>notValid. ~Valid \/ (Finally /\ msgType = <<>>)
      BY <2>pc DEF ParseInv
    <3>Valid. ~(Valid /\ m # 0)
      BY <2>Finally, <2>bounds, <3>notValid
    <3> QED
      BY <2>pc, <3>Valid DEF ParsesLastOptions, m
  <2> QED
    BY <2>isPc, <2>pc DEF Ended
<1> QED
  BY <1>1, ParseInvariant, PTL

\* Every iteration of the loop leaves it or goes on at a later byte of the datagram: it can
\* be taken only as often as there are bytes.
LoopAdvances == pc = "loop" => pc' # "loop" \/ (idx' \in Nat /\ idx' > idx /\ packet' = packet)

\* The loop of the parser makes progress at every step.
THEOREM EveryStepAdvances == Spec => [][LoopAdvances]_vars
<1>1. ParseInv /\ Next => LoopAdvances
  <2> SUFFICES ASSUME ParseInv, Next, pc = "loop", pc' = "loop"
               PROVE  idx' \in Nat /\ idx' > idx /\ packet' = packet
    BY DEF LoopAdvances
  <2>1. Padding \/ Option
    BY DEF Next, Short, Foreign, Header, ReadHeader, Exhausted, EndOption, Truncated, Leave
  <2>2. InLoop
    BY <2>1 DEF Padding, Option, Tlv
  <2>Padding. CASE Padding
    BY <2>2, <2>Padding, AtIndex DEF Padding
  <2>Option. CASE Option
    <3> DEFINE n == At(idx + 1)
    <3>1. idx \in Nat /\ n \in 0 .. 255
      BY <2>2, <2>Option, AtIndex DEF Option
    <3>2. idx' = idx + 2 + n /\ packet' = packet
      BY <2>Option DEF Option
    <3> HIDE DEF n
    <3> QED
      BY <3>1, <3>2
  <2> QED
    BY <2>1, <2>Padding, <2>Option
<1> QED
  BY <1>1, ParseInvariant, PTL DEF Spec
=============================================================================
