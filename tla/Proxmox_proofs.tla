---------------------------- MODULE Proxmox_proofs ----------------------------
(***************************************************************************)
(* Proofs about Proxmox, for any cluster, any number of requests and any   *)
(* number of changes.                                                      *)
(***************************************************************************)
EXTENDS Proxmox, TLAPS

USE ClusterAssumption, CallerAssumption

-----------------------------------------------------------------------------
(* Types. *)

Op == {"none", "list", "identity", "password", "poll"}

History == [Guest -> SUBSET (Node \cup {None})]

\* What a call asks for is settled when it begins, and which steps it takes.
ShapeOf(r) ==
  /\ r.op = "password" => r.kind = "ct" /\ r.guest \in Ct /\ r.word \in Password
  /\ r.op = "identity" => r.kind = "vm" /\ r.guest \in Vm
  /\ r.guest # None => r.op \in {"identity", "password"}
  /\ r.pc \in {"status", "exec", "set", "orphan"} => r.op = "password"
  /\ r.pc = "config" => r.op = "identity"

TypeInv == TypeOK /\ \A c \in Caller : ShapeOf(call[c])

\* What a node can answer with are guests.
LEMMA ListsGuests == \A n, kind : GuestsAt(n, kind) \subseteq Guest
BY DEF GuestsAt, OfKind, Guest

\* A call that begins, or that does nothing.
LEMMA CallType ==
  ASSUME NEW pc \in Pc, NEW op \in Op, NEW kind \in Kind,
         NEW guest \in Guest \cup {None}, NEW word \in Password \cup {None}
  PROVE  CallAt(pc, op, kind, guest, word) \in CallRecord
<1>1. <<>> \in Blocks
  BY DEF Blocks
<1> QED
  BY <1>1 DEF CallAt, CallRecord, Op

\* A caller that does nothing.
LEMMA NoCallType ==
  /\ NoCall \in CallRecord /\ ShapeOf(NoCall)
  /\ NoCall.pc = "idle" /\ NoCall.kind = "vm"
  /\ NoHistory \in History
<1>1. NoCall \in CallRecord
  BY CallType DEF NoCall, Pc, Op, Kind
<1> QED
  BY <1>1 DEF NoCall, CallAt, ShapeOf, NoHistory, History

\* Where the guests of a kind are.
LEMMA PlacesType ==
  ASSUME TypeOK, NEW kind
  PROVE  Places(kind) \in History
BY DEF Places, History, TypeOK

\* A step of one caller that leaves the cluster alone.
LEMMA CallerTypes ==
  ASSUME TypeInv, NEW c \in Caller, NEW r \in CallRecord, ShapeOf(r),
         call' = [call EXCEPT ![c] = r],
         was' \in [Caller -> History], seen' \in [Kind -> SUBSET Guest],
         UNCHANGED cluster
  PROVE  TypeInv'
<1>1. call' \in [Caller -> CallRecord]
  BY DEF TypeInv, TypeOK
<1>2. TypeOK'
  BY <1>1 DEF TypeInv, TypeOK, cluster, History
<1>3. ASSUME NEW w \in Caller PROVE ShapeOf(call'[w])
  <2>1. call'[w] = IF w = c THEN r ELSE call[w]
    BY DEF TypeInv, TypeOK
  <2> QED
    BY <2>1 DEF TypeInv
<1> QED
  BY <1>2, <1>3 DEF TypeInv

\* A listing begins.
LEMMA BeginTypes ==
  ASSUME TypeInv, NEW c \in Caller, NEW op \in Op, NEW kind \in Kind,
         NEW guest \in Guest \cup {None}, NEW word \in Password \cup {None},
         ShapeOf(CallAt("nodes", op, kind, guest, word)),
         Begin(c, op, kind, guest, word),
         seen' \in [Kind -> SUBSET Guest], UNCHANGED cluster
  PROVE  TypeInv'
<1>1. Places(kind) \in History
  BY PlacesType DEF TypeInv
<1>2. was' \in [Caller -> History]
  BY <1>1 DEF Begin, TypeInv, TypeOK, History
<1> QED
  BY <1>2, CallType, CallerTypes DEF Begin, Pc

\* A call ends.
LEMMA EndTypes ==
  ASSUME TypeInv, NEW c \in Caller, End(c),
         seen' \in [Kind -> SUBSET Guest], UNCHANGED cluster
  PROVE  TypeInv'
<1>1. was' \in [Caller -> History]
  BY NoCallType DEF End, TypeInv, TypeOK, History
<1> QED
  BY <1>1, NoCallType, CallerTypes DEF End

\* The poll goes on to its next listing, or ends.
LEMMA PollGoesOnTypes ==
  ASSUME TypeInv, PollGoesOn, seen' \in [Kind -> SUBSET Guest], UNCHANGED cluster
  PROVE  TypeInv'
<1>1. Poller \in Caller
  BY DEF Caller
<1>2. ShapeOf(CallAt("nodes", "poll", "ct", None, None))
  BY DEF CallAt, ShapeOf
<1> QED
  BY <1>1, <1>2, BeginTypes, EndTypes DEF PollGoesOn, Op, Kind

\* Nobody calls at the beginning.
LEMMA InitTypes == Init => TypeInv
<1> SUFFICES ASSUME Init PROVE TypeInv
  OBVIOUS
<1>1. TypeOK
  BY NoCallType DEF Init, TypeOK, History
<1> QED
  BY <1>1, NoCallType DEF Init, TypeInv
\* Every step keeps the types and the shape of the calls.
LEMMA StepTypes ==
  ASSUME TypeInv, [Next]_vars
  PROVE  TypeInv'
<1>a. seen \in [Kind -> SUBSET Guest] /\ was \in [Caller -> History]
  BY DEF TypeInv, TypeOK, History
<1>b. Handler \subseteq Caller /\ Poller \in Caller
  BY DEF Caller
<1>c. \A c \in Caller : call[c] \in CallRecord /\ ShapeOf(call[c])
  BY DEF TypeInv, TypeOK
<1>Request. ASSUME NEW h \in Handler, Request(h) PROVE TypeInv'
  <2>Begin. ASSUME NEW kind \in Kind, Begin(h, "list", kind, None, None) PROVE TypeInv'
    <3>1. ShapeOf(CallAt("nodes", "list", kind, None, None))
      BY DEF ShapeOf, CallAt
    <3> QED
      BY <1>Request, <1>a, <1>b, <2>Begin, <3>1, BeginTypes DEF Request, Op
  <2>2. ASSUME NEW v \in Vm, Begin(h, "identity", "vm", v, None) PROVE TypeInv'
    <3>1. ShapeOf(CallAt("nodes", "identity", "vm", v, None))
      BY DEF ShapeOf, CallAt
    <3> QED
      BY <1>Request, <1>a, <1>b, <2>2, <3>1, BeginTypes DEF Request, Op, Kind, Guest
  <2>3.
      ASSUME NEW ct \in Ct, NEW w \in Password, Begin(h, "password", "ct", ct, w) PROVE TypeInv'
    <3>1. ShapeOf(CallAt("nodes", "password", "ct", ct, w))
      BY DEF ShapeOf, CallAt
    <3> QED
      BY <1>Request, <1>a, <1>b, <2>3, <3>1, BeginTypes DEF Request, Op, Kind, Guest
  <2> QED
    BY <1>Request, <2>Begin, <2>2, <2>3 DEF Request
<1>PollBegins. CASE PollBegins
  <2>1. ShapeOf(CallAt("nodes", "poll", "vm", None, None))
    BY DEF ShapeOf, CallAt
  <2> QED
    BY <1>PollBegins, <1>a, <1>b, <2>1, BeginTypes DEF PollBegins, Op, Kind
<1>Nodes. ASSUME NEW c \in Caller, Nodes(c) PROVE TypeInv'
  <2> DEFINE r == [call[c] EXCEPT !.pc = "list", !.todo = Node]
  <2>1. r \in CallRecord /\ ShapeOf(r)
    BY <1>c DEF CallRecord, Pc, ShapeOf
  <2>2. call' = [call EXCEPT ![c] = r]
    BY <1>Nodes DEF Nodes
  <2> QED
    BY <1>Nodes, <1>a, <2>1, <2>2, CallerTypes DEF Nodes
<1>ListNode. ASSUME NEW c \in Caller, ListNode(c) PROVE TypeInv'
  <2>1.
      PICK n \in call[c].todo, lost \in SUBSET Guest :
        call' = [call EXCEPT ![c].todo = @ \ {n}, ![c].dropped = @ \cup lost,
                   ![c].found = Append(@, [node |-> n,
                                           guests |-> GuestsAt(n, call[c].kind) \ lost])]
    BY <1>ListNode, ListsGuests DEF ListNode
  <2> DEFINE b == [node |-> n, guests |-> GuestsAt(n, call[c].kind) \ lost]
             r == [call[c] EXCEPT !.todo = @ \ {n}, !.dropped = @ \cup lost,
                                  !.found = Append(@, b)]
  <2>2. b \in Block /\ lost \subseteq Guest
    BY <1>c, ListsGuests DEF CallRecord, GuestsAt, OfKind, Guest, Block
  <2>3. Append(call[c].found, b) \in Blocks
    BY <1>c, <2>2 DEF CallRecord, Blocks
  <2>4. r \in CallRecord /\ ShapeOf(r)
    <3> HIDE DEF b
    <3> QED
      BY <1>c, <2>2, <2>3 DEF CallRecord, ShapeOf
  <2>5. call' = [call EXCEPT ![c] = r]
    BY <2>1
  <2> QED
    BY <1>ListNode, <1>a, <2>4, <2>5, CallerTypes DEF ListNode
<1>SkipNode. ASSUME NEW c \in Caller, SkipNode(c) PROVE TypeInv'
  <2>1. PICK n \in call[c].todo :
          call' = [call EXCEPT ![c].todo = @ \ {n}, ![c].skipped = @ \cup {n}]
    BY <1>SkipNode DEF SkipNode
  <2> DEFINE r == [call[c] EXCEPT !.todo = @ \ {n}, !.skipped = @ \cup {n}]
  <2>2. r \in CallRecord /\ ShapeOf(r)
    BY <1>c DEF CallRecord, ShapeOf
  <2>3. call' = [call EXCEPT ![c] = r]
    BY <2>1
  <2> QED
    BY <1>SkipNode, <1>a, <2>2, <2>3, CallerTypes DEF SkipNode
<1>PollNodesFail. CASE PollNodesFail
  BY <1>PollNodesFail, <1>a, PollGoesOnTypes DEF PollNodesFail
<1>PollListed. CASE PollListed
  <2>1. AllFound(Poller) \subseteq Guest
    BY DEF AllFound
  <2> QED
    BY <1>PollListed, <1>a, <2>1, PollGoesOnTypes DEF PollListed
<1>8. ASSUME NEW h \in Handler,
             NodesFail(h) \/ ListAnswered(h) \/ NotFound(h) \/ Config(h) \/ AskFails(h)
               \/ ExecFails(h) \/ PasswordAnswered(h)
      PROVE  TypeInv'
  BY <1>8, <1>a, <1>b, EndTypes
  DEF NodesFail, ListAnswered, NotFound, Config, AskFails, ExecFails, PasswordAnswered
<1>Found. ASSUME NEW h \in Handler, Found(h) PROVE TypeInv'
  <2>1. PICK i \in Entries(h, call[h].guest) :
          call' = [call EXCEPT
            ![h] = [@ EXCEPT !.node = call[h].found[i].node, !.found = <<>>, !.skipped = {}, !.dropped = {},
                             !.pc = IF call[h].op = "identity" THEN "config" ELSE "status"]]
    BY <1>Found DEF Found
  <2> DEFINE pc == IF call[h].op = "identity" THEN "config" ELSE "status"
             r == [call[h] EXCEPT !.node = call[h].found[i].node, !.found = <<>>,
                                  !.skipped = {}, !.dropped = {}, !.pc = pc]
  <2>2. call[h].found[i] \in Block /\ call[h].guest \in Guest
    <3>call. call[h].found \in Seq(Block) /\ call[h].guest \in Guest \cup {None}
      BY <1>b, <1>c DEF CallRecord, Blocks
    <3>callFound. i \in DOMAIN call[h].found /\ call[h].guest \in call[h].found[i].guests
      BY DEF Entries
    <3>callBlock. call[h].found[i] \in Block
      BY <3>call, <3>callFound
    <3> QED
      BY <3>call, <3>callFound, <3>callBlock DEF Block
  <2>3. call[h].op \in {"identity", "password"}
    BY <1>b, <1>c, <2>2 DEF ShapeOf
  <2>4. <<>> \in Blocks
    BY DEF Blocks
  <2>5. r \in CallRecord /\ ShapeOf(r)
    <3>1. pc \in Pc /\ call[h].found[i].node \in Node
      BY <2>2 DEF Pc, Block
    <3>2. /\ r.op = call[h].op /\ r.kind = call[h].kind /\ r.guest = call[h].guest
          /\ r.word = call[h].word /\ r.pc = pc
      BY <1>b, <1>c DEF CallRecord
    <3>3. ShapeOf(r)
      BY <1>b, <1>c, <2>3, <3>2 DEF ShapeOf
    <3>4. r \in CallRecord
      <4> HIDE DEF pc
      <4> QED
        BY <1>b, <1>c, <2>4, <3>1 DEF CallRecord
    <3> QED
      BY <3>3, <3>4
  <2>6. call' = [call EXCEPT ![h] = r]
    BY <2>1
  <2> QED
    BY <1>Found, <1>a, <1>b, <2>5, <2>6, CallerTypes DEF Found
<1>StatusRunning. ASSUME NEW h \in Handler, StatusRunning(h) PROVE TypeInv'
  <2>1. ASSUME NEW w \in Caller PROVE call'[w] \in CallRecord /\ ShapeOf(call'[w])
    <3>1. "exec" \in Pc /\ "status" \in Pc
      BY DEF Pc
    <3>2. ASSUME NEW b \in BOOLEAN
          PROVE  /\ [call[w] EXCEPT !.alone = b] \in CallRecord
                 /\ ShapeOf([call[w] EXCEPT !.alone = b])
      BY <1>c DEF CallRecord, ShapeOf
    <3>3. ASSUME NEW b \in BOOLEAN, w = h
          PROVE  /\ [call[w] EXCEPT !.pc = "exec", !.alone = b] \in CallRecord
                 /\ ShapeOf([call[w] EXCEPT !.pc = "exec", !.alone = b])
      BY <1>StatusRunning, <1>c, <3>1, <3>3 DEF StatusRunning, CallRecord, ShapeOf
    <3> QED
      BY <1>StatusRunning, <1>c, <3>2, <3>3 DEF StatusRunning
  <2>2. call' \in [Caller -> CallRecord]
    BY <1>StatusRunning, <2>1 DEF StatusRunning
  <2> QED
    BY <1>StatusRunning, <2>1, <2>2 DEF StatusRunning, TypeInv, TypeOK, cluster
<1>ChpasswdSets. ASSUME NEW h \in Handler, ChpasswdSets(h) PROVE TypeInv'
  <2>call. call[h].op = "password" /\ call[h].word \in Password
    BY <1>ChpasswdSets, <1>b, <1>c DEF ChpasswdSets, ShapeOf
  <2>newPassword. password' \in [Ct -> Password]
    BY <1>ChpasswdSets, <2>call DEF ChpasswdSets, TypeInv, TypeOK
  <2>End. CASE End(h)
    <3>newCall. call' = [call EXCEPT ![h] = NoCall]
      BY <2>End DEF End
    <3>newWas. was' \in [Caller -> History]
      BY <1>a, <2>End, NoCallType DEF End
    <3>newCallCaller.
        call' \in [Caller -> CallRecord] /\ \A c \in Caller : ShapeOf(call'[c])
      BY <1>b, <1>c, <3>newCall, NoCallType DEF TypeInv, TypeOK
    <3> QED
      BY <1>ChpasswdSets, <2>newPassword, <3>newWas, <3>newCallCaller
      DEF ChpasswdSets, TypeInv, TypeOK, History
  <2>isNewCall. CASE call' = [call EXCEPT ![h].pc = "set"] /\ UNCHANGED was
    <3> DEFINE r == [call[h] EXCEPT !.pc = "set"]
    <3>CallRecord. r \in CallRecord /\ ShapeOf(r)
      <4>1. r.pc \in Pc
        BY <1>b, <1>c DEF CallRecord, Pc
      <4> QED
        BY <1>b, <1>c, <2>call, <4>1 DEF CallRecord, ShapeOf
    <3>newCall. call' = [call EXCEPT ![h] = r]
      BY <2>isNewCall
    <3>newCallCaller.
        call' \in [Caller -> CallRecord] /\ \A c \in Caller : ShapeOf(call'[c])
      BY <1>b, <1>c, <3>CallRecord, <3>newCall DEF TypeInv, TypeOK
    <3> QED
      BY <1>ChpasswdSets, <2>newPassword, <2>isNewCall, <3>newCallCaller
      DEF ChpasswdSets, TypeInv, TypeOK
  <2> QED
    BY <1>ChpasswdSets, <2>End, <2>isNewCall DEF ChpasswdSets
<1>Abort. ASSUME NEW h \in Handler, Abort(h) PROVE TypeInv'
  <2>isCall. CASE call[h].pc = "exec"
    <3> DEFINE r == [call[h] EXCEPT !.pc = "orphan"]
    <3>CallRecord. r \in CallRecord /\ ShapeOf(r)
      <4>1. r.pc \in Pc
        BY <1>b, <1>c DEF CallRecord, Pc
      <4> QED
        BY <1>b, <1>c, <2>isCall, <4>1 DEF CallRecord, ShapeOf
    <3>newCall. call' = [call EXCEPT ![h] = r]
      BY <1>Abort, <2>isCall DEF Abort
    <3> QED
      BY <1>Abort, <1>a, <1>b, <2>isCall, <3>CallRecord, <3>newCall, CallerTypes DEF Abort
  <2>isPc. CASE call[h].pc # "exec"
    BY <1>Abort, <1>a, <1>b, <2>isPc, EndTypes DEF Abort
  <2> QED
    BY <2>isCall, <2>isPc
<1>Restart. CASE Restart
  <2>1. seen' \in [Kind -> SUBSET Guest]
    BY <1>Restart DEF Restart
  <2> QED
    BY <1>Restart, <2>1, NoCallType DEF Restart, TypeInv, TypeOK, History, cluster
<1>14. ASSUME NEW g \in Guest,
              Destroy(g) \/ \E n \in Node : Migrate(g, n) \/ Create(g, n)
       PROVE  TypeInv'
  <2>newPlace. place' \in [Guest -> Node \cup {None}]
    BY <1>14 DEF Destroy, Migrate, Create, TypeInv, TypeOK
  <2>Records. Records(g) /\ Change
    BY <1>14 DEF Destroy, Migrate, Create
  <2>newWas. was' \in [Caller -> History]
    BY <1>a, <2>newPlace, <2>Records DEF Records, History
  <2>newChanges. changes' \in 0 .. MaxChanges /\ UNCHANGED <<seen, call>>
    BY <2>Records DEF Change, TypeInv, TypeOK
  <2>newRunning. running' \subseteq Ct
    BY <1>14 DEF Destroy, Migrate, Create, TypeInv, TypeOK
  <2>newPassword. password' \in [Ct -> Password]
    BY <1>14 DEF Destroy, Migrate, Create, TypeInv, TypeOK
  <2> QED
    BY <2>newPlace, <2>newWas, <2>newChanges, <2>newRunning, <2>newPassword
    DEF TypeInv, TypeOK, History
<1>StartOrStop. ASSUME NEW ct \in Ct, StartOrStop(ct) PROVE TypeInv'
  BY <1>StartOrStop DEF StartOrStop, Change, TypeInv, TypeOK
<1>Unchanged. CASE UNCHANGED vars
  BY <1>Unchanged DEF vars, TypeInv, TypeOK
<1> QED
  BY <1>Request, <1>PollBegins, <1>Nodes, <1>ListNode, <1>SkipNode, <1>PollNodesFail,
     <1>PollListed, <1>8, <1>Found, <1>StatusRunning, <1>ChpasswdSets, <1>Abort,
     <1>Restart, <1>14, <1>StartOrStop, <1>Unchanged
  DEF Next

\* TypeOK holds of every behaviour.
THEOREM TypeCorrect == Spec => []TypeOK
<1>1. TypeInv /\ [Next]_vars => TypeInv'
  BY StepTypes
<1>2. TypeInv => TypeOK
  BY DEF TypeInv
<1> QED
  BY InitTypes, <1>1, <1>2, PTL DEF Spec
-----------------------------------------------------------------------------
(* Listings. *)

\* What has been listed so far: the nodes that answered, once each, and of every guest
\* that a node answered with, that it was there; a guest that was nowhere else is listed
\* or its entry was dropped.
Faithful(c) ==
  LET found == call[c].found
  IN  /\ \A n \in Node \ (call[c].todo \cup call[c].skipped) :
           \E i \in DOMAIN found : found[i].node = n
      /\ \A i \in DOMAIN found : found[i].node \notin call[c].todo
      /\ \A i, j \in DOMAIN found : found[i].node = found[j].node => i = j
      /\ \A i \in DOMAIN found, g \in OfKind(call[c].kind) :
           /\ g \in found[i].guests => found[i].node \in was[c][g]
           /\ was[c][g] = {found[i].node} => g \in found[i].guests \cup call[c].dropped

\* The history of a call covers the present, and only the guests it is about.
Knows(c) ==
  /\ call[c].pc # "idle" => \A g \in OfKind(call[c].kind) : place[g] \in was[c][g]
  /\ \A g \in Guest \ OfKind(call[c].kind) : was[c][g] = {}
  /\ call[c].pc = "nodes" => call[c].found = <<>>
  /\ call[c].pc = "list" => Faithful(c)

\* A caller about which nothing changes.
LEMMA KnowsKept ==
  ASSUME NEW c \in Caller, Knows(c), call'[c] = call[c], was'[c] = was[c], UNCHANGED place
  PROVE  Knows(c)'
BY DEF Knows, Faithful, Entries

\* A caller that ends.
LEMMA KnowsIdle ==
  ASSUME NEW c \in Caller, call'[c] = NoCall, was'[c] = NoHistory
  PROVE  Knows(c)'
BY NoCallType DEF Knows, NoHistory

\* The callers when one of them ends.
LEMMA KnowsEnd ==
  ASSUME TypeInv, \A w \in Caller : Knows(w), NEW c \in Caller, End(c), UNCHANGED place,
         NEW w \in Caller
  PROVE  Knows(w)'
<1>1. CASE w = c
  BY <1>1, KnowsIdle DEF End, TypeInv, TypeOK
<1>2. CASE w # c
  BY <1>2, KnowsKept DEF End, TypeInv, TypeOK
<1> QED
  BY <1>1, <1>2

\* A caller that begins a listing.
LEMMA KnowsBegin ==
  ASSUME TypeInv, \A w \in Caller : Knows(w), NEW c \in Caller, NEW op, NEW kind, NEW guest,
         NEW word, Begin(c, op, kind, guest, word), UNCHANGED place, NEW w \in Caller
  PROVE  Knows(w)'
<1>1. CASE w = c
  <2>1. /\ call'[w].pc = "nodes" /\ call'[w].kind = kind /\ call'[w].found = <<>>
        /\ was'[w] = Places(kind)
    BY <1>1 DEF Begin, CallAt, TypeInv, TypeOK
  <2>2. OfKind(kind) \subseteq Guest
    BY DEF OfKind, Guest
  <2> QED
    BY <2>1, <2>2 DEF Knows, Places
<1>2. CASE w # c
  BY <1>2, KnowsKept DEF Begin, TypeInv, TypeOK
<1> QED
  BY <1>1, <1>2

\* A caller that goes on after its listing.
LEMMA KnowsOn ==
  ASSUME NEW c \in Caller, Knows(c), call[c].pc # "idle", call'[c].kind = call[c].kind,
         call'[c].pc \notin {"nodes", "list"}, was'[c] = was[c], UNCHANGED place
  PROVE  Knows(c)'
BY DEF Knows

\* A guest that moves while the caller knows of it.
LEMMA KnowsMoved ==
  ASSUME TypeInv, NEW c \in Caller, Knows(c), NEW g \in Guest, NEW n \in Node \cup {None},
         place' = [place EXCEPT ![g] = n], Records(g), UNCHANGED call
  PROVE  Knows(c)'
<1> DEFINE Grown(x) == was'[c][x] = IF x = g /\ was[c][x] # {} THEN was[c][x] \cup {n}
                                    ELSE was[c][x]
<1>Grown. \A x \in Guest : Grown(x)
  BY DEF Records, TypeInv, TypeOK
<1>newPlace. \A x \in Guest : place'[x] = IF x = g THEN n ELSE place[x]
  BY DEF TypeInv, TypeOK
<1>OfKind. OfKind(call[c].kind) \subseteq Guest
  BY DEF OfKind, Guest
<1>call. call[c].pc # "idle" => \A x \in OfKind(call[c].kind) : place'[x] \in was'[c][x]
  <2>suffices. SUFFICES ASSUME call[c].pc # "idle", NEW x \in OfKind(call[c].kind)
                        PROVE  place'[x] \in was'[c][x]
    OBVIOUS
  <2>place. place[x] \in was[c][x]
    BY <2>suffices DEF Knows
  <2>Grown. Grown(x) /\ place'[x] = IF x = g THEN n ELSE place[x]
    BY <1>Grown, <1>newPlace, <1>OfKind, <2>suffices
  <2> QED
    BY <2>place, <2>Grown
<1>newWas. \A x \in Guest \ OfKind(call[c].kind) : was'[c][x] = {}
  BY <1>Grown DEF Knows
<1>Faithful. ASSUME call[c].pc = "list" PROVE Faithful(c)'
  <2>Faithful. Faithful(c) /\ \A x \in OfKind(call[c].kind) : was[c][x] # {}
    BY <1>Faithful DEF Knows
  <2>was. ASSUME NEW x \in OfKind(call[c].kind), NEW m
          PROVE  /\ m \in was[c][x] => m \in was'[c][x]
                 /\ was'[c][x] = {m} => was[c][x] = {m}
    BY <1>Grown, <1>OfKind, <2>Faithful, <2>was
  <2> QED
    BY <2>Faithful, <2>was DEF Faithful
<1> QED
  BY <1>call, <1>newWas, <1>Faithful DEF Knows

\* A node that is listed.
LEMMA KnowsListed ==
  ASSUME TypeInv, NEW c \in Caller, Knows(c), ListNode(c)
  PROVE  Knows(c)'
<1> DEFINE old == call[c].found
           new == call'[c].found
           kind == call[c].kind
<1>newCall.
    PICK n \in call[c].todo, lost \in SUBSET Guest :
      call' = [call EXCEPT ![c].todo = @ \ {n}, ![c].dropped = @ \cup lost,
                 ![c].found = Append(@, [node |-> n,
                                         guests |-> GuestsAt(n, call[c].kind) \ lost])]
  BY ListsGuests DEF ListNode
<1>call. call[c] \in CallRecord /\ old \in Seq(Block) /\ call[c].todo \subseteq Node
  BY DEF TypeInv, TypeOK, CallRecord, Blocks
<1>newCallPc.
    /\ call'[c].pc = "list" /\ call'[c].kind = kind /\ call'[c].skipped = call[c].skipped
    /\ call'[c].todo = call[c].todo \ {n} /\ call'[c].dropped = call[c].dropped \cup lost
    /\ new = Append(old, [node |-> n, guests |-> GuestsAt(n, kind) \ lost])
  BY <1>newCall, <1>call DEF ListNode, TypeInv, TypeOK, CallRecord
<1>place. UNCHANGED <<place, was>> /\ call[c].pc = "list"
  BY DEF ListNode, cluster
<1>new. /\ DOMAIN new = DOMAIN old \cup {Len(old) + 1} /\ Len(old) + 1 \notin DOMAIN old
        /\ \A i \in DOMAIN old : new[i] = old[i]
        /\ new[Len(old) + 1] = [node |-> n, guests |-> GuestsAt(n, kind) \ lost]
  <2> HIDE DEF new
  <2> QED
    BY <1>call, <1>newCallPc
<1> DEFINE k == Len(old) + 1
<1>newNode. new[k].node = n /\ new[k].guests = GuestsAt(n, kind) \ lost
  BY <1>new
<1> HIDE DEF new, k
<1>Faithful. Faithful(c)
  BY <1>place DEF Knows
<1>newOld. DOMAIN new = DOMAIN old \cup {k} /\ k \notin DOMAIN old
  BY <1>new DEF k
<1>node.
    \A m \in Node \ (call'[c].todo \cup call'[c].skipped) : \E i \in DOMAIN new : new[i].node = m
  BY <1>call, <1>newCallPc, <1>new, <1>newNode, <1>Faithful, <1>newOld DEF Faithful
<1>newNewCall. \A i \in DOMAIN new : new[i].node \notin call'[c].todo
  BY <1>newCallPc, <1>new, <1>newNode, <1>Faithful, <1>newOld DEF Faithful
<1>distinctNodes. \A i, j \in DOMAIN new : new[i].node = new[j].node => i = j
  BY <1>new, <1>newNode, <1>Faithful, <1>newOld DEF Faithful
<1>newGuests. ASSUME NEW i \in DOMAIN new, NEW g \in OfKind(kind)
              PROVE  /\ g \in new[i].guests => new[i].node \in was[c][g]
                     /\ was[c][g] = {new[i].node} => g \in new[i].guests \cup call'[c].dropped
  <2>same. CASE i = k
    <3>place. place[g] \in was[c][g]
      BY <1>place DEF Knows
    <3> QED
      BY <1>newCallPc, <1>newNode, <2>same, <3>place DEF GuestsAt
  <2>other. CASE i # k
    BY <1>newCallPc, <1>new, <1>Faithful, <1>newOld, <2>other DEF Faithful
  <2> QED
    BY <2>same, <2>other
<1>faithfulNext. Faithful(c)'
  BY <1>newCallPc, <1>place, <1>node, <1>newNewCall, <1>distinctNodes, <1>newGuests
  DEF Faithful, new
<1> QED
  BY <1>newCallPc, <1>place, <1>faithfulNext DEF Knows

\* A node that is left out.
LEMMA KnowsSkipped ==
  ASSUME TypeInv, NEW c \in Caller, Knows(c), SkipNode(c)
  PROVE  Knows(c)'
<1>newCall. PICK n \in call[c].todo :
              call' = [call EXCEPT ![c].todo = @ \ {n}, ![c].skipped = @ \cup {n}]
  BY DEF SkipNode
<1>newCallPc. /\ call'[c].pc = "list" /\ call'[c].kind = call[c].kind
              /\ call'[c].skipped = call[c].skipped \cup {n}
              /\ call'[c].todo = call[c].todo \ {n} /\ call'[c].found = call[c].found
              /\ call'[c].dropped = call[c].dropped
  BY <1>newCall DEF SkipNode, TypeInv, TypeOK, CallRecord
<1>place. UNCHANGED <<place, was>> /\ call[c].pc = "list"
  BY DEF SkipNode, cluster
<1>faithfulNext. Faithful(c)'
  BY <1>newCallPc, <1>place DEF Knows, Faithful
<1> QED
  BY <1>newCallPc, <1>place, <1>faithfulNext DEF Knows
\* In the initial states nobody has listed anything.
LEMMA InitKnows == Init => \A c \in Caller : Knows(c)
BY NoCallType DEF Init, Knows, NoHistory

\* Every step keeps what the callers know.
LEMMA StepKnows ==
  ASSUME TypeInv, \A c \in Caller : Knows(c), [Next]_vars
  PROVE  (\A c \in Caller : Knows(c))'
<1> SUFFICES ASSUME NEW w \in Caller PROVE Knows(w)'
  OBVIOUS
<1>a. Handler \subseteq Caller /\ Poller \in Caller
  BY DEF Caller
<1>b. call \in [Caller -> CallRecord]
  BY DEF TypeInv, TypeOK
<1>Request. ASSUME NEW h \in Handler, Request(h) PROVE Knows(w)'
  BY <1>Request, <1>a, KnowsBegin DEF Request, cluster
<1>PollBegins. CASE PollBegins
  BY <1>PollBegins, <1>a, KnowsBegin DEF PollBegins, cluster
<1>Nodes. ASSUME NEW c \in Caller, Nodes(c) PROVE Knows(w)'
  <2>same. CASE w = c
    <3>newCall. /\ call'[c].pc = "list" /\ call'[c].todo = Node
                /\ call'[c].kind = call[c].kind /\ call'[c].found = <<>>
      BY <1>Nodes, <1>b DEF Nodes, Knows, CallRecord
    <3>place. UNCHANGED <<place, was>> /\ call[c].pc = "nodes"
      BY <1>Nodes DEF Nodes, cluster
    <3>newCallFound. DOMAIN call'[c].found = {}
      BY <3>newCall
    <3>faithfulNext. Faithful(c)'
      BY <3>newCall, <3>newCallFound DEF Faithful
    <3> QED
      BY <2>same, <3>newCall, <3>place, <3>faithfulNext DEF Knows
  <2>other. CASE w # c
    BY <1>Nodes, <1>b, <2>other, KnowsKept DEF Nodes, cluster
  <2> QED
    BY <2>same, <2>other
<1>ListNode. ASSUME NEW c \in Caller, ListNode(c) PROVE Knows(w)'
  <2>1. CASE w = c
    BY <1>ListNode, <2>1, KnowsListed
  <2>2. CASE w # c
    BY <1>ListNode, <1>b, <2>2, KnowsKept DEF ListNode, cluster
  <2> QED
    BY <2>1, <2>2
<1>SkipNode. ASSUME NEW c \in Caller, SkipNode(c) PROVE Knows(w)'
  <2>1. CASE w = c
    BY <1>SkipNode, <2>1, KnowsSkipped
  <2>2. CASE w # c
    BY <1>SkipNode, <1>b, <2>2, KnowsKept DEF SkipNode, cluster
  <2> QED
    BY <2>1, <2>2
<1>PollNodesFailOrPollListed. CASE PollNodesFail \/ PollListed
  BY <1>PollNodesFailOrPollListed, <1>a, KnowsBegin, KnowsEnd
  DEF PollNodesFail, PollListed, PollGoesOn, cluster
<1>7. ASSUME NEW h \in Handler,
             NodesFail(h) \/ ListAnswered(h) \/ NotFound(h) \/ Config(h) \/ AskFails(h)
               \/ ExecFails(h) \/ PasswordAnswered(h)
      PROVE  Knows(w)'
  BY <1>7, <1>a, KnowsEnd
  DEF NodesFail, ListAnswered, NotFound, Config, AskFails, ExecFails, PasswordAnswered,
      cluster
<1>Found. ASSUME NEW h \in Handler, Found(h) PROVE Knows(w)'
  <2>place. UNCHANGED <<place, was>> /\ call[h].pc = "list"
    BY <1>Found DEF Found, Listed, cluster
  <2>same. CASE w = h
    <3>newCall. call'[h].kind = call[h].kind /\ call'[h].pc \in {"config", "status"}
      BY <1>Found, <1>a, <1>b DEF Found, CallRecord
    <3> QED
      BY <1>a, <2>place, <2>same, <3>newCall, KnowsOn
  <2>other. CASE w # h
    BY <1>Found, <1>b, <2>place, <2>other, KnowsKept DEF Found
  <2> QED
    BY <2>same, <2>other
<1>StatusRunning. ASSUME NEW h \in Handler, StatusRunning(h) PROVE Knows(w)'
  <2>place. UNCHANGED <<place, was>>
    BY <1>StatusRunning DEF StatusRunning, cluster
  <2>same. CASE w = h
    <3>newCall.
        call'[h].kind = call[h].kind /\ call'[h].pc = "exec" /\ call[h].pc = "status"
      BY <1>StatusRunning, <1>a, <1>b DEF StatusRunning, CallRecord
    <3> QED
      BY <1>a, <2>place, <2>same, <3>newCall, KnowsOn
  <2>isHandler. CASE w # h /\ w \in Handler /\ Executes(w, call[h].guest)
    <3>newCall. call'[w] = [call[w] EXCEPT !.alone = FALSE]
      BY <1>StatusRunning, <2>isHandler DEF StatusRunning
    <3>newCallKind. call'[w].kind = call[w].kind /\ call'[w].pc = call[w].pc
      BY <1>b, <3>newCall DEF CallRecord
    <3>call. call[w].pc \in {"exec", "set", "orphan"}
      BY <2>isHandler DEF Executes
    <3> QED
      BY <2>place, <3>newCallKind, <3>call, KnowsOn
  <2>isExecutes. CASE w # h /\ ~(w \in Handler /\ Executes(w, call[h].guest))
    <3>1. call'[w] = call[w]
      BY <1>StatusRunning, <2>isExecutes DEF StatusRunning
    <3> QED
      BY <2>place, <3>1, KnowsKept
  <2> QED
    BY <2>same, <2>isHandler, <2>isExecutes
<1>10. ASSUME NEW h \in Handler, NEW pc \in {"set", "orphan"}, call[h].pc = "exec",
              call' = [call EXCEPT ![h].pc = pc], UNCHANGED <<was, place>>
       PROVE  Knows(w)'
  <2>1. CASE w = h
    <3>1. call'[h].kind = call[h].kind /\ call'[h].pc = pc
      BY <1>10, <1>a, <1>b DEF CallRecord
    <3> QED
      BY <1>10, <1>a, <2>1, <3>1, KnowsOn
  <2>2. CASE w # h
    BY <1>10, <1>b, <2>2, KnowsKept
  <2> QED
    BY <2>1, <2>2
<1>ChpasswdSets. ASSUME NEW h \in Handler, ChpasswdSets(h) PROVE Knows(w)'
  BY <1>ChpasswdSets, <1>a, <1>10, KnowsEnd DEF ChpasswdSets
<1>Abort. ASSUME NEW h \in Handler, Abort(h) PROVE Knows(w)'
  BY <1>Abort, <1>a, <1>10, KnowsEnd DEF Abort, cluster
<1>Restart. CASE Restart
  BY <1>Restart, KnowsIdle DEF Restart
<1>14. ASSUME NEW g \in Guest,
              Destroy(g) \/ \E n \in Node : Migrate(g, n) \/ Create(g, n)
       PROVE  Knows(w)'
  BY <1>14, KnowsMoved DEF Destroy, Migrate, Create, Change
<1>StartOrStop. ASSUME NEW ct \in Ct, StartOrStop(ct) PROVE Knows(w)'
  BY <1>StartOrStop, KnowsKept DEF StartOrStop, Change
<1>Unchanged. CASE UNCHANGED vars
  BY <1>Unchanged, KnowsKept DEF vars
<1> QED
  BY <1>Request, <1>PollBegins, <1>Nodes, <1>ListNode, <1>SkipNode,
     <1>PollNodesFailOrPollListed, <1>7, <1>Found, <1>StatusRunning, <1>ChpasswdSets,
     <1>Abort, <1>Restart, <1>14, <1>StartOrStop, <1>Unchanged
  DEF Next

\* What a caller knows of a guest that stays is one entry, with its node.
LEMMA KnowsStayers == (\A c \in Caller : Knows(c)) => StayersListedOnce
<1> SUFFICES ASSUME \A c \in Caller : Knows(c), NEW c \in Caller, NEW n \in Node,
                    call[c].pc = "list", n \notin call[c].todo,
                    NEW g \in OfKind(call[c].kind), Stayed(c, g, n)
             PROVE  \E i \in Entries(c, g) : Entries(c, g) = {i} /\ call[c].found[i].node = n
  BY DEF StayersListedOnce
<1>Faithful. /\ Faithful(c) /\ was[c][g] = {n}
             /\ n \notin call[c].skipped /\ g \notin call[c].dropped
  BY DEF Knows, Stayed
<1>call. PICK i \in DOMAIN call[c].found : call[c].found[i].node = n
  BY <1>Faithful DEF Faithful
<1>callFound. g \in call[c].found[i].guests
  BY <1>Faithful, <1>call DEF Faithful
<1>only. ASSUME NEW j \in Entries(c, g) PROVE j = i
  <2>call. j \in DOMAIN call[c].found /\ g \in call[c].found[j].guests
    BY DEF Entries
  <2>callFound. call[c].found[j].node = n
    BY <1>Faithful, <2>call DEF Faithful
  <2> QED
    BY <1>Faithful, <1>call, <2>call, <2>callFound DEF Faithful
<1>Entries. i \in Entries(c, g)
  BY <1>call, <1>callFound DEF Entries
<1> QED
  BY <1>call, <1>only, <1>Entries

KnownInv == TypeInv /\ \A c \in Caller : Knows(c)

\* Listings miss no guest that stays where it is, and list none of them twice.
THEOREM StayersListed == Spec => []StayersListedOnce
<1>init. Init => KnownInv
  BY InitTypes, InitKnows DEF KnownInv
<1>step. KnownInv /\ [Next]_vars => KnownInv'
  BY StepTypes, StepKnows DEF KnownInv
<1>KnownInv. KnownInv => StayersListedOnce
  BY KnowsStayers DEF KnownInv
<1> QED
  BY <1>init, <1>step, <1>KnownInv, PTL DEF Spec
\* The poll forgets no guest that its listing should have found.
THEOREM PollForgetsForCause == Spec => ForgottenForCause
<1> DEFINE Cause == \A kind \in Kind : \A g \in seen[kind] \ seen'[kind] :
                      \/ seen' = [k \in Kind |-> {}] /\ Restart
                      \/ \A n \in Node : ~Stayed(Poller, g, n)
<1>init. Init => KnownInv
  BY InitTypes, InitKnows DEF KnownInv
<1>step. KnownInv /\ [Next]_vars => KnownInv'
  BY StepTypes, StepKnows DEF KnownInv
<1>PollListed. ASSUME KnownInv, PollListed PROVE Cause
  <2>suffices. SUFFICES ASSUME NEW kind \in Kind, NEW g \in seen[kind] \ seen'[kind],
                               NEW n \in Node, Stayed(Poller, g, n)
                        PROVE  FALSE
    OBVIOUS
  <2>Poller. Poller \in Caller /\ call[Poller].pc = "list" /\ call[Poller].todo = {}
    BY <1>PollListed DEF PollListed, Listed, Caller
  <2>Guest. g \in Guest
    BY <1>PollListed, <2>suffices DEF KnownInv, TypeInv, TypeOK
  <2>OfKind. g \in OfKind(call[Poller].kind)
    BY <1>PollListed, <2>suffices, <2>Poller, <2>Guest DEF KnownInv, Knows, Stayed
  <2>Entries. Entries(Poller, g) # {}
    BY <1>PollListed, <2>suffices, <2>Poller, <2>OfKind, KnowsStayers
    DEF KnownInv, StayersListedOnce
  <2>AllFound. g \in AllFound(Poller)
    BY <2>Guest, <2>Entries DEF AllFound
  <2>newSeen. g \in seen'[kind]
    BY <1>PollListed, <2>suffices, <2>AllFound DEF PollListed, KnownInv, TypeInv, TypeOK
  <2> QED
    BY <2>suffices, <2>newSeen
<1>equal. KnownInv /\ [Next]_vars => [Cause]_vars
  <2> SUFFICES ASSUME KnownInv, Next PROVE Cause \/ UNCHANGED seen
    OBVIOUS
  <2>restart. Restart => Cause
    BY DEF Restart
  <2>listed. PollListed => Cause
    BY <1>PollListed
  <2>requests.
      \A h \in Handler :
        \/ Request(h) \/ NodesFail(h) \/ ListAnswered(h) \/ NotFound(h) \/ Found(h)
        \/ Config(h) \/ AskFails(h) \/ StatusRunning(h) \/ ChpasswdSets(h) \/ ExecFails(h)
        \/ PasswordAnswered(h) \/ Abort(h)
        => UNCHANGED seen
    BY DEF Request, NodesFail, ListAnswered, NotFound, Found, Config, AskFails,
           StatusRunning, ChpasswdSets, ExecFails, PasswordAnswered, Abort
  <2>listings. \A c \in Caller : Nodes(c) \/ ListNode(c) \/ SkipNode(c) => UNCHANGED seen
    BY DEF Nodes, ListNode, SkipNode
  <2>poll. PollBegins \/ PollNodesFail => UNCHANGED seen
    BY DEF PollBegins, PollNodesFail
  <2>moves.
      \A g \in Guest, n \in Node : Destroy(g) \/ Migrate(g, n) \/ Create(g, n) => UNCHANGED seen
    BY DEF Destroy, Migrate, Create, Change
  <2>destroyed. \A g \in Guest : Destroy(g) => UNCHANGED seen
    BY DEF Destroy, Change
  <2>stops. \A ct \in Ct : StartOrStop(ct) => UNCHANGED seen
    BY DEF StartOrStop, Change
  <2> QED
    BY <2>restart, <2>listed, <2>requests, <2>listings, <2>poll, <2>moves, <2>destroyed,
       <2>stops
    DEF Next
<1> QED
  BY <1>init, <1>step, <1>equal, PTL DEF Spec, ForgottenForCause

-----------------------------------------------------------------------------
(* The root password. *)

\* The pct exec of a request that is alone is the only one of its container.
Exclusive ==
  \A h, w \in Handler :
    h # w /\ call[h].alone /\ Executes(h, call[h].guest) => ~Executes(w, call[h].guest)

PasswordInv == KnownInv /\ Exclusive /\ PasswordIsSet

\* Steps that start no pct exec keep exclusion.
LEMMA ExclusiveKept ==
  ASSUME Exclusive,
         \A h \in Handler :
           \/ call'[h].pc \notin {"exec", "set", "orphan"}
           \/ /\ call[h].pc \in {"exec", "set", "orphan"}
              /\ call'[h].guest = call[h].guest /\ call'[h].alone = call[h].alone
  PROVE  Exclusive'
BY DEF Exclusive, Executes

\* Steps that neither answer for pct nor change a password keep what has been set.
LEMMA PasswordKept ==
  ASSUME PasswordIsSet, UNCHANGED password,
         \A h \in Handler :
           \/ call'[h].pc # "set"
           \/ /\ call[h].pc = "set" /\ (call'[h].alone => call[h].alone)
              /\ call'[h].guest = call[h].guest /\ call'[h].word = call[h].word
              /\ None \in was[h][call[h].guest] => None \in was'[h][call[h].guest]
  PROVE  PasswordIsSet'
BY DEF PasswordIsSet

\* Both follow when at most one caller moves, to a step before or after pct exec.
LEMMA BesidePct ==
  ASSUME TypeInv, Exclusive, PasswordIsSet, NEW c \in Caller,
         NEW r, call' = [call EXCEPT ![c] = r], r.pc \notin {"exec", "set", "orphan"},
         UNCHANGED password, \A w \in Caller \ {c} : was'[w] = was[w]
  PROVE  Exclusive' /\ PasswordIsSet'
<1>newCall. \A w \in Caller : call'[w] = IF w = c THEN r ELSE call[w]
  BY DEF TypeInv, TypeOK
<1>Handler. Handler \subseteq Caller
  BY DEF Caller
<1>Exclusive. Exclusive'
  BY <1>newCall, <1>Handler, ExclusiveKept
<1>newCallCall. \A h \in Handler : h = c \/ (call'[h] = call[h] /\ was'[h] = was[h])
  BY <1>newCall, <1>Handler
<1>PasswordIsSet. PasswordIsSet'
  BY <1>newCall, <1>Handler, <1>newCallCall, PasswordKept
<1> QED
  BY <1>Exclusive, <1>PasswordIsSet

\* A listing begins beside the requests that run pct.
LEMMA BeginBesidePct ==
  ASSUME TypeInv, Exclusive, PasswordIsSet, NEW c \in Caller, NEW op, NEW kind, NEW guest,
         NEW word, Begin(c, op, kind, guest, word), UNCHANGED password
  PROVE  Exclusive' /\ PasswordIsSet'
<1>1. CallAt("nodes", op, kind, guest, word).pc = "nodes"
  BY DEF CallAt
<1>2. \A w \in Caller \ {c} : was'[w] = was[w]
  BY DEF Begin, TypeInv, TypeOK
<1> QED
  BY <1>1, <1>2, BesidePct DEF Begin

\* A call ends beside the requests that run pct.
LEMMA EndBesidePct ==
  ASSUME TypeInv, Exclusive, PasswordIsSet, NEW c \in Caller, End(c), UNCHANGED password
  PROVE  Exclusive' /\ PasswordIsSet'
<1>1. \A w \in Caller \ {c} : was'[w] = was[w]
  BY DEF End, TypeInv, TypeOK
<1> QED
  BY <1>1, NoCallType, BesidePct DEF End
\* A pct exec that goes on, with its handler or without.
LEMMA ExecGoesOn ==
  ASSUME TypeInv, Exclusive, NEW h \in Handler, NEW pc \in {"set", "orphan"},
         call[h].pc \in {"exec", "orphan"}, call' = [call EXCEPT ![h].pc = pc]
  PROVE  /\ Exclusive'
         /\ call'[h].pc = pc /\ call'[h].guest = call[h].guest /\ call'[h].word = call[h].word
         /\ call'[h].alone = call[h].alone
         /\ \A w \in Handler \ {h} : call'[w] = call[w]
<1>1. /\ call'[h].pc = pc /\ call'[h].guest = call[h].guest /\ call'[h].word = call[h].word
      /\ call'[h].alone = call[h].alone
      /\ \A w \in Handler \ {h} : call'[w] = call[w]
  BY DEF TypeInv, TypeOK, CallRecord, Caller
<1>2. Exclusive'
  <2>1. ASSUME NEW w \in Handler
        PROVE  \/ call'[w].pc \notin {"exec", "set", "orphan"}
               \/ /\ call[w].pc \in {"exec", "set", "orphan"}
                  /\ call'[w].guest = call[w].guest /\ call'[w].alone = call[w].alone
    BY <1>1
  <2> QED
    BY <2>1, ExclusiveKept
<1> QED
  BY <1>1, <1>2

\* chpasswd sets the password of no container for which another request waits alone.
LEMMA ChpasswdKeeps ==
  ASSUME TypeInv, Exclusive, PasswordIsSet, NEW h \in Handler, ChpasswdSets(h)
  PROVE  Exclusive' /\ PasswordIsSet'
<1> DEFINE ct == call[h].guest
<1>Handler. Handler \subseteq Caller /\ call[h].pc \in {"exec", "orphan"} /\ Executes(h, ct)
  BY DEF ChpasswdSets, Caller, Executes
<1>ct. ct \in Ct
  BY <1>Handler DEF TypeInv, ShapeOf
<1>newPassword. /\ password'[ct] = call[h].word
                /\ \A g : g # ct => password'[g] = password[g]
  BY <1>ct DEF ChpasswdSets, TypeInv, TypeOK
<1>newPasswordNewCall.
    ASSUME NEW w \in Handler \ {h}, call'[w] = call[w], was'[w] = was[w],
           call'[w].pc = "set", call'[w].alone, None \notin was'[w][call'[w].guest]
    PROVE  password'[call'[w].guest] = call'[w].word
  <2>call. call[w].guest # ct
    BY <1>Handler, <1>newPasswordNewCall DEF Exclusive, Executes
  <2>password. password[call[w].guest] = call[w].word
    BY <1>newPasswordNewCall DEF PasswordIsSet
  <2> QED
    BY <1>newPassword, <1>newPasswordNewCall, <2>call, <2>password
<1>isNewCall. CASE call' = [call EXCEPT ![h].pc = "set"] /\ UNCHANGED was
  <2>Exclusive. /\ Exclusive' /\ call'[h].guest = ct /\ call'[h].word = call[h].word
                /\ \A w \in Handler \ {h} : call'[w] = call[w]
    BY <1>Handler, <1>isNewCall, ExecGoesOn
  <2>newPassword. password'[call'[h].guest] = call'[h].word
    BY <1>newPassword, <2>Exclusive
  <2> QED
    BY <1>newPasswordNewCall, <1>isNewCall, <2>Exclusive, <2>newPassword DEF PasswordIsSet
<1>End. CASE End(h)
  <2>newCall. /\ call'[h].pc = "idle"
              /\ \A w \in Handler \ {h} : call'[w] = call[w] /\ was'[w] = was[w]
    BY <1>Handler, <1>End, NoCallType DEF End, TypeInv, TypeOK
  <2>Exclusive. Exclusive'
    BY <2>newCall, ExclusiveKept
  <2> QED
    BY <1>newPasswordNewCall, <2>newCall, <2>Exclusive DEF PasswordIsSet
<1> QED
  BY <1>isNewCall, <1>End DEF ChpasswdSets

\* A pct exec that starts takes note of those that run, and is taken note of.
LEMMA StatusKeeps ==
  ASSUME TypeInv, Exclusive, PasswordIsSet, NEW h \in Handler, StatusRunning(h)
  PROVE  Exclusive' /\ PasswordIsSet'
<1> DEFINE ct == call[h].guest
           others == {w \in Handler \ {h} : Executes(w, ct)}
<1>Handler. Handler \subseteq Caller /\ \A c \in Caller : call[c] \in CallRecord
  BY DEF Caller, TypeInv, TypeOK
<1>call. call[h].pc = "status" /\ UNCHANGED <<password, was>>
  BY DEF StatusRunning, cluster
<1>newCall. call'[h].pc = "exec" /\ call'[h].guest = ct /\ (call'[h].alone => others = {})
  BY <1>Handler DEF StatusRunning, CallRecord
<1>newCallPc. ASSUME NEW w \in Handler, w # h
              PROVE  /\ call'[w].pc = call[w].pc /\ call'[w].guest = call[w].guest
                     /\ call'[w].word = call[w].word
                     /\ call'[w].alone => call[w].alone
                     /\ Executes(w, ct) => ~call'[w].alone
  <2>isOthers. CASE w \in others
    <3>1. call'[w] = [call[w] EXCEPT !.alone = FALSE]
      BY <1>Handler, <1>newCallPc, <2>isOthers DEF StatusRunning
    <3> QED
      BY <1>Handler, <3>1 DEF CallRecord
  <2>others. CASE w \notin others
    <3>1. call'[w] = call[w] /\ ~Executes(w, ct)
      BY <1>Handler, <1>newCallPc, <2>others DEF StatusRunning
    <3> QED
      BY <3>1
  <2> QED
    BY <2>isOthers, <2>others
<1>Exclusive. Exclusive'
  <2> SUFFICES ASSUME NEW u \in Handler, NEW w \in Handler, u # w, call'[u].alone,
                      Executes(u, call[u].guest)', Executes(w, call[u].guest)'
               PROVE  FALSE
    BY DEF Exclusive
  <2>same. CASE u = h
    <3>Executes. Executes(w, ct)
      BY <1>newCall, <1>newCallPc, <2>same DEF Executes
    <3> QED
      BY <1>newCall, <2>same, <3>Executes
  <2>holder. CASE u # h /\ w = h
    <3>Executes. Executes(u, ct)
      BY <1>newCall, <1>newCallPc, <2>holder DEF Executes
    <3> QED
      BY <1>newCallPc, <2>holder, <3>Executes
  <2>others. CASE u # h /\ w # h
    <3>1. call[u].alone /\ Executes(u, call[u].guest) /\ Executes(w, call[u].guest)
      BY <1>newCallPc, <2>others DEF Executes
    <3> QED
      BY <3>1 DEF Exclusive
  <2> QED
    BY <2>same, <2>holder, <2>others
<1>PasswordIsSet. PasswordIsSet'
  <2>1. ASSUME NEW w \in Handler
        PROVE  \/ call'[w].pc # "set"
               \/ /\ call[w].pc = "set" /\ (call'[w].alone => call[w].alone)
                  /\ call'[w].guest = call[w].guest /\ call'[w].word = call[w].word
                  /\ None \in was[w][call[w].guest] => None \in was'[w][call[w].guest]
    BY <1>call, <1>newCall, <1>newCallPc
  <2> QED
    BY <1>call, <2>1, PasswordKept
<1> QED
  BY <1>Exclusive, <1>PasswordIsSet

\* A container that is replaced is one that was gone.
LEMMA ClusterKeeps ==
  ASSUME KnownInv, Exclusive, PasswordIsSet, NEW g \in Guest,
         Destroy(g) \/ \E n \in Node : Migrate(g, n) \/ Create(g, n)
  PROVE  Exclusive' /\ PasswordIsSet'
<1>call. UNCHANGED call /\ Records(g)
  BY DEF Destroy, Migrate, Create, Change
<1>Exclusive. Exclusive'
  BY <1>call, ExclusiveKept
<1>newWas. ASSUME NEW h \in Handler, NEW x \in Guest, None \in was[h][x]
           PROVE  None \in was'[h][x]
  BY <1>call, <1>newWas DEF Records, KnownInv, TypeInv, TypeOK, Caller
<1>callGuest.
    ASSUME NEW h \in Handler, call[h].pc = "set" PROVE call[h].guest \in Ct /\ call[h].kind = "ct"
  BY <1>callGuest DEF KnownInv, TypeInv, ShapeOf, Caller
<1>Unchanged. CASE UNCHANGED password
  <2>1. ASSUME NEW h \in Handler
        PROVE  \/ call'[h].pc # "set"
               \/ /\ call[h].pc = "set" /\ (call'[h].alone => call[h].alone)
                  /\ call'[h].guest = call[h].guest /\ call'[h].word = call[h].word
                  /\ None \in was[h][call[h].guest] => None \in was'[h][call[h].guest]
    <3>isCall. CASE call[h].pc = "set"
      <4>call. call[h].guest \in Guest
        BY <1>callGuest, <3>isCall DEF Guest
      <4> QED
        BY <1>call, <1>newWas, <3>isCall, <4>call
    <3>isPc. CASE call[h].pc # "set"
      BY <1>call, <3>isPc
    <3> QED
      BY <3>isCall, <3>isPc
  <2>2. PasswordIsSet'
    BY <1>Unchanged, <2>1, PasswordKept
  <2> QED
    BY <1>Exclusive, <2>2
<1>Create. CASE \E n \in Node : Create(g, n)
  <2>place. place[g] = None /\ \A x \in Ct \ {g} : password'[x] = password[x]
    BY <1>Create DEF Create, KnownInv, TypeInv, TypeOK
  <2>suffices. SUFFICES ASSUME NEW h \in Handler, call[h].pc = "set", call[h].alone,
                               None \notin was'[h][call[h].guest]
                        PROVE  password'[call[h].guest] = call[h].word
    BY <1>call, <1>Exclusive DEF PasswordIsSet
  <2>call.
      call[h].guest \in Ct /\ call[h].guest \in OfKind(call[h].kind) /\ call[h].guest \in Guest
    BY <1>callGuest, <2>suffices DEF OfKind, Guest
  <2>was. None \notin was[h][call[h].guest]
    BY <1>newWas, <2>suffices, <2>call
  <2>placeCall. place[call[h].guest] \in was[h][call[h].guest]
    BY <2>suffices, <2>call DEF KnownInv, Knows, Caller
  <2>callGuest. call[h].guest # g
    BY <2>place, <2>was, <2>placeCall
  <2> QED
    BY <2>place, <2>suffices, <2>call, <2>was, <2>callGuest DEF PasswordIsSet
<1> QED
  BY <1>Unchanged, <1>Create DEF Destroy, Migrate

\* Every step keeps both.
LEMMA PasswordStep ==
  ASSUME KnownInv, Exclusive, PasswordIsSet, [Next]_vars
  PROVE  Exclusive' /\ PasswordIsSet'
<1>a. Handler \subseteq Caller /\ Poller \in Caller /\ TypeInv
  BY DEF Caller, KnownInv
<1>b. \A c \in Caller : call[c] \in CallRecord
  BY <1>a DEF TypeInv, TypeOK
<1>Request. ASSUME NEW h \in Handler, Request(h) PROVE Exclusive' /\ PasswordIsSet'
  BY <1>Request, <1>a, BeginBesidePct DEF Request, cluster
<1>isPollBegins. CASE PollBegins \/ PollNodesFail \/ PollListed
  BY <1>isPollBegins, <1>a, BeginBesidePct, EndBesidePct
  DEF PollBegins, PollNodesFail, PollListed, PollGoesOn, cluster
<1>Exclusive. ASSUME NEW c \in Caller, NEW r, call' = [call EXCEPT ![c] = r], r.pc = "list",
                     UNCHANGED <<cluster, was>>
              PROVE  Exclusive' /\ PasswordIsSet'
  BY <1>Exclusive, <1>a, BesidePct DEF cluster
<1>ExclusivePasswordIsSet. ASSUME NEW c \in Caller, Nodes(c) \/ ListNode(c) \/ SkipNode(c)
                           PROVE  Exclusive' /\ PasswordIsSet'
  <2>Nodes. CASE Nodes(c)
    <3> DEFINE r == [call[c] EXCEPT !.pc = "list", !.todo = Node]
    <3>1. r.pc = "list"
      BY <1>b DEF CallRecord
    <3>2. call' = [call EXCEPT ![c] = r]
      BY <2>Nodes DEF Nodes
    <3> HIDE DEF r
    <3> QED
      BY <1>Exclusive, <2>Nodes, <3>1, <3>2 DEF Nodes
  <2>ListNode. CASE ListNode(c)
    <3>1.
        PICK n \in call[c].todo, lost \in SUBSET Guest :
          call' = [call EXCEPT ![c].todo = @ \ {n}, ![c].dropped = @ \cup lost,
                     ![c].found = Append(@, [node |-> n,
                                             guests |-> GuestsAt(n, call[c].kind) \ lost])]
      BY <2>ListNode, ListsGuests DEF ListNode
    <3> DEFINE r == [call[c] EXCEPT !.todo = @ \ {n}, !.dropped = @ \cup lost,
                       !.found = Append(@, [node |-> n,
                                            guests |-> GuestsAt(n, call[c].kind) \ lost])]
    <3>2. r.pc = "list"
      BY <1>b, <2>ListNode DEF CallRecord, ListNode
    <3>3. call' = [call EXCEPT ![c] = r]
      BY <3>1
    <3> HIDE DEF r
    <3> QED
      BY <1>Exclusive, <2>ListNode, <3>2, <3>3 DEF ListNode
  <2>SkipNode. CASE SkipNode(c)
    <3>1. PICK n \in call[c].todo :
            call' = [call EXCEPT ![c].todo = @ \ {n}, ![c].skipped = @ \cup {n}]
      BY <2>SkipNode DEF SkipNode
    <3> DEFINE r == [call[c] EXCEPT !.todo = @ \ {n}, !.skipped = @ \cup {n}]
    <3>2. r.pc = "list"
      BY <1>b, <2>SkipNode DEF CallRecord, SkipNode
    <3>3. call' = [call EXCEPT ![c] = r]
      BY <3>1
    <3> HIDE DEF r
    <3> QED
      BY <1>Exclusive, <2>SkipNode, <3>2, <3>3 DEF SkipNode
  <2> QED
    BY <1>ExclusivePasswordIsSet, <2>Nodes, <2>ListNode, <2>SkipNode
<1>PasswordIsSet.
    ASSUME NEW h \in Handler,
           NodesFail(h) \/ ListAnswered(h) \/ NotFound(h) \/ Config(h) \/ AskFails(h)
             \/ ExecFails(h) \/ PasswordAnswered(h)
    PROVE  Exclusive' /\ PasswordIsSet'
  BY <1>PasswordIsSet, <1>a, EndBesidePct
  DEF NodesFail, ListAnswered, NotFound, Config, AskFails, ExecFails, PasswordAnswered,
      cluster
<1>Found. ASSUME NEW h \in Handler, Found(h) PROVE Exclusive' /\ PasswordIsSet'
  <2>1. UNCHANGED <<password, was>>
    BY <1>Found DEF Found, cluster
  <2>2. call'[h].pc \in {"config", "status"} /\ \A w \in Handler \ {h} : call'[w] = call[w]
    BY <1>Found, <1>a, <1>b DEF Found, TypeInv, TypeOK, CallRecord
  <2>3. Exclusive'
    BY <2>2, ExclusiveKept
  <2>4. PasswordIsSet'
    BY <2>1, <2>2, PasswordKept
  <2> QED
    BY <2>3, <2>4
<1>Abort. ASSUME NEW h \in Handler, Abort(h) PROVE Exclusive' /\ PasswordIsSet'
  <2>1. CASE call[h].pc = "exec"
    <3>1. call' = [call EXCEPT ![h].pc = "orphan"] /\ UNCHANGED <<was, password>>
      BY <1>Abort, <2>1 DEF Abort, cluster
    <3>2. /\ Exclusive' /\ call'[h].pc = "orphan"
          /\ \A w \in Handler \ {h} : call'[w] = call[w]
      BY <1>a, <2>1, <3>1, ExecGoesOn
    <3>3. PasswordIsSet'
      BY <3>1, <3>2, PasswordKept
    <3> QED
      BY <3>2, <3>3
  <2>2. CASE call[h].pc # "exec"
    BY <1>Abort, <1>a, <2>2, EndBesidePct DEF Abort, cluster
  <2> QED
    BY <2>1, <2>2
<1>Restart. CASE Restart
  <2>1. \A h \in Handler : call'[h].pc = "idle"
    BY <1>Restart, <1>a, NoCallType DEF Restart
  <2> QED
    BY <2>1 DEF Exclusive, PasswordIsSet, Executes
<1>StartOrStop. ASSUME NEW ct \in Ct, StartOrStop(ct) PROVE Exclusive' /\ PasswordIsSet'
  BY <1>StartOrStop, ExclusiveKept, PasswordKept DEF StartOrStop, Change
<1>Unchanged. CASE UNCHANGED vars
  BY <1>Unchanged, ExclusiveKept, PasswordKept DEF vars
<1> QED
  BY <1>Request, <1>isPollBegins, <1>ExclusivePasswordIsSet, <1>PasswordIsSet, <1>Found,
     <1>Abort, <1>Restart, <1>StartOrStop, <1>Unchanged, <1>a, ChpasswdKeeps,
     StatusKeeps, ClusterKeeps
  DEF Next

\* A change of password that is answered with 200 has been made, and still holds unless
\* another pct exec ran beside it or the container was replaced.
THEOREM PasswordHolds == Spec => []PasswordIsSet
<1>init. Init => PasswordInv
  <2>Init. ASSUME Init, NEW h \in Handler PROVE call[h].pc = "idle"
    BY <2>Init, NoCallType DEF Init, Caller
  <2> QED
    BY <2>Init, InitTypes, InitKnows
    DEF PasswordInv, KnownInv, Exclusive, Executes, PasswordIsSet
<1>step. PasswordInv /\ [Next]_vars => PasswordInv'
  BY StepTypes, StepKnows, PasswordStep DEF PasswordInv, KnownInv
<1>PasswordInv. PasswordInv => PasswordIsSet
  BY DEF PasswordInv
<1> QED
  BY <1>init, <1>step, <1>PasswordInv, PTL DEF Spec
=============================================================================
