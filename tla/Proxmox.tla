------------------------------- MODULE Proxmox -------------------------------
(***************************************************************************)
(* The calls that go through pvesh and pct (src/src/proxmox.rs): listings  *)
(* of guests that ask the nodes one after the other, and what is done with *)
(* what they found: the poll of the daemon, the identity of a VM, the root *)
(* password of a container.  Meanwhile guests migrate, start, stop, come   *)
(* and go.                                                                 *)
(*                                                                         *)
(* One action is what a task does when an await is over.                   *)
(***************************************************************************)
EXTENDS Integers, Sequences, FiniteSets

CONSTANTS
  Node,        \* the nodes of the cluster
  Local,       \* the node this program runs on
  Vm, Ct,      \* VMIDs of virtual machines and of containers
  Password,
  Handler,     \* API requests that may be handled at once
  Poller,      \* the poll of the daemon
  None,
  MaxChanges,  \* bound: changes of the cluster
  MaxListings  \* bound: listings at once; they write nothing that another reads

Guest == Vm \cup Ct

Caller == Handler \cup {Poller}

ASSUME ClusterAssumption ==
  /\ Local \in Node
  /\ Vm \cap Ct = {}
  /\ None \notin Node \cup Guest \cup Password
  /\ MaxChanges \in Nat

ASSUME CallerAssumption == Poller \notin Handler

VARIABLES
  place,       \* the node each guest is on; None: there is no such guest
  running,     \* the containers that run
  password,    \* the root password of each container
  changes,     \* how often the cluster has changed
  seen,        \* seen_qemu_vmids and seen_lxc_vmids of the daemon
  call,        \* what each caller is doing
  was          \* history: where the guests have been since a caller's listing began

cluster == <<place, running, password, changes>>

vars == <<place, running, password, changes, seen, call, was>>

Kind == {"vm", "ct"}

OfKind(kind) == IF kind = "vm" THEN Vm ELSE Ct

CallAt(pc, op, kind, guest, word) ==
  [op |-> op, pc |-> pc, kind |-> kind, guest |-> guest, word |-> word,
   todo |-> {}, found |-> <<>>, skipped |-> {}, dropped |-> {}, node |-> None, alone |-> TRUE]

NoCall == CallAt("idle", "none", "vm", None, None)

NoHistory == [g \in Guest |-> {}]

-----------------------------------------------------------------------------
(* Beginnings and ends of calls. *)

Places(kind) == [g \in Guest |-> IF g \in OfKind(kind) THEN {place[g]} ELSE {}]

Begin(c, op, kind, guest, word) ==
  /\ call' = [call EXCEPT ![c] = CallAt("nodes", op, kind, guest, word)]
  /\ was' = [was EXCEPT ![c] = Places(kind)]

End(c) ==
  /\ call' = [call EXCEPT ![c] = NoCall]
  /\ was' = [was EXCEPT ![c] = NoHistory]

MayList == Cardinality({c \in Caller : call[c].pc \in {"nodes", "list"}}) < MaxListings

\* list_servers, list_containers, resolve_qemu_identity, set_lxc_root_password.
Request(h) ==
  /\ call[h].pc = "idle" /\ MayList
  /\ \/ \E kind \in Kind : Begin(h, "list", kind, None, None)
     \/ \E v \in Vm : Begin(h, "identity", "vm", v, None)
     \/ \E ct \in Ct, w \in Password : Begin(h, "password", "ct", ct, w)
  /\ UNCHANGED <<cluster, seen>>

PollBegins ==
  /\ call[Poller].pc = "idle" /\ MayList
  /\ Begin(Poller, "poll", "vm", None, None)
  /\ UNCHANGED <<cluster, seen>>

\* Mutant: a third kind that nothing lists.
PollThirdKind ==
  IF call[Poller].kind = "vm" THEN Begin(Poller, "poll", "storage", None, None) ELSE End(Poller)

\* run_once lists the virtual machines first, then the containers.
PollGoesOn ==
  IF call[Poller].kind = "vm" THEN Begin(Poller, "poll", "ct", None, None) ELSE End(Poller)

-----------------------------------------------------------------------------
(* qemu_list and lxc_list: the nodes in the order pvesh gives them. *)

Nodes(c) ==
  /\ call[c].pc = "nodes"
  /\ call' = [call EXCEPT ![c].pc = "list", ![c].todo = Node]
  /\ UNCHANGED <<cluster, seen, was>>

\* Mutant: a failed pull is an empty one.
PollForgets ==
  /\ call[Poller].pc = "nodes"
  /\ PollGoesOn
  /\ seen' = [seen EXCEPT ![call[Poller].kind] = {}]
  /\ UNCHANGED cluster

\* The request is answered with an error; the poll keeps what it has seen.
PollNodesFail ==
  /\ call[Poller].pc = "nodes"
  /\ PollGoesOn
  /\ UNCHANGED <<cluster, seen>>

NodesFail(h) ==
  /\ call[h].pc = "nodes"
  /\ End(h)
  /\ UNCHANGED <<cluster, seen>>

GuestsAt(n, kind) == {g \in OfKind(kind) : place[g] = n}

\* A node answers; entries that do not parse are dropped without a word.
ListNode(c) ==
  /\ call[c].pc = "list"
  /\ \E n \in call[c].todo : \E lost \in SUBSET GuestsAt(n, call[c].kind) :
       call' = [call EXCEPT ![c].todo = @ \ {n}, ![c].dropped = @ \cup lost,
                            ![c].found = Append(@, [node |-> n,
                                                    guests |-> GuestsAt(n, call[c].kind) \ lost])]
  /\ UNCHANGED <<cluster, seen, was>>

\* Mutant: the first node that fails ends the listing.
ListStops(c) ==
  /\ call[c].pc = "list"
  /\ \E n \in call[c].todo :
       call' = [call EXCEPT ![c].todo = {}, ![c].skipped = @ \cup {n}]
  /\ UNCHANGED <<cluster, seen, was>>

\* A node that cannot be listed is left out.
SkipNode(c) ==
  /\ call[c].pc = "list"
  /\ \E n \in call[c].todo :
       call' = [call EXCEPT ![c].todo = @ \ {n}, ![c].skipped = @ \cup {n}]
  /\ UNCHANGED <<cluster, seen, was>>

Listed(c) == call[c].pc = "list" /\ call[c].todo = {}

Entries(c, g) == {i \in DOMAIN call[c].found : g \in call[c].found[i].guests}

AllFound(c) == {g \in Guest : Entries(c, g) # {}}

PollListed ==
  /\ Listed(Poller)
  /\ PollGoesOn
  /\ seen' = [seen EXCEPT ![call[Poller].kind] = AllFound(Poller)]
  /\ UNCHANGED cluster

ListAnswered(h) ==
  /\ Listed(h)
  /\ call[h].op = "list"
  /\ End(h)
  /\ UNCHANGED <<cluster, seen>>

\* An answer of 404.
NotFound(h) ==
  /\ Listed(h)
  /\ call[h].guest # None /\ Entries(h, call[h].guest) = {}
  /\ End(h)
  /\ UNCHANGED <<cluster, seen>>

\* The first entry of the guest tells its node.
Found(h) ==
  /\ Listed(h)
  /\ \E i \in Entries(h, call[h].guest) :
       /\ \A j \in Entries(h, call[h].guest) : i <= j
       /\ call' = [call EXCEPT
            ![h] = [@ EXCEPT !.node = call[h].found[i].node, !.found = <<>>, !.skipped = {}, !.dropped = {},
                             !.pc = IF call[h].op = "identity" THEN "config" ELSE "status"]]
  /\ UNCHANGED <<cluster, seen, was>>

-----------------------------------------------------------------------------
(* The config of a VM, and the root password of a container. *)

Config(h) ==
  /\ call[h].pc = "config"
  /\ place[call[h].guest] = call[h].node
  /\ End(h)
  /\ UNCHANGED <<cluster, seen>>

\* pct status or the config fails or says no, or pct exec does not start.
AskFails(h) ==
  /\ call[h].pc \in {"config", "status"}
  /\ End(h)
  /\ UNCHANGED <<cluster, seen>>

\* pct acts on the local node.
Reachable(ct) == place[ct] = Local /\ ct \in running

Executes(h, ct) == call[h].guest = ct /\ call[h].pc \in {"exec", "set", "orphan"}

\* pct status says "running", and pct exec is started.
StatusRunning(h) ==
  LET ct == call[h].guest
      others == {w \in Handler \ {h} : Executes(w, ct)}
  IN  /\ call[h].pc = "status"
      /\ Reachable(ct)
      /\ call' = [w \in Caller |->
           IF w = h THEN [call[w] EXCEPT !.pc = "exec", !.alone = others = {}]
           ELSE IF w \in others THEN [call[w] EXCEPT !.alone = FALSE]
           ELSE call[w]]
      /\ UNCHANGED <<cluster, seen, was>>

\* chpasswd succeeds; pct exec without a handler ends there.
ChpasswdSets(h) ==
  /\ call[h].pc \in {"exec", "orphan"}
  /\ Reachable(call[h].guest)
  /\ password' = [password EXCEPT ![call[h].guest] = call[h].word]
  /\ IF call[h].pc = "exec"
     THEN call' = [call EXCEPT ![h].pc = "set"] /\ UNCHANGED was
     ELSE End(h)
  /\ UNCHANGED <<place, running, changes, seen>>

\* Mutant: the exit status of pct exec is not looked at.
ExecUnchecked(h) ==
  /\ call[h].pc \in {"exec", "orphan"}
  /\ IF call[h].pc = "exec"
     THEN call' = [call EXCEPT ![h].pc = "set"] /\ UNCHANGED was
     ELSE End(h)
  /\ UNCHANGED <<cluster, seen>>

\* pct exec or chpasswd fails, or has no input.
ExecFails(h) ==
  /\ call[h].pc \in {"exec", "orphan"}
  /\ End(h)
  /\ UNCHANGED <<cluster, seen>>

\* An answer of 200.
PasswordAnswered(h) ==
  /\ call[h].pc = "set"
  /\ End(h)
  /\ UNCHANGED <<cluster, seen>>

\* The client closes the connection: the handler is dropped, a started pct goes on.
Abort(h) ==
  /\ call[h].pc \notin {"idle", "orphan"}
  /\ IF call[h].pc = "exec"
     THEN call' = [call EXCEPT ![h].pc = "orphan"] /\ UNCHANGED was
     ELSE End(h)
  /\ UNCHANGED <<cluster, seen>>

\* The process ends, and systemd ends what it has started.
Restart ==
  /\ call' = [c \in Caller |-> NoCall]
  /\ was' = [c \in Caller |-> NoHistory]
  /\ seen' = [kind \in Kind |-> {}]
  /\ UNCHANGED cluster

-----------------------------------------------------------------------------
(* The cluster. *)

Records(g) ==
  was' = [c \in Caller |->
            [was[c] EXCEPT ![g] = IF @ = {} THEN {} ELSE @ \cup {place'[g]}]]

Change == changes < MaxChanges /\ changes' = changes + 1 /\ UNCHANGED <<seen, call>>

Migrate(g, n) ==
  /\ Change
  /\ place[g] # None /\ place[g] # n
  /\ place' = [place EXCEPT ![g] = n]
  /\ Records(g)
  /\ UNCHANGED <<running, password>>

Destroy(g) ==
  /\ Change
  /\ place[g] # None
  /\ place' = [place EXCEPT ![g] = None]
  /\ running' = running \ {g}
  /\ Records(g)
  /\ UNCHANGED password

Create(g, n) ==
  /\ Change
  /\ place[g] = None
  /\ place' = [place EXCEPT ![g] = n]
  /\ \E w \in Password : password' = IF g \in Ct THEN [password EXCEPT ![g] = w] ELSE password
  /\ Records(g)
  /\ UNCHANGED running

StartOrStop(ct) ==
  /\ Change
  /\ place[ct] # None
  /\ running' = (running \ {ct}) \cup ({ct} \ running)
  /\ UNCHANGED <<place, password, was>>

Init ==
  /\ place \in [Guest -> Node]
  /\ running = Ct
  /\ password \in [Ct -> Password]
  /\ changes = 0
  /\ seen = [kind \in Kind |-> {}]
  /\ call = [c \in Caller |-> NoCall]
  /\ was = [c \in Caller |-> NoHistory]

Next ==
  \/ \E c \in Caller : Nodes(c) \/ ListNode(c) \/ SkipNode(c)
  \/ \E h \in Handler :
       \/ Request(h) \/ NodesFail(h) \/ ListAnswered(h) \/ NotFound(h) \/ Found(h)
       \/ Config(h) \/ AskFails(h) \/ StatusRunning(h) \/ ChpasswdSets(h) \/ ExecFails(h)
       \/ PasswordAnswered(h) \/ Abort(h)
  \/ PollBegins \/ PollNodesFail \/ PollListed \/ Restart
  \/ \E g \in Guest : Destroy(g) \/ \E n \in Node : Migrate(g, n) \/ Create(g, n)
  \/ \E ct \in Ct : StartOrStop(ct)

Spec == Init /\ [][Next]_vars

-----------------------------------------------------------------------------
(* Correctness. *)

Pc == {"idle", "nodes", "list", "config", "status", "exec", "set", "orphan"}

Block == [node : Node, guests : SUBSET Guest]

Blocks == Seq(Block)

CallRecord ==
  [op : {"none", "list", "identity", "password", "poll"}, pc : Pc, kind : Kind,
   guest : Guest \cup {None}, word : Password \cup {None}, todo : SUBSET Node,
   found : Blocks, skipped : SUBSET Node, dropped : SUBSET Guest,
   node : Node \cup {None}, alone : BOOLEAN]

\* Guests are on nodes, callers are between two awaits of their code.
TypeOK ==
  /\ place \in [Guest -> Node \cup {None}]
  /\ running \subseteq Ct
  /\ password \in [Ct -> Password]
  /\ changes \in 0 .. MaxChanges
  /\ seen \in [Kind -> SUBSET Guest]
  /\ call \in [Caller -> CallRecord]
  /\ was \in [Caller -> [Guest -> SUBSET (Node \cup {None})]]

\* The guest did not move, its node answered, and its entry could be read.
Stayed(c, g, n) == was[c][g] = {n} /\ n \notin call[c].skipped /\ g \notin call[c].dropped

\* A guest that stays on one node from the beginning of a listing is listed exactly
\* once and with that node, as soon as the node has been asked and has answered with an
\* entry of it that parses: neither other nodes that fail, nor other entries that do
\* not parse, nor guests that move can hide it or list it twice.
StayersListedOnce ==
  \A c \in Caller, n \in Node :
    call[c].pc = "list" /\ n \notin call[c].todo =>
      \A g \in OfKind(call[c].kind) :
        Stayed(c, g, n) => \E i \in Entries(c, g) :
                             Entries(c, g) = {i} /\ call[c].found[i].node = n

\* The poll forgets a guest only if it was elsewhere or gone during that poll, or the
\* node it was on could not be listed, or its entry did not parse; a pull that fails
\* forgets nothing.
ForgottenForCause ==
  [][\A kind \in Kind : \A g \in seen[kind] \ seen'[kind] :
       \/ seen' = [k \in Kind |-> {}] /\ Restart
       \/ \A n \in Node : ~Stayed(Poller, g, n)]_vars

\* Before a change of password is answered with 200: the container's password is the
\* one asked for, if no pct exec of another request, also one that was given up, ran
\* beside this one and the container was not replaced.
PasswordIsSet ==
  \A h \in Handler :
    LET ct == call[h].guest
    IN  call[h].pc = "set" /\ call[h].alone /\ None \notin was[h][ct] =>
          password[ct] = call[h].word
=============================================================================
