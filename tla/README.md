# FeatherTail, specified and checked

FeatherTail is an agent for Proxmox hosts: it answers DHCP for the virtual machines of
the host from a table of static leases, which a panel (FeatherPanel) maintains over an
authenticated HTTP API, and it gives the panel access to Proxmox through `pvesh` and
`pct`. This directory holds TLA+ specifications of its core, translated from the Rust
source under `src/src/`, the TLC configurations that check them on small instances and
TLAPS proofs of the properties that matter most.

Run TLC on a module with one of the `.cfg` files (`tlc -config MCLeaseTerm.cfg
LeaseTerm`), `tlapm` on the modules named `*_proofs`. `PROJECT.json` lists the runs, the
line of code behind every definition, the hazards and what covers them, the
disagreements found, and for every property a mutation of the code that breaks it.

## The system

One process, started by systemd, with a Tokio runtime of several threads and these tasks:

| Part | Code | State | Operations |
|---|---|---|---|
| main task | `main.rs`, `Daemon::run` in `daemon.rs` | where it is in start, poll loop, shutdown | load and validate the configuration, bind, poll Proxmox on a ticker, take SIGTERM, join the other tasks |
| poll of Proxmox | `Daemon::run_once`, `proxmox.rs` | the sets of guests seen | list nodes, then the guests of each node; log new ones |
| API server | `routes/`, `auth/` | requests in flight | one task per request |
| DHCP service | `dhcp.rs` | the SQLite table `dhcp_leases` | assign, remove, list (API); look up, renew, release (listener) |
| DHCP listener | `run_listener`, `handle_dhcp_packet` | the packet in hand | receive, decide, answer, one packet at a time |
| configuration file | `config.rs`, `routes/api/system.rs` | one TOML file | bootstrap, read, overwrite; takes effect at the next start |
| restart and self-update | `routes/api/system.rs` | the executable, its backup, a download | download, rename, rename, exit after 250 ms |
| service installer | `service_install.rs` | binary, configuration, unit file | stop, copy, write unit, start |
| container root password | `proxmox.rs` | none of its own | list, `pct status`, `pct exec` |

The tasks share the SQLite pool and a `watch` channel that tells API server and listener
to shut down. The handlers call the lease table and Proxmox directly; the listener reads
and writes the same table. No statement is part of a transaction and no lock is held over
an await, so **the interleavings of handlers and listener at their awaits are what is
hard here**. Then: the process may end between any two statements (a crash, or the exit
that the API itself schedules), clients may disconnect and drop a handler halfway, the
clock moves between the steps of one packet, and lease times and prefixes meet the edges
of their integer types.

What makes each part correct:

* *lease table*: one row per VM and per MAC; only the panel creates, deletes or readdresses
  a lease; a stop at any point leaves a table the panel can go on with;
* *listener*: an answer is made of a lease the client has, in state active;
* *lease times*: no answer promises more than the row holds, and all of its times are in range;
* *network of a lease*: the router given is on the link given; a prefix is widened only as
  announced;
* *packet parsing*: no datagram stops or crashes the listener, and the last whole options count;
* *life cycle*: a stop comes to an end and leaves nothing half done; a failed process comes
  back; a restart that was promised happens;
* *configuration, update, installer*: what is on disk after any of their steps can be started;
* *Proxmox access*: a guest that is there is found, and what is done is done to the guest found.

## The modules

| Module | Models |
|---|---|
| `VmLeases` | what the lease table promises: an abstract registry, one lease per VM |
| `DhcpLeases` | the lease table, the API handlers and the listener that use it, implements `VmLeases` |
| `MCDhcpLeases` | instances of `DhcpLeases`: MACs, VMs, configurations |
| `DhcpLeases_proofs` | proofs about `DhcpLeases` and `LeaseIdentity` |
| `LeaseTerm` | the times of one lease and of the answers made from it |
| `LeaseTerm_proofs` | proofs about `LeaseTerm` |
| `LeaseIdentity` | `DhcpLeases` composed with VMs whose network cards change, and with what the panel was told of their leases |
| `MCLeaseIdentity` | an instance of `LeaseIdentity` |
| `LeaseNetwork` | which prefix is accepted for a lease, and the hint of an error |
| `DhcpReply` | the answer to a client made from that lease, option by option, and where it is sent; extends `LeaseNetwork` |
| `DhcpReply_proofs` | proofs about `LeaseNetwork` and `DhcpReply` |
| `DhcpOptions` | the packet parser: header and option loop |
| `MCDhcpOptions` | an instance of `DhcpOptions`: the datagrams up to a length |
| `DhcpOptions_proofs` | proofs about `DhcpOptions` |
| `Lifecycle` | the process, its tasks, systemd |
| `Lifecycle_proofs` | proofs about `Lifecycle` |
| `ConfigStore` | the configuration file and everybody who reads or writes it |
| `Installer` | service-install and the unit file, beside a running service; extends `ConfigStore` |
| `MCInstaller` | an instance of `Installer` |
| `Installer_proofs` | proofs about `ConfigStore` and `Installer` |
| `SelfUpdate` | the replacement of the executable through the API |
| `SelfUpdate_proofs` | proofs about `SelfUpdate` |
| `Proxmox` | listings of guests, the poll, identity lookups, the root password |
| `MCProxmox` | the symmetries of its instance |
| `Proxmox_proofs` | proofs about `Proxmox` |

### DhcpLeases

The variables are the table `leases` (a set of rows), `api` (what each assign handler is
doing), `listener` (the packet in hand), `config` (the `[dhcp]` section read at start) and
a history variable `held`. One action is one SQL statement, which SQLite commits on its
own; whatever a task does up to its next await belongs to the same action.

| Action | Code |
|---|---|
| `AssignStart`, `Identify`, `AssignDelete`, `AssignInsert`, `Abort` | `assign_lease` and `assign_static_lease`: accepted, identity resolved, DELETE by VM, upsert by MAC; an error or a closed connection at any of the awaits |
| `Remove` | `delete_lease`, `remove_lease_by_vmid` |
| `Offer`, `Nak`, `Accept` | the first SELECT of `handle_dhcp_packet`, firewall and checks |
| `RenewHit`, `RenewMiss`, `Refetch` | `renew_lease_by_mac`: UPDATE, then SELECT |
| `Done` | the answer is sent, or an error drops the packet |
| `TakeRelease`, `Release` | a RELEASE |
| `Restart` | the process ends anywhere and starts with the same table, perhaps another configuration |

The VM's MAC is whatever Proxmox says when `Identify` runs: it may change between two
assignments, as it does when the VM's network card is replaced. Host names, nodes, DNS
servers and gateways are carried along by the code and are left out. `RenewMiss` is a
renewal that finds no active row any more: the ACK is sent all the same, for the row that
was looked up, so that it stands for a lease that was there and not for one that was
extended. The row fetched after a renewal may be another one than the row the packet was
checked against: `AnswerWasLeased` asks only that the client had it while the packet was in
hand, and `leases_refetch` shows the ACK of an address nobody asked for. An address is a
value that is compared. A `vmid` is always present: the API never assigns without one.

`PanelSerial` is an assumption on the panel, not on this code: it has at most one
assignment of a VM under way, and a request it gave up counts as under way until the
handler has ended. `leases_panel` and the theorems that need it assume it;
`leases_overlap` shows what happens without it.

### LeaseIdentity

Every step is one of `DhcpLeases` or leaves its variables alone. `Identify` of that module
takes any MAC; here `IdentifiesVm` takes the first MAC of `cards`, the network cards the VM
has at that moment (`ExtractQemuMac`: the slots `net0`, `net1`, ... in order). `ChangeCards`
replaces cards at any time. `served`, `steady` and `told` are history variables: the VMs
whose last assignment was answered 200 and not undone since; those whose cards have not
changed since their last assignment began; and those an assignment of which was answered
200 at any time, until their lease is removed, goes to another VM with its MAC, or is lost
by a handler that ends `Between` its two statements (`GivesUp`, `ProcessEnds`).
`LeaseStands` says that there is no other way to lose it. How a VM is found at its node is
the matter of `Proxmox`.

### LeaseTerm

`row` is one row, `packet` one packet on its way from look-up to answer, and `now`
advances by `Tick` between any two steps. `configured` is the lease time this process was
started with; `Restart` ends the process at any moment and starts it with another one, as
PUT config and a restart do, and neither bounds it, since `validate_config` does not look
at it. `promise` is a history variable: the time until which the last ACK let the client
use its address, for the row as it has been since, when and under which configured lease
time it was sent, and the one configured at the last renewal.
i64 and u32 are reduced to the constants `I64Max` and `U32Max`, with the wrap-around of a
release build in `AddI64` and the fallbacks of the code (`Day`, `Hour`, `Floor`) as
constants.

One assumption: `HandLimit < Floor`, a packet is in hand for less than the 60 seconds of
the floor (a look-up and an update of a local SQLite file). Lease times that the panel asks
for, or that are configured, are not bounded. `PromiseCovered` has three exceptions, each
of which is what the code does: the floor promises more than a row that is about to end
has; a renewal under a shorter configured time cuts the row; and one that overflows an i64
leaves a row that has ended (`Overflowed`). That the clock adds up to more than an i64 by
itself is left out.

### LeaseNetwork and DhcpReply

`Assign` is the decision of `effective_cidr_for_gateway_and_ip`, `Retry` a panel that
follows the hint of the error message. An address is the function from 1 .. W to its bits,
the highest first; shift, mask and AND are what they do to bits (`ShiftLeft`, `SubnetMask`,
`BitAnd`), and no address is ever added to or ordered. One step is narrower than the comment on the function says: a cidr of 1 is
never widened to 0, which `EffectiveCidr` follows.

`SendLease` and `SendNak` build the options of an answer octet by octet (`PushOption`, with
the order and the codes of `build_dhcp_response`) and send it to where `ResolveDhcpTarget`
says, for a client in each of the states in which a client writes to a server, on the link
or behind a relay. `TakeOption` is the client's side: it takes the options apart one by one
as RFC 2132 has them, from what is `left` of the answer into what it has `got`, until it
comes to the end or to an option that is cut off. The properties compare what it has found
then with the lease, addresses bit by bit under the mask found there, and ask whether the
answer arrives. An address, a mask or a time is one octet, and the longest value
of an option (`MaxValue`) is scaled down with it. Which client gets which answer is the
matter of `DhcpLeases`, the times that of `LeaseTerm`.

### DhcpOptions

`Short`, `Foreign` and `Header` are the checks of the fixed header, and one action is one
iteration of the option loop; `packet` is any member of the constant `Datagram`, a set of
strings of bytes that the theorems leave open and `MCDhcpOptions` bounds. A read past
the end, which panics, yields the value `Panic`, and `NoPanic` asks it of a header, a code,
a length and a value each. The reference the result is compared with
defines the options of a packet without a loop: a position is visited if there is a set of
positions that leads from the first one to it, each followed by the next (`IsPath`).

### Lifecycle

`unit` is systemd's view of the service, `main` the program counter of the main task,
`api`, `requests` and `dhcp` the tasks, `shutdown` the watch channel, `timer` the sleeping
task of `schedule_restart`, `file` the configuration file (accepted by `main` or not).
`signal` is a SIGTERM that reached the receiver being polled: the nested `select!` of
`Daemon::run` creates a new receiver at every turn and drops the old one, with a signal it
had not yet taken (`missed`). `ApiFails` is a server that returns an error or whose task panics;
main hears of it when it joins the server, and then returns without joining the listener.
SIGTERM before the first receiver exists kills the process.
Ctrl-C and signals sent by hand are left out, and so is systemd's limit on start attempts.

### ConfigStore

`file` is what the configuration file reads as: the text of a config, nothing (`Empty`),
a text that does not parse (`Bad`), or no file (`None`). `fs::write` and `fs::copy` are two
actions, `Truncate` and a write, with other tasks or the end of the process in between; a
write may be cut off (`CutOff`), and one over another leaves the rest of a longer text
behind it (`Over`).

| Action | Code |
|---|---|
| `Exists` | `load_or_bootstrap` finds the file, or is going to write the default |
| `Get`, `GetReads`, `Put`, `HandlerWrites`, `HandlerCutOff` | `get_config`, `update_config`, which does not call `validate_config` |
| `Launch`, `StartReads`, `StartWrites`, `StartCutOff` | the start in `main.rs`, which does |
| `InstallConfig`, `CopyOntoItself`, `InstallerWrites`, `InstallerCutOff`, `InstallerStops` | `install_config`, in another process |
| `End`, `AdminChanges` | the process ends anywhere; somebody edits or removes the file |

An empty file parses, as the defaults, because every section has one (`Reads`). A config is
a value that `validate_config` accepts (`Valid`) or not; its fields are left out. `acked`
and `harmed` are history variables: the config of a PUT answered 200 that nobody has begun
to change, and whether the text may be refused for a known cause. `alone` marks a write
during which no other was under way.

### Installer

`exe`, `unit` and `loaded` are the installed executable, the unit file and what systemd has
read of it; `own` says that the service runs the file at that path, which then cannot be
opened for writing; `refresh` is the rewriting of the unit that every start of the
installed executable does (`refresh_managed_service_on_start`), `inst` the installer.

| Action | Code |
|---|---|
| `Install`, `AsksActive`, `StopsService` | `install_service`: what is there, `is-active`, `stop` |
| `CopyBegins`, `CopyEnds`, `ConfigBegins`, `ConfigEnds`, `UnitBegins`, `UnitEnds` | the three files, each truncated and then written |
| `InstallReloads`, `EnablesNow`, `InstallEnds` | `daemon-reload`, `enable --now`; any step fails or the installer is interrupted |
| `StartUp`, `UnitTruncate`, `UnitWrite`, `UnitReload`, `RefreshFails` | a start, and its refresh of the unit |
| `AdminStarts`, `Executes`, `ServiceEnds`, `SomeoneReloads`, `Reboot`, `SelfUpdated` | systemd, the machine, an update through the API |

`cut` is a history variable: the files whose writer was ended or has failed. An empty unit
file means masked to systemd, and a missing one leaves the package's (`Packaged`). `Own` is
the file that is installed already, as the source of an installation: the executable that
is asked to install itself, and the configuration the program takes by default, which
`fs::copy` empties by copying it onto itself (`CopyOntoItself`). `InstallDelivers` excepts
that configuration. The
composition with `SelfUpdate` is by what an update leaves at the path (`SelfUpdated`); it
does not run while the installer copies. The page cache is taken to reach the disk.

### SelfUpdate

`disk` holds the file at each path, `update` what each `self_update` handler is doing. One
action is one system call: `DownloadBegins`, `DownloadEnds` and `DownloadFails` are curl or
wget, which write to one fixed path in `/tmp`; `GivesUp` is a client that closes the
connection, which drops the handler and leaves the child at work (`Orphaned`) until it
ends, fails (`OrphanFails`) or systemd ends it with the service; `Locate` is `current_exe`, `Check` the test
that there is something to rename, `Backup` and `Install` the two renames, `SetMode` the
permissions and the answer, `ReplaceFails` an error of any of them. `End` and `Start` are
the process ending anywhere and systemd starting what is at the executable's path, if it
is whole and executable.

`current_exe` follows the inode: `running` is the path where the process's own file now
is, and `Moved` takes it along at every rename. A path is the number of ".old" suffixes it
has; `Astray` is an inode that another file has replaced, or the " (deleted)" path that
`current_exe` then reports. `replaced`, `answered`, `good` and `shared` are history
variables, the last one of a process in which an update was begun beside the download of
one that was given up. A download is whole when curl reports success and no other child
was writing the same file. `Serial` is an assumption on the panel: one update under way at
a time, where one that it gave up is over, and none after one that got as far as its
renames. `self_update` makes it, `self_update_twice` does not.

### Proxmox

`place`, `running`, `password` are the cluster, which changes on its own (`Migrate`,
`Destroy`, `Create`, `StartOrStop`); `call` is what each caller is doing, `seen` the sets of
the daemon. One action is what a task does when an await is over.

| Action | Code |
|---|---|
| `Request`, `PollBegins` | a handler, or `run_once`, calls `qemu_list` or `lxc_list` |
| `Nodes`, `ListNode`, `SkipNode` | `pvesh get /nodes`, then one node after the other; a node that fails is left out, and so is, without a word, any entry that does not parse (`dropped`) |
| `NodesFail`, `PollNodesFail` | `pvesh get /nodes` fails: an error, or a poll that keeps what it has seen |
| `PollListed`, `ListAnswered`, `NotFound`, `Found` | what is done with the list: `seen_*_vmids`, an answer, `find` by VMID |
| `Config`, `AskFails` | the config of the VM at the node it was found on |
| `StatusRunning`, `ChpasswdSets`, `ExecFails`, `PasswordAnswered` | `pct status`, `pct exec` and its exit status |
| `Abort`, `Restart` | the handler is dropped, a `pct exec` it has started goes on (`orphan`); the process ends |

The nodes are asked in any order, which is that of `pvesh`; a node answers with the guests
it has at that moment. `was` is a history variable: where each guest has been since the
listing began. `alone` records, for the property only, whether another `pct exec` of the
same container ran beside this one. The text of the answers of `pvesh` is left out; which
network card's MAC is taken from the config is in `LeaseIdentity`.

## The runs

| Run | Checks | Bounds |
|---|---|---|
| `leases_panel` | `IdentityTypeOK`, `OneRowPerVmid`, `ServedByItsMac`, `LeaseStands`, `AnswerWasLeased`, `OnlyPanelRebinds`, refinement `RegistrySpec` | `LeaseIdentity` with 2 MACs, 2 VMs, 2 slots, 1 address, 2 handlers, DHCP off and on with each firewall mode |
| `leases_refetch` | `AckMatchesRequest` is violated | 2 MACs, 2 VMs, 2 addresses, 1 handler, no firewall, the panel serial |
| `leases_overlap` | `OneRowPerVmid` is violated | 2 MACs, 2 VMs, 2 handlers, the panel not serial |
| `lease_terms` | `TypeOK`, `TermInRange`, `PromiseCovered` | i64 up to 60, u32 up to 30, clock up to 9, requested and configured times at each boundary |
| `dhcp_replies` | `RouterOnLink`, `WidenedOnlyOnce`, `HintIsAccepted`, `ClientReadsReply`, `ReplyArrives` | addresses of 4 bits, every cidr, up to 5 DNS servers where an option holds 3, every kind of client |
| `dhcp_options` | `ParsesLastOptions`, `NoPanic`, `Terminates` | all strings of at most 7 bytes over five byte values behind a header of 3 bytes, all headers of these |
| `lifecycle` | `TypeOK`, `StopNeverStuck`, `CleanReturn`, `StopEnds`, `FailureRecovers` | 2 requests in flight |
| `lifecycle_restart` | `RestartComes` is violated | 1 request in flight |
| `installation` | `TypeOK`, `HostTypeOK`, `AcknowledgedHolds`, `RefusedForCause`, `StartableForCause`, `InstallDelivers` | 2 configs, one of which is refused, 2 executables, 1 request, the start and the installer |
| `proxmox` | `TypeOK`, `StayersListedOnce`, `PasswordIsSet`, `ForgottenForCause` | 2 nodes, 1 VM, 1 container, 2 passwords, 2 requests and the poll, 2 changes, 1 listing at once |
| `self_update` | `TypeOK`, `BackupKept`, `NextStartRunsUpdate` | 2 versions, 2 handlers, paths of up to 2 ".old" |
| `self_update_twice` | `UpdateInstalled` is violated | 2 versions, 1 handler, one update after the other |

Why the bounds are enough. A conflict in the lease table is between two statements about
one VM or one MAC, with a third task in between: two VMs and two MACs give rows that
collide on either key and rows that do not, two handlers and the listener give every pair.
One address is enough where addresses are not compared; `leases_refetch`, where they are,
has two, and one handler, because its property is about one packet. That an answer is of
the row of the right VM and state does not depend on the address. The theorems below remove
these bounds. In `LeaseTerm` the constants keep the
order 0 < Floor < Hour < Day < U32Max < I64Max of the real ones and `Requested` has a
value on each side of each boundary; the configured times are two that a restart may swap
and one that overflows. In `DhcpReply` four bits leave room for the first,
the last and inner prefixes, and five DNS servers for a list that is one and two too long.
In `DhcpOptions` seven bytes hold an option 53 and an option 50 with an address, in both
orders, or either twice with one cut off; small numbers stand for codes and lengths at
once, which the parser never compares with each other, and 9 for a length beyond every
datagram. Only one accepted header carries options, since nothing else in it is looked at.
In `LeaseIdentity` a VM may get a second card before the one it had, or lose it, so that
its first MAC changes to that of another VM and back. In `Installer` a request, a start and
the installer give every pair of writers; a refused and an accepted config tell a lost
write from a kept one. In `SelfUpdate` two versions tell an update from what it replaces,
and under `Serial` no path gets more than one suffix. In `Proxmox` a guest moves between
two nodes while they are listed; two changes let it go and come back, or be replaced; listings only read the cluster, so that one at a time shows
what several do (`MaxListings`), and requests and passwords are symmetric. CHECK_DEADLOCK
is off where the modelled computation ends or the clock of the model stops.

What the violated properties show (`findings` in `PROJECT.json`):

* overlapping assignments of one VM can leave it two rows (`leases_overlap`);
* a restart through the API leaves the service stopped: it exits with status 0 and the
  unit restarts on failure only (`lifecycle_restart`);
* a second update of one process is answered "Update installed" without being installed:
  the first rename has moved the running inode, which is where the second update goes
  (`self_update_twice`);
* a client may be acknowledged an address other than the one its REQUEST named and was
  checked for, when the panel assigns another between the check and the second SELECT
  (`leases_refetch`).

What the code does and the properties except, each under the name it has in the model.
TLC gives a behaviour for each of them when the exception is taken out of its property:

* an assignment that fails, is given up or ends with the process between its DELETE and its
  INSERT takes the VM's lease away, also one answered 200 before (`Between` in
  `LeaseStands`; dhcp.rs:169-176);
* a renewal, which "extends an active lease" by its comment, cuts one that was assigned, or
  last acknowledged, under a longer lease time than is configured now (`PromiseCovered`;
  dhcp.rs:274-279);
* the download of an update that was given up goes on into the file a retry installs, which
  may then be answered "update installed" while it is being written (`shared` in
  `NextStartRunsUpdate`; system.rs:316);
* an update whose second rename fails, as between two file systems, leaves nothing at the
  executable's path, and only the backup beside it (`BackupKept` asks for either;
  system.rs:288);
* a guest whose entry does not parse, such as one without a name, is answered "not found"
  and forgotten by the poll (`dropped` in `StayersListedOnce` and `ForgottenForCause`;
  proxmox.rs:48 and 69);
* `service-install` without `--config` and without a `feathertail.toml` beside it copies the
  installed configuration onto itself, which empties it, and reports success; the service
  comes up with the defaults (`Own` in `InstallDelivers`; service_install.rs:108);
* a PUT of a configuration that `main` refuses is answered 200 (`harmed` in
  `RefusedForCause`, `file` in `FailureRecovers`; system.rs:231);
* a SIGTERM that arrives while the `select!` drops one receiver for another is lost
  (`missed` in `StopEnds`; daemon.rs:188).

Fairness. Only `DhcpOptions` and `Lifecycle` have liveness properties. The parser is
sequential code, weakly fair as a whole. In `Lifecycle` every step of a task that is ready
is weakly fair, since the runtime polls all ready tasks, and so are the timers of Tokio
and systemd. `StartUp` is strongly fair: an obstacle to starting (an address in use, a
crash) does not last for ever. Nothing is assumed of the administrator, of SIGKILL or of
crashes. `SpecAnswering` adds that a request ends, which is an assumption on `pvesh`: the
code has no timeout for it, and without the assumption a stop may last until systemd
kills the process.

## The proofs

A step of a case split is named for the action of its case, and a step of a longer proof for
what it states (`<2>newDisk` says what the action leaves on the disk, `<1>init` and `<1>step`
are the two halves of an induction), so that a citation can be read without looking the step
up; the steps of short proofs are numbered.

`DhcpLeases_proofs`, for any number of MACs, VMs, addresses, handlers and configurations:

* `TypeCorrect`: `TypeOK` is an invariant; it is inductive as it stands.
* `UniqueLease`: a serial panel leaves a VM at most one row. `OneRowPerVmid` is not
  inductive: the INSERT relies on what happened since the DELETE. `TableInv` adds
  `OneRowPerMac`, which the upsert maintains, and `Alone`: no two handlers have the same
  VM, and while one is between its two statements the VM has no row. Assignments of other
  VMs and packets cannot break that, because they insert rows of their own VM only.
* `Refinement`: under the same assumption every step is a step of `VmLeases` or leaves the
  mapped state unchanged; DELETE maps to `Remove`, the upsert to `Assign`, which is where
  uniqueness of rows per VM is needed.
* `AnswersHold`: `AnswerWasLeased` holds with no assumption on the panel. `PacketInv` says
  why: while a packet is in hand, its MAC's row is active if it is there at all, since the
  same task handles every RELEASE, and every row that was read is in `held`.
* `PacketsKeepBindings`: no packet and no restart changes a binding.

`LeaseTerm_proofs`, for any widths, lease times asked for and configured, and clock within
the assumption:
`TypeCorrect`, `AnswerInRange` (`TermInRange`) and `PromisesCovered` (`PromiseCovered`). The
last one needs an invariant for the packet between renewal and answer: the end it carries
is that of the row, or the row has been replaced and the promise with it; a renewal under no
shorter configured time than that of the promise ends the lease no earlier, because the
clock does not go back.

`SelfUpdate_proofs`, for any number of requests, versions and suffixes: `TypeCorrect`
(`TypeOK`, whatever the panel does), and with a `Serial` panel `BackupSurvives`
(`BackupKept`) and `UpdateStartsNext` (`NextStartRunsUpdate`), beside any number of
downloads of updates that were given up. Neither property is
inductive: that the executable is at its path or is the backup depends on how far the one
update under way has come. `Inv` adds `AtMostOne`, `Executable`, which ties the two files to
whether a rename has happened, and `Stage`, which says for each step of an update where
the download is, and that it is whole if the update is not `shared`.

`Proxmox_proofs`, for any cluster and any number of requests, changes and listings at once:
`TypeCorrect`; `StayersListed` (`StayersListedOnce`), from `Knows`: what has been listed so
far has one entry per guest of a node that answered, but for entries that were dropped,
agrees with the history of each guest, and the
history covers the present; `PollForgetsForCause` (`ForgottenForCause`), which follows from
it; and `PasswordHolds` (`PasswordIsSet`), with `Exclusive`: a `pct exec` that is alone is
the only one of its container.

About `LeaseIdentity`, in the same module, for any cluster, cards, MACs and handlers: `IdentityTypeCorrect`
(`IdentityTypeOK`); `IdentityImplementsLeases`, every step is one of `DhcpLeases`, so that
the theorems above hold of the composition; with a serial panel `AnsweredHolds`
(`ServedByItsMac`), from `ServedInv`: a VM that is served has no assignment under way, and a
handler past its lookup has the first MAC of a VM whose cards stayed, and from the
`TableInv` of `DhcpLeases_proofs`; and `TheLeaseStands` (`LeaseStands`), which needs no
such panel: a DELETE leaves its own handler at its INSERT, and whoever ends it there, or
takes the row by its MAC, also ends the promise.

`DhcpReply_proofs`, for addresses of any width, options of any longest value and any number
of DNS servers:

* `AcceptedIsShared`: an accepted prefix is the requested one or one bit shorter, and address
  and gateway agree under it. `MaskBits` and `SharedBits` say once what mask and AND are: a
  mask of c has its first c bits set, and two addresses agree under it when their first c
  bits do. All that follows about networks rests on these two.
* `HintsAccepted` (`HintIsAccepted`), from `NetworkInv`: a hinted request names a prefix under
  which they agree.
* `RepliesArrive` (`ReplyArrives`), a case for each kind of client.
* `ClientsReadReplies` (`ClientReadsReply`): what is sent is taken apart into what was meant.
  What was meant is a list of entries, code and value (`LeaseList`, `NakList`), some of which
  `PushOption` leaves out because they are empty or too long. `Encodes` ties the list to
  the datagram by the rest that is left from each entry on; `LeaseEncoded` and `NakEncoded`
  show it for the two answers, an option at a time from the last one backwards. `Reading`,
  the part of `ReplyInv` that is about the client, says that it is at some entry, has the
  entries before it that were not left out (`TakenUpTo`) and has the rest from there still
  before it; `TakesNext` is the step to the next entry that was not left out. The codes of a
  list are `Distinct`, so each code is read once and with its own value.
* `RoutersOnLink` (`RouterOnLink`) and `WidensOnlyOnce` (`WidenedOnlyOnce`): the mask read is
  that of the accepted prefix, and `MaskLength` counts its bits.

`DhcpOptions_proofs`, for any alphabet of bytes, header, length of an address and set of
datagrams:

* `ParseInvariant`: `ParseInv` is inductive, and the run was made with it as an invariant
  before it was proved. Its heart is that there is one path through a packet (`AllVisit`):
  every path that goes as far as the index of the loop comes by that index, so that between
  two iterations no position is visited unseen. `Tells` ties what has been read so far to
  the last option before the index, and `TellsNext` carries it over one option.
* `NeverPanics` (`NoPanic`): every byte that is copied is a byte of the packet.
* `LastOptionsCount` (`ParsesLastOptions`): when the loop is left, nothing beyond the index is
  visited, for each of the four ways of leaving it: the end of the packet, an end option, a
  length or a value that is cut off.
* `EveryStepAdvances`: each step in the loop leaves it or goes on to a later byte of the same
  packet. This is the variant behind `Terminates`; what is not proved of that property is
  that steps are taken, which is fairness.

`Installer_proofs`, for any number of configs, requests, executables and crashes:

* `TypeCorrect` (`TypeOK`) about `ConfigStore` on its own; `PutHolds` (`AcknowledgedHolds`)
  and `FileAccepted` (`RefusedForCause`) about the file beside an installation. `FileInv`
  says why: a writer that is alone is the only one and writes into an empty file, nobody
  writes while a text is acknowledged, and a file nothing has harmed is absent, empty or
  one main accepts. `Installer` uses the actions of `ConfigStore` for every step that
  touches the file, so the lemma `HostUsesFile`, which carries what is proved of one to the
  other, holds by construction and is not a result of its own.
* `HostTypeCorrect` (`HostTypeOK`).
* `StartableUnlessCut` (`StartableForCause`), with `UnitInv`: a unit file that is empty is
  being written, or its writer was ended; what systemd has read lags behind the file.
* `InstallationDelivers` (`InstallDelivers`), with `ProcessInv` (requests are of a process
  that is up, a start of one that is starting), `UsersInv` (the installer's text is the one
  it was asked for) and `DeliveryInv` (from the copy on nothing else runs, and what was
  copied stays).

`Lifecycle_proofs`, for any number of requests: `TypeCorrect` (`TypeOK`) and `ReturnsClean`
(`CleanReturn`), with `JoinInv`: the listener is joined only when the server is closed, and
a server that is closed has no requests. `StopsNeverStuck` (`StopNeverStuck`) and
`EveryStopAdvances` are what `StopEnds` rests on besides fairness: from `StopInv` (while a
stop is under way, main has the signal or has passed it on, and joins a listener that
exists) there is always a task that can go on or a request to answer, and `Left`, how far
main, server and listener are from their ends, never grows and shrinks with every step of
the shutdown, while a server that has heard of it takes no requests.

Every invariant of a passing run, and every action property and refinement, is stated by a
theorem. Only model-checked is liveness, which the proof system cannot take from fairness:
`StopEnds` and `FailureRecovers` of `Lifecycle`, `Terminates` of `DhcpOptions`; of the first
and the last, everything but fairness is proved (`StopsNeverStuck` and `EveryStopAdvances`,
`EveryStepAdvances`). So are the disagreements above: a violation is a behaviour,
which TLC finds.

The assumptions of the proofs are those the modules state by name: sizes of constants, a
packet that is in hand for less than a minute (`LeaseTerm`), and, for the properties that
say so, a panel that is serial (`PanelSerial`, `Serial`).

## Not modelled

* Routing and authentication: a stateless comparison of one header with one string.
* The status endpoints: pure reads of what `pvesh` prints.
* `cluster.rs` and `nodes.rs`, which no route uses; the OpenAPI document; the noVNC files.
* Packaging and scripts, among them `postinstall.sh`, which replaces the unit as the
  installer does; the unit file itself is part of `Lifecycle` and `Installer`.
* Of modelled parts: the fields a header of a request copies into its answer; the fields
  of a config and their checks one by one; a `service-install` or a service started by hand
  with another configuration path; Ctrl-C and systemd's limit on start attempts; a power
  failure before the page cache is written.
* Two updates at once share one temporary path (`system.rs:276`): the actions are in
  `SelfUpdate`, but nothing in the code keeps such updates apart, and no property holds of
  them beyond the types.
* Which lease is shown beside a VM in the listings, a SELECT that changes nothing, after the
  guests were listed.
* What the firewall's lists say of the row an ACK is built from, which may be that of
  another VM than the one they were asked about: the code says nothing of that case.

## Plan

What was planned is done but for these, in order of what they would add:

1. `DhcpClient`: a client with T1 and T2 against `LeaseTerm`, over a network that loses and
   duplicates packets; liveness of renewal, and no address used by two clients.
2. `DhcpLeases` with a panel that tries an assignment again after an error or a lost
   answer: the registry is then eventually what the panel wants.
3. Runs of `Lifecycle` with the file of `ConfigStore` in place of its two values, to show
   that a start after a cut-off write comes up with the defaults.

With each, its invariants as theorems, and the progress that its liveness rests on.
