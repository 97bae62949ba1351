----------------------------- MODULE ConfigStore -----------------------------
(***************************************************************************)
(* The configuration file: who reads and writes it (load_or_bootstrap in   *)
(* src/src/config.rs; get_config and update_config in                      *)
(* src/src/routes/api/system.rs; the start in src/src/main.rs; install_    *)
(* config in src/src/service_install.rs).                                  *)
(*                                                                         *)
(* std::fs::write and std::fs::copy open the file, which truncates it, and *)
(* then write: two actions, with any other task or the end of the process  *)
(* in between.  A file is what is in it as a TOML text: the text of a      *)
(* config, nothing, or one that does not parse.                            *)
(***************************************************************************)
CONSTANTS
  Config,      \* the configs that occur
  Default,     \* AppConfig::default()
  Valid,       \* the configs that validate_config accepts
  Cuts,        \* what the beginning of the text of each config may read as
  Handler,     \* API requests that may be handled at once
  Main,        \* the main task of the service
  Installer,   \* service-install, a process of its own
  None, Empty, Bad

ASSUME ConfigAssumption ==
  /\ Default \in Valid /\ Valid \subseteq Config
  /\ Cuts \in [Config -> SUBSET Config]
  /\ {None, Empty, Bad} \cap Config = {} /\ None # Empty /\ None # Bad /\ Empty # Bad

ASSUME ActorAssumption == Main # Installer /\ {Main, Installer} \cap Handler = {}

VARIABLES
  file,        \* the text at the config path; None: no file
  process,     \* the service: "off", "starting" or "up"
  config,      \* what the process was started with
  call,        \* what each actor is doing with the file
  acked,       \* history: the config of the last PUT, if it was answered and
               \* nobody has begun to change the file since
  harmed       \* history: what the file says may be refused, for a known cause

vars == <<file, process, config, call, acked, harmed>>

Actor == Handler \cup {Main, Installer}

-----------------------------------------------------------------------------
(* Texts. *)

\* Mutant: without serde's defaults an empty text is no config.
ReadsStrictly(text) == IF text = Empty THEN Bad ELSE text

\* toml::from_str: every section and every key has a default.
Reads(text) == IF text = Empty THEN Default ELSE text

\* Mutant: a text that is no config is not refused.
AcceptedAlways(text) == TRUE

Accepted(text) == Reads(text) \in Valid

\* A text written over another leaves the rest of a longer one behind it, which does
\* not parse.  A file that was removed is written where nobody finds it.
Over(text, old) ==
  CASE old = None -> {None}
    [] old = Empty -> {text}
    [] OTHER -> {text, Bad}

-----------------------------------------------------------------------------
(* Reading and writing, whoever does it. *)

Idle == [op |-> "none", pc |-> "idle", text |-> None, alone |-> TRUE]

Reader(op) == [op |-> op, pc |-> "exists", text |-> None, alone |-> TRUE]

IsWriter(a) == call[a].pc \in {"truncate", "write"}

Writers == {a \in Actor : IsWriter(a)}

\* a is going to write text; it is alone if no other writer is under way until it ends.
BeginWrite(a, op, text) ==
  call' = [b \in Actor |->
    IF b = a THEN [op |-> op, pc |-> "truncate", text |-> text, alone |-> Writers \ {a} = {}]
    ELSE [call[b] EXCEPT !.alone = FALSE]]

Finish(a) == call' = [call EXCEPT ![a] = Idle]

Truncate(a) ==
  /\ call[a].pc = "truncate"
  /\ file' = Empty
  /\ call' = [call EXCEPT ![a].pc = "write"]
  /\ UNCHANGED <<process, config, acked, harmed>>

\* The write as such, and what the histories make of it.
Writes(a) ==
  /\ call[a].pc = "write"
  /\ file' \in Over(call[a].text, file)
  /\ acked' = IF call[a].op = "put" /\ call[a].alone THEN call[a].text ELSE None
  /\ harmed' = (~call[a].alone \/ call[a].text \notin Valid)

\* No space left on the device: the text is cut off anywhere.
CutOff(a) ==
  /\ call[a].pc = "write"
  /\ file' \in {file, Bad} \cup Cuts[call[a].text]
  /\ acked' = None
  /\ harmed' = TRUE

-----------------------------------------------------------------------------
(* load_or_bootstrap, for get_config and for the start. *)

\* Mutant: the default is written without a look.
BootstrapsAlways(a) == TRUE

Bootstraps(a) == file = None

Exists(a) ==
  /\ call[a].pc = "exists"
  /\ IF Bootstraps(a) THEN BeginWrite(a, call[a].op, Default)
     ELSE call' = [call EXCEPT ![a].pc = "read"]
  /\ UNCHANGED <<file, process, config, acked, harmed>>

Get(h) ==
  /\ process = "up"
  /\ call[h].pc = "idle"
  /\ call' = [call EXCEPT ![h] = Reader("get")]
  /\ UNCHANGED <<file, process, config, acked, harmed>>

\* An answer of 200 with the config, or of 500.
GetReads(h) ==
  /\ call[h].pc = "read"
  /\ Finish(h)
  /\ UNCHANGED <<file, process, config, acked, harmed>>

Launch ==
  /\ process = "off"
  /\ process' = "starting"
  /\ call' = [call EXCEPT ![Main] = Reader("start")]
  /\ UNCHANGED <<file, config, acked, harmed>>

GoesUp(c) ==
  /\ process' = "up"
  /\ config' = c
  /\ Finish(Main)

\* Exit status 1.
Refused ==
  /\ process' = "off"
  /\ config' = None
  /\ Finish(Main)

StartReads ==
  /\ call[Main].pc = "read"
  /\ IF Accepted(file) THEN GoesUp(Reads(file)) ELSE Refused
  /\ UNCHANGED <<file, acked, harmed>>

\* The default is written, and taken as it is.
StartWrites == Writes(Main) /\ GoesUp(Default)

StartCutOff == CutOff(Main) /\ Refused

-----------------------------------------------------------------------------
(* update_config; its config may be one that no start accepts. *)

Put(h, c) ==
  /\ process = "up"
  /\ call[h].pc = "idle"
  /\ BeginWrite(h, "put", c)
  /\ acked' = None
  /\ UNCHANGED <<file, process, config, harmed>>

HandlerWrites(h) == Writes(h) /\ Finish(h) /\ UNCHANGED <<process, config>>

HandlerCutOff(h) == CutOff(h) /\ Finish(h) /\ UNCHANGED <<process, config>>

\* A crash, a stop, or a restart that was scheduled before.
End ==
  /\ process # "off"
  /\ process' = "off"
  /\ config' = None
  /\ call' = [a \in Actor |-> IF a = Installer THEN call[a] ELSE Idle]
  /\ UNCHANGED <<file, acked, harmed>>

-----------------------------------------------------------------------------
(* install_config copies a file, or writes the default if there is none.  A copy of   *)
(* the file onto itself truncates it first and then finds nothing to copy.            *)

InstallConfig(c) ==
  /\ call[Installer].pc = "idle"
  /\ BeginWrite(Installer, "install", c)
  /\ acked' = None
  /\ UNCHANGED <<file, process, config, harmed>>

CopyOntoItself ==
  /\ call[Installer].pc = "idle"
  /\ file # None
  /\ file' = Empty
  /\ acked' = None
  /\ harmed' = (harmed \/ Writers # {})
  /\ UNCHANGED <<process, config, call>>

InstallerWrites == Writes(Installer) /\ Finish(Installer) /\ UNCHANGED <<process, config>>

InstallerCutOff == CutOff(Installer) /\ Finish(Installer) /\ UNCHANGED <<process, config>>

\* The installer is interrupted.
InstallerStops ==
  /\ call[Installer].pc # "idle"
  /\ Finish(Installer)
  /\ UNCHANGED <<file, process, config, acked, harmed>>

-----------------------------------------------------------------------------
(* The administrator replaces or removes the file, while nobody writes it. *)

AdminChanges(text) ==
  /\ Writers = {}
  /\ file' = text
  /\ acked' = None
  /\ harmed' = (text # None /\ text \notin Valid)
  /\ UNCHANGED <<process, config, call>>

Init ==
  /\ file \in Valid \cup {None}
  /\ process = "off"
  /\ config = None
  /\ call = [a \in Actor |-> Idle]
  /\ acked = None
  /\ harmed = FALSE

HandlerNext(h) ==
  \/ \E c \in Config : Put(h, c)
  \/ Get(h) \/ GetReads(h) \/ HandlerWrites(h) \/ HandlerCutOff(h)

StartNext == Launch \/ StartReads \/ StartWrites \/ StartCutOff

InstallerNext ==
  \/ \E c \in Config : InstallConfig(c)
  \/ CopyOntoItself \/ InstallerWrites \/ InstallerCutOff \/ InstallerStops

Next ==
  \/ \E a \in Actor : Exists(a) \/ Truncate(a)
  \/ \E h \in Handler : HandlerNext(h)
  \/ StartNext \/ End \/ InstallerNext
  \/ \E text \in Config \cup {None, Bad} : AdminChanges(text)

Spec == Init /\ [][Next]_vars

-----------------------------------------------------------------------------
(* Correctness. *)

CallType ==
  [op : {"none", "put", "get", "start", "install"},
   pc : {"idle", "exists", "read", "truncate", "write"},
   text : Config \cup {None}, alone : BOOLEAN]

\* Texts, processes and actors; what is written is the text of a config.
TypeOK ==
  /\ file \in Config \cup {None, Empty, Bad}
  /\ process \in {"off", "starting", "up"}
  /\ config \in Config \cup {None}
  /\ call \in [Actor -> CallType]
  /\ \A a \in Actor : IsWriter(a) => call[a].text \in Config
  /\ acked \in Config \cup {None}
  /\ harmed \in BOOLEAN

\* A config that was put and answered with 200 is what every reader finds from then on,
\* through requests, crashes and starts, until the panel, the administrator or an
\* installer begins to change it; overlapping writers promise nothing.
AcknowledgedHolds == acked # None => Reads(file) = acked

\* A start refuses the file only if it was given a config that main does not accept, its
\* text was cut off, or two writers overlapped: a process that ends in the middle of a
\* PUT, or an installer in the middle of its copy, leaves a file the service starts with.
RefusedForCause == harmed \/ file = None \/ Accepted(file)
=============================================================================
