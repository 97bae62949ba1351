------------------------------ MODULE Installer ------------------------------
(***************************************************************************)
(* service-install (install_service in src/src/service_install.rs, a       *)
(* process of its own) and the unit file, which every start of the service *)
(* writes anew (refresh_managed_service_on_start), beside a service that   *)
(* systemd stops, starts and restarts, on a machine that may restart.  The *)
(* configuration file is that of ConfigStore, whose actions are taken here *)
(* as they are.                                                            *)
(*                                                                         *)
(* Of SelfUpdate there is what it leaves at the path of the executable.    *)
(***************************************************************************)
EXTENDS ConfigStore

CONSTANTS
  Version,     \* the executables there are to install
  Own,         \* as a source: the installed executable, or configuration, itself
  Packaged     \* what systemd finds if there is no unit file: the package's, or none

ASSUME VersionAssumption ==
  /\ {None, Bad, Own} \cap Version = {}
  /\ Own \notin Config
  /\ Packaged \in {"none", "whole"}

VARIABLES
  exe,         \* the file at INSTALL_BIN_PATH: a version, None, or Bad: cut off
  own,         \* the process of the service runs the file at that path
  unit,        \* the unit file: "none", "empty" or "whole"
  loaded,      \* what systemd has read of it
  enabled,     \* the service is started with the machine
  pending,     \* systemd is going to start the service
  refresh,     \* where the start of the process is in rewriting the unit
  inst,        \* what the installer is doing
  cut          \* history: the files whose writer was ended or has failed

binary == <<exe, own>>
units == <<unit, loaded>>
systemd == <<enabled, pending>>

hostVars == <<vars, binary, units, systemd, refresh, inst, cut>>

-----------------------------------------------------------------------------
(* The service and systemd. *)

NotInstalling == [pc |-> "idle", from |-> None, conf |-> None, clean |-> FALSE]

Installing == inst.pc # "idle"

\* systemd reads the unit files; it takes an empty one for masked.
Reloads ==
  /\ loaded' = IF unit = "none" THEN Packaged ELSE unit
  /\ cut' = IF unit = "empty" THEN cut ELSE cut \ {"unit"}

\* systemctl start, which does not wait for the execve.
AdminStarts ==
  /\ ~Installing
  /\ process = "off" /\ loaded = "whole"
  /\ pending' = TRUE
  /\ UNCHANGED <<vars, binary, units, enabled, refresh, inst, cut>>

\* The execve of a start, of Restart=on-failure too: of a file that is whole and that
\* nobody has open for writing.  One that fails is tried again.
Executes ==
  /\ pending /\ loaded = "whole"
  /\ exe \in Version
  /\ Launch
  /\ pending' = FALSE
  /\ own' = TRUE
  /\ UNCHANGED <<exe, units, enabled, refresh, inst, cut>>

\* The files whose writing ends with the process that starts.
RefreshCut == IF refresh \in {"write", "reload"} THEN cut \cup {"unit"} ELSE cut

\* There is no process of the service any more; systemd starts it again, or not.
Ended(again) ==
  /\ own' = FALSE
  /\ refresh' = "none"
  /\ pending' = again
  /\ cut' = RefreshCut

\* The process fails, is stopped, or exits because the API was asked for it.
ServiceEnds ==
  /\ End
  /\ \E again \in BOOLEAN : Ended(again)
  /\ UNCHANGED <<exe, units, enabled, inst>>

\* systemctl daemon-reload by anyone, for another package perhaps.
SomeoneReloads ==
  /\ Reloads
  /\ UNCHANGED <<vars, binary, unit, systemd, refresh, inst>>

\* The machine restarts, which has ended all processes before.
Reboot ==
  /\ process = "off" /\ ~Installing
  /\ Reloads
  /\ pending' = (enabled /\ loaded' = "whole")
  /\ UNCHANGED <<vars, binary, unit, enabled, refresh, inst>>

Serving == process = "up" /\ refresh = "none"

\* An update through the API has renamed the file, and put another there or not; not
\* while an installer copies, nor under one that was started from that file.
SelfUpdated(v) ==
  /\ Serving
  /\ inst.pc # "copying" /\ inst.from # Own
  /\ exe' = v
  /\ own' = FALSE
  /\ UNCHANGED <<vars, units, systemd, refresh, inst, cut>>

-----------------------------------------------------------------------------
(* A start: the configuration, then the unit. *)

\* Only a process that runs the installed file, if there is a unit file already.
Refreshes == own /\ unit # "none"

StartUp ==
  /\ StartReads \/ StartWrites \/ StartCutOff
  /\ \/ /\ process' = "up"
        /\ refresh' = IF Refreshes THEN "truncate" ELSE "none"
        /\ UNCHANGED <<own, pending, cut>>
     \/ process' = "off" /\ Ended(TRUE)
  /\ UNCHANGED <<exe, units, enabled, inst>>

UnitTruncate ==
  /\ refresh = "truncate"
  /\ refresh' = "write"
  /\ unit' = "empty"
  /\ UNCHANGED <<vars, binary, loaded, systemd, inst, cut>>

UnitWrite ==
  /\ refresh = "write"
  /\ refresh' = "reload"
  /\ unit' = "whole"
  /\ UNCHANGED <<vars, binary, loaded, systemd, inst, cut>>

\* Mutant: the daemon-reload is forgotten.
UnitNotReloaded ==
  /\ refresh = "reload"
  /\ refresh' = "none"
  /\ UNCHANGED <<vars, binary, units, systemd, inst, cut>>

UnitReload ==
  /\ refresh = "reload"
  /\ refresh' = "none"
  /\ Reloads
  /\ UNCHANGED <<vars, binary, unit, systemd, inst>>

\* An error is logged and the start goes on.
RefreshFails ==
  /\ refresh # "none"
  /\ refresh' = "none"
  /\ cut' = RefreshCut
  /\ UNCHANGED <<vars, binary, units, systemd, inst>>

-----------------------------------------------------------------------------
(* install_service. *)

GoesTo(pc) == inst' = [inst EXCEPT !.pc = pc]

\* Nothing runs that could change what is installed: for the property InstallDelivers.
Quiet == process = "off" /\ ~pending

\* The installed executable may be asked to install itself.
Install(from, conf) ==
  /\ ~Installing
  /\ from = Own => exe \in Version
  /\ conf = Own => file # None
  /\ inst' = [pc |-> IF exe = None THEN "copy" ELSE "ask", from |-> from,
              conf |-> conf, clean |-> exe = None /\ Quiet]
  /\ UNCHANGED <<vars, binary, units, systemd, refresh, cut>>

\* systemctl is-active, which a service that waits for its restart is not.
AsksActive ==
  /\ inst.pc = "ask"
  /\ inst' = IF process = "off" THEN [inst EXCEPT !.pc = "copy", !.clean = Quiet]
             ELSE [inst EXCEPT !.pc = "stop"]
  /\ UNCHANGED <<vars, binary, units, systemd, refresh, cut>>

StopsService ==
  /\ inst.pc = "stop"
  /\ IF process = "off" THEN UNCHANGED vars ELSE End
  /\ Ended(FALSE)
  /\ inst' = [inst EXCEPT !.pc = "copy", !.clean = TRUE]
  /\ UNCHANGED <<exe, units, enabled>>

\* Mutant: the file to copy is not told from the one to write.
CopyBeginsAnyway ==
  /\ inst.pc = "copy"
  /\ exe' = Bad
  /\ GoesTo("copying")
  /\ UNCHANGED <<vars, own, units, systemd, refresh, cut>>

\* A file that is executed cannot be opened for writing.
CopyBegins ==
  /\ inst.pc = "copy"
  /\ ~own /\ inst.from # Own
  /\ exe' = Bad
  /\ GoesTo("copying")
  /\ UNCHANGED <<vars, own, units, systemd, refresh, cut>>

CopyEnds ==
  /\ inst.pc = "copying"
  /\ exe' = inst.from
  /\ cut' = cut \ {"exe"}
  /\ GoesTo("config")
  /\ UNCHANGED <<vars, own, units, systemd, refresh>>

\* Mutant: a configuration that is there is kept.
ConfigKept ==
  /\ inst.pc = "config"
  /\ file # None
  /\ GoesTo("unit")
  /\ UNCHANGED <<vars, binary, units, systemd, refresh, cut>>

ConfigBegins ==
  /\ inst.pc = "config"
  /\ \/ inst.conf = Own /\ CopyOntoItself /\ GoesTo("unit")
     \/ inst.conf # Own /\ InstallConfig(inst.conf) /\ GoesTo("configuring")
  /\ UNCHANGED <<binary, units, systemd, refresh, cut>>

ConfigEnds ==
  /\ inst.pc = "configuring"
  /\ InstallerWrites
  /\ GoesTo("unit")
  /\ UNCHANGED <<binary, units, systemd, refresh, cut>>

UnitBegins ==
  /\ inst.pc = "unit"
  /\ unit' = "empty"
  /\ GoesTo("unit write")
  /\ UNCHANGED <<vars, binary, loaded, systemd, refresh, cut>>

UnitEnds ==
  /\ inst.pc = "unit write"
  /\ unit' = "whole"
  /\ GoesTo("reload")
  /\ UNCHANGED <<vars, binary, loaded, systemd, refresh, cut>>

InstallReloads ==
  /\ inst.pc = "reload"
  /\ Reloads
  /\ GoesTo("enable")
  /\ UNCHANGED <<vars, binary, unit, systemd, refresh>>

\* systemctl enable --now, and "FeatherTail installed and service started".
EnablesNow ==
  /\ inst.pc = "enable"
  /\ loaded = "whole"
  /\ enabled' = TRUE
  /\ pending' = (pending \/ process = "off")
  /\ inst' = NotInstalling
  /\ UNCHANGED <<vars, binary, units, refresh, cut>>

\* The files the installer leaves unfinished.
InstallCut ==
  CASE inst.pc = "copying" -> cut \cup {"exe"}
    [] inst.pc \in {"unit write", "reload"} -> cut \cup {"unit"}
    [] OTHER -> cut

\* Any step fails, or the installer is interrupted.
InstallEnds ==
  /\ Installing
  /\ \/ InstallerStops \/ InstallerCutOff
     \/ call[Installer].pc = "idle" /\ UNCHANGED vars
  /\ inst' = NotInstalling
  /\ cut' = InstallCut
  /\ UNCHANGED <<binary, units, systemd, refresh>>

-----------------------------------------------------------------------------
(* What ConfigStore does besides. *)

Others == <<binary, units, systemd, refresh, inst, cut>>

HostInit ==
  /\ Init
  /\ exe \in Version \cup {None}
  /\ own = FALSE
  /\ unit = "none"
  /\ loaded = Packaged
  /\ enabled \in BOOLEAN
  /\ pending = FALSE
  /\ refresh = "none"
  /\ inst = NotInstalling
  /\ cut = {}

ServiceNext ==
  \/ AdminStarts \/ Executes \/ ServiceEnds \/ SomeoneReloads \/ Reboot
  \/ StartUp \/ UnitTruncate \/ UnitWrite \/ UnitReload \/ RefreshFails
  \/ \E v \in Version \cup {None} : SelfUpdated(v)

InstallNext ==
  \/ \E from \in Version \cup {Own}, conf \in Config \cup {Own} : Install(from, conf)
  \/ AsksActive \/ StopsService \/ CopyBegins \/ CopyEnds
  \/ ConfigBegins \/ ConfigEnds \/ UnitBegins \/ UnitEnds
  \/ InstallReloads \/ EnablesNow \/ InstallEnds

\* Requests are served when the start is over; nobody edits what is being installed.
FileNext ==
  /\ \/ \E a \in Actor : Exists(a) \/ Truncate(a)
     \/ \E h \in Handler : Serving /\ HandlerNext(h)
     \/ \E text \in Config \cup {None, Bad} : ~Installing /\ AdminChanges(text)
  /\ UNCHANGED Others

HostNext == ServiceNext \/ InstallNext \/ FileNext

HostSpec == HostInit /\ [][HostNext]_hostVars

-----------------------------------------------------------------------------
(* Correctness. *)

Early == {"ask", "stop", "copy"}

Late == {"copying", "config", "configuring", "unit", "unit write", "reload", "enable"}

Job(pcs, sources) ==
  [pc : pcs, from : sources, conf : Config \cup {Own}, clean : BOOLEAN]

InstType == {NotInstalling} \cup Job(Early, Version \cup {Own}) \cup Job(Late, Version)

\* Files, process and installer; the executable at the path is one that was installed.
HostTypeOK ==
  /\ exe \in Version \cup {None, Bad}
  /\ unit \in {"none", "empty", "whole"}
  /\ loaded \in {"none", "empty", "whole"}
  /\ refresh \in {"none", "truncate", "write", "reload"}
  /\ {own, enabled, pending} \subseteq BOOLEAN
  /\ inst \in InstType
  /\ cut \subseteq {"exe", "unit"}

Rewriting == refresh \in {"write", "reload"} \/ inst.pc \in {"unit write", "reload"}

\* What systemd would start is there, whoever rewrites it and whoever reloads meanwhile:
\* the executable is cut off and the unit masked only while they are being written, or
\* after the one who wrote them was ended.
StartableForCause ==
  /\ exe = Bad => inst.pc = "copying" \/ "exe" \in cut
  /\ loaded = "empty" => Rewriting \/ "unit" \in cut

\* "FeatherTail installed and service started": the service is about to be started from
\* the executable and the configuration it was installed from, unless it ran, or waited
\* for its restart, without the installer seeing it.  A configuration that was the installed
\* one, copied onto itself, is excepted: it is lost (CopyOntoItself).
InstallDelivers ==
  [][EnablesNow /\ inst.clean =>
       /\ exe = inst.from
       /\ inst.conf # Own => Reads(file) = inst.conf
       /\ pending' /\ enabled']_hostVars
=============================================================================
