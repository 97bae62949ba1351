-------------------------- MODULE Installer_proofs --------------------------
(***************************************************************************)
(* Theorems about ConfigStore and Installer: what an answered PUT and an   *)
(* installation leave on the disk, for any number of requests and configs. *)
(***************************************************************************)
EXTENDS Installer, TLAPS

-----------------------------------------------------------------------------
(* ConfigStore: types. *)

\* An actor that begins to write has the text of a config in hand.
LEMMA BeginWriteTypes ==
  ASSUME TypeOK, NEW a \in Actor, NEW op \in {"none", "put", "get", "start", "install"},
         NEW text \in Config, BeginWrite(a, op, text)
  PROVE  /\ call' \in [Actor -> CallType]
         /\ \A b \in Actor : IsWriter(b)' => call'[b].text \in Config
<1> DEFINE r == [op |-> op, pc |-> "truncate", text |-> text, alone |-> Writers \ {a} = {}]
           s(b) == [call[b] EXCEPT !.alone = FALSE]
<1>CallType. r \in CallType
  BY DEF CallType
<1>CallTypePc. \A b \in Actor : /\ s(b) \in CallType
                                /\ s(b).pc = call[b].pc /\ s(b).text = call[b].text
  BY DEF TypeOK, CallType
<1>text. r.text = text
  OBVIOUS
<1> HIDE DEF r, s
<1>newCall. call' = [b \in Actor |-> IF b = a THEN r ELSE s(b)]
  BY DEF BeginWrite, r, s
<1> QED
  BY <1>CallType, <1>CallTypePc, <1>text, <1>newCall DEF TypeOK, IsWriter

\* An actor that ends, or moves on in what it does.
LEMMA CallTypes ==
  ASSUME TypeOK, NEW a \in Actor,
         \/ call' = [call EXCEPT ![a] = Idle]
         \/ \E op \in {"get", "start"} : call' = [call EXCEPT ![a] = Reader(op)]
         \/ call' = [call EXCEPT ![a].pc = "read"]
         \/ IsWriter(a) /\ call' = [call EXCEPT ![a].pc = "write"]
  PROVE  /\ call' \in [Actor -> CallType]
         /\ \A b \in Actor : IsWriter(b)' => call'[b].text \in Config
<1>isNewCall. CASE call' = [call EXCEPT ![a] = Idle]
  BY <1>isNewCall DEF TypeOK, CallType, IsWriter, Idle
<1>newCall. ASSUME NEW op \in {"get", "start"}, call' = [call EXCEPT ![a] = Reader(op)]
            PROVE  /\ call' \in [Actor -> CallType]
                   /\ \A b \in Actor : IsWriter(b)' => call'[b].text \in Config
  BY <1>newCall DEF TypeOK, CallType, IsWriter, Reader
<1>isCall. CASE call' = [call EXCEPT ![a].pc = "read"]
  BY <1>isCall DEF TypeOK, CallType, IsWriter
<1>isIsWriter. CASE IsWriter(a) /\ call' = [call EXCEPT ![a].pc = "write"]
  BY <1>isIsWriter DEF TypeOK, CallType, IsWriter
<1> QED
  BY <1>isNewCall, <1>newCall, <1>isCall, <1>isIsWriter

\* A write, whole or cut off, leaves texts.
LEMMA WriteTypes ==
  ASSUME TypeOK, NEW a \in Actor, Writes(a) \/ CutOff(a)
  PROVE  /\ file' \in Config \cup {None, Empty, Bad}
         /\ acked' \in Config \cup {None}
         /\ harmed' \in BOOLEAN
<1>1. call[a].text \in Config
  BY DEF Writes, CutOff, TypeOK, IsWriter
<1>2. Cuts[call[a].text] \subseteq Config
  BY <1>1, ConfigAssumption
<1> QED
  BY <1>1, <1>2 DEF Writes, CutOff, Over, TypeOK

\* Each step keeps the types.
LEMMA TypeStep ==
  ASSUME TypeOK, [Next]_vars
  PROVE  TypeOK'
<1> DEFINE CallOK == /\ call \in [Actor -> CallType]
                     /\ \A a \in Actor : IsWriter(a) => call[a].text \in Config
<1>1. Main \in Actor /\ Installer \in Actor /\ Handler \subseteq Actor /\ Default \in Config
  BY ConfigAssumption DEF Actor
<1>Exists. ASSUME NEW a \in Actor, Exists(a) PROVE TypeOK'
  <2>Bootstraps. CASE Bootstraps(a)
    <3>1. call[a].op \in {"none", "put", "get", "start", "install"}
      BY DEF TypeOK, CallType
    <3>2. CallOK'
      BY <1>1, <1>Exists, <2>Bootstraps, <3>1, BeginWriteTypes DEF Exists
    <3> QED
      BY <1>Exists, <3>2 DEF Exists, TypeOK
  <2>2. CASE ~Bootstraps(a)
    <3>1. CallOK'
      BY <1>Exists, <2>2, CallTypes DEF Exists
    <3> QED
      BY <1>Exists, <3>1 DEF Exists, TypeOK
  <2> QED
    BY <2>Bootstraps, <2>2
<1>Truncate. ASSUME NEW a \in Actor, Truncate(a) PROVE TypeOK'
  <2>1. CallOK'
    BY <1>Truncate, CallTypes DEF Truncate, IsWriter
  <2> QED
    BY <1>Truncate, <2>1 DEF Truncate, TypeOK
<1>Put. ASSUME NEW h \in Handler, NEW c \in Config, Put(h, c) PROVE TypeOK'
  <2>1. CallOK'
    BY <1>1, <1>Put, BeginWriteTypes DEF Put
  <2> QED
    BY <1>Put, <2>1 DEF Put, TypeOK
<1>5. ASSUME NEW h \in Handler, Get(h) \/ GetReads(h) PROVE TypeOK'
  <2>1. CallOK'
    BY <1>1, <1>5, CallTypes DEF Get, GetReads, Finish
  <2> QED
    BY <1>5, <2>1 DEF Get, GetReads, TypeOK
<1>Finish. ASSUME NEW a \in Actor, Writes(a) \/ CutOff(a), Finish(a),
                  process' \in {"off", "starting", "up"}, config' \in Config \cup {None}
           PROVE  TypeOK'
  <2>1. CallOK'
    BY <1>Finish, CallTypes DEF Finish
  <2> QED
    BY <1>Finish, <2>1, WriteTypes DEF TypeOK
<1>Launch. CASE Launch
  <2>1. CallOK'
    BY <1>1, <1>Launch, CallTypes DEF Launch
  <2> QED
    BY <1>Launch, <2>1 DEF Launch, TypeOK
<1>StartReads. CASE StartReads
  <2>1. CallOK'
    BY <1>1, <1>StartReads, CallTypes DEF StartReads, GoesUp, Refused, Finish
  <2>2. Accepted(file) => Reads(file) \in Config
    BY ConfigAssumption DEF Accepted
  <2> QED
    BY <1>StartReads, <2>1, <2>2 DEF StartReads, GoesUp, Refused, TypeOK
<1>StartWritesOrStartCutOff. CASE StartWrites \/ StartCutOff
  BY <1>1, <1>Finish, <1>StartWritesOrStartCutOff
  DEF StartWrites, StartCutOff, GoesUp, Refused
<1>End. CASE End
  <2>1. CallOK'
    BY <1>End DEF End, TypeOK, CallType, IsWriter, Idle
  <2> QED
    BY <1>End, <2>1 DEF End, TypeOK
<1>InstallConfig. ASSUME NEW c \in Config, InstallConfig(c) PROVE TypeOK'
  <2>1. CallOK'
    BY <1>1, <1>InstallConfig, BeginWriteTypes DEF InstallConfig
  <2> QED
    BY <1>InstallConfig, <2>1 DEF InstallConfig, TypeOK
<1>CopyOntoItself. CASE CopyOntoItself
  BY <1>CopyOntoItself DEF CopyOntoItself, TypeOK, IsWriter
<1>InstallerStops. CASE InstallerStops
  <2>1. CallOK'
    BY <1>1, <1>InstallerStops, CallTypes DEF InstallerStops, Finish
  <2> QED
    BY <1>InstallerStops, <2>1 DEF InstallerStops, TypeOK
<1>14. ASSUME NEW h \in Handler, HandlerWrites(h) \/ HandlerCutOff(h) PROVE TypeOK'
  BY <1>1, <1>Finish, <1>14 DEF HandlerWrites, HandlerCutOff, TypeOK
<1>InstallerWritesOrInstallerCutOff. CASE InstallerWrites \/ InstallerCutOff
  BY <1>1, <1>Finish, <1>InstallerWritesOrInstallerCutOff
  DEF InstallerWrites, InstallerCutOff, TypeOK
<1>AdminChanges.
    ASSUME NEW text \in Config \cup {None, Bad}, AdminChanges(text) PROVE TypeOK'
  BY <1>AdminChanges DEF AdminChanges, TypeOK, IsWriter
<1>Unchanged. CASE UNCHANGED vars
  BY <1>Unchanged DEF vars, TypeOK, IsWriter
<1> QED
  BY <1>Exists, <1>Truncate, <1>Put, <1>5, <1>Launch, <1>StartReads,
     <1>StartWritesOrStartCutOff, <1>End, <1>InstallConfig, <1>CopyOntoItself,
     <1>InstallerStops, <1>14, <1>InstallerWritesOrInstallerCutOff, <1>AdminChanges,
     <1>Unchanged
  DEF Next, HandlerNext, StartNext, InstallerNext

\* The file is nothing, a text or part of one, and whoever writes has a config in hand.
THEOREM TypeCorrect == Spec => []TypeOK
<1>init. Init => TypeOK
  <2>1. Idle \in CallType /\ Idle.pc = "idle"
    BY DEF Idle, CallType
  <2> QED
    BY <2>1, ConfigAssumption DEF Init, TypeOK, IsWriter
<1>step. TypeOK /\ [Next]_vars => TypeOK'
  BY TypeStep
<1> QED
  BY <1>init, <1>step, PTL DEF Spec

-----------------------------------------------------------------------------
(* ConfigStore: what the file says. *)

\* A writer that is alone is the only one and writes into an empty file; nobody writes
\* a file whose text is acknowledged; a file that no known cause has harmed is empty,
\* absent, or one main accepts.
FileInv ==
  /\ \A a, b \in Actor : call[a].alone /\ IsWriter(a) /\ IsWriter(b) => a = b
  /\ \A a \in Actor : call[a].alone /\ call[a].pc = "write" => file = Empty
  /\ acked # None => file = acked /\ Writers = {}
  /\ harmed \/ file \in Valid \cup {None, Empty}

\* Nobody begins to write, and the file stays as it is.
LEMMA NoNewWriter ==
  ASSUME FileInv, UNCHANGED <<file, acked, harmed>>,
         \A a \in Actor : IsWriter(a)' => IsWriter(a) /\ call'[a] = call[a]
  PROVE  FileInv'
BY DEF FileInv, Writers, IsWriter

\* a begins to write.
LEMMA WriteBegins ==
  ASSUME TypeOK, FileInv, NEW a \in Actor, NEW op, NEW text, BeginWrite(a, op, text),
         UNCHANGED <<file, harmed>>, acked' = None
  PROVE  FileInv'
<1> DEFINE r == [op |-> op, pc |-> "truncate", text |-> text, alone |-> Writers \ {a} = {}]
<1>pc. r.pc = "truncate" /\ (r.alone <=> \A b \in Actor : IsWriter(b) => b = a)
  BY DEF Writers
<1> HIDE DEF r
<1>newCall. call'[a] = r
  BY DEF BeginWrite, r
<1>newCallAlone. ASSUME NEW b \in Actor, b # a
                 PROVE  call'[b].alone = FALSE /\ call'[b].pc = call[b].pc
  <2>1. call[b] \in CallType
    BY DEF TypeOK
  <2>2. call'[b] = [call[b] EXCEPT !.alone = FALSE]
    BY <1>newCallAlone DEF BeginWrite
  <2> QED
    BY <2>1, <2>2 DEF CallType
<1>newCallIsWriter.
    \A b, c \in Actor : call'[b].alone /\ IsWriter(b)' /\ IsWriter(c)' => b = c
  <2> SUFFICES ASSUME NEW b \in Actor, NEW c \in Actor, call'[b].alone, IsWriter(c)'
               PROVE  b = c
    OBVIOUS
  <2>sole. b = a
    BY <1>newCallAlone
  <2>other. CASE c # a
    BY <1>pc, <1>newCall, <1>newCallAlone, <2>sole, <2>other DEF IsWriter
  <2> QED
    BY <2>sole, <2>other
<1>newCallPc. \A b \in Actor : ~(call'[b].alone /\ call'[b].pc = "write")
  BY <1>pc, <1>newCall, <1>newCallAlone
<1> QED
  BY <1>newCallIsWriter, <1>newCallPc DEF FileInv

\* a has written.
LEMMA WriteEnds ==
  ASSUME TypeOK, FileInv, NEW a \in Actor, Writes(a) \/ CutOff(a), Finish(a)
  PROVE  FileInv'
<1>newCall. \A b \in Actor : call'[b] = IF b = a THEN Idle ELSE call[b]
  BY DEF Finish, TypeOK
<1>IsWriter. \A b \in Actor : IsWriter(b)' => b # a /\ IsWriter(b) /\ call'[b] = call[b]
  BY <1>newCall DEF IsWriter, Idle
<1>writer. IsWriter(a)
  BY DEF Writes, CutOff, IsWriter
<1>IsWriterNotNewCall. \A b \in Actor : IsWriter(b)' => ~call'[b].alone
  BY <1>IsWriter, <1>writer DEF FileInv
<1>newCallPc. \A b \in Actor : call'[b].pc = "write" => ~call'[b].alone
  BY <1>IsWriterNotNewCall DEF IsWriter
<1>newCallAlone. \A b, c \in Actor : call'[b].alone /\ IsWriter(b)' /\ IsWriter(c)' => b = c
  BY <1>IsWriterNotNewCall
<1>CutOff. CASE CutOff(a)
  BY <1>newCallPc, <1>newCallAlone, <1>CutOff DEF FileInv, CutOff
<1>isWrites. CASE Writes(a) /\ ~call[a].alone
  BY <1>newCallPc, <1>newCallAlone, <1>isWrites DEF FileInv, Writes
<1>isCall. CASE Writes(a) /\ call[a].alone
  <2>file. file = Empty
    BY <1>isCall DEF FileInv, Writes
  <2>newFile. file' = call[a].text
    BY <1>isCall, <2>file, ConfigAssumption DEF Writes, Over
  <2>Writers. Writers' = {}
    BY <1>IsWriter, <1>writer, <1>isCall DEF FileInv, Writers
  <2>newAcked. acked' = None \/ acked' = file'
    BY <1>isCall, <2>newFile DEF Writes
  <2>newHarmed. harmed' \/ file' \in Valid
    BY <1>isCall, <2>newFile DEF Writes
  <2> QED
    BY <1>newCallPc, <1>newCallAlone, <2>Writers, <2>newAcked, <2>newHarmed DEF FileInv
<1> QED
  BY <1>CutOff, <1>isWrites, <1>isCall

\* Each step keeps the invariant of the file.
LEMMA FileStep ==
  ASSUME TypeOK, FileInv, [Next]_vars
  PROVE  FileInv'
<1>1. Main \in Actor /\ Installer \in Actor /\ Handler \subseteq Actor
  BY DEF Actor
<1>Exists. ASSUME NEW a \in Actor, Exists(a) PROVE FileInv'
  <2>Bootstraps. CASE Bootstraps(a)
    <3>1. acked = None
      BY <2>Bootstraps, ConfigAssumption DEF Bootstraps, FileInv, TypeOK
    <3> QED
      BY <1>Exists, <2>Bootstraps, <3>1, WriteBegins DEF Exists
  <2>2. CASE ~Bootstraps(a)
    <3>1. \A b \in Actor : IsWriter(b)' => IsWriter(b) /\ call'[b] = call[b]
      BY <1>Exists, <2>2 DEF Exists, TypeOK, CallType, IsWriter
    <3> QED
      BY <1>Exists, <3>1, NoNewWriter DEF Exists
  <2> QED
    BY <2>Bootstraps, <2>2
<1>Truncate. ASSUME NEW a \in Actor, Truncate(a) PROVE FileInv'
  <2>call. /\ call[a].pc = "truncate" /\ file' = Empty
           /\ UNCHANGED <<acked, harmed>>
    BY <1>Truncate DEF Truncate
  <2>IsWriter. \A b \in Actor : /\ IsWriter(b)' <=> IsWriter(b)
                                /\ call'[b].alone = call[b].alone
    BY <1>Truncate DEF Truncate, TypeOK, CallType, IsWriter
  <2>acked. acked = None
    BY <2>call DEF FileInv, Writers, IsWriter
  <2> QED
    BY <2>call, <2>IsWriter, <2>acked DEF FileInv
<1>Put. ASSUME NEW h \in Handler, NEW c \in Config, Put(h, c) PROVE FileInv'
  BY <1>1, <1>Put, WriteBegins DEF Put
<1>5. ASSUME NEW h \in Handler, Get(h) \/ GetReads(h) PROVE FileInv'
  BY <1>1, <1>5, NoNewWriter DEF Get, GetReads, Finish, TypeOK, IsWriter, Reader, Idle
<1>Launch. CASE Launch
  BY <1>1, <1>Launch, NoNewWriter DEF Launch, TypeOK, IsWriter, Reader
<1>StartReads. CASE StartReads
  BY <1>1, <1>StartReads, NoNewWriter
  DEF StartReads, GoesUp, Refused, Finish, TypeOK, IsWriter, Idle
<1>StartWritesOrStartCutOff. CASE StartWrites \/ StartCutOff
  BY <1>1, <1>StartWritesOrStartCutOff, WriteEnds
  DEF StartWrites, StartCutOff, GoesUp, Refused
<1>End. CASE End
  BY <1>End, NoNewWriter DEF End, TypeOK, IsWriter, Idle
<1>InstallConfig. ASSUME NEW c \in Config, InstallConfig(c) PROVE FileInv'
  BY <1>1, <1>InstallConfig, WriteBegins DEF InstallConfig
<1>CopyOntoItself. CASE CopyOntoItself
  BY <1>CopyOntoItself DEF CopyOntoItself, FileInv, Writers, IsWriter
<1>InstallerStops. CASE InstallerStops
  BY <1>1, <1>InstallerStops, NoNewWriter DEF InstallerStops, Finish, TypeOK, IsWriter, Idle
<1>13. ASSUME NEW h \in Handler, HandlerWrites(h) \/ HandlerCutOff(h) PROVE FileInv'
  BY <1>1, <1>13, WriteEnds DEF HandlerWrites, HandlerCutOff
<1>InstallerWritesOrInstallerCutOff. CASE InstallerWrites \/ InstallerCutOff
  BY <1>1, <1>InstallerWritesOrInstallerCutOff, WriteEnds
  DEF InstallerWrites, InstallerCutOff
<1>AdminChanges.
    ASSUME NEW text \in Config \cup {None, Bad}, AdminChanges(text) PROVE FileInv'
  BY <1>AdminChanges DEF AdminChanges, FileInv, Writers, IsWriter
<1>Unchanged. CASE UNCHANGED vars
  BY <1>Unchanged DEF vars, FileInv, Writers, IsWriter
<1> QED
  BY <1>Exists, <1>Truncate, <1>Put, <1>5, <1>Launch, <1>StartReads,
     <1>StartWritesOrStartCutOff, <1>End, <1>InstallConfig, <1>CopyOntoItself,
     <1>InstallerStops, <1>13, <1>InstallerWritesOrInstallerCutOff, <1>AdminChanges,
     <1>Unchanged
  DEF Next, HandlerNext, StartNext, InstallerNext

\* Types and the invariant of the file hold together.
LEMMA FileInvariant == Spec => [](TypeOK /\ FileInv)
<1>init. Init => FileInv
  BY DEF Init, FileInv, Writers, IsWriter, Idle
<1>step. TypeOK /\ FileInv /\ [Next]_vars => FileInv'
  BY FileStep
<1> QED
  BY <1>init, <1>step, TypeCorrect, PTL DEF Spec

-----------------------------------------------------------------------------
(* Installer: what its steps do with the file. *)

\* What the installer has in hand.
LEMMA InstTypes ==
  ASSUME HostTypeOK
  PROVE  /\ inst.pc \in Early => inst \in Job(Early, Version \cup {Own})
         /\ inst.pc \in Late => inst \in Job(Late, Version)
         /\ Installing => inst.conf \in Config \cup {Own}
<1>isInst. CASE inst = NotInstalling
  <2>1. inst.pc = "idle"
    BY <1>isInst DEF NotInstalling
  <2> QED
    BY <2>1 DEF Early, Late, Installing
<1>isJob. CASE inst \in Job(Early, Version \cup {Own})
  <2>1. inst.pc \in Early /\ inst.conf \in Config \cup {Own}
    BY <1>isJob DEF Job
  <2> QED
    BY <1>isJob, <2>1 DEF Early, Late
<1>isLate. CASE inst \in Job(Late, Version)
  <2>1. inst.pc \in Late /\ inst.conf \in Config \cup {Own}
    BY <1>isLate DEF Job
  <2> QED
    BY <1>isLate, <2>1 DEF Early, Late
<1> QED
  BY <1>isInst, <1>isJob, <1>isLate DEF HostTypeOK, InstType

\* A step of the installer, the service or systemd is a step of ConfigStore or leaves the
\* configuration file and its users alone.
LEMMA HostStep ==
  ASSUME HostTypeOK, [HostNext]_hostVars
  PROVE  [Next]_vars
<1>ServiceNext. CASE ServiceNext
  BY <1>ServiceNext
  DEF ServiceNext, AdminStarts, Executes, ServiceEnds, SomeoneReloads, Reboot, StartUp,
      UnitTruncate, UnitWrite, UnitReload, RefreshFails, SelfUpdated, Next, StartNext
<1>ConfigBegins. CASE ConfigBegins
  <2>1. inst.conf # Own => inst.conf \in Config
    BY <1>ConfigBegins, InstTypes DEF ConfigBegins, Installing
  <2> QED
    BY <1>ConfigBegins, <2>1 DEF ConfigBegins, Next, InstallerNext
<1>3. CASE InstallNext /\ ~ConfigBegins
  BY <1>3
  DEF InstallNext, Install, AsksActive, StopsService, CopyBegins, CopyEnds, ConfigEnds,
      UnitBegins, UnitEnds, InstallReloads, EnablesNow, InstallEnds, Next, InstallerNext
<1>FileNext. CASE FileNext
  BY <1>FileNext DEF FileNext, Next
<1>Unchanged. CASE UNCHANGED hostVars
  BY <1>Unchanged DEF hostVars
<1> QED
  BY <1>ServiceNext, <1>ConfigBegins, <1>3, <1>FileNext, <1>Unchanged DEF HostNext

\* Each step of the installer keeps the type of its record.
LEMMA InstStep ==
  ASSUME HostTypeOK, InstallNext
  PROVE  inst' \in InstType
<1>Install.
    ASSUME NEW from \in Version \cup {Own}, NEW conf \in Config \cup {Own}, Install(from, conf)
    PROVE  inst' \in InstType
  <2>1. inst' \in Job(Early, Version \cup {Own})
    BY <1>Install DEF Install, Job, Early
  <2> QED
    BY <2>1 DEF InstType
<1>AsksActiveOrStopsService. CASE AsksActive \/ StopsService
  <2>1. inst' \in Job(Early, Version \cup {Own})
    BY <1>AsksActiveOrStopsService, InstTypes
    DEF AsksActive, StopsService, Quiet, Job, Early
  <2> QED
    BY <2>1 DEF InstType
<1>CopyBegins. CASE CopyBegins
  <2>1. inst' \in Job(Late, Version)
    BY <1>CopyBegins, InstTypes DEF CopyBegins, GoesTo, Job, Early, Late
  <2> QED
    BY <2>1 DEF InstType
<1>7.
    CASE CopyEnds \/ ConfigBegins \/ ConfigEnds \/ UnitBegins \/ UnitEnds \/ InstallReloads
  <2>1. inst' \in Job(Late, Version)
    BY <1>7, InstTypes
    DEF CopyEnds, ConfigBegins, ConfigEnds, UnitBegins, UnitEnds, InstallReloads, GoesTo,
        Job, Late
  <2> QED
    BY <2>1 DEF InstType
<1>EnablesNowOrInstallEnds. CASE EnablesNow \/ InstallEnds
  BY <1>EnablesNowOrInstallEnds DEF EnablesNow, InstallEnds, InstType
<1> QED
  BY <1>Install, <1>AsksActiveOrStopsService, <1>CopyBegins, <1>7,
     <1>EnablesNowOrInstallEnds
  DEF InstallNext

\* Each step keeps the types of the host.
LEMMA HostTypeStep ==
  ASSUME HostTypeOK, [HostNext]_hostVars
  PROVE  HostTypeOK'
<1>1. inst' \in InstType
  <2>InstallNext. CASE InstallNext
    BY <2>InstallNext, InstStep
  <2>2. CASE inst' = inst
    BY <2>2 DEF HostTypeOK
  <2> QED
    BY <2>InstallNext, <2>2
    DEF HostNext, ServiceNext, AdminStarts, Executes, ServiceEnds, SomeoneReloads,
        Reboot, StartUp, UnitTruncate, UnitWrite, UnitReload, RefreshFails, SelfUpdated,
        FileNext, Others, hostVars
<1>Reloads. ASSUME Reloads
            PROVE  /\ loaded' \in {"none", "empty", "whole"}
                   /\ cut' \subseteq {"exe", "unit"}
  BY <1>Reloads, VersionAssumption DEF Reloads, HostTypeOK
<1>3. RefreshCut \subseteq {"exe", "unit"} /\ InstallCut \subseteq {"exe", "unit"}
  BY DEF RefreshCut, InstallCut, HostTypeOK
<1>ServiceNext. CASE ServiceNext
  BY <1>1, <1>Reloads, <1>3, <1>ServiceNext
  DEF ServiceNext, AdminStarts, Executes, ServiceEnds, SomeoneReloads, Reboot, StartUp,
      UnitTruncate, UnitWrite, UnitReload, RefreshFails, SelfUpdated, Ended, HostTypeOK,
      binary, units, systemd
<1>CopyEnds. CASE CopyEnds
  <2>1. exe' \in Version
    BY <1>CopyEnds, InstTypes DEF CopyEnds, Late, Job
  <2>2. cut' \subseteq {"exe", "unit"}
    BY <1>CopyEnds DEF CopyEnds, HostTypeOK
  <2> QED
    BY <1>1, <1>CopyEnds, <2>1, <2>2 DEF CopyEnds, HostTypeOK, units, systemd
<1>6. CASE InstallNext /\ ~CopyEnds
  BY <1>1, <1>Reloads, <1>3, <1>6
  DEF InstallNext, Install, AsksActive, StopsService, CopyBegins, ConfigBegins,
      ConfigEnds, UnitBegins, UnitEnds, InstallReloads, EnablesNow, InstallEnds, Ended,
      HostTypeOK, binary, units, systemd
<1>7. CASE FileNext \/ UNCHANGED hostVars
  BY <1>1, <1>7 DEF FileNext, hostVars, Others, HostTypeOK, binary, units, systemd
<1> QED
  BY <1>ServiceNext, <1>CopyEnds, <1>6, <1>7 DEF HostNext

\* The files, the unit and the installer keep their types.
THEOREM HostTypeCorrect == HostSpec => []HostTypeOK
<1>1. HostInit => HostTypeOK
  BY VersionAssumption DEF HostInit, HostTypeOK, InstType
<1>2. HostTypeOK /\ [HostNext]_hostVars => HostTypeOK'
  BY HostTypeStep
<1> QED
  BY <1>1, <1>2, PTL DEF HostSpec

\* The host takes the actions of ConfigStore as they are: what is proved of the file
\* alone holds of it beside an installation.
LEMMA HostUsesFile == HostSpec => Spec
<1>1. HostInit => Init
  BY DEF HostInit
<1>2. HostTypeOK /\ [HostNext]_hostVars => [Next]_vars
  BY HostStep
<1> QED
  BY <1>1, <1>2, HostTypeCorrect, PTL DEF HostSpec, Spec

\* A PUT that was answered with 200 holds through requests, crashes, starts and
\* installations, until somebody begins to change the file.
THEOREM PutHolds == HostSpec => []AcknowledgedHolds
<1>means. TypeOK /\ FileInv => AcknowledgedHolds
  BY ConfigAssumption DEF FileInv, TypeOK, AcknowledgedHolds, Reads
<1> QED
  BY <1>means, FileInvariant, HostUsesFile, PTL

\* Wherever a writer that is alone ends, also an installer, the service starts with what
\* it leaves.
THEOREM FileAccepted == HostSpec => []RefusedForCause
<1>means. FileInv => RefusedForCause
  BY ConfigAssumption DEF FileInv, RefusedForCause, Accepted, Reads
<1> QED
  BY <1>means, FileInvariant, HostUsesFile, PTL

-----------------------------------------------------------------------------
(* Who does something with the file. *)

\* Requests are of a process that is up, a start of one that is starting.
ProcessInv ==
  /\ call[Main].pc # "idle" => process = "starting"
  /\ \A h \in Handler : call[h].pc # "idle" => process = "up"
  /\ call[Installer].pc \in {"idle", "truncate", "write"}

\* Each step of ConfigStore keeps it.
LEMMA ProcessStep ==
  ASSUME TypeOK, ProcessInv, [Next]_vars
  PROVE  ProcessInv'
<1>Main. /\ Main \in Actor /\ Installer \in Actor /\ Handler \subseteq Actor
         /\ Main # Installer /\ Main \notin Handler /\ Installer \notin Handler
  BY ActorAssumption DEF Actor
<1>BeginWrite.
    ASSUME NEW a \in Actor, NEW op, NEW text, BeginWrite(a, op, text)
    PROVE  \A b \in Actor : call'[b].pc = IF b = a THEN "truncate" ELSE call[b].pc
  BY <1>BeginWrite DEF BeginWrite, TypeOK, CallType
<1>Finish. ASSUME NEW a \in Actor, Finish(a)
           PROVE  \A b \in Actor : call'[b].pc = IF b = a THEN "idle" ELSE call[b].pc
  BY <1>Finish DEF Finish, Idle, TypeOK
<1>Exists. ASSUME NEW a \in Actor, Exists(a) PROVE ProcessInv'
  <2>call. call[a].pc = "exists" /\ process' = process
    BY <1>Exists DEF Exists
  <2>newCall. \A b \in Actor : b # a => call'[b].pc = call[b].pc
    <3>Bootstraps. CASE Bootstraps(a)
      BY <1>BeginWrite, <1>Exists, <3>Bootstraps DEF Exists
    <3>2. CASE ~Bootstraps(a)
      BY <1>Exists, <3>2 DEF Exists, TypeOK, CallType
    <3> QED
      BY <3>Bootstraps, <3>2
  <2> QED
    BY <1>Main, <2>call, <2>newCall DEF ProcessInv
<1>Truncate. ASSUME NEW a \in Actor, Truncate(a) PROVE ProcessInv'
  BY <1>Main, <1>Truncate DEF Truncate, ProcessInv, TypeOK, CallType
<1>Put. ASSUME NEW h \in Handler, NEW c \in Config, Put(h, c) PROVE ProcessInv'
  BY <1>Main, <1>BeginWrite, <1>Put DEF Put, ProcessInv
<1>Get. ASSUME NEW h \in Handler, Get(h) PROVE ProcessInv'
  BY <1>Main, <1>Get DEF Get, ProcessInv, TypeOK
<1>ProcessInv.
    ASSUME NEW h \in Handler, GetReads(h) \/ HandlerWrites(h) \/ HandlerCutOff(h) PROVE ProcessInv'
  BY <1>Main, <1>Finish, <1>ProcessInv
  DEF GetReads, HandlerWrites, HandlerCutOff, ProcessInv
<1>Launch. CASE Launch
  BY <1>Main, <1>Launch DEF Launch, ProcessInv, TypeOK
<1>isStartReads. CASE StartReads \/ StartWrites \/ StartCutOff
  <2>1. call[Main].pc # "idle" /\ Finish(Main)
    BY <1>isStartReads
    DEF StartReads, StartWrites, StartCutOff, GoesUp, Refused, Writes, CutOff
  <2>2. \A h \in Handler : call[h].pc = "idle"
    BY <2>1 DEF ProcessInv
  <2> QED
    BY <1>Main, <1>Finish, <2>1, <2>2 DEF ProcessInv
<1>End. CASE End
  BY <1>Main, <1>End DEF End, ProcessInv, Idle
<1>InstallConfig. ASSUME NEW c \in Config, InstallConfig(c) PROVE ProcessInv'
  BY <1>Main, <1>BeginWrite, <1>InstallConfig DEF InstallConfig, ProcessInv
<1>isInstallerWrites. CASE InstallerWrites \/ InstallerCutOff \/ InstallerStops
  <2>1. Finish(Installer) /\ process' = process
    BY <1>isInstallerWrites DEF InstallerWrites, InstallerCutOff, InstallerStops
  <2> QED
    BY <1>Main, <1>Finish, <2>1 DEF ProcessInv
<1>isCopyOntoItself.
    CASE CopyOntoItself \/ (\E text \in Config \cup {None, Bad} : AdminChanges(text)) \/ UNCHANGED vars
  BY <1>isCopyOntoItself DEF CopyOntoItself, AdminChanges, vars, ProcessInv
<1> QED
  BY <1>Exists, <1>Truncate, <1>Put, <1>Get, <1>ProcessInv, <1>Launch, <1>isStartReads,
     <1>End, <1>InstallConfig, <1>isInstallerWrites, <1>isCopyOntoItself
  DEF Next, HandlerNext, StartNext, InstallerNext

\* The unit is rewritten by a process that is up; the installer writes the configuration
\* it was asked for, and only while it installs that.
UsersInv ==
  /\ refresh # "none" => process = "up"
  /\ call[Installer].pc # "idle" => inst.pc = "configuring"
  /\ inst.pc = "configuring" =>
       /\ call[Installer].pc # "idle"
       /\ call[Installer].text = inst.conf
       /\ inst.conf \in Config

\* Each step of the host keeps it.
LEMMA UsersStep ==
  ASSUME TypeOK, HostTypeOK, ProcessInv, UsersInv, [HostNext]_hostVars
  PROVE  UsersInv'
<1>Main. /\ Main \in Actor /\ Installer \in Actor /\ Handler \subseteq Actor
         /\ Main # Installer /\ Main \notin Handler /\ Installer \notin Handler
  BY ActorAssumption DEF Actor
<1>BeginWrite.
    ASSUME NEW a \in Actor, NEW op, NEW text, a # Installer, BeginWrite(a, op, text)
    PROVE  /\ call'[Installer].pc = call[Installer].pc
           /\ call'[Installer].text = call[Installer].text
  BY <1>Main, <1>BeginWrite DEF BeginWrite, TypeOK, CallType
<1>Finish. ASSUME NEW a \in Actor, a # Installer, Finish(a)
           PROVE  call'[Installer] = call[Installer]
  BY <1>Main, <1>Finish DEF Finish, TypeOK
<1>Executes. CASE Executes
  <2>1. call'[Installer] = call[Installer] /\ process = "off"
    BY <1>Main, <1>Executes DEF Executes, Launch, TypeOK
  <2> QED
    BY <1>Executes, <2>1 DEF Executes, UsersInv
<1>StartUp. CASE StartUp
  <2>1. Finish(Main) /\ call[Main].pc # "idle"
    BY <1>StartUp
    DEF StartUp, StartReads, StartWrites, StartCutOff, GoesUp, Refused, Writes, CutOff
  <2>2. call'[Installer] = call[Installer]
    BY <1>Main, <1>Finish, <2>1
  <2>3. refresh' # "none" => process' = "up"
    BY <1>StartUp DEF StartUp, Ended
  <2> QED
    BY <1>StartUp, <2>2, <2>3 DEF StartUp, UsersInv
<1>ServiceEndsOrStopsService. CASE ServiceEnds \/ StopsService
  <2>End. End \/ UNCHANGED vars
    BY <1>ServiceEndsOrStopsService DEF ServiceEnds, StopsService
  <2>newCall. call'[Installer] = call[Installer]
    BY <1>Main, <2>End DEF End, vars
  <2>newRefresh. refresh' = "none"
    BY <1>ServiceEndsOrStopsService DEF ServiceEnds, StopsService, Ended
  <2>ServiceEnds. CASE ServiceEnds
    BY <2>newCall, <2>newRefresh, <2>ServiceEnds DEF ServiceEnds, UsersInv
  <2>StopsService. CASE StopsService
    <3>newInst. inst'.pc = "copy"
      BY <2>StopsService DEF StopsService, HostTypeOK, InstType, Job, NotInstalling
    <3>inst. inst.pc = "stop"
      BY <2>StopsService DEF StopsService
    <3> QED
      BY <2>newCall, <2>newRefresh, <3>newInst, <3>inst DEF UsersInv
  <2> QED
    BY <1>ServiceEndsOrStopsService, <2>ServiceEnds, <2>StopsService
<1>isUnitTruncate. CASE UnitTruncate \/ UnitWrite \/ UnitReload \/ RefreshFails
  BY <1>isUnitTruncate DEF UnitTruncate, UnitWrite, UnitReload, RefreshFails, UsersInv, vars
<1>FileNext. CASE FileNext
  <2>refresh. UNCHANGED <<refresh, inst>>
    BY <1>FileNext DEF FileNext, Others
  <2>Exists. ASSUME NEW a \in Actor, Exists(a)
             PROVE  UsersInv'
    <3>Installer. a # Installer /\ process' = process
      BY <2>Exists DEF Exists, ProcessInv
    <3>newCall.
        call'[Installer].pc = call[Installer].pc /\ call'[Installer].text = call[Installer].text
      <4>Bootstraps. CASE Bootstraps(a)
        BY <1>BeginWrite, <2>Exists, <3>Installer, <4>Bootstraps DEF Exists
      <4>2. CASE ~Bootstraps(a)
        BY <1>Main, <2>Exists, <3>Installer, <4>2 DEF Exists, TypeOK
      <4> QED
        BY <4>Bootstraps, <4>2
    <3> QED
      BY <2>refresh, <3>Installer, <3>newCall DEF UsersInv
  <2>Truncate. ASSUME NEW a \in Actor, Truncate(a)
               PROVE  UsersInv'
    <3>1. /\ call'[Installer].text = call[Installer].text
          /\ call'[Installer].pc # "idle" <=> call[Installer].pc # "idle"
          /\ process' = process
      BY <1>Main, <2>Truncate DEF Truncate, TypeOK, CallType
    <3> QED
      BY <2>refresh, <3>1 DEF UsersInv
  <2>HandlerNext. ASSUME NEW h \in Handler, HandlerNext(h)
                  PROVE  UsersInv'
    <3>Put. CASE \E c \in Config : Put(h, c)
      BY <1>Main, <1>BeginWrite, <2>refresh, <3>Put DEF Put, UsersInv
    <3>Get. CASE Get(h)
      BY <1>Main, <2>refresh, <3>Get DEF Get, UsersInv, TypeOK
    <3>3. CASE GetReads(h) \/ HandlerWrites(h) \/ HandlerCutOff(h)
      BY <1>Main, <1>Finish, <2>refresh, <3>3
      DEF GetReads, HandlerWrites, HandlerCutOff, UsersInv
    <3> QED
      BY <2>HandlerNext, <3>Put, <3>Get, <3>3 DEF HandlerNext
  <2>AdminChanges. ASSUME NEW text, AdminChanges(text)
                   PROVE  UsersInv'
    BY <2>refresh, <2>AdminChanges DEF AdminChanges, UsersInv
  <2> QED
    BY <1>FileNext, <2>Exists, <2>Truncate, <2>HandlerNext, <2>AdminChanges DEF FileNext
<1>Install.
    ASSUME NEW from \in Version \cup {Own}, NEW conf \in Config \cup {Own}, Install(from, conf)
    PROVE  UsersInv'
  BY <1>Install DEF Install, Installing, UsersInv, vars
<1>ConfigBegins. CASE ConfigBegins
  <2>refresh.
      UNCHANGED <<refresh, process>> /\ inst.pc = "config" /\ call[Installer].pc = "idle"
    BY <1>ConfigBegins DEF ConfigBegins, CopyOntoItself, InstallConfig
  <2>GoesTo. \A pc : GoesTo(pc) => inst'.pc = pc /\ inst'.conf = inst.conf
    BY DEF GoesTo, HostTypeOK, InstType, Job, NotInstalling
  <2>isInst. CASE inst.conf = Own /\ CopyOntoItself /\ GoesTo("unit")
    BY <2>refresh, <2>GoesTo, <2>isInst DEF CopyOntoItself, UsersInv
  <2>isConf. CASE inst.conf # Own /\ InstallConfig(inst.conf) /\ GoesTo("configuring")
    <3>newCall. call'[Installer].pc = "truncate" /\ call'[Installer].text = inst.conf
      BY <1>Main, <2>isConf DEF InstallConfig, BeginWrite
    <3>inst. inst.conf \in Config
      BY <2>refresh, <2>isConf, InstTypes DEF Installing
    <3> QED
      BY <2>refresh, <2>GoesTo, <2>isConf, <3>newCall, <3>inst DEF UsersInv
  <2> QED
    BY <1>ConfigBegins, <2>isInst, <2>isConf DEF ConfigBegins
<1>ConfigEnds. CASE ConfigEnds
  <2>1. call'[Installer].pc = "idle"
    BY <1>Main, <1>ConfigEnds DEF ConfigEnds, InstallerWrites, Finish, Idle, TypeOK
  <2>2. inst'.pc = "unit"
    BY <1>ConfigEnds DEF ConfigEnds, GoesTo, HostTypeOK, InstType, Job, NotInstalling
  <2> QED
    BY <1>ConfigEnds, <2>1, <2>2 DEF ConfigEnds, InstallerWrites, UsersInv
<1>InstallEnds. CASE InstallEnds
  <2>1. call'[Installer].pc = "idle"
    BY <1>Main, <1>InstallEnds
    DEF InstallEnds, InstallerStops, InstallerCutOff, Finish, Idle, TypeOK, vars
  <2>2. inst'.pc = "idle" /\ UNCHANGED <<refresh, process>>
    BY <1>InstallEnds DEF InstallEnds, InstallerStops, InstallerCutOff, NotInstalling, vars
  <2> QED
    BY <2>1, <2>2 DEF UsersInv
<1>untouched.
    ASSUME UNCHANGED <<call, process, refresh>>, inst.pc # "configuring", inst'.pc # "configuring"
    PROVE  UsersInv'
  BY <1>untouched DEF UsersInv
<1>isAsksActive.
    CASE AsksActive \/ CopyBegins \/ CopyEnds \/ UnitBegins \/ UnitEnds \/ InstallReloads \/ EnablesNow
  <2>GoesTo. \A pc : GoesTo(pc) => inst'.pc = pc
    BY DEF GoesTo, HostTypeOK, InstType, Job, NotInstalling
  <2>AsksActive. CASE AsksActive
    <3>1. inst'.pc \in {"copy", "stop"}
      BY <2>AsksActive DEF AsksActive, HostTypeOK, InstType, Job, NotInstalling
    <3> QED
      BY <1>untouched, <2>AsksActive, <3>1 DEF AsksActive, vars
  <2>EnablesNow. CASE EnablesNow
    BY <1>untouched, <2>EnablesNow DEF EnablesNow, NotInstalling, vars
  <2>isCopyBegins. CASE CopyBegins \/ CopyEnds \/ UnitBegins \/ UnitEnds \/ InstallReloads
    BY <1>untouched, <2>GoesTo, <2>isCopyBegins
    DEF CopyBegins, CopyEnds, UnitBegins, UnitEnds, InstallReloads, vars, systemd
  <2> QED
    BY <1>isAsksActive, <2>AsksActive, <2>EnablesNow, <2>isCopyBegins
<1>equal. ASSUME UNCHANGED <<call, process, refresh, inst>>
          PROVE  UsersInv'
  BY <1>equal DEF UsersInv
<1>isAdminStarts. CASE \/ AdminStarts \/ SomeoneReloads \/ Reboot
                       \/ \E v \in Version \cup {None} : SelfUpdated(v)
                       \/ UNCHANGED hostVars
  BY <1>equal, <1>isAdminStarts
  DEF AdminStarts, SomeoneReloads, Reboot, SelfUpdated, vars, hostVars, systemd
<1> QED
  BY <1>Executes, <1>StartUp, <1>ServiceEndsOrStopsService, <1>isUnitTruncate,
     <1>FileNext, <1>Install, <1>ConfigBegins, <1>ConfigEnds, <1>InstallEnds,
     <1>isAsksActive, <1>isAdminStarts
  DEF HostNext, ServiceNext, InstallNext

\* All that is known of the file and of who uses it.
HostInv == TypeOK /\ FileInv /\ HostTypeOK /\ ProcessInv /\ UsersInv

\* It holds in every behaviour.
LEMMA HostInvariant == HostSpec => []HostInv
<1>1. HostInit => HostInv
  <2> SUFFICES ASSUME HostInit
               PROVE  HostInv
    OBVIOUS
  <2>Main. /\ Main \in Actor /\ Installer \in Actor /\ Handler \subseteq Actor
           /\ Idle \in CallType /\ Idle.pc = "idle"
    BY DEF Actor, Idle, CallType
  <2>Init. Init /\ \A a \in Actor : call[a] = Idle
    BY DEF HostInit, Init
  <2>TypeOK. TypeOK
    BY <2>Main, <2>Init, ConfigAssumption DEF Init, TypeOK, IsWriter
  <2>FileInv. FileInv
    BY <2>Main, <2>Init DEF Init, FileInv, Writers, IsWriter
  <2>HostTypeOK. HostTypeOK
    BY VersionAssumption DEF HostInit, HostTypeOK, InstType
  <2>ProcessInv. ProcessInv /\ UsersInv
    BY <2>Main, <2>Init DEF ProcessInv, UsersInv, HostInit, NotInstalling
  <2> QED
    BY <2>TypeOK, <2>FileInv, <2>HostTypeOK, <2>ProcessInv DEF HostInv
<1>2. HostInv /\ [HostNext]_hostVars => HostInv'
  <2> SUFFICES ASSUME HostInv, [HostNext]_hostVars
               PROVE  HostInv'
    OBVIOUS
  <2>1. [Next]_vars
    BY HostStep DEF HostInv
  <2> QED
    BY <2>1, TypeStep, FileStep, HostTypeStep, ProcessStep, UsersStep DEF HostInv
<1> QED
  BY <1>1, <1>2, PTL DEF HostSpec

-----------------------------------------------------------------------------
(* What systemd would start. *)

\* An empty unit file is being written, or its writer was ended.
UnitInv ==
  /\ StartableForCause
  /\ unit = "empty" => refresh = "write" \/ inst.pc = "unit write" \/ "unit" \in cut

\* Each step keeps it.
LEMMA UnitStep ==
  ASSUME HostInv, UnitInv, [HostNext]_hostVars
  PROVE  UnitInv'
<1> USE DEF UnitInv, StartableForCause, Rewriting
<1>1. \A pc : GoesTo(pc) => inst'.pc = pc
  BY DEF GoesTo, HostInv, HostTypeOK, InstType, Job, NotInstalling
<1>Reloads. ASSUME Reloads
            PROVE  /\ loaded' = "empty" => unit = "empty"
                   /\ unit = "empty" => cut' = cut
                   /\ "exe" \in cut => "exe" \in cut'
  BY <1>Reloads, VersionAssumption DEF Reloads
<1>SomeoneReloadsOrReboot. CASE SomeoneReloads \/ Reboot
  BY <1>Reloads, <1>SomeoneReloadsOrReboot DEF SomeoneReloads, Reboot, binary
<1>UnitReload. CASE UnitReload
  BY <1>Reloads, <1>UnitReload DEF UnitReload, binary
<1>InstallReloads. CASE InstallReloads
  BY <1>1, <1>Reloads, <1>InstallReloads DEF InstallReloads, binary
<1>6. /\ cut \subseteq RefreshCut
      /\ refresh \in {"write", "reload"} => "unit" \in RefreshCut
  BY DEF RefreshCut
<1>ServiceEndsOrRefreshFails. CASE ServiceEnds \/ RefreshFails
  BY <1>6, <1>ServiceEndsOrRefreshFails DEF ServiceEnds, Ended, RefreshFails, units, binary
<1>StartUp. CASE StartUp
  <2>1. process = "starting"
    BY <1>StartUp
    DEF HostInv, ProcessInv, StartUp, StartReads, StartWrites, StartCutOff, Writes,
        CutOff
  <2>2. refresh = "none"
    BY <2>1 DEF HostInv, UsersInv
  <2>3. cut \subseteq cut'
    BY <1>6, <1>StartUp DEF StartUp, Ended
  <2> QED
    BY <1>StartUp, <2>2, <2>3 DEF StartUp, units
<1>StopsService. CASE StopsService
  <2>1. inst.pc = "stop" /\ inst'.pc = "copy"
    BY <1>StopsService DEF StopsService, HostInv, HostTypeOK, InstType, Job, NotInstalling
  <2> QED
    BY <1>6, <1>StopsService, <2>1 DEF StopsService, Ended, units
<1>AsksActive. CASE AsksActive
  BY <1>AsksActive
  DEF AsksActive, HostInv, HostTypeOK, InstType, Job, NotInstalling, binary, units
<1>InstallEnds. CASE InstallEnds
  BY <1>InstallEnds DEF InstallEnds, InstallCut, NotInstalling, binary, units, systemd
<1>EnablesNow. CASE EnablesNow
  BY <1>EnablesNow DEF EnablesNow, NotInstalling, binary, units
<1>CopyEnds. CASE CopyEnds
  <2>1. exe' # Bad
    BY <1>CopyEnds, InstTypes, VersionAssumption DEF CopyEnds, HostInv, Job, Late
  <2>2. "unit" \in cut => "unit" \in cut'
    BY <1>CopyEnds DEF CopyEnds
  <2> QED
    BY <1>1, <1>CopyEnds, <2>1, <2>2 DEF CopyEnds, units
<1>14. CASE CopyBegins \/ ConfigBegins \/ ConfigEnds \/ UnitBegins \/ UnitEnds
  BY <1>1, <1>14
  DEF CopyBegins, ConfigBegins, ConfigEnds, UnitBegins, UnitEnds, binary, units
<1>Install. ASSUME NEW from, NEW conf, Install(from, conf)
            PROVE  UnitInv'
  BY <1>Install DEF Install, Installing, binary, units
<1>SelfUpdated. ASSUME NEW v \in Version \cup {None}, SelfUpdated(v)
                PROVE  UnitInv'
  BY <1>SelfUpdated, VersionAssumption, ConfigAssumption DEF SelfUpdated, units
<1>17. CASE AdminStarts \/ Executes \/ UnitTruncate \/ UnitWrite
  BY <1>17 DEF AdminStarts, Executes, UnitTruncate, UnitWrite, binary, units
<1>18. CASE FileNext \/ UNCHANGED hostVars
  BY <1>18 DEF FileNext, Others, hostVars, binary, units
<1> QED
  BY <1>SomeoneReloadsOrReboot, <1>UnitReload, <1>InstallReloads,
     <1>ServiceEndsOrRefreshFails, <1>StartUp, <1>StopsService, <1>AsksActive,
     <1>InstallEnds, <1>EnablesNow, <1>CopyEnds, <1>14, <1>Install, <1>SelfUpdated,
     <1>17, <1>18
  DEF HostNext, ServiceNext, InstallNext

\* What systemd starts is cut off or masked only while it is written, or after its writer
\* was ended.
THEOREM StartableUnlessCut == HostSpec => []StartableForCause
<1>HostInit. HostInit => UnitInv
  BY VersionAssumption, ConfigAssumption DEF HostInit, UnitInv, StartableForCause
<1>HostInv. HostInv /\ UnitInv /\ [HostNext]_hostVars => UnitInv'
  BY UnitStep
<1>UnitInv. UnitInv => StartableForCause
  BY DEF UnitInv
<1> QED
  BY <1>HostInit, <1>HostInv, <1>UnitInv, HostInvariant, PTL DEF HostSpec

-----------------------------------------------------------------------------
(* An installation. *)

\* An installation the service does not get in the way of: nothing runs from the copy on,
\* nobody else writes, and what was copied stays.
DeliveryInv ==
  inst.clean =>
    /\ process = "off" /\ ~pending
    /\ inst.pc \in {"copy"} \cup Late
    /\ inst.pc \in Late \ {"copying"} => exe = inst.from
    /\ inst.pc = "configuring" => call[Installer].alone
    /\ inst.pc \in {"unit", "unit write", "reload", "enable"} /\ inst.conf # Own
         => Reads(file) = inst.conf

\* Each step keeps it.
LEMMA DeliveryStep ==
  ASSUME HostInv, DeliveryInv, [HostNext]_hostVars
  PROVE  DeliveryInv'
<1>Main. /\ Main \in Actor /\ Installer \in Actor /\ Handler \subseteq Actor
         /\ Main # Installer /\ Main \notin Handler /\ Installer \notin Handler
  BY ActorAssumption DEF Actor
<1>inst. inst.clean => process = "off" /\ ~pending /\ Installing /\ ~Serving
                       /\ inst.pc \notin {"ask", "stop"}
  BY DEF DeliveryInv, Installing, Serving, Late
<1>process. process = "off" => \A a \in Actor : a = Installer \/ call[a].pc = "idle"
  BY DEF HostInv, ProcessInv, Actor
<1>GoesToNewInst. \A pc : GoesTo(pc) => /\ inst'.pc = pc /\ (inst'.clean <=> inst.clean)
                                      /\ inst'.from = inst.from /\ inst'.conf = inst.conf
  BY DEF GoesTo, HostInv, HostTypeOK, InstType, Job, NotInstalling
<1>notNotInstalling. ~NotInstalling.clean
  BY DEF NotInstalling
<1>DeliveryInv. ASSUME ~inst.clean, inst' = inst
                PROVE  DeliveryInv'
  BY <1>DeliveryInv DEF DeliveryInv
<1>ServiceNext. CASE ServiceNext
  <2>isInst. CASE inst.clean
    <3>notAdminStarts. ~AdminStarts /\ ~Executes /\ ~ServiceEnds /\ ~Reboot
      BY <1>inst, <2>isInst DEF AdminStarts, Executes, ServiceEnds, End, Reboot
    <3>notStartUp. ~StartUp
      BY <1>Main, <1>inst, <1>process, <2>isInst
      DEF StartUp, StartReads, StartWrites, StartCutOff, Writes, CutOff
    <3>notSelfUpdated. \A v : ~SelfUpdated(v)
      BY <1>inst, <2>isInst DEF SelfUpdated
    <3>file. UNCHANGED <<file, process, call, exe, pending, inst>>
      BY <1>ServiceNext, <3>notAdminStarts, <3>notStartUp, <3>notSelfUpdated
      DEF ServiceNext, SomeoneReloads, UnitTruncate, UnitWrite, UnitReload, RefreshFails,
          vars, binary, systemd
    <3> QED
      BY <3>file DEF DeliveryInv
  <2>isNotInst. CASE ~inst.clean
    BY <1>DeliveryInv, <1>ServiceNext, <2>isNotInst
    DEF ServiceNext, AdminStarts, Executes, ServiceEnds, SomeoneReloads, Reboot, StartUp,
        UnitTruncate, UnitWrite, UnitReload, RefreshFails, SelfUpdated
  <2> QED
    BY <2>isInst, <2>isNotInst
<1>FileNext. CASE FileNext
  <2>newInst. inst' = inst
    BY <1>FileNext DEF FileNext, Others
  <2>isInst. CASE inst.clean
    <3>Exists. PICK a \in Actor : Exists(a) \/ Truncate(a)
      BY <1>inst, <1>FileNext, <2>isInst DEF FileNext
    <3>Installer. a = Installer /\ Truncate(a)
      BY <1>inst, <1>process, <2>isInst, <3>Exists DEF Exists, Truncate, HostInv, ProcessInv
    <3>inst. inst.pc = "configuring"
      BY <1>Main, <3>Installer DEF Truncate, HostInv, UsersInv
    <3>newCall. call'[Installer].alone = call[Installer].alone
      BY <1>Main, <3>Installer DEF Truncate, HostInv, TypeOK, CallType
    <3>process. UNCHANGED <<process, pending, exe>>
      BY <1>FileNext, <3>Installer DEF Truncate, FileNext, Others, binary, systemd
    <3> QED
      BY <2>newInst, <3>inst, <3>newCall, <3>process DEF DeliveryInv
  <2> QED
    BY <1>DeliveryInv, <2>newInst, <2>isInst
<1>Install.
    ASSUME NEW from \in Version \cup {Own}, NEW conf \in Config \cup {Own}, Install(from, conf)
    PROVE  DeliveryInv'
  <2> DEFINE r == [pc |-> IF exe = None THEN "copy" ELSE "ask", from |-> from,
                   conf |-> conf, clean |-> exe = None /\ Quiet]
  <2>1. r.clean => r.pc = "copy" /\ Quiet
    OBVIOUS
  <2>2. inst' = r /\ UNCHANGED <<process, pending>>
    BY <1>Install DEF Install, vars, systemd
  <2> HIDE DEF r
  <2> QED
    BY <2>1, <2>2 DEF DeliveryInv, Quiet, Late
<1>AsksActive. CASE AsksActive
  <2>1. inst'.clean => inst'.pc = "copy" /\ Quiet
    BY <1>inst, <1>AsksActive
    DEF AsksActive, HostInv, HostTypeOK, InstType, Job, NotInstalling
  <2> QED
    BY <1>AsksActive, <2>1 DEF AsksActive, DeliveryInv, Quiet, Late, vars, systemd
<1>StopsService. CASE StopsService
  <2>1. inst'.pc = "copy"
    BY <1>StopsService DEF StopsService, HostInv, HostTypeOK, InstType, Job, NotInstalling
  <2>2. process' = "off" /\ ~pending'
    BY <1>StopsService DEF StopsService, End, Ended, vars
  <2> QED
    BY <2>1, <2>2 DEF DeliveryInv, Late, Reads
<1>GoesTo. ASSUME NEW pc \in Late, GoesTo(pc), UNCHANGED <<process, pending>>,
                  inst.clean /\ pc # "copying" => exe' = inst.from,
                  inst.clean /\ pc = "configuring" => call'[Installer].alone,
                  pc \in {"unit", "unit write", "reload", "enable"}
                    => (inst.clean /\ inst.conf # Own => Reads(file') = inst.conf)
           PROVE  DeliveryInv'
  <2>newInst. inst'.pc = pc /\ (inst'.clean <=> inst.clean) /\ inst'.from = inst.from
    BY <1>GoesToNewInst, <1>GoesTo
  <2>sameConf. inst'.conf = inst.conf
    BY <1>GoesToNewInst, <1>GoesTo
  <2>newInstClean. inst'.clean => process' = "off" /\ ~pending'
    BY <1>inst, <1>GoesTo, <2>newInst
  <2>newInstPc. inst'.clean /\ inst'.pc \in Late \ {"copying"} => exe' = inst'.from
    BY <1>GoesTo, <2>newInst
  <2>newInstNewCall. inst'.clean /\ inst'.pc = "configuring" => call'[Installer].alone
    BY <1>GoesTo, <2>newInst
  <2>newInstReads. inst'.pc \in {"unit", "unit write", "reload", "enable"}
                     => (inst'.clean /\ inst'.conf # Own => Reads(file') = inst'.conf)
    BY <1>GoesTo, <2>newInst, <2>sameConf
  <2> QED
    BY <1>GoesTo, <2>newInst, <2>newInstClean, <2>newInstPc, <2>newInstNewCall,
       <2>newInstReads
    DEF DeliveryInv
<1>CopyBeginsOrCopyEnds. CASE CopyBegins \/ CopyEnds
  <2>1. UNCHANGED <<process, pending>>
    BY <1>CopyBeginsOrCopyEnds DEF CopyBegins, CopyEnds, vars, systemd
  <2>2. (CopyBegins /\ GoesTo("copying")) \/ (exe' = inst.from /\ GoesTo("config"))
    BY <1>CopyBeginsOrCopyEnds DEF CopyBegins, CopyEnds
  <2> QED
    BY <1>GoesTo, <2>1, <2>2 DEF Late
<1>ConfigBegins. CASE ConfigBegins
  <2>inst. /\ inst.pc = "config" /\ call[Installer].pc = "idle"
           /\ UNCHANGED <<process, exe, pending>>
    BY <1>ConfigBegins DEF ConfigBegins, CopyOntoItself, InstallConfig, binary, systemd
  <2>instClean. inst.clean => exe' = inst.from
    BY <2>inst DEF DeliveryInv, Late
  <2>isInst. CASE inst.conf = Own /\ CopyOntoItself /\ GoesTo("unit")
    BY <1>GoesTo, <2>inst, <2>instClean, <2>isInst DEF Late
  <2>isConf. CASE inst.conf # Own /\ InstallConfig(inst.conf) /\ GoesTo("configuring")
    <3>inst. inst.clean => Writers = {}
      BY <1>inst, <1>process, <2>inst DEF Writers, IsWriter
    <3>instClean. inst.clean => call'[Installer].alone
      BY <1>Main, <2>isConf, <3>inst DEF InstallConfig, BeginWrite
    <3> QED
      BY <1>GoesTo, <2>inst, <2>instClean, <2>isConf, <3>instClean DEF Late
  <2> QED
    BY <1>ConfigBegins, <2>isInst, <2>isConf DEF ConfigBegins
<1>ConfigEnds. CASE ConfigEnds
  <2>inst. /\ inst.pc = "configuring" /\ Writes(Installer) /\ call[Installer].pc = "write"
           /\ UNCHANGED <<process, exe, pending>> /\ GoesTo("unit")
    BY <1>ConfigEnds DEF ConfigEnds, InstallerWrites, Writes, binary, systemd
  <2>call. call[Installer].text = inst.conf /\ inst.conf \in Config
    BY <2>inst DEF HostInv, UsersInv
  <2>instClean. inst.clean => file = Empty
    BY <1>Main, <2>inst DEF HostInv, FileInv, DeliveryInv
  <2>instNewFile. inst.clean => file' = inst.conf
    BY <2>inst, <2>call, <2>instClean, ConfigAssumption DEF Writes, Over
  <2>instReads. inst.clean => Reads(file') = inst.conf
    BY <2>call, <2>instNewFile, ConfigAssumption DEF Reads
  <2>instNewExe. inst.clean => exe' = inst.from
    BY <2>inst DEF DeliveryInv, Late
  <2> QED
    BY <1>GoesTo, <2>inst, <2>instReads, <2>instNewExe DEF Late
<1>isUnitBegins. CASE UnitBegins \/ UnitEnds \/ InstallReloads
  <2>inst.
      inst.pc \in {"unit", "unit write", "reload"} /\ UNCHANGED <<process, pending, exe, file>>
    BY <1>isUnitBegins DEF UnitBegins, UnitEnds, InstallReloads, vars, binary, systemd
  <2>instClean. inst.clean => exe' = inst.from /\ (inst.conf # Own => Reads(file') = inst.conf)
    BY <2>inst DEF DeliveryInv, Late
  <2>GoesTo. GoesTo("unit write") \/ GoesTo("reload") \/ GoesTo("enable")
    BY <1>isUnitBegins DEF UnitBegins, UnitEnds, InstallReloads
  <2> QED
    BY <1>GoesTo, <2>inst, <2>instClean, <2>GoesTo DEF Late
<1>EnablesNowOrInstallEnds. CASE EnablesNow \/ InstallEnds
  BY <1>notNotInstalling, <1>EnablesNowOrInstallEnds
  DEF EnablesNow, InstallEnds, DeliveryInv
<1>Unchanged. CASE UNCHANGED hostVars
  BY <1>Unchanged DEF hostVars, vars, binary, systemd, DeliveryInv
<1> QED
  BY <1>ServiceNext, <1>FileNext, <1>Install, <1>AsksActive, <1>StopsService,
     <1>CopyBeginsOrCopyEnds, <1>ConfigBegins, <1>ConfigEnds, <1>isUnitBegins,
     <1>EnablesNowOrInstallEnds, <1>Unchanged
  DEF HostNext, InstallNext

\* An installation that ends well, and that found the service stopped or stopped it, has
\* installed what it was asked to, and systemd is about to start it.
THEOREM InstallationDelivers == HostSpec => InstallDelivers
<1> DEFINE Delivers == EnablesNow /\ inst.clean =>
                         /\ exe = inst.from
                         /\ inst.conf # Own => Reads(file) = inst.conf
                         /\ pending' /\ enabled'
<1>HostInit. HostInit => DeliveryInv
  BY DEF HostInit, NotInstalling, DeliveryInv
<1>HostInv. HostInv /\ DeliveryInv /\ [HostNext]_hostVars => DeliveryInv'
  BY DeliveryStep
<1>DeliveryInv. DeliveryInv => Delivers
  BY DEF DeliveryInv, EnablesNow, Late
<1>DeliveryInvDelivers. DeliveryInv => [Delivers]_hostVars
  BY <1>DeliveryInv
<1> HIDE DEF Delivers
<1>HostSpec. HostSpec => [][Delivers]_hostVars
  BY <1>HostInit, <1>HostInv, <1>DeliveryInvDelivers, HostInvariant, PTL DEF HostSpec
<1> QED
  BY <1>HostSpec DEF InstallDelivers, Delivers

=============================================================================
