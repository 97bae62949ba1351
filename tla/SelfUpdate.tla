----------------------------- MODULE SelfUpdate -----------------------------
(***************************************************************************)
(* POST /system/update (self_update, src/src/routes/api/system.rs): the    *)
(* download to one fixed path, the two renames and the change of mode that *)
(* put it where the service is started from, with processes that end       *)
(* anywhere and are started again from what is on the disk.                *)
(*                                                                         *)
(* Each system call is an action: the handlers run on several threads.  A  *)
(* process knows its executable by where its inode now is (std::env::      *)
(* current_exe reads /proc/self/exe), which a rename changes under it.     *)
(* A handler that is dropped at its await of curl or wget leaves the child *)
(* at work (kill_on_drop is not set), until it ends or the service does.   *)
(***************************************************************************)
EXTENDS Integers

CONSTANTS
  Updater,     \* update requests that may be handled at once
  Version,     \* what may be downloaded
  First,       \* the version first installed
  MaxOld,      \* bound: ".old" suffixes of a path
  Tmp,         \* /tmp/feathertail.update
  Astray,      \* no path a service is started from, or no path at all
  None,
  Serial       \* the panel has one update of a process under way at a time, and none
               \* after one that got as far as its renames

ASSUME FirstAssumption == First \in Version

ASSUME PathsAssumption ==
  /\ MaxOld \in Nat
  /\ Tmp # Astray /\ {Tmp, Astray} \cap (0 .. MaxOld) = {}

VARIABLES
  disk,        \* the file at each path; path k is the executable's with k ".old"s
  running,     \* where the inode is that the process runs; None: no process
  update,      \* the update requests, and the downloads of those that were given up
  replaced,    \* history: this process has seen its executable renamed
  answered,    \* history: the version this process has answered to be installed
  good,        \* history: the version that was last started
  shared       \* history: an update of this process began beside the download of one
               \* that was given up

vars == <<disk, running, update, replaced, answered, good, shared>>

Path == (0 .. MaxOld) \cup {Tmp, Astray}

Exe == 0

File == [version : Version, whole : BOOLEAN, exec : BOOLEAN]

ASSUME NoneAssumption == None \notin File \cup Path \cup Version

Starts(file, v) == file = [version |-> v, whole |-> TRUE, exec |-> TRUE]

-----------------------------------------------------------------------------
(* The file system. *)

\* Where an inode is after the rename of a to b.
Moved(p, a, b) == IF p = b THEN Astray ELSE IF p = a THEN b ELSE p

Rename(a, b) ==
  /\ disk[a] # None
  /\ disk' = [disk EXCEPT ![b] = disk[a], ![a] = None]
  /\ running' = Moved(running, a, b)

\* The update u goes on to pc; downloads that write to a moved inode follow it.
GoesOn(u, pc, a, b) ==
  update' = [w \in Updater |->
               [update[w] EXCEPT !.at = Moved(@, a, b),
                                 !.pc = IF w = u THEN pc ELSE @]]

\* at: the path of the inode a download writes to; alone: no other download has written
\* to it meanwhile.
Idle == [pc |-> "idle", version |-> None, at |-> None, exe |-> None, alone |-> TRUE]

\* An answer of 500.
Fail(u) ==
  /\ update' = [update EXCEPT ![u] = Idle]
  /\ UNCHANGED <<disk, running, replaced, answered, good, shared>>

-----------------------------------------------------------------------------
(* download_to_file: curl, and wget if curl fails, both to Tmp. *)

Orphaned(u) == update[u].pc = "orphan"

MayUpdate ==
  Serial => ~replaced /\ \A w \in Updater : update[w].pc = "idle" \/ Orphaned(w)

UpdateStart(u) ==
  /\ running # None
  /\ update[u].pc = "idle"
  /\ MayUpdate
  /\ update' = [update EXCEPT ![u].pc = "download"]
  /\ shared' = (shared \/ \E w \in Updater : Orphaned(w))
  /\ UNCHANGED <<disk, running, replaced, answered, good>>

\* A file that is there is truncated and keeps its inode, which other downloads may be
\* writing to.
DownloadBegins(u, v) ==
  /\ update[u].pc = "download" \/ (Orphaned(u) /\ update[u].at = None)
  /\ disk' = [disk EXCEPT ![Tmp] = [version |-> v, whole |-> FALSE, exec |-> FALSE]]
  /\ LET writers == {w \in Updater : update[w].at = Tmp}
         begun == [pc |-> IF Orphaned(u) THEN "orphan" ELSE "writing", version |-> v,
                   at |-> Tmp, exe |-> None, alone |-> writers = {}]
     IN  update' = [w \in Updater |->
                      IF w = u THEN begun
                      ELSE [update[w] EXCEPT !.alone = @ /\ w \notin writers]]
  /\ UNCHANGED <<running, replaced, answered, good, shared>>

\* What a download leaves: what it fetched; or, of several into one file, the file of
\* any of them or a mixture.
Written(u) ==
  LET file(whole) == [version |-> update[u].version, whole |-> whole,
                      exec |-> disk[update[u].at].exec]
  IN  IF update[u].alone THEN {file(TRUE)}
      ELSE {file(TRUE), file(FALSE), disk[update[u].at]}

DownloadEnds(u) ==
  /\ update[u].pc = "writing" \/ (Orphaned(u) /\ update[u].at # None)
  /\ IF update[u].at = Astray THEN UNCHANGED disk
     ELSE \E file \in Written(u) : disk' = [disk EXCEPT ![update[u].at] = file]
  /\ update' = [update EXCEPT ![u] =
                  IF Orphaned(u) THEN Idle
                  ELSE [@ EXCEPT !.pc = "locate", !.at = None, !.alone = TRUE]]
  /\ UNCHANGED <<running, replaced, answered, good, shared>>

\* The client closes the connection; curl or wget goes on.
GivesUp(u) ==
  /\ update[u].pc \in {"download", "writing"}
  /\ update' = [update EXCEPT ![u].pc = "orphan"]
  /\ UNCHANGED <<disk, running, replaced, answered, good, shared>>

\* The child that was left fails; no wget comes after its curl.
OrphanFails(u) == Orphaned(u) /\ Fail(u)

\* Mutant: an error no caller expects.
UnexpectedError == {"error"}

\* Curl fails and wget begins, or both have failed.
AfterDownloadError == {"download", "idle"}

DownloadFails(u) ==
  /\ update[u].pc \in {"download", "writing"}
  /\ \E pc \in AfterDownloadError :
       update' = [update EXCEPT ![u] = [Idle EXCEPT !.pc = pc]]
  /\ UNCHANGED <<disk, running, replaced, answered, good, shared>>

-----------------------------------------------------------------------------
(* The executable is replaced. *)

\* current_exe; at the bound there is no room for one more ".old".
Locate(u) ==
  /\ update[u].pc = "locate"
  /\ running # MaxOld
  /\ update' = [update EXCEPT ![u].pc = "check", ![u].exe = running]
  /\ UNCHANGED <<disk, running, replaced, answered, good, shared>>

\* A file astray is replaced, not renamed: what is left of it is nothing's start.
Check(u) ==
  /\ update[u].pc = "check"
  /\ update' = [update EXCEPT ![u].pc =
                  IF update[u].exe # Astray /\ disk[update[u].exe] # None
                  THEN "backup" ELSE "install"]
  /\ UNCHANGED <<disk, running, replaced, answered, good, shared>>

\* Mutant: the executable is not renamed away.
BackupSkipped(u) ==
  /\ update[u].pc = "backup"
  /\ update' = [update EXCEPT ![u].pc = "install"]
  /\ replaced' = TRUE
  /\ UNCHANGED <<disk, running, answered, good, shared>>

Backup(u) ==
  /\ update[u].pc = "backup"
  /\ LET exe == update[u].exe
     IN  Rename(exe, exe + 1) /\ GoesOn(u, "install", exe, exe + 1)
  /\ replaced' = TRUE
  /\ UNCHANGED <<answered, good, shared>>

Install(u) ==
  /\ update[u].pc = "install"
  /\ Rename(Tmp, update[u].exe)
  /\ GoesOn(u, "mode", Tmp, update[u].exe)
  /\ replaced' = TRUE
  /\ UNCHANGED <<answered, good, shared>>

\* Mutant: the file is left with the mode of a download.
SetModeForgotten(u) ==
  /\ update[u].pc = "mode"
  /\ answered' = update[u].version
  /\ update' = [update EXCEPT ![u] = Idle]
  /\ UNCHANGED <<disk, running, replaced, good, shared>>

\* set_permissions, and an answer of 200.
SetMode(u) ==
  /\ update[u].pc = "mode"
  /\ disk[update[u].exe] # None
  /\ disk' = [disk EXCEPT ![update[u].exe].exec = TRUE]
  /\ answered' = update[u].version
  /\ update' = [update EXCEPT ![u] = Idle]
  /\ UNCHANGED <<running, replaced, good, shared>>

\* A rename or the change of mode fails: no such file, no space, /tmp on another
\* file system.  Nothing is undone.
ReplaceFails(u) ==
  /\ update[u].pc \in {"backup", "install", "mode"}
  /\ Fail(u)

-----------------------------------------------------------------------------
(* The process ends (a scheduled restart, a stop, a crash), and systemd     *)
(* ends what is left of its children; or it is started.                     *)

End ==
  /\ running # None
  /\ running' = None
  /\ update' = [u \in Updater |-> Idle]
  /\ UNCHANGED <<disk, replaced, answered, good, shared>>

Start ==
  /\ running = None
  /\ \E v \in Version :
       /\ Starts(disk[Exe], v)
       /\ good' = v
  /\ running' = Exe
  /\ replaced' = FALSE
  /\ answered' = None
  /\ shared' = FALSE
  /\ UNCHANGED <<disk, update>>

Init ==
  /\ disk = [p \in Path |-> IF p = Exe THEN [version |-> First, whole |-> TRUE, exec |-> TRUE]
                            ELSE None]
  /\ running = Exe
  /\ update = [u \in Updater |-> Idle]
  /\ replaced = FALSE
  /\ answered = None
  /\ good = First
  /\ shared = FALSE

Next ==
  \/ \E u \in Updater, v \in Version : DownloadBegins(u, v)
  \/ \E u \in Updater :
       \/ UpdateStart(u) \/ DownloadEnds(u) \/ DownloadFails(u)
       \/ GivesUp(u) \/ OrphanFails(u)
       \/ Locate(u) \/ Check(u) \/ Backup(u) \/ Install(u) \/ SetMode(u) \/ ReplaceFails(u)
  \/ End \/ Start

Spec == Init /\ [][Next]_vars

-----------------------------------------------------------------------------
(* Correctness. *)

Place == Path \cup {None}

Step == {"idle", "download", "writing", "orphan", "locate", "check", "backup", "install",
         "mode"}

UpdateRecord == [pc : Step, version : Version \cup {None},
                 at : Place, exe : (0 .. MaxOld) \cup {Astray, None},
                 alone : BOOLEAN]

\* Paths hold files, a process runs from a path or from a replaced file.
TypeOK ==
  /\ disk \in [Path -> File \cup {None}]
  /\ running \in (0 .. MaxOld) \cup {Astray, None}
  /\ update \in [Updater -> UpdateRecord]
  /\ replaced \in BOOLEAN
  /\ answered \in Version \cup {None}
  /\ good \in Version
  /\ shared \in BOOLEAN

\* At every moment, so after every crash and every failed step, the version that was
\* last started is still on the disk, whole and executable, as the executable or as its
\* backup: an update can always be undone by hand.
BackupKept == \E k \in 0 .. MaxOld : Starts(disk[k], good)

\* From the answer that a version is installed until the next start, that version is
\* what the service would be started from, wherever the process ends, unless the update
\* was begun while the download of one that was given up still wrote to the same path.
NextStartRunsUpdate == answered # None /\ ~shared => Starts(disk[Exe], answered)

\* "Update installed": when an update is answered with 200, the executable the service
\* is started from is the one that was downloaded.
UpdateInstalled ==
  [][\A u \in Updater : SetMode(u) => Starts(disk'[Exe], update[u].version)]_vars
=============================================================================
