-------------------------- MODULE SelfUpdate_proofs --------------------------
(***************************************************************************)
(* Proofs about SelfUpdate, for any number of update requests, versions    *)
(* and ".old" suffixes.                                                    *)
(***************************************************************************)
EXTENDS SelfUpdate, TLAPS

USE FirstAssumption, PathsAssumption, NoneAssumption

-----------------------------------------------------------------------------
(* Types. *)

\* What a step of an update relies on: its process, the file it writes, and the
\* executable it found, of which Backup needs to know that it can be renamed.
Placed(u) ==
  /\ update[u].pc # "idle" => running # None
  /\ update[u].pc = "writing" => update[u].at # None
  /\ update[u].at # None =>
       /\ update[u].pc \in {"writing", "orphan"} /\ update[u].version \in Version
       /\ update[u].at # Astray => disk[update[u].at] # None
  /\ update[u].pc = "check" => update[u].exe \in (0 .. MaxOld - 1) \cup {Astray}
  /\ update[u].pc = "backup" => update[u].exe \in 0 .. MaxOld - 1
  /\ update[u].pc \in {"install", "mode"} => update[u].exe \in (0 .. MaxOld) \cup {Astray}

TypeInv == TypeOK /\ \A u \in Updater : Placed(u)

\* An update that is reset has a well-typed record.
LEMMA ResetTypes ==
  ASSUME NEW pc \in Step
  PROVE  /\ Idle \in UpdateRecord /\ Idle.pc = "idle" /\ Idle.at = None
         /\ [Idle EXCEPT !.pc = pc] \in UpdateRecord
         /\ [Idle EXCEPT !.pc = pc].pc = pc /\ [Idle EXCEPT !.pc = pc].at = None
<1>1. Idle \in UpdateRecord
  BY DEF Idle, UpdateRecord, Step, Place
<1>2. [Idle EXCEPT !.pc = pc] \in UpdateRecord
  BY <1>1 DEF UpdateRecord
<1>3. Idle.pc = "idle" /\ Idle.at = None
  BY DEF Idle
<1>4. [Idle EXCEPT !.pc = pc].pc = pc /\ [Idle EXCEPT !.pc = pc].at = Idle.at
  BY <1>1 DEF UpdateRecord
<1> QED
  BY <1>1, <1>2, <1>3, <1>4

\* What a download writes is a file of its version.
LEMMA FileTypes ==
  ASSUME NEW old \in File, NEW v \in Version, NEW whole \in BOOLEAN
  PROVE  LET file == [version |-> v, whole |-> whole, exec |-> old.exec]
         IN  file \in File /\ file.version = v /\ file.whole = whole
<1>1. old.exec \in BOOLEAN
  BY DEF File
<1> QED
  BY <1>1 DEF File

\* What is first installed is in its place, and nothing else is there.
LEMMA InitTypes == Init => TypeInv
<1> SUFFICES ASSUME Init PROVE TypeInv
  OBVIOUS
<1>Idle. Idle \in UpdateRecord /\ Idle.pc = "idle"
  BY DEF Idle, UpdateRecord, Step, Place
<1>disk. disk \in [Path -> File \cup {None}]
  BY DEF Init, File
<1>TypeOK. TypeOK
  <2>update. update \in [Updater -> UpdateRecord]
    BY <1>Idle DEF Init
  <2>running. running \in 0 .. MaxOld
    BY DEF Init, Exe
  <2> QED
    BY <1>disk, <2>update, <2>running DEF Init, TypeOK
<1>Placed. ASSUME NEW u \in Updater PROVE Placed(u)
  <2>1. update[u] = Idle
    BY DEF Init
  <2> QED
    BY <2>1 DEF Placed, Idle
<1> QED
  BY <1>TypeOK, <1>Placed DEF TypeInv

\* The step of u and the inodes of all downloads change, and nothing else.
LEMMA GoesOnFields ==
  ASSUME update \in [Updater -> UpdateRecord], NEW u \in Updater, NEW pc, NEW a, NEW b,
         GoesOn(u, pc, a, b), NEW w \in Updater
  PROVE  /\ update'[w].pc = IF w = u THEN pc ELSE update[w].pc
         /\ update'[w].exe = update[w].exe /\ update'[w].version = update[w].version
         /\ update'[w].at = Moved(update[w].at, a, b)
         /\ update'[w].alone = update[w].alone
BY DEF GoesOn, UpdateRecord

\* A rename keeps the process and the downloads where their inodes are.
LEMMA RenameTypes ==
  ASSUME TypeInv, NEW u \in Updater, NEW pc \in Step,
         NEW a \in Path, NEW b \in (0 .. MaxOld) \cup {Astray}, a # b,
         Rename(a, b), GoesOn(u, pc, a, b),
         a = Tmp \/ a \in 0 .. MaxOld - 1,
         pc \in {"install", "mode"}, update[u].exe \in (0 .. MaxOld) \cup {Astray},
         running # None, update[u].pc \in {"backup", "install"}, shared' = shared,
         replaced' \in BOOLEAN, answered' \in Version \cup {None}, good' \in Version
  PROVE  TypeInv'
<1> USE DEF TypeInv
<1>newDisk. disk' \in [Path -> File \cup {None}]
  BY DEF Rename, TypeOK, Path
<1>newRunning. running' \in (0 .. MaxOld) \cup {Astray} /\ running' # None
  BY DEF Rename, Moved, TypeOK, Path
<1>newUpdate. update' \in [Updater -> UpdateRecord]
  <2>1. \A p \in Place : Moved(p, a, b) \in Place
    BY DEF Moved, Place, Path
  <2> QED
    BY <2>1 DEF GoesOn, UpdateRecord, TypeOK
<1>TypeOK. TypeOK'
  BY <1>newDisk, <1>newRunning, <1>newUpdate DEF TypeOK, UpdateRecord
<1>Placed. ASSUME NEW w \in Updater PROVE Placed(w)'
  <2>newUpdate. /\ update'[w].pc = IF w = u THEN pc ELSE update[w].pc
                /\ update'[w].exe = update[w].exe /\ update'[w].version = update[w].version
                /\ update'[w].at = Moved(update[w].at, a, b)
    BY GoesOnFields DEF TypeOK
  <2>writes. ASSUME update'[w].at # None
             PROVE  /\ update'[w].pc \in {"writing", "orphan"} /\ update'[w].version \in Version
                    /\ update'[w].at # Astray => disk'[update'[w].at] # None
    <3>at. update[w].at # None /\ update[u].at = None
      BY <2>newUpdate, <2>writes DEF Placed, Moved, Path
    <3>update. /\ update[w].at \in Path /\ w # u
               /\ update[w].pc \in {"writing", "orphan"} /\ update[w].version \in Version
               /\ update[w].at # Astray => disk[update[w].at] # None
      BY <3>at DEF Placed, TypeOK, UpdateRecord, Place
    <3>newDisk.
        \A p \in Path : disk'[p] = IF p = a THEN None ELSE IF p = b THEN disk[a] ELSE disk[p]
      BY DEF Rename, TypeOK, Path
    <3> QED
      BY <2>newUpdate, <3>update, <3>newDisk DEF Moved, Rename, Path
  <2>writing. update'[w].pc = "writing" => update'[w].at # None
    <3>1. update'[w].pc = "writing" => update[w].at \in Path
      BY <2>newUpdate DEF Placed, TypeOK, UpdateRecord, Place
    <3> QED
      BY <2>newUpdate, <3>1 DEF Moved, Path
  <2>same. CASE w = u
    BY <1>newRunning, <2>newUpdate, <2>writes, <2>writing, <2>same DEF Placed
  <2>other. CASE w # u
    <3>newUpdate. update'[w].pc = update[w].pc /\ update'[w].exe = update[w].exe
      BY <2>newUpdate, <2>other
    <3>Placed. Placed(w)
      OBVIOUS
    <3>update.
        /\ update[w].pc = "check" => update[w].exe \in (0 .. MaxOld - 1) \cup {Astray}
        /\ update[w].pc = "backup" => update[w].exe \in 0 .. MaxOld - 1
        /\ update[w].pc \in {"install", "mode"} => update[w].exe \in (0 .. MaxOld) \cup {Astray}
      BY <3>Placed DEF Placed
    <3> QED
      BY <1>newRunning, <2>writes, <2>writing, <3>newUpdate, <3>update DEF Placed
  <2> QED
    BY <2>same, <2>other
<1> QED
  BY <1>TypeOK, <1>Placed

\* Every step keeps the types and what the updates rely on.
LEMMA StepTypes ==
  ASSUME TypeInv, [Next]_vars
  PROVE  TypeInv'
<1> USE DEF TypeInv, TypeOK
<1>UpdateStart. ASSUME NEW u \in Updater, UpdateStart(u) PROVE TypeInv'
  <2>1. update' \in [Updater -> UpdateRecord]
    BY <1>UpdateStart DEF UpdateStart, UpdateRecord, Step
  <2>2. ASSUME NEW w \in Updater PROVE Placed(w)'
    BY <1>UpdateStart DEF UpdateStart, Placed, UpdateRecord
  <2> QED
    BY <1>UpdateStart, <2>1, <2>2 DEF UpdateStart
<1>DownloadBegins.
    ASSUME NEW u \in Updater, NEW v \in Version, DownloadBegins(u, v) PROVE TypeInv'
  <2>newDisk. disk' \in [Path -> File \cup {None}]
    BY <1>DownloadBegins DEF DownloadBegins, File
  <2>newDiskTmp. disk'[Tmp] \in File /\ \A p \in Path \ {Tmp} : disk'[p] = disk[p]
    BY <1>DownloadBegins DEF DownloadBegins, Path, File
  <2>newUpdate. update' \in [Updater -> UpdateRecord]
    <3> DEFINE writers == {w \in Updater : update[w].at = Tmp}
               begun == [pc |-> IF Orphaned(u) THEN "orphan" ELSE "writing", version |-> v,
                         at |-> Tmp, exe |-> None, alone |-> writers = {}]
    <3>1. begun \in UpdateRecord
      BY DEF UpdateRecord, Step, Place, Path
    <3>2. \A w \in Updater : [update[w] EXCEPT !.alone = @ /\ w \notin writers] \in UpdateRecord
      BY DEF UpdateRecord
    <3>3. update' = [w \in Updater |->
                       IF w = u THEN begun
                       ELSE [update[w] EXCEPT !.alone = @ /\ w \notin writers]]
      BY <1>DownloadBegins DEF DownloadBegins
    <3> HIDE DEF begun, writers
    <3> QED
      BY <3>1, <3>2, <3>3
  <2>Placed. ASSUME NEW w \in Updater PROVE Placed(w)'
    <3>same. CASE w = u
      <4>newUpdate. /\ update'[u].pc \in {"writing", "orphan"} /\ update'[u].version = v
                    /\ update'[u].at = Tmp
        BY <1>DownloadBegins DEF DownloadBegins
      <4>newRunning. running' # None
        BY <1>DownloadBegins DEF DownloadBegins, Placed, Orphaned
      <4> QED
        BY <2>newDiskTmp, <3>same, <4>newUpdate, <4>newRunning DEF Placed, Path
    <3>other. CASE w # u
      <4>1. /\ update'[w].pc = update[w].pc /\ update'[w].at = update[w].at
            /\ update'[w].version = update[w].version /\ update'[w].exe = update[w].exe
            /\ running' = running
        BY <1>DownloadBegins, <3>other DEF DownloadBegins, UpdateRecord
      <4>2. \A p \in Path : disk[p] # None => disk'[p] # None
        BY <2>newDiskTmp
      <4> QED
        BY <4>1, <4>2 DEF Placed, UpdateRecord, Place
    <3> QED
      BY <3>same, <3>other
  <2> QED
    BY <1>DownloadBegins, <2>newDisk, <2>newUpdate, <2>Placed DEF DownloadBegins
<1>DownloadEnds. ASSUME NEW u \in Updater, DownloadEnds(u) PROVE TypeInv'
  <2>update. /\ update[u].at \in Path /\ update[u].version \in Version
             /\ update[u].at # Astray => disk[update[u].at] \in File
    BY <1>DownloadEnds DEF DownloadEnds, Placed, UpdateRecord, Place
  <2>updateAt. ASSUME update[u].at # Astray, NEW file \in Written(u)
               PROVE  file \in File
    <3> DEFINE fetched(whole) == [version |-> update[u].version, whole |-> whole,
                                  exec |-> disk[update[u].at].exec]
    <3>1. \A whole \in BOOLEAN : fetched(whole) \in File
      BY <2>update, <2>updateAt, FileTypes
    <3>2. fetched(TRUE) \in File /\ fetched(FALSE) \in File
      BY <3>1
    <3>3. file \in {fetched(TRUE), fetched(FALSE), disk[update[u].at]}
      BY <2>updateAt DEF Written
    <3> HIDE DEF fetched
    <3> QED
      BY <2>update, <2>updateAt, <3>2, <3>3
  <2>newDisk.
      disk' \in [Path -> File \cup {None}] /\ \A p \in Path : disk[p] # None => disk'[p] # None
    BY <1>DownloadEnds, <2>update, <2>updateAt DEF DownloadEnds
  <2>ended. PICK record \in UpdateRecord :
              /\ update' = [update EXCEPT ![u] = record]
              /\ record.pc \in {"idle", "locate"} /\ record.at = None
    <3>1. CASE Orphaned(u)
      BY <1>DownloadEnds, <3>1, ResetTypes DEF DownloadEnds, Step
    <3>2. CASE ~Orphaned(u)
      <4> DEFINE record == [update[u] EXCEPT !.pc = "locate", !.at = None, !.alone = TRUE]
      <4>1. record \in UpdateRecord /\ record.pc = "locate" /\ record.at = None
        BY DEF UpdateRecord, Step, Place
      <4>2. update' = [update EXCEPT ![u] = record]
        BY <1>DownloadEnds, <3>2 DEF DownloadEnds
      <4> QED
        BY <4>1, <4>2
    <3> QED
      BY <3>1, <3>2
  <2>Placed. ASSUME NEW w \in Updater PROVE Placed(w)'
    <3>running. running # None /\ running' = running
      BY <1>DownloadEnds DEF DownloadEnds, Placed, Orphaned
    <3>same. CASE w = u
      BY <2>ended, <3>running, <3>same DEF Placed
    <3>other. CASE w # u
      <4>1. update'[w] = update[w]
        BY <2>ended, <3>other
      <4> QED
        BY <2>newDisk, <3>running, <4>1 DEF Placed, UpdateRecord, Place
    <3> QED
      BY <3>same, <3>other
  <2> QED
    BY <1>DownloadEnds, <2>newDisk, <2>ended, <2>Placed DEF DownloadEnds
<1>DownloadFails. ASSUME NEW u \in Updater, DownloadFails(u) PROVE TypeInv'
  <2>1.
      PICK pc \in AfterDownloadError : update' = [update EXCEPT ![u] = [Idle EXCEPT !.pc = pc]]
    BY <1>DownloadFails DEF DownloadFails
  <2>2. /\ [Idle EXCEPT !.pc = pc] \in UpdateRecord /\ [Idle EXCEPT !.pc = pc].pc = pc
        /\ [Idle EXCEPT !.pc = pc].at = None /\ pc \in {"download", "idle"}
    BY ResetTypes DEF AfterDownloadError, Step
  <2>3. update' \in [Updater -> UpdateRecord]
    BY <2>1, <2>2
  <2>4. ASSUME NEW w \in Updater PROVE Placed(w)'
    BY <1>DownloadFails, <2>1, <2>2 DEF DownloadFails, Placed
  <2> QED
    BY <1>DownloadFails, <2>3, <2>4 DEF DownloadFails
<1>GivesUp. ASSUME NEW u \in Updater, GivesUp(u) PROVE TypeInv'
  <2>1. update' \in [Updater -> UpdateRecord]
    BY <1>GivesUp DEF GivesUp, UpdateRecord, Step
  <2>2. ASSUME NEW w \in Updater PROVE Placed(w)'
    BY <1>GivesUp DEF GivesUp, Placed, UpdateRecord
  <2> QED
    BY <1>GivesUp, <2>1, <2>2 DEF GivesUp
<1>Failing. ASSUME NEW u \in Updater, Fail(u) PROVE TypeInv'
  <2>1. update' \in [Updater -> UpdateRecord]
    BY <1>Failing DEF Fail, Idle, UpdateRecord, Step, Place
  <2>2. ASSUME NEW w \in Updater PROVE Placed(w)'
    BY <1>Failing DEF Fail, Idle, Placed, UpdateRecord
  <2> QED
    BY <1>Failing, <2>1, <2>2 DEF Fail
<1>Locate. ASSUME NEW u \in Updater, Locate(u) PROVE TypeInv'
  <2>running. running # None
    BY <1>Locate DEF Locate, Placed
  <2>newUpdate. update' \in [Updater -> UpdateRecord]
    <3>1. [update[u] EXCEPT !.pc = "check", !.exe = running] \in UpdateRecord
      BY DEF UpdateRecord, Step
    <3>2. update' = [update EXCEPT ![u] = [update[u] EXCEPT !.pc = "check", !.exe = running]]
      BY <1>Locate DEF Locate
    <3> QED
      BY <3>1, <3>2
  <2>Placed. ASSUME NEW w \in Updater PROVE Placed(w)'
    <3>newUpdate.
        update'[w] = IF w = u THEN [update[u] EXCEPT !.pc = "check", !.exe = running]
                     ELSE update[w]
      BY <1>Locate DEF Locate
    <3>running.
        running \in (0 .. MaxOld - 1) \cup {Astray} /\ running' = running /\ disk' = disk
      BY <1>Locate, <2>running DEF Locate
    <3>1. CASE w = u
      <4>1. /\ update'[u].pc = "check" /\ update'[u].exe = running
            /\ update'[u].at = update[u].at /\ update[u].at = None
        BY <1>Locate, <3>1, <3>newUpdate DEF Locate, Placed, UpdateRecord
      <4> QED
        BY <2>running, <3>1, <3>running, <4>1 DEF Placed
    <3>2. CASE w # u
      BY <3>newUpdate, <3>running, <3>2 DEF Placed
    <3> QED
      BY <3>1, <3>2
  <2> QED
    BY <1>Locate, <2>newUpdate, <2>Placed DEF Locate
<1>Check. ASSUME NEW u \in Updater, Check(u) PROVE TypeInv'
  <2>1. update' \in [Updater -> UpdateRecord]
    BY <1>Check DEF Check, UpdateRecord, Step
  <2>2. ASSUME NEW w \in Updater PROVE Placed(w)'
    BY <1>Check DEF Check, Placed, UpdateRecord
  <2> QED
    BY <1>Check, <2>1, <2>2 DEF Check
<1>Backup. ASSUME NEW u \in Updater, Backup(u) PROVE TypeInv'
  <2>1. /\ update[u].exe \in 0 .. MaxOld - 1 /\ update[u].exe + 1 \in 0 .. MaxOld
        /\ running # None
    BY <1>Backup DEF Backup, Placed
  <2> QED
    BY <1>Backup, <2>1, RenameTypes DEF Backup, Path, Step
<1>Install. ASSUME NEW u \in Updater, Install(u) PROVE TypeInv'
  <2>1. /\ update[u].exe \in (0 .. MaxOld) \cup {Astray} /\ update[u].exe # Tmp
        /\ running # None
    BY <1>Install DEF Install, Placed
  <2> QED
    BY <1>Install, <2>1, RenameTypes DEF Install, Path, Step
<1>SetMode. ASSUME NEW u \in Updater, SetMode(u) PROVE TypeInv'
  <2>update. update[u].exe \in Path /\ disk[update[u].exe] \in File
    BY <1>SetMode DEF SetMode, Placed, Path
  <2>newDisk.
      disk' \in [Path -> File \cup {None}] /\ \A p \in Path : disk[p] # None => disk'[p] # None
    BY <1>SetMode, <2>update DEF SetMode, File
  <2>newUpdate. update' \in [Updater -> UpdateRecord]
    BY <1>SetMode DEF SetMode, Idle, UpdateRecord, Step, Place
  <2>Placed. ASSUME NEW w \in Updater PROVE Placed(w)'
    BY <1>SetMode, <2>newDisk DEF SetMode, Idle, Placed, UpdateRecord
  <2>newAnswered. answered' \in Version \cup {None}
    BY <1>SetMode DEF SetMode, UpdateRecord
  <2> QED
    BY <1>SetMode, <2>newDisk, <2>newUpdate, <2>Placed, <2>newAnswered DEF SetMode
<1>End. CASE End
  <2>1. Idle \in UpdateRecord /\ Idle.pc = "idle" /\ Idle.at = None
    BY ResetTypes DEF Step
  <2> QED
    BY <1>End, <2>1 DEF End, Placed
<1>Start. CASE Start
  <2>1. TypeOK'
    <3>1. good' \in Version
      BY <1>Start DEF Start
    <3>2. running' \in 0 .. MaxOld
      BY <1>Start DEF Start, Exe
    <3> QED
      BY <1>Start, <3>1, <3>2 DEF Start
  <2>2. ASSUME NEW u \in Updater PROVE Placed(u)'
    <3>1. update[u].pc = "idle" /\ update' = update
      BY <1>Start DEF Start, Placed
    <3> QED
      BY <3>1 DEF Placed
  <2> QED
    BY <2>1, <2>2
<1>Unchanged. CASE UNCHANGED vars
  BY <1>Unchanged DEF vars, Placed
<1> QED
  BY <1>UpdateStart, <1>DownloadBegins, <1>DownloadEnds, <1>DownloadFails, <1>Locate,
     <1>Check, <1>Backup, <1>Install, <1>SetMode, <1>GivesUp, <1>Failing, <1>End, <1>Start,
     <1>Unchanged
  DEF Next, OrphanFails, ReplaceFails

\* TypeOK holds of every behaviour, whatever the panel does.
THEOREM TypeCorrect == Spec => []TypeOK
<1>1. TypeInv /\ [Next]_vars => TypeInv'
  BY StepTypes
<1>2. TypeInv => TypeOK
  BY DEF TypeInv
<1> QED
  BY InitTypes, <1>1, <1>2, PTL DEF Spec

-----------------------------------------------------------------------------
(* Serial updates. *)

Active(u) == update[u].pc \notin {"idle", "orphan"}

AtMostOne == \A u, w \in Updater : Active(u) /\ Active(w) => u = w

\* The executable is in its place until an update has renamed it, and then it is the
\* backup; what has been answered to be installed is in its place.
Executable ==
  /\ ~replaced => Starts(disk[Exe], good) /\ running \in {Exe, None}
  /\ replaced => 1 \in 0 .. MaxOld /\ Starts(disk[1], good)
  /\ answered # None => replaced /\ \A u \in Updater : ~Active(u)
  /\ NextStartRunsUpdate

\* What a download that was given up may write to is never the backup, and it is the
\* executable only if an update took it over; no such download goes on in a process that
\* is not shared, once an update is under way or has renamed the executable.
OrphansApart ==
  /\ \A w \in Updater : Orphaned(w) =>
       /\ update[w].at \in {None, Tmp, Exe, Astray}
       /\ update[w].at = Exe => replaced
  /\ ~shared /\ (replaced \/ \E u \in Updater : Active(u)) =>
       \A w \in Updater : ~Orphaned(w)

\* A complete download of v is at p.
Holds(p, v) == disk[p] \in File /\ disk[p].version = v /\ disk[p].whole

\* How far the update u has come, and where its download is, which is whole unless it was
\* shared.
Stage(u) ==
  /\ update[u].pc \in {"download", "writing", "locate", "check", "backup"} => ~replaced
  /\ update[u].pc \in {"install", "mode"} => replaced
  /\ update[u].pc \in {"check", "backup", "install", "mode"} => update[u].exe = Exe /\ 1 \in 0 .. MaxOld
  /\ update[u].pc = "writing" => update[u].at = Tmp
  /\ ~shared =>
       /\ update[u].pc = "writing" => update[u].alone
       /\ update[u].pc \in {"locate", "check", "backup", "install"} =>
            Holds(Tmp, update[u].version)
       /\ update[u].pc = "mode" => Holds(Exe, update[u].version)

Inv == TypeInv /\ AtMostOne /\ Executable /\ OrphansApart /\ \A u \in Updater : Stage(u)

\* At the beginning no update is under way and the executable is in its place.
LEMMA InitInv == Init => Inv
<1> SUFFICES ASSUME Init PROVE Inv
  OBVIOUS
<1>1. \A u \in Updater : update[u].pc = "idle"
  BY DEF Init, Idle
<1>2. Executable
  BY <1>1 DEF Init, Executable, NextStartRunsUpdate, Active, Starts, Path, Exe
<1> QED
  BY <1>1, <1>2, InitTypes DEF Inv, AtMostOne, Active, OrphansApart, Orphaned, Stage

\* When no other update is active, a step of u is judged by u, the files and the
\* downloads that were given up.
LEMMA OneActs ==
  ASSUME TypeInv', NEW u \in Updater,
         \A w \in Updater \ {u} : ~Active(w)',
         Executable', OrphansApart', Stage(u)'
  PROVE  Inv'
<1>1. AtMostOne'
  BY DEF AtMostOne
<1>2. \A w \in Updater \ {u} : Stage(w)'
  BY DEF Stage, Active
<1> QED
  BY <1>1, <1>2 DEF Inv

\* A step of an update that leaves the downloads that were given up as they are keeps
\* them apart.
LEMMA ApartStays ==
  ASSUME OrphansApart, NEW u \in Updater, Active(u), ~Orphaned(u)',
         \A w \in Updater \ {u} : update'[w].pc = update[w].pc /\ update'[w].at = update[w].at,
         replaced => replaced', shared' = shared
  PROVE  OrphansApart'
BY DEF OrphansApart, Orphaned, Active

\* What a download that was given up does to the files spoils neither the executable nor
\* its backup, and an update only in a process that is shared.
LEMMA OrphanWrites ==
  ASSUME TypeInv, TypeInv', AtMostOne, Executable, OrphansApart,
         \A w \in Updater : Stage(w),
         NEW u \in Updater, Orphaned(u), ~Active(u)',
         UNCHANGED <<running, replaced, answered, good, shared>>,
         \A p \in Path \ {update[u].at, Tmp} : disk'[p] = disk[p],
         update'[u].at \in {None, Tmp},
         \A w \in Updater \ {u} :
           /\ update'[w].pc = update[w].pc /\ update'[w].at = update[w].at
           /\ update'[w].exe = update[w].exe
  PROVE  Inv'
<1>paths. /\ Exe \in Path /\ Tmp \in Path /\ Exe # Tmp /\ Exe # Astray
          /\ 1 \in 0 .. MaxOld => 1 \in Path /\ 1 # Tmp /\ 1 # Astray /\ 1 # Exe /\ 1 # None
  BY DEF Exe, Path
<1>at. update[u].at \in {None, Tmp, Exe, Astray} /\ (update[u].at = Exe => replaced)
  BY DEF OrphansApart
<1>active. \A w \in Updater : Active(w)' <=> Active(w)
  BY DEF Active, Orphaned
<1>one. AtMostOne'
  BY <1>active DEF AtMostOne
<1>shared. replaced \/ (\E w \in Updater : Active(w)) => shared
  BY DEF OrphansApart
<1>Executable. Executable'
  BY <1>paths, <1>at, <1>active, <1>shared DEF Executable, NextStartRunsUpdate
<1>apart. OrphansApart'
  <2>1. ASSUME NEW w \in Updater, Orphaned(w)'
        PROVE  update'[w].at \in {None, Tmp, Exe, Astray} /\ (update'[w].at = Exe => replaced')
    <3>1. CASE w = u
      BY <1>paths, <3>1
    <3>2. CASE w # u
      BY <2>1, <3>2 DEF OrphansApart, Orphaned
    <3> QED
      BY <3>1, <3>2
  <2>2. replaced' \/ (\E w \in Updater : Active(w)') => shared'
    BY <1>active, <1>shared
  <2> QED
    BY <2>1, <2>2 DEF OrphansApart
<1>stages. ASSUME NEW w \in Updater PROVE Stage(w)'
  <2>1. CASE ~Active(w)
    BY <1>active, <2>1 DEF Stage, Active
  <2>2. CASE Active(w)
    <3>1. w # u /\ shared'
      BY <1>shared, <2>2 DEF Active, Orphaned
    <3> QED
      BY <3>1 DEF Stage
  <2> QED
    BY <2>1, <2>2
<1> QED
  BY <1>one, <1>Executable, <1>apart, <1>stages DEF Inv

\* Every step keeps the invariant if the panel is serial.
LEMMA InvStep ==
  ASSUME Serial, Inv, [Next]_vars
  PROVE  Inv'
<1> USE DEF Inv
<1>TypeInv. TypeInv'
  BY StepTypes
<1>a.
    ASSUME NEW u \in Updater, Active(u) PROVE \A w \in Updater \ {u} : ~Active(w)
  BY <1>a DEF AtMostOne, Active
<1>b. Exe \in Path /\ Tmp \in Path /\ Exe # Tmp /\ Exe # Astray
  BY DEF Exe, Path
<1>c. update \in [Updater -> UpdateRecord] /\ disk \in [Path -> File \cup {None}]
  BY DEF TypeInv, TypeOK
<1>d. ASSUME NEW u \in Updater, Active(u) PROVE answered = None
  BY <1>d DEF Executable
<1>OnlyUpdate.
    ASSUME NEW u \in Updater, Active(u), ~Orphaned(u)', Stage(u)',
           \A w \in Updater \ {u} : update'[w] = update[w],
           UNCHANGED <<disk, running, replaced, answered, good, shared>>
    PROVE  Inv'
  <2>1. \A w \in Updater \ {u} : ~Active(w)'
    BY <1>a, <1>OnlyUpdate DEF Active
  <2>2. Executable'
    BY <1>d, <1>OnlyUpdate DEF Executable, NextStartRunsUpdate
  <2>3. OrphansApart'
    BY <1>OnlyUpdate, ApartStays
  <2> QED
    BY <1>TypeInv, <1>OnlyUpdate, <2>1, <2>2, <2>3, OneActs
<1>UpdateStart. ASSUME NEW u \in Updater, UpdateStart(u) PROVE Inv'
  <2>notReplaced. ~replaced /\ \A w \in Updater : ~Active(w)
    BY <1>UpdateStart DEF UpdateStart, MayUpdate, Active, Orphaned
  <2>newUpdate.
      /\ update[u].pc = "idle" /\ update'[u].pc = "download"
      /\ UNCHANGED <<disk, running, replaced, answered, good>>
      /\ \A w \in Updater \ {u} : update'[w] = update[w]
      /\ shared' = (shared \/ \E w \in Updater : Orphaned(w))
    BY <1>UpdateStart, <1>c DEF UpdateStart, UpdateRecord
  <2>Stage. Stage(u)'
    BY <2>notReplaced, <2>newUpdate DEF Stage
  <2>Executable. Executable'
    BY <2>notReplaced, <2>newUpdate DEF Executable, NextStartRunsUpdate
  <2>others. \A w \in Updater \ {u} : ~Active(w)'
    BY <2>notReplaced, <2>newUpdate DEF Active
  <2>apart. OrphansApart'
    BY <2>newUpdate DEF OrphansApart, Orphaned
  <2> QED
    BY <1>TypeInv, <2>others, <2>Stage, <2>Executable, <2>apart, OneActs
<1>DownloadBegins.
    ASSUME NEW u \in Updater, NEW v \in Version, DownloadBegins(u, v) PROVE Inv'
  <2>newDisk. \A p \in Path \ {Tmp} : disk'[p] = disk[p]
    BY <1>DownloadBegins, <1>c DEF DownloadBegins
  <2>newUpdate. /\ update'[u].pc = IF Orphaned(u) THEN "orphan" ELSE "writing"
                /\ update'[u].at = Tmp
                /\ update'[u].alone <=> {w \in Updater : update[w].at = Tmp} = {}
                /\ UNCHANGED <<running, replaced, answered, good, shared>>
    BY <1>DownloadBegins, <1>c DEF DownloadBegins
  <2>others. \A w \in Updater \ {u} :
               /\ update'[w].pc = update[w].pc /\ update'[w].at = update[w].at
               /\ update'[w].exe = update[w].exe
    BY <1>DownloadBegins, <1>c DEF DownloadBegins, UpdateRecord
  <2>orphaned. CASE Orphaned(u)
    BY <1>TypeInv, <2>newDisk, <2>newUpdate, <2>others, <2>orphaned, OrphanWrites DEF Active
  <2>active. CASE ~Orphaned(u)
    <3>update. update[u].pc = "download" /\ Active(u)
      BY <1>DownloadBegins, <2>active DEF DownloadBegins, Active
    <3>alone. ~shared => update'[u].alone
      <4>1. ~shared => \A w \in Updater : ~Orphaned(w)
        BY <3>update DEF OrphansApart
      <4>2. \A w \in Updater : update[w].at # None => w = u \/ Orphaned(w)
        BY <1>a, <3>update DEF TypeInv, Placed, Active, Orphaned
      <4>3. update[u].at = None
        BY <3>update DEF TypeInv, Placed
      <4>4. Tmp # None
        BY <1>b
      <4> QED
        BY <2>newUpdate, <4>1, <4>2, <4>3, <4>4
    <3>Stage. Stage(u)'
      BY <2>active, <2>newUpdate, <3>update, <3>alone DEF Stage
    <3>Executable. Executable'
      BY <1>b, <1>d, <2>newDisk, <2>newUpdate, <3>update
      DEF Executable, NextStartRunsUpdate, Stage
    <3>apart. OrphansApart'
      BY <2>active, <2>newUpdate, <2>others, <3>update, ApartStays DEF Orphaned
    <3>othersIdle. \A w \in Updater \ {u} : ~Active(w)'
      BY <1>a, <2>others, <3>update DEF Active
    <3> QED
      BY <1>TypeInv, <3>Stage, <3>Executable, <3>apart, <3>othersIdle, OneActs
  <2> QED
    BY <2>orphaned, <2>active
<1>DownloadEnds. ASSUME NEW u \in Updater, DownloadEnds(u) PROVE Inv'
  <2>at. update[u].at \in Path /\ update[u].version \in Version
    BY <1>DownloadEnds, <1>c DEF DownloadEnds, TypeInv, Placed, UpdateRecord, Place
  <2>newDisk. \A p \in Path \ {update[u].at} : disk'[p] = disk[p]
    BY <1>DownloadEnds, <1>c DEF DownloadEnds
  <2>others. /\ \A w \in Updater \ {u} : update'[w] = update[w]
             /\ UNCHANGED <<running, replaced, answered, good, shared>>
    BY <1>DownloadEnds, <1>c DEF DownloadEnds
  <2>orphaned. CASE Orphaned(u)
    <3>1. update'[u] = Idle
      BY <1>DownloadEnds, <1>c, <2>orphaned DEF DownloadEnds
    <3> QED
      BY <1>TypeInv, <2>newDisk, <2>others, <2>orphaned, <3>1, OrphanWrites DEF Active, Idle
  <2>active. CASE ~Orphaned(u)
    <3>update. update[u].pc = "writing" /\ Active(u) /\ update[u].at = Tmp
      BY <1>DownloadEnds, <2>active DEF DownloadEnds, Active, Stage
    <3>newUpdate. update'[u].pc = "locate" /\ update'[u].version = update[u].version
      BY <1>DownloadEnds, <1>c, <2>active DEF DownloadEnds, UpdateRecord
    <3>file. disk'[Tmp] \in Written(u)
      BY <1>DownloadEnds, <1>b, <1>c, <3>update DEF DownloadEnds
    <3>holds. ~shared => Holds(Tmp, update[u].version)'
      <4>1. ~shared => disk'[Tmp] = [version |-> update[u].version, whole |-> TRUE,
                                    exec |-> disk[Tmp].exec]
        BY <3>update, <3>file DEF Stage, Written
      <4>2. disk[Tmp] \in File
        BY <1>b, <1>c, <3>update DEF TypeInv, Placed
      <4> QED
        <5> DEFINE fetched(whole) == [version |-> update[u].version, whole |-> whole,
                                      exec |-> disk[Tmp].exec]
        <5>1. \A whole \in BOOLEAN : /\ fetched(whole) \in File /\ fetched(whole).whole = whole
                                     /\ fetched(whole).version = update[u].version
          BY <2>at, <4>2, FileTypes
        <5>2. /\ fetched(TRUE) \in File /\ fetched(TRUE).whole = TRUE
              /\ fetched(TRUE).version = update[u].version
          BY <5>1
        <5>3. ~shared => disk'[Tmp] = fetched(TRUE)
          BY <4>1
        <5> HIDE DEF fetched
        <5> QED
          BY <3>newUpdate, <5>2, <5>3 DEF Holds
    <3>Stage. Stage(u)'
      BY <2>others, <3>update, <3>newUpdate, <3>holds DEF Stage, Holds
    <3>Executable. Executable'
      BY <1>b, <1>d, <2>newDisk, <2>others, <3>update
      DEF Executable, NextStartRunsUpdate, Stage
    <3>apart. OrphansApart'
      BY <2>others, <3>update, <3>newUpdate, ApartStays DEF Orphaned
    <3>othersIdle. \A w \in Updater \ {u} : ~Active(w)'
      BY <1>a, <2>others, <3>update DEF Active
    <3> QED
      BY <1>TypeInv, <3>Stage, <3>Executable, <3>apart, <3>othersIdle, OneActs
  <2> QED
    BY <2>orphaned, <2>active
<1>DownloadFails. ASSUME NEW u \in Updater, DownloadFails(u) PROVE Inv'
  <2>update. update[u].pc \in {"download", "writing"} /\ Active(u)
    BY <1>DownloadFails DEF DownloadFails, Active
  <2>newUpdate. /\ update'[u].pc \in {"download", "idle"}
                /\ UNCHANGED <<disk, running, replaced, answered, good, shared>>
                /\ \A w \in Updater \ {u} : update'[w] = update[w]
    BY <1>DownloadFails, <1>c DEF DownloadFails, AfterDownloadError, Idle
  <2>Stage. Stage(u)'
    BY <2>update, <2>newUpdate DEF Stage
  <2> QED
    BY <1>OnlyUpdate, <2>update, <2>newUpdate, <2>Stage DEF Orphaned
<1>GivesUp. ASSUME NEW u \in Updater, GivesUp(u) PROVE Inv'
  <2>update. /\ update[u].pc \in {"download", "writing"} /\ Active(u) /\ ~replaced
             /\ update[u].at \in {None, Tmp}
    BY <1>GivesUp DEF GivesUp, Active, Stage, TypeInv, Placed
  <2>newUpdate. /\ update'[u].pc = "orphan" /\ update'[u].at = update[u].at
                /\ UNCHANGED <<disk, running, replaced, answered, good, shared>>
                /\ \A w \in Updater \ {u} : update'[w] = update[w]
    BY <1>GivesUp, <1>c DEF GivesUp, UpdateRecord
  <2>none. \A w \in Updater : ~Active(w)'
    BY <1>a, <2>update, <2>newUpdate DEF Active
  <2>apart. OrphansApart'
    BY <1>b, <2>update, <2>newUpdate, <2>none DEF OrphansApart, Orphaned
  <2>Executable. Executable'
    BY <1>d, <2>update, <2>newUpdate DEF Executable, NextStartRunsUpdate
  <2> QED
    BY <1>TypeInv, <2>newUpdate, <2>none, <2>apart, <2>Executable, OneActs DEF Stage
<1>OrphanFails. ASSUME NEW u \in Updater, OrphanFails(u) PROVE Inv'
  <2>1. /\ Orphaned(u) /\ update'[u] = Idle
        /\ UNCHANGED <<disk, running, replaced, answered, good, shared>>
        /\ \A w \in Updater \ {u} : update'[w] = update[w]
    BY <1>OrphanFails, <1>c DEF OrphanFails, Fail
  <2> QED
    BY <1>TypeInv, <2>1, OrphanWrites DEF Active, Idle
<1>Locate. ASSUME NEW u \in Updater, Locate(u) PROVE Inv'
  <2>update. update[u].pc = "locate" /\ Active(u) /\ running # MaxOld
    BY <1>Locate DEF Locate, Active
  <2>newUpdate. /\ update'[u].pc = "check" /\ update'[u].version = update[u].version
                /\ update'[u].exe = running
                /\ UNCHANGED <<disk, running, replaced, answered, good, shared>>
                /\ \A w \in Updater \ {u} : update'[w] = update[w]
    BY <1>Locate, <1>c DEF Locate, UpdateRecord
  <2>running. running = Exe /\ 1 \in 0 .. MaxOld
    BY <2>update DEF Executable, Stage, TypeInv, Placed, Exe
  <2>Stage. Stage(u)'
    BY <2>update, <2>newUpdate, <2>running DEF Stage, Holds
  <2> QED
    BY <1>OnlyUpdate, <2>update, <2>newUpdate, <2>Stage DEF Orphaned
<1>Check. ASSUME NEW u \in Updater, Check(u) PROVE Inv'
  <2>update. update[u].pc = "check" /\ Active(u) /\ update[u].exe = Exe
    BY <1>Check DEF Check, Active, Stage
  <2>disk. disk[Exe] # None
    <3>1. Starts(disk[Exe], good) /\ good \in Version
      BY <2>update DEF Stage, Executable, TypeInv, TypeOK
    <3>2. disk[Exe] \in File
      BY <3>1 DEF Starts, File
    <3> QED
      BY <3>2
  <2>newUpdate. /\ update'[u].pc = "backup" /\ update'[u].version = update[u].version
                /\ update'[u].exe = Exe
                /\ UNCHANGED <<disk, running, replaced, answered, good, shared>>
                /\ \A w \in Updater \ {u} : update'[w] = update[w]
    BY <1>Check, <1>b, <1>c, <2>update, <2>disk DEF Check, UpdateRecord
  <2>Stage. Stage(u)'
    BY <2>update, <2>newUpdate DEF Stage, Holds
  <2> QED
    BY <1>OnlyUpdate, <2>update, <2>newUpdate, <2>Stage DEF Orphaned
<1>Backup. ASSUME NEW u \in Updater, Backup(u) PROVE Inv'
  <2>update. /\ update[u].pc = "backup" /\ Active(u) /\ update[u].exe = Exe
             /\ 1 \in 0 .. MaxOld /\ ~replaced
    BY <1>Backup DEF Backup, Active, Stage
  <2>Rename. Rename(0, 1) /\ GoesOn(u, "install", 0, 1)
    BY <1>Backup, <2>update DEF Backup, Exe
  <2>newUpdate. /\ update'[u].pc = "install" /\ update'[u].version = update[u].version
                /\ update'[u].exe = Exe
                /\ \A w \in Updater \ {u} :
                     update'[w].pc = update[w].pc /\ update'[w].at = Moved(update[w].at, 0, 1)
    BY <1>c, <2>update, <2>Rename, GoesOnFields
  <2>newDisk. disk'[1] = disk[Exe] /\ disk'[Tmp] = disk[Tmp]
    <3>1. {0, 1, Tmp} \subseteq Path /\ Tmp # 0 /\ Tmp # 1
      BY <2>update DEF Path
    <3>2. disk' = [disk EXCEPT ![1] = disk[0], ![0] = None]
      BY <2>Rename DEF Rename
    <3> QED
      BY <1>c, <3>1, <3>2 DEF Exe
  <2>newReplaced. replaced' /\ answered' = None /\ good' = good /\ shared' = shared
    BY <1>Backup, <1>d, <2>update DEF Backup
  <2>Stage. Stage(u)'
    BY <2>update, <2>newUpdate, <2>newDisk, <2>newReplaced DEF Stage, Holds
  <2>Executable. Executable'
    BY <2>update, <2>newDisk, <2>newReplaced DEF Executable, NextStartRunsUpdate
  <2>apart. OrphansApart'
    BY <1>b, <2>update, <2>newUpdate, <2>newReplaced DEF OrphansApart, Orphaned, Moved, Exe
  <2>others. \A w \in Updater \ {u} : ~Active(w)'
    BY <1>a, <2>update, <2>newUpdate DEF Active
  <2> QED
    BY <1>TypeInv, <2>Stage, <2>Executable, <2>apart, <2>others, OneActs
<1>Install. ASSUME NEW u \in Updater, Install(u) PROVE Inv'
  <2>update. /\ update[u].pc = "install" /\ Active(u) /\ update[u].exe = Exe
             /\ 1 \in 0 .. MaxOld /\ replaced
    BY <1>Install DEF Install, Active, Stage
  <2>Rename. Rename(Tmp, 0) /\ GoesOn(u, "mode", Tmp, 0)
    BY <1>Install, <2>update DEF Install, Exe
  <2>newUpdate. /\ update'[u].pc = "mode" /\ update'[u].version = update[u].version
                /\ update'[u].exe = Exe
                /\ \A w \in Updater \ {u} :
                     update'[w].pc = update[w].pc /\ update'[w].at = Moved(update[w].at, Tmp, 0)
    BY <1>c, <2>update, <2>Rename, GoesOnFields
  <2>newDisk. disk'[1] = disk[1] /\ disk'[Exe] = disk[Tmp]
    BY <1>b, <1>c, <2>update, <2>Rename DEF Rename, Path, Exe
  <2>newReplaced. replaced' /\ answered' = None /\ good' = good /\ shared' = shared
    BY <1>Install, <1>d, <2>update DEF Install
  <2>Stage. Stage(u)'
    BY <2>update, <2>newUpdate, <2>newDisk, <2>newReplaced DEF Stage, Holds
  <2>Executable. Executable'
    BY <2>update, <2>newDisk, <2>newReplaced DEF Executable, NextStartRunsUpdate
  <2>apart. OrphansApart'
    BY <1>b, <2>update, <2>newUpdate, <2>newReplaced DEF OrphansApart, Orphaned, Moved, Exe
  <2>others. \A w \in Updater \ {u} : ~Active(w)'
    BY <1>a, <2>update, <2>newUpdate DEF Active
  <2> QED
    BY <1>TypeInv, <2>Stage, <2>Executable, <2>apart, <2>others, OneActs
<1>SetMode. ASSUME NEW u \in Updater, SetMode(u) PROVE Inv'
  <2>update. /\ update[u].pc = "mode" /\ Active(u) /\ update[u].exe = Exe
             /\ replaced /\ 1 \in 0 .. MaxOld
             /\ ~shared => Holds(Exe, update[u].version)
    BY <1>SetMode DEF SetMode, Active, Stage
  <2>newUpdate. /\ update'[u].pc = "idle" /\ \A w \in Updater \ {u} : update'[w] = update[w]
                /\ UNCHANGED <<running, replaced, good, shared>> /\ answered' = update[u].version
    BY <1>SetMode, <1>c DEF SetMode, Idle
  <2>newDisk. disk'[1] = disk[1] /\ disk'[Exe] = [disk[Exe] EXCEPT !.exec = TRUE]
    BY <1>SetMode, <1>b, <1>c, <2>update DEF SetMode, Exe, Path
  <2>Starts. ~shared => Starts(disk'[Exe], update[u].version)
    BY <2>update, <2>newDisk DEF Starts, Holds, File
  <2>Stage. Stage(u)'
    BY <2>newUpdate DEF Stage
  <2>none. \A w \in Updater : ~Active(w)'
    BY <1>a, <2>update, <2>newUpdate DEF Active
  <2>Executable. Executable'
    BY <2>update, <2>newUpdate, <2>newDisk, <2>Starts, <2>none
    DEF Executable, NextStartRunsUpdate
  <2>apart. OrphansApart'
    BY <2>update, <2>newUpdate, ApartStays DEF Orphaned
  <2> QED
    BY <1>TypeInv, <2>Stage, <2>none, <2>Executable, <2>apart, OneActs
<1>ReplaceFails. ASSUME NEW u \in Updater, ReplaceFails(u) PROVE Inv'
  <2>Active. Active(u)
    BY <1>ReplaceFails DEF ReplaceFails, Active
  <2>newUpdate. /\ update'[u].pc = "idle" /\ \A w \in Updater \ {u} : update'[w] = update[w]
                /\ UNCHANGED <<disk, running, replaced, answered, good, shared>>
    BY <1>ReplaceFails, <1>c DEF ReplaceFails, Fail, Idle
  <2>Stage. Stage(u)'
    BY <2>newUpdate DEF Stage
  <2> QED
    BY <1>OnlyUpdate, <2>Active, <2>newUpdate, <2>Stage DEF Orphaned
<1>End. CASE End
  <2>newUpdate. \A u \in Updater : update'[u].pc = "idle"
    BY <1>End DEF End, Idle
  <2>Executable. Executable'
    BY <1>End, <2>newUpdate DEF End, Executable, NextStartRunsUpdate, Active
  <2> QED
    BY <1>TypeInv, <2>newUpdate, <2>Executable
    DEF AtMostOne, Active, Stage, OrphansApart, Orphaned
<1>Start. CASE Start
  <2>newUpdate. \A u \in Updater : update'[u].pc = "idle"
    BY <1>Start DEF Start, TypeInv, Placed
  <2>Starts. Starts(disk'[Exe], good') /\ running' = Exe /\ ~replaced' /\ answered' = None
    BY <1>Start DEF Start
  <2>Executable. Executable'
    BY <2>Starts DEF Executable, NextStartRunsUpdate
  <2> QED
    BY <1>TypeInv, <2>newUpdate, <2>Executable
    DEF AtMostOne, Active, Stage, OrphansApart, Orphaned
<1>Unchanged. CASE UNCHANGED vars
  BY <1>TypeInv, <1>Unchanged
  DEF vars, AtMostOne, Executable, NextStartRunsUpdate, OrphansApart, Orphaned, Active, Stage,
      Holds
<1> QED
  BY <1>UpdateStart, <1>DownloadBegins, <1>DownloadEnds, <1>DownloadFails, <1>Locate,
     <1>GivesUp, <1>OrphanFails, <1>Check, <1>Backup, <1>Install, <1>SetMode,
     <1>ReplaceFails, <1>End, <1>Start,
     <1>Unchanged
  DEF Next

\* With a panel that updates a process serially and at most once as far as the renames,
\* the version that was last started
\* is never lost, wherever an update fails, is given up, or its process ends.
THEOREM BackupSurvives ==
  ASSUME Serial
  PROVE  Spec => []BackupKept
<1>1. Inv => BackupKept
  BY DEF Inv, Executable, BackupKept, Exe
<1>2. Inv /\ [Next]_vars => Inv'
  BY InvStep
<1> QED
  BY InitInv, <1>1, <1>2, PTL DEF Spec

\* With such a panel, what was answered to be installed is what starts next, unless its
\* update began beside the download of one that was given up.
THEOREM UpdateStartsNext ==
  ASSUME Serial
  PROVE  Spec => []NextStartRunsUpdate
<1>1. Inv => NextStartRunsUpdate
  BY DEF Inv, Executable, NextStartRunsUpdate
<1>2. Inv /\ [Next]_vars => Inv'
  BY InvStep
<1> QED
  BY InitInv, <1>1, <1>2, PTL DEF Spec
=============================================================================
