------------------------------- MODULE BBPSync -------------------------------
(***************************************************************************)
(* The commit protocol of the BAT buffer pool: TMcommit and TMsubcommit    *)
(* (gdk_tm.c), BBPsync, BBPbackup, BBPprepare, BBPdir, BBPsave and the     *)
(* recovery done by BBPinit (gdk_bbp.c), on top of BATsave, HEAPsave and   *)
(* HEAPload (gdk_storage.c, gdk_heap.c).                                   *)
(*                                                                         *)
(* The four heap files of a bat are treated alike by the code; a bat of    *)
(* the model has one, X, with its X.new and X.new.kill companions.  What a *)
(* file holds is the version of the bat that was written to it, and an     *)
(* entry of BBP.dir is the version its descriptor describes.  Every rename,*)
(* unlink and creation of a file is a step and a crash may fall between    *)
(* any two of them; a file being written is Half until it is complete.     *)
(***************************************************************************)
EXTENDS Integers

CONSTANTS Bats,        \* bat identifiers, positive integers
          Priv,        \* bats saved as X.new (heap mode STORE_PRIV); the
                       \* others are in malloced memory (STORE_MEM)
          Initial,     \* bats in the checkpoint the database starts from
          Globals,     \* does TMcommit run?
          Sublists,    \* the lists TMsubcommit is called with
          Trimmable,   \* bats that may be unloaded while they are dirty
          Droppable,   \* bats that may be made transient
          Held,        \* bats somebody keeps using after they are transient
          FreshOid,    \* does every commit find that an oid was handed out?
          MaxVersion,  \* bound: versions written by the program
          MaxFailures, \* bound: writes that fail (disk full)
          MaxCrashes   \* bound: crashes

ASSUME BatsAssumption == /\ Bats \subseteq Nat \ {0} /\ Bats # {}
                         /\ Initial \subseteq Bats /\ Priv \subseteq Initial
                         /\ Trimmable \cup Droppable \cup Held \subseteq Bats
                         /\ Sublists \subseteq SUBSET Bats
ASSUME FlagsAssumption == Globals \in BOOLEAN /\ FreshOid \in BOOLEAN
ASSUME BoundsAssumption == /\ MaxVersion \in Nat \ {0}
                           /\ MaxFailures \in Nat /\ MaxCrashes \in Nat

VARIABLES file,          \* file[d][b][n]: what file n of bat b in d holds
          bbpdir,        \* bbpdir[d]: the BBP.dir in directory d
          bat,           \* the BBP record and the BAT descriptor of each bat
          backup_files, backup_subdir,  \* are these counters of BBPprepare > 0?
          backup_dir,    \* where BBPprepare thinks the old BBP.dir is
          BBP_dirty,     \* must BBP.dir be written by the next commit?
          oid_dirty,     \* OIDdirty(): an oid was handed out since
          tm,            \* the thread in TMcommit, TMsubcommit or BBPinit
          sv,            \* the thread in BBPsave
          version, failures, crashes   \* how much of the bounds is used

disk == <<file, bbpdir>>
counters == <<backup_files, backup_subdir, backup_dir>>
bounds == <<version, failures, crashes>>
vars == <<disk, bat, counters, BBP_dirty, oid_dirty, tm, sv, bounds>>

Dirs == {"BATDIR", "BAKDIR", "SUBDIR"}
Names == {"X", "new", "kill"}
NoFile == 0
Half == -1
NoDir == [b \in Bats |-> -2]
HalfDir == [b \in Bats |-> -1]
Versions == 1 .. MaxVersion
None == 0                   \* no bat

EmptyDir == [b \in Bats |-> [n \in Names |-> NoFile]]

\* HEAPsave writes a private mapping to X.new and a malloced heap to X.
SaveName(b) == IF b \in Priv THEN "new" ELSE "X"

\* BBP status bits NEW, EXISTING and DELETED; "none" is a free slot, and
\* "TRANSIENT" a bat with none of the three.
Statuses == {"none", "TRANSIENT", "NEW", "EXISTING", "DELETED"}
Persistent(b) == bat[b].status \in {"NEW", "EXISTING"}

FreeSlot == [status |-> "none", version |-> 0, loaded |-> FALSE, dirty |-> FALSE,
             delta |-> FALSE, swapped |-> FALSE, aligned |-> TRUE]
\* A bat read from BBP.dir: known, not in memory, equal to its disk image.
OnDisk(v) == [FreeSlot EXCEPT !.status = "EXISTING", !.version = v]

Idle == [pc |-> "done", list |-> {}, sub |-> FALSE, todo |-> {}, bbpdirty |-> FALSE,
         error |-> FALSE]
NoSave == [pc |-> "idle", bat |-> None]

Up == tm.pc \notin {"subdir", "recover", "diskscan"}
Committing == tm.pc \notin {"done", "failed"} /\ Up
\* TMsubcommit assumes exclusive access to the bats of its list, and TMcommit
\* holds every lock of the BBP.
Free(b) == ~(Committing /\ (b \in tm.list \/ ~tm.sub))

-----------------------------------------------------------------------------
(* The program above GDK: it creates, updates, drops and reads bats.       *)

Fresh == version < MaxVersion /\ version' = version + 1

\* A column made by BATnew and given to BATmode(PERSISTENT); no file yet.
Create(b) ==
    /\ Up /\ Free(b) /\ bat[b].status = "none" /\ b \notin Priv
    /\ Fresh
    /\ bat' = [bat EXCEPT ![b] = [FreeSlot EXCEPT
                  !.status = "NEW", !.version = version', !.loaded = TRUE,
                  !.dirty = TRUE, !.delta = TRUE, !.aligned = FALSE]]
    /\ BBP_dirty' = TRUE
    /\ UNCHANGED <<disk, counters, oid_dirty, tm, sv, failures, crashes>>

\* An insert or delete: the heaps become dirty, the delta is no longer empty
\* and the alignment of the columns is zapped.
Update(b) ==
    /\ Up /\ Free(b) /\ b # sv.bat /\ bat[b].loaded
    /\ Persistent(b) \/ b \in Held
    /\ Fresh
    /\ bat' = [bat EXCEPT ![b].version = version', ![b].dirty = TRUE,
                          ![b].delta = TRUE, ![b].aligned = FALSE]
    /\ UNCHANGED <<disk, counters, BBP_dirty, oid_dirty, tm, sv, failures, crashes>>

DeleteFiles(b) == [file EXCEPT !["BATDIR"][b] = [n \in Names |-> NoFile]]

\* BATmode(TRANSIENT), and the BBPdecref that follows when nobody holds the
\* bat: one that no commit has seen is destroyed, the others are unloaded
\* unsaved and wait for the commit.
MakeTransient(b) ==
    /\ Up /\ Free(b) /\ b # sv.bat /\ b \in Droppable
    /\ Persistent(b) /\ bat[b].loaded
    /\ BBP_dirty' = TRUE
    /\ IF bat[b].status = "EXISTING"
       THEN /\ bat' = [bat EXCEPT ![b].status = "DELETED", ![b].loaded = b \in Held]
            /\ UNCHANGED file
       ELSE IF b \in Held
            THEN /\ bat' = [bat EXCEPT ![b].status = "TRANSIENT"]
                 /\ UNCHANGED file
            ELSE /\ bat' = [bat EXCEPT ![b] = FreeSlot]
                 /\ file' = DeleteFiles(b)
    /\ UNCHANGED <<bbpdir, counters, oid_dirty, tm, sv, bounds>>

\* BATmode(PERSISTENT) on a bat that was made transient earlier.
MakePersistent(b) ==
    /\ Up /\ Free(b) /\ b # sv.bat /\ bat[b].loaded
    /\ bat[b].status \in {"DELETED", "TRANSIENT"}
    /\ bat' = [bat EXCEPT ![b].status = IF @ = "DELETED" THEN "EXISTING" ELSE "NEW"]
    /\ BBP_dirty' = TRUE
    /\ UNCHANGED <<disk, counters, oid_dirty, tm, sv, bounds>>

\* BATload_intern, HEAPload: an X.new takes the place of X.
Load(b) ==
    /\ Up /\ Free(b) /\ Persistent(b) /\ ~bat[b].loaded
    /\ file' = IF file["BATDIR"][b]["new"] = NoFile THEN file
               ELSE [file EXCEPT !["BATDIR"][b]["X"] = file["BATDIR"][b]["new"],
                                 !["BATDIR"][b]["new"] = NoFile]
    /\ bat' = [bat EXCEPT ![b].loaded = TRUE]
    /\ UNCHANGED <<bbpdir, counters, BBP_dirty, oid_dirty, tm, sv, bounds>>

-----------------------------------------------------------------------------
(* Safeguarding: BBPprepare and BBPbackup, used by commits and by BBPsave. *)

\* Where BBPprepare looks for the BBP.dir to put away.  The counters are 0
\* only when BAKDIR is gone: there is nothing for its BBPrecover to move.
DirOwner == IF backup_files THEN backup_dir ELSE 0
\* Seeded defect: the directories are swapped.
BugDirSource == IF DirOwner = 0 THEN "BAKDIR" ELSE "BATDIR"

DirSource == IF DirOwner = 0 THEN "BATDIR" ELSE "BAKDIR"
BackupDir(sub) == IF sub THEN "SUBDIR" ELSE "BAKDIR"
DirMark(sub) == IF sub THEN 2 ELSE 1

CanPrepare(sub) == DirOwner = DirMark(sub) \/ bbpdir[DirSource] # NoDir

BBPprepare(sub) ==
    /\ CanPrepare(sub)
    /\ bbpdir' = IF DirOwner = DirMark(sub) THEN bbpdir
                 ELSE [bbpdir EXCEPT ![DirSource] = NoDir,
                                     ![BackupDir(sub)] = bbpdir[DirSource]]
    /\ backup_dir' = DirMark(sub)
    /\ backup_files' = TRUE
    /\ backup_subdir' = (backup_subdir \/ sub)

\* GDKmove of the file n of b; a source that is not there is not an error.
Moved(b, n, src, dst) ==
    IF file[src][b][n] = NoFile THEN file
    ELSE [file EXCEPT ![src][b][n] = NoFile, ![dst][b][n] = file[src][b][n]]

\* heap_move: the first image put in the backup is the committed one and stays.
\* When a private heap has no X.new to put away, X.new.kill is left instead.
HeapMoved(b, dst) ==
    LET n == SaveName(b)
    IN  IF file[dst][b][n] # NoFile THEN file
        ELSE IF b \in Priv /\ file["BATDIR"][b][n] = NoFile
             THEN [file EXCEPT ![dst][b]["kill"] = 1]
             ELSE Moved(b, n, "BATDIR", dst)

\* Seeded defect: the backup of a clean bat is not taken into the subcommit.
BugBackedUp(b, sub) ==
    IF bat[b].dirty /\ file["BAKDIR"][b][SaveName(b)] = NoFile
    THEN HeapMoved(b, BackupDir(sub)) ELSE file

\* do_backup.  It also moves a kill file from BAKDIR to SUBDIR, but asks for
\* X.new.new.kill (the suffix is added to an ext that has it), a name nothing
\* creates: that branch never runs.
BackedUp(b, sub) ==
    LET n == SaveName(b)
    IN  IF bat[b].dirty /\ file["BAKDIR"][b][n] = NoFile
        THEN HeapMoved(b, BackupDir(sub))
        ELSE IF sub THEN Moved(b, n, "BAKDIR", "SUBDIR") ELSE file

-----------------------------------------------------------------------------
(* BBPsave, called by BBPfree to unload a dirty bat.                       *)

\* The bat is marked BBPSAVING (sv.bat) and, if it has a delta, BBPSWAPPED.
\* BBPtrim and BBPdecref cannot start one under the locks of TMcommit.
SaveBegin(b) ==
    /\ Up /\ sv.pc = "idle" /\ Free(b) /\ b \in Trimmable
    /\ bat[b].loaded /\ bat[b].dirty /\ (Persistent(b) \/ b \in Held)
    /\ sv' = [pc |-> IF bat[b].status = "EXISTING" THEN "prepare" ELSE "open", bat |-> b]
    /\ bat' = [bat EXCEPT ![b].swapped = @ \/ bat[b].delta]
    /\ BBP_dirty' = (BBP_dirty \/ bat[b].delta)
    /\ UNCHANGED <<disk, counters, oid_dirty, tm, bounds>>

\* Seeded defect: BBPSAVING stays set when BBPprepare fails.
BugSavePrepareStuck ==
    /\ sv.pc = "prepare"
    /\ BBPprepare(FALSE)
    /\ sv' = [sv EXCEPT !.pc = "backup"]
    /\ UNCHANGED <<file, bat, BBP_dirty, oid_dirty, tm, bounds>>

\* BBPbackup gives up when BBPprepare does, and the bat stays in memory.
SavePrepare ==
    /\ sv.pc = "prepare"
    /\ \/ /\ BBPprepare(FALSE)
          /\ sv' = [sv EXCEPT !.pc = "backup"]
       \/ /\ ~CanPrepare(FALSE)
          /\ sv' = NoSave
          /\ UNCHANGED <<bbpdir, counters>>
    /\ UNCHANGED <<file, bat, BBP_dirty, oid_dirty, tm, bounds>>

SaveBackup ==
    /\ sv.pc = "backup"
    /\ file' = BackedUp(sv.bat, FALSE)
    /\ sv' = [sv EXCEPT !.pc = "open"]
    /\ UNCHANGED <<bbpdir, bat, counters, BBP_dirty, oid_dirty, tm, bounds>>

\* BATsave gives the columns an alignment oid and starts writing the heap.
OpenHeap(b) ==
    /\ file' = [file EXCEPT !["BATDIR"][b][SaveName(b)] = Half]
    /\ bat' = [bat EXCEPT ![b].aligned = TRUE]
    /\ oid_dirty' = (oid_dirty \/ ~bat[b].aligned)

SaveOpen ==
    /\ sv.pc = "open"
    /\ OpenHeap(sv.bat)
    /\ sv' = [sv EXCEPT !.pc = "write"]
    /\ UNCHANGED <<bbpdir, counters, BBP_dirty, tm, bounds>>

WrittenHeap(b) == [file EXCEPT !["BATDIR"][b][SaveName(b)] = bat[b].version]

SaveWrite ==
    /\ sv.pc = "write"
    /\ file' = WrittenHeap(sv.bat)
    /\ bat' = [bat EXCEPT ![sv.bat].dirty = FALSE, ![sv.bat].loaded = FALSE]
    /\ sv' = NoSave
    /\ UNCHANGED <<bbpdir, counters, BBP_dirty, oid_dirty, tm, bounds>>

\* GDKsave unlinks a file it could not complete.
Fails == failures < MaxFailures /\ failures' = failures + 1
UnlinkHeap(b) == [file EXCEPT !["BATDIR"][b][SaveName(b)] = NoFile]

\* Seeded defect: the bat is unloaded although it could not be saved.
BugSaveFail ==
    /\ sv.pc = "write"
    /\ Fails
    /\ file' = UnlinkHeap(sv.bat)
    /\ bat' = [bat EXCEPT ![sv.bat].dirty = FALSE, ![sv.bat].loaded = FALSE]
    /\ sv' = NoSave
    /\ UNCHANGED <<bbpdir, counters, BBP_dirty, oid_dirty, tm, version, crashes>>

SaveFail ==
    /\ sv.pc = "write"
    /\ Fails
    /\ file' = UnlinkHeap(sv.bat)
    /\ sv' = NoSave
    /\ UNCHANGED <<bbpdir, bat, counters, BBP_dirty, oid_dirty, tm, version, crashes>>

-----------------------------------------------------------------------------
(* TMcommit and TMsubcommit.                                               *)

\* prelude: BATcommit on the persistent bats that are in memory or swapped
\* out.  BBPlock first waits until no bat is being unloaded.
Prelude(list, sub) ==
    LET committed == {b \in list : Persistent(b) /\ (bat[b].loaded \/ bat[b].swapped)}
    IN  /\ tm.pc \in {"done", "failed"}
        /\ sub \/ sv.pc = "idle"
        /\ bat' = [b \in Bats |-> IF b \in committed
                      THEN [bat[b] EXCEPT !.delta = FALSE, !.aligned = TRUE] ELSE bat[b]]
        /\ oid_dirty' = (oid_dirty \/ FreshOid \/ \E b \in committed : ~bat[b].aligned)
        /\ tm' = [Idle EXCEPT !.pc = "prepare", !.list = list, !.sub = sub]
        /\ UNCHANGED <<disk, counters, BBP_dirty, sv, bounds>>

TMcommit == Globals /\ Prelude(Bats, FALSE)
TMsubcommit == \E list \in Sublists : Prelude(list, TRUE)

\* TMsubcommit of a bat without rows has an empty list: both loops over the
\* list are skipped.
SyncPrepare ==
    LET bbpdirty == BBP_dirty \/ oid_dirty
    IN  /\ tm.pc = "prepare"
        /\ BBP_dirty' = bbpdirty
        /\ \/ /\ BBPprepare(tm.sub)
              /\ tm' = [tm EXCEPT !.pc = IF tm.list = {} THEN "dir" ELSE "backup",
                                  !.todo = tm.list, !.bbpdirty = bbpdirty]
           \/ /\ ~CanPrepare(tm.sub)
              /\ tm' = [tm EXCEPT !.pc = "failed"]
              /\ UNCHANGED <<bbpdir, counters>>
        /\ UNCHANGED <<file, bat, oid_dirty, sv, bounds>>

\* The bats are handled in the order of their identifiers; dirty_bat waits
\* while another thread is saving the bat.
Current == CHOOSE b \in tm.todo : \A c \in tm.todo : b <= c
Advance(next, todo) ==
    IF tm.todo = {Current} THEN [tm EXCEPT !.pc = next, !.todo = todo]
    ELSE [tm EXCEPT !.todo = @ \ {Current}]

\* Seeded defect: only bats that were swapped out are backed up.
BugSyncBackup ==
    /\ tm.pc = "backup" /\ sv.bat # Current
    /\ file' = IF bat[Current].status = "EXISTING" /\ bat[Current].swapped
               THEN BackedUp(Current, tm.sub) ELSE file
    /\ tm' = Advance("save", tm.list)
    /\ UNCHANGED <<bbpdir, bat, counters, BBP_dirty, oid_dirty, sv, bounds>>

SyncBackup ==
    /\ tm.pc = "backup" /\ sv.bat # Current
    /\ file' = IF /\ bat[Current].status = "EXISTING"
                  /\ bat[Current].loaded \/ bat[Current].swapped
               THEN BackedUp(Current, tm.sub) ELSE file
    /\ tm' = Advance("save", tm.list)
    /\ UNCHANGED <<bbpdir, bat, counters, BBP_dirty, oid_dirty, sv, bounds>>

\* Seeded defect: bats that are new in this commit are not saved.
BugSyncSave ==
    /\ tm.pc = "save" /\ sv.bat # Current
    /\ IF bat[Current].status = "EXISTING" /\ bat[Current].dirty
       THEN /\ OpenHeap(Current)
            /\ tm' = [tm EXCEPT !.pc = "write"]
       ELSE /\ tm' = Advance("dir", {})
            /\ UNCHANGED <<file, bat, oid_dirty>>
    /\ UNCHANGED <<bbpdir, counters, BBP_dirty, sv, bounds>>

SyncSave ==
    /\ tm.pc = "save" /\ sv.bat # Current
    /\ IF Persistent(Current) /\ bat[Current].dirty
       THEN /\ OpenHeap(Current)
            /\ tm' = [tm EXCEPT !.pc = "write"]
       ELSE /\ tm' = Advance("dir", {})
            /\ UNCHANGED <<file, bat, oid_dirty>>
    /\ UNCHANGED <<bbpdir, counters, BBP_dirty, sv, bounds>>

SyncWrite ==
    /\ tm.pc = "write"
    /\ file' = WrittenHeap(Current)
    /\ bat' = [bat EXCEPT ![Current].dirty = FALSE]
    /\ tm' = [Advance("dir", {}) EXCEPT !.pc = IF @ = "write" THEN "save" ELSE @]
    /\ UNCHANGED <<bbpdir, counters, BBP_dirty, oid_dirty, sv, bounds>>

SyncWriteFail ==
    /\ tm.pc = "write"
    /\ Fails
    /\ file' = UnlinkHeap(Current)
    /\ tm' = [tm EXCEPT !.pc = "failed", !.error = TRUE]
    /\ UNCHANGED <<bbpdir, bat, counters, BBP_dirty, oid_dirty, sv, version, crashes>>

\* BBP.dir is written anew when something was marked dirty (the header has
\* the oid counter: it counts as flushed), else the old one is moved back.
SyncDir ==
    LET src == IF backup_dir = 1 THEN "BAKDIR" ELSE "SUBDIR"
    IN  /\ tm.pc = "dir"
        /\ \/ /\ tm.bbpdirty
              /\ bbpdir' = [bbpdir EXCEPT !["BATDIR"] = HalfDir]
              /\ oid_dirty' = FALSE
              /\ tm' = [tm EXCEPT !.pc = "dirwrite"]
              /\ UNCHANGED backup_dir
           \/ /\ ~tm.bbpdirty
              /\ bbpdir' = [bbpdir EXCEPT !["BATDIR"] = bbpdir[src], ![src] = NoDir]
              /\ backup_dir' = 0
              /\ tm' = [tm EXCEPT !.pc = "rename"]
              /\ UNCHANGED oid_dirty
        /\ UNCHANGED <<file, bat, backup_files, backup_subdir, BBP_dirty, sv, bounds>>

\* Seeded defect: the current entry of every persistent bat is written.
BugNewDir == [b \in Bats |-> IF Persistent(b) THEN bat[b].version ELSE 0]

\* BBPdir, BBPdir_subcommit: the entries of the bats in the list are the
\* current ones, the others are copied from the backup of BBP.dir.
NewDir ==
    LET old == IF bbpdir["SUBDIR"] # NoDir THEN bbpdir["SUBDIR"] ELSE bbpdir["BAKDIR"]
    IN  [b \in Bats |-> IF b \notin tm.list THEN old[b]
                        ELSE IF Persistent(b) THEN bat[b].version ELSE 0]

SyncDirWrite ==
    /\ tm.pc = "dirwrite"
    /\ bbpdir' = [bbpdir EXCEPT !["BATDIR"] = NewDir]
    /\ tm' = [tm EXCEPT !.pc = "rename"]
    /\ UNCHANGED <<file, bat, counters, BBP_dirty, oid_dirty, sv, bounds>>

SyncDirFail ==
    /\ tm.pc = "dirwrite"
    /\ Fails
    /\ tm' = [tm EXCEPT !.pc = "failed", !.error = TRUE]
    /\ UNCHANGED <<disk, bat, counters, BBP_dirty, oid_dirty, sv, version, crashes>>

\* Seeded defect: a subcommit renames BAKDIR.
BugSyncRename ==
    /\ tm.pc = "rename"
    /\ file' = [d \in Dirs |-> IF d # "BATDIR" THEN EmptyDir ELSE file[d]]
    /\ bbpdir' = [d \in Dirs |-> IF d # "BATDIR" THEN NoDir ELSE bbpdir[d]]
    /\ tm' = [tm EXCEPT !.pc = "aftermath"]
    /\ UNCHANGED <<bat, counters, BBP_dirty, oid_dirty, sv, bounds>>

\* The atomic switch.  SUBDIR is a directory in BAKDIR and goes with it.
SyncRename ==
    /\ tm.pc = "rename"
    /\ file' = [d \in Dirs |-> IF d = "SUBDIR" \/ d = BackupDir(tm.sub) THEN EmptyDir ELSE file[d]]
    /\ bbpdir' = [d \in Dirs |-> IF d = "SUBDIR" \/ d = BackupDir(tm.sub) THEN NoDir ELSE bbpdir[d]]
    /\ tm' = [tm EXCEPT !.pc = "aftermath"]
    /\ UNCHANGED <<bat, counters, BBP_dirty, oid_dirty, sv, bounds>>

\* Seeded defect: backup_dir is not reset.
BugSyncAftermath ==
    /\ tm.pc = "aftermath"
    /\ BBP_dirty' = FALSE
    /\ backup_files' = tm.sub
    /\ backup_subdir' = FALSE
    /\ tm' = [tm EXCEPT !.pc = "again"]
    /\ UNCHANGED <<disk, bat, backup_dir, oid_dirty, sv, bounds>>

\* A subcommit keeps the count of the files that are still in BAKDIR, at
\* least the one of the BBPprepare at the start.
SyncAftermath ==
    /\ tm.pc = "aftermath"
    /\ BBP_dirty' = FALSE
    /\ backup_files' = tm.sub
    /\ backup_dir' = 0
    /\ backup_subdir' = FALSE
    /\ tm' = [tm EXCEPT !.pc = "again"]
    /\ UNCHANGED <<disk, bat, oid_dirty, sv, bounds>>

\* The BBPprepare(0) at the end; its result is ignored.
SyncAgain ==
    /\ tm.pc = "again"
    /\ \/ BBPprepare(FALSE)
       \/ ~CanPrepare(FALSE) /\ UNCHANGED <<bbpdir, counters>>
    /\ tm' = [tm EXCEPT !.pc = "epilogue"]
    /\ UNCHANGED <<file, bat, BBP_dirty, oid_dirty, sv, bounds>>

\* Seeded defect: a new bat stays marked NEW.
BugEpilogue ==
    LET dropped == {b \in tm.list : bat[b].status = "DELETED" /\ b \notin Held}
        after(b) == IF bat[b].status = "DELETED" THEN "TRANSIENT" ELSE bat[b].status
    IN  /\ tm.pc = "epilogue"
        /\ bat' = [b \in Bats |->
               IF b \in dropped THEN FreeSlot
               ELSE IF b \in tm.list
                    THEN [bat[b] EXCEPT !.status = after(b), !.swapped = FALSE]
                    ELSE bat[b]]
        /\ file' = [file EXCEPT !["BATDIR"] =
               [b \in Bats |-> IF b \in dropped THEN EmptyDir[b] ELSE @[b]]]
        /\ tm' = Idle
        /\ UNCHANGED <<bbpdir, counters, BBP_dirty, oid_dirty, sv, bounds>>

\* epilogue: what is persistent now exists, what was dropped and is not in
\* use is deleted with its files.
Epilogue ==
    LET dropped == {b \in tm.list : bat[b].status = "DELETED" /\ b \notin Held}
        after(b) == IF Persistent(b) THEN "EXISTING"
                    ELSE IF bat[b].status = "DELETED" THEN "TRANSIENT" ELSE bat[b].status
    IN  /\ tm.pc = "epilogue"
        /\ bat' = [b \in Bats |->
               IF b \in dropped THEN FreeSlot
               ELSE IF b \in tm.list
                    THEN [bat[b] EXCEPT !.status = after(b), !.swapped = FALSE]
                    ELSE bat[b]]
        /\ file' = [file EXCEPT !["BATDIR"] =
               [b \in Bats |-> IF b \in dropped THEN EmptyDir[b] ELSE @[b]]]
        /\ tm' = Idle
        /\ UNCHANGED <<bbpdir, counters, BBP_dirty, oid_dirty, sv, bounds>>

-----------------------------------------------------------------------------
(* A crash, and the recovery that BBPinit runs at the next start.          *)

Crash ==
    /\ crashes < MaxCrashes /\ crashes' = crashes + 1
    /\ bat' = [b \in Bats |-> FreeSlot]
    /\ backup_files' = FALSE /\ backup_subdir' = FALSE /\ backup_dir' = 0
    /\ BBP_dirty' = FALSE /\ oid_dirty' = FALSE
    /\ tm' = [Idle EXCEPT !.pc = "subdir"]
    /\ sv' = NoSave
    /\ UNCHANGED <<disk, version, failures>>

Entries(d) == {e \in Bats \X Names : file[d][e[1]][e[2]] # NoFile}

\* Seeded defect: BBP.dir is copied to BAKDIR and not moved.
BugRecoverSubdir ==
    /\ tm.pc = "subdir"
    /\ \/ \E e \in Entries("SUBDIR") :
             /\ file' = Moved(e[1], e[2], "SUBDIR", "BAKDIR")
             /\ UNCHANGED bbpdir
       \/ /\ bbpdir["SUBDIR"] # NoDir
          /\ bbpdir' = [bbpdir EXCEPT !["BAKDIR"] = bbpdir["SUBDIR"]]
          /\ UNCHANGED file
    /\ UNCHANGED <<bat, counters, BBP_dirty, oid_dirty, tm, sv, bounds>>

\* BBPrecover_subdir moves everything from SUBDIR to its parent BAKDIR.
RecoverSubdir ==
    /\ tm.pc = "subdir"
    /\ \/ \E e \in Entries("SUBDIR") :
             /\ file' = Moved(e[1], e[2], "SUBDIR", "BAKDIR")
             /\ UNCHANGED bbpdir
       \/ /\ bbpdir["SUBDIR"] # NoDir
          /\ bbpdir' = [bbpdir EXCEPT !["SUBDIR"] = NoDir, !["BAKDIR"] = bbpdir["SUBDIR"]]
          /\ UNCHANGED file
    /\ UNCHANGED <<bat, counters, BBP_dirty, oid_dirty, tm, sv, bounds>>

\* Seeded defect: the BBP.dir of BATDIR is preferred.
BugRecoverDir ==
    LET dir == IF bbpdir["BATDIR"] \notin {NoDir, HalfDir} THEN bbpdir["BATDIR"]
               ELSE bbpdir["BAKDIR"]
    IN  /\ tm.pc = "subdir"
        /\ Entries("SUBDIR") = {} /\ bbpdir["SUBDIR"] = NoDir
        /\ bbpdir' = [bbpdir EXCEPT !["BATDIR"] = dir, !["BAKDIR"] = NoDir]
        /\ bat' = [b \in Bats |-> IF dir[b] = 0 THEN FreeSlot ELSE OnDisk(dir[b])]
        /\ oid_dirty' = TRUE
        /\ tm' = [tm EXCEPT !.pc = "recover"]
        /\ UNCHANGED <<file, counters, BBP_dirty, sv, bounds>>

\* recover_dir: the BBP.dir of BAKDIR, if there is one, is the one to use.
\* BBPreadEntries then makes the bats it lists known.  OIDbase sets the oid
\* counter and not GDKflushed, so the first commit finds OIDdirty.
RecoverDir ==
    LET dir == IF bbpdir["BAKDIR"] # NoDir THEN bbpdir["BAKDIR"] ELSE bbpdir["BATDIR"]
    IN  /\ tm.pc = "subdir"
        /\ Entries("SUBDIR") = {} /\ bbpdir["SUBDIR"] = NoDir
        /\ dir \notin {NoDir, HalfDir}
        /\ bbpdir' = [bbpdir EXCEPT !["BATDIR"] = dir, !["BAKDIR"] = NoDir]
        /\ bat' = [b \in Bats |-> IF dir[b] = 0 THEN FreeSlot ELSE OnDisk(dir[b])]
        /\ oid_dirty' = TRUE
        /\ tm' = [tm EXCEPT !.pc = "recover"]
        /\ UNCHANGED <<file, counters, BBP_dirty, sv, bounds>>

\* BBPrecover, force_move: the files of unknown bats go to LEFTDIR, X.new.kill
\* removes X.new and then itself, the others return to BATDIR.
RecoverFile ==
    \E e \in Entries("BAKDIR") :
        LET b == e[1]
            n == e[2]
        IN  /\ tm.pc = "recover"
            /\ file' = IF bat[b].status = "none"
                       THEN [file EXCEPT !["BAKDIR"][b][n] = NoFile]
                       ELSE IF n # "kill" THEN Moved(b, n, "BAKDIR", "BATDIR")
                       ELSE IF file["BATDIR"][b]["new"] # NoFile
                            THEN [file EXCEPT !["BATDIR"][b]["new"] = NoFile]
                            ELSE [file EXCEPT !["BAKDIR"][b]["kill"] = NoFile]
            /\ UNCHANGED <<bbpdir, bat, counters, BBP_dirty, oid_dirty, tm, sv, bounds>>

\* The rest of BBPprepare(FALSE): BAKDIR is removed and made again.
RecoverPrepare ==
    /\ tm.pc = "recover" /\ Entries("BAKDIR") = {}
    /\ BBPprepare(FALSE)
    /\ tm' = [tm EXCEPT !.pc = "diskscan"]
    /\ UNCHANGED <<file, bat, BBP_dirty, oid_dirty, sv, bounds>>

\* BBPdiskscan removes the files of bats that are not in BBP.dir.
BBPdiskscan ==
    /\ tm.pc = "diskscan"
    /\ file' = [file EXCEPT !["BATDIR"] =
           [b \in Bats |-> IF bat[b].status = "none" THEN EmptyDir[b] ELSE @[b]]]
    /\ tm' = Idle
    /\ UNCHANGED <<bbpdir, bat, counters, BBP_dirty, oid_dirty, sv, bounds>>

-----------------------------------------------------------------------------
\* A database that was just started, with a committed image of every initial
\* bat; BBPprepare has put BBP.dir in BAKDIR.
Init ==
    /\ file = [d \in Dirs |-> [b \in Bats |-> [n \in Names |->
                  IF d = "BATDIR" /\ b \in Initial /\ n = "X" THEN 1 ELSE NoFile]]]
    /\ bbpdir = [d \in Dirs |-> IF d = "BAKDIR"
                    THEN [b \in Bats |-> IF b \in Initial THEN 1 ELSE 0] ELSE NoDir]
    /\ bat = [b \in Bats |-> IF b \in Initial THEN OnDisk(1) ELSE FreeSlot]
    /\ backup_files = TRUE /\ backup_subdir = FALSE /\ backup_dir = 1
    /\ BBP_dirty = FALSE /\ oid_dirty = TRUE
    /\ tm = Idle /\ sv = NoSave
    /\ version = 1 /\ failures = 0 /\ crashes = 0

Client == \E b \in Bats : \/ Create(b) \/ Update(b) \/ MakeTransient(b)
                          \/ MakePersistent(b) \/ Load(b) \/ SaveBegin(b)
SaveStep == SavePrepare \/ SaveBackup \/ SaveOpen \/ SaveWrite \/ SaveFail
SyncStep == \/ SyncPrepare \/ SyncBackup \/ SyncSave \/ SyncWrite \/ SyncWriteFail
            \/ SyncDir \/ SyncDirWrite \/ SyncDirFail \/ SyncRename
            \/ SyncAftermath \/ SyncAgain \/ Epilogue
RecoverStep == RecoverSubdir \/ RecoverDir \/ RecoverFile \/ RecoverPrepare \/ BBPdiskscan

Next == Client \/ TMcommit \/ TMsubcommit \/ SaveStep \/ SyncStep \/ RecoverStep \/ Crash

\* A thread that is in BBPsave, in BBPsync or in BBPinit keeps running.
Fairness == WF_vars(SaveStep) /\ WF_vars(SyncStep) /\ WF_vars(RecoverStep)

Spec == Init /\ [][Next]_vars
FairSpec == Spec /\ Fairness

-----------------------------------------------------------------------------
(* What a restart would make of the disk as it is now.                     *)

Backup(b, n) == IF file["SUBDIR"][b][n] # NoFile THEN file["SUBDIR"][b][n]
                ELSE file["BAKDIR"][b][n]
Restored(b, n) == IF Backup(b, n) # NoFile THEN Backup(b, n) ELSE file["BATDIR"][b][n]

RecoveredDir == IF bbpdir["SUBDIR"] # NoDir THEN bbpdir["SUBDIR"]
                ELSE IF bbpdir["BAKDIR"] # NoDir THEN bbpdir["BAKDIR"]
                ELSE bbpdir["BATDIR"]
\* The heap that HEAPload would read after the recovery.
RecoveredHeap(b) ==
    IF Backup(b, "new") # NoFile THEN Backup(b, "new")
    ELSE IF Backup(b, "kill") = NoFile /\ file["BATDIR"][b]["new"] # NoFile
         THEN file["BATDIR"][b]["new"]
         ELSE Restored(b, "X")

\* The checkpoint on disk, with -1 for a bat whose heap is not the one that
\* its entry in BBP.dir describes.
Recovered == [b \in Bats |-> IF RecoveredDir[b] \in {0, RecoveredHeap(b)}
                             THEN RecoveredDir[b] ELSE -1]

\* The persistent bats as the program has them.
Visible == [b \in Bats |-> IF Persistent(b) THEN bat[b].version ELSE 0]

\* The variables have their types: directories hold files of existing versions,
\* and the steps of commits, saves and restarts are in their sequences.
TypeOK ==
    /\ file \in [Dirs -> [Bats -> [Names -> Versions \cup {NoFile, Half}]]]
    /\ bbpdir \in [Dirs -> {NoDir, HalfDir} \cup [Bats -> Versions \cup {0}]]
    /\ bat \in [Bats -> [status : Statuses, version : Versions \cup {0},
                         loaded : BOOLEAN, dirty : BOOLEAN, delta : BOOLEAN,
                         swapped : BOOLEAN, aligned : BOOLEAN]]
    /\ backup_files \in BOOLEAN /\ backup_subdir \in BOOLEAN /\ backup_dir \in 0 .. 2
    /\ BBP_dirty \in BOOLEAN /\ oid_dirty \in BOOLEAN
    /\ tm \in [pc : {"done", "failed", "prepare", "backup", "save", "write", "dir",
                     "dirwrite", "rename", "aftermath", "again", "epilogue",
                     "subdir", "recover", "diskscan"},
               list : SUBSET Bats, sub : BOOLEAN, todo : SUBSET Bats,
               bbpdirty : BOOLEAN, error : BOOLEAN]
    /\ sv \in [pc : {"idle", "prepare", "backup", "open", "write"}, bat : Bats \cup {None}]
    /\ version \in Versions /\ failures \in 0 .. MaxFailures /\ crashes \in 0 .. MaxCrashes

\* Whenever the server stops, the restart finds a heap file for every bat of
\* BBP.dir and it is the one the entry describes: the images that commits and
\* BBPsave overwrite were put away first, and are put back.
Recoverable == \A b \in Bats : Recovered[b] # -1 /\ RecoveredDir[b] >= 0

\* When BBPsync has made the switch and TMcommit or TMsubcommit is about to
\* return success, the checkpoint on disk holds the state that the bats of the
\* list had.
CommitIsDurable ==
    tm.pc \in {"aftermath", "again", "epilogue"} =>
        \A b \in tm.list : Recovered[b] = Visible[b]

\* A bat that was unloaded can be loaded again: the image HEAPload will pick
\* in BATDIR is complete and holds the version the descriptor tells of.
ImageIsCurrent ==
    \A b \in Bats : Up /\ Persistent(b) /\ ~bat[b].loaded =>
        bat[b].version = IF file["BATDIR"][b]["new"] # NoFile
                         THEN file["BATDIR"][b]["new"] ELSE file["BATDIR"][b]["X"]

\* backup_dir tells where the old BBP.dir is, as the comment at BBPprepare has
\* it: 0, there is no backup of it; 1, in BAKDIR; 2, in SUBDIR.
BackupDirTells ==
    Up /\ tm.pc # "aftermath" =>
        /\ (backup_dir = 1) = (bbpdir["BAKDIR"] # NoDir)
        /\ (backup_dir = 2) = (bbpdir["SUBDIR"] # NoDir)

\* Outside of the last steps of a commit the status bits tell which bats are in
\* the last checkpoint (gdk_bbp.h): exactly those EXISTING or DELETED.
StatusTells ==
    Up /\ tm.pc \notin {"aftermath", "again", "epilogue"} =>
        \A b \in Bats : (bat[b].status \in {"EXISTING", "DELETED"}) = (RecoveredDir[b] # 0)

\* A commit fails only because something could not be written.
FailsOnlyOnError == tm.pc = "failed" => tm.error

\* The protocol implements the abstract store: the durable checkpoint changes
\* in the renaming of the backup directory only, to the state of the bats of
\* the list, and a restart brings back the last checkpoint.
Store == INSTANCE Checkpoint WITH
            Lists <- Sublists \cup {Bats}, Versions <- Versions,
            db <- Recovered, cur <- IF Up THEN Visible ELSE Recovered
IsAtomic == Store!Spec

\* A commit ends and a restart completes: no thread waits for another forever.
CommitEnds == Committing ~> (~Committing)
RestartEnds == (~Up) ~> Up
=============================================================================
