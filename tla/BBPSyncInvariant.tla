-------------------------- MODULE BBPSyncInvariant ---------------------------
(***************************************************************************)
(* The inductive invariant of the commit protocol of the BAT buffer pool   *)
(* (BBPSync), and the steps of the program, of BBPsave, of a crash and of  *)
(* the restart.  The commit itself is in BBPSyncProofs.                    *)
(*                                                                         *)
(* The invariant speaks of one bat at a time.  BatOK(b) relates the files  *)
(* of b in the three directories, the record of b in memory, the entry of  *)
(* b in the BBP.dir a restart would use and the stage that the commit or   *)
(* the restart has reached with b.  It is an operator on these values: a   *)
(* step that changes none of them for b keeps BatOK(b), and what a step    *)
(* does to the one bat it is about is a lemma on values.                   *)
(***************************************************************************)
EXTENDS BBPSync, TLAPS

\* The configurations that the theorems are about.  Each clause leaves out cases
\* in which the code breaks one of the properties: a bat that is held, or that
\* has a private heap, is unloaded while it is dirty; a write fails while a heap
\* is private; and subcommits meet a failed commit, a commit that finds nothing
\* dirty, or a dropped bat that was unloaded.
Covered ==
    /\ Held \cap Trimmable = {} /\ Priv \cap Trimmable = {}
    /\ Priv # {} => MaxFailures = 0
    /\ Sublists # {} => /\ MaxFailures = 0 /\ FreshOid
                        /\ Droppable \cap Trimmable = {}

-----------------------------------------------------------------------------
(* The values of one bat.                                                  *)

FileValues == Versions \cup {NoFile, Half}
Cells == [Dirs -> [Names -> FileValues]]
Records == [status : Statuses, version : Versions \cup {0}, loaded : BOOLEAN,
            dirty : BOOLEAN, delta : BOOLEAN, swapped : BOOLEAN, aligned : BOOLEAN]
Entry == Versions \cup {0}

\* The files of b, by directory and name.
FilesOf(b) == [d \in Dirs |-> file[d][b]]

\* The stages of a bat: not in a commit ("free"), in the list and not yet put
\* away ("listed"), put away by a global commit or a subcommit, saved after that,
\* and in the last steps after the rename.  In a restart, the step it is at.
Live == {"free", "listed", "put", "subput", "saved", "subsaved", "last"}
SubPut == {"subput", "subsaved"}
GlobalPut == {"put", "saved"}
Restart == {"subdir", "recover", "diskscan"}
Stages == Live \cup Restart

Stage(b) ==
    IF ~Up THEN tm.pc
    ELSE IF ~Committing \/ b \notin tm.list THEN "free"
    ELSE IF tm.pc = "prepare" \/ (tm.pc = "backup" /\ b \in tm.todo) THEN "listed"
    ELSE IF tm.pc = "backup" \/ (tm.pc \in {"save", "write"} /\ b \in tm.todo)
         THEN IF tm.sub THEN "subput" ELSE "put"
    ELSE IF tm.pc \in {"save", "write", "dir", "dirwrite", "rename"}
         THEN IF tm.sub THEN "subsaved" ELSE "saved"
    ELSE "last"

\* The persistent bats, and what the program sees of a bat.
Lasting(r) == r.status \in {"NEW", "EXISTING"}
Shown(r) == IF Lasting(r) THEN r.version ELSE 0
\* No file is left in d; what a restart finds of the files put away; the heap it
\* ends up with; and the image that HEAPload picks in BATDIR.
Gone(f, d) == f[d]["X"] = NoFile /\ f[d]["new"] = NoFile /\ f[d]["kill"] = NoFile
Kept(f, n) == IF f["SUBDIR"][n] # NoFile THEN f["SUBDIR"][n] ELSE f["BAKDIR"][n]
Heap(f) ==
    IF Kept(f, "new") # NoFile THEN Kept(f, "new")
    ELSE IF Kept(f, "kill") = NoFile /\ f["BATDIR"]["new"] # NoFile THEN f["BATDIR"]["new"]
    ELSE IF Kept(f, "X") # NoFile THEN Kept(f, "X") ELSE f["BATDIR"]["X"]
Image(f) == IF f["BATDIR"]["new"] # NoFile THEN f["BATDIR"]["new"] ELSE f["BATDIR"]["X"]

\* Only private heaps are written beside the old one, as X.new.
Layout(b, f) ==
    /\ b \notin Priv => \A d \in Dirs : f[d]["new"] = NoFile /\ f[d]["kill"] = NoFile
    /\ b \in Priv => /\ f["BAKDIR"]["X"] = NoFile /\ f["SUBDIR"]["X"] = NoFile
                     /\ Kept(f, "new") # NoFile => Kept(f, "kill") = NoFile
\* The committed heap is there.
HeapKept(f, v) == v # 0 => Heap(f) = v
\* A clean bat can be loaded again.
ImageKept(f, r, s) ==
    s \notin {"subdir", "recover"} /\ r.status # "none" /\ ~r.dirty => Image(f) = r.version
RecordOK(b, r, s) ==
    /\ r.status = "none" => r = FreeSlot
    /\ r.status # "none" => r.version # 0
    /\ Lasting(r) /\ r.dirty => r.loaded
    /\ r.status \in {"DELETED", "TRANSIENT"} => b \in Droppable
    /\ s \in {"saved", "subsaved", "last"} /\ Lasting(r) => ~r.dirty
\* The status bits tell what is committed, and only committed heaps are put away.
Known(f, r, v, s) == s \in Live \ {"last"} =>
    /\ (r.status \in {"EXISTING", "DELETED"}) <=> (v # 0)
    /\ r.status \in {"none", "NEW", "TRANSIENT"} => Gone(f, "BAKDIR") /\ Gone(f, "SUBDIR")
\* After the rename the entry is the current one.
Switched(f, r, v, s) == s = "last" =>
    v = Shown(r) /\ Gone(f, "BAKDIR") /\ Gone(f, "SUBDIR")
\* What is put away, and in which directory.
PutAway(b, f, r, s) ==
    /\ s \in SubPut \cup GlobalPut /\ r.status = "EXISTING" /\ r.dirty =>
          Kept(f, SaveName(b)) # NoFile \/ Kept(f, "kill") # NoFile
    /\ s \in SubPut => Gone(f, "BAKDIR")
    /\ s \in Live \ SubPut => Gone(f, "SUBDIR")
    /\ s \in Live \ GlobalPut /\ b \notin Trimmable /\ MaxFailures = 0 => Gone(f, "BAKDIR")
\* Subcommits put a bat away that is loaded or was swapped out: one whose heap
\* is in BAKDIR is, and a dirty bat has a delta.
Swapping(f, r, s) == Sublists # {} /\ s \in Live =>
    /\ r.status = "EXISTING" /\ ~Gone(f, "BAKDIR") => r.loaded \/ r.swapped
    /\ r.dirty /\ (s = "free" \/ ~Lasting(r)) => r.delta
\* How far a restart has come.
Restarting(f, r, v, s) ==
    /\ s = "subdir" => r = FreeSlot
    /\ s \in {"recover", "diskscan"} =>
          /\ IF v = 0 THEN r.status = "none"
             ELSE r.status = "EXISTING" /\ r.version = v /\ ~r.dirty
          /\ Gone(f, "SUBDIR")
    /\ s = "diskscan" => Gone(f, "BAKDIR")

Ok(b, f, r, v, s) ==
    /\ Layout(b, f) /\ HeapKept(f, v) /\ ImageKept(f, r, s) /\ RecordOK(b, r, s)
    /\ Known(f, r, v, s) /\ Switched(f, r, v, s) /\ PutAway(b, f, r, s)
    /\ Swapping(f, r, s) /\ Restarting(f, r, v, s)

BatOK(b) == Ok(b, FilesOf(b), bat[b], RecoveredDir[b], Stage(b))

-----------------------------------------------------------------------------
(* What the steps do to the values of one bat.                             *)


\* The epilogue leaves a free slot of the BBP as it is.
LEMMA FreeSlotAgain == [FreeSlot EXCEPT !.status = "none", !.swapped = FALSE] = FreeSlot
  <1>1. FreeSlot.status = "none" /\ FreeSlot.swapped = FALSE
    BY Zenon DEF FreeSlot
  <1>2. FreeSlot = [FreeSlot EXCEPT !.status = FreeSlot.status, !.swapped = FreeSlot.swapped]
    BY Zenon DEF FreeSlot
  <1>3. QED
    BY <1>1, <1>2, Zenon

USE BoundsAssumption DEF Covered, Ok, Layout, HeapKept, ImageKept, RecordOK, Known,
    Switched, PutAway, Swapping, Restarting, Live, SubPut, GlobalPut, Restart, Stages, Lasting, Shown,
    Gone, Kept, Heap, Image, SaveName, BackupDir, Dirs, Names, NoFile, Half, Cells,
    FileValues, Records, Entry, Versions, Statuses, FreeSlot, OnDisk

\* do_backup of a bat by a commit: its files f become g.
PutsAway(b, f, g, r, sub) ==
    LET n == SaveName(b)
        dst == BackupDir(sub)
        away == r.status = "EXISTING" /\ (r.loaded \/ r.swapped)
        move == r.dirty /\ f["BAKDIR"][n] = NoFile /\ f[dst][n] = NoFile
    IN  \A d \in Dirs, m \in Names : g[d][m] =
          IF away /\ move /\ b \in Priv /\ f["BATDIR"][n] = NoFile
          THEN IF d = dst /\ m = "kill" THEN 1 ELSE f[d][m]
          ELSE IF away /\ move /\ m = n
          THEN IF d = dst THEN f["BATDIR"][n] ELSE IF d = "BATDIR" THEN NoFile ELSE f[d][m]
          ELSE IF away /\ ~(r.dirty /\ f["BAKDIR"][n] = NoFile) /\ sub /\ m = n
          THEN IF d = "SUBDIR" THEN IF f["BAKDIR"][n] # NoFile THEN f["BAKDIR"][n] ELSE f["SUBDIR"][n]
               ELSE IF d = "BAKDIR" THEN NoFile ELSE f[d][m]
          ELSE f[d][m]

OkBackupFact ==
    \A b \in Bats, f \in Cells, g \in Cells, r \in Records, v \in Entry, sub \in BOOLEAN :
      /\ Covered
      /\ sub => Sublists # {}
      /\ Ok(b, f, r, v, "listed")
      /\ PutsAway(b, f, g, r, sub)
      => /\ sub => Ok(b, g, r, v, "subput")
         /\ ~sub => Ok(b, g, r, v, "put")

\* BBPsync puts the heap of a listed bat away (BBPbackup) before it is saved.
LEMMA OkBackup == OkBackupFact
  BY DEF OkBackupFact, PutsAway

OkCreateFact ==
    \A b \in Bats, f \in Cells, r \in Records, v \in Entry, w \in Versions :
      /\ Covered
      /\ Ok(b, f, r, v, "free")
      /\ r.status = "none"
      => Ok(b, f, [FreeSlot EXCEPT !.status = "NEW", !.version = w, !.loaded = TRUE,
                      !.dirty = TRUE, !.delta = TRUE, !.aligned = FALSE], v, "free")

\* A new bat in a free slot.
LEMMA OkCreate == OkCreateFact
  BY DEF OkCreateFact

OkUpdateFact ==
    \A b \in Bats, f \in Cells, r \in Records, v \in Entry, w \in Versions :
      /\ Covered
      /\ Ok(b, f, r, v, "free")
      /\ r.loaded
      => Ok(b, f, [r EXCEPT !.version = w, !.dirty = TRUE, !.delta = TRUE,
                            !.aligned = FALSE], v, "free")

\* An update of a bat that no commit has listed.
LEMMA OkUpdate == OkUpdateFact
  BY DEF OkUpdateFact

OkTransientFact ==
    \A b \in Bats, f \in Cells, r \in Records, v \in Entry :
      /\ Covered
      /\ Ok(b, f, r, v, "free")
      /\ r.loaded
      /\ Lasting(r)
      /\ b \in Droppable
      => /\ r.status = "EXISTING" =>
              Ok(b, f, [r EXCEPT !.status = "DELETED", !.loaded = b \in Held], v, "free")
         /\ r.status = "NEW" => Ok(b, f, [r EXCEPT !.status = "TRANSIENT"], v, "free")

\* BATmode(TRANSIENT) of a persistent bat.
LEMMA OkTransient == OkTransientFact
  BY DEF OkTransientFact

OkDestroyFact ==
    \A b \in Bats, f \in Cells, g \in Cells, r \in Records, v \in Entry :
      /\ Covered
      /\ Ok(b, f, r, v, "free")
      /\ r.status = "NEW"
      /\ \A d \in Dirs, m \in Names : g[d][m] = IF d = "BATDIR" THEN NoFile ELSE f[d][m]
      => Ok(b, g, FreeSlot, v, "free")

\* A new bat that is made transient and that nobody holds is destroyed with its
\* files.
LEMMA OkDestroy == OkDestroyFact
  BY DEF OkDestroyFact

OkPersistentFact ==
    \A b \in Bats, f \in Cells, r \in Records, v \in Entry :
      /\ Covered
      /\ Ok(b, f, r, v, "free")
      /\ r.loaded
      /\ r.status \in {"DELETED", "TRANSIENT"}
      => Ok(b, f, [r EXCEPT !.status = IF r.status = "DELETED" THEN "EXISTING" ELSE "NEW"],
            v, "free")

\* BATmode(PERSISTENT) of a bat that was made transient.
LEMMA OkPersistent == OkPersistentFact
  BY DEF OkPersistentFact

OkLoadFact ==
    \A b \in Bats, f \in Cells, g \in Cells, r \in Records, v \in Entry :
      /\ Covered
      /\ Ok(b, f, r, v, "free")
      /\ Lasting(r)
      /\ ~r.loaded
      /\ \A d \in Dirs, m \in Names : g[d][m] =
            IF d = "BATDIR" /\ f[d]["new"] # NoFile /\ m \in {"X", "new"}
            THEN IF m = "X" THEN f[d]["new"] ELSE NoFile
            ELSE f[d][m]
      => Ok(b, g, [r EXCEPT !.loaded = TRUE], v, "free")

\* HEAPload: a complete X.new takes the place of X.
LEMMA OkLoad == OkLoadFact
  BY DEF OkLoadFact

OkSaveBeginFact ==
    \A b \in Bats, f \in Cells, r \in Records, v \in Entry, w \in BOOLEAN :
      /\ Covered
      /\ Ok(b, f, r, v, "free")
      /\ r.swapped => w
      /\ r.status # "none"
      => Ok(b, f, [r EXCEPT !.swapped = w], v, "free")

\* BBPsave marks a bat with a delta BBPSWAPPED.
LEMMA OkSaveBegin == OkSaveBeginFact
  BY DEF OkSaveBeginFact

OkSaveBackupAt(b, f, g, r, v, s) ==
      /\ Covered
      /\ Ok(b, f, r, v, s)
      /\ b \in Trimmable
      /\ r.status = "EXISTING"
      /\ r.dirty
      /\ r.loaded
      /\ \A d \in Dirs, m \in Names : g[d][m] =
            IF f["BAKDIR"]["X"] = NoFile /\ m = "X"
            THEN IF d = "BAKDIR" THEN f["BATDIR"]["X"]
                 ELSE IF d = "BATDIR" THEN NoFile ELSE f[d][m]
            ELSE f[d][m]
      => Ok(b, g, r, v, s) /\ g["BAKDIR"]["X"] # NoFile

OkSaveBackupFact ==
    \A b \in Bats, f \in Cells, g \in Cells, r \in Records, v \in Entry,
       s \in {"free", "listed"} : OkSaveBackupAt(b, f, g, r, v, s)

\* BBPsave puts the committed heap away; a heap that is there already stays.
LEMMA OkSaveBackup == OkSaveBackupFact
  BY DEF OkSaveBackupFact, OkSaveBackupAt

\* The file that HEAPsave writes is the only one that changes, f becomes g, and
\* the committed heap was put away before.
Overwrites(b, f, g, r, v, s) ==
    /\ b \in Bats /\ f \in Cells /\ g \in Cells /\ r \in Records /\ v \in Entry
    /\ Ok(b, f, r, v, s) /\ Lasting(r) /\ r.dirty
    /\ r.status = "EXISTING" => Kept(f, SaveName(b)) # NoFile \/ Kept(f, "kill") # NoFile
    /\ \A d \in Dirs, m \in Names : ~(d = "BATDIR" /\ m = SaveName(b)) => g[d][m] = f[d][m]

OkOpenFact ==
    \A b, f, g, r, v, s :
      /\ Covered
      /\ Overwrites(b, f, g, r, v, s)
      /\ s \in {"free", "listed", "put", "subput"}
      /\ g["BATDIR"][SaveName(b)] \in {NoFile, Half}
      => Ok(b, g, [r EXCEPT !.aligned = TRUE], v, s) /\ Ok(b, g, r, v, s)

\* A heap that was put away may be truncated, or unlinked after an error.
LEMMA OkOpen == OkOpenFact
  BY DEF OkOpenFact, Overwrites

OkUnloadedFact ==
    \A b, f, g, r, v, s :
      /\ Covered
      /\ Overwrites(b, f, g, r, v, s)
      /\ s \in {"free", "listed"}
      /\ g["BATDIR"][SaveName(b)] = r.version
      /\ Sublists # {} => r.swapped
      => Ok(b, g, [r EXCEPT !.dirty = FALSE, !.loaded = FALSE], v, s)

\* BBPsave has written the heap and unloads the bat.
LEMMA OkUnloaded == OkUnloadedFact
  BY DEF OkUnloadedFact, Overwrites

OkWrittenFact ==
    \A b, f, g, r, v, s :
      /\ Covered
      /\ Overwrites(b, f, g, r, v, s)
      /\ g["BATDIR"][SaveName(b)] = r.version
      => /\ s = "put" => Ok(b, g, [r EXCEPT !.dirty = FALSE], v, "saved")
         /\ s = "subput" => Ok(b, g, [r EXCEPT !.dirty = FALSE], v, "subsaved")

\* BBPsync has written the heap of a listed bat.
LEMMA OkWritten == OkWrittenFact
  BY DEF OkWrittenFact, Overwrites

\* BATcommit in the prelude: the bat is listed and its delta is empty.
LEMMA OkPrelude ==
    ASSUME Covered, NEW b \in Bats, NEW f \in Cells, NEW r \in Records, NEW v \in Entry,
           Ok(b, f, r, v, "free"), NEW q \in Records,
           q = r \/ (Lasting(r) /\ q = [r EXCEPT !.delta = FALSE, !.aligned = TRUE])
    PROVE  Ok(b, f, q, v, "listed")
<1>1. CASE q = r
  BY <1>1, Zenon
<1>2. CASE Lasting(r) /\ q = [r EXCEPT !.delta = FALSE, !.aligned = TRUE]
  BY <1>2
<1> QED
  BY <1>1, <1>2

OkSkipFact ==
    \A b \in Bats, f \in Cells, r \in Records, v \in Entry :
      /\ Covered
      /\ ~(Lasting(r) /\ r.dirty)
      => /\ Ok(b, f, r, v, "put") => Ok(b, f, r, v, "saved")
         /\ Ok(b, f, r, v, "subput") => Ok(b, f, r, v, "subsaved")

\* BBPsync passes over a bat that is clean or not persistent.
LEMMA OkSkip == OkSkipFact
  BY DEF OkSkipFact

OkFailFact ==
    \A b \in Bats, f \in Cells, r \in Records, v \in Entry, s \in {"put", "saved"} :
      /\ Covered
      /\ MaxFailures > 0
      /\ Ok(b, f, r, v, s)
      => Ok(b, f, r, v, "free")

\* A commit that failed leaves the heaps it has put away where a restart finds
\* them.
LEMMA OkFail == OkFailFact
  BY DEF OkFailFact

OkRenameFact ==
    \A b \in Bats, f \in Cells, g \in Cells, r \in Records, v \in Entry,
       s \in {"saved", "subsaved"} :
      /\ Covered
      /\ Ok(b, f, r, v, s)
      /\ \A d \in Dirs, m \in Names : g[d][m] =
            IF d = "SUBDIR" \/ (d = "BAKDIR" /\ s = "saved") THEN NoFile ELSE f[d][m]
      => Ok(b, g, r, Shown(r), "last")

\* The rename removes the heaps that were put away, and the new entry of the
\* bat counts.
LEMMA OkRename == OkRenameFact
  BY DEF OkRenameFact

OkDroppedFact ==
    \A b \in Bats, f \in Cells, g \in Cells, r \in Records, v \in Entry :
      /\ Covered
      /\ Ok(b, f, r, v, "last")
      /\ r.status = "DELETED"
      /\ \A d \in Dirs, m \in Names : g[d][m] = IF d = "BATDIR" THEN NoFile ELSE f[d][m]
      => Ok(b, g, FreeSlot, v, "free")

\* The epilogue deletes the files of a dropped bat that nobody holds.
LEMMA OkDropped == OkDroppedFact
  BY DEF OkDroppedFact

\* The epilogue marks a bat of the list as what the checkpoint says.
LEMMA OkEpilogue ==
    ASSUME Covered, NEW b \in Bats, NEW f \in Cells, NEW r \in Records, NEW v \in Entry,
           Ok(b, f, r, v, "last"), NEW t \in Statuses,
           t = IF Lasting(r) THEN "EXISTING"
               ELSE IF r.status = "DELETED" THEN "TRANSIENT" ELSE r.status
    PROVE  Ok(b, f, [r EXCEPT !.status = t, !.swapped = FALSE], v, "free")
  <1>1. CASE r.status = "none"
    <2>1. r = FreeSlot /\ t = "none"
      BY <1>1, Zenon
    <2>2. [r EXCEPT !.status = t, !.swapped = FALSE] = r
      BY <2>1, FreeSlotAgain, Zenon
    <2>3. QED
      BY <1>1, <2>2, Zenon
  <1>2. CASE Lasting(r)
    BY <1>2, Zenon
  <1>3. CASE r.status = "DELETED"
    BY <1>3, Zenon
  <1>4. CASE r.status = "TRANSIENT"
    BY <1>4, Zenon
  <1>5. QED
    BY <1>1, <1>2, <1>3, <1>4, Zenon

OkCrashFact ==
    \A b \in Bats, f \in Cells, r \in Records, v \in Entry, s \in Stages :
      /\ Covered
      /\ Ok(b, f, r, v, s)
      => Ok(b, f, FreeSlot, v, "subdir")

\* A crash loses the record and none of the files.
LEMMA OkCrash == OkCrashFact
  BY DEF OkCrashFact

OkRecoverSubdirFact ==
    \A b \in Bats, f \in Cells, g \in Cells, r \in Records, v \in Entry, n \in Names :
      /\ Covered
      /\ Ok(b, f, r, v, "subdir")
      /\ f["SUBDIR"][n] # NoFile
      /\ \A d \in Dirs, m \in Names : g[d][m] =
            IF m = n THEN IF d = "SUBDIR" THEN NoFile
                          ELSE IF d = "BAKDIR" THEN f["SUBDIR"][n] ELSE f[d][m]
            ELSE f[d][m]
      => Ok(b, g, r, v, "subdir")

\* BBPrecover_subdir moves a file of SUBDIR to BAKDIR.
LEMMA OkRecoverSubdir == OkRecoverSubdirFact
  BY DEF OkRecoverSubdirFact

OkRecoverDirFact ==
    \A b \in Bats, f \in Cells, r \in Records, v \in Entry :
      /\ Covered
      /\ Ok(b, f, r, v, "subdir")
      /\ Gone(f, "SUBDIR")
      => Ok(b, f, IF v = 0 THEN FreeSlot ELSE OnDisk(v), v, "recover")

\* recover_dir and BBPreadEntries: the bat is what its entry in BBP.dir says.
LEMMA OkRecoverDir == OkRecoverDirFact
  <1> SUFFICES ASSUME NEW b \in Bats, NEW f \in Cells, NEW r \in Records, NEW v \in Entry,
                      Covered, Ok(b, f, r, v, "subdir"), Gone(f, "SUBDIR")
               PROVE  Ok(b, f, IF v = 0 THEN FreeSlot ELSE OnDisk(v), v, "recover")
    BY DEF OkRecoverDirFact
  <1>1. CASE v = 0
    BY <1>1, Zenon
  <1>2. CASE v # 0
    BY <1>2
  <1>3. QED
    BY <1>1, <1>2, Zenon

\* BBPrecover has dealt with the file n of BAKDIR: the files f become g.
Returned(f, g, r, n) == \A d \in Dirs, m \in Names : g[d][m] =
    IF r.status = "none"
    THEN IF d = "BAKDIR" /\ m = n THEN NoFile ELSE f[d][m]
    ELSE IF n # "kill"
    THEN IF m # n THEN f[d][m]
         ELSE IF d = "BAKDIR" THEN NoFile
         ELSE IF d = "BATDIR" THEN f["BAKDIR"][n] ELSE f[d][m]
    ELSE IF f["BATDIR"]["new"] # NoFile
    THEN IF d = "BATDIR" /\ m = "new" THEN NoFile ELSE f[d][m]
    ELSE IF d = "BAKDIR" /\ m = "kill" THEN NoFile ELSE f[d][m]

OkRecoverFileFact ==
    \A b \in Bats, f \in Cells, g \in Cells, r \in Records, v \in Entry, n \in Names :
      /\ Covered
      /\ Ok(b, f, r, v, "recover")
      /\ f["BAKDIR"][n] # NoFile
      /\ Returned(f, g, r, n)
      => Ok(b, g, r, v, "recover")

\* BBPrecover deals with one file of BAKDIR.
LEMMA OkRecoverFile == OkRecoverFileFact
  BY DEF OkRecoverFileFact, Returned

OkRecoverPrepareFact ==
    \A b \in Bats, f \in Cells, r \in Records, v \in Entry :
      /\ Covered
      /\ Ok(b, f, r, v, "recover")
      /\ Gone(f, "BAKDIR")
      => Ok(b, f, r, v, "diskscan")

\* BBPrecover has emptied BAKDIR: the image in BATDIR is the committed one.
LEMMA OkRecoverPrepare == OkRecoverPrepareFact
  BY DEF OkRecoverPrepareFact

OkDiskscanFact ==
    \A b \in Bats, f \in Cells, g \in Cells, r \in Records, v \in Entry :
      /\ Covered
      /\ Ok(b, f, r, v, "diskscan")
      /\ \A d \in Dirs, m \in Names : g[d][m] =
            IF d = "BATDIR" /\ r.status = "none" THEN NoFile ELSE f[d][m]
      => Ok(b, g, r, v, "free")

\* BBPdiskscan removes the files of a bat that BBP.dir does not have.
LEMMA OkDiskscan == OkDiskscanFact
  BY DEF OkDiskscanFact

HIDE BoundsAssumption DEF Covered, Ok, Layout, HeapKept, ImageKept, RecordOK, Known,
    Switched, PutAway, Swapping, Restarting, Live, SubPut, GlobalPut, Restart, Stages, Lasting, Shown,
    Gone, Kept, Heap, Image, SaveName, BackupDir, Dirs, Names, NoFile, Half, Cells,
    FileValues, Records, Entry, Versions, Statuses, FreeSlot, OnDisk

-----------------------------------------------------------------------------
(* The inductive invariant.                                                *)

\* From BBPprepare to the rename.
Phase == {"backup", "save", "write", "dir", "dirwrite", "rename"}

\* Where the BBP.dir that counts is, and what the counters of BBPprepare say.
DirOK ==
    /\ RecoveredDir \in [Bats -> Entry]
    /\ tm.pc \in {"done", "failed", "prepare", "epilogue", "diskscan"} =>
          /\ backup_files /\ backup_dir = 1
          /\ bbpdir["BAKDIR"] # NoDir /\ bbpdir["SUBDIR"] = NoDir
    /\ tm.pc \in Phase /\ (tm.pc = "rename" => tm.bbpdirty) =>
          /\ backup_files /\ backup_dir = DirMark(tm.sub)
          /\ (bbpdir["BAKDIR"] # NoDir) <=> ~tm.sub
          /\ (bbpdir["SUBDIR"] # NoDir) <=> tm.sub
    /\ tm.pc = "rename" /\ tm.bbpdirty => bbpdir["BATDIR"] = NewDir
    /\ tm.pc = "rename" /\ ~tm.bbpdirty =>
          backup_dir = 0 /\ bbpdir["BAKDIR"] = NoDir /\ bbpdir["SUBDIR"] = NoDir
    /\ tm.pc = "aftermath" =>
          /\ bbpdir["BAKDIR"] = NoDir /\ bbpdir["SUBDIR"] = NoDir
          /\ tm.sub => backup_files /\ backup_dir = 2
    /\ tm.pc = "again" =>
          /\ backup_files <=> tm.sub
          /\ bbpdir["SUBDIR"] = NoDir
          /\ backup_dir = (IF bbpdir["BAKDIR"] = NoDir THEN 0 ELSE 1)
          /\ ~tm.sub => bbpdir["BAKDIR"] = NoDir
    /\ tm.pc \in {"subdir", "recover"} => ~backup_files /\ backup_dir = 0
    /\ tm.pc = "recover" => bbpdir["BAKDIR"] = NoDir /\ bbpdir["SUBDIR"] = NoDir

TmOK ==
    /\ Committing => IF tm.sub THEN tm.list \in Sublists ELSE tm.list = Bats
    /\ tm.pc \in {"backup", "save", "write"} => tm.todo # {} /\ tm.todo \subseteq tm.list
    /\ tm.pc = "write" => Persistent(Current) /\ bat[Current].dirty
    /\ tm.pc = "failed" => tm.error
    /\ tm.pc \in Phase /\ tm.bbpdirty => BBP_dirty
    /\ tm.pc = "dirwrite" => tm.bbpdirty
    /\ Sublists # {} => /\ tm.pc = "prepare" => oid_dirty
                        /\ tm.pc \in Phase => tm.bbpdirty

\* A bat being unloaded is not one that a commit has already put away.
Saving ==
    /\ sv.pc \in {"prepare", "backup", "open", "write"} /\ sv.bat \in Trimmable
    /\ Committing => tm.sub
    /\ Stage(sv.bat) \in {"free", "listed"}
    /\ Persistent(sv.bat) /\ bat[sv.bat].loaded /\ bat[sv.bat].dirty
    /\ Sublists # {} => bat[sv.bat].swapped
    /\ sv.pc \in {"prepare", "backup"} => bat[sv.bat].status = "EXISTING"
    /\ sv.pc \in {"open", "write"} /\ bat[sv.bat].status = "EXISTING" =>
          file["BAKDIR"][sv.bat]["X"] # NoFile
    /\ sv.pc = "write" => bat[sv.bat].aligned
SvOK == sv = NoSave \/ Saving

\* What is not in the checkpoint is marked dirty somewhere, so that the next
\* TMcommit writes BBP.dir.
MarkedDirty(b) ==
    /\ Sublists = {} /\ Up /\ tm.pc \notin Phase /\ RecoveredDir[b] # Shown(bat[b]) =>
          \/ BBP_dirty \/ oid_dirty
          \/ /\ tm.pc \in {"done", "failed"}
             /\ Lasting(bat[b]) /\ bat[b].loaded /\ ~bat[b].aligned
    /\ tm.pc \in Phase /\ ~tm.bbpdirty => RecoveredDir[b] = Shown(bat[b])

IInv == /\ TypeOK /\ DirOK /\ TmOK /\ SvOK
        /\ \A b \in Bats : BatOK(b)
        /\ \A b \in Bats : MarkedDirty(b)

\* Every non-empty set of bats has a least one, which the loops of BBPsync, going
\* up the list, take next.
Ordered == \A S \in SUBSET Bats : S # {} => \E b \in S : \A c \in S : b <= c

\* A step of the action A keeps the invariant, and, some of them, the BBP.dir
\* that counts.
Preserves(A) == Covered /\ Ordered /\ IInv /\ A => IInv'
Keeps(A) == Covered /\ Ordered /\ IInv /\ A => IInv' /\ RecoveredDir' = RecoveredDir

-----------------------------------------------------------------------------
(* The types, part by part.                                                *)

FileType == [Dirs -> [Bats -> [Names -> FileValues]]]
DirType == [Dirs -> {NoDir, HalfDir} \cup [Bats -> Entry]]
TmType == [pc : {"done", "failed", "prepare", "backup", "save", "write", "dir",
                 "dirwrite", "rename", "aftermath", "again", "epilogue",
                 "subdir", "recover", "diskscan"},
           list : SUBSET Bats, sub : BOOLEAN, todo : SUBSET Bats,
           bbpdirty : BOOLEAN, error : BOOLEAN]
SvType == [pc : {"idle", "prepare", "backup", "open", "write"}, bat : Bats \cup {None}]
Flags == /\ backup_files \in BOOLEAN /\ backup_subdir \in BOOLEAN
         /\ BBP_dirty \in BOOLEAN /\ oid_dirty \in BOOLEAN
Numbers ==
    /\ backup_dir \in 0 .. 2
    /\ version \in Versions /\ failures \in 0 .. MaxFailures /\ crashes \in 0 .. MaxCrashes
Types == /\ file \in FileType /\ bbpdir \in DirType /\ bat \in [Bats -> Records]
         /\ tm \in TmType /\ sv \in SvType /\ Flags /\ Numbers

\* The type invariant, in parts.
LEMMA TypeIs == TypeOK <=> Types
  BY Zenon DEF TypeOK, Types, FileType, DirType, FileValues, Entry, Records, TmType, SvType,
     Flags, Numbers

\* The type invariant, in parts, after a step.
LEMMA TypeNext == Types' => TypeOK'
  BY Zenon DEF TypeOK, Types, FileType, DirType, FileValues, Entry, Records, TmType, SvType,
     Flags, Numbers

\* The record of a free slot, and the one BBPreadEntries makes, have their
\* type.
LEMMA RecordsIn ==
    FreeSlot \in Records /\ \A v \in Versions : OnDisk(v) \in Records
  BY Zenon DEF FreeSlot, OnDisk, Records, Statuses

\* A BBP.dir with an entry for every bat is neither missing nor half written.
LEMMA FullDir ==
    /\ \A f \in [Bats -> Entry] : f # NoDir /\ f # HalfDir
    /\ NoDir # HalfDir
  <1>1. PICK b \in Bats : TRUE
    BY BatsAssumption, Zenon
  <1>2. \A f \in [Bats -> Entry] : f[b] # -1 /\ f[b] # -2
    BY <1>1 DEF Entry, Versions
  <1>3. NoDir[b] = -2 /\ HalfDir[b] = -1
    BY <1>1, Zenon DEF NoDir, HalfDir
  <1>4. QED
    BY <1>2, <1>3

\* The loops of BBPsync handle a bat of the list.
LEMMA CurrentIn ==
    ASSUME Ordered, TypeOK, tm.todo # {}
    PROVE  Current \in tm.todo /\ Current \in Bats
  <1>1. tm.todo \subseteq Bats
    BY Zenon DEF TypeOK
  <1>2. \E b \in tm.todo : \A c \in tm.todo : b <= c
    BY <1>1, Zenon DEF Ordered
  <1>3. QED
    BY <1>1, <1>2, Zenon DEF Current

\* A commit or a restart has reached a stage with every bat.
LEMMA StageIn == ASSUME TypeOK, NEW b \in Bats PROVE Stage(b) \in Stages
  BY Zenon DEF TypeOK, Stage, Stages, Live, Restart, Up

ValuesFact ==
    \A b \in Bats :
      /\ TypeOK
      /\ DirOK
      => /\ FilesOf(b) \in Cells /\ bat[b] \in Records
         /\ RecoveredDir[b] \in Entry /\ Stage(b) \in Stages
         /\ \A d \in Dirs, n \in Names : FilesOf(b)[d][n] = file[d][b][n]

\* The files, the record, the entry and the stage of a bat have their types.
LEMMA Values == ValuesFact
  <1> SUFFICES ASSUME NEW b \in Bats, TypeOK, DirOK
               PROVE  /\ FilesOf(b) \in Cells /\ bat[b] \in Records
                      /\ RecoveredDir[b] \in Entry /\ Stage(b) \in Stages
                      /\ \A d \in Dirs, n \in Names : FilesOf(b)[d][n] = file[d][b][n]
    BY Zenon DEF ValuesFact
  <1>1. FilesOf(b) \in Cells
    BY DEF TypeOK, FilesOf, Cells, FileValues
  <1>2. bat[b] \in Records
    BY Zenon DEF TypeOK, Records
  <1>3. RecoveredDir[b] \in Entry
    BY Zenon DEF DirOK
  <1>4. QED
    BY <1>1, <1>2, <1>3, StageIn, Zenon DEF FilesOf

\* A step that changes nothing of a bat.
Same(b) == /\ FilesOf(b)' = FilesOf(b) /\ bat'[b] = bat[b]
           /\ RecoveredDir'[b] = RecoveredDir[b] /\ Stage(b)' = Stage(b)

\* A step that changes nothing of a bat keeps what holds of it.
LEMMA SameKept == ASSUME NEW b, BatOK(b), Same(b) PROVE BatOK(b)'
  BY Zenon DEF Same, BatOK

-----------------------------------------------------------------------------
(* What the invariant says about the properties.                           *)

\* The heap that HEAPload would read after a restart, from the files of one
\* bat.
LEMMA HeapOf ==
    ASSUME TypeOK, NEW b \in Bats
    PROVE  RecoveredHeap(b) = Heap(FilesOf(b))
  BY Zenon DEF RecoveredHeap, Restored, Backup, Heap, Kept, FilesOf, Dirs

\* The checkpoint on disk is what the BBP.dir that counts describes: every heap
\* is there.
LEMMA RecoveredIs ==
    ASSUME IInv
    PROVE  Recovered = RecoveredDir
  <1>1. RecoveredDir \in [Bats -> Entry]
    BY Zenon DEF IInv, DirOK
  <1>2. ASSUME NEW b \in Bats PROVE Recovered[b] = RecoveredDir[b]
    <2>1. HeapKept(FilesOf(b), RecoveredDir[b])
      BY Zenon DEF IInv, BatOK, Ok
    <2>2. RecoveredDir[b] \in {0, RecoveredHeap(b)}
      BY <2>1, HeapOf, Zenon DEF IInv, HeapKept
    <2>3. QED
      BY <2>2, Zenon DEF Recovered
  <1>3. QED
    BY <1>1, <1>2, Zenon DEF Recovered

\* What the program sees of a bat.
LEMMA ShownIs == ASSUME NEW b \in Bats PROVE Visible[b] = Shown(bat[b])
  BY Zenon DEF Visible, Persistent, Shown, Lasting

\* The invariant implies that the checkpoint on disk is whole.
LEMMA InvRecoverable == IInv => Recoverable
  <1>1. SUFFICES ASSUME IInv, NEW b \in Bats
                 PROVE  Recovered[b] # -1 /\ RecoveredDir[b] >= 0
    BY Zenon DEF Recoverable
  <1>2. RecoveredDir[b] \in Entry
    BY <1>1, Zenon DEF IInv, DirOK
  <1>3. QED
    BY <1>1, <1>2, RecoveredIs, BoundsAssumption DEF Entry, Versions

\* The invariant implies that a commit is durable after the rename.
LEMMA InvDurable == IInv => CommitIsDurable
  <1>1. SUFFICES ASSUME IInv, tm.pc \in {"aftermath", "again", "epilogue"}, NEW b \in tm.list
                 PROVE  Recovered[b] = Visible[b]
    BY Zenon DEF CommitIsDurable
  <1>2. b \in Bats
    BY <1>1, Zenon DEF IInv, TypeOK
  <1>3. Stage(b) = "last"
    BY <1>1, Zenon DEF Stage, Up, Committing
  <1>4. RecoveredDir[b] = Shown(bat[b])
    BY <1>1, <1>2, <1>3, Zenon DEF IInv, BatOK, Ok, Switched
  <1>5. QED
    BY <1>1, <1>2, <1>4, RecoveredIs, ShownIs, Zenon

\* The invariant implies that an unloaded bat can be loaded again.
LEMMA InvImage == IInv => ImageIsCurrent
  <1>1. SUFFICES ASSUME IInv, NEW b \in Bats, Up, Persistent(b), ~bat[b].loaded
                 PROVE  bat[b].version = Image(FilesOf(b))
    BY Zenon DEF ImageIsCurrent, Image, FilesOf, Dirs
  <1>2. RecordOK(b, bat[b], Stage(b)) /\ ImageKept(FilesOf(b), bat[b], Stage(b))
    BY <1>1, Zenon DEF IInv, BatOK, Ok
  <1>3. ~bat[b].dirty /\ bat[b].status # "none"
    BY <1>1, <1>2, Zenon DEF RecordOK, Lasting, Persistent
  <1>4. Stage(b) \notin {"subdir", "recover"}
    BY <1>1, Zenon DEF Stage
  <1>5. QED
    BY <1>2, <1>3, <1>4, Zenon DEF ImageKept

\* The invariant implies what the comment at BBPprepare says about backup_dir.
LEMMA InvBackupDir == IInv => BackupDirTells
  <1>1. SUFFICES ASSUME IInv, Up, tm.pc # "aftermath"
                 PROVE  /\ (backup_dir = 1) = (bbpdir["BAKDIR"] # NoDir)
                        /\ (backup_dir = 2) = (bbpdir["SUBDIR"] # NoDir)
    BY Zenon DEF BackupDirTells
  <1>2. QED
    BY <1>1 DEF IInv, DirOK, TypeOK, Phase, DirMark, Up

\* The invariant implies what gdk_bbp.h says about the status bits.
LEMMA InvStatus == IInv => StatusTells
  <1>1. SUFFICES ASSUME IInv, Up, tm.pc \notin {"aftermath", "again", "epilogue"}, NEW b \in Bats
                 PROVE  (bat[b].status \in {"EXISTING", "DELETED"}) = (RecoveredDir[b] # 0)
    BY Zenon DEF StatusTells
  <1>2. Stage(b) \in Live \ {"last"}
    BY <1>1, Zenon DEF IInv, TypeOK, Stage, Live, Up, Committing
  <1>3. QED
    BY <1>1, <1>2 DEF IInv, BatOK, Ok, Known

\* The invariant implies that a commit fails only on an error.
LEMMA InvFails == IInv => FailsOnlyOnError
  BY Zenon DEF IInv, TmOK, FailsOnlyOnError

-----------------------------------------------------------------------------
\* The invariant holds in a database that was just started.
LEMMA InitInv == Covered /\ Init => IInv
  <1>1. SUFFICES ASSUME Covered, Init PROVE IInv
    BY Zenon
  <1> USE BatsAssumption, BoundsAssumption
  <1>2. TypeOK
    <2>1. file \in [Dirs -> [Bats -> [Names -> Versions \cup {NoFile, Half}]]]
      BY <1>1 DEF Init, Versions, NoFile
    <2>2. bbpdir \in [Dirs -> {NoDir, HalfDir} \cup [Bats -> Versions \cup {0}]]
      BY <1>1 DEF Init, Versions
    <2>3. bat \in [Bats -> Records]
      <3>1. OnDisk(1) \in Records /\ FreeSlot \in Records
        BY RecordsIn DEF Versions
      <3>2. QED
        BY <1>1, <3>1, Zenon DEF Init
    <2>4. tm \in TmType /\ sv \in SvType
      BY <1>1, Zenon DEF Init, TmType, SvType, Idle, NoSave, None
    <2>5. Flags
      BY <1>1, Zenon DEF Init, Flags
    <2>6. Numbers
      BY <1>1 DEF Init, Numbers, Versions
    <2>7. QED
      BY <2>1, <2>2, <2>3, <2>4, <2>5, <2>6, TypeIs, Zenon DEF Types, FileType, DirType, FileValues, Entry
  <1>3. bbpdir["BAKDIR"] \in [Bats -> Entry] /\ bbpdir["SUBDIR"] = NoDir
    BY <1>1 DEF Init, Entry, Versions, Dirs
  <1>4. bbpdir["BAKDIR"] # NoDir
    BY <1>3, FullDir, Zenon
  <1>5. RecoveredDir = bbpdir["BAKDIR"] /\ RecoveredDir \in [Bats -> Entry]
    BY <1>3, <1>4, Zenon DEF RecoveredDir
  <1>6. DirOK
    BY <1>1, <1>3, <1>4, <1>5, Zenon DEF DirOK, Init, Idle, Phase
  <1>7. TmOK /\ SvOK
    BY <1>1, Zenon DEF TmOK, SvOK, Init, Idle, Phase, Committing, Up
  <1>8. ASSUME NEW b \in Bats PROVE BatOK(b)
    <2>1. Stage(b) = "free"
      BY <1>1, Zenon DEF Init, Idle, Stage, Up, Committing
    <2>2. RecoveredDir[b] = IF b \in Initial THEN 1 ELSE 0
      BY <1>1, <1>5, Zenon DEF Init, Dirs
    <2>3. \A d \in Dirs, n \in Names : FilesOf(b)[d][n] =
             IF d = "BATDIR" /\ b \in Initial /\ n = "X" THEN 1 ELSE NoFile
      BY <1>1, Zenon DEF FilesOf, Init
    <2>4. bat[b] = IF b \in Initial THEN OnDisk(1) ELSE FreeSlot
      BY <1>1 DEF Init
    <2>5. Ok(b, FilesOf(b), bat[b], RecoveredDir[b], "free")
      BY <2>2, <2>3, <2>4 DEF Ok, Layout, HeapKept, ImageKept, RecordOK, Known, Switched,
         PutAway, Swapping, Restarting, Live, SubPut, GlobalPut, Lasting, Shown, Gone,
         Kept, Heap, Image, Dirs, Names, NoFile, FreeSlot, OnDisk
    <2>6. QED
      BY <2>1, <2>5, Zenon DEF BatOK
  <1>9. ASSUME NEW b \in Bats PROVE MarkedDirty(b)
    BY <1>1, Zenon DEF MarkedDirty, Init, Idle, Phase
  <1>10. QED
    BY <1>2, <1>6, <1>7, <1>8, <1>9, Zenon DEF IInv

-----------------------------------------------------------------------------
(* Steps about one bat that no commit has put away yet: the program above  *)
(* GDK and BBPsave.                                                        *)

OneBat(b) ==
    /\ \A c \in Bats \ {b} : FilesOf(c)' = FilesOf(c) /\ bat'[c] = bat[c]
    /\ bbpdir' = bbpdir /\ tm' = tm
    /\ backup_files' = backup_files /\ backup_dir' = backup_dir
    /\ BBP_dirty => BBP_dirty'
    /\ oid_dirty => oid_dirty'

\* The stages follow the commit and the restart only.
LEMMA SameStage == ASSUME tm' = tm PROVE \A c : Stage(c)' = Stage(c)
  BY Zenon DEF Stage, Up, Committing

OneBatStepFact ==
    \A b \in Bats :
      /\ Ordered
      /\ IInv
      /\ Types'
      /\ OneBat(b)
      /\ Stage(b) \in {"free", "listed"}
      /\ Ok(b, FilesOf(b)', bat'[b], RecoveredDir[b], Stage(b))
      /\ MarkedDirty(b)'
      /\ SvOK'
      => IInv'

\* A step about a bat that no commit has put away yet keeps the invariant.
LEMMA OneBatStep == OneBatStepFact
  <1> SUFFICES ASSUME NEW b \in Bats, Ordered, IInv, Types', OneBat(b),
                      Stage(b) \in {"free", "listed"},
                      Ok(b, FilesOf(b)', bat'[b], RecoveredDir[b], Stage(b)),
                      MarkedDirty(b)', SvOK'
               PROVE  IInv'
    BY Zenon DEF OneBatStepFact
  <1>1. RecoveredDir' = RecoveredDir /\ \A c : Stage(c)' = Stage(c)
    BY SameStage, Zenon DEF OneBat, RecoveredDir
  <1>2. \A c \in Bats : BatOK(c)'
    <2>1. TAKE c \in Bats
    <2>2. CASE c = b
      BY <1>1, <2>2, Zenon DEF BatOK
    <2>3. CASE c # b
      BY <1>1, <2>3, SameKept, Zenon DEF Same, OneBat, IInv
    <2>4. QED
      BY <2>2, <2>3, Zenon
  <1>3. ASSUME NEW c \in tm.list, tm.pc \in {"write", "rename"}
        PROVE  bat'[c] = bat[c] /\ Persistent(c)' = Persistent(c)
    <2>1. c \in Bats /\ c # b
      BY <1>3, Zenon DEF IInv, TypeOK, Stage, Up, Committing
    <2>2. QED
      BY <2>1, Zenon DEF OneBat, Persistent
  <1>4. TmOK'
    <2>1. tm.pc = "write" => Current \in tm.list
      BY CurrentIn, Zenon DEF IInv, TmOK
    <2>2. tm.pc = "write" => bat'[Current] = bat[Current]
      BY <1>3, <2>1, Zenon
    <2>3. Current' = Current
      BY Zenon DEF OneBat, Current
    <2>4. tm.pc = "write" => (Persistent(Current) /\ bat[Current].dirty)'
      BY <2>2, <2>3, Zenon DEF Persistent, IInv, TmOK
    <2>5. QED
      BY <2>4, Zenon DEF IInv, TmOK, OneBat, Committing, Up, Phase
  <1>5. tm.pc = "rename" => NewDir' = NewDir
    BY <1>3, Zenon DEF OneBat, NewDir
  <1>6. DirOK'
    BY <1>1, <1>5, Zenon DEF IInv, DirOK, OneBat, Phase
  <1>7. ASSUME NEW c \in Bats PROVE MarkedDirty(c)'
    <2>1. CASE c = b
      BY <2>1, Zenon
    <2>2. CASE c # b
      <3>1. bat'[c] = bat[c] /\ RecoveredDir'[c] = RecoveredDir[c] /\ MarkedDirty(c)
        BY <1>1, <2>2, Zenon DEF OneBat, IInv
      <3>2. QED
        BY <3>1, Zenon DEF OneBat, MarkedDirty, Up
    <2>3. QED
      BY <2>1, <2>2, Zenon
  <1>8. TypeOK'
    BY TypeNext, Zenon
  <1>9. QED
    BY <1>2, <1>4, <1>6, <1>7, <1>8, Zenon DEF IInv

SvKeptFact ==
    /\ SvOK
    /\ sv' = sv
    /\ tm' = tm
    /\ sv # NoSave => (bat'[sv.bat] = bat[sv.bat] /\ file'["BAKDIR"][sv.bat] = file["BAKDIR"][sv.bat])
    => SvOK'

\* BBPsave goes on as before when another bat changes.
LEMMA SvKept == SvKeptFact
  <1> SUFFICES ASSUME SvOK, sv' = sv, tm' = tm,
                      sv # NoSave => (bat'[sv.bat] = bat[sv.bat] /\ file'["BAKDIR"][sv.bat] = file["BAKDIR"][sv.bat])
               PROVE  SvOK'
    BY Zenon DEF SvKeptFact
  <1>1. CASE sv = NoSave
    BY <1>1, Zenon DEF SvOK
  <1>2. CASE Saving
    <2>1. sv # NoSave
      BY <1>2 DEF Saving, NoSave
    <2>2. Saving'
      BY <1>2, <2>1, SameStage, Zenon DEF Saving, Committing, Up, Persistent
    <2>3. QED
      BY <2>2, Zenon DEF SvOK
  <1>3. QED
    BY <1>1, <1>2, Zenon DEF SvOK

\* A bat that no running commit has listed is at no stage of it.
LEMMA FreeStage ==
    ASSUME NEW b \in Bats, Up, Free(b)
    PROVE  Stage(b) = "free" /\ (Committing => tm.sub /\ b \notin tm.list)
  BY Zenon DEF Free, Stage

SetupFact ==
    \A b \in Bats :
      /\ IInv
      => /\ Types /\ FilesOf(b) \in Cells /\ bat[b] \in Records
         /\ RecoveredDir[b] \in Entry /\ Stage(b) \in Stages
         /\ \A d \in Dirs, n \in Names : FilesOf(b)[d][n] = file[d][b][n]
         /\ Ok(b, FilesOf(b), bat[b], RecoveredDir[b], Stage(b))

\* What the invariant says of one bat.
LEMMA Setup == SetupFact
  BY TypeIs, Values, Zenon DEF SetupFact, ValuesFact, IInv, BatOK

NextFilesFact ==
    \A b \in Bats :
      /\ file' \in FileType
      => /\ FilesOf(b)' \in Cells
         /\ \A d \in Dirs, n \in Names : FilesOf(b)'[d][n] = file'[d][b][n]

\* The files of one bat after a step.
LEMMA NextFiles == NextFilesFact
  BY Zenon DEF NextFilesFact, FileType, FilesOf, Cells

OneRecordFact ==
    \A b \in Bats, q \in Records :
      /\ IInv
      /\ bat' = [bat EXCEPT ![b] = q]
      /\ file' = file
      => /\ bat' \in [Bats -> Records] /\ bat'[b] = q
         /\ \A c \in Bats : FilesOf(c)' = FilesOf(c)
         /\ \A c \in Bats \ {b} : bat'[c] = bat[c]

\* Only the record of b changes.
LEMMA OneRecord == OneRecordFact
  BY TypeIs, Zenon DEF OneRecordFact, IInv, Types, FilesOf

\* A step on a bat that is not being unloaded does not disturb BBPsave.
LEMMA SvOther ==
    ASSUME IInv, NEW b \in Bats, OneBat(b), sv' = sv, sv # NoSave => sv.bat # b
    PROVE  SvOK'
  <1>1. sv # NoSave => sv.bat \in Bats
    BY BatsAssumption, Zenon DEF IInv, SvOK, Saving
  <1>2. sv # NoSave => bat'[sv.bat] = bat[sv.bat] /\ FilesOf(sv.bat)' = FilesOf(sv.bat)
    <2>1. ASSUME NEW c \in Bats, c # b
          PROVE  bat'[c] = bat[c] /\ file'["BAKDIR"][c] = file["BAKDIR"][c]
      BY <2>1, Zenon DEF OneBat, FilesOf, Dirs
    <2>2. QED
      BY <1>1, <2>1 DEF FilesOf, Dirs, OneBat
  <1>3. QED
    BY <1>1, <1>2, SvKept, Zenon DEF SvKeptFact, IInv, OneBat, FilesOf, Dirs

RecordStepFact ==
    \A b \in Bats, q \in Records :
      /\ Ordered /\ IInv
      /\ bat' = [bat EXCEPT ![b] = q]
      /\ UNCHANGED <<file, bbpdir, tm, sv, backup_files, backup_subdir, backup_dir>>
      /\ BBP_dirty => BBP_dirty'
      /\ UNCHANGED oid_dirty
      /\ BBP_dirty' \in BOOLEAN
      /\ Numbers'
      /\ Stage(b) = "free"
      /\ sv # NoSave => sv.bat # b
      /\ Ok(b, FilesOf(b), q, RecoveredDir[b], "free")
      /\ MarkedDirty(b)'
      => IInv'

\* A step of the program above GDK that leaves the files alone.
LEMMA RecordStep == RecordStepFact
  <1> SUFFICES ASSUME NEW b \in Bats, NEW q \in Records, Ordered, IInv, bat' = [bat EXCEPT ![b] = q],
                      UNCHANGED <<file, bbpdir, tm, sv, backup_files, backup_subdir, backup_dir>>,
                      BBP_dirty => BBP_dirty', UNCHANGED oid_dirty, BBP_dirty' \in BOOLEAN,
                      Numbers', Stage(b) = "free", sv # NoSave => sv.bat # b,
                      Ok(b, FilesOf(b), q, RecoveredDir[b], "free"), MarkedDirty(b)'
               PROVE  IInv'
    BY Zenon DEF RecordStepFact
  <1>1. /\ bat' \in [Bats -> Records] /\ bat'[b] = q
        /\ \A c \in Bats : FilesOf(c)' = FilesOf(c)
        /\ \A c \in Bats \ {b} : bat'[c] = bat[c]
    BY OneRecord, Zenon DEF OneRecordFact
  <1>2. Types'
    <2>1. Types
      BY Setup, Zenon DEF SetupFact
    <2>2. Flags'
      BY <2>1, Zenon DEF Types, Flags
    <2>3. QED
      BY <1>1, <2>1, <2>2, Zenon DEF Types
  <1>3. OneBat(b)
    BY <1>1, Zenon DEF OneBat
  <1>4. SvOK'
    BY <1>3, SvOther, Zenon
  <1>5. QED
    BY <1>1, <1>2, <1>3, <1>4, OneBatStep, Zenon DEF OneBatStepFact

FreeCommitFact ==
    \A b \in Bats :
      /\ IInv
      /\ Up
      /\ Free(b)
      => /\ Stage(b) = "free"
         /\ tm.pc \in Phase => tm.bbpdirty
         /\ Sublists = {} => tm.pc \in {"done", "failed"}
         /\ FilesOf(b) \in Cells /\ bat[b] \in Records /\ RecoveredDir[b] \in Entry
         /\ Ok(b, FilesOf(b), bat[b], RecoveredDir[b], "free")
         /\ Types /\ MarkedDirty(b)

\* While a bat is free, a commit that runs is a subcommit of other bats.
LEMMA FreeCommit == FreeCommitFact
  BY Setup, FreeStage DEF FreeCommitFact, SetupFact, IInv, TmOK, Committing, Phase, Up

\* An update has a version that no bat had before.
LEMMA FreshIn ==
    ASSUME IInv, Fresh, UNCHANGED <<backup_dir, failures, crashes>>
    PROVE  Numbers' /\ version' \in Versions
  BY BoundsAssumption DEF IInv, TypeOK, Numbers, Fresh, Versions

\* Creating a bat keeps the invariant.
LEMMA CreateInv == ASSUME NEW b \in Bats PROVE Preserves(Create(b))
  <1> SUFFICES ASSUME Covered, Ordered, IInv, Create(b) PROVE IInv'
    BY Zenon DEF Preserves
  <1> DEFINE q == [FreeSlot EXCEPT !.status = "NEW", !.version = version', !.loaded = TRUE,
                        !.dirty = TRUE, !.delta = TRUE, !.aligned = FALSE]
  <1>1. /\ Up /\ Free(b) /\ bat[b].status = "none" /\ Fresh /\ bat' = [bat EXCEPT ![b] = q]
        /\ BBP_dirty' = TRUE
        /\ UNCHANGED <<disk, counters, oid_dirty, tm, sv, failures, crashes>>
    BY Zenon DEF Create
  <1>2. Numbers' /\ version' \in Versions
    BY <1>1, FreshIn, Zenon DEF counters
  <1>3. q \in Records
    BY <1>2, Zenon DEF FreeSlot, Records, Statuses
  <1>4. Ok(b, FilesOf(b), q, RecoveredDir[b], "free")
    BY <1>1, <1>2, FreeCommit, OkCreate, Zenon DEF FreeCommitFact, OkCreateFact
  <1> HIDE DEF q
  <1>5. MarkedDirty(b)'
    BY <1>1, FreeCommit, Zenon DEF FreeCommitFact, MarkedDirty
  <1>6. sv # NoSave => sv.bat # b
    BY <1>1, Zenon DEF IInv, SvOK, Saving, Persistent
  <1>7. QED
    BY <1>1, <1>2, <1>3, <1>4, <1>5, <1>6, FreeCommit, RecordStep, Zenon
       DEF FreeCommitFact, RecordStepFact, disk, counters

\* Updating a bat keeps the invariant.
LEMMA UpdateInv == ASSUME NEW b \in Bats PROVE Preserves(Update(b))
  <1> SUFFICES ASSUME Covered, Ordered, IInv, Update(b) PROVE IInv'
    BY Zenon DEF Preserves
  <1> DEFINE q == [bat[b] EXCEPT !.version = version', !.dirty = TRUE, !.delta = TRUE,
                                 !.aligned = FALSE]
  <1>1. /\ Up /\ Free(b) /\ b # sv.bat /\ bat[b].loaded /\ Fresh
        /\ UNCHANGED <<disk, counters, BBP_dirty, oid_dirty, tm, sv, failures, crashes>>
    BY Zenon DEF Update
  <1>2. Numbers' /\ version' \in Versions
    BY <1>1, FreshIn, Zenon DEF counters
  <1>3. bat[b] \in Records /\ bat \in [Bats -> Records] /\ BBP_dirty \in BOOLEAN
    BY <1>1, FreeCommit, Zenon DEF FreeCommitFact, Types, Flags
  <1>4. bat' = [bat EXCEPT ![b] = q]
    BY <1>3, Zenon DEF Update
  <1>5. /\ q \in Records /\ q.loaded = TRUE /\ q.aligned = FALSE
        /\ q.status = bat[b].status
    BY <1>1, <1>2, <1>3, Zenon DEF Records
  <1>6. Ok(b, FilesOf(b), q, RecoveredDir[b], "free")
    BY <1>1, <1>2, FreeCommit, OkUpdate, Zenon DEF FreeCommitFact, OkUpdateFact
  <1> HIDE DEF q
  <1>7. MarkedDirty(b)'
    <2>1. bat'[b] = q /\ RecoveredDir' = RecoveredDir
      BY <1>1, <1>3, <1>4, Zenon DEF disk, RecoveredDir
    <2>2. ~Lasting(q) => ~Lasting(bat[b]) /\ Shown(q) = Shown(bat[b])
      BY <1>5, Zenon DEF Lasting, Shown
    <2>3. QED
      BY <1>1, <1>5, <2>1, <2>2, FreeCommit, Zenon DEF FreeCommitFact, MarkedDirty, Up
  <1>8. QED
    BY <1>1, <1>2, <1>3, <1>4, <1>5, <1>6, <1>7, FreeCommit, RecordStep, Zenon
       DEF FreeCommitFact, RecordStepFact, disk, counters

\* BATmode(TRANSIENT) keeps the invariant.
LEMMA MakeTransientInv == ASSUME NEW b \in Bats PROVE Preserves(MakeTransient(b))
  <1> SUFFICES ASSUME Covered, Ordered, IInv, MakeTransient(b) PROVE IInv'
    BY Zenon DEF Preserves
  <1>1. /\ Up /\ Free(b) /\ b # sv.bat /\ b \in Droppable /\ Persistent(b) /\ bat[b].loaded
        /\ BBP_dirty' = TRUE
        /\ UNCHANGED <<bbpdir, counters, oid_dirty, tm, sv, bounds>>
    BY Zenon DEF MakeTransient
  <1>2. /\ bat[b] \in Records /\ bat \in [Bats -> Records] /\ Lasting(bat[b])
        /\ FilesOf(b) \in Cells /\ RecoveredDir[b] \in Entry /\ Types
        /\ Ok(b, FilesOf(b), bat[b], RecoveredDir[b], "free") /\ Stage(b) = "free"
    BY <1>1, FreeCommit, Zenon DEF FreeCommitFact, Types, Persistent, Lasting
  <1>3. Numbers'
    BY <1>1, <1>2, Zenon DEF Types, Numbers, counters, bounds
  <1>4. MarkedDirty(b)'
    BY <1>1, FreeCommit, Zenon DEF FreeCommitFact, MarkedDirty
  <1>5. CASE bat[b].status = "EXISTING"
    <2> DEFINE q == [bat[b] EXCEPT !.status = "DELETED", !.loaded = b \in Held]
    <2>1. bat' = [bat EXCEPT ![b] = q] /\ file' = file
      BY <1>2, <1>5, Zenon DEF MakeTransient
    <2>2. q \in Records
      <3>1. \A x \in BOOLEAN : [bat[b] EXCEPT !.status = "DELETED", !.loaded = x] \in Records
        BY <1>2, Zenon DEF Records, Statuses
      <3>2. (b \in Held) \in BOOLEAN
        OBVIOUS
      <3>3. QED
        BY <3>1, <3>2, Zenon
    <2>3. Ok(b, FilesOf(b), q, RecoveredDir[b], "free")
      BY <1>1, <1>2, <1>5, OkTransient, Zenon DEF OkTransientFact
    <2> HIDE DEF q
    <2>4. QED
      BY <1>1, <1>2, <1>3, <1>4, <2>1, <2>2, <2>3, RecordStep, Zenon
         DEF RecordStepFact, counters
  <1>6. CASE bat[b].status = "NEW" /\ b \in Held
    <2> DEFINE q == [bat[b] EXCEPT !.status = "TRANSIENT"]
    <2>1. bat' = [bat EXCEPT ![b] = q] /\ file' = file
      BY <1>2, <1>6, Zenon DEF MakeTransient
    <2>2. q \in Records
      BY <1>2, Zenon DEF Records, Statuses
    <2>3. Ok(b, FilesOf(b), q, RecoveredDir[b], "free")
      BY <1>1, <1>2, <1>6, OkTransient, Zenon DEF OkTransientFact
    <2> HIDE DEF q
    <2>4. QED
      BY <1>1, <1>2, <1>3, <1>4, <2>1, <2>2, <2>3, RecordStep, Zenon
         DEF RecordStepFact, counters
  <1>7. CASE bat[b].status = "NEW" /\ b \notin Held
    <2>1. bat' = [bat EXCEPT ![b] = FreeSlot] /\ file' = DeleteFiles(b)
      BY <1>7, Zenon DEF MakeTransient
    <2>2. file' \in FileType /\ bat' \in [Bats -> Records]
      BY <1>2, <2>1, RecordsIn, Zenon DEF Types, FileType, DeleteFiles, FileValues
    <2>3. /\ \A c \in Bats \ {b} : FilesOf(c)' = FilesOf(c) /\ bat'[c] = bat[c]
          /\ bat'[b] = FreeSlot
      BY <1>2, <2>1, Zenon DEF Types, FileType, DeleteFiles, FilesOf, Dirs
    <2>4. /\ FilesOf(b)' \in Cells
          /\ \A d \in Dirs, m \in Names :
                FilesOf(b)'[d][m] = IF d = "BATDIR" THEN NoFile ELSE FilesOf(b)[d][m]
      BY <1>2, <2>1, <2>2 DEF Types, FileType, DeleteFiles, FilesOf, Dirs, Cells
    <2>5. Ok(b, FilesOf(b)', FreeSlot, RecoveredDir[b], "free")
      BY <1>2, <1>7, <2>4, OkDestroy DEF OkDestroyFact
    <2>6. Flags'
      BY <1>1, <1>2, Zenon DEF Types, Flags, counters
    <2>7. Types'
      BY <1>1, <1>2, <1>3, <2>2, <2>6, Zenon DEF Types
    <2>8. OneBat(b)
      BY <1>1, <2>3, Zenon DEF OneBat, counters
    <2>9. SvOK'
      BY <1>1, <2>8, SvOther, Zenon
    <2>10. QED
      BY <1>2, <1>4, <2>3, <2>5, <2>7, <2>8, <2>9, OneBatStep, Zenon DEF OneBatStepFact
  <1>8. QED
    BY <1>1, <1>5, <1>6, <1>7, Zenon DEF Persistent

\* BATmode(PERSISTENT) keeps the invariant.
LEMMA MakePersistentInv == ASSUME NEW b \in Bats PROVE Preserves(MakePersistent(b))
  <1> SUFFICES ASSUME Covered, Ordered, IInv, MakePersistent(b) PROVE IInv'
    BY Zenon DEF Preserves
  <1> DEFINE q == [bat[b] EXCEPT !.status = IF bat[b].status = "DELETED" THEN "EXISTING" ELSE "NEW"]
  <1>1. /\ Up /\ Free(b) /\ b # sv.bat /\ bat[b].loaded
        /\ bat[b].status \in {"DELETED", "TRANSIENT"} /\ BBP_dirty' = TRUE
        /\ UNCHANGED <<disk, counters, oid_dirty, tm, sv, bounds>>
    BY Zenon DEF MakePersistent
  <1>2. bat[b] \in Records /\ bat \in [Bats -> Records] /\ Types
    BY <1>1, FreeCommit, Zenon DEF FreeCommitFact, Types
  <1>3. Numbers'
    BY <1>1, <1>2, Zenon DEF Types, Numbers, counters, bounds
  <1>4. bat' = [bat EXCEPT ![b] = q] /\ q \in Records
    BY <1>2, Zenon DEF MakePersistent, Records, Statuses
  <1>5. Ok(b, FilesOf(b), q, RecoveredDir[b], "free")
    BY <1>1, FreeCommit, OkPersistent, Zenon DEF FreeCommitFact, OkPersistentFact
  <1> HIDE DEF q
  <1>6. MarkedDirty(b)'
    BY <1>1, FreeCommit, Zenon DEF FreeCommitFact, MarkedDirty
  <1>7. QED
    BY <1>1, <1>3, <1>4, <1>5, <1>6, FreeCommit, RecordStep, Zenon
       DEF FreeCommitFact, RecordStepFact, disk, counters

\* Loading a bat keeps the invariant.
LEMMA LoadInv == ASSUME NEW b \in Bats PROVE Preserves(Load(b))
  <1> SUFFICES ASSUME Covered, Ordered, IInv, Load(b) PROVE IInv'
    BY Zenon DEF Preserves
  <1> DEFINE q == [bat[b] EXCEPT !.loaded = TRUE]
  <1>1. /\ Up /\ Free(b) /\ Persistent(b) /\ ~bat[b].loaded
        /\ file' = IF file["BATDIR"][b]["new"] = NoFile THEN file
                   ELSE [file EXCEPT !["BATDIR"][b]["X"] = file["BATDIR"][b]["new"],
                                     !["BATDIR"][b]["new"] = NoFile]
        /\ UNCHANGED <<bbpdir, counters, BBP_dirty, oid_dirty, tm, sv, bounds>>
    BY Zenon DEF Load
  <1>2. /\ bat[b] \in Records /\ bat \in [Bats -> Records] /\ Lasting(bat[b])
        /\ FilesOf(b) \in Cells /\ RecoveredDir[b] \in Entry /\ Types
        /\ Ok(b, FilesOf(b), bat[b], RecoveredDir[b], "free") /\ Stage(b) = "free"
    BY <1>1, FreeCommit, Zenon DEF FreeCommitFact, Types, Persistent, Lasting
  <1>3. bat' = [bat EXCEPT ![b] = q] /\ q \in Records /\ Shown(q) = Shown(bat[b])
    BY <1>2, Zenon DEF Load, Records, Shown, Lasting
  <1>4. file' \in FileType /\ bat' \in [Bats -> Records]
    <2>1. file["BATDIR"][b]["new"] \in FileValues
      BY <1>2 DEF Types, FileType, Dirs, Names
    <2>2. file' \in FileType
      BY <1>1, <1>2, <2>1, Zenon DEF Types, FileType, FileValues
    <2>3. QED
      BY <1>2, <1>3, <2>2, Zenon
  <1>5. /\ \A c \in Bats \ {b} : FilesOf(c)' = FilesOf(c) /\ bat'[c] = bat[c]
        /\ bat'[b] = q
    BY <1>1, <1>2, <1>3, Zenon DEF Types, FileType, FilesOf, Dirs
  <1>6. /\ FilesOf(b)' \in Cells
        /\ \A d \in Dirs, m \in Names : FilesOf(b)'[d][m] =
              IF d = "BATDIR" /\ FilesOf(b)[d]["new"] # NoFile /\ m \in {"X", "new"}
              THEN IF m = "X" THEN FilesOf(b)[d]["new"] ELSE NoFile
              ELSE FilesOf(b)[d][m]
    <2>1. \A d \in Dirs, m \in Names : file'[d][b][m] =
              IF d = "BATDIR" /\ file[d][b]["new"] # NoFile /\ m \in {"X", "new"}
              THEN IF m = "X" THEN file[d][b]["new"] ELSE NoFile
              ELSE file[d][b][m]
      BY <1>1, <1>2, Zenon DEF Types, FileType, Dirs, Names
    <2>2. QED
      BY <1>4, <2>1, Setup, NextFiles DEF SetupFact, NextFilesFact, Names
  <1>7. Ok(b, FilesOf(b)', q, RecoveredDir[b], "free")
    BY <1>1, <1>2, <1>6, OkLoad, Zenon DEF OkLoadFact
  <1> HIDE DEF q
  <1>8. Flags' /\ Numbers'
    BY <1>1, <1>2, Zenon DEF Types, Flags, Numbers, counters, bounds
  <1>9. Types'
    BY <1>1, <1>2, <1>4, <1>8, Zenon DEF Types
  <1>10. OneBat(b)
    BY <1>1, <1>5, Zenon DEF OneBat, counters
  <1>11. sv # NoSave => sv.bat # b
    BY <1>1, Zenon DEF IInv, SvOK, Saving
  <1>12. SvOK'
    BY <1>1, <1>10, <1>11, SvOther, Zenon
  <1>13. MarkedDirty(b)'
    <2>1. RecoveredDir' = RecoveredDir /\ q.loaded /\ q.aligned = bat[b].aligned /\ Lasting(q)
      BY <1>1, <1>2, Zenon DEF RecoveredDir, q, Records, Lasting
    <2>2. QED
      BY <1>1, <1>3, <1>5, <2>1, FreeCommit, Zenon DEF FreeCommitFact, MarkedDirty, Up
  <1>14. QED
    BY <1>2, <1>5, <1>7, <1>9, <1>10, <1>12, <1>13, OneBatStep, Zenon DEF OneBatStepFact

\* Starting BBPsave keeps the invariant.
LEMMA SaveBeginInv == ASSUME NEW b \in Bats PROVE Preserves(SaveBegin(b))
  <1> SUFFICES ASSUME Covered, Ordered, IInv, SaveBegin(b) PROVE IInv'
    BY Zenon DEF Preserves
  <1> DEFINE q == [bat[b] EXCEPT !.swapped = bat[b].swapped \/ bat[b].delta]
  <1>1. /\ Up /\ sv.pc = "idle" /\ Free(b) /\ b \in Trimmable
        /\ bat[b].loaded /\ bat[b].dirty /\ (Persistent(b) \/ b \in Held)
        /\ sv' = [pc |-> IF bat[b].status = "EXISTING" THEN "prepare" ELSE "open", bat |-> b]
        /\ BBP_dirty' = (BBP_dirty \/ bat[b].delta)
        /\ UNCHANGED <<disk, counters, oid_dirty, tm, bounds>>
    BY Zenon DEF SaveBegin
  <1>2. /\ bat[b] \in Records /\ bat \in [Bats -> Records] /\ Types
        /\ FilesOf(b) \in Cells /\ RecoveredDir[b] \in Entry /\ Stage(b) = "free"
        /\ Ok(b, FilesOf(b), bat[b], RecoveredDir[b], "free")
    BY <1>1, FreeCommit, Zenon DEF FreeCommitFact, Types
  <1>3. Lasting(bat[b]) /\ bat[b].status # "none"
    BY <1>1, Zenon DEF Covered, Persistent, Lasting
  <1>4. bat' = [bat EXCEPT ![b] = q] /\ q \in Records
    BY <1>2, Zenon DEF SaveBegin, Records
  <1>5. Ok(b, FilesOf(b), q, RecoveredDir[b], "free")
    BY <1>2, <1>3, OkSaveBegin, Zenon DEF OkSaveBeginFact, Records
  <1>6. /\ q.status = bat[b].status /\ q.loaded /\ q.dirty /\ q.aligned = bat[b].aligned
        /\ q.version = bat[b].version /\ (bat[b].delta => q.swapped)
    BY <1>1, <1>2, Zenon DEF Records
  <1> HIDE DEF q
  <1>7. /\ bat'[b] = q /\ \A c \in Bats : FilesOf(c)' = FilesOf(c)
        /\ bat' \in [Bats -> Records]
        /\ \A c \in Bats \ {b} : bat'[c] = bat[c]
    BY <1>1, <1>4, OneRecord, Zenon DEF OneRecordFact, disk
  <1>8. Types'
    <2>1. Flags' /\ Numbers'
      BY <1>1, <1>2, Zenon DEF Types, Flags, Numbers, counters, bounds
    <2>2. sv' \in SvType
      BY <1>1, Zenon DEF SvType
    <2>3. QED
      BY <1>1, <1>2, <1>7, <2>1, <2>2, Zenon DEF Types, disk
  <1>9. OneBat(b)
    BY <1>1, <1>7, Zenon DEF OneBat, disk, counters
  <1>10. MarkedDirty(b)'
    <2>1. RecoveredDir' = RecoveredDir /\ Shown(q) = Shown(bat[b]) /\ Lasting(q)
      BY <1>1, <1>3, <1>6, Zenon DEF RecoveredDir, disk, Shown, Lasting
    <2>2. QED
      BY <1>1, <1>6, <1>7, <2>1, FreeCommit, Zenon DEF FreeCommitFact, MarkedDirty, Up
  <1>11. SvOK'
    <2>1. Sublists # {} => q.swapped
      BY <1>1, <1>2, <1>6, Zenon DEF Ok, Swapping, Live
    <2>2. Stage(b)' = "free" /\ (Committing => tm.sub)
      BY <1>1, <1>2, SameStage, FreeStage, Zenon
    <2>3. sv'.bat = b /\ sv'.pc \in {"prepare", "open"}
      BY <1>1, Zenon
    <2>4. sv'.pc = "prepare" <=> q.status = "EXISTING"
      BY <1>1, <1>6, Zenon
    <2>5. Saving'
      BY <1>1, <1>3, <1>6, <1>7, <2>1, <2>2, <2>3, <2>4, Zenon DEF Saving, Committing, Up, Persistent, Lasting
    <2>6. QED
      BY <2>5, Zenon DEF SvOK
  <1>12. QED
    BY <1>2, <1>5, <1>7, <1>8, <1>9, <1>10, <1>11, OneBatStep, Zenon DEF OneBatStepFact

-----------------------------------------------------------------------------
(* BBPsave.                                                                *)

SaveSetupFact ==
    \A b :
      /\ Covered
      /\ IInv
      /\ sv.pc # "idle"
      /\ b = sv.bat
      => /\ b \in Bats /\ b \in Trimmable /\ SaveName(b) = "X"
         /\ Types /\ Saving
         /\ Stage(b) \in {"free", "listed"}
         /\ Lasting(bat[b]) /\ bat[b].dirty /\ bat[b].loaded
         /\ FilesOf(b) \in Cells /\ bat[b] \in Records /\ RecoveredDir[b] \in Entry
         /\ \A d \in Dirs, n \in Names : FilesOf(b)[d][n] = file[d][b][n]
         /\ Ok(b, FilesOf(b), bat[b], RecoveredDir[b], Stage(b))
         /\ Up /\ MarkedDirty(b)
         /\ tm.pc \in Phase => tm.bbpdirty
         /\ Sublists = {} => tm.pc \in {"done", "failed"}

\* What the invariant says of the bat that BBPsave unloads.
LEMMA SaveSetup == SaveSetupFact
  <1> SUFFICES ASSUME NEW b, Covered, IInv, sv.pc # "idle", b = sv.bat
               PROVE  /\ b \in Bats /\ b \in Trimmable /\ SaveName(b) = "X"
                      /\ Types /\ Saving
                      /\ Stage(b) \in {"free", "listed"}
                      /\ Lasting(bat[b]) /\ bat[b].dirty /\ bat[b].loaded
                      /\ FilesOf(b) \in Cells /\ bat[b] \in Records /\ RecoveredDir[b] \in Entry
                      /\ \A d \in Dirs, n \in Names : FilesOf(b)[d][n] = file[d][b][n]
                      /\ Ok(b, FilesOf(b), bat[b], RecoveredDir[b], Stage(b))
                      /\ Up /\ MarkedDirty(b)
                      /\ tm.pc \in Phase => tm.bbpdirty
                      /\ Sublists = {} => tm.pc \in {"done", "failed"}
    BY Zenon DEF SaveSetupFact
  <1>1. Saving
    BY DEF IInv, SvOK, NoSave
  <1>2. b \in Bats /\ b \in Trimmable /\ b \notin Priv
    BY <1>1, BatsAssumption, Zenon DEF Saving, Covered
  <1>3. Up
    BY <1>1, Zenon DEF Saving, Stage, Up
  <1>4. QED
    BY <1>1, <1>2, <1>3, Setup, Zenon
       DEF SetupFact, Saving, SaveName, Persistent, Lasting, IInv, TmOK, Committing, Phase, Up

\* The file n of b in the directory e is set to w.
SetFile(e, b, n, w) == [file EXCEPT ![e][b][n] = w]

OneFileAt(e, b, n, w) ==
    IInv /\ file' = SetFile(e, b, n, w) =>
      /\ file' \in FileType
      /\ \A c \in Bats \ {b} : FilesOf(c)' = FilesOf(c)
      /\ FilesOf(b)' \in Cells
      /\ FilesOf(b)'[e][n] = w
      /\ \A d \in Dirs, m \in Names :
            ~(d = e /\ m = n) => FilesOf(b)'[d][m] = FilesOf(b)[d][m]
OneFileFact ==
    \A e \in Dirs, b \in Bats, n \in Names, w \in FileValues : OneFileAt(e, b, n, w)

\* Only the file n of b in the directory e changes, to w.
LEMMA OneFile == OneFileFact
  <1> SUFFICES ASSUME NEW e \in Dirs, NEW b \in Bats, NEW n \in Names, NEW w \in FileValues,
                      IInv, file' = SetFile(e, b, n, w)
               PROVE  /\ file' \in FileType
                      /\ \A c \in Bats \ {b} : FilesOf(c)' = FilesOf(c)
                      /\ FilesOf(b)' \in Cells
                      /\ FilesOf(b)'[e][n] = w
                      /\ \A d \in Dirs, m \in Names :
                            ~(d = e /\ m = n) => FilesOf(b)'[d][m] = FilesOf(b)[d][m]
    BY DEF OneFileFact, OneFileAt
  <1>1. file \in FileType
    BY Setup, Zenon DEF SetupFact, Types
  <1>2. file' \in FileType
    BY <1>1, Zenon DEF FileType, SetFile
  <1>3. \A c \in Bats \ {b} : FilesOf(c)' = FilesOf(c)
    BY <1>1, Zenon DEF FileType, FilesOf, SetFile
  <1>4. \A d \in Dirs, m \in Names : file'[d][b][m] =
           IF d = e /\ m = n THEN w ELSE file[d][b][m]
    BY <1>1, Zenon DEF FileType, SetFile
  <1>5. QED
    BY <1>2, <1>3, <1>4, Setup, NextFiles DEF SetupFact, NextFilesFact

MovedFileAt(b, n, src, dst) ==
    IInv /\ src # dst /\ file' = Moved(b, n, src, dst) =>
      /\ file' \in FileType
      /\ \A c \in Bats \ {b} : FilesOf(c)' = FilesOf(c)
      /\ FilesOf(b)' \in Cells
      /\ \A d \in Dirs, m \in Names : FilesOf(b)'[d][m] =
            IF m # n THEN FilesOf(b)[d][m]
            ELSE IF d = src THEN NoFile
            ELSE IF d = dst /\ FilesOf(b)[src][n] # NoFile THEN FilesOf(b)[src][n]
            ELSE FilesOf(b)[d][m]
MovedFileFact ==
    \A b \in Bats, n \in Names, src \in Dirs, dst \in Dirs : MovedFileAt(b, n, src, dst)

\* The file n of b is moved from src to dst, if it is there.
LEMMA MovedFile == MovedFileFact
  <1> SUFFICES ASSUME NEW b \in Bats, NEW n \in Names, NEW src \in Dirs, NEW dst \in Dirs,
                      IInv, src # dst, file' = Moved(b, n, src, dst)
               PROVE  /\ file' \in FileType
                      /\ \A c \in Bats \ {b} : FilesOf(c)' = FilesOf(c)
                      /\ FilesOf(b)' \in Cells
                      /\ \A d \in Dirs, m \in Names : FilesOf(b)'[d][m] =
                            IF m # n THEN FilesOf(b)[d][m]
                            ELSE IF d = src THEN NoFile
                            ELSE IF d = dst /\ FilesOf(b)[src][n] # NoFile THEN FilesOf(b)[src][n]
                            ELSE FilesOf(b)[d][m]
    BY DEF MovedFileFact, MovedFileAt
  <1>1. file \in FileType /\ file[src][b][n] \in FileValues /\ NoFile \in FileValues
    BY Setup DEF SetupFact, Types, FileType, FileValues
  <1>2. file' \in FileType
    BY <1>1, Zenon DEF FileType, Moved
  <1>3. \A c \in Bats \ {b} : FilesOf(c)' = FilesOf(c)
    BY <1>1, Zenon DEF FileType, FilesOf, Moved
  <1>4. \A d \in Dirs, m \in Names : file'[d][b][m] =
           IF m # n THEN file[d][b][m]
           ELSE IF d = src THEN NoFile
           ELSE IF d = dst /\ file[src][b][n] # NoFile THEN file[src][b][n]
           ELSE file[d][b][m]
    BY <1>1 DEF FileType, Moved
  <1>5. QED
    BY <1>2, <1>3, <1>4, Setup, NextFiles DEF SetupFact, NextFilesFact

PrepareDirFact ==
    /\ IInv
    /\ BBPprepare(FALSE)
    /\ UNCHANGED <<bat, tm>>
    /\ Up
    /\ Committing => tm.sub
    => /\ RecoveredDir' = RecoveredDir /\ DirOK' /\ bbpdir' \in DirType
       /\ backup_files' \in BOOLEAN /\ backup_subdir' \in BOOLEAN /\ backup_dir' \in 0 .. 2

\* BBPprepare by BBPsave moves BBP.dir to where a restart finds it too.
LEMMA PrepareDir == PrepareDirFact
  <1> SUFFICES ASSUME IInv, BBPprepare(FALSE), UNCHANGED <<bat, tm>>, Up,
                      Committing => tm.sub
               PROVE  /\ RecoveredDir' = RecoveredDir /\ DirOK' /\ bbpdir' \in DirType
                      /\ backup_files' \in BOOLEAN /\ backup_subdir' \in BOOLEAN /\ backup_dir' \in 0 .. 2
    BY Zenon DEF PrepareDirFact
  <1>1. Types /\ bbpdir \in DirType /\ RecoveredDir \in [Bats -> Entry]
    BY TypeIs, Zenon DEF IInv, DirOK, Types
  <1>2. CASE tm.pc \in {"done", "failed", "prepare", "epilogue"}
    <2>1. backup_files /\ backup_dir = 1
      BY <1>2, Zenon DEF IInv, DirOK
    <2>2. bbpdir' = bbpdir /\ backup_dir' = 1 /\ backup_files' = TRUE
      BY <2>1, Zenon DEF BBPprepare, DirOwner, DirMark
    <2>3. RecoveredDir' = RecoveredDir
      BY <2>2, Zenon DEF RecoveredDir
    <2>4. backup_subdir' \in BOOLEAN
      BY Zenon DEF BBPprepare
    <2>5. QED
      BY <1>1, <1>2, <2>2, <2>3, <2>4 DEF IInv, DirOK, Phase
  <1>3. CASE tm.pc \in Phase \cup {"aftermath"}
    <2>1. tm.sub /\ backup_files /\ backup_dir = 2 /\ bbpdir["BAKDIR"] = NoDir
      BY <1>3, Zenon DEF IInv, DirOK, TmOK, Phase, DirMark, Committing, Up
    <2>2. QED
      BY <2>1 DEF BBPprepare, CanPrepare, DirOwner, DirSource, DirMark
  <1>4. CASE tm.pc = "again"
    <2>1. tm.sub /\ backup_files /\ bbpdir["SUBDIR"] = NoDir
      BY <1>4, Zenon DEF IInv, DirOK, Committing, Up
    <2>2. CASE bbpdir["BAKDIR"] # NoDir
      <3>1. backup_dir = 1
        BY <1>4, <2>2, Zenon DEF IInv, DirOK
      <3>2. bbpdir' = bbpdir /\ backup_dir' = 1 /\ backup_files' = TRUE
        BY <2>1, <3>1, Zenon DEF BBPprepare, DirOwner, DirMark
      <3>3. RecoveredDir' = RecoveredDir
        BY <3>2, Zenon DEF RecoveredDir
      <3>4. backup_subdir' \in BOOLEAN
        BY Zenon DEF BBPprepare
      <3>5. QED
        BY <1>1, <1>4, <2>1, <2>2, <3>2, <3>3, <3>4 DEF IInv, DirOK, Phase
    <2>3. CASE bbpdir["BAKDIR"] = NoDir
      <3>1. backup_dir = 0
        BY <1>4, <2>3, Zenon DEF IInv, DirOK
      <3>2. /\ bbpdir' = [bbpdir EXCEPT !["BATDIR"] = NoDir, !["BAKDIR"] = bbpdir["BATDIR"]]
            /\ backup_dir' = 1 /\ backup_files' = TRUE
        BY <2>1, <3>1 DEF BBPprepare, DirOwner, DirMark, DirSource, BackupDir
      <3>3. RecoveredDir = bbpdir["BATDIR"]
        BY <2>1, <2>3 DEF RecoveredDir
      <3>4. /\ bbpdir'["BAKDIR"] = RecoveredDir /\ bbpdir'["SUBDIR"] = NoDir
            /\ bbpdir' \in DirType
        BY <1>1, <2>1, <3>2, <3>3, Zenon DEF DirType, Dirs
      <3>5. bbpdir'["BAKDIR"] # NoDir
        BY <1>1, <3>4, FullDir, Zenon
      <3>6. RecoveredDir' = RecoveredDir
        BY <3>4, <3>5, Zenon DEF RecoveredDir
      <3>7. backup_subdir' \in BOOLEAN
        BY Zenon DEF BBPprepare
      <3>8. QED
        BY <1>1, <1>4, <2>1, <3>2, <3>4, <3>5, <3>6, <3>7 DEF IInv, DirOK, Phase
    <2>4. QED
      BY <2>2, <2>3, Zenon
  <1>5. QED
    BY <1>1, <1>2, <1>3, <1>4, Zenon DEF Up, Types, TmType, Phase

\* A step that leaves every bat, and the commit, as they are.
LEMMA NoBatStep ==
    ASSUME IInv, Types', UNCHANGED <<file, bat, tm, BBP_dirty, oid_dirty>>,
           RecoveredDir' = RecoveredDir, DirOK', SvOK'
    PROVE  IInv'
  <1>1. ASSUME NEW b \in Bats PROVE BatOK(b)' /\ MarkedDirty(b)'
    <2>1. Same(b)
      BY SameStage DEF Same, FilesOf
    <2>2. QED
      BY <2>1, SameKept DEF IInv, MarkedDirty, Up
  <1>2. TmOK'
    BY Zenon DEF IInv, TmOK, Committing, Up, Current, Persistent
  <1>3. QED
    BY <1>1, <1>2, TypeNext, Zenon DEF IInv

\* BBPprepare in BBPsave keeps the invariant and the BBP.dir that counts.
LEMMA SavePrepareInv == Keeps(SavePrepare)
  <1> SUFFICES ASSUME Covered, Ordered, IInv, SavePrepare
               PROVE  IInv' /\ RecoveredDir' = RecoveredDir
    BY Zenon DEF Keeps
  <1>1. sv.pc = "prepare" /\ UNCHANGED <<file, bat, BBP_dirty, oid_dirty, tm, bounds>>
    BY Zenon DEF SavePrepare
  <1>2. Types /\ Saving /\ Up
    BY <1>1, SaveSetup, Zenon DEF SaveSetupFact
  <1>3. CASE BBPprepare(FALSE) /\ sv' = [sv EXCEPT !.pc = "backup"]
    <2>1. /\ RecoveredDir' = RecoveredDir /\ DirOK' /\ bbpdir' \in DirType
          /\ backup_files' \in BOOLEAN /\ backup_subdir' \in BOOLEAN /\ backup_dir' \in 0 .. 2
      BY <1>1, <1>2, <1>3, PrepareDir, Zenon DEF PrepareDirFact, Saving
    <2>2. sv'.pc = "backup" /\ sv'.bat = sv.bat /\ sv' \in SvType
      BY <1>2, <1>3 DEF Types, SvType
    <2>3. Flags' /\ Numbers'
      BY <1>1, <1>2, <2>1, Zenon DEF Types, Flags, Numbers, bounds
    <2>4. Types'
      BY <1>1, <1>2, <2>1, <2>2, <2>3, Zenon DEF Types
    <2>5. SvOK'
      BY <1>1, <1>2, <2>2, SameStage, Zenon DEF SvOK, Saving, Committing, Up, Persistent
    <2>6. QED
      BY <1>1, <2>1, <2>4, <2>5, NoBatStep, Zenon
  <1>4. CASE sv' = NoSave /\ UNCHANGED <<bbpdir, counters>>
    <2>1. RecoveredDir' = RecoveredDir /\ NewDir' = NewDir
      BY <1>1, <1>4, Zenon DEF RecoveredDir, NewDir, Persistent
    <2>2. DirOK'
      BY <1>1, <1>4, <2>1, Zenon DEF IInv, DirOK, counters
    <2>3. Flags' /\ Numbers'
      BY <1>1, <1>2, <1>4, Zenon DEF Types, Flags, Numbers, bounds, counters
    <2>4. Types'
      BY <1>1, <1>2, <1>4, <2>3, Zenon DEF Types, SvType, NoSave, None
    <2>5. SvOK'
      BY <1>4, Zenon DEF SvOK
    <2>6. QED
      BY <1>1, <2>1, <2>2, <2>4, <2>5, NoBatStep, Zenon
  <1>5. QED
    BY <1>3, <1>4, Zenon DEF SavePrepare

\* BBPbackup in BBPsave keeps the invariant.
LEMMA SaveBackupInv == Preserves(SaveBackup)
  <1> SUFFICES ASSUME Covered, Ordered, IInv, SaveBackup PROVE IInv'
    BY Zenon DEF Preserves
  <1>1. /\ sv.pc = "backup" /\ file' = BackedUp(sv.bat, FALSE) /\ sv' = [sv EXCEPT !.pc = "open"]
        /\ UNCHANGED <<bbpdir, bat, counters, BBP_dirty, oid_dirty, tm, bounds>>
    BY Zenon DEF SaveBackup
  <1>2. PICK b \in Bats : b = sv.bat
    BY <1>1, SaveSetup DEF SaveSetupFact
  <1>3. /\ b \in Trimmable /\ SaveName(b) = "X" /\ b \notin Priv
        /\ Types /\ Saving /\ Stage(b) \in {"free", "listed"}
        /\ bat[b].dirty /\ bat[b].loaded /\ bat[b].status = "EXISTING"
        /\ FilesOf(b) \in Cells /\ bat[b] \in Records /\ RecoveredDir[b] \in Entry
        /\ \A d \in Dirs, n \in Names : FilesOf(b)[d][n] = file[d][b][n]
        /\ Ok(b, FilesOf(b), bat[b], RecoveredDir[b], Stage(b)) /\ MarkedDirty(b)
    BY <1>1, <1>2, SaveSetup DEF SaveSetupFact, Saving, Covered
  <1>4. file' = IF file["BAKDIR"][b]["X"] = NoFile THEN Moved(b, "X", "BATDIR", "BAKDIR") ELSE file
    BY <1>1, <1>2, <1>3, Zenon DEF BackedUp, HeapMoved, BackupDir
  <1>5. /\ file' \in FileType /\ FilesOf(b)' \in Cells
        /\ \A c \in Bats \ {b} : FilesOf(c)' = FilesOf(c)
        /\ \A d \in Dirs, m \in Names : FilesOf(b)'[d][m] =
              IF FilesOf(b)["BAKDIR"]["X"] = NoFile /\ m = "X"
              THEN IF d = "BAKDIR" THEN FilesOf(b)["BATDIR"]["X"]
                   ELSE IF d = "BATDIR" THEN NoFile ELSE FilesOf(b)[d][m]
              ELSE FilesOf(b)[d][m]
    <2>1. FilesOf(b)["BAKDIR"]["X"] = file["BAKDIR"][b]["X"]
      BY <1>3, Zenon DEF Dirs, Names
    <2>2. CASE file["BAKDIR"][b]["X"] = NoFile
      <3>1. "X" \in Names /\ "BAKDIR" \in Dirs /\ "BATDIR" \in Dirs /\ "BATDIR" # "BAKDIR"
        BY Zenon DEF Dirs, Names
      <3>2. /\ file' \in FileType
            /\ \A c \in Bats \ {b} : FilesOf(c)' = FilesOf(c)
            /\ FilesOf(b)' \in Cells
            /\ \A d \in Dirs, m \in Names : FilesOf(b)'[d][m] =
                  IF m # "X" THEN FilesOf(b)[d][m]
                  ELSE IF d = "BATDIR" THEN NoFile
                  ELSE IF d = "BAKDIR" /\ FilesOf(b)["BATDIR"]["X"] # NoFile
                       THEN FilesOf(b)["BATDIR"]["X"]
                  ELSE FilesOf(b)[d][m]
        <4>1. MovedFileAt(b, "X", "BATDIR", "BAKDIR")
          BY <3>1, MovedFile, Zenon DEF MovedFileFact
        <4>2. QED
          BY <1>4, <2>2, <3>1, <4>1, Zenon DEF MovedFileAt
      <3>3. QED
        BY <2>1, <2>2, <3>1, <3>2
    <2>3. CASE file["BAKDIR"][b]["X"] # NoFile
      BY <1>3, <1>4, <2>1, <2>3, NextFiles, Zenon DEF NextFilesFact, Types, FilesOf
    <2>4. QED
      BY <2>2, <2>3, Zenon
  <1>6. Ok(b, FilesOf(b)', bat[b], RecoveredDir[b], Stage(b)) /\ FilesOf(b)'["BAKDIR"]["X"] # NoFile
    <2>1. OkSaveBackupAt(b, FilesOf(b), FilesOf(b)', bat[b], RecoveredDir[b], Stage(b))
      BY <1>3, <1>5, OkSaveBackup, Zenon DEF OkSaveBackupFact
    <2>2. QED
      BY <1>3, <1>5, <2>1, Zenon DEF OkSaveBackupAt
  <1>7. file'["BAKDIR"][b]["X"] # NoFile
    BY <1>5, <1>6, NextFiles, Zenon DEF NextFilesFact, Dirs, Names
  <1>8. Types'
    <2>1. Flags' /\ Numbers'
      BY <1>1, <1>3, Zenon DEF Types, Flags, Numbers, counters, bounds
    <2>2. sv' \in SvType
      BY <1>1, <1>3, Zenon DEF Types, SvType
    <2>3. QED
      BY <1>1, <1>3, <1>5, <2>1, <2>2, Zenon DEF Types
  <1>9. OneBat(b)
    BY <1>1, <1>5, Zenon DEF OneBat, counters
  <1>10. sv'.pc = "open" /\ sv'.bat = b
    BY <1>1, <1>2, <1>3, Zenon DEF Types, SvType
  <1>11. SvOK'
    BY <1>1, <1>2, <1>3, <1>7, <1>10, SameStage, Zenon
       DEF SvOK, Saving, Committing, Up, Persistent
  <1>12. MarkedDirty(b)'
    BY <1>1, <1>3, Zenon DEF MarkedDirty, RecoveredDir, Up
  <1>13. QED
    BY <1>1, <1>3, <1>6, <1>8, <1>9, <1>11, <1>12, OneBatStep, Zenon DEF OneBatStepFact

SaveKeptFact ==
    \A b \in Bats :
      /\ Covered
      /\ IInv
      /\ sv.pc \in {"open", "write"}
      /\ b = sv.bat
      => (bat[b].status = "EXISTING" => Kept(FilesOf(b), SaveName(b)) # NoFile)

\* The heap that BBPsave is about to write over was put away.
LEMMA SaveKept == SaveKeptFact
  BY SaveSetup DEF SaveKeptFact, SaveSetupFact, Saving, Kept, Dirs, Names

\* Opening the heap file in BBPsave keeps the invariant.
LEMMA SaveOpenInv == Preserves(SaveOpen)
  <1> SUFFICES ASSUME Covered, Ordered, IInv, SaveOpen PROVE IInv'
    BY Zenon DEF Preserves
  <1>1. /\ sv.pc = "open" /\ OpenHeap(sv.bat) /\ sv' = [sv EXCEPT !.pc = "write"]
        /\ UNCHANGED <<bbpdir, counters, BBP_dirty, tm, bounds>>
    BY Zenon DEF SaveOpen
  <1>2. PICK b \in Bats : b = sv.bat
    BY <1>1, SaveSetup, Zenon DEF SaveSetupFact
  <1> DEFINE q == [bat[b] EXCEPT !.aligned = TRUE]
  <1>3. /\ SaveName(b) = "X" /\ Types /\ Saving /\ Stage(b) \in {"free", "listed"}
        /\ Lasting(bat[b]) /\ bat[b].dirty /\ bat[b].loaded /\ Up
        /\ FilesOf(b) \in Cells /\ bat[b] \in Records /\ RecoveredDir[b] \in Entry
        /\ Ok(b, FilesOf(b), bat[b], RecoveredDir[b], Stage(b)) /\ MarkedDirty(b)
        /\ tm.pc \in Phase => tm.bbpdirty
        /\ Sublists = {} => tm.pc \in {"done", "failed"}
    BY <1>1, <1>2, SaveSetup, Zenon DEF SaveSetupFact
  <1>4. /\ file' = SetFile("BATDIR", b, "X", Half)
        /\ bat' = [bat EXCEPT ![b] = q]
        /\ oid_dirty' = (oid_dirty \/ ~bat[b].aligned)
    BY <1>1, <1>2, <1>3, Zenon DEF OpenHeap, Types, Records, SetFile
  <1>5. /\ file' \in FileType /\ FilesOf(b)' \in Cells
        /\ \A c \in Bats \ {b} : FilesOf(c)' = FilesOf(c)
        /\ FilesOf(b)'["BATDIR"]["X"] = Half
        /\ \A d \in Dirs, m \in Names :
              ~(d = "BATDIR" /\ m = "X") => FilesOf(b)'[d][m] = FilesOf(b)[d][m]
    BY <1>4, OneFile DEF OneFileFact, OneFileAt, Dirs, Names, FileValues
  <1>6. Ok(b, FilesOf(b)', q, RecoveredDir[b], Stage(b))
    <2>1. bat[b].status = "EXISTING" => Kept(FilesOf(b), SaveName(b)) # NoFile
      BY <1>1, <1>2, SaveKept, Zenon DEF SaveKeptFact
    <2>2. Overwrites(b, FilesOf(b), FilesOf(b)', bat[b], RecoveredDir[b], Stage(b))
      BY <1>3, <1>5, <2>1, Zenon DEF Overwrites
    <2>3. QED
      BY <1>3, <1>5, <2>2, OkOpen, Zenon DEF OkOpenFact
  <1>7. /\ q \in Records /\ q.status = bat[b].status /\ q.loaded = bat[b].loaded
        /\ q.dirty = bat[b].dirty /\ q.swapped = bat[b].swapped /\ q.version = bat[b].version
        /\ q.aligned
    BY <1>3, Zenon DEF Records
  <1> HIDE DEF q
  <1>8. bat'[b] = q /\ bat' \in [Bats -> Records] /\ \A c \in Bats \ {b} : bat'[c] = bat[c]
    BY <1>3, <1>4, <1>7, Zenon DEF Types
  <1>9. sv'.pc = "write" /\ sv'.bat = b /\ sv' \in SvType
    BY <1>1, <1>2, <1>3, Zenon DEF Types, SvType
  <1>10. Types'
    <2>1. Flags' /\ Numbers'
      BY <1>1, <1>3, <1>4, Zenon DEF Types, Flags, Numbers, counters, bounds
    <2>2. QED
      BY <1>1, <1>3, <1>5, <1>8, <1>9, <2>1, Zenon DEF Types
  <1>11. OneBat(b)
    BY <1>1, <1>4, <1>5, <1>8, Zenon DEF OneBat, counters
  <1>12. SvOK'
    <2>1. file'["BAKDIR"][b]["X"] = file["BAKDIR"][b]["X"]
      BY <1>3, <1>4, Zenon DEF Types, FileType, Dirs, SetFile
    <2>2. QED
      BY <1>1, <1>2, <1>3, <1>7, <1>8, <1>9, <2>1, SameStage, Zenon
         DEF SvOK, Saving, Committing, Up, Persistent
  <1>13. MarkedDirty(b)'
    <2>1. RecoveredDir' = RecoveredDir /\ Shown(q) = Shown(bat[b])
      BY <1>1, <1>7, Zenon DEF RecoveredDir, Shown, Lasting
    <2>2. QED
      BY <1>1, <1>3, <1>4, <1>8, <2>1, Zenon DEF MarkedDirty, Up
  <1>14. QED
    BY <1>3, <1>6, <1>8, <1>10, <1>11, <1>12, <1>13, OneBatStep, Zenon DEF OneBatStepFact

\* Completing the heap file in BBPsave keeps the invariant.
LEMMA SaveWriteInv == Preserves(SaveWrite)
  <1> SUFFICES ASSUME Covered, Ordered, IInv, SaveWrite PROVE IInv'
    BY Zenon DEF Preserves
  <1>1. /\ sv.pc = "write" /\ file' = WrittenHeap(sv.bat) /\ sv' = NoSave
        /\ bat' = [bat EXCEPT ![sv.bat].dirty = FALSE, ![sv.bat].loaded = FALSE]
        /\ UNCHANGED <<bbpdir, counters, BBP_dirty, oid_dirty, tm, bounds>>
    BY Zenon DEF SaveWrite
  <1>2. PICK b \in Bats : b = sv.bat
    BY <1>1, SaveSetup, Zenon DEF SaveSetupFact
  <1> DEFINE q == [bat[b] EXCEPT !.dirty = FALSE, !.loaded = FALSE]
  <1>3. /\ SaveName(b) = "X" /\ Types /\ Saving /\ Stage(b) \in {"free", "listed"}
        /\ Lasting(bat[b]) /\ bat[b].dirty /\ bat[b].loaded /\ Up
        /\ FilesOf(b) \in Cells /\ bat[b] \in Records /\ RecoveredDir[b] \in Entry
        /\ Ok(b, FilesOf(b), bat[b], RecoveredDir[b], Stage(b)) /\ MarkedDirty(b)
        /\ tm.pc \in Phase => tm.bbpdirty
        /\ Sublists = {} => tm.pc \in {"done", "failed"}
        /\ Sublists # {} => bat[b].swapped
        /\ bat[b].aligned
    BY <1>1, <1>2, SaveSetup, Zenon DEF SaveSetupFact, Saving
  <1>4. /\ file' = SetFile("BATDIR", b, "X", bat[b].version)
        /\ bat' = [bat EXCEPT ![b] = q]
    BY <1>1, <1>2, <1>3, Zenon DEF WrittenHeap, Types, Records, SetFile
  <1>5. /\ file' \in FileType /\ FilesOf(b)' \in Cells
        /\ \A c \in Bats \ {b} : FilesOf(c)' = FilesOf(c)
        /\ FilesOf(b)'["BATDIR"]["X"] = bat[b].version
        /\ \A d \in Dirs, m \in Names :
              ~(d = "BATDIR" /\ m = "X") => FilesOf(b)'[d][m] = FilesOf(b)[d][m]
    <2>1. bat[b].version \in FileValues /\ "X" \in Names /\ "BATDIR" \in Dirs
      BY <1>3, Zenon DEF Records, FileValues, NoFile, Names, Dirs
    <2>2. QED
      BY <1>4, <2>1, OneFile DEF OneFileFact, OneFileAt
  <1>6. Ok(b, FilesOf(b)', q, RecoveredDir[b], Stage(b))
    <2>1. bat[b].status = "EXISTING" => Kept(FilesOf(b), SaveName(b)) # NoFile
      BY <1>1, <1>2, SaveKept, Zenon DEF SaveKeptFact
    <2>2. Overwrites(b, FilesOf(b), FilesOf(b)', bat[b], RecoveredDir[b], Stage(b))
      BY <1>3, <1>5, <2>1, Zenon DEF Overwrites
    <2>3. QED
      BY <1>3, <1>5, <2>2, OkUnloaded, Zenon DEF OkUnloadedFact
  <1>7. /\ q \in Records /\ q.status = bat[b].status /\ q.version = bat[b].version
    BY <1>3, Zenon DEF Records
  <1> HIDE DEF q
  <1>8. bat'[b] = q /\ bat' \in [Bats -> Records] /\ \A c \in Bats \ {b} : bat'[c] = bat[c]
    BY <1>3, <1>4, <1>7, Zenon DEF Types
  <1>9. sv' \in SvType /\ SvOK'
    BY <1>1, Zenon DEF SvType, NoSave, SvOK, None
  <1>10. Types'
    <2>1. Flags' /\ Numbers'
      BY <1>1, <1>3, Zenon DEF Types, Flags, Numbers, counters, bounds
    <2>2. QED
      BY <1>1, <1>3, <1>5, <1>8, <1>9, <2>1, Zenon DEF Types
  <1>11. OneBat(b)
    BY <1>1, <1>5, <1>8, Zenon DEF OneBat, counters
  <1>12. MarkedDirty(b)'
    <2>1. RecoveredDir' = RecoveredDir /\ Shown(q) = Shown(bat[b])
      BY <1>1, <1>7, Zenon DEF RecoveredDir, Shown, Lasting
    <2>2. QED
      BY <1>1, <1>3, <1>8, <2>1, Zenon DEF MarkedDirty, Up
  <1>13. QED
    BY <1>3, <1>6, <1>8, <1>9, <1>10, <1>11, <1>12, OneBatStep, Zenon DEF OneBatStepFact

\* A failure is counted.
LEMMA FailsIn ==
    ASSUME IInv, Fails, UNCHANGED <<backup_dir, version, crashes>>
    PROVE  Numbers' /\ MaxFailures > 0
  BY BoundsAssumption DEF IInv, TypeOK, Numbers, Fails

\* A failed BBPsave keeps the invariant.
LEMMA SaveFailInv == Preserves(SaveFail)
  <1> SUFFICES ASSUME Covered, Ordered, IInv, SaveFail PROVE IInv'
    BY Zenon DEF Preserves
  <1>1. /\ sv.pc = "write" /\ Fails /\ file' = UnlinkHeap(sv.bat) /\ sv' = NoSave
        /\ UNCHANGED <<bbpdir, bat, counters, BBP_dirty, oid_dirty, tm, version, crashes>>
    BY Zenon DEF SaveFail
  <1>2. PICK b \in Bats : b = sv.bat
    BY <1>1, SaveSetup DEF SaveSetupFact
  <1>3. /\ SaveName(b) = "X" /\ Types /\ Stage(b) \in {"free", "listed"}
        /\ Lasting(bat[b]) /\ bat[b].dirty
        /\ FilesOf(b) \in Cells /\ bat[b] \in Records /\ RecoveredDir[b] \in Entry
        /\ Ok(b, FilesOf(b), bat[b], RecoveredDir[b], Stage(b)) /\ MarkedDirty(b)
    BY <1>1, <1>2, SaveSetup, Zenon DEF SaveSetupFact
  <1>4. /\ file' \in FileType /\ FilesOf(b)' \in Cells
        /\ \A c \in Bats \ {b} : FilesOf(c)' = FilesOf(c)
        /\ FilesOf(b)'["BATDIR"]["X"] = NoFile
        /\ \A d \in Dirs, m \in Names :
              ~(d = "BATDIR" /\ m = "X") => FilesOf(b)'[d][m] = FilesOf(b)[d][m]
    <2>1. file' = SetFile("BATDIR", b, "X", NoFile) /\ NoFile \in FileValues
          /\ "X" \in Names /\ "BATDIR" \in Dirs
      BY <1>1, <1>2, <1>3, Zenon DEF UnlinkHeap, SetFile, FileValues, Names, Dirs
    <2>2. QED
      BY <2>1, OneFile DEF OneFileFact, OneFileAt
  <1>5. Ok(b, FilesOf(b)', bat[b], RecoveredDir[b], Stage(b))
    <2>1. bat[b].status = "EXISTING" => Kept(FilesOf(b), SaveName(b)) # NoFile
      BY <1>1, <1>2, SaveKept, Zenon DEF SaveKeptFact
    <2>2. Overwrites(b, FilesOf(b), FilesOf(b)', bat[b], RecoveredDir[b], Stage(b))
      BY <1>3, <1>4, <2>1, Zenon DEF Overwrites
    <2>3. QED
      BY <1>3, <1>4, <2>2, OkOpen, Zenon DEF OkOpenFact
  <1>6. sv' \in SvType /\ SvOK'
    BY <1>1, Zenon DEF SvType, NoSave, SvOK, None
  <1>7. Types'
    <2>1. Flags' /\ Numbers'
      BY <1>1, <1>3, FailsIn, Zenon DEF Types, Flags, counters
    <2>2. QED
      BY <1>1, <1>3, <1>4, <1>6, <2>1, Zenon DEF Types
  <1>8. OneBat(b)
    BY <1>1, <1>4, Zenon DEF OneBat, counters
  <1>9. MarkedDirty(b)'
    BY <1>1, <1>3, Zenon DEF MarkedDirty, RecoveredDir, Up
  <1>10. QED
    BY <1>1, <1>3, <1>5, <1>6, <1>7, <1>8, <1>9, OneBatStep, Zenon DEF OneBatStepFact

-----------------------------------------------------------------------------
(* A crash, and the restart.                                               *)

\* A crash keeps the invariant.
LEMMA CrashInv == Preserves(Crash)
  <1> SUFFICES ASSUME Covered, Ordered, IInv, Crash PROVE IInv'
    BY Zenon DEF Preserves
  <1>1. /\ backup_files' = FALSE /\ backup_subdir' = FALSE /\ backup_dir' = 0
        /\ BBP_dirty' = FALSE /\ oid_dirty' = FALSE
        /\ tm' = [Idle EXCEPT !.pc = "subdir"] /\ sv' = NoSave
        /\ UNCHANGED <<disk, version, failures>>
    BY Zenon DEF Crash
  <1>2. bat' = [b \in Bats |-> FreeSlot] /\ crashes < MaxCrashes /\ crashes' = crashes + 1
    BY Zenon DEF Crash
  <1>3. Types
    BY TypeIs, Zenon DEF IInv
  <1>4. tm'.pc = "subdir" /\ tm' \in TmType
    BY <1>1, Zenon DEF Idle, TmType
  <1>5. ~Up' /\ ~Committing'
    BY <1>4, Zenon DEF Up, Committing
  <1>6. RecoveredDir' = RecoveredDir
    BY <1>1, Zenon DEF RecoveredDir, disk
  <1>7. ASSUME NEW b \in Bats PROVE BatOK(b)'
    <2>1. Stage(b)' = "subdir" /\ FilesOf(b)' = FilesOf(b) /\ bat'[b] = FreeSlot
      BY <1>1, <1>2, <1>4, <1>5, Zenon DEF Stage, FilesOf, disk
    <2>2. Ok(b, FilesOf(b), FreeSlot, RecoveredDir[b], "subdir")
      BY Setup, OkCrash, Zenon DEF SetupFact, OkCrashFact
    <2>3. QED
      BY <1>6, <2>1, <2>2, Zenon DEF BatOK
  <1>8. DirOK'
    <2>1. RecoveredDir \in [Bats -> Entry]
      BY Zenon DEF IInv, DirOK
    <2>2. QED
      BY <1>1, <1>4, <1>6, <2>1, Zenon DEF DirOK, Phase
  <1>9. TmOK' /\ SvOK'
    BY <1>1, <1>4, <1>5, Zenon DEF TmOK, SvOK, Phase
  <1>10. \A b \in Bats : MarkedDirty(b)'
    BY <1>4, <1>5, Zenon DEF MarkedDirty, Phase
  <1>11. Types'
    <2>1. Flags'
      BY <1>1, Zenon DEF Flags
    <2>2. Numbers'
      BY <1>1, <1>2, <1>3, BoundsAssumption DEF Types, Numbers
    <2>3. bat' \in [Bats -> Records]
      BY <1>2, RecordsIn, Zenon
    <2>4. sv' \in SvType
      BY <1>1, Zenon DEF SvType, NoSave, None
    <2>5. QED
      BY <1>1, <1>3, <1>4, <2>1, <2>2, <2>3, <2>4, Zenon DEF Types, disk
  <1>12. QED
    BY <1>7, <1>8, <1>9, <1>10, <1>11, TypeNext, Zenon DEF IInv

RestartsFact ==
    /\ IInv
    /\ ~Up
    => /\ sv = NoSave /\ Types /\ ~Committing /\ tm.pc \notin Phase
       /\ \A b \in Bats : Stage(b) = tm.pc
       /\ RecoveredDir \in [Bats -> Entry]

\* Nothing is being unloaded, and nothing committed, during a restart.
LEMMA Restarts == RestartsFact
  <1> SUFFICES ASSUME IInv, ~Up
               PROVE  /\ sv = NoSave /\ Types /\ ~Committing /\ tm.pc \notin Phase
                      /\ \A b \in Bats : Stage(b) = tm.pc
                      /\ RecoveredDir \in [Bats -> Entry]
    BY Zenon DEF RestartsFact
  <1>1. \A b : Stage(b) = tm.pc
    BY Zenon DEF Stage
  <1>2. sv = NoSave
    BY <1>1, Zenon DEF IInv, SvOK, Saving, Up
  <1>3. QED
    BY <1>1, <1>2, TypeIs, Zenon DEF IInv, DirOK, Committing, Up, Phase

\* A step of a restart to another one.
LEMMA RestartStep ==
    ASSUME IInv, ~Up, Types', ~Up', sv' = sv, DirOK',
           \A b \in Bats : Ok(b, FilesOf(b)', bat'[b], RecoveredDir'[b], tm'.pc)
    PROVE  IInv'
  <1>1. ~Committing' /\ \A b \in Bats : Stage(b)' = tm'.pc
    BY Zenon DEF Committing, Stage
  <1>2. \A b \in Bats : BatOK(b)'
    BY <1>1, Zenon DEF BatOK
  <1>3. tm'.pc \in {"subdir", "recover", "diskscan"}
    BY Zenon DEF Up
  <1>4. TmOK'
    BY <1>1, <1>3, Zenon DEF TmOK, Phase
  <1>5. SvOK'
    BY Restarts, Zenon DEF RestartsFact, SvOK
  <1>6. \A b \in Bats : MarkedDirty(b)'
    BY <1>3, Zenon DEF MarkedDirty, Phase
  <1>7. QED
    BY <1>2, <1>4, <1>5, <1>6, TypeNext, Zenon DEF IInv

\* BBPrecover_subdir keeps the invariant and the BBP.dir that counts.
LEMMA RecoverSubdirInv == Keeps(RecoverSubdir)
  <1> SUFFICES ASSUME Covered, Ordered, IInv, RecoverSubdir
               PROVE  IInv' /\ RecoveredDir' = RecoveredDir
    BY Zenon DEF Keeps
  <1>1. tm.pc = "subdir" /\ UNCHANGED <<bat, counters, BBP_dirty, oid_dirty, tm, sv, bounds>>
    BY Zenon DEF RecoverSubdir
  <1>2. ~Up /\ ~Up'
    BY <1>1, Zenon DEF Up
  <1>3. /\ Types /\ bbpdir \in DirType /\ RecoveredDir \in [Bats -> Entry]
        /\ \A b \in Bats : Stage(b) = "subdir"
    BY <1>1, <1>2, Restarts, Zenon DEF RestartsFact, Types
  <1>4. ~backup_files /\ backup_dir = 0
    BY <1>1, Zenon DEF IInv, DirOK
  <1>5. Flags' /\ Numbers'
    BY <1>1, <1>3, Zenon DEF Types, Flags, Numbers, counters, bounds
  <1>6. ASSUME NEW e \in Entries("SUBDIR"), file' = Moved(e[1], e[2], "SUBDIR", "BAKDIR"),
               bbpdir' = bbpdir
        PROVE  IInv' /\ RecoveredDir' = RecoveredDir
    <2>1. PICK b \in Bats, n \in Names : b = e[1] /\ n = e[2]
      BY Zenon DEF Entries
    <2>2. file["SUBDIR"][b][n] # NoFile
      BY <2>1, Zenon DEF Entries
    <2>3. /\ FilesOf(b) \in Cells /\ bat[b] \in Records /\ RecoveredDir[b] \in Entry
          /\ Ok(b, FilesOf(b), bat[b], RecoveredDir[b], "subdir")
          /\ FilesOf(b)["SUBDIR"][n] # NoFile
      BY <1>3, <2>2, Setup, Zenon DEF SetupFact, Dirs
    <2>4. /\ file' \in FileType /\ FilesOf(b)' \in Cells
          /\ \A c \in Bats \ {b} : FilesOf(c)' = FilesOf(c)
          /\ \A d \in Dirs, m \in Names : FilesOf(b)'[d][m] =
                IF m # n THEN FilesOf(b)[d][m]
                ELSE IF d = "SUBDIR" THEN NoFile
                ELSE IF d = "BAKDIR" /\ FilesOf(b)["SUBDIR"][n] # NoFile THEN FilesOf(b)["SUBDIR"][n]
                ELSE FilesOf(b)[d][m]
      BY <1>6, <2>1, MovedFile DEF MovedFileFact, MovedFileAt, Dirs
    <2>5. \A d \in Dirs, m \in Names : FilesOf(b)'[d][m] =
              IF m = n THEN IF d = "SUBDIR" THEN NoFile
                            ELSE IF d = "BAKDIR" THEN FilesOf(b)["SUBDIR"][n] ELSE FilesOf(b)[d][m]
              ELSE FilesOf(b)[d][m]
      BY <2>3, <2>4, Zenon
    <2>6. Ok(b, FilesOf(b)', bat[b], RecoveredDir[b], "subdir")
      BY <2>3, <2>4, <2>5, OkRecoverSubdir DEF OkRecoverSubdirFact
    <2>7. RecoveredDir' = RecoveredDir
      BY <1>6, Zenon DEF RecoveredDir
    <2>8. ASSUME NEW c \in Bats PROVE Ok(c, FilesOf(c)', bat'[c], RecoveredDir'[c], tm'.pc)
      <3>1. c # b => Ok(c, FilesOf(c)', bat[c], RecoveredDir[c], "subdir")
        BY <1>3, <2>4, Setup, Zenon DEF SetupFact
      <3>2. QED
        BY <1>1, <2>6, <2>7, <3>1, Zenon
    <2>9. DirOK'
      BY <1>1, <1>6, <2>7, Zenon DEF IInv, DirOK, Phase, counters
    <2>10. Types'
      BY <1>1, <1>3, <1>5, <1>6, <2>4, Zenon DEF Types
    <2>11. QED
      BY <1>1, <1>2, <2>7, <2>8, <2>9, <2>10, RestartStep, Zenon
  <1>7. ASSUME bbpdir["SUBDIR"] # NoDir, file' = file,
               bbpdir' = [bbpdir EXCEPT !["SUBDIR"] = NoDir, !["BAKDIR"] = bbpdir["SUBDIR"]]
        PROVE  IInv' /\ RecoveredDir' = RecoveredDir
    <2>1. /\ bbpdir'["SUBDIR"] = NoDir /\ bbpdir'["BAKDIR"] = bbpdir["SUBDIR"] /\ bbpdir' \in DirType
      BY <1>3, <1>7, Zenon DEF DirType, Dirs
    <2>2. RecoveredDir' = RecoveredDir
      BY <1>7, <2>1, Zenon DEF RecoveredDir
    <2>3. ASSUME NEW c \in Bats PROVE Ok(c, FilesOf(c)', bat'[c], RecoveredDir'[c], tm'.pc)
      <3>1. FilesOf(c)' = FilesOf(c)
        BY <1>7, Zenon DEF FilesOf
      <3>2. QED
        BY <1>1, <1>3, <2>2, <3>1, Setup, Zenon DEF SetupFact
    <2>4. DirOK'
      BY <1>1, <1>3, <1>4, <2>2, Zenon DEF DirOK, Phase, counters
    <2>5. Types'
      BY <1>1, <1>3, <1>5, <1>7, <2>1, Zenon DEF Types
    <2>6. QED
      BY <1>1, <1>2, <2>2, <2>3, <2>4, <2>5, RestartStep, Zenon
  <1>8. QED
    BY <1>6, <1>7, Zenon DEF RecoverSubdir

\* No file of b is left in a directory without entries.
LEMMA NoEntries ==
    ASSUME IInv, NEW d \in Dirs, Entries(d) = {}, NEW b \in Bats
    PROVE  Gone(FilesOf(b), d)
  <1>1. \A n \in Names : file[d][b][n] = NoFile
    <2>1. TAKE n \in Names
    <2>2. <<b, n>> \in Bats \X Names /\ <<b, n>> \notin Entries(d)
      BY Zenon
    <2>3. QED
      BY <2>2, Zenon DEF Entries
  <1>2. QED
    BY <1>1, Setup, Zenon DEF SetupFact, Gone, Names

\* recover_dir and BBPreadEntries keep the invariant and the BBP.dir that
\* counts.
LEMMA RecoverDirInv == Keeps(RecoverDir)
  <1> SUFFICES ASSUME Covered, Ordered, IInv, RecoverDir
               PROVE  IInv' /\ RecoveredDir' = RecoveredDir
    BY Zenon DEF Keeps
  <1> DEFINE dir == IF bbpdir["BAKDIR"] # NoDir THEN bbpdir["BAKDIR"] ELSE bbpdir["BATDIR"]
  <1>1. /\ tm.pc = "subdir" /\ Entries("SUBDIR") = {} /\ bbpdir["SUBDIR"] = NoDir
        /\ bbpdir' = [bbpdir EXCEPT !["BATDIR"] = dir, !["BAKDIR"] = NoDir]
        /\ oid_dirty' = TRUE /\ tm' = [tm EXCEPT !.pc = "recover"]
        /\ UNCHANGED <<file, counters, BBP_dirty, sv, bounds>>
    BY Zenon DEF RecoverDir
  <1>2. bat' = [b \in Bats |-> IF dir[b] = 0 THEN FreeSlot ELSE OnDisk(dir[b])]
    BY Zenon DEF RecoverDir
  <1>3. RecoveredDir = dir
    BY <1>1, Zenon DEF RecoveredDir
  <1> HIDE DEF dir
  <1>4. ~Up
    BY <1>1, Zenon DEF Up
  <1>5. /\ Types /\ bbpdir \in DirType /\ tm \in TmType /\ RecoveredDir \in [Bats -> Entry]
        /\ \A b \in Bats : Stage(b) = "subdir"
    BY <1>1, <1>4, Restarts, Zenon DEF RestartsFact, Types
  <1>6. tm' \in TmType /\ tm'.pc = "recover"
    BY <1>1, <1>5, Zenon DEF TmType
  <1>7. ~Up'
    BY <1>6, Zenon DEF Up
  <1>8. /\ bbpdir'["SUBDIR"] = NoDir /\ bbpdir'["BAKDIR"] = NoDir
        /\ bbpdir'["BATDIR"] = dir /\ bbpdir' \in DirType
    BY <1>1, <1>3, <1>5, Zenon DEF DirType, Dirs
  <1>9. RecoveredDir' = RecoveredDir
    BY <1>3, <1>8, Zenon DEF RecoveredDir
  <1>10. ASSUME NEW b \in Bats PROVE Ok(b, FilesOf(b)', bat'[b], RecoveredDir'[b], tm'.pc)
    <2>1. FilesOf(b)' = FilesOf(b)
      BY <1>1, Zenon DEF FilesOf
    <2>2. bat'[b] = IF RecoveredDir[b] = 0 THEN FreeSlot ELSE OnDisk(RecoveredDir[b])
      BY <1>2, <1>3, Zenon
    <2>3. Gone(FilesOf(b), "SUBDIR")
      BY <1>1, NoEntries, Zenon DEF Dirs
    <2>4. Ok(b, FilesOf(b), IF RecoveredDir[b] = 0 THEN FreeSlot ELSE OnDisk(RecoveredDir[b]),
             RecoveredDir[b], "recover")
      BY <1>5, <2>3, Setup, OkRecoverDir, Zenon DEF SetupFact, OkRecoverDirFact
    <2>5. QED
      BY <1>6, <1>9, <2>1, <2>2, <2>4, Zenon
  <1>11. DirOK'
    <2>1. ~backup_files /\ backup_dir = 0
      BY <1>1, Zenon DEF IInv, DirOK
    <2>2. QED
      BY <1>1, <1>5, <1>6, <1>8, <1>9, <2>1, Zenon DEF DirOK, Phase, counters
  <1>12. Types'
    <2>1. bat' \in [Bats -> Records]
      <3>1. \A b \in Bats : dir[b] \in Entry
        BY <1>3, <1>5, Zenon
      <3>2. \A b \in Bats : (IF dir[b] = 0 THEN FreeSlot ELSE OnDisk(dir[b])) \in Records
        BY <3>1, RecordsIn, Zenon DEF Entry
      <3>3. QED
        BY <1>2, <3>2, Zenon
    <2>2. Flags'
      BY <1>1, <1>5, Zenon DEF Types, Flags, counters
    <2>3. Numbers'
      BY <1>1, <1>5, Zenon DEF Types, Numbers, counters, bounds
    <2>4. QED
      BY <1>1, <1>5, <1>6, <1>8, <2>1, <2>2, <2>3, Zenon DEF Types
  <1>13. QED
    BY <1>1, <1>4, <1>7, <1>9, <1>10, <1>11, <1>12, RestartStep, Zenon

\* BBPrecover keeps the invariant.
LEMMA RecoverFileInv == Preserves(RecoverFile)
  <1> SUFFICES ASSUME Covered, Ordered, IInv, RecoverFile PROVE IInv'
    BY Zenon DEF Preserves
  <1>1. PICK e \in Entries("BAKDIR") :
          /\ tm.pc = "recover"
          /\ file' = IF bat[e[1]].status = "none"
                     THEN [file EXCEPT !["BAKDIR"][e[1]][e[2]] = NoFile]
                     ELSE IF e[2] # "kill" THEN Moved(e[1], e[2], "BAKDIR", "BATDIR")
                     ELSE IF file["BATDIR"][e[1]]["new"] # NoFile
                          THEN [file EXCEPT !["BATDIR"][e[1]]["new"] = NoFile]
                          ELSE [file EXCEPT !["BAKDIR"][e[1]]["kill"] = NoFile]
          /\ UNCHANGED <<bbpdir, bat, counters, BBP_dirty, oid_dirty, tm, sv, bounds>>
    BY Zenon DEF RecoverFile
  <1>2. PICK b \in Bats : b = e[1]
    BY Zenon DEF Entries
  <1>3. PICK n \in Names : n = e[2]
    BY Zenon DEF Entries
  <1>4. file["BAKDIR"][b][n] # NoFile
    BY <1>2, <1>3, Zenon DEF Entries
  <1>5. file' = IF bat[b].status = "none" THEN SetFile("BAKDIR", b, n, NoFile)
                ELSE IF n # "kill" THEN Moved(b, n, "BAKDIR", "BATDIR")
                ELSE IF file["BATDIR"][b]["new"] # NoFile THEN SetFile("BATDIR", b, "new", NoFile)
                ELSE SetFile("BAKDIR", b, n, NoFile)
    BY <1>1, <1>2, <1>3, Zenon DEF SetFile
  <1>6. ~Up /\ ~Up'
    BY <1>1, Zenon DEF Up
  <1>7. /\ Types /\ RecoveredDir \in [Bats -> Entry] /\ \A c \in Bats : Stage(c) = "recover"
    BY <1>1, <1>6, Restarts, Zenon DEF RestartsFact
  <1>8. /\ FilesOf(b) \in Cells /\ bat[b] \in Records /\ RecoveredDir[b] \in Entry
        /\ Ok(b, FilesOf(b), bat[b], RecoveredDir[b], "recover")
        /\ FilesOf(b)["BAKDIR"][n] # NoFile
        /\ \A d \in Dirs, m \in Names : FilesOf(b)[d][m] = file[d][b][m]
    BY <1>4, <1>7, Setup, Zenon DEF SetupFact, Dirs
  <1>9. /\ file' \in FileType /\ FilesOf(b)' \in Cells
        /\ \A c \in Bats \ {b} : FilesOf(c)' = FilesOf(c)
        /\ Returned(FilesOf(b), FilesOf(b)', bat[b], n)
    <2>1. /\ NoFile \in FileValues /\ "BAKDIR" \in Dirs /\ "BATDIR" \in Dirs /\ "new" \in Names
          /\ "BAKDIR" # "BATDIR"
      BY Zenon DEF FileValues, Dirs, Names
    <2>2. CASE bat[b].status = "none"
      <3>1. file' = SetFile("BAKDIR", b, n, NoFile)
        BY <1>5, <2>2, Zenon
      <3>2. /\ file' \in FileType
            /\ \A c \in Bats \ {b} : FilesOf(c)' = FilesOf(c)
            /\ FilesOf(b)' \in Cells
            /\ FilesOf(b)'["BAKDIR"][n] = NoFile
            /\ \A d \in Dirs, m \in Names :
                  ~(d = "BAKDIR" /\ m = n) => FilesOf(b)'[d][m] = FilesOf(b)[d][m]
        <4>1. OneFileAt("BAKDIR", b, n, NoFile)
          BY <2>1, OneFile, Zenon DEF OneFileFact
        <4>2. QED
          BY <3>1, <4>1, Zenon DEF OneFileAt
      <3>3. QED
        BY <2>1, <2>2, <3>2, Zenon DEF Returned
    <2>3. CASE bat[b].status # "none" /\ n # "kill"
      <3>1. file' = Moved(b, n, "BAKDIR", "BATDIR")
        BY <1>5, <2>3, Zenon
      <3>2. /\ file' \in FileType
            /\ \A c \in Bats \ {b} : FilesOf(c)' = FilesOf(c)
            /\ FilesOf(b)' \in Cells
            /\ \A d \in Dirs, m \in Names : FilesOf(b)'[d][m] =
                  IF m # n THEN FilesOf(b)[d][m]
                  ELSE IF d = "BAKDIR" THEN NoFile
                  ELSE IF d = "BATDIR" /\ FilesOf(b)["BAKDIR"][n] # NoFile
                       THEN FilesOf(b)["BAKDIR"][n]
                  ELSE FilesOf(b)[d][m]
        <4>1. MovedFileAt(b, n, "BAKDIR", "BATDIR")
          BY <2>1, MovedFile, Zenon DEF MovedFileFact
        <4>2. QED
          BY <2>1, <3>1, <4>1, Zenon DEF MovedFileAt
      <3>3. QED
        BY <1>8, <2>1, <2>3, <3>2, Zenon DEF Returned
    <2>4. CASE bat[b].status # "none" /\ n = "kill" /\ file["BATDIR"][b]["new"] # NoFile
      <3>1. file' = SetFile("BATDIR", b, "new", NoFile)
        BY <1>5, <2>4, Zenon
      <3>2. /\ file' \in FileType
            /\ \A c \in Bats \ {b} : FilesOf(c)' = FilesOf(c)
            /\ FilesOf(b)' \in Cells
            /\ FilesOf(b)'["BATDIR"]["new"] = NoFile
            /\ \A d \in Dirs, m \in Names :
                  ~(d = "BATDIR" /\ m = "new") => FilesOf(b)'[d][m] = FilesOf(b)[d][m]
        <4>1. OneFileAt("BATDIR", b, "new", NoFile)
          BY <2>1, OneFile, Zenon DEF OneFileFact
        <4>2. QED
          BY <3>1, <4>1, Zenon DEF OneFileAt
      <3>3. QED
        BY <1>8, <2>1, <2>4, <3>2 DEF Returned
    <2>5. CASE bat[b].status # "none" /\ n = "kill" /\ file["BATDIR"][b]["new"] = NoFile
      <3>1. file' = SetFile("BAKDIR", b, n, NoFile)
        BY <1>5, <2>5, Zenon
      <3>2. /\ file' \in FileType
            /\ \A c \in Bats \ {b} : FilesOf(c)' = FilesOf(c)
            /\ FilesOf(b)' \in Cells
            /\ FilesOf(b)'["BAKDIR"][n] = NoFile
            /\ \A d \in Dirs, m \in Names :
                  ~(d = "BAKDIR" /\ m = n) => FilesOf(b)'[d][m] = FilesOf(b)[d][m]
        <4>1. OneFileAt("BAKDIR", b, n, NoFile)
          BY <2>1, OneFile, Zenon DEF OneFileFact
        <4>2. QED
          BY <3>1, <4>1, Zenon DEF OneFileAt
      <3>3. QED
        BY <1>8, <2>1, <2>5, <3>2 DEF Returned
    <2>6. QED
      BY <2>2, <2>3, <2>4, <2>5, Zenon
  <1>10. Ok(b, FilesOf(b)', bat[b], RecoveredDir[b], "recover")
    BY <1>8, <1>9, OkRecoverFile, Zenon DEF OkRecoverFileFact
  <1>11. RecoveredDir' = RecoveredDir
    BY <1>1, Zenon DEF RecoveredDir
  <1>12. ASSUME NEW c \in Bats PROVE Ok(c, FilesOf(c)', bat'[c], RecoveredDir'[c], tm'.pc)
    <2>1. c # b => Ok(c, FilesOf(c)', bat[c], RecoveredDir[c], "recover")
      BY <1>7, <1>9, Setup, Zenon DEF SetupFact
    <2>2. QED
      BY <1>1, <1>10, <1>11, <2>1, Zenon
  <1>13. DirOK'
    BY <1>1, <1>11, Zenon DEF IInv, DirOK, Phase, counters
  <1>14. Types'
    BY <1>1, <1>7, <1>9, Zenon DEF Types, Flags, Numbers, counters, bounds
  <1>15. QED
    BY <1>1, <1>6, <1>12, <1>13, <1>14, RestartStep, Zenon

\* BBPprepare in BBPinit keeps the invariant and the BBP.dir that counts.
LEMMA RecoverPrepareInv == Keeps(RecoverPrepare)
  <1> SUFFICES ASSUME Covered, Ordered, IInv, RecoverPrepare
               PROVE  IInv' /\ RecoveredDir' = RecoveredDir
    BY Zenon DEF Keeps
  <1>1. /\ tm.pc = "recover" /\ Entries("BAKDIR") = {} /\ BBPprepare(FALSE)
        /\ tm' = [tm EXCEPT !.pc = "diskscan"]
        /\ UNCHANGED <<file, bat, BBP_dirty, oid_dirty, sv, bounds>>
    BY Zenon DEF RecoverPrepare
  <1>2. ~Up
    BY <1>1, Zenon DEF Up
  <1>3. /\ Types /\ bbpdir \in DirType /\ tm \in TmType /\ RecoveredDir \in [Bats -> Entry]
        /\ \A b \in Bats : Stage(b) = "recover"
    BY <1>1, <1>2, Restarts, Zenon DEF RestartsFact, Types
  <1>4. tm' \in TmType /\ tm'.pc = "diskscan"
    BY <1>1, <1>3, Zenon DEF TmType
  <1>5. ~Up'
    BY <1>4, Zenon DEF Up
  <1>6. ~backup_files /\ bbpdir["BAKDIR"] = NoDir /\ bbpdir["SUBDIR"] = NoDir
    BY <1>1, Zenon DEF IInv, DirOK
  <1>7. /\ bbpdir' = [bbpdir EXCEPT !["BATDIR"] = NoDir, !["BAKDIR"] = bbpdir["BATDIR"]]
        /\ backup_dir' = 1 /\ backup_files' = TRUE
    BY <1>1, <1>6 DEF BBPprepare, DirOwner, DirMark, DirSource, BackupDir
  <1>8. RecoveredDir = bbpdir["BATDIR"]
    BY <1>6, Zenon DEF RecoveredDir
  <1>9. /\ bbpdir'["BAKDIR"] = RecoveredDir /\ bbpdir'["SUBDIR"] = NoDir
        /\ bbpdir' \in DirType
    BY <1>3, <1>6, <1>7, <1>8, Zenon DEF DirType, Dirs
  <1>10. bbpdir'["BAKDIR"] # NoDir
    BY <1>3, <1>9, FullDir, Zenon
  <1>11. RecoveredDir' = RecoveredDir
    BY <1>9, <1>10, Zenon DEF RecoveredDir
  <1>12. ASSUME NEW b \in Bats PROVE Ok(b, FilesOf(b)', bat'[b], RecoveredDir'[b], tm'.pc)
    <2>1. FilesOf(b)' = FilesOf(b)
      BY <1>1, Zenon DEF FilesOf
    <2>2. Gone(FilesOf(b), "BAKDIR")
      BY <1>1, NoEntries, Zenon DEF Dirs
    <2>3. Ok(b, FilesOf(b), bat[b], RecoveredDir[b], "diskscan")
      BY <1>3, <2>2, Setup, OkRecoverPrepare, Zenon DEF SetupFact, OkRecoverPrepareFact
    <2>4. QED
      BY <1>1, <1>4, <1>11, <2>1, <2>3, Zenon
  <1>13. DirOK'
    BY <1>3, <1>4, <1>7, <1>9, <1>10, <1>11, Zenon DEF DirOK, Phase
  <1>14. Types'
    <2>1. backup_subdir' \in BOOLEAN
      BY <1>1, Zenon DEF BBPprepare
    <2>2. Flags'
      BY <1>1, <1>3, <1>7, <2>1, Zenon DEF Types, Flags
    <2>3. Numbers'
      BY <1>1, <1>3, <1>7 DEF Types, Numbers, bounds
    <2>4. QED
      BY <1>1, <1>3, <1>4, <1>9, <2>2, <2>3, Zenon DEF Types
  <1>15. QED
    BY <1>1, <1>2, <1>5, <1>11, <1>12, <1>13, <1>14, RestartStep, Zenon

\* BBPdiskscan keeps the invariant.
LEMMA BBPdiskscanInv == Preserves(BBPdiskscan)
  <1> SUFFICES ASSUME Covered, Ordered, IInv, BBPdiskscan PROVE IInv'
    BY Zenon DEF Preserves
  <1>1. /\ tm.pc = "diskscan" /\ tm' = Idle
        /\ UNCHANGED <<bbpdir, bat, counters, BBP_dirty, oid_dirty, sv, bounds>>
    BY Zenon DEF BBPdiskscan
  <1>2. file' = [file EXCEPT !["BATDIR"] =
            [b \in Bats |-> IF bat[b].status = "none" THEN EmptyDir[b] ELSE @[b]]]
    BY Zenon DEF BBPdiskscan
  <1>3. ~Up
    BY <1>1, Zenon DEF Up
  <1>4. /\ Types /\ file \in FileType /\ RecoveredDir \in [Bats -> Entry] /\ sv = NoSave
        /\ \A b \in Bats : Stage(b) = "diskscan"
    BY <1>1, <1>3, Restarts, Zenon DEF RestartsFact, Types
  <1>5. tm' \in TmType /\ tm'.pc = "done"
    BY <1>1, Zenon DEF TmType, Idle
  <1>6. Up' /\ ~Committing'
    BY <1>5, Zenon DEF Up, Committing
  <1>7. RecoveredDir' = RecoveredDir
    BY <1>1, Zenon DEF RecoveredDir
  <1>8. file' \in FileType
    BY <1>2, <1>4, Zenon DEF FileType, FileValues, EmptyDir
  <1>9. ASSUME NEW b \in Bats PROVE BatOK(b)' /\ MarkedDirty(b)'
    <2>1. \A d \in Dirs, m \in Names : file'[d][b][m] =
             IF d = "BATDIR" /\ bat[b].status = "none" THEN NoFile ELSE file[d][b][m]
      <3>1. /\ DOMAIN file = Dirs /\ "BATDIR" \in Dirs
            /\ \A m \in Names : EmptyDir[b][m] = NoFile
        BY <1>4, Zenon DEF FileType, EmptyDir, Dirs
      <3>2. QED
        BY <1>2, <3>1, Zenon
    <2>2. \A d \in Dirs, m \in Names : FilesOf(b)'[d][m] =
             IF d = "BATDIR" /\ bat[b].status = "none" THEN NoFile ELSE FilesOf(b)[d][m]
      BY <1>8, <2>1, NextFiles, Setup DEF NextFilesFact, SetupFact
    <2>3. FilesOf(b)' \in Cells
      BY <1>8, NextFiles, Zenon DEF NextFilesFact
    <2>4. Ok(b, FilesOf(b), bat[b], RecoveredDir[b], "diskscan")
      BY <1>4, Setup, Zenon DEF SetupFact
    <2>5. Ok(b, FilesOf(b)', bat[b], RecoveredDir[b], "free")
      BY <2>2, <2>3, <2>4, Setup, OkDiskscan, Zenon DEF SetupFact, OkDiskscanFact
    <2>6. RecoveredDir[b] = Shown(bat[b])
      BY <2>4, Zenon DEF Ok, Restarting, Shown, Lasting
    <2>7. Stage(b)' = "free"
      BY <1>6, Zenon DEF Stage
    <2>8. BatOK(b)'
      BY <1>1, <1>7, <2>5, <2>7, Zenon DEF BatOK
    <2>9. MarkedDirty(b)'
      BY <1>1, <1>5, <1>7, <2>6, Zenon DEF MarkedDirty, Phase
    <2>10. QED
      BY <2>8, <2>9, Zenon
  <1>10. DirOK'
    BY <1>1, <1>5, <1>7, Zenon DEF IInv, DirOK, Phase, counters
  <1>11. TmOK' /\ SvOK'
    BY <1>1, <1>4, <1>5, <1>6, Zenon DEF TmOK, SvOK, Phase
  <1>12. Types'
    BY <1>1, <1>4, <1>5, <1>8, Zenon DEF Types, Flags, Numbers, counters, bounds
  <1>13. QED
    BY <1>9, <1>10, <1>11, <1>12, TypeNext, Zenon DEF IInv

=============================================================================
