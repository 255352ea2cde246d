---------------------------- MODULE BBPSyncProofs ----------------------------
(***************************************************************************)
(* The steps of a commit keep the invariant of BBPSyncInvariant, and what  *)
(* follows: the properties of BBPSync, and that it implements Checkpoint.  *)
(***************************************************************************)
EXTENDS BBPSyncInvariant

-----------------------------------------------------------------------------
(* TMcommit and TMsubcommit.                                               *)

SvStepFact ==
    /\ IInv
    /\ sv' = sv
    /\ \A b \in Bats : Saving /\ b = sv.bat =>
          /\ Stage(b)' \in {"free", "listed"}
          /\ Committing' => tm'.sub
          /\ file'["BAKDIR"][b] = file["BAKDIR"][b]
          /\ bat'[b].status = bat[b].status /\ bat'[b].loaded = bat[b].loaded
          /\ bat'[b].dirty = bat[b].dirty /\ bat'[b].swapped = bat[b].swapped
          /\ bat[b].aligned => bat'[b].aligned
    => SvOK'

\* The bat being unloaded is untouched by a step of a commit.
LEMMA SvStep == SvStepFact
  <1> SUFFICES ASSUME IInv, sv' = sv,
                      \A b \in Bats : Saving /\ b = sv.bat =>
                         /\ Stage(b)' \in {"free", "listed"}
                         /\ Committing' => tm'.sub
                         /\ file'["BAKDIR"][b] = file["BAKDIR"][b]
                         /\ bat'[b].status = bat[b].status /\ bat'[b].loaded = bat[b].loaded
                         /\ bat'[b].dirty = bat[b].dirty /\ bat'[b].swapped = bat[b].swapped
                         /\ bat[b].aligned => bat'[b].aligned
               PROVE  SvOK'
    BY Zenon DEF SvStepFact
  <1>1. CASE sv = NoSave
    BY <1>1, Zenon DEF SvOK
  <1>2. CASE Saving
    <2>1. PICK b \in Bats : b = sv.bat
      BY <1>2, BatsAssumption, Zenon DEF Saving
    <2>2. /\ Stage(b)' \in {"free", "listed"} /\ (Committing' => tm'.sub)
          /\ file'["BAKDIR"][b] = file["BAKDIR"][b]
          /\ bat'[b].status = bat[b].status /\ bat'[b].loaded = bat[b].loaded
          /\ bat'[b].dirty = bat[b].dirty /\ bat'[b].swapped = bat[b].swapped
          /\ bat[b].aligned => bat'[b].aligned
      BY <1>2, <2>1, Zenon
    <2>3. b = sv'.bat /\ sv'.pc = sv.pc
      BY <2>1, Zenon
    <2>4. Saving'
      BY <1>2, <2>1, <2>2, <2>3, Zenon DEF Saving, Persistent
    <2>5. QED
      BY <2>4, Zenon DEF SvOK
  <1>3. QED
    BY <1>1, <1>2, Zenon DEF IInv, SvOK

\* What TMcommit or TMsubcommit start from.
LEMMA PreludeInv ==
    ASSUME NEW list \in SUBSET Bats, NEW sub \in BOOLEAN,
           IF sub THEN list \in Sublists ELSE list = Bats
    PROVE  Preserves(Prelude(list, sub))
  <1> SUFFICES ASSUME Covered, Ordered, IInv, Prelude(list, sub) PROVE IInv'
    BY Zenon DEF Preserves
  <1> DEFINE committed == {b \in list : Persistent(b) /\ (bat[b].loaded \/ bat[b].swapped)}
  <1>1. /\ tm.pc \in {"done", "failed"} /\ (sub \/ sv.pc = "idle")
        /\ bat' = [b \in Bats |-> IF b \in committed
                      THEN [bat[b] EXCEPT !.delta = FALSE, !.aligned = TRUE] ELSE bat[b]]
        /\ oid_dirty' = (oid_dirty \/ FreshOid \/ \E b \in committed : ~bat[b].aligned)
        /\ tm' = [Idle EXCEPT !.pc = "prepare", !.list = list, !.sub = sub]
        /\ UNCHANGED <<disk, counters, BBP_dirty, sv, bounds>>
    BY Zenon DEF Prelude
  <1>2. /\ tm'.pc = "prepare" /\ tm'.list = list /\ tm'.sub = sub /\ tm'.todo = {}
        /\ tm' \in TmType
    BY <1>1, Zenon DEF Idle, TmType
  <1>3. Up /\ ~Committing /\ Up' /\ Committing'
    BY <1>1, <1>2, Zenon DEF Up, Committing
  <1>4. Types
    BY TypeIs, Zenon DEF IInv
  <1>5. ASSUME NEW b \in Bats
        PROVE  /\ bat[b] \in Records /\ bat'[b] \in Records
               /\ bat'[b] = bat[b] \/ /\ Lasting(bat[b]) /\ b \in list
                                      /\ bat'[b] = [bat[b] EXCEPT !.delta = FALSE, !.aligned = TRUE]
               /\ b \notin committed => bat'[b] = bat[b]
    <2>1. bat[b] \in Records
      BY <1>4, Zenon DEF Types
    <2>2. [bat[b] EXCEPT !.delta = FALSE, !.aligned = TRUE] \in Records
      BY <2>1, Zenon DEF Records
    <2>3. QED
      BY <1>1, <2>1, <2>2, Zenon DEF Lasting, Persistent
  <1>6. bat' \in [Bats -> Records]
    BY <1>1, <1>5, Zenon
  <1>7. ASSUME NEW b \in Bats
        PROVE  /\ bat'[b].status = bat[b].status /\ bat'[b].loaded = bat[b].loaded
               /\ bat'[b].dirty = bat[b].dirty /\ bat'[b].swapped = bat[b].swapped
               /\ bat'[b].version = bat[b].version /\ (bat[b].aligned => bat'[b].aligned)
    BY <1>5, Zenon DEF Records
  <1>8. (oid_dirty => oid_dirty') /\ (FreshOid => oid_dirty')
        /\ \A b \in committed : ~bat[b].aligned => oid_dirty'
    BY <1>1, Zenon
  <1>9. Types'
    <2>1. oid_dirty' \in BOOLEAN
      BY <1>1, Zenon
    <2>2. Flags' /\ Numbers'
      BY <1>1, <1>4, <2>1, Zenon DEF Types, Flags, Numbers, counters, bounds
    <2>3. QED
      BY <1>1, <1>2, <1>4, <1>6, <2>2, Zenon DEF Types, disk
  <1>10. ASSUME NEW b \in Bats
         PROVE  Stage(b) = "free" /\ Stage(b)' = (IF b \in list THEN "listed" ELSE "free")
    BY <1>2, <1>3, Zenon DEF Stage
  <1>11. RecoveredDir' = RecoveredDir
    BY <1>1, Zenon DEF RecoveredDir, disk
  <1> HIDE DEF committed
  <1>12. ASSUME NEW b \in Bats PROVE BatOK(b)'
    <2>1. /\ FilesOf(b)' = FilesOf(b) /\ FilesOf(b) \in Cells /\ RecoveredDir[b] \in Entry
          /\ Ok(b, FilesOf(b), bat[b], RecoveredDir[b], "free")
      BY <1>1, <1>10, Setup, Zenon DEF SetupFact, FilesOf, disk
    <2>2. CASE b \in list
      <3>1. Ok(b, FilesOf(b), bat'[b], RecoveredDir[b], "listed")
        BY <1>5, <2>1, OkPrelude, Zenon
      <3>2. QED
        BY <1>10, <1>11, <2>1, <2>2, <3>1, Zenon DEF BatOK
    <2>3. CASE b \notin list
      BY <1>5, <1>10, <1>11, <2>1, <2>3, Zenon DEF BatOK
    <2>4. QED
      BY <2>2, <2>3, Zenon
  <1>13. DirOK'
    BY <1>1, <1>2, <1>11, Zenon DEF IInv, DirOK, Phase, disk, counters
  <1>14. TmOK'
    BY <1>2, <1>8, Zenon DEF TmOK, Phase, Covered
  <1>15. SvOK'
    <2>1. ASSUME NEW b \in Bats, Saving, b = sv.bat
          PROVE  /\ Stage(b)' \in {"free", "listed"} /\ tm'.sub
                 /\ file'["BAKDIR"][b] = file["BAKDIR"][b]
      BY <1>1, <1>2, <1>10, <2>1, Zenon DEF Saving, disk
    <2>2. QED
      BY <1>1, <1>7, <2>1, SvStep, Zenon DEF SvStepFact
  <1>16. ASSUME NEW b \in Bats PROVE MarkedDirty(b)'
    <2>1. Shown(bat'[b]) = Shown(bat[b])
      BY <1>7, Zenon DEF Shown, Lasting
    <2>2. Sublists = {} /\ Lasting(bat[b]) /\ bat[b].loaded => b \in committed
      BY Zenon DEF committed, Lasting, Persistent
    <2>3. MarkedDirty(b)
      BY Zenon DEF IInv
    <2>4. QED
      BY <1>1, <1>2, <1>3, <1>8, <1>11, <2>1, <2>2, <2>3, Zenon DEF MarkedDirty, Phase
  <1>17. QED
    BY <1>9, <1>12, <1>13, <1>14, <1>15, <1>16, TypeNext, Zenon DEF IInv

SyncPrepareDirFact ==
    /\ IInv
    /\ tm.pc = "prepare"
    => /\ CanPrepare(tm.sub)
       /\ BBPprepare(tm.sub) =>
             /\ RecoveredDir' = RecoveredDir /\ bbpdir' \in DirType
             /\ backup_files' = TRUE /\ backup_dir' = DirMark(tm.sub)
             /\ (bbpdir'["BAKDIR"] # NoDir) <=> ~tm.sub
             /\ (bbpdir'["SUBDIR"] # NoDir) <=> tm.sub

\* BBPprepare at the start of BBPsync finds BBP.dir in BAKDIR; a subcommit takes
\* it to SUBDIR.
LEMMA SyncPrepareDir == SyncPrepareDirFact
  <1> SUFFICES ASSUME IInv, tm.pc = "prepare"
               PROVE  /\ CanPrepare(tm.sub)
                      /\ BBPprepare(tm.sub) =>
                            /\ RecoveredDir' = RecoveredDir /\ bbpdir' \in DirType
                            /\ backup_files' = TRUE /\ backup_dir' = DirMark(tm.sub)
                            /\ (bbpdir'["BAKDIR"] # NoDir) <=> ~tm.sub
                            /\ (bbpdir'["SUBDIR"] # NoDir) <=> tm.sub
    BY Zenon DEF SyncPrepareDirFact
  <1>1. /\ backup_files /\ backup_dir = 1 /\ bbpdir["BAKDIR"] # NoDir
        /\ bbpdir["SUBDIR"] = NoDir
    BY Zenon DEF IInv, DirOK
  <1>2. DirOwner = 1 /\ DirSource = "BAKDIR"
    BY <1>1 DEF DirOwner, DirSource
  <1>3. CanPrepare(tm.sub)
    BY <1>1, <1>2, Zenon DEF CanPrepare
  <1>4. ASSUME BBPprepare(tm.sub)
        PROVE  /\ RecoveredDir' = RecoveredDir /\ bbpdir' \in DirType
               /\ backup_files' = TRUE /\ backup_dir' = DirMark(tm.sub)
               /\ (bbpdir'["BAKDIR"] # NoDir) <=> ~tm.sub
               /\ (bbpdir'["SUBDIR"] # NoDir) <=> tm.sub
    <2>1. bbpdir \in DirType /\ tm.sub \in BOOLEAN
      BY TypeIs, Zenon DEF IInv, Types, TmType
    <2>2. backup_files' = TRUE /\ backup_dir' = DirMark(tm.sub)
      BY <1>4, Zenon DEF BBPprepare
    <2>3. CASE tm.sub
      <3>1. bbpdir' = [bbpdir EXCEPT !["BAKDIR"] = NoDir, !["SUBDIR"] = bbpdir["BAKDIR"]]
        BY <1>2, <1>4, <2>3 DEF BBPprepare, DirMark, BackupDir
      <3>2. bbpdir'["BAKDIR"] = NoDir /\ bbpdir'["SUBDIR"] = bbpdir["BAKDIR"] /\ bbpdir' \in DirType
        BY <2>1, <3>1, Zenon DEF DirType, Dirs
      <3>3. QED
        BY <1>1, <2>2, <2>3, <3>2, Zenon DEF RecoveredDir
    <2>4. CASE ~tm.sub
      <3>1. bbpdir' = bbpdir
        BY <1>2, <1>4, <2>4, Zenon DEF BBPprepare, DirMark
      <3>2. QED
        BY <1>1, <2>1, <2>2, <2>4, <3>1, Zenon DEF RecoveredDir
    <2>5. QED
      BY <2>3, <2>4, Zenon
  <1>5. QED
    BY <1>3, <1>4, Zenon

\* Every bat keeps its files, record, entry and stage.
LEMMA SameBats ==
    ASSUME IInv, UNCHANGED <<file, bat>>, RecoveredDir' = RecoveredDir,
           \A b \in Bats : Stage(b)' = Stage(b)
    PROVE  \A b \in Bats : BatOK(b)'
  BY SameKept, Zenon DEF Same, FilesOf, IInv

\* BBPprepare in BBPsync keeps the invariant and the BBP.dir that counts.
LEMMA SyncPrepareInv == Keeps(SyncPrepare)
  <1> SUFFICES ASSUME Covered, Ordered, IInv, SyncPrepare
               PROVE  IInv' /\ RecoveredDir' = RecoveredDir
    BY Zenon DEF Keeps
  <1> DEFINE dirty == BBP_dirty \/ oid_dirty
  <1>1. tm.pc = "prepare" /\ CanPrepare(tm.sub)
    BY SyncPrepareDir, Zenon DEF SyncPrepareDirFact, SyncPrepare
  <1>2. /\ BBP_dirty' = dirty /\ BBPprepare(tm.sub)
        /\ tm' = [tm EXCEPT !.pc = IF tm.list = {} THEN "dir" ELSE "backup",
                            !.todo = tm.list, !.bbpdirty = dirty]
        /\ UNCHANGED <<file, bat, oid_dirty, sv, bounds>>
    BY <1>1, Zenon DEF SyncPrepare
  <1>3. /\ RecoveredDir' = RecoveredDir /\ bbpdir' \in DirType
        /\ backup_files' = TRUE /\ backup_dir' = DirMark(tm.sub)
        /\ (bbpdir'["BAKDIR"] # NoDir) <=> ~tm.sub
        /\ (bbpdir'["SUBDIR"] # NoDir) <=> tm.sub
    BY <1>1, <1>2, SyncPrepareDir, Zenon DEF SyncPrepareDirFact
  <1>4. Types /\ tm \in TmType
    BY TypeIs, Zenon DEF IInv, Types
  <1>5. /\ tm'.pc = (IF tm.list = {} THEN "dir" ELSE "backup") /\ tm'.todo = tm.list
        /\ tm'.bbpdirty = dirty /\ tm'.list = tm.list /\ tm'.sub = tm.sub /\ tm' \in TmType
    BY <1>2, <1>4, Zenon DEF TmType
  <1>6. Up /\ Up' /\ Committing /\ Committing'
    BY <1>1, <1>5, Zenon DEF Up, Committing
  <1>7. Types'
    <2>1. backup_subdir' \in BOOLEAN
      BY <1>2, Zenon DEF BBPprepare
    <2>2. backup_dir' \in 0 .. 2
      BY <1>3 DEF DirMark
    <2>3. Flags'
      BY <1>2, <1>3, <1>4, <2>1, Zenon DEF Types, Flags
    <2>4. Numbers'
      BY <1>2, <1>4, <2>2, Zenon DEF Types, Numbers, bounds
    <2>5. QED
      BY <1>2, <1>3, <1>4, <1>5, <2>3, <2>4, Zenon DEF Types
  <1>8. \A b \in Bats : Stage(b)' = Stage(b)
    BY <1>1, <1>5, <1>6, Zenon DEF Stage
  <1>9. \A b \in Bats : BatOK(b)'
    BY <1>2, <1>3, <1>8, SameBats, Zenon
  <1>10. Sublists # {} => oid_dirty
    BY <1>1, Zenon DEF IInv, TmOK
  <1>11. IF tm.sub THEN tm.list \in Sublists ELSE tm.list = Bats
    BY <1>6, Zenon DEF IInv, TmOK
  <1>12. DirOK'
    <2>1. RecoveredDir' \in [Bats -> Entry]
      BY <1>3, Zenon DEF IInv, DirOK
    <2>2. QED
      BY <1>3, <1>5, <2>1, Zenon DEF DirOK, Phase
  <1>13. TmOK'
    <2>1. (tm'.bbpdirty => BBP_dirty') /\ (Sublists # {} => tm'.bbpdirty)
      BY <1>2, <1>5, <1>10, Zenon
    <2>2. tm'.pc = "backup" => tm'.todo # {} /\ tm'.todo \subseteq tm'.list
      BY <1>5, Zenon
    <2>3. QED
      BY <1>5, <1>11, <2>1, <2>2, Zenon DEF TmOK, Phase
  <1>14. SvOK'
    BY <1>2, <1>5, <1>6, <1>8, SvStep, Zenon DEF SvStepFact, Saving
  <1>15. ASSUME NEW b \in Bats PROVE MarkedDirty(b)'
    BY <1>1, <1>2, <1>3, <1>5, <1>6, <1>10, Zenon DEF IInv, MarkedDirty, Phase
  <1>16. QED
    BY <1>3, <1>7, <1>9, <1>12, <1>13, <1>14, <1>15, TypeNext, Zenon DEF IInv

BackedUpFileFact ==
    \A b \in Bats, sub \in BOOLEAN :
      /\ IInv
      /\ file' = IF bat[b].status = "EXISTING" /\ (bat[b].loaded \/ bat[b].swapped)
                 THEN BackedUp(b, sub) ELSE file
      => /\ file' \in FileType /\ FilesOf(b)' \in Cells
         /\ \A c \in Bats \ {b} : FilesOf(c)' = FilesOf(c)
         /\ PutsAway(b, FilesOf(b), FilesOf(b)', bat[b], sub)

\* What do_backup does to the files of one bat.
LEMMA BackedUpFile == BackedUpFileFact
  <1> SUFFICES ASSUME NEW b \in Bats, NEW sub \in BOOLEAN, IInv,
                      file' = IF bat[b].status = "EXISTING" /\ (bat[b].loaded \/ bat[b].swapped)
                              THEN BackedUp(b, sub) ELSE file
               PROVE  /\ file' \in FileType /\ FilesOf(b)' \in Cells
                      /\ \A c \in Bats \ {b} : FilesOf(c)' = FilesOf(c)
                      /\ PutsAway(b, FilesOf(b), FilesOf(b)', bat[b], sub)
    BY Zenon DEF BackedUpFileFact
  <1> DEFINE away == bat[b].status = "EXISTING" /\ (bat[b].loaded \/ bat[b].swapped)
             n == SaveName(b)
             dst == BackupDir(sub)
  <1>1. /\ file \in FileType /\ n \in Names /\ dst \in {"BAKDIR", "SUBDIR"}
        /\ \A d \in Dirs, m \in Names : FilesOf(b)[d][m] = file[d][b][m]
    BY Setup, Zenon DEF SetupFact, Types, SaveName, Names, BackupDir
  <1>2. CASE away /\ bat[b].dirty /\ file["BAKDIR"][b][n] = NoFile /\ file[dst][b][n] = NoFile
             /\ b \in Priv /\ file["BATDIR"][b][n] = NoFile
    <2>1. file' = SetFile(dst, b, "kill", 1)
      BY <1>2, Zenon DEF BackedUp, HeapMoved, SetFile
    <2>2. 1 \in FileValues /\ "kill" \in Names /\ dst \in Dirs
      BY <1>1, BoundsAssumption DEF FileValues, Versions, Names, Dirs
    <2> HIDE DEF n, dst
    <2>3. /\ file' \in FileType /\ FilesOf(b)' \in Cells
          /\ \A c \in Bats \ {b} : FilesOf(c)' = FilesOf(c)
          /\ FilesOf(b)'[dst]["kill"] = 1
          /\ \A d \in Dirs, m \in Names :
                ~(d = dst /\ m = "kill") => FilesOf(b)'[d][m] = FilesOf(b)[d][m]
      BY <2>1, <2>2, OneFile DEF OneFileFact, OneFileAt
    <2>4. QED
      BY <1>1, <1>2, <2>2, <2>3 DEF PutsAway, Dirs, Names, n, dst
  <1>3. CASE away /\ bat[b].dirty /\ file["BAKDIR"][b][n] = NoFile /\ file[dst][b][n] = NoFile
             /\ ~(b \in Priv /\ file["BATDIR"][b][n] = NoFile)
    <2>1. file' = Moved(b, n, "BATDIR", dst)
      BY <1>3, Zenon DEF BackedUp, HeapMoved
    <2> HIDE DEF n, dst
    <2>2. /\ file' \in FileType /\ FilesOf(b)' \in Cells
          /\ \A c \in Bats \ {b} : FilesOf(c)' = FilesOf(c)
          /\ \A d \in Dirs, m \in Names : FilesOf(b)'[d][m] =
                IF m # n THEN FilesOf(b)[d][m]
                ELSE IF d = "BATDIR" THEN NoFile
                ELSE IF d = dst /\ FilesOf(b)["BATDIR"][n] # NoFile THEN FilesOf(b)["BATDIR"][n]
                ELSE FilesOf(b)[d][m]
      BY <1>1, <2>1, MovedFile DEF MovedFileFact, MovedFileAt, Dirs
    <2>3. QED
      BY <1>1, <1>3, <2>2 DEF PutsAway, Dirs, n, dst
  <1>4. CASE away /\ ~(bat[b].dirty /\ file["BAKDIR"][b][n] = NoFile) /\ sub
    <2>1. file' = Moved(b, n, "BAKDIR", "SUBDIR")
      BY <1>4, Zenon DEF BackedUp
    <2>2. /\ file' \in FileType /\ FilesOf(b)' \in Cells
          /\ \A c \in Bats \ {b} : FilesOf(c)' = FilesOf(c)
          /\ \A d \in Dirs, m \in Names : FilesOf(b)'[d][m] =
                IF m # n THEN FilesOf(b)[d][m]
                ELSE IF d = "BAKDIR" THEN NoFile
                ELSE IF d = "SUBDIR" /\ FilesOf(b)["BAKDIR"][n] # NoFile THEN FilesOf(b)["BAKDIR"][n]
                ELSE FilesOf(b)[d][m]
      BY <1>1, <2>1, MovedFile DEF MovedFileFact, MovedFileAt, Dirs
    <2>3. FilesOf(b)["BAKDIR"][n] = file["BAKDIR"][b][n]
      BY <1>1, Zenon DEF Dirs
    <2>4. /\ ~(bat[b].dirty /\ FilesOf(b)["BAKDIR"][SaveName(b)] = NoFile)
          /\ bat[b].status = "EXISTING" /\ (bat[b].loaded \/ bat[b].swapped)
      BY <1>4, <2>3, Zenon
    <2>5. ASSUME NEW d \in Dirs, NEW m \in Names
          PROVE  FilesOf(b)'[d][m] =
                   IF m = SaveName(b)
                   THEN IF d = "SUBDIR"
                        THEN IF FilesOf(b)["BAKDIR"][SaveName(b)] # NoFile
                             THEN FilesOf(b)["BAKDIR"][SaveName(b)]
                             ELSE FilesOf(b)["SUBDIR"][SaveName(b)]
                        ELSE IF d = "BAKDIR" THEN NoFile ELSE FilesOf(b)[d][m]
                   ELSE FilesOf(b)[d][m]
      BY <2>2
    <2>6. PutsAway(b, FilesOf(b), FilesOf(b)', bat[b], sub)
      <3>1. sub
        BY <1>4, Zenon
      <3>2. QED
        BY <2>4, <2>5, <3>1, ZenonT(30) DEF PutsAway
    <2>7. QED
      BY <2>2, <2>6, Zenon
  <1>5. CASE \/ ~away
             \/ bat[b].dirty /\ file["BAKDIR"][b][n] = NoFile /\ file[dst][b][n] # NoFile
             \/ ~(bat[b].dirty /\ file["BAKDIR"][b][n] = NoFile) /\ ~sub
    <2>1. file' = file
      BY <1>5, Zenon DEF BackedUp, HeapMoved
    <2>2. FilesOf(b)' = FilesOf(b) /\ FilesOf(b)' \in Cells
      BY <1>1, <2>1, NextFiles, Zenon DEF NextFilesFact, FilesOf
    <2>3. QED
      BY <1>1, <1>5, <2>1, <2>2, ZenonT(30) DEF PutsAway, FilesOf, Dirs
  <1>6. QED
    BY <1>2, <1>3, <1>4, <1>5, Zenon

AdvanceIsFact ==
    \A c \in Bats, todo \in SUBSET Bats, next \in {"save", "dir"} :
      \A t :
        /\ IInv
        /\ c = Current
        /\ t = Advance(next, todo)
        => /\ t.pc = (IF tm.todo = {c} THEN next ELSE tm.pc)
           /\ t.todo = (IF tm.todo = {c} THEN todo ELSE tm.todo \ {c})
           /\ t.list = tm.list /\ t.sub = tm.sub /\ t.bbpdirty = tm.bbpdirty
           /\ t.error = tm.error /\ t \in TmType

\* A loop of BBPsync goes to its next bat, or to the next loop.
LEMMA AdvanceIs == AdvanceIsFact
  <1> SUFFICES ASSUME NEW c \in Bats, NEW todo \in SUBSET Bats,
                      NEW next \in {"save", "dir"}, NEW t, IInv, c = Current,
                      t = Advance(next, todo)
               PROVE  /\ t.pc = (IF tm.todo = {c} THEN next ELSE tm.pc)
                      /\ t.todo = (IF tm.todo = {c} THEN todo ELSE tm.todo \ {c})
                      /\ t.list = tm.list /\ t.sub = tm.sub /\ t.bbpdirty = tm.bbpdirty
                      /\ t.error = tm.error /\ t \in TmType
    BY DEF AdvanceIsFact
  <1>1. tm \in TmType
    BY TypeIs, Zenon DEF IInv, Types
  <1>2. CASE tm.todo = {c}
    BY <1>1, <1>2, Zenon DEF Advance, TmType
  <1>3. CASE tm.todo # {c}
    BY <1>1, <1>3, Zenon DEF Advance, TmType
  <1>4. QED
    BY <1>2, <1>3, Zenon

ListStepFact ==
    \A c \in Bats :
      /\ IInv
      /\ Types'
      /\ sv # NoSave => sv.bat # c
      /\ tm.pc \in {"backup", "save", "write"}
      /\ tm'.pc \in {"backup", "save", "write", "dir"}
      /\ tm'.list = tm.list
      /\ tm'.sub = tm.sub
      /\ tm'.bbpdirty = tm.bbpdirty
      /\ UNCHANGED <<bbpdir, backup_files, backup_dir, BBP_dirty, sv>>
      /\ \A b \in Bats \ {c} : /\ FilesOf(b)' = FilesOf(b) /\ bat'[b] = bat[b]
                               /\ Stage(b)' = Stage(b)
      /\ Ok(c, FilesOf(c)', bat'[c], RecoveredDir[c], Stage(c)')
      /\ Shown(bat'[c]) = Shown(bat[c])
      /\ tm'.pc # "dir" => tm'.todo # {} /\ tm'.todo \subseteq tm'.list
      /\ tm'.pc = "write" => (Persistent(Current) /\ bat[Current].dirty)'
      => IInv'

\* A step that backs up or saves the bat c of the list.
LEMMA ListStep == ListStepFact
  <1> SUFFICES ASSUME NEW c \in Bats, IInv, Types', sv # NoSave => sv.bat # c,
                      tm.pc \in {"backup", "save", "write"},
                      tm'.pc \in {"backup", "save", "write", "dir"}, tm'.list = tm.list,
                      tm'.sub = tm.sub, tm'.bbpdirty = tm.bbpdirty,
                      UNCHANGED <<bbpdir, backup_files, backup_dir, BBP_dirty, sv>>,
                      \A b \in Bats \ {c} : /\ FilesOf(b)' = FilesOf(b) /\ bat'[b] = bat[b]
                                            /\ Stage(b)' = Stage(b),
                      Ok(c, FilesOf(c)', bat'[c], RecoveredDir[c], Stage(c)'),
                      Shown(bat'[c]) = Shown(bat[c]),
                      tm'.pc # "dir" => tm'.todo # {} /\ tm'.todo \subseteq tm'.list,
                      tm'.pc = "write" => (Persistent(Current) /\ bat[Current].dirty)'
               PROVE  IInv'
    BY Zenon DEF ListStepFact
  <1>1. RecoveredDir' = RecoveredDir /\ Up /\ Up' /\ Committing /\ Committing'
    BY Zenon DEF RecoveredDir, Up, Committing
  <1>2. ASSUME NEW b \in Bats PROVE BatOK(b)'
    <2>1. CASE b = c
      BY <1>1, <2>1, Zenon DEF BatOK
    <2>2. CASE b # c
      BY <1>1, <2>2, SameKept, Zenon DEF Same, IInv
    <2>3. QED
      BY <2>1, <2>2, Zenon
  <1>3. DirOK'
    BY <1>1, Zenon DEF IInv, DirOK, Phase
  <1>4. TmOK'
    BY <1>1, Zenon DEF IInv, TmOK, Phase
  <1>5. SvOK'
    <2>1. ASSUME NEW b \in Bats, Saving, b = sv.bat
          PROVE  /\ Stage(b)' \in {"free", "listed"} /\ tm'.sub /\ bat'[b] = bat[b]
                 /\ file'["BAKDIR"][b] = file["BAKDIR"][b]
      <3>1. b # c
        BY <2>1 DEF Saving, NoSave
      <3>2. FilesOf(b)' = FilesOf(b) /\ bat'[b] = bat[b] /\ Stage(b)' = Stage(b)
        BY <3>1, Zenon
      <3>3. QED
        BY <1>1, <2>1, <3>2, Zenon DEF Saving, FilesOf, Dirs
    <2>2. QED
      BY <2>1, SvStep, Zenon DEF SvStepFact
  <1>6. ASSUME NEW b \in Bats PROVE MarkedDirty(b)'
    <2>1. Shown(bat'[b]) = Shown(bat[b]) /\ MarkedDirty(b)
      BY Zenon DEF IInv
    <2>2. QED
      BY <1>1, <2>1, Zenon DEF MarkedDirty, Phase
  <1>7. QED
    BY <1>2, <1>3, <1>4, <1>5, <1>6, TypeNext, Zenon DEF IInv

\* The first loop of BBPsync keeps the invariant.
LEMMA SyncBackupInv == Preserves(SyncBackup)
  <1> SUFFICES ASSUME Covered, Ordered, IInv, SyncBackup PROVE IInv'
    BY Zenon DEF Preserves
  <1>1. tm.pc = "backup" /\ tm.todo # {} /\ tm.todo \subseteq tm.list /\ TypeOK
    BY Zenon DEF SyncBackup, IInv, TmOK
  <1>2. PICK c \in Bats : c = Current
    BY <1>1, CurrentIn, Zenon
  <1>3. c \in tm.todo /\ c \in tm.list
    BY <1>1, <1>2, CurrentIn, Zenon
  <1>4. /\ sv.bat # c /\ tm' = Advance("save", tm.list)
        /\ file' = IF bat[c].status = "EXISTING" /\ (bat[c].loaded \/ bat[c].swapped)
                   THEN BackedUp(c, tm.sub) ELSE file
        /\ UNCHANGED <<bbpdir, bat, counters, BBP_dirty, oid_dirty, sv, bounds>>
    BY <1>2, Zenon DEF SyncBackup
  <1>5. Types /\ tm.sub \in BOOLEAN /\ tm.list \in SUBSET Bats
    BY TypeIs, Zenon DEF IInv, Types, TmType
  <1>6. /\ tm'.pc = (IF tm.todo = {c} THEN "save" ELSE "backup")
        /\ tm'.todo = (IF tm.todo = {c} THEN tm.list ELSE tm.todo \ {c})
        /\ tm'.list = tm.list /\ tm'.sub = tm.sub /\ tm'.bbpdirty = tm.bbpdirty
        /\ tm' \in TmType
    BY <1>1, <1>2, <1>4, <1>5, AdvanceIs, SMTT(30) DEF AdvanceIsFact
  <1>7. Up /\ Up' /\ Committing /\ Committing'
    BY <1>1, <1>6, Zenon DEF Up, Committing
  <1>8. /\ file' \in FileType /\ FilesOf(c)' \in Cells
        /\ \A b \in Bats \ {c} : FilesOf(b)' = FilesOf(b)
        /\ PutsAway(c, FilesOf(c), FilesOf(c)', bat[c], tm.sub)
    BY <1>4, <1>5, BackedUpFile, Zenon DEF BackedUpFileFact
  <1>9. Stage(c) = "listed" /\ Stage(c)' = (IF tm.sub THEN "subput" ELSE "put")
    BY <1>1, <1>3, <1>6, <1>7, Zenon DEF Stage
  <1>10. ASSUME NEW b \in Bats, b # c PROVE Stage(b)' = Stage(b)
    BY <1>1, <1>6, <1>7, <1>10, Zenon DEF Stage
  <1>11. Ok(c, FilesOf(c)', bat[c], RecoveredDir[c], Stage(c)')
    <2>1. tm.sub => Sublists # {}
      BY <1>7, Zenon DEF IInv, TmOK
    <2>2. /\ FilesOf(c) \in Cells /\ bat[c] \in Records /\ RecoveredDir[c] \in Entry
          /\ Ok(c, FilesOf(c), bat[c], RecoveredDir[c], "listed")
      BY <1>9, Setup, Zenon DEF SetupFact
    <2>3. /\ tm.sub => Ok(c, FilesOf(c)', bat[c], RecoveredDir[c], "subput")
          /\ ~tm.sub => Ok(c, FilesOf(c)', bat[c], RecoveredDir[c], "put")
      BY <1>5, <1>8, <2>1, <2>2, OkBackup, Zenon DEF OkBackupFact
    <2>4. QED
      BY <1>9, <2>3, Zenon
  <1>12. Types'
    <2>1. Flags' /\ Numbers'
      BY <1>4, <1>5, Zenon DEF Types, Flags, Numbers, counters, bounds
    <2>2. QED
      BY <1>4, <1>5, <1>6, <1>8, <2>1, Zenon DEF Types
  <1>13. tm'.todo # {} /\ tm'.todo \subseteq tm'.list
    BY <1>1, <1>3, <1>6, Zenon
  <1>14. /\ bat' = bat /\ UNCHANGED <<bbpdir, backup_files, backup_dir, BBP_dirty, sv>>
         /\ tm'.pc \in {"backup", "save"}
    BY <1>4, <1>6, Zenon DEF counters
  <1>15. QED
    BY <1>1, <1>4, <1>6, <1>8, <1>10, <1>11, <1>12, <1>13, <1>14, ListStep, Zenon DEF ListStepFact

SyncSetupFact ==
    \A c \in Bats :
      /\ Covered
      /\ Ordered
      /\ IInv
      /\ tm.pc \in {"save", "write"}
      /\ c = Current
      => /\ c \in tm.todo /\ c \in tm.list /\ tm.todo \subseteq tm.list /\ Up /\ Committing
         /\ Types /\ tm.sub \in BOOLEAN
         /\ Stage(c) = (IF tm.sub THEN "subput" ELSE "put")
         /\ FilesOf(c) \in Cells /\ bat[c] \in Records /\ RecoveredDir[c] \in Entry
         /\ Ok(c, FilesOf(c), bat[c], RecoveredDir[c], Stage(c))
         /\ bat[c].dirty /\ bat[c].status = "EXISTING" =>
               Kept(FilesOf(c), SaveName(c)) # NoFile \/ Kept(FilesOf(c), "kill") # NoFile
         /\ sv # NoSave => sv.bat # c
         /\ SaveName(c) \in Names

\* The bat that BBPsync is saving: its committed heap was put away.
LEMMA SyncSetup == SyncSetupFact
  <1> SUFFICES ASSUME NEW c \in Bats, Covered, Ordered, IInv, tm.pc \in {"save", "write"},
                      c = Current
               PROVE  /\ c \in tm.todo /\ c \in tm.list /\ tm.todo \subseteq tm.list /\ Up /\ Committing
                      /\ Types /\ tm.sub \in BOOLEAN
                      /\ Stage(c) = (IF tm.sub THEN "subput" ELSE "put")
                      /\ FilesOf(c) \in Cells /\ bat[c] \in Records /\ RecoveredDir[c] \in Entry
                      /\ Ok(c, FilesOf(c), bat[c], RecoveredDir[c], Stage(c))
                      /\ bat[c].dirty /\ bat[c].status = "EXISTING" =>
                            Kept(FilesOf(c), SaveName(c)) # NoFile \/ Kept(FilesOf(c), "kill") # NoFile
                      /\ sv # NoSave => sv.bat # c
                      /\ SaveName(c) \in Names
    BY Zenon DEF SyncSetupFact
  <1>1. tm.todo # {} /\ tm.todo \subseteq tm.list /\ TypeOK
    BY Zenon DEF IInv, TmOK
  <1>2. c \in tm.todo /\ c \in tm.list
    BY <1>1, CurrentIn, Zenon
  <1>3. Up /\ Committing
    BY Zenon DEF Up, Committing
  <1>4. Types /\ tm.sub \in BOOLEAN
    BY TypeIs, Zenon DEF IInv, Types, TmType
  <1>5. Stage(c) = (IF tm.sub THEN "subput" ELSE "put")
    BY <1>2, <1>3, Zenon DEF Stage
  <1>6. /\ FilesOf(c) \in Cells /\ bat[c] \in Records /\ RecoveredDir[c] \in Entry
        /\ Ok(c, FilesOf(c), bat[c], RecoveredDir[c], Stage(c))
    BY Setup, Zenon DEF SetupFact
  <1>7. bat[c].dirty /\ bat[c].status = "EXISTING" =>
           Kept(FilesOf(c), SaveName(c)) # NoFile \/ Kept(FilesOf(c), "kill") # NoFile
    BY <1>5, <1>6, Zenon DEF Ok, PutAway, SubPut, GlobalPut
  <1>8. sv # NoSave => sv.bat # c
    BY <1>5, Zenon DEF IInv, SvOK, Saving
  <1>9. QED
    BY <1>1, <1>2, <1>3, <1>4, <1>5, <1>6, <1>7, <1>8, Zenon DEF SaveName, Names

SavedStageFact ==
    \A c \in Bats :
      /\ IInv
      /\ tm.pc \in {"save", "write"}
      /\ c \in tm.todo
      /\ tm.todo \subseteq tm.list
      /\ tm'.pc = (IF tm.todo = {c} THEN "dir" ELSE "save")
      /\ tm'.todo = (IF tm.todo = {c} THEN {} ELSE tm.todo \ {c})
      /\ tm'.list = tm.list
      /\ tm'.sub = tm.sub
      => /\ Stage(c)' = (IF tm.sub THEN "subsaved" ELSE "saved")
         /\ \A b \in Bats \ {c} : Stage(b)' = Stage(b)
         /\ tm'.pc # "dir" => tm'.todo # {} /\ tm'.todo \subseteq tm'.list
         /\ tm'.pc \in {"save", "dir"}

\* The stages after the bat c of the list is saved, or needs not be.
LEMMA SavedStage == SavedStageFact
  <1> SUFFICES ASSUME NEW c \in Bats, IInv, tm.pc \in {"save", "write"}, c \in tm.todo,
                      tm.todo \subseteq tm.list,
                      tm'.pc = (IF tm.todo = {c} THEN "dir" ELSE "save"),
                      tm'.todo = (IF tm.todo = {c} THEN {} ELSE tm.todo \ {c}),
                      tm'.list = tm.list, tm'.sub = tm.sub
               PROVE  /\ Stage(c)' = (IF tm.sub THEN "subsaved" ELSE "saved")
                      /\ \A b \in Bats \ {c} : Stage(b)' = Stage(b)
                      /\ tm'.pc # "dir" => tm'.todo # {} /\ tm'.todo \subseteq tm'.list
                      /\ tm'.pc \in {"save", "dir"}
    BY Zenon DEF SavedStageFact
  <1>1. Up /\ Up' /\ Committing /\ Committing'
    BY Zenon DEF Up, Committing
  <1>2. Stage(c)' = (IF tm.sub THEN "subsaved" ELSE "saved")
    BY <1>1, Zenon DEF Stage
  <1>3. ASSUME NEW b \in Bats, b # c PROVE Stage(b)' = Stage(b)
    BY <1>1, <1>3, Zenon DEF Stage
  <1>4. QED
    BY <1>2, <1>3, Zenon

\* The second loop of BBPsync, opening a heap file or passing, keeps the
\* invariant.
LEMMA SyncSaveInv == Preserves(SyncSave)
  <1> SUFFICES ASSUME Covered, Ordered, IInv, SyncSave PROVE IInv'
    BY Zenon DEF Preserves
  <1>1. tm.pc = "save" /\ tm.todo # {} /\ TypeOK
    BY Zenon DEF SyncSave, IInv, TmOK
  <1>2. PICK c \in Bats : c = Current
    BY <1>1, CurrentIn, Zenon
  <1>3. /\ c \in tm.todo /\ c \in tm.list /\ tm.todo \subseteq tm.list /\ Up /\ Committing
        /\ Types /\ tm.sub \in BOOLEAN
        /\ Stage(c) = (IF tm.sub THEN "subput" ELSE "put")
        /\ FilesOf(c) \in Cells /\ bat[c] \in Records /\ RecoveredDir[c] \in Entry
        /\ Ok(c, FilesOf(c), bat[c], RecoveredDir[c], Stage(c))
        /\ bat[c].dirty /\ bat[c].status = "EXISTING" =>
              Kept(FilesOf(c), SaveName(c)) # NoFile \/ Kept(FilesOf(c), "kill") # NoFile
        /\ sv # NoSave => sv.bat # c
        /\ SaveName(c) \in Names
    BY <1>1, <1>2, SyncSetup, Zenon DEF SyncSetupFact
  <1>4. UNCHANGED <<bbpdir, backup_files, backup_subdir, backup_dir, BBP_dirty, sv, bounds>>
    BY Zenon DEF SyncSave, counters
  <1>5. CASE Lasting(bat[c]) /\ bat[c].dirty
    <2> DEFINE q == [bat[c] EXCEPT !.aligned = TRUE]
    <2>1. /\ file' = SetFile("BATDIR", c, SaveName(c), Half) /\ bat' = [bat EXCEPT ![c] = q]
          /\ oid_dirty' = (oid_dirty \/ ~bat[c].aligned) /\ tm' = [tm EXCEPT !.pc = "write"]
      BY <1>2, <1>3, <1>5, Zenon DEF SyncSave, Persistent, Lasting, OpenHeap, SetFile, Types, Records
    <2>2. "BATDIR" \in Dirs /\ Half \in FileValues
      BY Zenon DEF Dirs, FileValues
    <2>3. /\ file' \in FileType /\ FilesOf(c)' \in Cells
          /\ \A b \in Bats \ {c} : FilesOf(b)' = FilesOf(b)
          /\ FilesOf(c)'["BATDIR"][SaveName(c)] = Half
          /\ \A d \in Dirs, m \in Names :
                ~(d = "BATDIR" /\ m = SaveName(c)) => FilesOf(c)'[d][m] = FilesOf(c)[d][m]
      BY <1>3, <2>1, <2>2, OneFile DEF OneFileFact, OneFileAt
    <2>4. Ok(c, FilesOf(c)', q, RecoveredDir[c], Stage(c))
      <3>1. Overwrites(c, FilesOf(c), FilesOf(c)', bat[c], RecoveredDir[c], Stage(c))
        BY <1>3, <1>5, <2>3, Zenon DEF Overwrites
      <3>2. Stage(c) \in {"put", "subput"}
        BY <1>3, Zenon
      <3>3. QED
        BY <2>3, <3>1, <3>2, OkOpen, Zenon DEF OkOpenFact
    <2>5. q \in Records /\ q.status = bat[c].status /\ q.version = bat[c].version /\ q.dirty = bat[c].dirty
      BY <1>3, Zenon DEF Records
    <2> HIDE DEF q
    <2>6. bat'[c] = q /\ bat' \in [Bats -> Records] /\ \A b \in Bats \ {c} : bat'[b] = bat[b]
      BY <1>3, <2>1, <2>5, Zenon DEF Types
    <2>7. /\ tm'.pc = "write" /\ tm'.todo = tm.todo /\ tm'.list = tm.list /\ tm'.sub = tm.sub
          /\ tm'.bbpdirty = tm.bbpdirty /\ tm' \in TmType
      BY <1>3, <2>1, Zenon DEF Types, TmType
    <2>8. Current' = c
      BY <1>2, <2>7, Zenon DEF Current
    <2>9. (Persistent(Current) /\ bat[Current].dirty)'
      BY <1>5, <2>5, <2>6, <2>8, Zenon DEF Persistent, Lasting
    <2>10. \A b \in Bats : Stage(b)' = Stage(b)
      BY <1>1, <2>7, Zenon DEF Stage, Up, Committing
    <2>11. Types'
      <3>1. Flags' /\ Numbers'
        BY <1>3, <1>4, <2>1, Zenon DEF Types, Flags, Numbers, bounds
      <3>2. QED
        BY <1>3, <1>4, <2>3, <2>6, <2>7, <3>1, Zenon DEF Types
    <2>12. Shown(bat'[c]) = Shown(bat[c]) /\ tm'.todo # {} /\ tm'.todo \subseteq tm'.list
      BY <1>3, <2>5, <2>6, <2>7, Zenon DEF Shown, Lasting
    <2>13. Ok(c, FilesOf(c)', bat'[c], RecoveredDir[c], Stage(c)')
      BY <2>4, <2>6, <2>10, Zenon
    <2>14. QED
      BY <1>1, <1>3, <1>4, <2>3, <2>6, <2>7, <2>9, <2>10, <2>11, <2>12, <2>13, ListStep
         DEF ListStepFact
  <1>6. CASE ~(Lasting(bat[c]) /\ bat[c].dirty)
    <2>1. tm' = Advance("dir", {}) /\ UNCHANGED <<file, bat, oid_dirty>>
      BY <1>2, <1>6, Zenon DEF SyncSave, Persistent, Lasting
    <2>2. /\ tm'.pc = (IF tm.todo = {c} THEN "dir" ELSE "save")
          /\ tm'.todo = (IF tm.todo = {c} THEN {} ELSE tm.todo \ {c})
          /\ tm'.list = tm.list /\ tm'.sub = tm.sub /\ tm'.bbpdirty = tm.bbpdirty
          /\ tm' \in TmType
      BY <1>1, <1>2, <2>1, AdvanceIs DEF AdvanceIsFact
    <2>3. /\ Stage(c)' = (IF tm.sub THEN "subsaved" ELSE "saved")
          /\ \A b \in Bats \ {c} : Stage(b)' = Stage(b)
          /\ tm'.pc # "dir" => tm'.todo # {} /\ tm'.todo \subseteq tm'.list
          /\ tm'.pc \in {"save", "dir"}
      BY <1>1, <1>3, <2>2, SavedStage, Zenon DEF SavedStageFact
    <2>4. Ok(c, FilesOf(c), bat[c], RecoveredDir[c], Stage(c)')
      BY <1>3, <1>6, <2>3, OkSkip DEF OkSkipFact
    <2>5. \A b \in Bats : FilesOf(b)' = FilesOf(b) /\ bat'[b] = bat[b]
      BY <2>1, Zenon DEF FilesOf
    <2>6. Types'
      <3>1. Flags' /\ Numbers'
        BY <1>3, <1>4, <2>1, Zenon DEF Types, Flags, Numbers, bounds
      <3>2. QED
        BY <1>3, <1>4, <2>1, <2>2, <3>1, Zenon DEF Types
    <2>7. QED
      BY <1>1, <1>3, <1>4, <2>2, <2>3, <2>4, <2>5, <2>6, ListStep, Zenon DEF ListStepFact
  <1>7. QED
    BY <1>5, <1>6, Zenon

\* The second loop of BBPsync, completing a heap file, keeps the invariant.
LEMMA SyncWriteInv == Preserves(SyncWrite)
  <1> SUFFICES ASSUME Covered, Ordered, IInv, SyncWrite PROVE IInv'
    BY Zenon DEF Preserves
  <1>1. tm.pc = "write" /\ tm.todo # {} /\ TypeOK
    BY Zenon DEF SyncWrite, IInv, TmOK
  <1>2. PICK c \in Bats : c = Current
    BY <1>1, CurrentIn, Zenon
  <1>3. /\ c \in tm.todo /\ c \in tm.list /\ tm.todo \subseteq tm.list /\ Up /\ Committing
        /\ Types /\ tm.sub \in BOOLEAN
        /\ Stage(c) = (IF tm.sub THEN "subput" ELSE "put")
        /\ FilesOf(c) \in Cells /\ bat[c] \in Records /\ RecoveredDir[c] \in Entry
        /\ Ok(c, FilesOf(c), bat[c], RecoveredDir[c], Stage(c))
        /\ bat[c].dirty /\ bat[c].status = "EXISTING" =>
              Kept(FilesOf(c), SaveName(c)) # NoFile \/ Kept(FilesOf(c), "kill") # NoFile
        /\ sv # NoSave => sv.bat # c
        /\ SaveName(c) \in Names
    BY <1>1, <1>2, SyncSetup, Zenon DEF SyncSetupFact
  <1>4. Lasting(bat[c]) /\ bat[c].dirty
    BY <1>1, <1>2, Zenon DEF IInv, TmOK, Persistent, Lasting
  <1>5. UNCHANGED <<bbpdir, backup_files, backup_subdir, backup_dir, BBP_dirty, oid_dirty, sv, bounds>>
    BY Zenon DEF SyncWrite, counters
  <1> DEFINE q == [bat[c] EXCEPT !.dirty = FALSE]
  <1>6. /\ file' = SetFile("BATDIR", c, SaveName(c), bat[c].version) /\ bat' = [bat EXCEPT ![c] = q]
    BY <1>2, <1>3, Zenon DEF SyncWrite, WrittenHeap, SetFile, Types, Records
  <1>7. "BATDIR" \in Dirs /\ bat[c].version \in FileValues
    BY <1>3, Zenon DEF Dirs, Records, FileValues, NoFile
  <1>8. /\ file' \in FileType /\ FilesOf(c)' \in Cells
        /\ \A b \in Bats \ {c} : FilesOf(b)' = FilesOf(b)
        /\ FilesOf(c)'["BATDIR"][SaveName(c)] = bat[c].version
        /\ \A d \in Dirs, m \in Names :
              ~(d = "BATDIR" /\ m = SaveName(c)) => FilesOf(c)'[d][m] = FilesOf(c)[d][m]
    BY <1>3, <1>6, <1>7, OneFile DEF OneFileFact, OneFileAt
  <1>9. /\ tm'.pc = (IF tm.todo = {c} THEN "dir" ELSE "save")
        /\ tm'.todo = (IF tm.todo = {c} THEN {} ELSE tm.todo \ {c})
        /\ tm'.list = tm.list /\ tm'.sub = tm.sub /\ tm'.bbpdirty = tm.bbpdirty
        /\ tm' \in TmType
    <2>1. PICK t : t = Advance("dir", {})
      BY Zenon
    <2>2. /\ t.pc = (IF tm.todo = {c} THEN "dir" ELSE tm.pc)
          /\ t.todo = (IF tm.todo = {c} THEN {} ELSE tm.todo \ {c})
          /\ t.list = tm.list /\ t.sub = tm.sub /\ t.bbpdirty = tm.bbpdirty
          /\ t \in TmType
      BY <1>2, <2>1, AdvanceIs DEF AdvanceIsFact
    <2>3. tm' = [t EXCEPT !.pc = IF t.pc = "write" THEN "save" ELSE t.pc]
      BY <2>1, <2>2, Zenon DEF SyncWrite, TmType
    <2>4. QED
      BY <1>1, <2>2, <2>3 DEF TmType
  <1>10. /\ Stage(c)' = (IF tm.sub THEN "subsaved" ELSE "saved")
         /\ \A b \in Bats \ {c} : Stage(b)' = Stage(b)
         /\ tm'.pc # "dir" => tm'.todo # {} /\ tm'.todo \subseteq tm'.list
         /\ tm'.pc \in {"save", "dir"}
    BY <1>1, <1>3, <1>9, SavedStage, Zenon DEF SavedStageFact
  <1>11. Ok(c, FilesOf(c)', q, RecoveredDir[c], Stage(c)')
    <2>1. Overwrites(c, FilesOf(c), FilesOf(c)', bat[c], RecoveredDir[c], Stage(c))
      BY <1>3, <1>4, <1>8, Zenon DEF Overwrites
    <2>2. QED
      BY <1>3, <1>8, <1>10, <2>1, OkWritten DEF OkWrittenFact
  <1>12. q \in Records /\ q.status = bat[c].status /\ q.version = bat[c].version
    BY <1>3, Zenon DEF Records
  <1> HIDE DEF q
  <1>13. bat'[c] = q /\ bat' \in [Bats -> Records] /\ \A b \in Bats \ {c} : bat'[b] = bat[b]
    BY <1>3, <1>6, <1>12, Zenon DEF Types
  <1>14. Types'
    <2>1. Flags' /\ Numbers'
      BY <1>3, <1>5, Zenon DEF Types, Flags, Numbers, bounds
    <2>2. QED
      BY <1>3, <1>5, <1>8, <1>9, <1>13, <2>1, Zenon DEF Types
  <1>15. Shown(bat'[c]) = Shown(bat[c])
    BY <1>12, <1>13, Zenon DEF Shown, Lasting
  <1>16. QED
    BY <1>1, <1>3, <1>5, <1>8, <1>9, <1>10, <1>11, <1>13, <1>14, <1>15, ListStep, Zenon
       DEF ListStepFact

FailStepFact ==
    /\ Covered
    /\ IInv
    /\ Types'
    /\ tm.pc \in {"write", "dirwrite"}
    /\ MaxFailures > 0
    /\ tm' = [tm EXCEPT !.pc = "failed", !.error = TRUE]
    /\ UNCHANGED <<bbpdir, bat, backup_files, backup_dir, BBP_dirty, sv>>
    /\ \A b \in Bats : Ok(b, FilesOf(b)', bat[b], RecoveredDir[b], Stage(b)) /\ FilesOf(b)' \in Cells
    => IInv'

\* A write can fail in the commits of all bats only: nothing is being unloaded,
\* and BBP.dir stays in BAKDIR.
LEMMA FailStep == FailStepFact
  <1> SUFFICES ASSUME Covered, IInv, Types', tm.pc \in {"write", "dirwrite"},
                      MaxFailures > 0, tm' = [tm EXCEPT !.pc = "failed", !.error = TRUE],
                      UNCHANGED <<bbpdir, bat, backup_files, backup_dir, BBP_dirty, sv>>,
                      \A b \in Bats : Ok(b, FilesOf(b)', bat[b], RecoveredDir[b], Stage(b)) /\ FilesOf(b)' \in Cells
               PROVE  IInv'
    BY Zenon DEF FailStepFact
  <1>1. Sublists = {} /\ Committing /\ Up
    BY BoundsAssumption DEF Covered, Committing, Up
  <1>2. ~tm.sub /\ tm.list = Bats
    BY <1>1, Zenon DEF IInv, TmOK
  <1>3. tm'.pc = "failed" /\ tm'.error = TRUE /\ tm \in TmType
    BY TypeIs DEF IInv, Types, TmType
  <1>4. RecoveredDir' = RecoveredDir /\ Up' /\ ~Committing'
    BY <1>3, Zenon DEF RecoveredDir, Up, Committing
  <1>5. ASSUME NEW b \in Bats PROVE BatOK(b)'
    <2>1. Stage(b) \in {"put", "saved"} /\ Stage(b)' = "free"
      BY <1>1, <1>2, <1>4, Zenon DEF Stage
    <2>2. bat[b] \in Records /\ RecoveredDir[b] \in Entry
      BY Setup, Zenon DEF SetupFact
    <2>3. Ok(b, FilesOf(b)', bat[b], RecoveredDir[b], "free")
      BY <2>1, <2>2, OkFail, Zenon DEF OkFailFact
    <2>4. QED
      BY <1>4, <2>1, <2>3, Zenon DEF BatOK
  <1>6. DirOK'
    BY <1>2, <1>3, <1>4, Zenon DEF IInv, DirOK, Phase, DirMark
  <1>7. TmOK'
    BY <1>3, <1>4, Zenon DEF TmOK, Phase
  <1>8. SvOK'
    BY <1>1, <1>2, Zenon DEF IInv, SvOK, Saving
  <1>9. ASSUME NEW b \in Bats PROVE MarkedDirty(b)'
    <2>1. tm.bbpdirty => BBP_dirty
      BY Zenon DEF IInv, TmOK, Phase
    <2>2. ~tm.bbpdirty => RecoveredDir[b] = Shown(bat[b])
      BY Zenon DEF IInv, MarkedDirty, Phase
    <2>3. QED
      BY <1>3, <1>4, <2>1, <2>2, Zenon DEF MarkedDirty, Phase
  <1>10. QED
    BY <1>5, <1>6, <1>7, <1>8, <1>9, TypeNext, Zenon DEF IInv

\* A commit that cannot write a heap keeps the invariant.
LEMMA SyncWriteFailInv == Preserves(SyncWriteFail)
  <1> SUFFICES ASSUME Covered, Ordered, IInv, SyncWriteFail PROVE IInv'
    BY Zenon DEF Preserves
  <1>1. /\ tm.pc = "write" /\ tm.todo # {} /\ TypeOK
        /\ Fails /\ file' = UnlinkHeap(Current) /\ tm' = [tm EXCEPT !.pc = "failed", !.error = TRUE]
        /\ UNCHANGED <<bbpdir, bat, counters, BBP_dirty, oid_dirty, sv, version, crashes>>
    BY Zenon DEF SyncWriteFail, IInv, TmOK
  <1>2. PICK c \in Bats : c = Current
    BY <1>1, CurrentIn, Zenon
  <1>3. /\ Types /\ Stage(c) \in {"put", "subput"}
        /\ FilesOf(c) \in Cells /\ bat[c] \in Records /\ RecoveredDir[c] \in Entry
        /\ Ok(c, FilesOf(c), bat[c], RecoveredDir[c], Stage(c))
        /\ bat[c].dirty /\ bat[c].status = "EXISTING" =>
              Kept(FilesOf(c), SaveName(c)) # NoFile \/ Kept(FilesOf(c), "kill") # NoFile
        /\ SaveName(c) \in Names
    BY <1>1, <1>2, SyncSetup, Zenon DEF SyncSetupFact
  <1>4. Lasting(bat[c]) /\ bat[c].dirty
    BY <1>1, <1>2, Zenon DEF IInv, TmOK, Persistent, Lasting
  <1>5. /\ file' \in FileType /\ FilesOf(c)' \in Cells
        /\ \A b \in Bats \ {c} : FilesOf(b)' = FilesOf(b)
        /\ FilesOf(c)'["BATDIR"][SaveName(c)] = NoFile
        /\ \A d \in Dirs, m \in Names :
              ~(d = "BATDIR" /\ m = SaveName(c)) => FilesOf(c)'[d][m] = FilesOf(c)[d][m]
    <2>1. /\ file' = SetFile("BATDIR", c, SaveName(c), NoFile) /\ NoFile \in FileValues
          /\ "BATDIR" \in Dirs
      BY <1>1, <1>2, Zenon DEF UnlinkHeap, SetFile, FileValues, Dirs
    <2>2. QED
      BY <1>3, <2>1, OneFile DEF OneFileFact, OneFileAt
  <1>6. Ok(c, FilesOf(c)', bat[c], RecoveredDir[c], Stage(c))
    <2>1. Overwrites(c, FilesOf(c), FilesOf(c)', bat[c], RecoveredDir[c], Stage(c))
      BY <1>3, <1>4, <1>5, Zenon DEF Overwrites
    <2>2. QED
      BY <1>3, <1>5, <2>1, OkOpen, Zenon DEF OkOpenFact
  <1>7. ASSUME NEW b \in Bats
        PROVE  Ok(b, FilesOf(b)', bat[b], RecoveredDir[b], Stage(b)) /\ FilesOf(b)' \in Cells
    BY <1>5, <1>6, Setup, Zenon DEF SetupFact
  <1>8. Types' /\ MaxFailures > 0
    <2>1. Flags' /\ Numbers' /\ MaxFailures > 0
      BY <1>1, <1>3, FailsIn, Zenon DEF Types, Flags, counters
    <2>2. tm' \in TmType
      BY <1>1, <1>3, Zenon DEF Types, TmType
    <2>3. QED
      BY <1>1, <1>3, <1>5, <2>1, <2>2, Zenon DEF Types
  <1>9. QED
    BY <1>1, <1>7, <1>8, FailStep, Zenon DEF FailStepFact, counters

\* A commit that cannot write BBP.dir keeps the invariant.
LEMMA SyncDirFailInv == Preserves(SyncDirFail)
  <1> SUFFICES ASSUME Covered, Ordered, IInv, SyncDirFail PROVE IInv'
    BY Zenon DEF Preserves
  <1>1. /\ tm.pc = "dirwrite" /\ Fails /\ tm' = [tm EXCEPT !.pc = "failed", !.error = TRUE]
        /\ UNCHANGED <<disk, bat, counters, BBP_dirty, oid_dirty, sv, version, crashes>>
    BY Zenon DEF SyncDirFail
  <1>2. Types
    BY TypeIs, Zenon DEF IInv
  <1>3. ASSUME NEW b \in Bats
        PROVE  Ok(b, FilesOf(b)', bat[b], RecoveredDir[b], Stage(b)) /\ FilesOf(b)' \in Cells
    <2>1. FilesOf(b)' = FilesOf(b)
      BY <1>1 DEF FilesOf, disk
    <2>2. QED
      BY <2>1, Setup, Zenon DEF SetupFact
  <1>4. Types' /\ MaxFailures > 0
    <2>1. Flags' /\ Numbers' /\ MaxFailures > 0
      BY <1>1, <1>2, FailsIn, Zenon DEF Types, Flags, counters
    <2>2. tm' \in TmType
      BY <1>1, <1>2, Zenon DEF Types, TmType
    <2>3. QED
      BY <1>1, <1>2, <2>1, <2>2, Zenon DEF Types, disk
  <1>5. QED
    BY <1>1, <1>3, <1>4, FailStep, Zenon DEF FailStepFact, counters, disk

DirStepFact ==
    /\ IInv
    /\ Types'
    /\ tm.pc \in {"dir", "dirwrite"}
    /\ tm'.pc \in {"dirwrite", "rename"}
    /\ tm'.list = tm.list
    /\ tm'.sub = tm.sub
    /\ tm'.bbpdirty = tm.bbpdirty
    /\ tm'.pc = "dirwrite" => tm.bbpdirty
    /\ UNCHANGED <<file, bat, sv, BBP_dirty>>
    /\ RecoveredDir' = RecoveredDir
    /\ DirOK'
    => IInv'

\* A step from the saved bats to the switch: BBP.dir only.
LEMMA DirStep == DirStepFact
  <1> SUFFICES ASSUME IInv, Types', tm.pc \in {"dir", "dirwrite"},
                      tm'.pc \in {"dirwrite", "rename"}, tm'.list = tm.list,
                      tm'.sub = tm.sub, tm'.bbpdirty = tm.bbpdirty,
                      tm'.pc = "dirwrite" => tm.bbpdirty,
                      UNCHANGED <<file, bat, sv, BBP_dirty>>, RecoveredDir' = RecoveredDir,
                      DirOK'
               PROVE  IInv'
    BY Zenon DEF DirStepFact
  <1>1. Up /\ Up' /\ Committing /\ Committing'
    BY Zenon DEF Up, Committing
  <1>2. \A b \in Bats : Stage(b)' = Stage(b)
    BY <1>1, Zenon DEF Stage
  <1>3. \A b \in Bats : BatOK(b)'
    BY <1>2, SameBats, Zenon
  <1>4. TmOK'
    BY <1>1, Zenon DEF IInv, TmOK, Phase
  <1>5. SvOK'
    BY <1>1, <1>2, SvStep, Zenon DEF SvStepFact, Saving
  <1>6. \A b \in Bats : MarkedDirty(b)'
    BY <1>1, Zenon DEF IInv, MarkedDirty, Phase
  <1>7. QED
    BY <1>3, <1>4, <1>5, <1>6, TypeNext, Zenon DEF IInv

\* Opening the new BBP.dir, or moving the old one back, keeps the invariant and
\* the one that counts.
LEMMA SyncDirInv == Keeps(SyncDir)
  <1> SUFFICES ASSUME Covered, Ordered, IInv, SyncDir
               PROVE  IInv' /\ RecoveredDir' = RecoveredDir
    BY Zenon DEF Keeps
  <1>1. tm.pc = "dir" /\ UNCHANGED <<file, bat, backup_files, backup_subdir, BBP_dirty, sv, bounds>>
    BY Zenon DEF SyncDir
  <1>2. Types /\ tm \in TmType /\ bbpdir \in DirType
    BY TypeIs, Zenon DEF IInv, Types
  <1>3. /\ backup_files /\ backup_dir = DirMark(tm.sub)
        /\ (bbpdir["BAKDIR"] # NoDir) <=> ~tm.sub
        /\ (bbpdir["SUBDIR"] # NoDir) <=> tm.sub
        /\ RecoveredDir \in [Bats -> Entry]
    BY <1>1, Zenon DEF IInv, DirOK, Phase
  <1>4. CASE /\ tm.bbpdirty /\ bbpdir' = [bbpdir EXCEPT !["BATDIR"] = HalfDir]
             /\ oid_dirty' = FALSE /\ tm' = [tm EXCEPT !.pc = "dirwrite"] /\ UNCHANGED backup_dir
    <2>1. /\ tm'.pc = "dirwrite" /\ tm'.list = tm.list /\ tm'.sub = tm.sub
          /\ tm'.bbpdirty = tm.bbpdirty /\ tm' \in TmType
      BY <1>2, <1>4, Zenon DEF TmType
    <2>2. /\ bbpdir'["BAKDIR"] = bbpdir["BAKDIR"] /\ bbpdir'["SUBDIR"] = bbpdir["SUBDIR"]
          /\ bbpdir' \in DirType
      BY <1>2, <1>4, Zenon DEF DirType, Dirs
    <2>3. RecoveredDir' = RecoveredDir
      BY <1>3, <2>2 DEF RecoveredDir
    <2>4. DirOK'
      BY <1>1, <1>3, <1>4, <2>1, <2>2, <2>3, Zenon DEF DirOK, Phase
    <2>5. Types'
      <3>1. Flags' /\ Numbers'
        BY <1>1, <1>2, <1>4, Zenon DEF Types, Flags, Numbers, bounds
      <3>2. QED
        BY <1>1, <1>2, <2>1, <2>2, <3>1, Zenon DEF Types
    <2>6. QED
      BY <1>1, <1>4, <2>1, <2>3, <2>4, <2>5, DirStep DEF DirStepFact
  <1>5. CASE /\ ~tm.bbpdirty
             /\ bbpdir' = [bbpdir EXCEPT !["BATDIR"] =
                              bbpdir[IF backup_dir = 1 THEN "BAKDIR" ELSE "SUBDIR"],
                              ![IF backup_dir = 1 THEN "BAKDIR" ELSE "SUBDIR"] = NoDir]
             /\ backup_dir' = 0 /\ tm' = [tm EXCEPT !.pc = "rename"] /\ UNCHANGED oid_dirty
    <2>1. ~tm.sub
      BY <1>1, <1>5, Zenon DEF IInv, TmOK, Phase, Committing, Up
    <2>2. bbpdir' = [bbpdir EXCEPT !["BATDIR"] = bbpdir["BAKDIR"], !["BAKDIR"] = NoDir]
      BY <1>3, <1>5, <2>1, Zenon DEF DirMark
    <2>3. /\ bbpdir'["BATDIR"] = bbpdir["BAKDIR"] /\ bbpdir'["BAKDIR"] = NoDir
          /\ bbpdir'["SUBDIR"] = NoDir /\ bbpdir' \in DirType
      BY <1>2, <1>3, <2>1, <2>2, Zenon DEF DirType, Dirs
    <2>4. RecoveredDir' = RecoveredDir
      BY <1>3, <2>1, <2>3, Zenon DEF RecoveredDir
    <2>5. /\ tm'.pc = "rename" /\ tm'.list = tm.list /\ tm'.sub = tm.sub
          /\ tm'.bbpdirty = tm.bbpdirty /\ tm' \in TmType
      BY <1>2, <1>5, Zenon DEF TmType
    <2>6. DirOK'
      BY <1>1, <1>3, <1>5, <2>3, <2>4, <2>5, Zenon DEF DirOK, Phase
    <2>7. Types'
      <3>1. Flags' /\ Numbers'
        BY <1>1, <1>2, <1>5 DEF Types, Flags, Numbers, bounds
      <3>2. QED
        BY <1>1, <1>2, <2>3, <2>5, <3>1, Zenon DEF Types
    <2>8. QED
      BY <1>1, <2>4, <2>5, <2>6, <2>7, DirStep, Zenon DEF DirStepFact
  <1>6. QED
    BY <1>4, <1>5, Zenon DEF SyncDir

NewDirIsFact ==
    /\ IInv
    /\ tm.pc \in {"dirwrite", "rename"}
    /\ tm.bbpdirty
    => /\ NewDir \in [Bats -> Entry]
       /\ \A b \in Bats : NewDir[b] = IF b \in tm.list THEN Shown(bat[b]) ELSE RecoveredDir[b]

\* The new BBP.dir: the bats of the list as they are, the others as they were.
LEMMA NewDirIs == NewDirIsFact
  <1> SUFFICES ASSUME IInv, tm.pc \in {"dirwrite", "rename"}, tm.bbpdirty
               PROVE  /\ NewDir \in [Bats -> Entry]
                      /\ \A b \in Bats : NewDir[b] = IF b \in tm.list THEN Shown(bat[b]) ELSE RecoveredDir[b]
    BY DEF NewDirIsFact
  <1>1. /\ (bbpdir["BAKDIR"] # NoDir) <=> ~tm.sub
        /\ (bbpdir["SUBDIR"] # NoDir) <=> tm.sub
        /\ RecoveredDir \in [Bats -> Entry]
    BY Zenon DEF IInv, DirOK, Phase
  <1>2. ASSUME NEW b \in Bats
        PROVE  NewDir[b] = IF b \in tm.list THEN Shown(bat[b]) ELSE RecoveredDir[b]
    BY <1>1, Zenon DEF NewDir, RecoveredDir, Shown, Lasting, Persistent
  <1>3. ASSUME NEW b \in Bats PROVE NewDir[b] \in Entry
    <2>1. bat[b] \in Records
      BY Setup, Zenon DEF SetupFact
    <2>2. Shown(bat[b]) \in Entry
      BY <2>1, Zenon DEF Shown, Records, Entry
    <2>3. QED
      BY <1>1, <1>2, <2>2, Zenon
  <1>4. QED
    BY <1>2, <1>3, Zenon DEF NewDir

\* Completing the new BBP.dir keeps the invariant and the one that counts.
LEMMA SyncDirWriteInv == Keeps(SyncDirWrite)
  <1> SUFFICES ASSUME Covered, Ordered, IInv, SyncDirWrite
               PROVE  IInv' /\ RecoveredDir' = RecoveredDir
    BY Zenon DEF Keeps
  <1>1. /\ tm.pc = "dirwrite" /\ bbpdir' = [bbpdir EXCEPT !["BATDIR"] = NewDir]
        /\ tm' = [tm EXCEPT !.pc = "rename"] /\ tm.bbpdirty
        /\ UNCHANGED <<file, bat, counters, BBP_dirty, oid_dirty, sv, bounds>>
    BY Zenon DEF SyncDirWrite, IInv, TmOK
  <1>2. Types /\ tm \in TmType /\ bbpdir \in DirType
    BY TypeIs DEF IInv, Types
  <1>3. /\ backup_files /\ backup_dir = DirMark(tm.sub)
        /\ (bbpdir["BAKDIR"] # NoDir) <=> ~tm.sub
        /\ (bbpdir["SUBDIR"] # NoDir) <=> tm.sub
        /\ RecoveredDir \in [Bats -> Entry]
    BY <1>1, Zenon DEF IInv, DirOK, Phase
  <1>4. /\ tm'.pc = "rename" /\ tm'.list = tm.list /\ tm'.sub = tm.sub
        /\ tm'.bbpdirty = tm.bbpdirty /\ tm' \in TmType
    BY <1>1, <1>2, Zenon DEF TmType
  <1>5. /\ bbpdir'["BAKDIR"] = bbpdir["BAKDIR"] /\ bbpdir'["SUBDIR"] = bbpdir["SUBDIR"]
        /\ bbpdir'["BATDIR"] = NewDir /\ bbpdir' \in DirType
    BY <1>1, <1>2, NewDirIs, Zenon DEF NewDirIsFact, DirType, Dirs
  <1>6. RecoveredDir' = RecoveredDir
    BY <1>3, <1>5, Zenon DEF RecoveredDir
  <1>7. NewDir' = NewDir
    BY <1>1, <1>4, <1>5 DEF NewDir, Persistent
  <1>8. DirOK'
    BY <1>1, <1>3, <1>4, <1>5, <1>6, <1>7 DEF DirOK, Phase, counters
  <1>9. Types'
    <2>1. Flags' /\ Numbers'
      BY <1>1, <1>2, Zenon DEF Types, Flags, Numbers, counters, bounds
    <2>2. QED
      BY <1>1, <1>2, <1>4, <1>5, <2>1, Zenon DEF Types
  <1>10. QED
    BY <1>1, <1>4, <1>6, <1>8, <1>9, DirStep, Zenon DEF DirStepFact

RenameDirFact ==
    /\ Covered
    /\ IInv
    /\ SyncRename
    => /\ bbpdir'["BAKDIR"] = NoDir /\ bbpdir'["SUBDIR"] = NoDir /\ bbpdir' \in DirType
       /\ RecoveredDir' \in [Bats -> Entry]
       /\ \A b \in Bats : RecoveredDir'[b] =
             IF b \in tm.list THEN Shown(bat[b]) ELSE RecoveredDir[b]

\* The rename makes the new BBP.dir the one that counts.
LEMMA RenameDir == RenameDirFact
  <1> SUFFICES ASSUME Covered, IInv, SyncRename
               PROVE  /\ bbpdir'["BAKDIR"] = NoDir /\ bbpdir'["SUBDIR"] = NoDir /\ bbpdir' \in DirType
                      /\ RecoveredDir' \in [Bats -> Entry]
                      /\ \A b \in Bats : RecoveredDir'[b] =
                            IF b \in tm.list THEN Shown(bat[b]) ELSE RecoveredDir[b]
    BY Zenon DEF RenameDirFact
  <1>1. /\ tm.pc = "rename" /\ bbpdir' = [d \in Dirs |->
              IF d = "SUBDIR" \/ d = BackupDir(tm.sub) THEN NoDir ELSE bbpdir[d]]
    BY Zenon DEF SyncRename
  <1>2. bbpdir \in DirType
    BY TypeIs DEF IInv, Types
  <1>3. tm.sub => bbpdir["BAKDIR"] = NoDir
    BY <1>1, Zenon DEF IInv, DirOK, Phase
  <1>4. /\ bbpdir'["BAKDIR"] = NoDir /\ bbpdir'["SUBDIR"] = NoDir
        /\ bbpdir'["BATDIR"] = bbpdir["BATDIR"] /\ bbpdir' \in DirType
    BY <1>1, <1>2, <1>3, Zenon DEF Dirs, DirType, BackupDir
  <1>5. RecoveredDir' = bbpdir["BATDIR"]
    BY <1>4, Zenon DEF RecoveredDir
  <1>6. CASE tm.bbpdirty
    <2>1. bbpdir["BATDIR"] = NewDir
      BY <1>1, <1>6, Zenon DEF IInv, DirOK
    <2>2. QED
      BY <1>1, <1>4, <1>5, <1>6, <2>1, NewDirIs, Zenon DEF NewDirIsFact
  <1>7. CASE ~tm.bbpdirty
    <2>1. bbpdir["BAKDIR"] = NoDir /\ bbpdir["SUBDIR"] = NoDir /\ RecoveredDir \in [Bats -> Entry]
      BY <1>1, <1>7, Zenon DEF IInv, DirOK
    <2>2. RecoveredDir = bbpdir["BATDIR"]
      BY <2>1, Zenon DEF RecoveredDir
    <2>3. \A b \in Bats : RecoveredDir[b] = Shown(bat[b])
      BY <1>1, <1>7, Zenon DEF IInv, MarkedDirty, Phase
    <2>4. QED
      BY <1>4, <1>5, <2>1, <2>2, <2>3, Zenon
  <1>8. QED
    BY <1>6, <1>7, Zenon

\* The rename of the backup directory keeps the invariant.
LEMMA SyncRenameInv == Preserves(SyncRename)
  <1> SUFFICES ASSUME Covered, Ordered, IInv, SyncRename PROVE IInv'
    BY Zenon DEF Preserves
  <1>1. /\ tm.pc = "rename"
        /\ file' = [d \in Dirs |-> IF d = "SUBDIR" \/ d = BackupDir(tm.sub) THEN EmptyDir ELSE file[d]]
        /\ tm' = [tm EXCEPT !.pc = "aftermath"]
        /\ UNCHANGED <<bat, counters, BBP_dirty, oid_dirty, sv, bounds>>
    BY DEF SyncRename
  <1>2. /\ bbpdir'["BAKDIR"] = NoDir /\ bbpdir'["SUBDIR"] = NoDir /\ bbpdir' \in DirType
        /\ RecoveredDir' \in [Bats -> Entry]
        /\ \A b \in Bats : RecoveredDir'[b] =
              IF b \in tm.list THEN Shown(bat[b]) ELSE RecoveredDir[b]
    BY RenameDir, Zenon DEF RenameDirFact
  <1>3. Types /\ tm \in TmType /\ file \in FileType /\ tm.sub \in BOOLEAN
    BY TypeIs, Zenon DEF IInv, Types, TmType
  <1>4. /\ tm'.pc = "aftermath" /\ tm'.list = tm.list /\ tm'.sub = tm.sub
        /\ tm'.bbpdirty = tm.bbpdirty /\ tm' \in TmType
    BY <1>1, <1>3, Zenon DEF TmType
  <1>5. Up /\ Up' /\ Committing /\ Committing'
    BY <1>1, <1>4, Zenon DEF Up, Committing
  <1>6. IF tm.sub THEN tm.list \in Sublists ELSE tm.list = Bats
    BY <1>5, Zenon DEF IInv, TmOK
  <1>7. file' \in FileType
    <2>1. EmptyDir \in [Bats -> [Names -> FileValues]]
      BY Zenon DEF EmptyDir, FileValues
    <2>2. QED
      BY <1>1, <1>3, <2>1, Zenon DEF FileType
  <1>8. ASSUME NEW b \in Bats
        PROVE  /\ FilesOf(b)' \in Cells
               /\ \A d \in Dirs, m \in Names : FilesOf(b)'[d][m] =
                     IF d = "SUBDIR" \/ (d = "BAKDIR" /\ ~tm.sub) THEN NoFile ELSE FilesOf(b)[d][m]
    <2>1. \A d \in Dirs, m \in Names : file'[d][b][m] =
             IF d = "SUBDIR" \/ (d = "BAKDIR" /\ ~tm.sub) THEN NoFile ELSE file[d][b][m]
      BY <1>1, Zenon DEF EmptyDir, BackupDir
    <2>2. QED
      BY <1>7, <2>1, NextFiles, Setup DEF NextFilesFact, SetupFact
  <1>9. ASSUME NEW b \in Bats
        PROVE  /\ b \in tm.list => /\ Stage(b) = (IF tm.sub THEN "subsaved" ELSE "saved")
                                   /\ Stage(b)' = "last"
               /\ b \notin tm.list => Stage(b) = "free" /\ Stage(b)' = "free"
    BY <1>1, <1>4, <1>5, Zenon DEF Stage
  <1>10. ASSUME NEW b \in Bats, b \notin tm.list PROVE FilesOf(b)' = FilesOf(b)
    <2>1. tm.sub /\ Stage(b) = "free" /\ FilesOf(b) \in Cells
      BY <1>6, <1>9, <1>10, Setup, Zenon DEF SetupFact
    <2>2. Gone(FilesOf(b), "SUBDIR")
      BY <2>1, Zenon DEF IInv, BatOK, Ok, PutAway, Live, SubPut
    <2>3. \A d \in Dirs, m \in Names : FilesOf(b)'[d][m] = FilesOf(b)[d][m]
      BY <1>8, <2>1, <2>2 DEF Gone, Names
    <2>4. \A d \in Dirs : FilesOf(b)'[d] = FilesOf(b)[d]
      BY <1>8, <2>1, <2>3 DEF Cells
    <2>5. QED
      BY <2>4, Zenon DEF FilesOf
  <1>11. ASSUME NEW b \in Bats PROVE BatOK(b)'
    <2>1. CASE b \in tm.list
      <3>1. /\ FilesOf(b) \in Cells /\ bat[b] \in Records /\ RecoveredDir[b] \in Entry
            /\ Ok(b, FilesOf(b), bat[b], RecoveredDir[b], Stage(b))
        BY Setup, Zenon DEF SetupFact
      <3>2. Stage(b) \in {"saved", "subsaved"} /\ (Stage(b) = "saved" <=> ~tm.sub)
        BY <1>3, <1>9, <2>1
      <3>3. \A d \in Dirs, m \in Names : FilesOf(b)'[d][m] =
               IF d = "SUBDIR" \/ (d = "BAKDIR" /\ Stage(b) = "saved") THEN NoFile
               ELSE FilesOf(b)[d][m]
        BY <1>8, <3>2, Zenon
      <3>4. Ok(b, FilesOf(b)', bat[b], Shown(bat[b]), "last")
        BY <1>8, <3>1, <3>2, <3>3, OkRename DEF OkRenameFact
      <3>5. QED
        BY <1>1, <1>2, <1>9, <2>1, <3>4, Zenon DEF BatOK
    <2>2. CASE b \notin tm.list
      BY <1>1, <1>2, <1>9, <1>10, <2>2, SameKept, Zenon DEF Same, IInv
    <2>3. QED
      BY <2>1, <2>2, Zenon
  <1>12. DirOK'
    <2>1. tm.sub => backup_files /\ backup_dir = 2
      BY <1>1, <1>6, Zenon DEF IInv, DirOK, TmOK, Phase, DirMark
    <2>2. QED
      BY <1>1, <1>2, <1>4, <2>1, Zenon DEF DirOK, Phase, counters
  <1>13. TmOK'
    BY <1>4, <1>6, Zenon DEF TmOK, Phase
  <1>14. SvOK'
    <2>1. ASSUME NEW b \in Bats, Saving, b = sv.bat
          PROVE  /\ Stage(b)' \in {"free", "listed"} /\ tm'.sub
                 /\ file'["BAKDIR"][b] = file["BAKDIR"][b]
      <3>1. b \notin tm.list
        BY <1>3, <1>9, <2>1, Zenon DEF Saving
      <3>2. QED
        BY <1>4, <1>5, <1>9, <1>10, <2>1, <3>1 DEF Saving, FilesOf, Dirs
    <2>2. QED
      BY <1>1, <2>1, SvStep, Zenon DEF SvStepFact
  <1>15. ASSUME NEW b \in Bats PROVE MarkedDirty(b)'
    BY <1>1, <1>2, <1>4, <1>6, Zenon DEF MarkedDirty, Phase
  <1>16. Types'
    <2>1. Flags' /\ Numbers'
      BY <1>1, <1>3, Zenon DEF Types, Flags, Numbers, counters, bounds
    <2>2. QED
      BY <1>1, <1>2, <1>3, <1>4, <1>7, <2>1, Zenon DEF Types
  <1>17. QED
    BY <1>11, <1>12, <1>13, <1>14, <1>15, <1>16, TypeNext, Zenon DEF IInv

LastStepFact ==
    /\ IInv
    /\ Types'
    /\ tm.pc \in {"aftermath", "again"}
    /\ tm'.pc \in {"again", "epilogue"}
    /\ tm'.list = tm.list
    /\ tm'.sub = tm.sub
    /\ UNCHANGED <<file, bat, sv, oid_dirty>>
    /\ RecoveredDir' = RecoveredDir
    /\ DirOK'
    => IInv'

\* A step after the switch that leaves every bat as it is.
LEMMA LastStep == LastStepFact
  <1> SUFFICES ASSUME IInv, Types', tm.pc \in {"aftermath", "again"},
                      tm'.pc \in {"again", "epilogue"}, tm'.list = tm.list,
                      tm'.sub = tm.sub, UNCHANGED <<file, bat, sv, oid_dirty>>,
                      RecoveredDir' = RecoveredDir, DirOK'
               PROVE  IInv'
    BY Zenon DEF LastStepFact
  <1>1. Up /\ Up' /\ Committing /\ Committing'
    BY Zenon DEF Up, Committing
  <1>2. \A b \in Bats : Stage(b)' = Stage(b) /\ (b \in tm.list => Stage(b) = "last")
    BY <1>1, Zenon DEF Stage
  <1>3. \A b \in Bats : BatOK(b)'
    BY <1>2, SameBats, Zenon
  <1>4. TmOK'
    BY <1>1, Zenon DEF IInv, TmOK, Phase
  <1>5. SvOK'
    BY <1>1, <1>2, SvStep, Zenon DEF SvStepFact, Saving
  <1>6. ASSUME NEW b \in Bats PROVE MarkedDirty(b)'
    <2>1. Sublists = {} => b \in tm.list
      BY <1>1, Zenon DEF IInv, TmOK
    <2>2. Sublists = {} => RecoveredDir[b] = Shown(bat[b])
      BY <1>2, <2>1, Zenon DEF IInv, BatOK, Ok, Switched
    <2>3. QED
      BY <2>2, Zenon DEF MarkedDirty, Phase
  <1>7. QED
    BY <1>3, <1>4, <1>5, <1>6, TypeNext DEF IInv

\* Resetting the counters after the rename keeps the invariant.
LEMMA SyncAftermathInv == Preserves(SyncAftermath)
  <1> SUFFICES ASSUME Covered, Ordered, IInv, SyncAftermath PROVE IInv'
    BY Zenon DEF Preserves
  <1>1. /\ tm.pc = "aftermath" /\ BBP_dirty' = FALSE /\ backup_files' = tm.sub /\ backup_dir' = 0
        /\ backup_subdir' = FALSE /\ tm' = [tm EXCEPT !.pc = "again"]
        /\ UNCHANGED <<disk, bat, oid_dirty, sv, bounds>>
    BY Zenon DEF SyncAftermath
  <1>2. Types /\ tm \in TmType /\ tm.sub \in BOOLEAN
    BY TypeIs, Zenon DEF IInv, Types, TmType
  <1>3. /\ tm'.pc = "again" /\ tm'.list = tm.list /\ tm'.sub = tm.sub /\ tm' \in TmType
    BY <1>1, <1>2, Zenon DEF TmType
  <1>4. /\ bbpdir["BAKDIR"] = NoDir /\ bbpdir["SUBDIR"] = NoDir /\ RecoveredDir \in [Bats -> Entry]
    BY <1>1, Zenon DEF IInv, DirOK
  <1>5. RecoveredDir' = RecoveredDir
    BY <1>1, Zenon DEF RecoveredDir, disk
  <1>6. DirOK'
    BY <1>1, <1>2, <1>3, <1>4, <1>5, Zenon DEF DirOK, Phase, disk
  <1>7. Types'
    <2>1. Flags'
      BY <1>1, <1>2, Zenon DEF Types, Flags
    <2>2. Numbers'
      BY <1>1, <1>2 DEF Types, Numbers, bounds
    <2>3. QED
      BY <1>1, <1>2, <1>3, <2>1, <2>2, Zenon DEF Types, disk
  <1>8. QED
    BY <1>1, <1>3, <1>5, <1>6, <1>7, LastStep, Zenon DEF LastStepFact, disk

AgainDirFact ==
    /\ IInv
    /\ tm.pc = "again"
    => /\ CanPrepare(FALSE)
       /\ BBPprepare(FALSE) =>
             /\ RecoveredDir' = RecoveredDir /\ bbpdir' \in DirType
             /\ backup_files' = TRUE /\ backup_dir' = 1
             /\ bbpdir'["BAKDIR"] # NoDir /\ bbpdir'["SUBDIR"] = NoDir

\* The BBPprepare(0) at the end of BBPsync puts the new BBP.dir in BAKDIR.
LEMMA AgainDir == AgainDirFact
  <1> SUFFICES ASSUME IInv, tm.pc = "again"
               PROVE  /\ CanPrepare(FALSE)
                      /\ BBPprepare(FALSE) =>
                            /\ RecoveredDir' = RecoveredDir /\ bbpdir' \in DirType
                            /\ backup_files' = TRUE /\ backup_dir' = 1
                            /\ bbpdir'["BAKDIR"] # NoDir /\ bbpdir'["SUBDIR"] = NoDir
    BY Zenon DEF AgainDirFact
  <1>1. /\ backup_files <=> tm.sub
        /\ bbpdir["SUBDIR"] = NoDir
        /\ backup_dir = (IF bbpdir["BAKDIR"] = NoDir THEN 0 ELSE 1)
        /\ ~tm.sub => bbpdir["BAKDIR"] = NoDir
        /\ RecoveredDir \in [Bats -> Entry]
    BY Zenon DEF IInv, DirOK
  <1>2. bbpdir \in DirType
    BY TypeIs, Zenon DEF IInv, Types
  <1>3. CASE bbpdir["BAKDIR"] = NoDir
    <2>1. DirOwner = 0 /\ DirSource = "BATDIR" /\ RecoveredDir = bbpdir["BATDIR"]
      BY <1>1, <1>3, Zenon DEF DirOwner, DirSource, RecoveredDir
    <2>2. CanPrepare(FALSE)
      BY <1>1, <2>1, FullDir, Zenon DEF CanPrepare
    <2>3. ASSUME BBPprepare(FALSE)
          PROVE  /\ RecoveredDir' = RecoveredDir /\ bbpdir' \in DirType
                 /\ backup_files' = TRUE /\ backup_dir' = 1
                 /\ bbpdir'["BAKDIR"] # NoDir /\ bbpdir'["SUBDIR"] = NoDir
      <3>1. /\ bbpdir' = [bbpdir EXCEPT !["BATDIR"] = NoDir, !["BAKDIR"] = bbpdir["BATDIR"]]
            /\ backup_files' = TRUE /\ backup_dir' = 1
        BY <2>1, <2>3 DEF BBPprepare, DirMark, BackupDir
      <3>2. /\ bbpdir'["BAKDIR"] = RecoveredDir /\ bbpdir'["SUBDIR"] = NoDir /\ bbpdir' \in DirType
        BY <1>1, <1>2, <2>1, <3>1, Zenon DEF DirType, Dirs
      <3>3. bbpdir'["BAKDIR"] # NoDir
        BY <1>1, <3>2, FullDir, Zenon
      <3>4. QED
        BY <3>1, <3>2, <3>3, Zenon DEF RecoveredDir
    <2>4. QED
      BY <2>2, <2>3, Zenon
  <1>4. CASE bbpdir["BAKDIR"] # NoDir
    <2>1. DirOwner = 1
      BY <1>1, <1>4, Zenon DEF DirOwner
    <2>2. CanPrepare(FALSE)
      BY <2>1, Zenon DEF CanPrepare, DirMark
    <2>3. ASSUME BBPprepare(FALSE)
          PROVE  /\ RecoveredDir' = RecoveredDir /\ bbpdir' \in DirType
                 /\ backup_files' = TRUE /\ backup_dir' = 1
                 /\ bbpdir'["BAKDIR"] # NoDir /\ bbpdir'["SUBDIR"] = NoDir
      <3>1. bbpdir' = bbpdir /\ backup_files' = TRUE /\ backup_dir' = 1
        BY <2>1, <2>3, Zenon DEF BBPprepare, DirMark
      <3>2. QED
        BY <1>1, <1>2, <1>4, <3>1, Zenon DEF RecoveredDir
    <2>4. QED
      BY <2>2, <2>3, Zenon
  <1>5. QED
    BY <1>3, <1>4, Zenon

\* The last BBPprepare of BBPsync keeps the invariant and the BBP.dir that
\* counts.
LEMMA SyncAgainInv == Keeps(SyncAgain)
  <1> SUFFICES ASSUME Covered, Ordered, IInv, SyncAgain
               PROVE  IInv' /\ RecoveredDir' = RecoveredDir
    BY Zenon DEF Keeps
  <1>1. tm.pc = "again" /\ CanPrepare(FALSE)
    BY AgainDir, Zenon DEF AgainDirFact, SyncAgain
  <1>2. /\ BBPprepare(FALSE) /\ tm' = [tm EXCEPT !.pc = "epilogue"]
        /\ UNCHANGED <<file, bat, BBP_dirty, oid_dirty, sv, bounds>>
    BY <1>1, Zenon DEF SyncAgain
  <1>3. /\ RecoveredDir' = RecoveredDir /\ bbpdir' \in DirType
        /\ backup_files' = TRUE /\ backup_dir' = 1
        /\ bbpdir'["BAKDIR"] # NoDir /\ bbpdir'["SUBDIR"] = NoDir
    BY <1>1, <1>2, AgainDir, Zenon DEF AgainDirFact
  <1>4. Types /\ tm \in TmType
    BY TypeIs, Zenon DEF IInv, Types
  <1>5. /\ tm'.pc = "epilogue" /\ tm'.list = tm.list /\ tm'.sub = tm.sub /\ tm' \in TmType
    BY <1>2, <1>4, Zenon DEF TmType
  <1>6. DirOK'
    <2>1. RecoveredDir' \in [Bats -> Entry]
      BY <1>3, Zenon DEF IInv, DirOK
    <2>2. QED
      BY <1>3, <1>5, <2>1, Zenon DEF DirOK, Phase
  <1>7. Types'
    <2>1. backup_subdir' \in BOOLEAN
      BY <1>2, Zenon DEF BBPprepare
    <2>2. Flags'
      BY <1>2, <1>3, <1>4, <2>1, Zenon DEF Types, Flags
    <2>3. Numbers'
      BY <1>2, <1>3, <1>4 DEF Types, Numbers, bounds
    <2>4. QED
      BY <1>2, <1>3, <1>4, <1>5, <2>2, <2>3, Zenon DEF Types
  <1>8. QED
    BY <1>1, <1>2, <1>3, <1>5, <1>6, <1>7, LastStep, Zenon DEF LastStepFact

\* The epilogue of a commit keeps the invariant.
LEMMA EpilogueInv == Preserves(Epilogue)
  <1> SUFFICES ASSUME Covered, Ordered, IInv, Epilogue PROVE IInv'
    BY Zenon DEF Preserves
  <1> DEFINE dropped == {b \in tm.list : bat[b].status = "DELETED" /\ b \notin Held}
             after(b) == IF Persistent(b) THEN "EXISTING"
                         ELSE IF bat[b].status = "DELETED" THEN "TRANSIENT" ELSE bat[b].status
  <1>1. /\ tm.pc = "epilogue" /\ tm' = Idle
        /\ UNCHANGED <<bbpdir, counters, BBP_dirty, oid_dirty, sv, bounds>>
    BY Zenon DEF Epilogue
  <1>a. bat' = [b \in Bats |->
                  IF b \in dropped THEN FreeSlot
                  ELSE IF b \in tm.list
                       THEN [bat[b] EXCEPT !.status = after(b), !.swapped = FALSE]
                       ELSE bat[b]]
    BY Zenon DEF Epilogue
  <1>b. file' = [file EXCEPT !["BATDIR"] =
                   [b \in Bats |-> IF b \in dropped THEN EmptyDir[b] ELSE file["BATDIR"][b]]]
    BY Zenon DEF Epilogue
  <1>2. Types /\ file \in FileType
    BY TypeIs, Zenon DEF IInv, Types
  <1>3. tm'.pc = "done" /\ tm' \in TmType
    BY <1>1, Zenon DEF Idle, TmType
  <1>4. Up /\ Committing /\ Up' /\ ~Committing'
    BY <1>1, <1>3, Zenon DEF Up, Committing
  <1>5. ASSUME NEW b \in Bats
        PROVE  /\ Stage(b)' = "free" /\ Stage(b) = (IF b \in tm.list THEN "last" ELSE "free")
    BY <1>1, <1>4, Zenon DEF Stage
  <1>6. RecoveredDir' = RecoveredDir
    BY <1>1, Zenon DEF RecoveredDir
  <1>7. file' \in FileType
    <2>1. \A b \in Bats : EmptyDir[b] \in [Names -> FileValues]
      BY Zenon DEF EmptyDir, FileValues
    <2>2. QED
      BY <1>b, <1>2, <2>1, Zenon DEF FileType, Dirs
  <1>8. ASSUME NEW b \in Bats
        PROVE  /\ b \notin dropped => FilesOf(b)' = FilesOf(b)
               /\ \A d \in Dirs, m \in Names : FilesOf(b)'[d][m] =
                     IF d = "BATDIR" /\ b \in dropped THEN NoFile ELSE FilesOf(b)[d][m]
    <2>1. \A d \in Dirs : file'[d][b] =
             IF d = "BATDIR" /\ b \in dropped THEN EmptyDir[b] ELSE file[d][b]
      BY <1>b, <1>2, Zenon DEF FileType, Dirs
    <2> HIDE DEF dropped
    <2>2. b \notin dropped => FilesOf(b)' = FilesOf(b)
      BY <2>1, Zenon DEF FilesOf
    <2>3. \A d \in Dirs, m \in Names : FilesOf(b)'[d][m] =
             IF d = "BATDIR" /\ b \in dropped THEN NoFile ELSE FilesOf(b)[d][m]
      BY <1>7, <2>1, NextFiles, Setup DEF NextFilesFact, SetupFact, EmptyDir
    <2>4. QED
      BY <2>2, <2>3, Zenon
  <1>9. ASSUME NEW b \in Bats
        PROVE  /\ Ok(b, FilesOf(b)', bat'[b], RecoveredDir[b], "free") /\ bat'[b] \in Records
               /\ Shown(bat'[b]) = Shown(bat[b])
    <2>1. /\ FilesOf(b) \in Cells /\ bat[b] \in Records /\ RecoveredDir[b] \in Entry
          /\ Ok(b, FilesOf(b), bat[b], RecoveredDir[b], Stage(b)) /\ FilesOf(b)' \in Cells
      BY <1>7, Setup, NextFiles, Zenon DEF SetupFact, NextFilesFact
    <2>2. CASE b \in dropped
      <3>1. bat'[b] = FreeSlot /\ b \in tm.list /\ bat[b].status = "DELETED"
        BY <1>a, <2>2, Zenon
      <3>2. \A d \in Dirs, m \in Names : FilesOf(b)'[d][m] =
               IF d = "BATDIR" THEN NoFile ELSE FilesOf(b)[d][m]
        BY <1>8, <2>2, Zenon
      <3> HIDE DEF dropped
      <3>3. Ok(b, FilesOf(b)', FreeSlot, RecoveredDir[b], "free")
        BY <1>5, <2>1, <3>1, <3>2, OkDropped DEF OkDroppedFact
      <3>4. QED
        BY <3>1, <3>3, RecordsIn DEF Shown, Lasting, FreeSlot
    <2>3. CASE b \notin dropped /\ b \in tm.list
      <3>1. bat'[b] = [bat[b] EXCEPT !.status = after(b), !.swapped = FALSE]
        BY <1>a, <2>3, Zenon
      <3>2. /\ after(b) = (IF Lasting(bat[b]) THEN "EXISTING"
                           ELSE IF bat[b].status = "DELETED" THEN "TRANSIENT" ELSE bat[b].status)
            /\ after(b) \in Statuses
        BY <2>1, Zenon DEF Lasting, Persistent, Records, Statuses
      <3>3. FilesOf(b)' = FilesOf(b)
        BY <1>8, <2>3, Zenon
      <3>4. bat'[b] \in Records /\ Shown(bat'[b]) = Shown(bat[b])
        BY <2>1, <3>1, <3>2, Zenon DEF Records, Shown, Lasting
      <3> HIDE DEF after, dropped
      <3>5. Ok(b, FilesOf(b), [bat[b] EXCEPT !.status = after(b), !.swapped = FALSE],
               RecoveredDir[b], "free")
        BY <1>5, <2>1, <2>3, <3>2, OkEpilogue, Zenon
      <3>6. QED
        BY <3>1, <3>3, <3>4, <3>5, Zenon
    <2>4. CASE b \notin tm.list
      <3>1. bat'[b] = bat[b] /\ b \notin dropped
        BY <1>a, <2>4, Zenon
      <3> HIDE DEF dropped
      <3>2. QED
        BY <1>5, <1>8, <2>1, <2>4, <3>1, Zenon
    <2>5. QED
      BY <2>2, <2>3, <2>4, Zenon
  <1>10. \A b \in Bats : BatOK(b)'
    BY <1>5, <1>6, <1>9, Zenon DEF BatOK
  <1>11. bat' \in [Bats -> Records]
    BY <1>a, <1>9, Zenon
  <1>12. ASSUME NEW b \in Bats, Saving, b = sv.bat
         PROVE  bat'[b] = bat[b] /\ FilesOf(b)' = FilesOf(b)
    <2>1. b \notin tm.list
      BY <1>5, <1>12, Zenon DEF Saving
    <2>2. QED
      BY <1>a, <1>8, <2>1, Zenon
  <1> HIDE DEF dropped, after
  <1>13. DirOK'
    BY <1>1, <1>3, <1>6, Zenon DEF IInv, DirOK, Phase, counters
  <1>14. TmOK'
    BY <1>3, <1>4, Zenon DEF TmOK, Phase
  <1>15. SvOK'
    <2>1. ASSUME NEW b \in Bats, Saving, b = sv.bat
          PROVE  bat'[b] = bat[b] /\ file'["BAKDIR"][b] = file["BAKDIR"][b] /\ Stage(b)' = "free"
      BY <1>5, <1>12, <2>1, Zenon DEF FilesOf, Dirs
    <2>2. sv' = sv
      BY <1>1, Zenon
    <2>3. QED
      BY <1>4, <2>1, <2>2, SvStep, Zenon DEF SvStepFact
  <1>16. ASSUME NEW b \in Bats PROVE MarkedDirty(b)'
    <2>1. Sublists = {} => Stage(b) = "last"
      BY <1>4, <1>5, Zenon DEF IInv, TmOK
    <2>2. Sublists = {} => RecoveredDir[b] = Shown(bat[b])
      BY <2>1, Zenon DEF IInv, BatOK, Ok, Switched
    <2>3. QED
      BY <1>3, <1>6, <1>9, <2>2, Zenon DEF MarkedDirty, Phase
  <1>17. Types'
    <2>1. Flags' /\ Numbers'
      BY <1>1, <1>2, Zenon DEF Types, Flags, Numbers, counters, bounds
    <2>2. QED
      BY <1>1, <1>2, <1>3, <1>7, <1>11, <2>1, Zenon DEF Types
  <1>18. QED
    BY <1>10, <1>13, <1>14, <1>15, <1>16, <1>17, TypeNext, Zenon DEF IInv

-----------------------------------------------------------------------------
(* Every step keeps the invariant.                                         *)

\* Every step of the protocol keeps the inductive invariant.
LEMMA NextInv == ASSUME Covered, Ordered, IInv, [Next]_vars PROVE IInv'
  <1>1. ASSUME Client PROVE IInv'
    BY <1>1, CreateInv, UpdateInv, MakeTransientInv, MakePersistentInv, LoadInv, SaveBeginInv, Zenon DEF Client, Preserves
  <1>2. ASSUME TMcommit \/ TMsubcommit PROVE IInv'
    <2>1. TMcommit => IInv'
      BY PreludeInv, Zenon DEF TMcommit, Preserves
    <2>2. ASSUME NEW list \in Sublists, Prelude(list, TRUE) PROVE IInv'
      BY <2>2, PreludeInv, BatsAssumption, Zenon DEF Preserves
    <2>3. QED
      BY <1>2, <2>1, <2>2, Zenon DEF TMsubcommit
  <1>3. ASSUME SaveStep PROVE IInv'
    BY <1>3, SavePrepareInv, SaveBackupInv, SaveOpenInv, SaveWriteInv, SaveFailInv, Zenon DEF SaveStep, Preserves, Keeps
  <1>4. ASSUME SyncStep PROVE IInv'
    BY <1>4, SyncPrepareInv, SyncBackupInv, SyncSaveInv, SyncWriteInv, SyncWriteFailInv,
       SyncDirInv, SyncDirWriteInv, SyncDirFailInv, SyncRenameInv, SyncAftermathInv,
       SyncAgainInv, EpilogueInv, Zenon DEF SyncStep, Preserves, Keeps
  <1>5. ASSUME RecoverStep PROVE IInv'
    BY <1>5, RecoverSubdirInv, RecoverDirInv, RecoverFileInv, RecoverPrepareInv, BBPdiskscanInv, Zenon DEF RecoverStep, Preserves, Keeps
  <1>6. ASSUME UNCHANGED vars PROVE IInv'
    <2>1. /\ UNCHANGED <<file, bbpdir, bat, tm, sv, backup_files, backup_subdir, backup_dir>>
          /\ UNCHANGED <<BBP_dirty, oid_dirty, version, failures, crashes>>
      BY <1>6, Zenon DEF vars, disk, counters, bounds
    <2>2. RecoveredDir' = RecoveredDir /\ NewDir' = NewDir /\ \A b : Stage(b)' = Stage(b)
      BY <2>1, SameStage, Zenon DEF RecoveredDir, NewDir, Persistent
    <2>3. TypeOK' /\ DirOK'
      BY <2>1, <2>2, SMTT(30) DEF IInv, TypeOK, DirOK
    <2>4. TmOK' /\ SvOK'
      BY <2>1, <2>2 DEF IInv, TmOK, SvOK, Saving, Committing, Up, Persistent, Current
    <2>5. \A b \in Bats : BatOK(b)'
      BY <2>1, <2>2, SameBats, Zenon
    <2>6. \A b \in Bats : MarkedDirty(b)'
      BY <2>1, <2>2, Zenon DEF IInv, MarkedDirty, Up
    <2>7. QED
      BY <2>3, <2>4, <2>5, <2>6, Zenon DEF IInv
  <1>7. QED
    BY <1>1, <1>2, <1>3, <1>4, <1>5, <1>6, CrashInv, Zenon DEF Next, Preserves

-----------------------------------------------------------------------------
(* The refinement of Checkpoint.  By RecoveredIs the durable state is the  *)
(* BBP.dir that counts, and the rename of BBPsync is the one step that     *)
(* changes it.                                                             *)

Shows == [b \in Bats |-> Shown(bat[b])]
Shadow == IF Up THEN Visible ELSE Recovered

ShadowIsFact ==
    /\ Visible = Shows /\ (IInv => Shadow = IF Up THEN Shows ELSE RecoveredDir)
    /\ Visible' = Shows' /\ (IInv' => Shadow' = IF Up' THEN Shows' ELSE RecoveredDir')
    /\ IInv' => Recovered' = RecoveredDir'

\* The state of the abstract store, before and after a step.
LEMMA ShadowIs == ShadowIsFact
  <1> USE DEF ShadowIsFact
  <1>1. Visible = Shows
    BY Zenon DEF Visible, Shows, Persistent, Shown, Lasting
  <1>2. Visible' = Shows'
    BY Zenon DEF Visible, Shows, Persistent, Shown, Lasting
  <1>3. IInv => Recovered = RecoveredDir
    BY RecoveredIs, Zenon
  <1>4. (IInv => Recovered = RecoveredDir)'
    BY <1>3, PTL
  <1>5. QED
    BY <1>1, <1>2, <1>3, <1>4, Zenon DEF Shadow

StuttersFact ==
    /\ IInv
    /\ IInv'
    /\ RecoveredDir' = RecoveredDir
    /\ Up' = Up
    /\ Up => \A b \in Bats : Shown(bat'[b]) = Shown(bat[b])
    => UNCHANGED <<Recovered, Shadow>>

\* A step that keeps the BBP.dir that counts and what the program sees.
LEMMA Stutters == StuttersFact
  <1> SUFFICES ASSUME IInv, IInv', RecoveredDir' = RecoveredDir, Up' = Up,
                      Up => \A b \in Bats : Shown(bat'[b]) = Shown(bat[b])
               PROVE  UNCHANGED <<Recovered, Shadow>>
    BY Zenon DEF StuttersFact
  <1>1. Up => Shows' = Shows
    BY Zenon DEF Shows
  <1>2. QED
    BY <1>1, ShadowIs, RecoveredIs DEF ShadowIsFact

\* A step of the program above GDK on the bat b.
LEMMA Changes ==
    ASSUME IInv, IInv', RecoveredDir' = RecoveredDir, Up, Up', NEW b \in Bats,
           \A c \in Bats \ {b} : bat'[c] = bat[c]
    PROVE  Store!Change
  <1>1. bat'[b] \in Records
    BY TypeIs, Zenon DEF IInv, TypeOK, Records
  <1>2. Shown(bat'[b]) \in Versions \cup {0}
    BY <1>1, Zenon DEF Shown, Records
  <1>3. Shows' = [Shows EXCEPT ![b] = Shown(bat'[b])]
    BY Zenon DEF Shows
  <1>4. Recovered' = Recovered /\ Shadow = Shows /\ Shadow' = Shows'
    BY ShadowIs, RecoveredIs, Zenon DEF ShadowIsFact
  <1>5. Shadow' = [Shadow EXCEPT ![b] = Shown(bat'[b])]
    BY <1>3, <1>4, Zenon
  <1>6. QED
    BY <1>2, <1>4, <1>5, Zenon DEF Store!Change, Shadow

\* What the program above GDK does is a change of one bat.
LEMMA ClientStep == ASSUME Covered, IInv, IInv', Client PROVE Store!Change
  <1>1. bat \in [Bats -> Records]
    BY TypeIs, Zenon DEF IInv, Types
  <1>2. PICK b \in Bats : \/ Create(b) \/ Update(b) \/ MakeTransient(b)
                          \/ MakePersistent(b) \/ Load(b) \/ SaveBegin(b)
    BY Zenon DEF Client
  <1>3. Up /\ bbpdir' = bbpdir /\ tm' = tm
    BY <1>2, Zenon DEF Create, Update, MakeTransient, MakePersistent, Load, SaveBegin, disk
  <1>4. RecoveredDir' = RecoveredDir /\ Up'
    BY <1>3, Zenon DEF RecoveredDir, Up
  <1>5. \A c \in Bats \ {b} : bat'[c] = bat[c]
    BY <1>1, <1>2, Zenon DEF Create, Update, MakeTransient, MakePersistent, Load, SaveBegin
  <1>6. QED
    BY <1>3, <1>4, <1>5, Changes, Zenon

\* The rename is the commit of the bats of the list.
LEMMA CommitStep ==
    ASSUME Covered, IInv, IInv', SyncRename
    PROVE  Store!Commit
  <1>1. tm.pc = "rename" /\ tm' = [tm EXCEPT !.pc = "aftermath"] /\ bat' = bat
    BY Zenon DEF SyncRename
  <1>2. tm'.pc = "aftermath"
    BY <1>1, TypeIs, Zenon DEF IInv, Types, TmType
  <1>3. Up /\ Up' /\ Committing
    BY <1>1, <1>2, Zenon DEF Up, Committing
  <1>4. tm.list \in Sublists \cup {Bats}
    BY <1>3, Zenon DEF IInv, TmOK
  <1>5. RecoveredDir' = [b \in Bats |-> IF b \in tm.list THEN Shows[b] ELSE RecoveredDir[b]]
    BY RenameDir, Zenon DEF RenameDirFact, Shows
  <1>6. Shows' = Shows
    BY <1>1, Zenon DEF Shows
  <1>7. /\ Recovered' = RecoveredDir' /\ Recovered = RecoveredDir
        /\ Shadow = Shows /\ Shadow' = Shadow
    BY <1>3, <1>6, ShadowIs, RecoveredIs, Zenon DEF ShadowIsFact
  <1>8. Recovered' = [b \in Bats |-> IF b \in tm.list THEN Shadow[b] ELSE Recovered[b]]
    BY <1>5, <1>7, Zenon
  <1>9. QED
    BY <1>4, <1>7, <1>8, Zenon DEF Store!Commit, Shadow

\* A crash is a crash of the abstract store.
LEMMA CrashStep == ASSUME Covered, IInv, IInv', Crash PROVE Store!Crash
  <1>1. bbpdir' = bbpdir /\ tm'.pc = "subdir"
    BY Zenon DEF Crash, disk, Idle
  <1>2. RecoveredDir' = RecoveredDir /\ ~Up'
    BY <1>1, Zenon DEF RecoveredDir, Up
  <1>3. Recovered' = Recovered /\ Shadow' = Recovered
    BY <1>2, ShadowIs, RecoveredIs, Zenon DEF ShadowIsFact
  <1>4. QED
    BY <1>3, Zenon DEF Store!Crash, Shadow

\* BBPsave changes no contents, and no BBP.dir that counts.
LEMMA SaveStutters ==
    ASSUME Covered, Ordered, IInv, IInv', SaveStep
    PROVE  UNCHANGED <<Recovered, Shadow>>
  <1>1. tm' = tm /\ Up' = Up
    BY Zenon DEF SaveStep, SavePrepare, SaveBackup, SaveOpen, SaveWrite, SaveFail, Up
  <1>2. RecoveredDir' = RecoveredDir
    <2>1. SavePrepare \/ bbpdir' = bbpdir
      BY Zenon DEF SaveStep, SaveBackup, SaveOpen, SaveWrite, SaveFail
    <2>2. QED
      BY <2>1, SavePrepareInv, Zenon DEF RecoveredDir, Keeps
  <1>3. \A b \in Bats : bat'[b].status = bat[b].status /\ bat'[b].version = bat[b].version
    <2>1. bat \in [Bats -> Records]
      BY TypeIs, Zenon DEF IInv, Types
    <2>2. CASE SavePrepare \/ SaveBackup \/ SaveFail
      BY <2>2, Zenon DEF SavePrepare, SaveBackup, SaveFail
    <2>3. CASE SaveOpen
      BY <2>1, <2>3, Zenon DEF SaveOpen, OpenHeap, Records
    <2>4. CASE SaveWrite
      BY <2>1, <2>4, Zenon DEF SaveWrite, Records
    <2>5. QED
      BY <2>2, <2>3, <2>4, Zenon DEF SaveStep
  <1>4. QED
    BY <1>1, <1>2, <1>3, Stutters, Zenon DEF StuttersFact, Shown, Lasting

PreludeStuttersFact ==
    \A list \in SUBSET Bats, sub \in BOOLEAN :
      /\ Covered
      /\ IInv
      /\ IInv'
      /\ Prelude(list, sub)
      => UNCHANGED <<Recovered, Shadow>>

\* The prelude of a commit changes no contents.
LEMMA PreludeStutters == PreludeStuttersFact
  <1> SUFFICES ASSUME NEW list \in SUBSET Bats, NEW sub \in BOOLEAN, Covered, IInv, IInv',
                      Prelude(list, sub)
               PROVE  UNCHANGED <<Recovered, Shadow>>
    BY Zenon DEF PreludeStuttersFact
  <1>1. /\ tm.pc \in {"done", "failed"} /\ tm'.pc = "prepare" /\ bbpdir' = bbpdir
    BY Zenon DEF Prelude, Idle, disk
  <1>2. Up' = Up /\ RecoveredDir' = RecoveredDir
    BY <1>1, Zenon DEF Up, RecoveredDir
  <1>3. \A b \in Bats : bat[b] \in Records
    BY Setup, Zenon DEF SetupFact
  <1>4. \A b \in Bats :
           bat'[b] \in {bat[b], [bat[b] EXCEPT !.delta = FALSE, !.aligned = TRUE]}
    BY Zenon DEF Prelude
  <1>5. \A b \in Bats : bat'[b].status = bat[b].status /\ bat'[b].version = bat[b].version
    BY <1>3, <1>4, Zenon DEF Records
  <1>6. QED
    BY <1>2, <1>5, Stutters, Zenon DEF StuttersFact, Shown, Lasting

\* The epilogue changes how the bats are marked, and not which ones persist.
LEMMA EpilogueStutters ==
    ASSUME Covered, IInv, IInv', Epilogue
    PROVE  UNCHANGED <<Recovered, Shadow>>
  <1>1. tm.pc = "epilogue" /\ tm'.pc = "done" /\ bbpdir' = bbpdir
    BY Zenon DEF Epilogue, Idle
  <1>2. Up' = Up /\ RecoveredDir' = RecoveredDir
    BY <1>1, Zenon DEF Up, RecoveredDir
  <1>3. \A b \in Bats : bat[b] \in Records
    BY Setup, Zenon DEF SetupFact
  <1>4. ASSUME NEW b \in Bats PROVE Shown(bat'[b]) = Shown(bat[b])
    <2>1. CASE bat'[b] = FreeSlot /\ bat[b].status = "DELETED"
      BY <2>1 DEF Shown, Lasting, FreeSlot
    <2>2. CASE bat'[b] = [bat[b] EXCEPT !.swapped = FALSE, !.status =
                             IF Persistent(b) THEN "EXISTING"
                             ELSE IF bat[b].status = "DELETED" THEN "TRANSIENT" ELSE bat[b].status]
      <3>1. /\ bat'[b].version = bat[b].version
            /\ bat'[b].status = IF Persistent(b) THEN "EXISTING"
                               ELSE IF bat[b].status = "DELETED" THEN "TRANSIENT"
                               ELSE bat[b].status
        BY <1>3, <2>2, Zenon DEF Records
      <3>2. QED
        BY <3>1, Zenon DEF Shown, Lasting, Persistent
    <2>3. \/ bat'[b] = FreeSlot /\ bat[b].status = "DELETED"
          \/ bat'[b] = [bat[b] EXCEPT !.swapped = FALSE, !.status =
                           IF Persistent(b) THEN "EXISTING"
                           ELSE IF bat[b].status = "DELETED" THEN "TRANSIENT" ELSE bat[b].status]
          \/ bat'[b] = bat[b]
      BY Zenon DEF Epilogue
    <2>4. QED
      BY <2>1, <2>2, <2>3, Zenon
  <1>5. QED
    BY <1>2, <1>4, Stutters, Zenon DEF StuttersFact

\* Up to the rename a commit, and after it the rest of it, leaves the
\* checkpoint and the contents alone.
LEMMA SyncStutters ==
    ASSUME Covered, Ordered, IInv, IInv', SyncStep, ~SyncRename
    PROVE  UNCHANGED <<Recovered, Shadow>>
  <1>1. CASE Epilogue
    BY <1>1, EpilogueStutters, Zenon
  <1>2. CASE ~Epilogue
    <2>1. \/ SyncPrepare \/ SyncBackup \/ SyncSave \/ SyncWrite \/ SyncWriteFail \/ SyncDir
          \/ SyncDirWrite \/ SyncDirFail \/ SyncAftermath \/ SyncAgain
      BY <1>2, Zenon DEF SyncStep
    <2>2. tm \in TmType /\ bat \in [Bats -> Records]
      BY TypeIs, Zenon DEF IInv, Types
    <2>3. RecoveredDir' = RecoveredDir
      <3>1. SyncPrepare \/ SyncDir \/ SyncDirWrite \/ SyncAgain \/ bbpdir' = bbpdir
        BY <2>1, Zenon DEF SyncBackup, SyncSave, SyncWrite, SyncWriteFail, SyncDirFail,
           SyncAftermath, disk
      <3>2. QED
        BY <3>1, SyncPrepareInv, SyncDirInv, SyncDirWriteInv, SyncAgainInv, Zenon DEF RecoveredDir, Keeps
    <2>4. Up
      BY <2>1, Zenon
         DEF Up, SyncPrepare, SyncBackup, SyncSave, SyncWrite, SyncWriteFail, SyncDir,
            SyncDirWrite, SyncDirFail, SyncAftermath, SyncAgain
    <2>5. Up'
      <3>1. CASE SyncBackup \/ SyncSave \/ SyncWrite
        BY <2>2, <3>1, Zenon DEF Up, SyncBackup, SyncSave, SyncWrite, Advance, TmType
      <3>2. CASE SyncPrepare \/ SyncWriteFail \/ SyncDir \/ SyncDirWrite \/ SyncDirFail
                 \/ SyncAftermath \/ SyncAgain
        BY <2>2, <3>2, Zenon
           DEF Up, SyncPrepare, SyncWriteFail, SyncDir, SyncDirWrite, SyncDirFail,
              SyncAftermath, SyncAgain, TmType
      <3>3. QED
        BY <2>1, <3>1, <3>2, Zenon
    <2>6. \A b \in Bats : bat'[b].status = bat[b].status /\ bat'[b].version = bat[b].version
      <3>1. CASE SyncSave
        BY <2>2, <3>1 DEF SyncSave, OpenHeap, Records
      <3>2. CASE SyncWrite
        BY <2>2, <3>2 DEF SyncWrite, Records
      <3>3. CASE ~SyncSave /\ ~SyncWrite
        BY <2>1, <3>3, Zenon DEF SyncPrepare, SyncBackup, SyncWriteFail, SyncDir, SyncDirWrite,
              SyncDirFail, SyncAftermath, SyncAgain
      <3>4. QED
        BY <3>1, <3>2, <3>3
    <2>7. QED
      BY <2>3, <2>4, <2>5, <2>6, Stutters, Zenon DEF StuttersFact, Shown, Lasting
  <1>3. QED
    BY <1>1, <1>2, Zenon

\* A restart ends with what the BBP.dir that counts describes.
LEMMA RecoverStutters ==
    ASSUME Covered, Ordered, IInv, IInv', RecoverStep
    PROVE  UNCHANGED <<Recovered, Shadow>>
  <1>1. RecoveredDir' = RecoveredDir
    <2>1. RecoverSubdir \/ RecoverDir \/ RecoverPrepare \/ bbpdir' = bbpdir
      BY Zenon DEF RecoverStep, RecoverFile, BBPdiskscan
    <2>2. QED
      BY <2>1, RecoverSubdirInv, RecoverDirInv, RecoverPrepareInv, Zenon DEF RecoveredDir, Keeps
  <1>2. ~Up
    BY Zenon DEF Up, RecoverStep, RecoverSubdir, RecoverDir, RecoverFile, RecoverPrepare,
       BBPdiskscan
  <1>3. CASE BBPdiskscan
    <2>1. tm.pc = "diskscan" /\ tm'.pc = "done" /\ bat' = bat
      BY <1>3, Zenon DEF BBPdiskscan, Idle
    <2>2. Up'
      BY <2>1, Zenon DEF Up
    <2>3. \A b \in Bats : RecoveredDir[b] = Shown(bat[b])
      <3>1. TAKE b \in Bats
      <3>2. Ok(b, FilesOf(b), bat[b], RecoveredDir[b], "diskscan")
        BY <1>2, <2>1, Setup, Restarts, Zenon DEF SetupFact, RestartsFact
      <3>3. QED
        BY <3>2, Zenon DEF Ok, Restarting, Shown, Lasting
    <2>4. Shows' = RecoveredDir
      BY <2>1, <2>3, Zenon DEF Shows, IInv, DirOK
    <2>5. QED
      BY <1>1, <1>2, <2>2, <2>4, ShadowIs, RecoveredIs, Zenon DEF ShadowIsFact
  <1>4. CASE ~BBPdiskscan
    <2>1. ~Up'
      <3>1. tm \in TmType
        BY TypeIs, Zenon DEF IInv, Types
      <3>2. QED
        BY <1>4, <3>1, Zenon DEF Up, RecoverStep, RecoverSubdir, RecoverDir, RecoverFile,
           RecoverPrepare, TmType
    <2>2. QED
      BY <1>1, <1>2, <2>1, ShadowIs, RecoveredIs, Zenon DEF ShadowIsFact
  <1>5. QED
    BY <1>3, <1>4, Zenon

\* A step of the protocol is a step of the abstract store, or leaves it alone.
LEMMA RefinesStep ==
    ASSUME Covered, Ordered, IInv, IInv', [Next]_vars
    PROVE  [Store!Next]_<<Recovered, Shadow>>
  <1>1. CASE Client \/ SyncRename \/ Crash
    BY <1>1, ClientStep, CommitStep, CrashStep, Zenon DEF Store!Next
  <1>2. CASE TMcommit \/ TMsubcommit
    <2>1. PICK list \in SUBSET Bats : \E sub \in BOOLEAN : Prelude(list, sub)
      BY <1>2, BatsAssumption, Zenon DEF TMcommit, TMsubcommit
    <2>2. QED
      BY <2>1, PreludeStutters, Zenon DEF PreludeStuttersFact
  <1>3. CASE UNCHANGED vars
    <2>1. bbpdir' = bbpdir /\ tm' = tm /\ bat' = bat
      BY <1>3, Zenon DEF vars, disk
    <2>2. RecoveredDir' = RecoveredDir /\ Up' = Up
      BY <2>1, Zenon DEF RecoveredDir, Up
    <2>3. QED
      BY <2>1, <2>2, Stutters, Zenon DEF StuttersFact
  <1>4. QED
    BY <1>1, <1>2, <1>3, SaveStutters, SyncStutters, RecoverStutters, Zenon DEF Next, SyncStep

-----------------------------------------------------------------------------
(* The theorems.                                                           *)

LOCAL INSTANCE WellFoundedInduction

\* Bat identifiers are natural numbers: a non-empty set of them has a least one.
LEMMA BatsOrdered == Ordered
  <1> SUFFICES ASSUME NEW S \in SUBSET Bats, S # {} PROVE \E n \in S : \A m \in S : n <= m
    BY Zenon DEF Ordered
  <1> S \in SUBSET Nat
    BY BatsAssumption, Zenon
  <1>1. PICK n \in S : \A m \in S : ~(<<m, n>> \in OpToRel(<, Nat))
    BY NatLessThanWellFounded, WFMin, Zenon
  <1>2. \A m \in S : n <= m
    <2>1. TAKE m \in S
    <2>2. ~(m < n)
      BY <1>1, <2>1, Zenon DEF OpToRel
    <2>3. QED
      BY <2>2
  <1>3. QED
    BY <1>2, Zenon

\* The files on disk, the records in memory, the BBP.dir that counts and the
\* progress of commits, of BBPsave and of the restart fit together.
THEOREM Invariance == ASSUME Covered PROVE Spec => []IInv
  <1>1. Init => IInv
    BY InitInv, Zenon
  <1>2. IInv /\ [Next]_vars => IInv'
    BY NextInv, BatsOrdered, Zenon
  <1>3. QED
    BY <1>1, <1>2, PTL DEF Spec

\* Whenever the server stops, every bat of the BBP.dir that the restart reads
\* has the heap that its entry describes.
THEOREM RecoverableHolds == ASSUME Covered PROVE Spec => []Recoverable
  BY Invariance, InvRecoverable, PTL

\* A bat that BBPsave has unloaded can be loaded again, as it was.
THEOREM ImageHolds == ASSUME Covered PROVE Spec => []ImageIsCurrent
  BY Invariance, InvImage, PTL

\* Once BBPsync has renamed the backup directory, the bats of its list are on
\* disk as the program sees them.
THEOREM DurableHolds == ASSUME Covered PROVE Spec => []CommitIsDurable
  BY Invariance, InvDurable, PTL

\* backup_dir tells where BBP.dir has been put.
THEOREM BackupDirHolds == ASSUME Covered PROVE Spec => []BackupDirTells
  BY Invariance, InvBackupDir, PTL

\* BBPEXISTING and BBPDELETED tell which bats are in the last checkpoint.
THEOREM StatusHolds == ASSUME Covered PROVE Spec => []StatusTells
  BY Invariance, InvStatus, PTL

\* A commit fails only when something could not be written: BBPprepare finds
\* BBP.dir whenever a commit calls it.
THEOREM FailureHolds == ASSUME Covered PROVE Spec => []FailsOnlyOnError
  BY Invariance, InvFails, PTL

\* BBPsync implements Checkpoint: the durable state changes in the rename only,
\* from the last checkpoint to one with the bats of the list as they are, and
\* a restart brings back exactly the last checkpoint.
THEOREM Atomic == ASSUME Covered PROVE Spec => IsAtomic
  <1>1. ASSUME Init PROVE Store!Init
    <2>1. IInv
      BY <1>1, InitInv, Zenon
    <2>2. Recovered = RecoveredDir /\ RecoveredDir \in [Bats -> Entry]
      BY <2>1, RecoveredIs, Zenon DEF IInv, DirOK
    <2>3. Up
      BY <1>1, Zenon DEF Init, Idle, Up
    <2>4. Visible = RecoveredDir
      <3>1. \A b \in Bats : RecoveredDir[b] = IF b \in Initial THEN 1 ELSE 0
        <4>1. bbpdir["BAKDIR"] = [b \in Bats |-> IF b \in Initial THEN 1 ELSE 0]
              /\ bbpdir["SUBDIR"] = NoDir
          BY <1>1, Zenon DEF Init, Dirs
        <4>2. bbpdir["BAKDIR"] # NoDir
          BY <1>1, <2>1, Zenon DEF IInv, DirOK, Init, Idle
        <4>3. QED
          BY <4>1, <4>2, Zenon DEF RecoveredDir
      <3>2. \A b \in Bats : Shown(bat[b]) = IF b \in Initial THEN 1 ELSE 0
        BY <1>1, Zenon DEF Init, Shown, Lasting, OnDisk, FreeSlot
      <3>3. Shows = RecoveredDir
        BY <2>2, <3>1, <3>2, Zenon DEF Shows
      <3>4. QED
        BY <3>3, ShadowIs, Zenon DEF ShadowIsFact
    <2>5. QED
      BY <2>2, <2>3, <2>4, Zenon DEF Store!Init, Store!Contents, Entry
  <1>2. IInv /\ IInv' /\ [Next]_vars => [Store!Next]_<<Recovered, Shadow>>
    BY RefinesStep, BatsOrdered, Zenon
  <1>3. QED
    BY <1>1, <1>2, Invariance, PTL DEF Spec, IsAtomic, Store!Spec, Shadow

=============================================================================
