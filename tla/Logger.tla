------------------------------- MODULE Logger -------------------------------
(***************************************************************************)
(* The write-ahead log of the SQL store: gdk_logger.c, driven by           *)
(* bat_logger.c, the commit of store.c and the log functions of            *)
(* bat_storage.c.                                                          *)
(*                                                                         *)
(* On disk there are the master file log (the ids of the log files in use),*)
(* its companions log.bak and log.bak-<id>, the log files log.<id>, and    *)
(* the image of the BATs that the last subcommit left (TMsubcommit is one  *)
(* step here: BBPSync shows that it is atomic).  A crash of the process    *)
(* may fall between any two operations on the disk; of the records still   *)
(* in the buffer of the log stream any prefix may have reached the file.   *)
(* The content of a BAT is the sequence of the rows put into it, every row *)
(* with a number of its own, so that a lost row, a row replayed twice and  *)
(* a row at the wrong place all show.                                      *)
(***************************************************************************)
EXTENDS Integers, Sequences, FiniteSets, FiniteSetsExt, SequencesExt, TLC

CONSTANTS Names,        \* names of persistent BATs in the logger's catalog
          Bids,         \* BAT identifiers, positive integers
          CrashReplay,  \* may a crash fall between the reopening of the log
                        \* that was just replayed and the commit of the replay?
          MaxRow,       \* bound: rows written
          MaxOps,       \* bound: operations of a transaction
          MaxTrans,     \* bound: transactions and logged sequence values
          MaxSeq,       \* bound: values of the sequence
          MaxId,        \* bound: ids of log files
          MaxCrash      \* bound: crashes

ASSUME LoggerAssumption ==
  /\ Bids \subseteq Nat \ {0} /\ IsFiniteSet(Bids)
  /\ CrashReplay \in BOOLEAN
  /\ {MaxRow, MaxOps, MaxTrans, MaxSeq, MaxId, MaxCrash} \subseteq Nat

VARIABLES disk,    \* log, bak, baks: the master file and its companions;
                   \* logs: the log files; image: the BATs last committed
          lg,      \* struct logger and the BATs it refers to
          buf,     \* records in the buffer of the log stream
          store,   \* what the SQL store holds under every name
          ibase,   \* names whose rows are in the base BAT (sql_delta.ibase)
          alone,   \* store_nr_active = 1 during the current transaction
          touched, \* names the current transaction has logged
          pc,      \* where the thread that has the store lock is
          who,     \* who restarts the log: boot, manager or copy
          todo,    \* log files its logger_cleanup still has to unlink
          manager, \* the store_manager after it released the lock
          mtodo,   \* log files its logger_cleanup still has to unlink
          logging, \* the flag logging of store.c
          truth,   \* history: store and sequence as of the last commit
          used     \* bounds: rows, transactions and crashes so far

sql == <<store, ibase, alone, touched>>
mem == <<lg, buf, sql>>
threads == <<pc, who, todo, manager, mtodo, logging>>
vars == <<disk, mem, threads, truth, used>>

NoFile == {-1}
NoContent == <<-1>>
LOG_START == "START"
LOG_END == "END"
LOG_SEQ == "SEQ"
LOG_INSERT == "INSERT"
LOG_CREATE == "CREATE"
LOG_USE == "USE"
LOG_DESTROY == "DESTROY"
LOG_CLEAR == "CLEAR"

Record(flag, tid, name, nr) ==
  [flag |-> flag, tid |-> tid, name |-> name, nr |-> nr]

NoSnapshots == [b \in Bids |-> 0]
Empty == [n \in Names |-> 0]
Unread == [id |-> 0, tid |-> 0, cat |-> Empty, bats |-> << >>,
           snaps |-> NoSnapshots, new |-> {}, freed |-> {}, gone |-> {},
           seq |-> 0]

\* A database that logger_new has just created; the first log file has id 2.
Init ==
  /\ disk = [log |-> {2}, bak |-> NoFile, baks |-> << >>,
             logs |-> (2 :> << >>),
             image |-> [cat |-> Empty, bats |-> << >>, sid |-> 2,
                        snaps |-> NoSnapshots, seq |-> 0]]
  /\ lg = [Unread EXCEPT !.id = 2]
  /\ buf = << >>
  /\ store = [n \in Names |-> NoContent]
  /\ ibase = {} /\ alone = TRUE /\ touched = {}
  /\ pc = "run" /\ who = "boot" /\ todo = {}
  /\ manager = "idle" /\ mtodo = {} /\ logging = FALSE
  /\ truth = [store |-> [n \in Names |-> NoContent], seq |-> 0]
  /\ used = [rows |-> 0, trans |-> 0, crashes |-> 0]
-----------------------------------------------------------------------------
(***************************************************************************)
(* The catalog: functions of the logger record g.                          *)
(***************************************************************************)
Put(f, k, v) == [x \in DOMAIN f \cup {k} |-> IF x = k THEN v ELSE f[x]]
Drop(f, ks) == [x \in DOMAIN f \ ks |-> f[x]]

\* Seeded defect: the name of a destroyed BAT stays in the catalog.
BugDelBat(g, name) ==
  [g EXCEPT !.new = @ \ {g.cat[name]}, !.gone = @ \cup {g.cat[name]}]

\* A BAT of this transaction or of one since the last logger_commit is only
\* in memory, unless it is a snapshot: that one is kept until bm_commit.
logger_del_bat(g, name) ==
  LET b == g.cat[name]
      isnew == b \in g.new
      snap == isnew /\ g.snaps[b] # 0 IN
  [g EXCEPT !.cat[name] = 0,
            !.new = @ \ {b},
            !.snaps[b] = IF snap THEN 0 ELSE @,
            !.freed = IF snap THEN @ \cup {b} ELSE @,
            !.gone = IF isnew THEN @ ELSE @ \cup {b},
            !.bats = IF isnew /\ ~snap THEN Drop(@, {b}) ELSE @]

logger_add_bat(g, b, name) ==
  IF g.cat[name] = b THEN g
  ELSE LET d == IF g.cat[name] # 0 THEN logger_del_bat(g, name) ELSE g
       IN  [d EXCEPT !.cat[name] = b, !.new = @ \cup {b}]

\* A BAT identifier that the BBP has free.
FreeBids(g) == Bids \ (DOMAIN g.bats \cup DOMAIN disk.image.bats)

\* bm_subcommit of the BATs in list, with the two BATs of the snapshots.
bm_subcommit(image, g, list) ==
  [image EXCEPT !.bats = [b \in DOMAIN @ \cup list |->
                            IF b \in list THEN g.bats[b] ELSE @[b]],
                !.snaps = g.snaps]

\* logger_commit: the new log id, no snapshots, then bm_commit, which makes
\* the destroyed BATs and the freed snapshots transient and commits the rest
\* of the catalog with the sequences.
logger_commit(image, g) ==
  LET list == {g.cat[n] : n \in Names} \ {0}
      dead == g.gone \cup g.freed
      kept == Drop(image.bats, dead) IN
  [cat |-> g.cat, sid |-> g.id, seq |-> g.seq, snaps |-> NoSnapshots,
   bats |-> [b \in DOMAIN kept \cup list |->
               IF b \in list THEN g.bats[b] ELSE kept[b]]]

BATcommitted(g) ==
  [g EXCEPT !.snaps = NoSnapshots, !.new = {}, !.freed = {}, !.gone = {},
            !.bats = Drop(@, g.gone \cup g.freed)]
-----------------------------------------------------------------------------
(***************************************************************************)
(* Replay: logger_readlog and the functions it calls, on r = the logger    *)
(* record with the transaction being read (tr, changes) and err.           *)
(***************************************************************************)
\* "do we need to skip these old updates": the snapshot holds them already.
Skips(r, b) == r.snaps[b] # 0 /\ r.tid <= r.snaps[b]

la_bat_updates(r, a) ==
  LET b == r.cat[a.name] IN
  IF b = 0 \/ Skips(r, b) THEN r
  ELSE [r EXCEPT !.bats[b] = Append(@, a.nr)]

la_bat_clear(r, a) ==
  LET b == r.cat[a.name] IN
  IF b = 0 \/ Skips(r, b) THEN r ELSE [r EXCEPT !.bats[b] = << >>]

la_bat_create(r, a) ==
  LET b == Min(FreeBids(r)) IN
  logger_add_bat([r EXCEPT !.bats = Put(@, b, << >>)], b, a.name)

la_bat_use(r, a) ==
  IF a.nr \notin DOMAIN r.bats THEN r
  ELSE [logger_add_bat(r, a.nr, a.name) EXCEPT !.snaps[a.nr] = r.tid]

la_bat_destroy(r, a) ==
  LET b == r.cat[a.name] IN
  IF b = 0 THEN r
  ELSE LET d == logger_del_bat(r, a.name)
       IN  IF d.snaps[b] # 0 THEN [d EXCEPT !.snaps[b] = r.tid] ELSE d

la_apply(r, a) ==
  CASE a.flag = LOG_INSERT -> la_bat_updates(r, a)
    [] a.flag = LOG_CREATE -> la_bat_create(r, a)
    [] a.flag = LOG_USE -> la_bat_use(r, a)
    [] a.flag = LOG_DESTROY -> la_bat_destroy(r, a)
    [] a.flag = LOG_CLEAR -> la_bat_clear(r, a)

tr_commit(r) == [FoldLeft(la_apply, r, r.changes) EXCEPT !.changes = << >>,
                                                         !.tr = 0]

\* The type of the values is found in the catalog or in a LOG_CREATE that
\* the same transaction has before; without it the reading stops.
log_read_updates(r, l) ==
  IF \/ r.cat[l.name] # 0
     \/ \E i \in DOMAIN r.changes : /\ r.changes[i].flag = LOG_CREATE
                                    /\ r.changes[i].name = l.name
  THEN [r EXCEPT !.changes = Append(@, l)]
  ELSE [r EXCEPT !.err = TRUE]

\* One turn of the loop of logger_readlog.  Only one transaction is open at
\* a time, so the chain that tr_find searches has at most one element.
ReadRecord(r, l) ==
  CASE r.err -> r
    [] l.flag = LOG_START ->
         [r EXCEPT !.tid = IF l.nr > @ THEN l.nr ELSE @,
                   !.tr = l.nr, !.changes = << >>]
    [] l.flag = LOG_SEQ -> [r EXCEPT !.seq = l.nr]
    [] r.tr # l.tid -> [r EXCEPT !.err = TRUE]
    [] l.flag = LOG_END -> tr_commit(r)
    [] l.flag = LOG_INSERT -> log_read_updates(r, l)
    [] OTHER -> [r EXCEPT !.changes = Append(@, l)]

logger_readlog(r, file) ==
  FoldLeft(ReadRecord,
           [r EXCEPT !.tr = 0, !.changes = << >>, !.err = FALSE], file)

\* logger_readlogs: the files of the master, from the committed id on.
logger_readlogs(r, ids, logs) ==
  LET todoids == SetToSortSeq({i \in ids : i >= r.id}, <) IN
  FoldLeft(LAMBDA s, i : LET q == [s EXCEPT !.id = i] IN
                         IF i \in DOMAIN logs THEN logger_readlog(q, logs[i])
                                              ELSE q,
           r, todoids)

\* What logger_new makes of a disk: the master is log.bak when that exists.
logger_new(d) ==
  LET im == d.image
      r0 == [id |-> im.sid, tid |-> 0, cat |-> im.cat, bats |-> im.bats,
             snaps |-> im.snaps, new |-> {}, freed |-> {}, gone |-> {},
             seq |-> im.seq, tr |-> 0, changes |-> << >>, err |-> FALSE]
      ids == IF d.bak # NoFile THEN d.bak ELSE d.log
      r == logger_readlogs(r0, ids \ NoFile, d.logs) IN
  [f \in DOMAIN Unread |-> r[f]]

\* load_bat and load_delta of the SQL store: the content of every name.
Contents(g) == [n \in Names |-> IF g.cat[n] = 0 THEN NoContent
                                ELSE g.bats[g.cat[n]]]
-----------------------------------------------------------------------------
(***************************************************************************)
(* A transaction that commits: sql_trans_commit under the store lock.      *)
(***************************************************************************)
Log(records) == buf' = buf \o records

log_tstart ==
  /\ pc = "run" /\ used.trans < MaxTrans
  /\ lg' = [lg EXCEPT !.tid = @ + 1]
  /\ Log(<<Record(LOG_START, lg'.tid, "", lg'.tid)>>)
  /\ used' = [used EXCEPT !.trans = @ + 1]
  /\ alone' \in BOOLEAN
  /\ touched' = {}
  /\ pc' = "trans"
  /\ UNCHANGED <<disk, store, ibase, who, todo, manager, mtodo, logging, truth>>

\* The name n is logged once in a transaction, with the new content c.
Writes(n, c, newrows) ==
  /\ pc = "trans" /\ n \notin touched /\ Cardinality(touched) < MaxOps
  /\ used.rows + newrows <= MaxRow
  /\ used' = [used EXCEPT !.rows = @ + newrows]
  /\ store' = [store EXCEPT ![n] = c]
  /\ touched' = touched \cup {n}
  /\ UNCHANGED <<disk, alone, threads, truth>>

row == used.rows + 1

\* logger_add_bat of a new BAT b with rows c and log_bat_persists of it: a
\* large BAT was made persistent and is logged as a snapshot.
Persists(n, b, c, large, records) ==
  LET added == logger_add_bat([lg EXCEPT !.bats = Put(@, b, c)], b, n) IN
  IF large
  THEN /\ lg' = [added EXCEPT !.snaps[b] = lg.tid]
       /\ Log(records \o <<Record(LOG_USE, lg.tid, n, b)>>)
  ELSE /\ lg' = added
       /\ Log(records \o <<Record(LOG_CREATE, lg.tid, n, 0)>>
              \o [i \in DOMAIN c |-> Record(LOG_INSERT, lg.tid, n, c[i])])

\* A new column (log_create_delta): empty, with few rows or with many.
log_create_delta(n) ==
  /\ lg.cat[n] = 0 /\ FreeBids(lg) # {}
  /\ \E c \in {<< >>, <<row>>} : \E large \in {FALSE, c # << >>} :
       /\ Writes(n, c, Len(c))
       /\ Persists(n, Min(FreeBids(lg)), c, large, << >>)
       /\ ibase' = IF c = << >> THEN ibase ELSE ibase \cup {n}

\* The changes of a column (tr_log_delta): cleared, then rows inserted.  The
\* rows become a snapshot when they are many and there is no base BAT.
tr_log_delta(n) ==
  /\ lg.cat[n] # 0
  /\ \E cleared, inserts, large \in BOOLEAN :
       LET kept == IF cleared THEN << >> ELSE store[n]
           clear == IF cleared THEN <<Record(LOG_CLEAR, lg.tid, n, 1)>>
                    ELSE << >>
           based == n \in ibase /\ ~cleared IN
       /\ cleared \/ inserts
       /\ large => inserts /\ alone /\ ~based /\ FreeBids(lg) # {}
       /\ Writes(n, IF inserts THEN Append(kept, row) ELSE kept,
                 IF inserts THEN 1 ELSE 0)
       /\ ibase' = IF cleared THEN ibase \ {n} ELSE ibase
       /\ IF large
          THEN Persists(n, Min(FreeBids(lg)), Append(kept, row), TRUE, clear)
          ELSE /\ Log(IF inserts
                      THEN Append(clear, Record(LOG_INSERT, lg.tid, n, row))
                      ELSE clear)
               /\ UNCHANGED lg

\* A dropped column (log_destroy_delta): log_bat_transient, logger_del_bat.
log_destroy_delta(n) ==
  LET b == lg.cat[n] IN
  /\ b # 0
  /\ Writes(n, NoContent, 0)
  /\ lg' = logger_del_bat(
             IF lg.snaps[b] # 0 THEN [lg EXCEPT !.snaps[b] = lg.tid] ELSE lg, n)
  /\ Log(<<Record(LOG_DESTROY, lg.tid, n, 0)>>)
  /\ ibase' = ibase \ {n}

Flushed(records) == [disk.logs EXCEPT ![lg.id] = @ \o buf \o records]

\* Seeded defect: the record of a sequence waits for the next flush.
BugSequence ==
  /\ pc \in {"run", "trans"} /\ lg.seq < MaxSeq /\ used.trans < MaxTrans
  /\ used' = [used EXCEPT !.trans = @ + 1]
  /\ lg' = [lg EXCEPT !.seq = @ + 1]
  /\ Log(<<Record(LOG_SEQ, lg.tid, "", lg'.seq)>>)
  /\ truth' = [truth EXCEPT !.seq = lg'.seq]
  /\ UNCHANGED <<disk, sql, threads>>

\* "a transaction in it self": in the log at once, with all that is buffered.
log_sequence ==
  /\ pc \in {"run", "trans"} /\ lg.seq < MaxSeq /\ used.trans < MaxTrans
  /\ used' = [used EXCEPT !.trans = @ + 1]
  /\ lg' = [lg EXCEPT !.seq = @ + 1]
  /\ disk' = [disk EXCEPT !.logs =
                Flushed(<<Record(LOG_SEQ, lg.tid, "", lg'.seq)>>)]
  /\ buf' = << >>
  /\ truth' = [truth EXCEPT !.seq = lg'.seq]
  /\ UNCHANGED <<sql, threads>>

\* Seeded defect: the new snapshots are left to the next checkpoint.
BugTend ==
  /\ pc = "trans"
  /\ Log(<<Record(LOG_END, lg.tid, "", lg.tid)>>)
  /\ pc' = "flush"
  /\ UNCHANGED <<disk, lg, sql, who, todo, manager, mtodo, logging, truth, used>>

\* log_tend, first the subcommit of the new snapshots and the LOG_END ...
log_tend ==
  /\ pc = "trans"
  /\ disk' = IF lg.snaps = disk.image.snaps THEN disk
             ELSE [disk EXCEPT !.image =
                     bm_subcommit(@, lg, {b \in Bids : lg.snaps[b] = lg.tid})]
  /\ Log(<<Record(LOG_END, lg.tid, "", lg.tid)>>)
  /\ pc' = "flush"
  /\ UNCHANGED <<lg, sql, who, todo, manager, mtodo, logging, truth, used>>

\* The base BATs of the names ns hold all the rows (tr_update_delta when the
\* transaction is alone, gtr_update_delta in the checkpoint).
Merged(g, ns) ==
  [g EXCEPT !.bats = [b \in DOMAIN @ |->
     IF \E n \in ns : g.cat[n] = b
     THEN store[CHOOSE n \in ns : g.cat[n] = b] ELSE @[b]]]

Based(ns) == ibase \cup {n \in ns : lg.cat[n] # 0 /\ store[n] # << >>}

\* ... then the flush, after which the commit is acknowledged and the changes
\* are rolled forward.
log_tend_flush ==
  /\ pc = "flush"
  /\ disk' = [disk EXCEPT !.logs = Flushed(<< >>)]
  /\ buf' = << >>
  /\ truth' = [truth EXCEPT !.store = store]
  /\ LET ns == IF alone THEN touched ELSE {} IN
       lg' = Merged(lg, ns) /\ ibase' = Based(ns)
  /\ touched' = {}
  /\ pc' = "run"
  /\ UNCHANGED <<store, alone, who, todo, manager, mtodo, logging, used>>
-----------------------------------------------------------------------------
(***************************************************************************)
(* The checkpoint: gtrans_update, logger_restart and logger_cleanup.       *)
(***************************************************************************)
\* Seeded defect: the deltas are not merged before the checkpoint.
BugUpdate == UNCHANGED <<lg, ibase>>

gtrans_update ==
  /\ lg' = Merged(lg, Names)
  /\ ibase' = Based(Names)

Restarts(by) ==
  /\ pc = "run" /\ lg.id < MaxId
  /\ logging' = TRUE
  /\ gtrans_update
  /\ pc' = "exit" /\ who' = by
  /\ UNCHANGED <<disk, buf, store, alone, touched, todo, mtodo, truth, used>>

\* The thread of the store_manager finds no transaction and enough changes.
store_manager ==
  /\ manager = "idle"
  /\ Restarts("manager")
  /\ manager' = "restart"

\* COPY ... LOCKED, which has the lock of the store.
store_apply_deltas ==
  /\ Restarts("copy")
  /\ UNCHANGED manager

At(here, there) == pc = here /\ pc' = there
Rests == UNCHANGED <<mem, who, todo, manager, mtodo, logging, truth, used>>

logger_exit_move ==
  /\ At("exit", "moved")
  /\ disk' = [disk EXCEPT !.bak = disk.log, !.log = NoFile]
  /\ Rests

\* fopen of the new master and logger_commit.
logger_exit_fopen ==
  /\ At("moved", "fopened")
  /\ disk' = [disk EXCEPT !.log = {}]
  /\ lg' = [lg EXCEPT !.id = @ + 1]
  /\ UNCHANGED <<buf, sql, who, todo, manager, mtodo, logging, truth, used>>

logger_exit_commit ==
  /\ At("fopened", "committed")
  /\ disk' = [disk EXCEPT !.image = logger_commit(@, lg)]
  /\ lg' = BATcommitted(lg)
  /\ UNCHANGED <<buf, sql, who, todo, manager, mtodo, logging, truth, used>>

logger_exit_fclose ==
  /\ At("committed", "written")
  /\ disk' = [disk EXCEPT !.log = {lg.id}]
  /\ Rests

\* Seeded defect: the old master is removed instead of renamed.
BugSwitch ==
  /\ At("written", "open")
  /\ disk' = [disk EXCEPT !.bak = NoFile]
  /\ Rests

\* "atomic action, switch to new log"
logger_exit_switch ==
  /\ At("written", "open")
  /\ disk' = [disk EXCEPT !.baks = Put(@, lg.id, disk.bak), !.bak = NoFile]
  /\ Rests

\* open_wstream creates the file, or empties the one that is there.
LogOpened == [disk EXCEPT !.logs = Put(@, lg.id, << >>)]

\* The manager releases the lock before its cleanup, the others do not.
logger_restart_open ==
  /\ pc = "open"
  /\ disk' = LogOpened
  /\ IF who = "manager" THEN pc' = "run" /\ manager' = "unlocked"
                        ELSE pc' = "clean" /\ UNCHANGED manager
  /\ UNCHANGED <<mem, who, todo, mtodo, logging, truth, used>>

HasBak == lg.id \in DOMAIN disk.baks
Unlinks(i) == disk' = [disk EXCEPT !.logs = Drop(@, {i})]
UnlinksBak == disk' = [disk EXCEPT !.baks = Drop(@, {lg.id})]

\* logger_cleanup under the lock: open the backup, unlink the log files in
\* it, unlink the backup.  COPY ... LOCKED ignores that it is not there,
\* logger_create fails.
logger_cleanup_open ==
  /\ pc = "clean"
  /\ IF HasBak THEN todo' = disk.baks[lg.id] /\ pc' = "cleaning"
     ELSE todo' = {} /\ pc' = IF who = "boot" THEN "failed" ELSE "cleaned"
  /\ UNCHANGED <<disk, mem, who, manager, mtodo, logging, truth, used>>

logger_cleanup_log ==
  /\ pc = "cleaning"
  /\ \E i \in todo : Unlinks(i) /\ todo' = todo \ {i}
  /\ UNCHANGED <<mem, pc, who, manager, mtodo, logging, truth, used>>

logger_cleanup_bak ==
  /\ At("cleaning", "cleaned") /\ todo = {}
  /\ UnlinksBak
  /\ Rests

cleaned ==
  /\ At("cleaned", "run")
  /\ logging' = FALSE
  /\ UNCHANGED <<disk, mem, who, todo, manager, mtodo, truth, used>>

ManagerRests == UNCHANGED <<mem, pc, who, todo, truth>>

\* The process ends: of the buffered records a prefix is in the file.  The
\* transaction is durable if that takes in its LOG_END.
Written(k) == IF buf = << >> THEN disk
              ELSE [disk EXCEPT !.logs[lg.id] = @ \o SubSeq(buf, 1, k)]
Durable(k) == pc = "flush" /\ k = Len(buf)

Dies ==
  /\ \E k \in 0 .. Len(buf) :
       /\ disk' = Written(k)
       /\ truth' = IF Durable(k) THEN [truth EXCEPT !.store = store] ELSE truth
  /\ lg' = Unread /\ buf' = << >> /\ touched' = {} /\ alone' = TRUE
  /\ store' = [n \in Names |-> NoContent] /\ ibase' = {}
  /\ pc' = "down" /\ who' = "boot" /\ todo' = {}
  /\ manager' = "idle" /\ mtodo' = {} /\ logging' = FALSE

\* logger_cleanup of the manager, without the lock: lg->id is read again for
\* every name, and it has changed when COPY ... LOCKED restarted the log.
manager_cleanup_open ==
  /\ manager = "unlocked"
  /\ \/ /\ ~logging
        /\ manager' = "done" /\ mtodo' = {} /\ UNCHANGED <<disk, logging, used>>
        /\ ManagerRests
     \/ /\ logging /\ HasBak
        /\ manager' = "cleaning" /\ mtodo' = disk.baks[lg.id]
        /\ UNCHANGED <<disk, logging, used>>
        /\ ManagerRests
     \/ \* GDKfatal("write-ahead logging failure, disk full?")
        /\ logging /\ ~HasBak
        /\ Dies /\ UNCHANGED used

manager_cleanup_log ==
  /\ manager = "cleaning"
  /\ \E i \in mtodo : Unlinks(i) /\ mtodo' = mtodo \ {i}
  /\ UNCHANGED <<manager, logging, used>> /\ ManagerRests

manager_cleanup_bak ==
  /\ manager = "cleaning" /\ mtodo = {}
  /\ UnlinksBak
  /\ manager' = "done"
  /\ UNCHANGED <<mtodo, logging, used>> /\ ManagerRests

\* The manager takes the lock to end its turn.
manager_done ==
  /\ manager = "done" /\ pc = "run"
  /\ manager' = "idle" /\ logging' = FALSE
  /\ UNCHANGED <<disk, mtodo, used>> /\ ManagerRests
-----------------------------------------------------------------------------
(***************************************************************************)
(* Crash and restart: logger_create, which is logger_new, logger_open and  *)
(* then a restart and a cleanup of the log as in a checkpoint.             *)
(***************************************************************************)
\* The log just replayed was emptied and its changes are not yet committed.
InReplay == who = "boot" /\ pc \in {"exit", "moved", "fopened"}

Crash ==
  /\ used.crashes < MaxCrash
  /\ InReplay => CrashReplay
  /\ Dies
  /\ used' = [used EXCEPT !.crashes = @ + 1]

BootRests == UNCHANGED <<mem, who, todo, manager, mtodo, logging, truth, used>>

logger_new_unlink ==
  /\ pc = "down"
  /\ IF disk.bak # NoFile
     THEN disk' = [disk EXCEPT !.log = NoFile] /\ pc' = "unlinked"
     ELSE UNCHANGED disk /\ pc' = "ready"
  /\ BootRests

logger_new_move ==
  /\ At("unlinked", "ready")
  /\ disk' = [disk EXCEPT !.log = disk.bak, !.bak = NoFile]
  /\ BootRests

logger_new_read ==
  /\ pc = "ready"
  /\ pc' = IF disk.log = NoFile THEN "failed" ELSE "reopen"
  /\ lg' = logger_new(disk)
  /\ store' = Contents(lg')
  /\ ibase' = {n \in Names : store'[n] \notin {NoContent, << >>}}
  /\ UNCHANGED <<disk, buf, alone, touched, who, todo, manager, mtodo, logging,
                 truth, used>>

logger_create_open ==
  /\ At("reopen", "exit")
  /\ disk' = LogOpened
  /\ BootRests

Boot == \/ logger_new_unlink \/ logger_new_move \/ logger_new_read
        \/ logger_create_open
Checkpoint == \/ logger_exit_move \/ logger_exit_fopen \/ logger_exit_commit
              \/ logger_exit_fclose \/ logger_exit_switch
              \/ logger_restart_open \/ logger_cleanup_open
              \/ logger_cleanup_log \/ logger_cleanup_bak \/ cleaned
Manager == \/ manager_cleanup_open \/ manager_cleanup_log
           \/ manager_cleanup_bak \/ manager_done
Operation == \E n \in Names : \/ log_create_delta(n) \/ tr_log_delta(n)
                              \/ log_destroy_delta(n)

Next == \/ log_tstart \/ Operation \/ log_sequence \/ log_tend
        \/ log_tend_flush \/ store_manager \/ store_apply_deltas
        \/ Checkpoint \/ Manager \/ Crash \/ Boot

Spec == Init /\ [][Next]_vars
-----------------------------------------------------------------------------
(***************************************************************************)
(* Properties.                                                             *)
(***************************************************************************)
\* The logger's memory is well formed: what the catalog names exists, two
\* names never share a BAT (logger_add_bat, logger_del_bat, la_bat_create),
\* and the store holds a content exactly for the names of the catalog.
TypeOK ==
  /\ lg.cat \in [Names -> Bids \cup {0}]
  /\ \A n \in Names : lg.cat[n] # 0 =>
       /\ lg.cat[n] \in DOMAIN lg.bats \ (lg.freed \cup lg.gone)
       /\ \A m \in Names \ {n} : lg.cat[m] # lg.cat[n]
  /\ \A n \in Names : (lg.cat[n] = 0) = (store[n] = NoContent)
  /\ disk.image.snaps \in [Bids -> Nat]
  /\ DOMAIN disk.logs \subseteq Nat
  /\ manager \in {"idle", "restart", "unlocked", "cleaning", "done"}
  /\ touched \subseteq Names /\ ibase \subseteq Names

\* Wherever the process dies, the disk holds the committed transactions,
\* each once and in order, and of the one that is being committed all or
\* nothing: a restart, with any part of the buffered records in the log,
\* finds the store as of the last LOG_END in the log (the header of
\* gdk_logger.c, log_tend, logger_exit, logger_cleanup, logger_readlogs).
Recoverable ==
  ~(InReplay /\ ~CrashReplay) =>
     \A k \in 0 .. Len(buf) :
        Contents(logger_new(Written(k))) = IF Durable(k) THEN store
                                           ELSE truth.store

\* The last value of a sequence that log_sequence returned from is never
\* forgotten, in a transaction that commits or not.
SequenceKept ==
  ~(InReplay /\ ~CrashReplay) => logger_new(disk).seq = truth.seq

\* A restarted server serves exactly what was committed: after the recovery
\* and every checkpoint (logger_create, logger_restart) the store in memory is
\* the last committed one.
ServesCommitted ==
  pc = "run" => store = truth.store /\ lg.seq = truth.seq

\* logger_create never fails: whatever file operation a crash interrupted,
\* there is a master file to read ("the catalog exists, and so should the
\* log file") and logger_cleanup finds the backup it must clean up after.
StartsUp == pc # "failed"
=============================================================================
