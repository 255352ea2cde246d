------------------------------ MODULE SQLTrans ------------------------------
(***************************************************************************)
(* SQL transactions (sql/storage/store.c, sql/storage/bat/bat_storage.c,   *)
(* sql/server/sql_mvc.c).  Concurrency control is optimistic: a            *)
(* transaction works on its own copies, and mvc_commit validates time      *)
(* stamps under the store lock before it rolls the copies forward into the *)
(* global transaction gtrans.                                              *)
(*                                                                         *)
(* A table has one column ("col", a chain of sql_delta) and its deleted    *)
(* rows ("del", a chain of sql_dbat); an index is handled as one more      *)
(* column and is left out.  The rows are abstracted to the stamps of the   *)
(* transactions that appended, updated or deleted them.  A session keeps   *)
(* one sql_trans object; a closed session hands it on through spare_trans, *)
(* so a session of the model may stand for several of them.  Savepoints,   *)
(* TRUNCATE (clear_table) and temporary tables are left out.  COMMIT AND   *)
(* CHAIN is a commit and a begin with nothing in between.                  *)
(***************************************************************************)
EXTENDS Naturals, Sequences, FiniteSets

CONSTANTS
    Sessions,
    Tables,
    Statements,   \* the statements tried on each table
    MaxStamp,     \* bound: time stamps handed out are smaller
    MaxWork       \* bound on the statements of a transaction

ASSUME TransAssumption ==
    /\ IsFiniteSet(Sessions)
    /\ MaxStamp \in Nat /\ MaxWork \in Nat

VARIABLES
    stamp,        \* the next time stamp
    schema_number,
    gtrans,       \* wtime, wstime of the global transaction, wtime of its schema
    gtab,         \* rtime and wtime of the global tables and columns
    chain,        \* the versions of a global table's parts, newest first
    base,         \* the rows of the BAT that the versions of a column share
    tr,           \* the transaction object of each session
    tab,          \* its rtime and wtime of tables and columns
    data,         \* its t->data and c->data
    work,         \* statements of the transaction so far (for MaxWork)
    committed,    \* stamps of the transactions committed so far (history)
    late          \* older transactions active when the session began, and
                  \* before, as long as it holds versions of then (history)

global == <<gtrans, gtab, chain, base, schema_number>>
local == <<tr, tab, data, work>>
history == <<committed, late>>
vars == <<stamp, global, local, history>>

Parts == {"col", "del"}

NoTimes == [rtime |-> 0, wtime |-> 0, crtime |-> 0, cwtime |-> 0]
NoData == [at |-> "none", id |-> 0, ins |-> {}, ups |-> {}]
Shared(n) == [at |-> "gtrans", id |-> n, ins |-> {}, ups |-> {}]
Copy(i, u) == [at |-> "own", id |-> 0, ins |-> i, ups |-> u]
NothingHeld == [t \in Tables |-> [p \in Parts |-> NoData]]

Active == {s \in Sessions : tr[s].active}
Larger(m, n) == IF m < n THEN n ELSE m

\* A new database starts with what its first transaction created; after a
\* restart gtrans has not written anything.
Init ==
    \E w \in {0, 2} :
        /\ stamp = 3 /\ schema_number = 0
        /\ gtrans = [wtime |-> w, wstime |-> Larger(1, w), swtime |-> w]
        /\ gtab = [t \in Tables |->
                    [rtime |-> 0, wtime |-> w, crtime |-> 0, cwtime |-> w]]
        /\ chain = [t \in Tables |-> [p \in Parts |->
                       <<[wtime |-> w, ins |-> {}, ups |-> {}]>>]]
        /\ base = [t \in Tables |-> [ins |-> {}, ups |-> {}]]
        /\ tr = [s \in Sessions |->
                    [active |-> FALSE, stime |-> w, wstime |-> 0, wtime |-> 0,
                     srtime |-> 0, swtime |-> 0, schema_number |-> 0,
                     schema_updates |-> FALSE]]
        /\ tab = [s \in Sessions |-> [t \in Tables |-> NoTimes]]
        /\ data = [s \in Sessions |-> NothingHeld]
        /\ work = [s \in Sessions |-> 0]
        /\ committed = {} /\ late = [s \in Sessions |-> {}]

-----------------------------------------------------------------------------
(* Versions *)

\* The first version in the chain that is not newer than ts, or the last one.
timestamp_delta(d, ts) ==
    d[CHOOSE i \in DOMAIN d :
        /\ i = Len(d) \/ d[i].wtime <= ts
        /\ \A j \in 1..(i - 1) : d[j].wtime > ts]

Version(s, t, p) == timestamp_delta(chain[t][p], tr[s].stime)

\* What a transaction reads: the version it holds, or from now on holds.
Hold(s, t, p) ==
    IF data[s][t][p] = NoData THEN Shared(Version(s, t, p).wtime)
    ELSE data[s][t][p]

\* What it writes to: a copy of its own of the version.
Own(s, t, p) ==
    IF data[s][t][p].at = "own" THEN data[s][t][p]
    ELSE Copy(Version(s, t, p).ins, Version(s, t, p).ups)

Reads(s, t, times) ==
    [times EXCEPT !.rtime = tr[s].stime, !.crtime = tr[s].stime]
Writes(s, t, times) ==
    [times EXCEPT !.wtime = tr[s].wstime, !.cwtime = tr[s].wstime]

-----------------------------------------------------------------------------
(* Begin *)

ResetColumn(s, t) ==
    \/ tab[s][t].crtime # 0 \/ tab[s][t].cwtime # 0
    \/ tr[s].stime < gtab[t].cwtime

\* Seeded defect: a table that was only written is not reset.
BugResetTable(s, t) == tab[s][t].rtime # 0 \/ tr[s].stime < gtab[t].wtime

ResetTable(s, t) ==
    \/ tab[s][t].rtime # 0 \/ tab[s][t].wtime # 0
    \/ tr[s].stime < gtab[t].wtime

ResetSchema(s) == tr[s].swtime # 0 \/ tr[s].stime < gtrans.swtime

\* Drops what the previous transaction of the session has read or written, or
\* what others have written since it began.
reset_trans(s) ==
    /\ data' = [data EXCEPT ![s] = [t \in Tables |-> [p \in Parts |->
                    IF /\ ResetSchema(s) /\ ResetTable(s, t)
                       /\ p = "del" \/ ResetColumn(s, t)
                    THEN NoData ELSE data[s][t][p]]]]
    /\ tab' = [tab EXCEPT ![s] = [t \in Tables |->
                    IF ResetSchema(s)
                    THEN IF ResetTable(s, t) THEN NoTimes
                         ELSE [tab[s][t] EXCEPT !.rtime = 0, !.wtime = 0]
                    ELSE tab[s][t]]]

\* Seeded defect: only the session's own writes make it start afresh.
BugResetNeeded(s) == tr[s].wtime # 0 \/ tr[s].schema_number # schema_number

ResetNeeded(s) ==
    \/ tr[s].stime < gtrans.wstime \/ tr[s].wtime # 0
    \/ tr[s].schema_number # schema_number

sql_trans_begin(s) ==
    /\ ~tr[s].active /\ stamp < MaxStamp
    /\ IF ResetNeeded(s) THEN reset_trans(s) ELSE UNCHANGED <<data, tab>>
    /\ tr' = [tr EXCEPT ![s] =
                [active |-> TRUE, stime |-> gtrans.wtime, wstime |-> stamp,
                 wtime |-> 0,
                 srtime |-> IF ResetNeeded(s) THEN 0 ELSE tr[s].srtime,
                 swtime |-> IF ResetNeeded(s) THEN 0 ELSE tr[s].swtime,
                 schema_number |-> schema_number, schema_updates |-> FALSE]]
    /\ stamp' = stamp + 1
    /\ late' = [late EXCEPT ![s] =
                  (IF data'[s] = NothingHeld THEN {} ELSE late[s]) \cup
                  {tr[r].wstime : r \in {q \in Active : tr[q].wstime < gtrans.wtime}}]
    /\ UNCHANGED <<global, work, committed>>

-----------------------------------------------------------------------------
(* Statements *)

SetData(s, t, col, del) ==
    data' = [data EXCEPT ![s][t] = [p \in Parts |-> IF p = "col" THEN col ELSE del]]

Executes(s) ==
    /\ tr[s].active /\ work[s] < MaxWork
    /\ work' = [work EXCEPT ![s] = @ + 1]

Ends(s) == work' = [work EXCEPT ![s] = 0]

\* The transaction and its schema carry the stamps of what it touched.
MarkRead(s) == tr' = [tr EXCEPT ![s].srtime = tr[s].stime]
MarkWrite(s) ==
    tr' = [tr EXCEPT ![s].wtime = tr[s].wstime, ![s].swtime = tr[s].wstime]

bind_col(s, t) ==
    /\ Executes(s) /\ "bind_col" \in Statements[t]
    /\ SetData(s, t, Hold(s, t, "col"), data[s][t]["del"])
    /\ tab' = [tab EXCEPT ![s][t] = Reads(s, t, @)]
    /\ MarkRead(s)
    /\ UNCHANGED <<stamp, global, history>>

bind_ucol(s, t) ==
    /\ Executes(s) /\ "bind_ucol" \in Statements[t]
    /\ SetData(s, t, Hold(s, t, "col"), Hold(s, t, "del"))
    /\ tab' = [tab EXCEPT ![s][t] = Reads(s, t, @)]
    /\ MarkRead(s)
    /\ UNCHANGED <<stamp, global, history>>

bind_del(s, t) ==
    /\ Executes(s) /\ "bind_del" \in Statements[t]
    /\ SetData(s, t, data[s][t]["col"], Hold(s, t, "del"))
    /\ tab' = [tab EXCEPT ![s][t].rtime = tr[s].stime]
    /\ MarkRead(s)
    /\ UNCHANGED <<stamp, global, history>>

\* Counting the rows of a column does not count as reading it.
count_col(s, t) ==
    /\ Executes(s) /\ "count_col" \in Statements[t]
    /\ SetData(s, t, Hold(s, t, "col"), data[s][t]["del"])
    /\ UNCHANGED <<stamp, global, tr, tab, history>>

append_col(s, t) ==
    LET d == Own(s, t, "col") IN
    /\ Executes(s) /\ "append_col" \in Statements[t]
    /\ SetData(s, t, [d EXCEPT !.ins = @ \cup {tr[s].wstime}], data[s][t]["del"])
    /\ tab' = [tab EXCEPT ![s][t] = Writes(s, t, @)]
    /\ MarkWrite(s)
    /\ UNCHANGED <<stamp, global, history>>

update_col(s, t) ==
    LET d == Own(s, t, "col") IN
    /\ Executes(s) /\ "update_col" \in Statements[t]
    /\ SetData(s, t, [d EXCEPT !.ups = @ \cup {tr[s].wstime}], data[s][t]["del"])
    /\ tab' = [tab EXCEPT ![s][t] = Reads(s, t, Writes(s, t, @))]
    /\ tr' = [tr EXCEPT ![s].wtime = tr[s].wstime, ![s].swtime = tr[s].wstime,
                        ![s].srtime = tr[s].stime]
    /\ UNCHANGED <<stamp, global, history>>

delete_tab(s, t) ==
    LET d == Own(s, t, "del") IN
    /\ Executes(s) /\ "delete_tab" \in Statements[t]
    /\ SetData(s, t, Hold(s, t, "col"), [d EXCEPT !.ins = @ \cup {tr[s].wstime}])
    /\ tab' = [tab EXCEPT ![s][t].wtime = tr[s].wstime]
    /\ MarkWrite(s)
    /\ UNCHANGED <<stamp, global, history>>

\* Any change of the schema: a table, column, key, function, ...
sql_trans_create_table(s) ==
    /\ Executes(s)
    /\ tr' = [tr EXCEPT ![s].wtime = tr[s].wstime, ![s].swtime = tr[s].wstime,
                        ![s].schema_updates = TRUE]
    /\ UNCHANGED <<stamp, global, tab, data, history>>

-----------------------------------------------------------------------------
(* Commit *)

\* Seeded defect: what the transaction has read is not validated.
BugValidTimes(r, w, or, ow) == w # 0 => w >= or /\ w >= ow

\* Nobody has read or written it after the write, or written it after the read.
ValidTimes(r, w, or, ow) ==
    /\ w # 0 => w >= or /\ w >= ow
    /\ r # 0 => r >= ow

\* Seeded defect: only what the transaction has read is validated.
BugValidTable(s, t) ==
    LET l == tab[s][t]
        g == gtab[t]
    IN  l.rtime # 0 => l.rtime >= g.wtime

validate_table(s, t) ==
    LET l == tab[s][t]
        g == gtab[t]
    IN  \/ l.wtime = 0 /\ l.rtime = 0
        \/ /\ ValidTimes(l.rtime, l.wtime, g.rtime, g.wtime)
           /\ ValidTimes(l.crtime, l.cwtime, g.crtime, g.cwtime)

sql_trans_validate(s) ==
    /\ tr[s].schema_number = schema_number
    /\ \/ tr[s].swtime = 0 /\ tr[s].srtime = 0
       \/ \A t \in Tables : validate_table(s, t)

\* The parts of t that the commit rolls forward.
Written(s, t, p) ==
    /\ tab[s][t].wtime # 0 /\ data[s][t][p].at = "own"
    /\ p = "col" => tab[s][t].cwtime # 0

\* Others may be reading the versions: the copy becomes the newest one.  (The
\* loop that follows in update_table to drop old versions never drops one.)
Moved(s, t, p) ==
    <<[wtime |-> tr[s].wstime, ins |-> data[s][t][p].ins, ups |-> data[s][t][p].ups]>>
        \o chain[t][p]

\* Alone: the copy is merged into the newest version and the others are freed.
\* What a column's copy holds is appended to, or replaced in, the shared BAT.
tr_update_delta(s, t) ==
    LET d == data[s][t]["col"]
        o == chain[t]["col"][1]
    IN  <<[o EXCEPT !.ins = IF d.ins # {} THEN {} ELSE @,
                    !.ups = IF d.ups # {} THEN {} ELSE @]>>

\* Only the deletions of the transaction itself are appended.
tr_update_dbat(s, t) ==
    LET d == data[s][t]["del"]
        o == chain[t]["del"][1]
    IN  <<[o EXCEPT !.ins = IF @ = {} THEN d.ins ELSE @ \cup (d.ins \cap {tr[s].wstime})]>>

\* Seeded defect: the copy is merged while others hold the versions.
BugMove == FALSE

Move == Cardinality(Active) > 1

UpdatedChain(s, t, p) ==
    IF ~Written(s, t, p) THEN chain[t][p]
    ELSE IF Move THEN Moved(s, t, p)
    ELSE IF p = "col" THEN tr_update_delta(s, t)
    ELSE tr_update_dbat(s, t)

UpdatedBase(s, t) ==
    IF Written(s, t, "col") /\ ~Move
    THEN [ins |-> base[t].ins \cup data[s][t]["col"].ins,
          ups |-> base[t].ups \cup data[s][t]["col"].ups]
    ELSE base[t]

UpdatedTimes(s, t) ==
    LET l == tab[s][t]
        g == gtab[t]
        c == Written(s, t, "col")
    IN  IF l.wtime = 0 THEN g
        ELSE [rtime |-> Larger(g.rtime, l.rtime), wtime |-> Larger(g.wtime, l.wtime),
              crtime |-> IF c THEN Larger(g.crtime, l.crtime) ELSE g.crtime,
              cwtime |-> IF c THEN Larger(g.cwtime, l.cwtime) ELSE g.cwtime]

\* The commit takes the copies of the tables written from the transaction.
rollforward_trans(s) ==
    /\ chain' = [t \in Tables |-> [p \in Parts |-> UpdatedChain(s, t, p)]]
    /\ base' = [t \in Tables |-> UpdatedBase(s, t)]
    /\ gtab' = [t \in Tables |-> UpdatedTimes(s, t)]
    /\ gtrans' = [wtime |-> Larger(gtrans.wtime, tr[s].wtime),
                  wstime |-> Larger(gtrans.wstime, tr[s].wstime),
                  swtime |-> Larger(gtrans.swtime, tr[s].swtime)]
    /\ tab' = [tab EXCEPT ![s] = [t \in Tables |->
                  IF tab[s][t].wtime = 0 THEN tab[s][t] ELSE NoTimes]]
    /\ data' = [data EXCEPT ![s] = [t \in Tables |-> [p \in Parts |->
                  IF tab[s][t].wtime = 0 THEN data[s][t][p] ELSE NoData]]]
    /\ schema_number' = schema_number + (IF tr[s].schema_updates THEN 1 ELSE 0)

\* A transaction that has not written just ends.
mvc_commit_nothing(s) ==
    /\ tr[s].active /\ tr[s].wtime = 0
    /\ Ends(s)
    /\ tr' = [tr EXCEPT ![s].active = FALSE]
    /\ UNCHANGED <<stamp, global, tab, data, history>>

mvc_commit(s) ==
    /\ tr[s].active /\ tr[s].wtime # 0
    /\ sql_trans_validate(s)
    /\ rollforward_trans(s)
    /\ Ends(s)
    /\ tr' = [tr EXCEPT ![s].active = FALSE, ![s].schema_number = schema_number]
    /\ committed' = committed \cup {tr[s].wstime}
    /\ UNCHANGED <<stamp, late>>

\* On request, after an error, or when the validation fails.  What it wrote is
\* thrown away by the next sql_trans_begin.
mvc_rollback(s) ==
    /\ tr[s].active /\ tr[s].wtime # 0
    /\ Ends(s)
    /\ tr' = [tr EXCEPT ![s].active = FALSE]
    /\ UNCHANGED <<stamp, global, tab, data, history>>

-----------------------------------------------------------------------------
(* The store manager *)

HasChanges(t) ==
    /\ gtab[t].cwtime # 0
    /\ chain[t]["col"][1].ins # {} \/ chain[t]["col"][1].ups # {}

gtr_update_delta(t) ==
    IF gtab[t].cwtime = 0 THEN chain[t]["col"]
    ELSE <<[chain[t]["col"][1] EXCEPT !.ins = {}, !.ups = {}]>>

\* Seeded defect: the manager does not wait for the transactions to end.
BugIdle == TRUE

Idle == Active = {}

\* Every 30 seconds, when the log has grown and no transaction is active.  The
\* deleted rows are left as they are.
store_manager ==
    LET changed == {t \in Tables : HasChanges(t)} IN
    /\ Idle /\ stamp < MaxStamp
    /\ stamp' = stamp + 1
    /\ chain' = [t \in Tables |-> [chain[t] EXCEPT !["col"] = gtr_update_delta(t)]]
    /\ base' = [t \in Tables |->
                  IF t \in changed
                  THEN [ins |-> base[t].ins \cup chain[t]["col"][1].ins,
                        ups |-> base[t].ups \cup chain[t]["col"][1].ups]
                  ELSE base[t]]
    /\ gtab' = [t \in Tables |->
                  IF t \in changed
                  THEN [gtab[t] EXCEPT !.wtime = stamp, !.cwtime = stamp] ELSE gtab[t]]
    /\ gtrans' = IF changed # {}
                 THEN [wtime |-> stamp, wstime |-> stamp, swtime |-> stamp]
                 ELSE [gtrans EXCEPT !.wstime = stamp]
    /\ UNCHANGED <<schema_number, local, history>>

Next ==
    \/ store_manager
    \/ \E s \in Sessions :
          \/ sql_trans_begin(s)
          \/ sql_trans_create_table(s)
          \/ mvc_commit_nothing(s) \/ mvc_commit(s) \/ mvc_rollback(s)
          \/ \E t \in Tables :
                \/ bind_col(s, t) \/ bind_ucol(s, t) \/ bind_del(s, t)
                \/ count_col(s, t)
                \/ append_col(s, t) \/ update_col(s, t) \/ delete_tab(s, t)

Spec == Init /\ [][Next]_vars

-----------------------------------------------------------------------------
(* Properties *)

Rows == SUBSET Nat
VersionRec == [wtime : Nat, ins : Rows, ups : Rows]
TimesRec == [rtime : Nat, wtime : Nat, crtime : Nat, cwtime : Nat]
TransRec == [active : BOOLEAN, stime : Nat, wstime : Nat, wtime : Nat,
             srtime : Nat, swtime : Nat, schema_number : Nat,
             schema_updates : BOOLEAN]
DataRec == [at : {"none", "gtrans", "own"}, id : Nat, ins : Rows, ups : Rows]

\* Types of the variables; there is always a version to read.
TypeOK ==
    /\ stamp \in Nat /\ schema_number \in Nat
    /\ gtrans \in [wtime : Nat, wstime : Nat, swtime : Nat]
    /\ gtab \in [Tables -> TimesRec]
    /\ chain \in [Tables -> [Parts -> Seq(VersionRec)]]
    /\ \A t \in Tables, p \in Parts : chain[t][p] # <<>>
    /\ base \in [Tables -> [ins : Rows, ups : Rows]]
    /\ tr \in [Sessions -> TransRec]
    /\ tab \in [Sessions -> [Tables -> TimesRec]]
    /\ data \in [Sessions -> [Tables -> [Parts -> DataRec]]]
    /\ work \in [Sessions -> 0..MaxWork]
    /\ committed \in Rows /\ late \in [Sessions -> Rows]

\* timestamp_delta relies on a chain that is ordered, newest first; update_table
\* asserts it of every column it rolls forward.
ChainSorted ==
    \A t \in Tables, p \in Parts : \A i, j \in 1..Len(chain[t][p]) :
        i < j => chain[t][p][i].wtime > chain[t][p][j].wtime

\* The assertion of rollforward_trans, that gtrans has one stamp, for every
\* transaction that could commit now.
GtransStamps ==
    \A s \in Active : gtrans.wtime = gtrans.wstime \/ tr[s].wstime > gtrans.wstime

\* No transaction has committed that is older than the last commit the session
\* had seen when it began.  The stamps of the code do not show such a commit.
InOrder(s) == late[s] \cap committed = {}

\* A version that a running transaction holds (c->data, t->data) has not been
\* freed by a commit or by the store manager, neither since it began nor while
\* the session was idle, as long as the commits come in the order of the stamps.
HeldIsLive ==
    \A s \in Active, t \in Tables, p \in Parts :
        data[s][t][p].at = "gtrans" /\ InOrder(s) =>
            \E i \in DOMAIN chain[t][p] : chain[t][p][i].wtime = data[s][t][p].id

\* What others see was written by transactions that have committed; what a
\* transaction is about to commit, by those and by itself.
CommittedOnly ==
    /\ \A t \in Tables :
         /\ base[t].ins \cup base[t].ups \subseteq committed
         /\ \A p \in Parts : \A i \in DOMAIN chain[t][p] :
              chain[t][p][i].ins \cup chain[t][p][i].ups \subseteq committed
    /\ \A s \in Active, t \in Tables, p \in Parts :
         data[s][t][p].at = "own" =>
            data[s][t][p].ins \cup data[s][t][p].ups
                \subseteq committed \cup {tr[s].wstime}

\* The version with stamp n.
VersionAt(d, n) == d[CHOOSE i \in DOMAIN d : d[i].wtime = n]

\* What a part looks like to a transaction that holds it.
Seen(s, t, p) ==
    LET d == data[s][t][p]
        v == IF d.at = "own" THEN d ELSE VersionAt(chain[t][p], d.id)
    IN  IF p = "del" THEN v.ins ELSE <<base[t].ins \cup v.ins, base[t].ups \cup v.ups>>

\* No step of another session, nor of the store manager, changes what a running
\* transaction sees of a version it holds.
SnapshotStable ==
    [][\A s \in Sessions, t \in Tables, p \in Parts :
          /\ tr[s].active /\ tr'[s] = tr[s] /\ InOrder(s)
          /\ data[s][t][p].at # "none" /\ data'[s][t][p] = data[s][t][p]
          => Seen(s, t, p)' = Seen(s, t, p)]_vars

\* No lost update: a transaction that passes the validation and has read (and
\* so updated) a column replaces a version that it has seen.  The stamps do not
\* show this when gtrans has stamp 0 (nothing committed since the restart), or
\* when a transaction older than the last commit commits after this one began.
NoLostUpdate ==
    \A s \in Active, t \in Tables :
        /\ Written(s, t, "col") /\ tab[s][t].crtime # 0
        /\ sql_trans_validate(s) /\ InOrder(s)
        => /\ chain[t]["col"][1].ins \subseteq data[s][t]["col"].ins
           /\ chain[t]["col"][1].ups \subseteq data[s][t]["col"].ups

\* The assertion of tr_update_delta on the number of rows, for a transaction
\* that could commit alone: its copy has the rows of the version it replaces.
MergeCounts ==
    \A s \in Active, t \in Tables :
        /\ Active = {s} /\ sql_trans_validate(s)
        /\ Written(s, t, "col") /\ data[s][t]["col"].ins # {}
        => chain[t]["col"][1].ins \subseteq data[s][t]["col"].ins
=============================================================================
