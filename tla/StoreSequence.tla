---------------------------- MODULE StoreSequence ----------------------------
(***************************************************************************)
(* SQL sequences (sql/storage/store_sequence.c).  The server keeps the     *)
(* state of the sequences in use in memory (sql_seqs) and writes ahead to  *)
(* the log how far it may go (cached); after a crash a sequence continues  *)
(* from there.  Calls run under the store lock; a bulk call holds it from  *)
(* seqbulk_create to seqbulk_destroy, which writes the log.                *)
(*                                                                         *)
(* The log keeps a number per object identifier, and writing it is not     *)
(* part of any transaction; identifiers are handed out by next_oid, and    *)
(* how far they were used is logged at commit.  One sequence at a time     *)
(* exists in the catalog.  Assertions are properties, not steps.           *)
(***************************************************************************)
EXTENDS Naturals, FiniteSets

CONSTANTS
    Defs,         \* sequence definitions: records of the fields below
    Restarts,     \* arguments of ALTER SEQUENCE ... RESTART WITH
    Alters,       \* changes by ALTER SEQUENCE: functions of the fields given
    MaxOid,       \* bound: identifiers in use are smaller
    MaxCur        \* bound: sequences do not go beyond

\* What rel_create_seq makes of the options: a maximum or minimum of 0 is none.
ASSUME DefsAssumption ==
    Defs \subseteq [start : Nat, minvalue : Nat, maxvalue : Nat,
                    increment : Nat \ {0}, cacheinc : Nat \ {0},
                    cycle : BOOLEAN]

ASSUME RestartsAssumption == Restarts \subseteq Nat

VARIABLES
    def,          \* the definition of the sequence
    flag,         \* "none": no sequence; base.flag: "TR_NEW" or "TR_OLD"
    id,           \* its identifier
    sql_seqs,     \* the sequences in memory, by identifier
    seqs,         \* the numbers in the log, by identifier
    store_oid,    \* next identifier
    logged_oid,   \* next identifier as logged
    sb,           \* the bulk call that holds the store lock, if any
    handed,       \* numbers the sequence handed out since it was (re)started
    latest        \* numbers the latest call handed out (history)

catalog == <<def, flag, id, store_oid, logged_oid>>
history == <<handed, latest>>
vars == <<catalog, sql_seqs, seqs, sb, history>>

NoBulk == [active |-> FALSE, save |-> FALSE, vals |-> {}, new |-> {}]

Init ==
    /\ def \in Defs /\ flag = "none" /\ id = 0
    /\ sql_seqs = [i \in {} |-> 0] /\ seqs = [i \in {} |-> 0]
    /\ store_oid = 1 /\ logged_oid = 1
    /\ sb = NoBulk
    /\ handed = {} /\ latest = {}

\* f with f[i] = v, where i may be new.
Put(f, i, v) == [j \in DOMAIN f \cup {i} |-> IF j = i THEN v ELSE f[j]]

-----------------------------------------------------------------------------
(* The state of the sequence in memory *)

\* Only a sequence of an earlier transaction can have a number in the log.
sql_create_sequence ==
    LET c == IF flag = "TR_OLD" /\ id \in DOMAIN seqs THEN seqs[id]
             ELSE def.start
    IN  [called |-> FALSE, cur |-> c, cached |-> c]

Find == IF id \in DOMAIN sql_seqs THEN sql_seqs[id] ELSE sql_create_sequence

OutOfRange(v) ==
    \/ def.maxvalue # 0 /\ v > def.maxvalue
    \/ def.minvalue # 0 /\ v < def.minvalue

\* The number a call looks at first.
Candidate(s) == IF s.called THEN s.cur + def.increment ELSE s.cur

Exhausted(v) == OutOfRange(v) /\ ~def.cycle

\* The number a call returns: a cycle starts again at the minimum.
Value(v) == IF OutOfRange(v) THEN def.minvalue ELSE v

\* Seeded defect: the number just handed out counts as cached.
BugAhead(v) == v + (def.cacheinc - 1) * def.increment

Ahead(v) == v + def.cacheinc * def.increment

\* How far the log goes when the call returns v.
CachedNext(s, c) ==
    IF OutOfRange(c) \/ c = s.cached THEN Ahead(Value(c)) ELSE s.cached

CachedBulk(s, c) == IF Value(c) = s.cached THEN Ahead(Value(c)) ELSE s.cached

Unlocked == flag # "none" /\ ~sb.active

-----------------------------------------------------------------------------
(* Calls *)

seq_next_value ==
    LET s == Find
        c == Candidate(s)
        cached == CachedNext(s, c)
    IN  /\ Unlocked /\ c <= MaxCur
        /\ ~Exhausted(c)
        /\ sql_seqs' = Put(sql_seqs, id,
                [called |-> TRUE, cur |-> Value(c), cached |-> cached])
        /\ seqs' = IF OutOfRange(c) \/ c = s.cached
                       THEN Put(seqs, id, cached) ELSE seqs
        /\ handed' = handed \cup latest
        /\ latest' = {Value(c)}
        /\ UNCHANGED <<catalog, sb>>

\* "we're out of numbers": the call fails, the current number has moved on.
seq_next_value_fails ==
    LET s == Find
        c == Candidate(s)
    IN  /\ Unlocked /\ c <= MaxCur
        /\ Exhausted(c)
        /\ sql_seqs' = Put(sql_seqs, id, [s EXCEPT !.cur = c])
        /\ UNCHANGED <<catalog, seqs, sb, history>>

\* The caller only looks at the next number.
seq_get_value ==
    /\ Unlocked
    /\ sql_seqs' = Put(sql_seqs, id, Find)
    /\ UNCHANGED <<catalog, seqs, sb, history>>

seqbulk_create ==
    /\ Unlocked
    /\ sql_seqs' = Put(sql_seqs, id, Find)
    /\ sb' = [NoBulk EXCEPT !.active = TRUE]
    /\ UNCHANGED <<catalog, seqs, history>>

seqbulk_next_value ==
    LET s == sql_seqs[id]
        c == Candidate(s)
    IN  /\ sb.active /\ c <= MaxCur
        /\ ~Exhausted(c)
        /\ sql_seqs' = Put(sql_seqs, id,
                [called |-> TRUE, cur |-> Value(c), cached |-> CachedBulk(s, c)])
        /\ sb' = [sb EXCEPT !.save = @ \/ OutOfRange(c) \/ c = s.cached,
                            !.vals = @ \cup sb.new,
                            !.new = {Value(c)}]
        /\ UNCHANGED <<catalog, seqs, handed, latest>>

\* Seeded defect: the numbers go to the caller and the log is not written.
BugDestroyUnlogged ==
    /\ sb.active
    /\ handed' = handed \cup latest
    /\ latest' = sb.vals \cup sb.new
    /\ sb' = NoBulk
    /\ UNCHANGED <<catalog, sql_seqs, seqs>>

\* The log is written, the numbers go to the caller.
seqbulk_destroy ==
    /\ sb.active
    /\ seqs' = IF sb.save THEN Put(seqs, id, sql_seqs[id].cached) ELSE seqs
    /\ handed' = handed \cup latest
    /\ latest' = sb.vals \cup sb.new
    /\ sb' = NoBulk
    /\ UNCHANGED <<catalog, sql_seqs>>

\* The bulk call runs out of numbers: the caller gets an error and no numbers.
seqbulk_fails ==
    LET s == sql_seqs[id]
        c == Candidate(s)
    IN  /\ sb.active /\ c <= MaxCur
        /\ Exhausted(c)
        /\ sql_seqs' = Put(sql_seqs, id, [s EXCEPT !.cur = c])
        /\ seqs' = IF sb.save THEN Put(seqs, id, s.cached) ELSE seqs
        /\ sb' = NoBulk
        /\ UNCHANGED <<catalog, history>>

\* sql_trans_sequence_restart, which ignores that seq_restart may refuse.
seq_restart ==
    \E start \in Restarts :
        /\ Unlocked
        /\ def' = [def EXCEPT !.start = start]
        /\ sql_seqs' = Put(sql_seqs, id,
                [called |-> FALSE, cur |-> start, cached |-> start])
        /\ seqs' = IF OutOfRange(start) THEN seqs ELSE Put(seqs, id, start)
        /\ handed' = {} /\ latest' = {}
        /\ UNCHANGED <<flag, id, store_oid, logged_oid, sb>>

-----------------------------------------------------------------------------
(* The catalog *)

sql_trans_create_sequence ==
    /\ flag = "none" /\ store_oid < MaxOid
    /\ def' \in Defs
    /\ flag' = "TR_NEW" /\ id' = store_oid /\ store_oid' = store_oid + 1
    /\ handed' = {} /\ latest' = {}
    /\ UNCHANGED <<logged_oid, sql_seqs, seqs, sb>>

\* Any transaction that commits logs the identifiers used so far.
sql_trans_commit ==
    /\ ~sb.active
    /\ flag' = IF flag = "TR_NEW" THEN "TR_OLD" ELSE flag
    /\ logged_oid' = store_oid
    /\ UNCHANGED <<def, id, store_oid, sql_seqs, seqs, sb, history>>

sql_trans_alter_sequence ==
    /\ Unlocked /\ flag = "TR_OLD"
    /\ \E d \in Alters : def' = [f \in DOMAIN def |->
                                    IF f \in DOMAIN d THEN d[f] ELSE def[f]]
    /\ UNCHANGED <<flag, id, store_oid, logged_oid, sql_seqs, seqs, sb, history>>

\* DROP SEQUENCE, or the rollback of the transaction that created it.
sql_trans_drop_sequence ==
    /\ Unlocked
    /\ flag' = "none"
    /\ UNCHANGED <<def, id, store_oid, logged_oid, sql_seqs, seqs, sb, history>>

\* The server stops at any moment and starts again from the log.
Crash ==
    /\ flag' = IF flag = "TR_NEW" THEN "none" ELSE flag
    /\ store_oid' = logged_oid
    /\ sql_seqs' = [i \in {} |-> 0]
    /\ sb' = NoBulk
    /\ UNCHANGED <<def, id, logged_oid, seqs, history>>

Next ==
    \/ seq_next_value \/ seq_next_value_fails \/ seq_get_value
    \/ seqbulk_create \/ seqbulk_next_value \/ seqbulk_destroy \/ seqbulk_fails
    \/ seq_restart
    \/ sql_trans_create_sequence \/ sql_trans_commit
    \/ sql_trans_alter_sequence \/ sql_trans_drop_sequence
    \/ Crash

Spec == Init /\ [][Next]_vars

-----------------------------------------------------------------------------
(* Properties *)

\* The variables have their types; in particular no number becomes negative.
TypeOK ==
    /\ def \in [start : Nat, minvalue : Nat, maxvalue : Nat,
                increment : Nat \ {0}, cacheinc : Nat \ {0}, cycle : BOOLEAN]
    /\ flag \in {"none", "TR_NEW", "TR_OLD"} /\ id \in Nat
    /\ store_oid \in Nat /\ logged_oid \in Nat
    /\ DOMAIN sql_seqs \subseteq Nat
    /\ sql_seqs \in [DOMAIN sql_seqs ->
                        [called : BOOLEAN, cur : Nat, cached : Nat]]
    /\ DOMAIN seqs \subseteq Nat /\ seqs \in [DOMAIN seqs -> Nat]
    /\ sb \in [active : BOOLEAN, save : BOOLEAN, vals : SUBSET Nat,
               new : SUBSET Nat]
    /\ handed \subseteq Nat /\ latest \subseteq Nat

\* A sequence that does not cycle hands out no number twice between restarts,
\* to single or to bulk calls, whenever the server crashes.
NoRepeat ==
    ~def.cycle => /\ latest \cap handed = {}
                  /\ sb.new \cap (sb.vals \cup latest \cup handed) = {}

\* assert(nr<s->cached): the number in use is covered by the log.
InUseCovered ==
    flag # "none" /\ id \in DOMAIN sql_seqs =>
        LET s == sql_seqs[id]
        IN  s.called /\ ~OutOfRange(s.cur) => s.cur < s.cached
=============================================================================
