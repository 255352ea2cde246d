------------------------- MODULE StoreSequenceProofs -------------------------
(***************************************************************************)
(* A sequence that does not cycle never hands out a number twice, for all  *)
(* definitions and restarts, as long as ALTER SEQUENCE changes nothing but *)
(* the start (Alters = {}).  What carries the proof is that the current    *)
(* number reaches the number in the log exactly: it goes there in steps of *)
(* the increment, and the log is a whole number of increments ahead.       *)
(***************************************************************************)
EXTENDS StoreSequence, TLAPS

Given == handed \cup latest
Bulk == sb.vals \cup sb.new
InMemory == id \in DOMAIN sql_seqs
SeqRec == [called : BOOLEAN, cur : Nat, cached : Nat]

\* Beyond the maximum: every further call fails.
Over(s) == def.maxvalue # 0 /\ s.cur > def.maxvalue

\* n is a positive number of increments ahead of c.
Aligned(c, n) == \E k \in Nat \ {0} : n = c + k * def.increment

\* Every number handed out lies below the one in the log.
LogCovers == \A v \in Given : id \in DOMAIN seqs /\ v < seqs[id]

\* How the state s in memory relates to the numbers in use and to the log.
Covers(s) ==
    /\ \A v \in Given : v < s.cur \/ (s.called /\ v = s.cur)
    /\ \A v \in Bulk : s.called /\ v <= s.cur /\ v < s.cached
    /\ s.called /\ ~sb.save => id \in DOMAIN seqs /\ seqs[id] = s.cached
    /\ \/ Over(s)
       \/ ~s.called /\ s.cached = s.cur
       \/ s.called /\ Aligned(s.cur, s.cached)
    /\ sb.save => s.called /\ Aligned(s.cur, s.cached)
    /\ s.called => s.cur >= def.minvalue

\* A sequence of the running transaction was used only if it is in memory.
NewIsFresh == flag = "TR_NEW" /\ ~InMemory => Given = {}

BulkLocked ==
    /\ sb.active => flag # "none" /\ InMemory
    /\ ~sb.active => Bulk = {} /\ ~sb.save

Fresh ==
    /\ latest \cap handed = {}
    /\ sb.new \cap sb.vals = {} /\ Bulk \cap Given = {}

Ids ==
    /\ \A i \in DOMAIN sql_seqs : i < store_oid
    /\ flag # "none" => id < store_oid
    /\ flag = "TR_OLD" => id < logged_oid
    /\ logged_oid <= store_oid

InUse ==
    flag # "none" =>
        LogCovers /\ NewIsFresh /\ (InMemory => Covers(sql_seqs[id]))

IInv == TypeOK /\ Ids /\ BulkLocked /\ (~def.cycle => InUse /\ Fresh)

\* Writing one entry of a table of sequences.
LEMMA PutFacts ==
    ASSUME NEW f, NEW i, NEW v
    PROVE  /\ DOMAIN Put(f, i, v) = DOMAIN f \cup {i}
           /\ Put(f, i, v)[i] = v
           /\ \A j \in DOMAIN f : j # i => Put(f, i, v)[j] = f[j]
  BY Zenon DEF Put

\* Writing an entry keeps the type of the table.
LEMMA PutType ==
    ASSUME NEW S, NEW f, f \in [DOMAIN f -> S], DOMAIN f \subseteq Nat,
           NEW i \in Nat, NEW v \in S
    PROVE  /\ DOMAIN Put(f, i, v) \subseteq Nat
           /\ Put(f, i, v) \in [DOMAIN Put(f, i, v) -> S]
  BY Zenon DEF Put

\* cached is ahead of the current number: cacheinc * increment is positive.
LEMMA AheadFacts ==
    ASSUME TypeOK, NEW c \in Nat
    PROVE  Ahead(c) \in Nat /\ Aligned(c, Ahead(c))
<1>1. def.cacheinc \in Nat \ {0} /\ def.increment \in Nat \ {0}
  BY Zenon DEF TypeOK
<1>2. def.cacheinc * def.increment \in Nat
  BY <1>1
<1> QED
  BY <1>1, <1>2 DEF Ahead, Aligned

LEMMA AlignedFacts ==
    ASSUME TypeOK, NEW c \in Nat, NEW n \in Nat, Aligned(c, n)
    PROVE  /\ c < n
           /\ c + def.increment # n => Aligned(c + def.increment, n)
<1> DEFINE i == def.increment
<1>1. i \in Nat \ {0}
  BY Zenon DEF TypeOK
<1>2. PICK k \in Nat \ {0} : n = c + k * i
  BY Zenon DEF Aligned
<1> HIDE DEF i
<1>3. k * i >= i
  BY <1>1, <1>2
<1>4. c < n
  BY <1>1, <1>2, <1>3
<1>5. ASSUME c + i # n
      PROVE  \E m \in Nat \ {0} : n = (c + i) + m * i
  <2>1. k # 1
    BY <1>1, <1>2, <1>5
  <2>2. k - 1 \in Nat \ {0}
    BY <1>2, <2>1
  <2>3. k * i = i + (k - 1) * i
    BY <1>1, <1>2
  <2>4. n = (c + i) + (k - 1) * i
    BY <1>1, <1>2, <2>2, <2>3
  <2> QED
    BY <2>2, <2>4, Zenon
<1> QED
  BY <1>4, <1>5, Zenon DEF i, Aligned

\* The state a call starts from, read from memory or made from the log or the
\* definition, relates to the numbers in use as the invariant says.
LEMMA FindFacts ==
    ASSUME IInv, flag # "none"
    PROVE  Find \in SeqRec /\ (~def.cycle => Covers(Find))
<1>1. CASE InMemory
  <2>1. Find = sql_seqs[id]
    BY <1>1, Zenon DEF Find, InMemory
  <2>2. sql_seqs[id] \in SeqRec
    BY <1>1, Zenon DEF IInv, TypeOK, InMemory, SeqRec
  <2> QED
    BY <1>1, <2>1, <2>2, Zenon DEF IInv, InUse
<1>2. CASE ~InMemory
  <2> DEFINE c == Find.cur
  <2>1. Find = [called |-> FALSE, cur |-> c, cached |-> c]
    BY <1>2, Zenon DEF Find, InMemory, sql_create_sequence
  <2>2. c \in Nat
    BY <1>2, Zenon DEF IInv, TypeOK, Find, InMemory, sql_create_sequence
  <2>3. Bulk = {} /\ ~sb.save
    BY <1>2, Zenon DEF IInv, BulkLocked
  <2>4. ASSUME ~def.cycle, NEW v \in Given
        PROVE  v < c
    <3>1. flag = "TR_OLD" /\ id \in DOMAIN seqs /\ v < seqs[id]
      BY <1>2, <2>4, Zenon DEF IInv, InUse, LogCovers, NewIsFresh, TypeOK
    <3> QED
      BY <1>2, <3>1, Zenon DEF Find, InMemory, sql_create_sequence
  <2>5. Find \in SeqRec /\ ~Find.called /\ Find.cached = Find.cur
    <3> HIDE DEF c
    <3> QED
      BY <2>1, <2>2, Zenon DEF SeqRec
  <2> QED
    BY <2>3, <2>4, <2>5, Zenon DEF Covers
<1> QED
  BY <1>1, <1>2, Zenon

\* The number a successful call hands out is larger than all numbers in use,
\* and the log is ahead of it once the call is done.
LEMMA Advance ==
    ASSUME TypeOK, ~def.cycle, NEW s \in SeqRec, Covers(s),
           ~Exhausted(Candidate(s))
    PROVE  LET c == Candidate(s)
               n == IF c = s.cached THEN Ahead(c) ELSE s.cached
           IN  /\ c \in Nat /\ n \in Nat /\ ~OutOfRange(c) /\ Value(c) = c
               /\ \A v \in Given \cup Bulk : v < c
               /\ c < n /\ Aligned(c, n)
               /\ c # s.cached => s.called
               /\ c >= def.minvalue
<1> DEFINE c == Candidate(s)
           n == IF c = s.cached THEN Ahead(c) ELSE s.cached
<1>0. /\ s.cur \in Nat /\ s.cached \in Nat /\ s.called \in BOOLEAN
      /\ def.increment \in Nat \ {0} /\ def.minvalue \in Nat
      /\ def.maxvalue \in Nat
  BY Zenon DEF SeqRec, TypeOK
<1>1. c \in Nat /\ c >= s.cur /\ (s.called => c > s.cur)
  BY <1>0 DEF Candidate
<1>2. ~OutOfRange(c) /\ Value(c) = c
  BY Zenon DEF Exhausted, Value
<1>3. c >= def.minvalue /\ ~Over(s)
  BY <1>0, <1>1, <1>2 DEF OutOfRange, Over
<1>4. Given \cup Bulk \subseteq Nat
  BY Zenon DEF Given, Bulk, TypeOK
<1>5. \A v \in Given \cup Bulk : v < c
  BY <1>0, <1>1, <1>4 DEF Covers
<1>6. c # s.cached => s.called /\ Aligned(s.cur, s.cached)
  BY <1>0, <1>3, Zenon DEF Covers, Candidate
<1>7. n \in Nat /\ Aligned(c, n)
  <2>1. CASE c = s.cached
    BY <1>1, <2>1, AheadFacts, Zenon
  <2>2. CASE c # s.cached
    BY <1>0, <1>6, <2>2, AlignedFacts, Zenon DEF Candidate
  <2> QED
    BY <2>1, <2>2, Zenon
<1>8. c < n
  BY <1>1, <1>7, AlignedFacts, Zenon
<1> QED
  BY <1>1, <1>2, <1>3, <1>5, <1>6, <1>7, <1>8, Zenon

\* The numbers a call computes are natural numbers.
LEMMA CallType ==
    ASSUME TypeOK, NEW s \in SeqRec
    PROVE  LET c == Candidate(s)
           IN  /\ c \in Nat /\ Value(c) \in Nat
               /\ CachedNext(s, c) \in Nat /\ CachedBulk(s, c) \in Nat
<1>1. s.cur \in Nat /\ s.cached \in Nat
  BY Zenon DEF SeqRec
<1>2. Candidate(s) \in Nat
  BY <1>1 DEF Candidate, TypeOK
<1>3. Value(Candidate(s)) \in Nat
  BY <1>2, Zenon DEF Value, TypeOK
<1>4. Ahead(Value(Candidate(s))) \in Nat
  BY <1>3, AheadFacts, Zenon
<1> QED
  BY <1>1, <1>2, <1>3, <1>4, Zenon DEF CachedNext, CachedBulk

\* A step that stores one state in memory and one number in the log.
LEMMA StoreType ==
    ASSUME TypeOK, NEW r \in SeqRec, NEW n \in Nat,
           sql_seqs' = sql_seqs \/ sql_seqs' = Put(sql_seqs, id, r),
           seqs' = seqs \/ seqs' = Put(seqs, id, n)
    PROVE  /\ DOMAIN sql_seqs' \subseteq Nat
           /\ sql_seqs' \in [DOMAIN sql_seqs' -> SeqRec]
           /\ DOMAIN seqs' \subseteq Nat /\ seqs' \in [DOMAIN seqs' -> Nat]
<1>1. /\ DOMAIN Put(sql_seqs, id, r) \subseteq Nat
      /\ Put(sql_seqs, id, r) \in [DOMAIN Put(sql_seqs, id, r) -> SeqRec]
  BY PutType, Zenon DEF TypeOK, SeqRec
<1>2. /\ DOMAIN Put(seqs, id, n) \subseteq Nat
      /\ Put(seqs, id, n) \in [DOMAIN Put(seqs, id, n) -> Nat]
  BY PutType, Zenon DEF TypeOK
<1> QED
  BY <1>1, <1>2, Zenon DEF TypeOK, SeqRec

\* With no ALTER SEQUENCE of other fields, every step keeps the types.
LEMMA TypeStep == Alters = {} /\ IInv /\ [Next]_vars => TypeOK'
<1> SUFFICES ASSUME Alters = {}, IInv, [Next]_vars
             PROVE  TypeOK'
  BY Zenon
<1>t. TypeOK
  BY Zenon DEF IInv
<1>f. flag # "none" => Find \in SeqRec
  BY FindFacts, Zenon
<1>m. sb.active => sql_seqs[id] \in SeqRec
  BY <1>t, Zenon DEF IInv, BulkLocked, InMemory, TypeOK, SeqRec
<1>1. CASE seq_next_value
  <2> DEFINE s == Find
             c == Candidate(s)
             r == [called |-> TRUE, cur |-> Value(c), cached |-> CachedNext(s, c)]
  <2>1. s \in SeqRec
    BY <1>1, <1>f, Zenon DEF seq_next_value, Unlocked
  <2>2. Value(c) \in Nat /\ CachedNext(s, c) \in Nat
    BY <1>t, <2>1, CallType, Zenon
  <2>3. r \in SeqRec
    BY <2>2, Zenon DEF SeqRec
  <2>4. /\ sql_seqs' = Put(sql_seqs, id, r)
        /\ seqs' = seqs \/ seqs' = Put(seqs, id, CachedNext(s, c))
        /\ latest' = {Value(c)} /\ handed' = handed \cup latest
        /\ UNCHANGED <<catalog, sb>>
    BY <1>1, Zenon DEF seq_next_value
  <2> HIDE DEF r, c, s
  <2> QED
    BY <1>t, <2>2, <2>3, <2>4, StoreType, Zenon DEF TypeOK, catalog, SeqRec
<1>2. CASE seq_next_value_fails
  <2> DEFINE s == Find
             r == [s EXCEPT !.cur = Candidate(s)]
  <2>1. s \in SeqRec
    BY <1>2, <1>f, Zenon DEF seq_next_value_fails, Unlocked
  <2>2. r \in SeqRec
    BY <1>t, <2>1, CallType, Zenon DEF SeqRec
  <2>3. sql_seqs' = Put(sql_seqs, id, r) /\ UNCHANGED <<catalog, seqs, sb, history>>
    BY <1>2, Zenon DEF seq_next_value_fails
  <2> HIDE DEF r, s
  <2> QED
    BY <1>t, <2>2, <2>3, StoreType, Zenon DEF TypeOK, catalog, history, SeqRec
<1>3. CASE seq_get_value \/ seqbulk_create
  <2>1. Find \in SeqRec /\ sql_seqs' = Put(sql_seqs, id, Find)
    BY <1>3, <1>f, Zenon DEF seq_get_value, seqbulk_create, Unlocked
  <2>2. UNCHANGED <<catalog, seqs, history>>
        /\ (sb' = sb \/ sb' = [NoBulk EXCEPT !.active = TRUE])
    BY <1>3, Zenon DEF seq_get_value, seqbulk_create
  <2> QED
    BY <1>t, <2>1, <2>2, StoreType, Zenon DEF TypeOK, catalog, history, SeqRec, NoBulk
<1>4. CASE seqbulk_next_value
  <2> DEFINE s == sql_seqs[id]
             c == Candidate(s)
             r == [called |-> TRUE, cur |-> Value(c), cached |-> CachedBulk(s, c)]
  <2>1. s \in SeqRec
    BY <1>4, <1>m, Zenon DEF seqbulk_next_value
  <2>2. Value(c) \in Nat /\ CachedBulk(s, c) \in Nat
    BY <1>t, <2>1, CallType, Zenon
  <2>3. r \in SeqRec
    BY <2>2, Zenon DEF SeqRec
  <2>4. /\ sql_seqs' = Put(sql_seqs, id, r)
        /\ sb' = [sb EXCEPT !.save = @ \/ OutOfRange(c) \/ c = s.cached,
                            !.vals = @ \cup sb.new, !.new = {Value(c)}]
        /\ UNCHANGED <<catalog, seqs, handed, latest>>
    BY <1>4, Zenon DEF seqbulk_next_value
  <2>5. (sb.save \/ OutOfRange(c) \/ c = s.cached) \in BOOLEAN
    BY Zenon
  <2> HIDE DEF r, c, s
  <2>6. sb' \in [active : BOOLEAN, save : BOOLEAN, vals : SUBSET Nat,
                 new : SUBSET Nat]
    BY <1>t, <2>2, <2>4, <2>5, Zenon DEF TypeOK
  <2> QED
    BY <1>t, <2>2, <2>3, <2>4, <2>6, StoreType, Zenon DEF TypeOK, catalog, SeqRec
<1>5. CASE seqbulk_destroy
  <2> DEFINE s == sql_seqs[id]
  <2>1. s \in SeqRec /\ s.cached \in Nat
    BY <1>5, <1>m, Zenon DEF seqbulk_destroy, SeqRec
  <2>2. /\ seqs' = seqs \/ seqs' = Put(seqs, id, s.cached)
        /\ sb' = NoBulk /\ handed' = handed \cup latest
        /\ latest' = sb.vals \cup sb.new /\ UNCHANGED <<catalog, sql_seqs>>
    BY <1>5, Zenon DEF seqbulk_destroy
  <2> HIDE DEF s
  <2> QED
    BY <1>t, <2>1, <2>2, StoreType, Zenon DEF TypeOK, catalog, SeqRec, NoBulk
<1>6. CASE seqbulk_fails
  <2> DEFINE s == sql_seqs[id]
             r == [s EXCEPT !.cur = Candidate(s)]
  <2>1. s \in SeqRec /\ s.cached \in Nat
    BY <1>6, <1>m, Zenon DEF seqbulk_fails, SeqRec
  <2>2. r \in SeqRec
    BY <1>t, <2>1, CallType, Zenon DEF SeqRec
  <2>3. /\ sql_seqs' = Put(sql_seqs, id, r) /\ sb' = NoBulk
        /\ seqs' = seqs \/ seqs' = Put(seqs, id, s.cached)
        /\ UNCHANGED <<catalog, history>>
    BY <1>6, Zenon DEF seqbulk_fails
  <2> HIDE DEF r, s
  <2> QED
    BY <1>t, <2>1, <2>2, <2>3, StoreType, Zenon DEF TypeOK, catalog, history, SeqRec, NoBulk
<1>7. CASE seq_restart
  <2>1. PICK start \in Restarts :
          /\ def' = [def EXCEPT !.start = start]
          /\ sql_seqs' = Put(sql_seqs, id,
                 [called |-> FALSE, cur |-> start, cached |-> start])
          /\ seqs' = seqs \/ seqs' = Put(seqs, id, start)
          /\ handed' = {} /\ latest' = {}
          /\ UNCHANGED <<flag, id, store_oid, logged_oid, sb>>
    BY <1>7, Zenon DEF seq_restart
  <2>2. start \in Nat
    BY RestartsAssumption, Zenon
  <2>3. [called |-> FALSE, cur |-> start, cached |-> start] \in SeqRec
    BY <2>2, Zenon DEF SeqRec
  <2> QED
    BY <1>t, <2>1, <2>2, <2>3, StoreType, Zenon DEF TypeOK, SeqRec
<1>8. CASE sql_trans_create_sequence
  BY <1>t, <1>8, DefsAssumption DEF sql_trans_create_sequence, TypeOK
<1>9. CASE sql_trans_commit \/ sql_trans_drop_sequence \/ sql_trans_alter_sequence
  BY <1>t, <1>9, Zenon DEF sql_trans_commit, sql_trans_drop_sequence, sql_trans_alter_sequence,
      TypeOK, history
<1>10. CASE Crash
  BY <1>t, <1>10, Zenon DEF Crash, TypeOK, history, NoBulk
<1>11. CASE UNCHANGED vars
  BY <1>t, <1>11, Zenon DEF vars, catalog, history, TypeOK
<1> QED
  BY <1>1, <1>2, <1>3, <1>4, <1>5, <1>6, <1>7, <1>8, <1>9, <1>10, <1>11, Zenon DEF Next

\* Identifiers in use stay below next_oid's, also after a restart from the log,
\* and a bulk call keeps its sequence in memory until it lets the lock go.
LEMMA IdsStep == Alters = {} /\ IInv /\ [Next]_vars => Ids' /\ BulkLocked'
<1> SUFFICES ASSUME Alters = {}, IInv, [Next]_vars
             PROVE  Ids' /\ BulkLocked'
  BY Zenon
<1>t. TypeOK /\ Ids /\ BulkLocked
  BY Zenon DEF IInv
<1> USE DEF Ids, BulkLocked, Bulk, InMemory
<1>p. \A r : DOMAIN Put(sql_seqs, id, r) = DOMAIN sql_seqs \cup {id}
  BY PutFacts, Zenon
<1>1. CASE seq_next_value \/ seq_next_value_fails \/ seq_get_value
  BY <1>t, <1>p, <1>1
  DEF seq_next_value, seq_next_value_fails, seq_get_value, Unlocked, catalog
<1>2. CASE seqbulk_create
  BY <1>t, <1>p, <1>2, Zenon DEF seqbulk_create, Unlocked, catalog, NoBulk
<1>3. CASE seqbulk_next_value
  BY <1>t, <1>p, <1>3, Zenon DEF seqbulk_next_value, catalog, TypeOK
<1>4. CASE seqbulk_destroy \/ seqbulk_fails
  BY <1>t, <1>p, <1>4 DEF seqbulk_destroy, seqbulk_fails, catalog, NoBulk
<1>5. CASE seq_restart
  BY <1>t, <1>p, <1>5 DEF seq_restart, Unlocked
<1>6. CASE sql_trans_create_sequence
  BY <1>t, <1>6 DEF sql_trans_create_sequence, TypeOK
<1>7. CASE sql_trans_commit \/ sql_trans_drop_sequence \/ sql_trans_alter_sequence
  BY <1>t, <1>7
  DEF sql_trans_commit, sql_trans_drop_sequence, sql_trans_alter_sequence,
      Unlocked, TypeOK
<1>8. CASE Crash
  BY <1>t, <1>8 DEF Crash, TypeOK, NoBulk
<1>9. CASE UNCHANGED vars
  BY <1>t, <1>9, Zenon DEF vars, catalog
<1> QED
  BY <1>1, <1>2, <1>3, <1>4, <1>5, <1>6, <1>7, <1>8, <1>9, Zenon DEF Next

\* A single call.
LEMMA NextValueStep ==
    ASSUME IInv, ~def.cycle, seq_next_value
    PROVE  InUse' /\ Fresh'
<1> DEFINE s == Find
           c == Candidate(s)
           n == IF c = s.cached THEN Ahead(c) ELSE s.cached
           r == [called |-> TRUE, cur |-> c, cached |-> n]
<1>1. TypeOK /\ s \in SeqRec /\ Covers(s) /\ ~Exhausted(c)
  BY FindFacts, Zenon DEF seq_next_value, Unlocked, IInv
<1>2. /\ c \in Nat /\ n \in Nat /\ ~OutOfRange(c) /\ Value(c) = c
      /\ \A v \in Given \cup Bulk : v < c
      /\ c < n /\ Aligned(c, n)
      /\ c # s.cached => s.called
      /\ c >= def.minvalue
  BY <1>1, Advance, Zenon
<1>3. CachedNext(s, c) = n
  BY <1>2, Zenon DEF CachedNext
<1>4. Bulk = {} /\ ~sb.save /\ sb.new = {} /\ sb.vals = {}
  BY Zenon DEF seq_next_value, Unlocked, IInv, BulkLocked, Bulk
<1>5. /\ sql_seqs' = Put(sql_seqs, id, r)
      /\ seqs' = IF c = s.cached THEN Put(seqs, id, n) ELSE seqs
      /\ handed' = handed \cup latest /\ latest' = {c}
      /\ UNCHANGED <<def, flag, id, sb>>
  BY <1>2, <1>3, Zenon DEF seq_next_value, catalog
<1>6. c # s.cached => id \in DOMAIN seqs /\ seqs[id] = n
  BY <1>1, <1>2, <1>4, Zenon DEF Covers
<1> HIDE DEF s, c
<1>7. id \in DOMAIN seqs' /\ seqs'[id] = n
  BY <1>5, <1>6, Zenon DEF Put
<1> HIDE DEF n
<1>8. /\ sql_seqs'[id'].called /\ sql_seqs'[id'].cur = c
      /\ sql_seqs'[id'].cached = n /\ id' \in DOMAIN sql_seqs'
  BY <1>5, Zenon DEF Put
<1>9. Given' = Given \cup {c} /\ Bulk' = {} /\ Given \subseteq Nat
  BY <1>1, <1>4, <1>5, Zenon DEF Given, Bulk, TypeOK
<1>10. LogCovers'
  <2>1. \A v \in Given' : v < n
    BY <1>2, <1>9
  <2>2. id' \in DOMAIN seqs' /\ seqs'[id'] = n
    BY <1>5, <1>7, Zenon
  <2> QED
    BY <2>1, <2>2, Zenon DEF LogCovers
<1>11. Covers(sql_seqs[id])'
  BY <1>2, <1>4, <1>5, <1>7, <1>8, <1>9, Zenon DEF Covers, Aligned
<1>12. Fresh'
  BY <1>2, <1>4, <1>5, <1>9 DEF Fresh, Given
<1> QED
  BY <1>8, <1>10, <1>11, <1>12, Zenon DEF InUse, InMemory, NewIsFresh

\* A number within a bulk call: it is not yet given to the caller.
LEMMA BulkValueStep ==
    ASSUME IInv, ~def.cycle, seqbulk_next_value
    PROVE  InUse' /\ Fresh'
<1> DEFINE s == sql_seqs[id]
           c == Candidate(s)
           n == IF c = s.cached THEN Ahead(c) ELSE s.cached
           r == [called |-> TRUE, cur |-> c, cached |-> n]
<1>1. TypeOK /\ flag # "none" /\ id \in DOMAIN sql_seqs
  BY Zenon DEF seqbulk_next_value, IInv, BulkLocked, InMemory
<1>2. s \in SeqRec /\ Covers(s) /\ ~Exhausted(c)
  BY <1>1, Zenon DEF seqbulk_next_value, IInv, InUse, InMemory, TypeOK, SeqRec
<1>3. /\ c \in Nat /\ n \in Nat /\ ~OutOfRange(c) /\ Value(c) = c
      /\ \A v \in Given \cup Bulk : v < c
      /\ c < n /\ Aligned(c, n)
      /\ c # s.cached => s.called
      /\ c >= def.minvalue
  BY <1>1, <1>2, Advance, Zenon
<1>4. CachedBulk(s, c) = n
  BY <1>3, Zenon DEF CachedBulk
<1>5. /\ sql_seqs' = Put(sql_seqs, id, r)
      /\ sb' = [sb EXCEPT !.save = @ \/ OutOfRange(c) \/ c = s.cached,
                          !.vals = @ \cup sb.new, !.new = {c}]
      /\ UNCHANGED <<def, flag, id, seqs, handed, latest>>
  BY <1>3, <1>4, Zenon DEF seqbulk_next_value, catalog
<1>6. /\ sb'.vals = sb.vals \cup sb.new /\ sb'.new = {c}
      /\ ~sb'.save => ~sb.save /\ c # s.cached
  BY <1>1, <1>5, Zenon DEF TypeOK
<1>7. ~sb'.save => id \in DOMAIN seqs /\ seqs[id] = n
  BY <1>2, <1>3, <1>6, Zenon DEF Covers
<1> HIDE DEF s, c
<1> HIDE DEF n
<1>8. /\ sql_seqs'[id'].called /\ sql_seqs'[id'].cur = c
      /\ sql_seqs'[id'].cached = n /\ id' \in DOMAIN sql_seqs'
  BY <1>5, Zenon DEF Put
<1>9. Given' = Given /\ Bulk' = Bulk \cup {c} /\ Given \cup Bulk \subseteq Nat
  BY <1>1, <1>5, <1>6, Zenon DEF Given, Bulk, TypeOK
<1>10. LogCovers'
  BY <1>1, <1>5, <1>9, Zenon DEF LogCovers, IInv, InUse
<1>11. Covers(sql_seqs[id])'
  <2>1. \A v \in Given' : v < c
    BY <1>3, <1>9, Zenon
  <2>2. \A v \in Bulk' : v <= c /\ v < n
    BY <1>3, <1>9
  <2>3. c >= def'.minvalue
    BY <1>3, <1>5, Zenon
  <2>4. ~sb'.save => id' \in DOMAIN seqs' /\ seqs'[id'] = n
    BY <1>5, <1>7, Zenon
  <2>5. Aligned(sql_seqs[id].cur, sql_seqs[id].cached)'
    BY <1>3, <1>5, <1>8, Zenon DEF Aligned
  <2> QED
    BY <1>8, <2>1, <2>2, <2>3, <2>4, <2>5, Zenon DEF Covers
<1>12. Fresh'
  BY <1>3, <1>5, <1>6, <1>9 DEF IInv, Fresh, Given, Bulk
<1> QED
  BY <1>8, <1>10, <1>11, <1>12, Zenon DEF InUse, InMemory, NewIsFresh

\* The end of a bulk call, in success or in failure: the log is written if it
\* has to be, and covers what the caller got.
LEMMA BulkEndStep ==
    ASSUME IInv, ~def.cycle, seqbulk_destroy \/ seqbulk_fails
    PROVE  InUse' /\ Fresh'
<1> DEFINE s == sql_seqs[id]
           c == Candidate(s)
<1>1. TypeOK /\ flag # "none" /\ id \in DOMAIN sql_seqs /\ Fresh
  BY Zenon DEF seqbulk_destroy, seqbulk_fails, IInv, BulkLocked, InMemory
<1>2. s \in SeqRec /\ Covers(s) /\ LogCovers
  BY <1>1, Zenon DEF IInv, InUse, InMemory, TypeOK, SeqRec
<1>3. /\ seqs' = (IF sb.save THEN Put(seqs, id, s.cached) ELSE seqs)
      /\ sb' = NoBulk /\ UNCHANGED <<def, flag, id>>
  BY Zenon DEF seqbulk_destroy, seqbulk_fails, catalog
<1>4. /\ s.cur \in Nat /\ s.cached \in Nat /\ s.called \in BOOLEAN
      /\ Given \cup Bulk \subseteq Nat
  BY <1>1, <1>2, Zenon DEF SeqRec, TypeOK, Given, Bulk
<1>5. s.called => id \in DOMAIN seqs' /\ seqs'[id] = s.cached
  BY <1>2, <1>3, Zenon DEF Covers, Put
<1>6. \A v \in Given \cup Bulk : id \in DOMAIN seqs' /\ v < seqs'[id]
  <2>1. ASSUME NEW v \in Bulk
        PROVE  id \in DOMAIN seqs' /\ v < seqs'[id]
    BY <1>2, <1>5, <2>1, Zenon DEF Covers
  <2>2. ASSUME NEW v \in Given, sb.save
        PROVE  id \in DOMAIN seqs' /\ v < seqs'[id]
    <3>1. s.called /\ s.cur < s.cached
      BY <1>1, <1>2, <1>4, <2>2, AlignedFacts, Zenon DEF Covers
    <3> QED
      BY <1>2, <1>4, <1>5, <2>2, <3>1 DEF Covers
  <2>3. ASSUME NEW v \in Given, ~sb.save
        PROVE  id \in DOMAIN seqs' /\ v < seqs'[id]
    BY <1>2, <1>3, <2>3, Zenon DEF LogCovers
  <2> QED
    BY <2>1, <2>2, <2>3, Zenon
<1>7. Bulk' = {} /\ ~sb'.save /\ sb'.new = {} /\ sb'.vals = {}
  BY <1>3, Zenon DEF Bulk, NoBulk
<1>8. CASE seqbulk_destroy
  <2>1. /\ handed' = handed \cup latest /\ latest' = Bulk /\ sql_seqs' = sql_seqs
        /\ Given' = Given \cup Bulk
    BY <1>8, Zenon DEF seqbulk_destroy, Given, Bulk
  <2>2. LogCovers' /\ NewIsFresh'
    BY <1>1, <1>3, <1>6, <2>1, Zenon DEF LogCovers, NewIsFresh, InMemory
  <2>3. Covers(sql_seqs[id])'
    BY <1>2, <1>3, <1>4, <1>5, <1>7, <2>1 DEF Covers, Over, Aligned
  <2>4. Fresh'
    BY <1>1, <1>7, <2>1, Zenon DEF Fresh, Given
  <2> QED
    BY <2>2, <2>3, <2>4, Zenon DEF InUse
<1>9. CASE seqbulk_fails
  <2>1. /\ handed' = handed /\ latest' = latest /\ Given' = Given
        /\ sql_seqs' = Put(sql_seqs, id, [s EXCEPT !.cur = c])
        /\ Exhausted(c)
    BY <1>9, Zenon DEF seqbulk_fails, history, Given
  <2>2. /\ sql_seqs'[id'].called = s.called /\ sql_seqs'[id'].cur = c
        /\ sql_seqs'[id'].cached = s.cached /\ id' \in DOMAIN sql_seqs'
    BY <1>2, <1>3, <2>1, Zenon DEF Put, SeqRec
  <2>3. LogCovers' /\ NewIsFresh'
    BY <1>3, <1>6, <2>1, <2>2, Zenon DEF LogCovers, NewIsFresh, InMemory
  <2>4. /\ def.increment \in Nat \ {0} /\ def.minvalue \in Nat
        /\ def.maxvalue \in Nat
    BY <1>1, Zenon DEF TypeOK
  <2>5. c = (IF s.called THEN s.cur + def.increment ELSE s.cur)
    BY Zenon DEF Candidate
  <2>6. s.called => def.maxvalue # 0 /\ c > def.maxvalue
    BY <1>2, <1>4, <2>1, <2>4, <2>5 DEF Exhausted, OutOfRange, Covers
  <2>7. Covers(sql_seqs[id])'
    BY <1>2, <1>3, <1>4, <1>5, <1>7, <2>1, <2>2, <2>4, <2>5, <2>6
    DEF Covers, Over
  <2>8. Fresh'
    BY <1>1, <1>7, <2>1, Zenon DEF Fresh
  <2> QED
    BY <2>3, <2>7, <2>8, Zenon DEF InUse
<1> QED
  BY <1>8, <1>9, Zenon

\* Calls that put the sequence in memory and hand out nothing.
LEMMA LookStep ==
    ASSUME IInv, ~def.cycle,
           seq_next_value_fails \/ seq_get_value \/ seqbulk_create
    PROVE  InUse' /\ Fresh'
<1> DEFINE s == Find
           c == Candidate(s)
<1>1. TypeOK /\ flag # "none" /\ ~sb.active /\ s \in SeqRec /\ Covers(s)
  BY FindFacts, Zenon DEF IInv, seq_next_value_fails, seq_get_value, seqbulk_create, Unlocked
<1>2. /\ LogCovers /\ Fresh /\ Bulk = {} /\ ~sb.save
      /\ sb.new = {} /\ sb.vals = {}
  BY <1>1, Zenon DEF IInv, InUse, BulkLocked, Bulk
<1>3. /\ UNCHANGED <<def, flag, id, seqs, handed, latest>>
      /\ sb' = sb \/ sb' = [NoBulk EXCEPT !.active = TRUE]
  BY Zenon DEF seq_next_value_fails, seq_get_value, seqbulk_create, catalog, history
<1>4. /\ Given' = Given /\ Bulk' = {} /\ ~sb'.save
      /\ sb'.new = {} /\ sb'.vals = {}
  BY <1>2, <1>3, Zenon DEF Given, Bulk, NoBulk
<1>5. LogCovers' /\ Fresh'
  BY <1>2, <1>3, <1>4, Zenon DEF LogCovers, Fresh
<1>6. /\ s.cur \in Nat /\ s.cached \in Nat /\ s.called \in BOOLEAN
      /\ Given \subseteq Nat
  BY <1>1, Zenon DEF SeqRec, TypeOK, Given
<1>7. CASE seq_get_value \/ seqbulk_create
  <2>1. sql_seqs' = Put(sql_seqs, id, s)
    BY <1>7, Zenon DEF seq_get_value, seqbulk_create
  <2> HIDE DEF s
  <2>2. sql_seqs'[id'] = s /\ id' \in DOMAIN sql_seqs'
    BY <1>3, <2>1, Zenon DEF Put
  <2>3. Covers(sql_seqs[id])'
    BY <1>1, <1>2, <1>3, <1>4, <2>2, Zenon DEF Covers, Over, Aligned
  <2> QED
    BY <1>5, <2>2, <2>3, Zenon DEF InUse, NewIsFresh, InMemory
<1>8. CASE seq_next_value_fails
  <2>1. sql_seqs' = Put(sql_seqs, id, [s EXCEPT !.cur = c]) /\ Exhausted(c)
    BY <1>8, Zenon DEF seq_next_value_fails
  <2>2. c = (IF s.called THEN s.cur + def.increment ELSE s.cur)
    BY Zenon DEF Candidate
  <2> HIDE DEF s, c
  <2>3. /\ sql_seqs'[id'].called = s.called /\ sql_seqs'[id'].cur = c
        /\ sql_seqs'[id'].cached = s.cached /\ id' \in DOMAIN sql_seqs'
    BY <1>1, <1>3, <2>1, Zenon DEF Put, SeqRec
  <2>4. /\ def.increment \in Nat \ {0} /\ def.minvalue \in Nat
        /\ def.maxvalue \in Nat
    BY <1>1, Zenon DEF TypeOK
  <2>5. s.called => def.maxvalue # 0 /\ c > def.maxvalue
    BY <1>1, <1>6, <2>1, <2>2, <2>4 DEF Exhausted, OutOfRange, Covers
  <2>6. Covers(sql_seqs[id])'
    BY <1>1, <1>2, <1>3, <1>4, <1>6, <2>2, <2>3, <2>4, <2>5 DEF Covers, Over
  <2> QED
    BY <1>5, <2>3, <2>6, Zenon DEF InUse, NewIsFresh, InMemory
<1> QED
  BY <1>7, <1>8, Zenon

\* Every step preserves the invariant.
LEMMA InvariantStep == Alters = {} /\ IInv /\ [Next]_vars => IInv'
<1> SUFFICES ASSUME Alters = {}, IInv, [Next]_vars
             PROVE  IInv'
  BY Zenon
<1>t. TypeOK' /\ Ids' /\ BulkLocked'
  BY TypeStep, IdsStep, Zenon
<1> SUFFICES ASSUME ~def'.cycle
             PROVE  InUse' /\ Fresh'
  BY <1>t, Zenon DEF IInv
<1>1. CASE seq_next_value
  BY <1>1, NextValueStep, Zenon DEF seq_next_value, catalog
<1>2. CASE seq_next_value_fails \/ seq_get_value \/ seqbulk_create
  <2>1. def' = def
    BY <1>2, Zenon DEF seq_next_value_fails, seq_get_value, seqbulk_create, catalog
  <2> QED
    BY <1>2, <2>1, LookStep, Zenon
<1>3. CASE seqbulk_next_value
  BY <1>3, BulkValueStep, Zenon DEF seqbulk_next_value, catalog
<1>4. CASE seqbulk_destroy \/ seqbulk_fails
  <2>1. def' = def
    BY <1>4, Zenon DEF seqbulk_destroy, seqbulk_fails, catalog
  <2> QED
    BY <1>4, <2>1, BulkEndStep, Zenon
<1>5. CASE seq_restart
  <2>1. PICK start \in Restarts :
          /\ def' = [def EXCEPT !.start = start]
          /\ sql_seqs' = Put(sql_seqs, id,
                 [called |-> FALSE, cur |-> start, cached |-> start])
          /\ handed' = {} /\ latest' = {} /\ UNCHANGED <<flag, id, sb>>
    BY <1>5, Zenon DEF seq_restart
  <2>2. Bulk = {} /\ ~sb.save /\ sb.new = {} /\ sb.vals = {}
    BY <1>5, Zenon DEF seq_restart, Unlocked, IInv, BulkLocked, Bulk
  <2>3. Given' = {} /\ Bulk' = {} /\ ~sb'.save
    BY <2>1, <2>2, Zenon DEF Given, Bulk
  <2>4. /\ ~sql_seqs'[id'].called
        /\ sql_seqs'[id'].cached = sql_seqs'[id'].cur
    BY <2>1, Zenon DEF Put
  <2> QED
    BY <2>1, <2>2, <2>3, <2>4, Zenon DEF InUse, Fresh, LogCovers, NewIsFresh, Covers
<1>6. CASE sql_trans_create_sequence
  <2>1. Bulk = {} /\ sb.new = {} /\ sb.vals = {} /\ store_oid \notin DOMAIN sql_seqs
    BY <1>6 DEF sql_trans_create_sequence, IInv, BulkLocked, Bulk, Ids, TypeOK
  <2> QED
    BY <1>6, <2>1, Zenon DEF sql_trans_create_sequence, InUse, Fresh, LogCovers, NewIsFresh,
        InMemory, Given, Bulk
<1>7. CASE sql_trans_commit \/ sql_trans_drop_sequence \/ sql_trans_alter_sequence
  <2>1. /\ UNCHANGED <<def, id, sql_seqs, seqs, sb, handed, latest>>
        /\ flag' # "none" => flag # "none"
        /\ flag' = "TR_NEW" => flag = "TR_NEW"
    BY <1>7, Zenon DEF sql_trans_commit, sql_trans_drop_sequence, sql_trans_alter_sequence,
        history
  <2>2. (flag # "none" => InUse) /\ Fresh /\ InUse
    BY <2>1, Zenon DEF IInv
  <2> QED
    BY <2>1, <2>2, Zenon DEF InUse, Fresh, LogCovers, NewIsFresh, InMemory, Covers, Over, Aligned,
        Given, Bulk
<1>8. CASE Crash
  <2>1. /\ UNCHANGED <<def, id, seqs, handed, latest>> /\ sb' = NoBulk
        /\ flag' # "none" => flag # "none"
        /\ flag' # "TR_NEW" /\ id' \notin DOMAIN sql_seqs'
    BY <1>8, Zenon DEF Crash, history
  <2>2. InUse /\ Fresh
    BY <2>1, Zenon DEF IInv
  <2> QED
    BY <2>1, <2>2, Zenon DEF InUse, Fresh, LogCovers, NewIsFresh, InMemory, Given, Bulk, NoBulk
<1>9. CASE UNCHANGED vars
  <2>1. UNCHANGED <<def, flag, id, sql_seqs, seqs, sb, handed, latest>>
    BY <1>9, Zenon DEF vars, catalog, history
  <2>2. InUse /\ Fresh
    BY <2>1, Zenon DEF IInv
  <2> QED
    BY <2>1, <2>2, Zenon DEF InUse, Fresh, LogCovers, NewIsFresh, InMemory, Covers, Over, Aligned,
        Given, Bulk
<1> QED
  BY <1>1, <1>2, <1>3, <1>4, <1>5, <1>6, <1>7, <1>8, <1>9, Zenon DEF Next

\* A sequence that does not cycle hands out no number twice between restarts,
\* by seq_next_value or in bulk, and whenever the server stops, for every
\* definition; ALTER SEQUENCE of other fields than the start is left out.
THEOREM NumbersAreUnique == Alters = {} => (Spec => [](TypeOK /\ NoRepeat))
<1> SUFFICES ASSUME Alters = {}
             PROVE  Spec => [](TypeOK /\ NoRepeat)
  BY Zenon
<1>1. Init => IInv
  BY DefsAssumption
  DEF Init, IInv, TypeOK, Ids, BulkLocked, InUse, Fresh, Given, Bulk, NoBulk,
      InMemory
<1>2. IInv /\ [Next]_vars => IInv'
  BY InvariantStep, Zenon
<1>3. IInv => TypeOK /\ NoRepeat
  BY Zenon DEF IInv, Fresh, NoRepeat, Given, Bulk
<1> QED
  BY <1>1, <1>2, <1>3, PTL DEF Spec

\* seq_next_value's assert(nr<s->cached) holds for every sequence that does not
\* cycle, for every definition: the log is ahead of the number in use.
THEOREM NumbersAreCovered ==
    Alters = {} => (Spec => [](~def.cycle => InUseCovered))
<1> SUFFICES ASSUME Alters = {}
             PROVE  Spec => [](~def.cycle => InUseCovered)
  BY Zenon
<1>1. Init => IInv
  BY DefsAssumption
  DEF Init, IInv, TypeOK, Ids, BulkLocked, InUse, Fresh, Given, Bulk, NoBulk,
      InMemory
<1>2. IInv /\ [Next]_vars => IInv'
  BY InvariantStep, Zenon
<1>3. IInv => (~def.cycle => InUseCovered)
  <2> SUFFICES ASSUME IInv, ~def.cycle, flag # "none", id \in DOMAIN sql_seqs,
                      sql_seqs[id].called, ~OutOfRange(sql_seqs[id].cur)
               PROVE  sql_seqs[id].cur < sql_seqs[id].cached
    BY Zenon DEF InUseCovered
  <2>1. /\ TypeOK /\ Covers(sql_seqs[id])
        /\ sql_seqs[id].cur \in Nat /\ sql_seqs[id].cached \in Nat
    BY Zenon DEF IInv, TypeOK, InUse, InMemory
  <2>2. Aligned(sql_seqs[id].cur, sql_seqs[id].cached)
    BY <2>1, Zenon DEF Covers, Over, OutOfRange
  <2> QED
    BY <2>1, <2>2, AlignedFacts, Zenon
<1> QED
  BY <1>1, <1>2, <1>3, PTL DEF Spec
=============================================================================
