--------------------------- MODULE SQLTransProofs ---------------------------
(***************************************************************************)
(* The properties of SQLTrans for any number of sessions and tables.  The  *)
(* code orders everything by time stamps, and so does the proof.           *)
(* 1. Clock: what a reset compares a session with is at least as new as    *)
(*    the newest version below it: column, table, schema, gtrans.          *)
(* 2. Distinct: a running transaction shares its stamp with nobody, so a   *)
(*    commit that passes the validation is newer than the newest version.  *)
(* 3. InOrder: a commit while a session runs is newer than its snapshot,   *)
(*    unless it was noted in late; so a session holds the newest version,  *)
(*    or one older than a version that its next reset will notice.         *)
(***************************************************************************)
EXTENDS SQLTrans, FiniteSetTheorems, WellFoundedInduction, TLAPS

Newest(t, p) == chain[t][p][1]

\* The stamps of the global objects, from the newest version up to gtrans.
Clock ==
    /\ gtrans.swtime <= gtrans.wtime /\ gtrans.wtime <= gtrans.wstime
    /\ gtrans.wstime < stamp
    /\ \A t \in Tables :
         /\ gtab[t].cwtime <= gtab[t].wtime /\ gtab[t].wtime <= gtrans.swtime
         /\ Newest(t, "col").wtime <= gtab[t].cwtime
         /\ Newest(t, "del").wtime <= gtab[t].wtime

\* A session marks what it writes with its stamp, upwards to its transaction.
Session(s) ==
    /\ tr[s].wtime \in {0, tr[s].wstime} /\ tr[s].swtime \in {0, tr[s].wstime}
    /\ tr[s].wtime = 0 => tr[s].swtime = 0
    /\ tr[s].stime <= gtrans.wtime
    /\ tr[s].active => tr[s].wstime < stamp /\ tr[s].stime < tr[s].wstime
    /\ \A t \in Tables :
         /\ tab[s][t].wtime \in {0, tr[s].wstime}
         /\ tab[s][t].cwtime \in {0, tr[s].wstime}
         /\ tab[s][t].cwtime # 0 => tab[s][t].wtime # 0
         /\ tab[s][t].wtime # 0 => tr[s].swtime # 0
         /\ tab[s][t].crtime <= tr[s].stime
         /\ \A p \in Parts : data[s][t][p].at = "own" =>
              tab[s][t].wtime # 0 /\ (p = "col" => tab[s][t].cwtime # 0)

\* The stamp of a running transaction is nobody else's.
Distinct(r) ==
    /\ gtrans.wtime # tr[r].wstime
    /\ \A t \in Tables :
         gtab[t].wtime # tr[r].wstime /\ gtab[t].cwtime # tr[r].wstime
    /\ \A s \in Sessions :
         /\ tr[s].stime # tr[r].wstime
         /\ tr[s].active /\ s # r => tr[s].wstime # tr[r].wstime

\* Whoever may still commit behind the snapshot of s has been noted.
LateNoted(s) ==
    \A r \in Active : tr[r].wstime < tr[s].stime => tr[r].wstime \in late[s]

\* What s holds is the newest version, or older than one that s cannot see.
Holds(s, t, p) ==
    InOrder(s) /\ data[s][t][p].at = "gtrans" =>
        \/ data[s][t][p].id = Newest(t, p).wtime
        \/ tr[s].stime < Newest(t, p).wtime

\* The copy of s has the newest version in it, or s cannot see that version.
Copies(s, t) ==
    InOrder(s) /\ tr[s].active /\ data[s][t]["col"].at = "own" =>
        \/ tr[s].stime < Newest(t, "col").wtime
        \/ /\ Newest(t, "col").ins \subseteq data[s][t]["col"].ins
           /\ Newest(t, "col").ups \subseteq data[s][t]["col"].ups

Stamped ==
    /\ Clock
    /\ \A s \in Sessions : Session(s) /\ LateNoted(s)
    /\ \A r \in Active : Distinct(r)

Viewed ==
    \A s \in Sessions, t \in Tables :
        Copies(s, t) /\ \A p \in Parts : Holds(s, t, p)

IInv == /\ TypeOK /\ Stamped /\ Viewed
        /\ ChainSorted /\ GtransStamps /\ HeldIsLive /\ CommittedOnly

-----------------------------------------------------------------------------
(* Versions *)

\* A set of numbers has a least element.
LEMMA Least ==
    ASSUME NEW T \in SUBSET Nat, T # {}
    PROVE  \E i \in T : \A j \in T : i <= j
<1> DEFINE R == OpToRel(<, Nat)
<1>1. IsWellFoundedOn(R, Nat)
  BY NatLessThanWellFounded, Zenon
<1> HIDE DEF R
<1>2. PICK i \in T : \A j \in T : ~(<<j, i>> \in R)
  BY <1>1, WFMin, Zenon
<1>3. \A j \in T : j < i => <<j, i>> \in R
  BY Zenon DEF R, OpToRel
<1>4. \A j \in T : ~(j < i)
  BY <1>2, <1>3, Zenon
<1>5. i \in Nat /\ \A j \in T : j \in Nat
  BY Zenon
<1>6. \A j \in T : i <= j
  BY <1>4, <1>5, SMT
<1> QED
  BY <1>6, Zenon

\* timestamp_delta returns a version of the chain: the newest one, unless that
\* is newer than the time asked for.
LEMMA FirstVersion ==
    ASSUME NEW d \in Seq(VersionRec), d # <<>>, NEW ts \in Nat
    PROVE  \E i \in 1..Len(d) :
               /\ timestamp_delta(d, ts) = d[i]
               /\ i = 1 \/ d[1].wtime > ts
<1> DEFINE n == Len(d)
           old(i) == d[i].wtime <= ts
           T == {i \in 1..n : i = n \/ old(i)}
           P(i) == (i = n \/ old(i)) /\ \A j \in 1..(i - 1) : d[j].wtime > ts
           c == CHOOSE i \in DOMAIN d : P(i)
<1>0. n \in Nat /\ n > 0 /\ DOMAIN d = 1..n
  OBVIOUS
<1>1. \A i \in 1..n : d[i].wtime \in Nat
  <2>1. \A v \in VersionRec : v.wtime \in Nat
    BY Zenon DEF VersionRec
  <2> QED
    BY <2>1
<1>2. \A i \in 1..n : ~old(i) <=> d[i].wtime > ts
  BY <1>1
<1>3. timestamp_delta(d, ts) = d[c]
  BY Zenon DEF timestamp_delta
<1> HIDE DEF n, old
<1>4. n \in T /\ T \in SUBSET Nat
  BY <1>0
<1>5. \E i \in T : \A j \in T : i <= j
  BY <1>4, Least, Zenon
<1>6. \E i \in 1..n : P(i)
  <2>1. PICK i \in 1..n : (i = n \/ old(i)) /\ \A j \in T : i <= j
    BY <1>5, Zenon
  <2>2. \A j \in 1..(i - 1) : j \in 1..n /\ ~(i <= j)
    BY <1>0, <2>1
  <2>3. \A j \in 1..(i - 1) : d[j].wtime > ts
    BY <2>1, <2>2, <1>2, Zenon
  <2> QED
    BY <2>1, <2>3, Zenon
<1> HIDE DEF P
<1>7. c \in 1..n /\ P(c)
  BY <1>0, <1>6, Zenon
<1> HIDE DEF c
<1>8. c = 1 \/ 1 \in 1..(c - 1)
  BY <1>0, <1>7
<1>9. c = 1 \/ d[1].wtime > ts
  BY <1>7, <1>8, Zenon DEF P
<1> QED
  BY <1>3, <1>7, <1>9, Zenon DEF n

\* Version, the version of a part that a session reads, is one of the chain.
LEMMA VersionInChain ==
    ASSUME TypeOK, NEW s \in Sessions, NEW t \in Tables, NEW p \in Parts
    PROVE  \E i \in 1..Len(chain[t][p]) :
               /\ Version(s, t, p) = chain[t][p][i]
               /\ chain[t][p][i] \in VersionRec
               /\ i = 1 \/ tr[s].stime < Newest(t, p).wtime
<1>1. chain[t][p] \in Seq(VersionRec) /\ chain[t][p] # <<>>
  BY Zenon DEF TypeOK
<1>2. tr[s].stime \in Nat
  BY Zenon DEF TypeOK, TransRec
<1>3. PICK i \in 1..Len(chain[t][p]) :
          /\ timestamp_delta(chain[t][p], tr[s].stime) = chain[t][p][i]
          /\ i = 1 \/ chain[t][p][1].wtime > tr[s].stime
  BY <1>1, <1>2, FirstVersion, Zenon
<1>4. chain[t][p][i] \in VersionRec
  BY <1>1
<1>5. chain[t][p][1].wtime \in Nat
  <2>1. chain[t][p][1] \in VersionRec
    BY <1>1
  <2> QED
    BY <2>1, Zenon DEF VersionRec
<1> QED
  BY <1>2, <1>3, <1>4, <1>5, Zenon DEF Version, Newest

-----------------------------------------------------------------------------
(* Statements *)

\* What a statement of s may turn its view of a part into: what it was, the
\* version that it reads, or its own copy of that with more in it.
Access(s, t, p, d) ==
    \/ d = data[s][t][p]
    \/ d = Shared(Version(s, t, p).wtime)
    \/ LET o == Own(s, t, p) IN
       /\ d.at = "own" /\ o.ins \subseteq d.ins /\ o.ups \subseteq d.ups
       /\ d.ins \cup d.ups \subseteq o.ins \cup o.ups \cup {tr[s].wstime}

\* What all statements of a session have in common.
Statement(s) ==
    /\ UNCHANGED <<stamp, global, history>>
    /\ tr[s].active /\ tr'[s].active
    /\ tr'[s].stime = tr[s].stime /\ tr'[s].wstime = tr[s].wstime
    /\ \A r \in Sessions \ {s} :
         tr'[r] = tr[r] /\ tab'[r] = tab[r] /\ data'[r] = data[r]
    /\ \A t \in Tables, p \in Parts : Access(s, t, p, data'[s][t][p])
    /\ TypeOK' /\ Session(s)'

\* A statement preserves the invariant.
LEMMA StatementStep ==
    ASSUME IInv, NEW s \in Sessions, Statement(s)
    PROVE  IInv'
<1> USE DEF IInv
<1>1. UNCHANGED <<stamp, gtrans, gtab, chain, base, committed, late>>
  BY Zenon DEF Statement, global, history
<1>2. \A r \in Sessions :
         /\ tr'[r].active <=> tr[r].active
         /\ tr'[r].stime = tr[r].stime /\ tr'[r].wstime = tr[r].wstime
         /\ InOrder(r)' <=> InOrder(r)
  BY <1>1, Zenon DEF Statement, InOrder
<1>3. Active' = Active
  BY <1>2, Zenon DEF Active
<1>4. \A t \in Tables, p \in Parts : Newest(t, p)' = Newest(t, p)
  BY <1>1, Zenon DEF Newest
<1>5. TypeOK'
  BY Zenon DEF Statement
<1>6. Stamped'
  <2>1. Clock'
    BY <1>1, <1>4, Zenon DEF Stamped, Clock, Parts
  <2>2. ASSUME NEW r \in Sessions PROVE Session(r)' /\ LateNoted(r)'
    <3>1. Session(r)'
      <4>1. CASE r = s
        BY <4>1, Zenon DEF Statement
      <4>2. CASE r # s
        BY <4>2, <1>1 DEF Statement, Stamped, Session
      <4> QED BY <4>1, <4>2, Zenon
    <3>2. LateNoted(r)'
      BY <1>1, <1>2, <1>3, Zenon DEF Stamped, LateNoted, Active
    <3> QED BY <3>1, <3>2, Zenon
  <2>3. ASSUME NEW r \in Active PROVE Distinct(r)'
    BY <1>1, <1>2 DEF Stamped, Distinct, Active
  <2> QED BY <2>1, <2>2, <2>3, <1>3, Zenon DEF Stamped
<1>7. ASSUME NEW t \in Tables, NEW p \in Parts
      PROVE  Holds(s, t, p)' /\ (p = "col" => Copies(s, t)')
  <2>0. /\ Access(s, t, p, data'[s][t][p]) /\ Holds(s, t, p) /\ (p = "col" => Copies(s, t))
        /\ tr[s].active
    BY Zenon DEF Viewed, Statement
  <2>1. PICK i \in 1..Len(chain[t][p]) :
               /\ Version(s, t, p) = chain[t][p][i]
               /\ i = 1 \/ tr[s].stime < Newest(t, p).wtime
    BY VersionInChain, Zenon
  <2>2. CASE data'[s][t][p] = data[s][t][p]
    BY <2>2, <2>0, <1>2, <1>4, Zenon DEF Holds, Copies, Parts
  <2>3. CASE data'[s][t][p] = Shared(Version(s, t, p).wtime)
    BY <2>3, <2>1, <1>2, <1>4 DEF Holds, Copies, Shared, Newest
  <2>4. CASE /\ data'[s][t][p].at = "own"
             /\ Own(s, t, p).ins \subseteq data'[s][t][p].ins
             /\ Own(s, t, p).ups \subseteq data'[s][t][p].ups
    <3>1. Holds(s, t, p)'
      BY <2>4, Zenon DEF Holds
    <3>2. ASSUME p = "col" PROVE Copies(s, t)'
      <4>1. CASE data[s][t][p].at = "own"
        BY <4>1, <3>2, <2>0, <2>4, <1>2, <1>4, Zenon DEF Copies, Own, Parts
      <4>2. CASE data[s][t][p].at # "own"
        BY <4>2, <3>2, <2>1, <2>4, <1>2, <1>4 DEF Copies, Own, Copy, Newest
      <4> QED BY <4>1, <4>2, Zenon
    <3> QED BY <3>1, <3>2, Zenon
  <2> QED BY <2>0, <2>2, <2>3, <2>4, Zenon DEF Access
<1>8. Viewed'
  <2> SUFFICES ASSUME NEW r \in Sessions, NEW t \in Tables
               PROVE  Copies(r, t)' /\ \A p \in Parts : Holds(r, t, p)'
    BY Zenon DEF Viewed
  <2>1. CASE r = s
    BY <2>1, <1>7, Zenon DEF Parts
  <2>2. CASE r # s
    <3>1. tr'[r] = tr[r] /\ data'[r] = data[r]
      BY <2>2, Zenon DEF Statement
    <3> QED BY <3>1, <1>2, <1>4 DEF Viewed, Copies, Holds, Parts
  <2> QED BY <2>1, <2>2, Zenon
<1>9. ChainSorted' /\ GtransStamps'
  BY <1>1, <1>2, <1>3, Zenon DEF ChainSorted, GtransStamps, Active
<1>10. HeldIsLive'
  <2> SUFFICES ASSUME NEW r \in Active, NEW t \in Tables, NEW p \in Parts,
                      data'[r][t][p].at = "gtrans", InOrder(r)
               PROVE  \E i \in DOMAIN chain[t][p] :
                          chain[t][p][i].wtime = data'[r][t][p].id
    BY <1>1, <1>2, <1>3, Zenon DEF HeldIsLive, Active
  <2>1. CASE data'[r][t][p] = data[r][t][p]
    BY <2>1, Zenon DEF HeldIsLive
  <2>2. CASE r = s /\ data'[s][t][p] = Shared(Version(s, t, p).wtime)
    <3>1. PICK i \in 1..Len(chain[t][p]) : Version(s, t, p) = chain[t][p][i]
      BY VersionInChain, Zenon
    <3>2. i \in DOMAIN chain[t][p]
      BY DEF TypeOK
    <3> QED BY <2>2, <3>1, <3>2 DEF Shared
  <2> QED BY <2>1, <2>2, Zenon DEF Statement, Access, Active
<1>11. CommittedOnly'
  <2>1. ASSUME NEW r \in Active, NEW t \in Tables, NEW p \in Parts,
               data'[r][t][p].at = "own"
        PROVE  data'[r][t][p].ins \cup data'[r][t][p].ups
                   \subseteq committed \cup {tr[r].wstime}
    <3>1. CASE data'[r][t][p] = data[r][t][p]
      BY <2>1, <3>1 DEF CommittedOnly
    <3>2. CASE /\ r = s
               /\ data'[s][t][p].ins \cup data'[s][t][p].ups \subseteq
                    Own(s, t, p).ins \cup Own(s, t, p).ups \cup {tr[s].wstime}
      <4>1. PICK i \in 1..Len(chain[t][p]) : Version(s, t, p) = chain[t][p][i]
        BY VersionInChain
      <4>2. i \in DOMAIN chain[t][p]
        BY DEF TypeOK
      <4>3. Own(s, t, p).ins \cup Own(s, t, p).ups \subseteq committed \cup {tr[s].wstime}
        BY <3>2, <4>1, <4>2 DEF CommittedOnly, Own, Copy
      <4> QED BY <3>2, <4>3, Zenon
    <3>3. CASE r = s /\ data'[s][t][p] = Shared(Version(s, t, p).wtime)
      BY <2>1, <3>3 DEF Shared
    <3>4. r \in Sessions /\ (r = s => Access(s, t, p, data'[s][t][p]))
         /\ (r # s => data'[r] = data[r])
      BY Zenon DEF Statement, Active
    <3> QED BY <3>1, <3>2, <3>3, <3>4, Zenon DEF Access
  <2> QED BY <2>1, <1>1, <1>2, <1>3 DEF CommittedOnly, Active
<1> QED BY <1>5, <1>6, <1>8, <1>9, <1>10, <1>11, Zenon

\* Holding a version is such an access.
LEMMA HoldAccess ==
    ASSUME TypeOK, NEW s \in Sessions, NEW t \in Tables, NEW p \in Parts
    PROVE  /\ Hold(s, t, p) \in DataRec
           /\ Access(s, t, p, Hold(s, t, p))
           /\ Hold(s, t, p).at = "own" => data[s][t][p].at = "own"
<1>1. Version(s, t, p).wtime \in Nat
  BY VersionInChain, Zenon DEF VersionRec
<1>2. Shared(Version(s, t, p).wtime) \in DataRec
  BY <1>1, Zenon DEF Shared, DataRec, Rows
<1>3. data[s][t][p] \in DataRec
  BY DEF TypeOK
<1>4. Shared(Version(s, t, p).wtime).at = "gtrans"
  BY Zenon DEF Shared
<1> QED
  BY <1>2, <1>3, <1>4, Zenon DEF Hold, Access

\* And so is appending to, or updating, one's own copy.
LEMMA OwnAccess ==
    ASSUME TypeOK, NEW s \in Sessions, NEW t \in Tables, NEW p \in Parts,
           NEW d \in {[Own(s, t, p) EXCEPT !.ins = @ \cup {tr[s].wstime}],
                      [Own(s, t, p) EXCEPT !.ups = @ \cup {tr[s].wstime}]}
    PROVE  d \in DataRec /\ d.at = "own" /\ Access(s, t, p, d)
<1> DEFINE o == Own(s, t, p)
<1>1. Version(s, t, p).ins \in Rows /\ Version(s, t, p).ups \in Rows
  BY VersionInChain DEF VersionRec
<1>2. data[s][t][p] \in DataRec /\ tr[s].wstime \in Nat
  BY DEF TypeOK, TransRec
<1>3. o \in DataRec /\ o.at = "own"
  BY <1>1, <1>2, Zenon DEF Own, Copy, DataRec
<1> HIDE DEF o
<1>4. /\ d \in DataRec /\ d.at = "own"
      /\ o.ins \subseteq d.ins /\ o.ups \subseteq d.ups
      /\ d.ins \cup d.ups \subseteq o.ins \cup o.ups \cup {tr[s].wstime}
  <2>1. CASE d = [o EXCEPT !.ins = @ \cup {tr[s].wstime}]
    BY <2>1, <1>2, <1>3, Zenon DEF DataRec, Rows
  <2>2. CASE d = [o EXCEPT !.ups = @ \cup {tr[s].wstime}]
    BY <2>2, <1>2, <1>3, Zenon DEF DataRec, Rows
  <2> QED BY <2>1, <2>2, Zenon DEF o
<1> QED
  BY <1>4, Zenon DEF Access, o

\* A statement on a table, from what it does to the session's stamps and views.
LEMMA TableStatement ==
    ASSUME IInv, NEW s \in Sessions, NEW t \in Tables, tr[s].active,
           UNCHANGED <<stamp, global, history>>,
           work' \in [Sessions -> 0..MaxWork],
           NEW x \in TransRec, tr' = [tr EXCEPT ![s] = x],
           NEW y \in TimesRec, tab' = [tab EXCEPT ![s][t] = y],
           NEW col \in DataRec, NEW del \in DataRec, SetData(s, t, col, del),
           Access(s, t, "col", col), Access(s, t, "del", del),
           x.active, x.stime = tr[s].stime, x.wstime = tr[s].wstime,
           x.wtime \in {0, x.wstime}, x.swtime \in {0, x.wstime},
           x.wtime = 0 => x.swtime = 0, tr[s].swtime # 0 => x.swtime # 0,
           y.wtime \in {0, x.wstime}, y.cwtime \in {0, x.wstime},
           y.cwtime # 0 => y.wtime # 0, y.wtime # 0 => x.swtime # 0,
           y.crtime <= x.stime,
           col.at = "own" => y.wtime # 0 /\ y.cwtime # 0,
           del.at = "own" => y.wtime # 0
    PROVE  IInv'
<1>1. TypeOK
  BY Zenon DEF IInv
<1>2. tr'[s] = x /\ \A r \in Sessions \ {s} : tr'[r] = tr[r]
  BY <1>1, Zenon DEF TypeOK
<1>3. /\ tab'[s][t] = y
      /\ \A u \in Tables \ {t} : tab'[s][u] = tab[s][u]
      /\ \A r \in Sessions \ {s} : tab'[r] = tab[r]
  BY <1>1, Zenon DEF TypeOK
<1>4. /\ data'[s][t]["col"] = col /\ data'[s][t]["del"] = del
      /\ \A u \in Tables \ {t} : data'[s][u] = data[s][u]
      /\ \A r \in Sessions \ {s} : data'[r] = data[r]
  BY <1>1, Zenon DEF TypeOK, SetData, Parts
<1>5. TypeOK'
  <2>1. tr' \in [Sessions -> TransRec]
    BY <1>1, Zenon DEF TypeOK
  <2>2. tab' \in [Sessions -> [Tables -> TimesRec]]
    BY <1>1, Zenon DEF TypeOK
  <2>3. [p \in Parts |-> IF p = "col" THEN col ELSE del] \in [Parts -> DataRec]
    BY Zenon
  <2>4. data' \in [Sessions -> [Tables -> [Parts -> DataRec]]]
    BY <1>1, <2>3, Zenon DEF TypeOK, SetData
  <2> QED
    BY <1>1, <2>1, <2>2, <2>4, Zenon DEF TypeOK, global, history
<1>6. Session(s)'
  <2>1. Session(s)
    BY Zenon DEF IInv, Stamped
  <2>2. gtrans' = gtrans /\ stamp' = stamp
    BY Zenon DEF global
  <2>3. ASSUME NEW u \in Tables
        PROVE  /\ tab'[s][u].wtime \in {0, tr'[s].wstime}
               /\ tab'[s][u].cwtime \in {0, tr'[s].wstime}
               /\ tab'[s][u].cwtime # 0 => tab'[s][u].wtime # 0
               /\ tab'[s][u].wtime # 0 => tr'[s].swtime # 0
               /\ tab'[s][u].crtime <= tr'[s].stime
               /\ \A p \in Parts : data'[s][u][p].at = "own" =>
                    tab'[s][u].wtime # 0 /\ (p = "col" => tab'[s][u].cwtime # 0)
    <3>1. CASE u = t
      BY <3>1, <1>2, <1>3, <1>4 DEF Parts
    <3>2. CASE u # t
      BY <3>2, <2>1, <1>2, <1>3, <1>4 DEF Session
    <3> QED BY <3>1, <3>2, Zenon
  <2> QED
    BY <2>1, <2>2, <2>3, <1>2, Zenon DEF Session
<1>7. ASSUME NEW u \in Tables, NEW p \in Parts
      PROVE  Access(s, u, p, data'[s][u][p])
  <2>1. CASE u = t
    BY <2>1, <1>4, Zenon DEF Parts
  <2>2. CASE u # t
    BY <2>2, <1>4, Zenon DEF Access
  <2> QED BY <2>1, <2>2, Zenon
<1>8. Statement(s)
  BY <1>2, <1>3, <1>4, <1>5, <1>6, <1>7, Zenon DEF Statement
<1> QED
  BY <1>8, StatementStep, Zenon

\* What a statement can count on.
LEMMA Running ==
    ASSUME IInv, NEW s \in Sessions, NEW t \in Tables, Executes(s)
    PROVE  /\ tr[s] \in TransRec /\ tab[s][t] \in TimesRec
           /\ tr[s].active /\ tr[s].wstime # 0
           /\ work' \in [Sessions -> 0..MaxWork]
           /\ Session(s)
           /\ \A p \in Parts :
                data[s][t][p] \in DataRec /\ Access(s, t, p, data[s][t][p])
<1>1. TypeOK /\ Session(s)
  BY Zenon DEF IInv, Stamped
<1>2. tr[s] \in TransRec /\ tab[s][t] \in TimesRec
  BY <1>1, Zenon DEF TypeOK
<1>3. tr[s].active /\ tr[s].wstime # 0
  BY <1>1, <1>2 DEF Executes, Session, TransRec
<1>4. work' \in [Sessions -> 0..MaxWork]
  BY <1>1, TransAssumption DEF TypeOK, Executes
<1>5. \A p \in Parts :
        data[s][t][p] \in DataRec /\ Access(s, t, p, data[s][t][p])
  BY <1>1 DEF TypeOK, Access
<1> QED
  BY <1>1, <1>2, <1>3, <1>4, <1>5, Zenon

\* The statements that read preserve the invariant.
LEMMA ReadStep ==
    ASSUME IInv, NEW s \in Sessions, NEW t \in Tables,
           bind_col(s, t) \/ bind_ucol(s, t) \/ bind_del(s, t) \/ count_col(s, t)
    PROVE  IInv'
<1> DEFINE x == [tr[s] EXCEPT !.srtime = tr[s].stime]
           y == Reads(s, t, tab[s][t])
           z == [tab[s][t] EXCEPT !.rtime = tr[s].stime]
<1>1. Executes(s)
  BY Zenon DEF bind_col, bind_ucol, bind_del, count_col
<1>2. /\ tr[s] \in TransRec /\ tab[s][t] \in TimesRec
      /\ tr[s].active
      /\ work' \in [Sessions -> 0..MaxWork]
      /\ Session(s)
      /\ \A p \in Parts :
           data[s][t][p] \in DataRec /\ Access(s, t, p, data[s][t][p])
  BY <1>1, Running, Zenon
<1>3. \A p \in Parts : /\ Hold(s, t, p) \in DataRec
                       /\ Access(s, t, p, Hold(s, t, p))
                       /\ Hold(s, t, p).at = "own" => data[s][t][p].at = "own"
  BY HoldAccess, Zenon DEF IInv
<1>4. x \in TransRec /\ y \in TimesRec /\ z \in TimesRec
  BY <1>2, Zenon DEF Reads, TransRec, TimesRec
<1>5. /\ x.active /\ x.stime = tr[s].stime /\ x.wstime = tr[s].wstime
      /\ x.wtime = tr[s].wtime /\ x.swtime = tr[s].swtime
      /\ y.wtime = tab[s][t].wtime /\ y.cwtime = tab[s][t].cwtime
      /\ y.crtime = tr[s].stime
      /\ z.wtime = tab[s][t].wtime /\ z.cwtime = tab[s][t].cwtime
      /\ z.crtime = tab[s][t].crtime
  BY <1>2, Zenon DEF Reads, TransRec, TimesRec
<1>6. tr[s].stime \in Nat /\ "col" \in Parts /\ "del" \in Parts
  BY <1>2, Zenon DEF TransRec, Parts
<1>7. /\ tr[s].wtime \in {0, tr[s].wstime} /\ tr[s].swtime \in {0, tr[s].wstime}
      /\ tr[s].wtime = 0 => tr[s].swtime = 0
      /\ tab[s][t].wtime \in {0, tr[s].wstime}
      /\ tab[s][t].cwtime \in {0, tr[s].wstime}
      /\ tab[s][t].cwtime # 0 => tab[s][t].wtime # 0
      /\ tab[s][t].wtime # 0 => tr[s].swtime # 0
      /\ tab[s][t].crtime <= tr[s].stime
      /\ data[s][t]["col"].at = "own" =>
           tab[s][t].wtime # 0 /\ tab[s][t].cwtime # 0
      /\ data[s][t]["del"].at = "own" => tab[s][t].wtime # 0
  BY <1>2, <1>6, Zenon DEF Session
<1>8. TypeOK
  BY Zenon DEF IInv
<1> HIDE DEF x, y, z
<1>9. CASE bind_col(s, t) \/ bind_ucol(s, t)
  <2>1. tr' = [tr EXCEPT ![s] = x] /\ tab' = [tab EXCEPT ![s][t] = y]
    BY <1>9, Zenon DEF bind_col, bind_ucol, MarkRead, x, y
  <2>2. UNCHANGED <<stamp, global, history>>
    BY <1>9, Zenon DEF bind_col, bind_ucol
  <2>3. PICK del \in {data[s][t]["del"], Hold(s, t, "del")} :
           SetData(s, t, Hold(s, t, "col"), del)
    BY <1>9, Zenon DEF bind_col, bind_ucol
  <2>4. /\ del \in DataRec /\ Access(s, t, "del", del)
        /\ del.at = "own" => data[s][t]["del"].at = "own"
    BY <1>2, <1>3, <1>6, Zenon
  <2>5. /\ Hold(s, t, "col") \in DataRec /\ Access(s, t, "col", Hold(s, t, "col"))
        /\ Hold(s, t, "col").at = "own" => y.wtime # 0 /\ y.cwtime # 0
        /\ y.crtime <= x.stime
    BY <1>3, <1>5, <1>6, <1>7
  <2> QED
    BY <2>1, <2>2, <2>3, <2>4, <2>5, <1>2, <1>4, <1>5, <1>7, TableStatement, Zenon
<1>10. CASE bind_del(s, t)
  <2>1. tr' = [tr EXCEPT ![s] = x] /\ tab' = [tab EXCEPT ![s][t] = z]
    <3>1. tr' = [tr EXCEPT ![s] = x]
      BY <1>10, Zenon DEF bind_del, MarkRead, x
    <3>2. tab' = [tab EXCEPT ![s][t].rtime = tr[s].stime]
      BY <1>10, Zenon DEF bind_del
    <3>3. tab' = [tab EXCEPT ![s][t] = z]
      BY <3>2, <1>8, Zenon DEF z, TypeOK
    <3> QED BY <3>1, <3>3, Zenon
  <2>2. UNCHANGED <<stamp, global, history>>
    BY <1>10, Zenon DEF bind_del
  <2>3. SetData(s, t, data[s][t]["col"], Hold(s, t, "del"))
    BY <1>10, Zenon DEF bind_del
  <2> QED
    BY <2>1, <2>2, <2>3, <1>2, <1>3, <1>4, <1>5, <1>6, <1>7, TableStatement, ZenonT(30)
<1>11. CASE count_col(s, t)
  <2>1. tr' = [tr EXCEPT ![s] = tr[s]] /\ tab' = [tab EXCEPT ![s][t] = tab[s][t]]
    BY <1>11, <1>8, Zenon DEF count_col, TypeOK
  <2>2. UNCHANGED <<stamp, global, history>>
    BY <1>11, Zenon DEF count_col
  <2>3. SetData(s, t, Hold(s, t, "col"), data[s][t]["del"])
    BY <1>11, Zenon DEF count_col
  <2> QED
    BY <2>1, <2>2, <2>3, <1>2, <1>3, <1>6, <1>7, TableStatement, Zenon
<1> QED
  BY <1>9, <1>10, <1>11, Zenon

\* The statements that write preserve the invariant.
LEMMA WriteStep ==
    ASSUME IInv, NEW s \in Sessions, NEW t \in Tables,
           append_col(s, t) \/ update_col(s, t) \/ delete_tab(s, t)
    PROVE  IInv'
<1> DEFINE w == tr[s].wstime
           x == [tr[s] EXCEPT !.wtime = w, !.swtime = w]
           xu == [tr[s] EXCEPT !.wtime = w, !.swtime = w, !.srtime = tr[s].stime]
           y == Writes(s, t, tab[s][t])
           yu == Reads(s, t, y)
           yd == [tab[s][t] EXCEPT !.wtime = w]
           ins == [Own(s, t, "col") EXCEPT !.ins = @ \cup {w}]
           ups == [Own(s, t, "col") EXCEPT !.ups = @ \cup {w}]
           del == [Own(s, t, "del") EXCEPT !.ins = @ \cup {w}]
<1>1. Executes(s)
  BY Zenon DEF append_col, update_col, delete_tab
<1>2. /\ tr[s] \in TransRec /\ tab[s][t] \in TimesRec
      /\ tr[s].active /\ w # 0
      /\ work' \in [Sessions -> 0..MaxWork]
      /\ Session(s)
      /\ \A p \in Parts :
           data[s][t][p] \in DataRec /\ Access(s, t, p, data[s][t][p])
  BY <1>1, Running, Zenon
<1>3. TypeOK /\ "col" \in Parts /\ "del" \in Parts
  BY Zenon DEF IInv, Parts
<1>4. /\ Hold(s, t, "col") \in DataRec
      /\ Access(s, t, "col", Hold(s, t, "col"))
      /\ Hold(s, t, "col").at = "own" => data[s][t]["col"].at = "own"
  BY <1>3, HoldAccess, Zenon
<1>5. /\ ins \in DataRec /\ Access(s, t, "col", ins)
      /\ ups \in DataRec /\ Access(s, t, "col", ups)
      /\ del \in DataRec /\ Access(s, t, "del", del)
  BY <1>3, OwnAccess, Zenon
<1>6. /\ x \in TransRec /\ x.active
      /\ x.stime = tr[s].stime /\ x.wstime = w /\ x.wtime = w /\ x.swtime = w
  BY <1>2, Zenon DEF TransRec
<1>7. /\ xu \in TransRec /\ xu.active
      /\ xu.stime = tr[s].stime /\ xu.wstime = w /\ xu.wtime = w /\ xu.swtime = w
  BY <1>2, Zenon DEF TransRec
<1>8. /\ y \in TimesRec /\ y.wtime = w /\ y.cwtime = w
      /\ y.crtime = tab[s][t].crtime
      /\ yd \in TimesRec /\ yd.wtime = w /\ yd.cwtime = tab[s][t].cwtime
      /\ yd.crtime = tab[s][t].crtime
  BY <1>2, Zenon DEF Writes, TimesRec, TransRec
<1>9. /\ yu \in TimesRec /\ yu.wtime = w /\ yu.cwtime = w
      /\ yu.crtime = tr[s].stime
  <2> HIDE DEF y
  <2> QED BY <1>2, <1>8, Zenon DEF Reads, TimesRec, TransRec
<1>10. /\ tab[s][t].cwtime \in {0, w}
       /\ tab[s][t].crtime <= tr[s].stime
       /\ tr[s].stime <= tr[s].stime
       /\ data[s][t]["col"].at = "own" => tab[s][t].cwtime # 0
  BY <1>2, <1>3 DEF Session, TransRec
<1> HIDE DEF x, xu, y, yu, yd, ins, ups, del
<1>11. CASE append_col(s, t)
  <2>1. /\ tr' = [tr EXCEPT ![s] = x] /\ tab' = [tab EXCEPT ![s][t] = y]
        /\ SetData(s, t, ins, data[s][t]["del"])
        /\ UNCHANGED <<stamp, global, history>>
    BY <1>11, Zenon DEF append_col, MarkWrite, x, y, ins
  <2> QED
    BY <2>1, <1>2, <1>3, <1>5, <1>6, <1>8, <1>10, TableStatement, Zenon
<1>12. CASE update_col(s, t)
  <2>1. /\ tr' = [tr EXCEPT ![s] = xu] /\ tab' = [tab EXCEPT ![s][t] = yu]
        /\ SetData(s, t, ups, data[s][t]["del"])
        /\ UNCHANGED <<stamp, global, history>>
    BY <1>12, Zenon DEF update_col, xu, y, yu, ups
  <2> QED
    BY <2>1, <1>2, <1>3, <1>5, <1>7, <1>9, <1>10, TableStatement, Zenon
<1>13. CASE delete_tab(s, t)
  <2>1. /\ tr' = [tr EXCEPT ![s] = x] /\ tab' = [tab EXCEPT ![s][t] = yd]
        /\ SetData(s, t, Hold(s, t, "col"), del)
        /\ UNCHANGED <<stamp, global, history>>
    BY <1>13, Zenon DEF delete_tab, MarkWrite, x, yd, del
  <2> QED
    BY <2>1, <1>2, <1>3, <1>4, <1>5, <1>6, <1>8, <1>10, TableStatement, Zenon
<1> QED
  BY <1>11, <1>12, <1>13, Zenon

\* A change of the schema preserves the invariant.
LEMMA SchemaStep ==
    ASSUME IInv, NEW s \in Sessions, sql_trans_create_table(s)
    PROVE  IInv'
<1> DEFINE w == tr[s].wstime
           x == [tr[s] EXCEPT !.wtime = w, !.swtime = w, !.schema_updates = TRUE]
<1>1. TypeOK /\ Session(s) /\ Executes(s)
  BY Zenon DEF IInv, Stamped, sql_trans_create_table
<1>2. /\ tr' = [tr EXCEPT ![s] = x] /\ UNCHANGED <<tab, data>>
      /\ UNCHANGED <<stamp, global, history>>
  BY Zenon DEF sql_trans_create_table
<1>3. tr[s] \in TransRec /\ tr[s].active /\ w # 0
  BY <1>1 DEF TypeOK, Executes, Session, TransRec
<1>4. /\ x \in TransRec /\ x.active /\ x.stime = tr[s].stime /\ x.wstime = w
      /\ x.wtime = w /\ x.swtime = w
  BY <1>3, Zenon DEF TransRec
<1> HIDE DEF x
<1>5. tr'[s] = x /\ \A r \in Sessions \ {s} : tr'[r] = tr[r]
  BY <1>1, <1>2, Zenon DEF TypeOK
<1>6. TypeOK'
  <2>1. work' \in [Sessions -> 0..MaxWork]
    BY <1>1, TransAssumption DEF TypeOK, Executes
  <2>2. tr' \in [Sessions -> TransRec]
    BY <1>1, <1>2, <1>4, Zenon DEF TypeOK
  <2> QED BY <1>1, <1>2, <2>1, <2>2, Zenon DEF TypeOK, global, history
<1>7. Session(s)'
  BY <1>1, <1>2, <1>3, <1>4, <1>5 DEF Session, global
<1>8. Statement(s)
  BY <1>2, <1>3, <1>4, <1>5, <1>6, <1>7, Zenon DEF Statement, Access
<1> QED
  BY <1>8, StatementStep, Zenon

-----------------------------------------------------------------------------
(* Commit *)

\* Larger is the maximum.
LEMMA LargerNat ==
    ASSUME NEW m \in Nat, NEW n \in Nat
    PROVE  /\ Larger(m, n) \in Nat /\ Larger(m, n) \in {m, n}
           /\ m <= Larger(m, n) /\ n <= Larger(m, n)
BY DEF Larger

\* The transaction is not merged while another one is active.
LEMMA Others ==
    ASSUME NEW r \in Active, NEW s \in Active, r # s
    PROVE  Move
<1>1. IsFiniteSet(Active)
  BY TransAssumption, FS_Subset, Zenon DEF Active
<1>2. IsFiniteSet({r, s}) /\ Cardinality({r, s}) = 2
  <2>1. IsFiniteSet({r}) /\ Cardinality({r}) = 1
    BY FS_Singleton, Zenon
  <2>2. s \notin {r} /\ {r} \cup {s} = {r, s}
    BY Zenon
  <2>3. IsFiniteSet({r} \cup {s}) /\ Cardinality({r} \cup {s}) = Cardinality({r}) + 1
    BY <2>1, <2>2, FS_AddElement, Zenon
  <2> QED BY <2>1, <2>2, <2>3
<1>3. Cardinality({r, s}) <= Cardinality(Active) /\ Cardinality(Active) \in Nat
  BY <1>1, FS_Subset, FS_CardinalityType, Zenon
<1> QED
  BY <1>2, <1>3 DEF Move

\* What is known of a transaction that commits.
LEMMA Committing ==
    ASSUME IInv, NEW s \in Sessions, mvc_commit(s)
    PROVE  /\ TypeOK /\ Clock /\ Session(s) /\ Distinct(s) /\ s \in Active
           /\ tr[s] \in TransRec /\ tr[s].wstime \in Nat /\ tr[s].wstime # 0
           /\ tr[s].wtime = tr[s].wstime /\ tr[s].wstime < stamp
           /\ rollforward_trans(s)
           /\ stamp' = stamp /\ late' = late
           /\ committed' = committed \cup {tr[s].wstime}
<1>1. s \in Active /\ tr[s].active
  BY Zenon DEF mvc_commit, Active
<1>2. TypeOK /\ Clock /\ Session(s) /\ Distinct(s)
  BY <1>1, Zenon DEF IInv, Stamped
<1>3. tr[s] \in TransRec
  BY <1>2, Zenon DEF TypeOK
<1>4. tr[s].wtime = tr[s].wstime /\ tr[s].wstime # 0 /\ tr[s].wstime < stamp
  BY <1>1, <1>2, Zenon DEF mvc_commit, Session
<1> QED
  BY <1>1, <1>2, <1>3, <1>4, Zenon DEF mvc_commit, TransRec

\* The stamp is newer than those of the table, and than the newest version.
LEMMA CommitNewer ==
    ASSUME IInv, NEW s \in Sessions, mvc_commit(s),
           NEW t \in Tables, NEW p \in Parts, Written(s, t, p)
    PROVE  Newest(t, p).wtime < tr[s].wstime
<1> DEFINE w == tr[s].wstime
<1>1. TypeOK /\ Clock /\ Session(s) /\ Distinct(s) /\ w \in Nat
  BY Committing, Zenon
<1>2. tab[s][t].wtime = w /\ (p = "col" => tab[s][t].cwtime = w) /\ w # 0
  BY <1>1, Committing, Zenon DEF Written, Session
<1>3. tr[s].swtime # 0
  BY <1>1, <1>2, Zenon DEF Session
<1>4. validate_table(s, t)
  BY <1>3, Zenon DEF mvc_commit, sql_trans_validate
<1>5. w >= gtab[t].wtime /\ (p = "col" => w >= gtab[t].cwtime)
  BY <1>2, <1>4, Zenon DEF validate_table, ValidTimes
<1>6. w # gtab[t].wtime /\ w # gtab[t].cwtime
  BY <1>1, Zenon DEF Distinct
<1>7. gtab[t] \in TimesRec
  BY <1>1, Zenon DEF TypeOK
<1>8. Newest(t, p) \in VersionRec
  <2>1. chain[t][p] \in Seq(VersionRec) /\ chain[t][p] # <<>>
    BY <1>1 DEF TypeOK
  <2> QED BY <2>1 DEF Newest
<1>9. CASE p = "col"
  <2>1. Newest(t, p).wtime <= gtab[t].cwtime
    BY <1>1, <1>9, Zenon DEF Clock
  <2> QED BY <2>1, <1>1, <1>5, <1>6, <1>7, <1>8, <1>9 DEF VersionRec, TimesRec
<1>10. CASE p = "del"
  <2>1. Newest(t, p).wtime <= gtab[t].wtime
    BY <1>1, <1>10, Zenon DEF Clock
  <2> QED BY <2>1, <1>1, <1>5, <1>6, <1>7, <1>8 DEF VersionRec, TimesRec
<1> QED
  BY <1>9, <1>10, Zenon DEF Parts

\* What becomes of a chain: nothing, one more version, or the newest version
\* with the copy merged into it.
LEMMA CommitChain ==
    ASSUME IInv, NEW s \in Sessions, mvc_commit(s),
           NEW t \in Tables, NEW p \in Parts
    PROVE  \/ chain'[t][p] = chain[t][p]
           \/ /\ Written(s, t, p)
              /\ \E v \in VersionRec :
                   /\ v.ins \cup v.ups \subseteq committed'
                   /\ \/ /\ Move /\ v.wtime = tr[s].wstime
                         /\ chain'[t][p] = <<v>> \o chain[t][p]
                      \/ /\ ~Move /\ v.wtime = Newest(t, p).wtime
                         /\ chain'[t][p] = <<v>>
<1> DEFINE w == tr[s].wstime
           d == data[s][t][p]
           o == chain[t][p][1]
<1>1. /\ TypeOK /\ w \in Nat /\ rollforward_trans(s) /\ s \in Active
      /\ committed' = committed \cup {w}
  BY Committing, Zenon
<1>2. chain[t][p] \in Seq(VersionRec) /\ chain[t][p] # <<>>
  BY <1>1 DEF TypeOK
<1>3. o \in VersionRec /\ 1 \in DOMAIN chain[t][p]
  BY <1>2
<1>4. d \in DataRec
  BY <1>1 DEF TypeOK
<1>5. o.ins \cup o.ups \subseteq committed
  BY <1>3 DEF IInv, CommittedOnly
<1>6. d.at = "own" => d.ins \cup d.ups \subseteq committed'
  BY <1>1, Zenon DEF IInv, CommittedOnly
<1>7. chain'[t][p] = UpdatedChain(s, t, p)
  BY <1>1, Zenon DEF rollforward_trans
<1>8. CASE ~Written(s, t, p)
  BY <1>7, <1>8, Zenon DEF UpdatedChain
<1>9. CASE Written(s, t, p) /\ Move
  <2> DEFINE v == [wtime |-> w, ins |-> d.ins, ups |-> d.ups]
  <2>1. v \in VersionRec /\ v.wtime = w /\ v.ins = d.ins /\ v.ups = d.ups
    BY <1>1, <1>4, Zenon DEF VersionRec, DataRec
  <2>2. chain'[t][p] = <<v>> \o chain[t][p]
    BY <1>7, <1>9, Zenon DEF UpdatedChain, Moved
  <2>3. v.ins \cup v.ups \subseteq committed'
    BY <2>1, <1>6, <1>9, Zenon DEF Written
  <2> HIDE DEF v
  <2> QED BY <2>1, <2>2, <2>3, <1>9, Zenon
<1>10. CASE Written(s, t, p) /\ ~Move /\ p = "col"
  <2> DEFINE v == [o EXCEPT !.ins = IF d.ins # {} THEN {} ELSE @,
                            !.ups = IF d.ups # {} THEN {} ELSE @]
  <2>1. v \in VersionRec /\ v.wtime = o.wtime /\ v.ins \subseteq o.ins /\ v.ups \subseteq o.ups
    BY <1>3, Zenon DEF VersionRec, Rows
  <2>2. chain'[t][p] = <<v>>
    BY <1>7, <1>10, Zenon DEF UpdatedChain, tr_update_delta
  <2>3. v.ins \cup v.ups \subseteq committed'
    BY <2>1, <1>1, <1>5, Zenon
  <2> HIDE DEF v
  <2> QED BY <2>1, <2>2, <2>3, <1>10, Zenon DEF Newest
<1>11. CASE Written(s, t, p) /\ ~Move /\ p = "del"
  <2> DEFINE v == [o EXCEPT !.ins = IF @ = {} THEN d.ins ELSE @ \cup (d.ins \cap {w})]
  <2>1. v \in VersionRec /\ v.wtime = o.wtime /\ v.ins \subseteq o.ins \cup d.ins /\ v.ups = o.ups
    BY <1>3, <1>4, Zenon DEF VersionRec, DataRec, Rows
  <2>2. chain'[t][p] = <<v>>
    BY <1>7, <1>11, Zenon DEF UpdatedChain, tr_update_dbat
  <2>3. v.ins \cup v.ups \subseteq committed'
    BY <2>1, <1>1, <1>5, <1>6, <1>11, Zenon DEF Written
  <2> HIDE DEF v
  <2> QED BY <2>1, <2>2, <2>3, <1>11, Zenon DEF Newest
<1> QED
  BY <1>8, <1>9, <1>10, <1>11, Zenon DEF Parts

\* The stamps of gtrans and of the tables move to the committed stamp, or stay.
LEMMA CommitStamps ==
    ASSUME IInv, NEW s \in Sessions, mvc_commit(s)
    PROVE  /\ gtrans' \in [wtime : Nat, wstime : Nat, swtime : Nat]
           /\ gtrans'.wtime = Larger(gtrans.wtime, tr[s].wstime)
           /\ gtrans'.wstime = Larger(gtrans.wstime, tr[s].wstime)
           /\ gtrans.swtime <= gtrans'.swtime
           /\ gtrans'.swtime <= gtrans'.wtime /\ gtrans'.wtime <= gtrans'.wstime
           /\ gtrans'.wstime < stamp'
           /\ \A t \in Tables :
                /\ gtab'[t] \in TimesRec
                /\ gtab'[t].wtime \in {gtab[t].wtime, tr[s].wstime}
                /\ gtab'[t].cwtime \in {gtab[t].cwtime, tr[s].wstime}
                /\ gtab[t].wtime <= gtab'[t].wtime /\ gtab[t].cwtime <= gtab'[t].cwtime
                /\ gtab'[t].cwtime <= gtab'[t].wtime /\ gtab'[t].wtime <= gtrans'.swtime
                /\ tab[s][t].wtime # 0 => tr[s].wstime <= gtab'[t].wtime
                /\ Written(s, t, "col") => tr[s].wstime <= gtab'[t].cwtime
<1> DEFINE w == tr[s].wstime
           sw == tr[s].swtime
<1>1. /\ TypeOK /\ Clock /\ Session(s) /\ w \in Nat /\ w < stamp /\ tr[s].wtime = w
      /\ rollforward_trans(s) /\ stamp' = stamp
  BY Committing, Zenon
<1>2. /\ gtrans \in [wtime : Nat, wstime : Nat, swtime : Nat] /\ stamp \in Nat
      /\ gtrans.swtime <= gtrans.wtime /\ gtrans.wtime <= gtrans.wstime
      /\ gtrans.wstime < stamp
  BY <1>1, Zenon DEF TypeOK, Clock
<1>3. sw \in {0, w}
  BY <1>1, Zenon DEF Session
<1>4. gtrans' = [wtime |-> Larger(gtrans.wtime, w), wstime |-> Larger(gtrans.wstime, w),
                swtime |-> Larger(gtrans.swtime, sw)]
  BY <1>1, Zenon DEF rollforward_trans
<1>5. /\ gtrans' \in [wtime : Nat, wstime : Nat, swtime : Nat]
      /\ gtrans'.wtime = Larger(gtrans.wtime, w)
      /\ gtrans'.wstime = Larger(gtrans.wstime, w)
      /\ gtrans'.swtime = Larger(gtrans.swtime, sw)
  BY <1>1, <1>2, <1>3, <1>4 DEF Larger
<1>6. /\ gtrans.swtime <= gtrans'.swtime
      /\ gtrans'.swtime <= gtrans'.wtime /\ gtrans'.wtime <= gtrans'.wstime
      /\ gtrans'.wstime < stamp'
  BY <1>1, <1>2, <1>3, <1>5 DEF Larger
<1>7. ASSUME NEW t \in Tables
      PROVE  /\ gtab'[t] \in TimesRec
             /\ gtab'[t].wtime \in {gtab[t].wtime, w}
             /\ gtab'[t].cwtime \in {gtab[t].cwtime, w}
             /\ gtab[t].wtime <= gtab'[t].wtime /\ gtab[t].cwtime <= gtab'[t].cwtime
             /\ gtab'[t].cwtime <= gtab'[t].wtime /\ gtab'[t].wtime <= gtrans'.swtime
             /\ tab[s][t].wtime # 0 => w <= gtab'[t].wtime
             /\ Written(s, t, "col") => w <= gtab'[t].cwtime
  <2> DEFINE l == tab[s][t]
             g == gtab[t]
  <2>1. /\ l \in TimesRec /\ g \in TimesRec /\ g.cwtime <= g.wtime
        /\ g.wtime <= gtrans.swtime
    BY <1>1, Zenon DEF TypeOK, Clock
  <2>2. gtab'[t] = UpdatedTimes(s, t)
    BY <1>1, Zenon DEF rollforward_trans
  <2>3. CASE l.wtime = 0
    <3>1. gtab'[t] = g /\ ~Written(s, t, "col")
      BY <2>2, <2>3, Zenon DEF UpdatedTimes, Written
    <3> QED BY <3>1, <2>1, <2>3, <1>2, <1>5, <1>6 DEF TimesRec
  <2>4. CASE l.wtime # 0
    <3>1. l.wtime = w /\ sw = w /\ w # 0 /\ (Written(s, t, "col") => l.cwtime = w)
      BY <2>4, <1>1, <1>3, Zenon DEF Session, Written
    <3>2. gtab'[t] =
            [rtime |-> Larger(g.rtime, l.rtime), wtime |-> Larger(g.wtime, l.wtime),
             crtime |-> IF Written(s, t, "col") THEN Larger(g.crtime, l.crtime) ELSE g.crtime,
             cwtime |-> IF Written(s, t, "col") THEN Larger(g.cwtime, l.cwtime) ELSE g.cwtime]
      BY <2>2, <2>4, Zenon DEF UpdatedTimes
    <3>3. gtab'[t] \in TimesRec
      <4>1. /\ Larger(g.rtime, l.rtime) \in Nat /\ Larger(g.wtime, l.wtime) \in Nat
            /\ Larger(g.crtime, l.crtime) \in Nat /\ Larger(g.cwtime, l.cwtime) \in Nat
        BY <2>1, LargerNat, Zenon DEF TimesRec
      <4> QED BY <4>1, <3>2, <2>1 DEF TimesRec
    <3>4. /\ gtab'[t].wtime = Larger(g.wtime, w)
          /\ Written(s, t, "col") => gtab'[t].cwtime = Larger(g.cwtime, w)
          /\ ~Written(s, t, "col") => gtab'[t].cwtime = g.cwtime
      BY <3>1, <3>2
    <3>5. g.wtime \in Nat /\ g.cwtime \in Nat /\ gtrans.swtime \in Nat
      BY <2>1, <1>2, Zenon DEF TimesRec
    <3>6. gtrans'.swtime = Larger(gtrans.swtime, w)
      BY <1>5, <3>1, Zenon
    <3> HIDE DEF w
    <3>7. CASE Written(s, t, "col")
      BY <3>3, <3>4, <3>5, <3>6, <3>7, <2>1, <1>1 DEF Larger
    <3>8. CASE ~Written(s, t, "col")
      BY <3>3, <3>4, <3>5, <3>6, <3>8, <2>1, <1>1 DEF Larger
    <3> QED BY <3>7, <3>8, Zenon
  <2> QED BY <2>3, <2>4, Zenon
<1> QED
  BY <1>5, <1>6, <1>7, Zenon

\* What is left of the session that has committed.
LEMMA CommitLeaves ==
    ASSUME IInv, NEW s \in Sessions, mvc_commit(s)
    PROVE  /\ tr'[s] \in TransRec /\ ~tr'[s].active
           /\ tr'[s].stime = tr[s].stime /\ tr'[s].wstime = tr[s].wstime
           /\ tr'[s].wtime = tr[s].wtime /\ tr'[s].swtime = tr[s].swtime
           /\ \A r \in Sessions \ {s} :
                tr'[r] = tr[r] /\ tab'[r] = tab[r] /\ data'[r] = data[r]
           /\ \A t \in Tables :
                \/ /\ tab'[s][t] = tab[s][t] /\ tab[s][t].wtime = 0
                   /\ \A p \in Parts : data'[s][t][p] = data[s][t][p]
                \/ /\ tab'[s][t] = NoTimes
                   /\ \A p \in Parts : data'[s][t][p] = NoData
           /\ tr' \in [Sessions -> TransRec]
           /\ tab' \in [Sessions -> [Tables -> TimesRec]]
           /\ data' \in [Sessions -> [Tables -> [Parts -> DataRec]]]
           /\ work' \in [Sessions -> 0..MaxWork]
<1> DEFINE x == [tr[s] EXCEPT !.active = FALSE, !.schema_number = schema_number]
           T == [t \in Tables |-> IF tab[s][t].wtime = 0 THEN tab[s][t] ELSE NoTimes]
           D == [t \in Tables |-> [p \in Parts |->
                  IF tab[s][t].wtime = 0 THEN data[s][t][p] ELSE NoData]]
<1>0. TypeOK /\ rollforward_trans(s)
  BY Committing, Zenon
<1>1. tr' = [tr EXCEPT ![s] = x] /\ work' = [work EXCEPT ![s] = 0]
  BY Zenon DEF mvc_commit, Ends
<1>2. tab' = [tab EXCEPT ![s] = T] /\ data' = [data EXCEPT ![s] = D]
  BY <1>0, Zenon DEF rollforward_trans
<1>3. /\ tr \in [Sessions -> TransRec] /\ tab \in [Sessions -> [Tables -> TimesRec]]
      /\ data \in [Sessions -> [Tables -> [Parts -> DataRec]]]
      /\ work \in [Sessions -> 0..MaxWork] /\ schema_number \in Nat
  BY <1>0, Zenon DEF TypeOK
<1>4. /\ x \in TransRec /\ ~x.active /\ x.stime = tr[s].stime
      /\ x.wstime = tr[s].wstime /\ x.wtime = tr[s].wtime /\ x.swtime = tr[s].swtime
  BY <1>3, Zenon DEF TransRec
<1>5. T \in [Tables -> TimesRec]
  BY <1>3, Zenon DEF NoTimes, TimesRec
<1>6. D \in [Tables -> [Parts -> DataRec]]
  <2>1. NoData \in DataRec
    BY Zenon DEF NoData, DataRec, Rows
  <2> QED BY <2>1, <1>3
<1>7. \A t \in Tables :
         \/ /\ T[t] = tab[s][t] /\ tab[s][t].wtime = 0
            /\ \A p \in Parts : D[t][p] = data[s][t][p]
         \/ T[t] = NoTimes /\ \A p \in Parts : D[t][p] = NoData
  BY Zenon
<1> HIDE DEF x, T, D
<1>8. tr'[s] = x /\ tab'[s] = T /\ data'[s] = D
  BY <1>1, <1>2, <1>3, Zenon
<1>9. \A r \in Sessions \ {s} :
        tr'[r] = tr[r] /\ tab'[r] = tab[r] /\ data'[r] = data[r]
  BY <1>1, <1>2, <1>3, Zenon
<1>10. /\ tr' \in [Sessions -> TransRec] /\ tab' \in [Sessions -> [Tables -> TimesRec]]
       /\ data' \in [Sessions -> [Tables -> [Parts -> DataRec]]]
  BY <1>1, <1>2, <1>3, <1>4, <1>5, <1>6, Zenon
<1>11. work' \in [Sessions -> 0..MaxWork]
  BY <1>1, <1>3, TransAssumption
<1> QED
  BY <1>4, <1>7, <1>8, <1>9, <1>10, <1>11

\* A commit preserves the invariant.
LEMMA CommitStep ==
    ASSUME IInv, NEW s \in Sessions, mvc_commit(s)
    PROVE  IInv'
<1> DEFINE w == tr[s].wstime
<1>1. /\ TypeOK /\ Clock /\ Session(s) /\ Distinct(s) /\ s \in Active
      /\ w \in Nat /\ w < stamp /\ rollforward_trans(s)
      /\ stamp' = stamp /\ late' = late /\ committed' = committed \cup {w}
  BY Committing, Zenon
<1>2. /\ gtrans' \in [wtime : Nat, wstime : Nat, swtime : Nat]
      /\ gtrans'.wtime = Larger(gtrans.wtime, w)
      /\ gtrans'.wstime = Larger(gtrans.wstime, w)
      /\ gtrans.swtime <= gtrans'.swtime
      /\ gtrans'.swtime <= gtrans'.wtime /\ gtrans'.wtime <= gtrans'.wstime
      /\ gtrans'.wstime < stamp'
  BY CommitStamps, Zenon
<1>3. ASSUME NEW t \in Tables
      PROVE  /\ gtab'[t] \in TimesRec
             /\ gtab'[t].wtime \in {gtab[t].wtime, w}
             /\ gtab'[t].cwtime \in {gtab[t].cwtime, w}
             /\ gtab[t].wtime <= gtab'[t].wtime /\ gtab[t].cwtime <= gtab'[t].cwtime
             /\ gtab'[t].cwtime <= gtab'[t].wtime /\ gtab'[t].wtime <= gtrans'.swtime
             /\ tab[s][t].wtime # 0 => w <= gtab'[t].wtime
             /\ Written(s, t, "col") => w <= gtab'[t].cwtime
  BY CommitStamps, Zenon
<1>4. /\ ~tr'[s].active
      /\ tr'[s].stime = tr[s].stime /\ tr'[s].wstime = tr[s].wstime
      /\ tr'[s].wtime = tr[s].wtime /\ tr'[s].swtime = tr[s].swtime
      /\ \A r \in Sessions \ {s} :
           tr'[r] = tr[r] /\ tab'[r] = tab[r] /\ data'[r] = data[r]
      /\ \A t \in Tables :
           \/ /\ tab'[s][t] = tab[s][t] /\ tab[s][t].wtime = 0
              /\ \A p \in Parts : data'[s][t][p] = data[s][t][p]
           \/ tab'[s][t] = NoTimes /\ \A p \in Parts : data'[s][t][p] = NoData
  BY CommitLeaves, Zenon
<1>5. ASSUME NEW t \in Tables, NEW p \in Parts
      PROVE  \/ chain'[t][p] = chain[t][p]
             \/ /\ Written(s, t, p) /\ Newest(t, p).wtime < w
                /\ \E v \in VersionRec :
                     /\ v.ins \cup v.ups \subseteq committed'
                     /\ \/ /\ Move /\ v.wtime = w
                           /\ chain'[t][p] = <<v>> \o chain[t][p]
                        \/ /\ ~Move /\ v.wtime = Newest(t, p).wtime
                           /\ chain'[t][p] = <<v>>
  BY CommitChain, CommitNewer, Zenon
<1>6. ASSUME NEW t \in Tables, NEW p \in Parts
      PROVE  chain[t][p] \in Seq(VersionRec) /\ chain[t][p] # <<>>
  BY <1>1 DEF TypeOK
<1>7. ASSUME NEW t \in Tables, NEW p \in Parts
      PROVE  /\ chain'[t][p] \in Seq(VersionRec) /\ chain'[t][p] # <<>>
             /\ \/ chain'[t][p][1] = chain[t][p][1]
                \/ Written(s, t, p) /\ Move /\ chain'[t][p][1].wtime = w
                \/ Written(s, t, p) /\ ~Move /\ chain'[t][p][1].wtime = chain[t][p][1].wtime
  <2>1. CASE chain'[t][p] = chain[t][p]
    BY <2>1, <1>6, Zenon
  <2>2. CASE chain'[t][p] # chain[t][p]
    <3>1. Written(s, t, p)
      BY <2>2, <1>5, Zenon
    <3>2. PICK v \in VersionRec :
             \/ Move /\ v.wtime = w /\ chain'[t][p] = <<v>> \o chain[t][p]
             \/ ~Move /\ v.wtime = chain[t][p][1].wtime /\ chain'[t][p] = <<v>>
      BY <2>2, <1>5, Zenon DEF Newest
    <3>3. /\ <<v>> \in Seq(VersionRec) /\ <<v>> # <<>> /\ <<v>>[1] = v
          /\ <<v>> \o chain[t][p] \in Seq(VersionRec)
          /\ <<v>> \o chain[t][p] # <<>> /\ (<<v>> \o chain[t][p])[1] = v
      BY <1>6
    <3> QED BY <3>1, <3>2, <3>3, Zenon
  <2> QED BY <2>1, <2>2, Zenon
<1>8. \A r \in Sessions : InOrder(r)' => InOrder(r) /\ tr[r].stime < w
  <2> SUFFICES ASSUME NEW r \in Sessions, InOrder(r)'
               PROVE  InOrder(r) /\ tr[r].stime < w
    BY Zenon
  <2>1. InOrder(r) /\ w \notin late[r]
    BY <1>1, Zenon DEF InOrder
  <2>2. ~(w < tr[r].stime)
    BY <2>1, <1>1, Zenon DEF IInv, Stamped, LateNoted
  <2>3. w # tr[r].stime /\ tr[r].stime \in Nat
    BY <1>1, Zenon DEF Distinct, TypeOK, TransRec
  <2> QED BY <2>1, <2>2, <2>3, <1>1
<1>9. /\ Active' \subseteq Active \ {s}
      /\ \A r \in Active' : r \in Active /\ r \in Sessions /\ r # s /\ Move
  <2>1. Active' \subseteq Active \ {s}
    BY <1>4, Zenon DEF Active
  <2> QED BY <2>1, <1>1, Others, Zenon DEF Active
<1> HIDE DEF w
<1>10. TypeOK'
  <2>1. chain' \in [Tables -> [Parts -> Seq(VersionRec)]]
    <3>1. chain' = [t \in Tables |-> [p \in Parts |-> UpdatedChain(s, t, p)]]
      BY <1>1, Zenon DEF rollforward_trans
    <3>2. \A t \in Tables, p \in Parts : UpdatedChain(s, t, p) \in Seq(VersionRec)
      BY <3>1, <1>7, Zenon
    <3> QED BY <3>1, <3>2, Zenon
  <2>2. gtab' \in [Tables -> TimesRec]
    <3>1. gtab' = [t \in Tables |-> gtab'[t]]
      BY <1>1, Zenon DEF rollforward_trans
    <3> QED BY <3>1, <1>3, Zenon
  <2>3. base' \in [Tables -> [ins : Rows, ups : Rows]]
    <3>1. base' = [t \in Tables |-> UpdatedBase(s, t)]
      BY <1>1, Zenon DEF rollforward_trans
    <3>2. ASSUME NEW t \in Tables PROVE UpdatedBase(s, t) \in [ins : Rows, ups : Rows]
      <4>1. base[t] \in [ins : Rows, ups : Rows] /\ data[s][t]["col"] \in DataRec
        BY <1>1 DEF TypeOK, Parts
      <4> QED BY <4>1 DEF UpdatedBase, DataRec, Rows
    <3> QED BY <3>1, <3>2, Zenon
  <2>4. schema_number' \in Nat
    <3>1. schema_number' = schema_number + (IF tr[s].schema_updates THEN 1 ELSE 0)
      BY <1>1, Zenon DEF rollforward_trans
    <3>2. schema_number \in Nat
      BY <1>1, Zenon DEF TypeOK
    <3> QED BY <3>1, <3>2
  <2>5. committed' \in Rows
    BY <1>1, Zenon DEF TypeOK, Rows
  <2>6. /\ tr' \in [Sessions -> TransRec]
        /\ tab' \in [Sessions -> [Tables -> TimesRec]]
        /\ data' \in [Sessions -> [Tables -> [Parts -> DataRec]]]
        /\ work' \in [Sessions -> 0..MaxWork]
    BY CommitLeaves, Zenon
  <2> QED BY <2>1, <2>2, <2>3, <2>4, <2>5, <2>6, <1>1, <1>2, <1>7, Zenon DEF TypeOK
<1>11. Clock'
  <2> SUFFICES ASSUME NEW t \in Tables
               PROVE  /\ chain'[t]["col"][1].wtime <= gtab'[t].cwtime
                      /\ chain'[t]["del"][1].wtime <= gtab'[t].wtime
    BY <1>2, <1>3, Zenon DEF Clock, Newest
  <2>1. /\ chain[t]["col"][1] \in VersionRec /\ chain[t]["del"][1] \in VersionRec
        /\ gtab[t] \in TimesRec
    BY <1>1, <1>6 DEF TypeOK, Parts
  <2>2. /\ chain[t]["col"][1].wtime <= gtab'[t].cwtime
        /\ chain[t]["del"][1].wtime <= gtab'[t].wtime
    <3>1. /\ chain[t]["col"][1].wtime <= gtab[t].cwtime
          /\ chain[t]["del"][1].wtime <= gtab[t].wtime
      BY <1>1, Zenon DEF Clock, Newest
    <3> QED BY <3>1, <2>1, <1>3 DEF VersionRec, TimesRec
  <2>3. /\ Written(s, t, "col") => w <= gtab'[t].cwtime
        /\ Written(s, t, "del") => w <= gtab'[t].wtime
    BY <1>3, Zenon DEF Written
  <2> QED BY <2>2, <2>3, <1>7, Zenon DEF Parts
<1>12. \A r \in Sessions : Session(r)' /\ LateNoted(r)'
  <2> TAKE r \in Sessions
  <2>1. Session(r) /\ LateNoted(r)
    BY Zenon DEF IInv, Stamped
  <2>2. tr[r].stime <= gtrans'.wtime
    <3>1. tr[r].stime \in Nat /\ gtrans.wtime \in Nat
      BY <1>1, Zenon DEF TypeOK, TransRec
    <3> QED BY <3>1, <2>1, <1>1, <1>2 DEF Session, Larger
  <2>3. CASE r = s
    <3>1. ASSUME NEW t \in Tables
          PROVE  /\ tab'[s][t].wtime \in {0, tr'[s].wstime}
                 /\ tab'[s][t].cwtime \in {0, tr'[s].wstime}
                 /\ tab'[s][t].cwtime # 0 => tab'[s][t].wtime # 0
                 /\ tab'[s][t].wtime # 0 => tr'[s].swtime # 0
                 /\ tab'[s][t].crtime <= tr'[s].stime
                 /\ \A p \in Parts : data'[s][t][p].at = "own" =>
                      tab'[s][t].wtime # 0 /\ (p = "col" => tab'[s][t].cwtime # 0)
      <4>1. CASE /\ tab'[s][t] = tab[s][t]
                 /\ \A p \in Parts : data'[s][t][p] = data[s][t][p]
        BY <4>1, <1>1, <1>4 DEF Session
      <4>2. CASE tab'[s][t] = NoTimes /\ \A p \in Parts : data'[s][t][p] = NoData
        <5>1. tr'[s].stime \in Nat
          BY <1>10, Zenon DEF TypeOK, TransRec
        <5> QED BY <4>2, <5>1 DEF NoTimes, NoData
      <4> QED BY <4>1, <4>2, <1>4, Zenon
    <3>2. Session(s)'
      BY <2>1, <2>2, <2>3, <3>1, <1>4, Zenon DEF Session
    <3>3. LateNoted(s)'
      BY <2>1, <2>3, <1>1, <1>4, <1>9, Zenon DEF LateNoted
    <3> QED BY <2>3, <3>2, <3>3, Zenon
  <2>4. CASE r # s
    <3>1. tr'[r] = tr[r] /\ tab'[r] = tab[r] /\ data'[r] = data[r]
      BY <2>4, <1>4, Zenon
    <3>2. Session(r)'
      BY <3>1, <2>1, <2>2, <1>1, Zenon DEF Session
    <3>3. LateNoted(r)'
      BY <3>1, <2>1, <1>1, <1>4, <1>9, Zenon DEF LateNoted
    <3> QED BY <3>2, <3>3, Zenon
  <2> QED BY <2>3, <2>4, Zenon
<1>13. ASSUME NEW r \in Active' PROVE Distinct(r)'
  <2>1. r \in Active /\ r \in Sessions /\ r # s /\ tr'[r] = tr[r]
    BY <1>4, <1>9, Zenon
  <2>2. Distinct(r)
    BY <2>1, Zenon DEF IInv, Stamped
  <2>3. w # tr[r].wstime
    BY <2>1, <2>2, <1>1, Zenon DEF Distinct, Active, w
  <2>4. gtrans'.wtime \in {gtrans.wtime, w}
    BY <1>2, Zenon DEF Larger
  <2> QED BY <2>1, <2>2, <2>3, <2>4, <1>3, <1>4 DEF Distinct
<1>14. Viewed'
  <2> SUFFICES ASSUME NEW r \in Sessions, NEW t \in Tables, NEW p \in Parts
               PROVE  Holds(r, t, p)' /\ (p = "col" => Copies(r, t)')
    BY Zenon DEF Viewed, Parts
  <2>0. Holds(r, t, p) /\ Copies(r, t)
    BY Zenon DEF IInv, Viewed
  <2>1. CASE r = s
    <3>1. Copies(s, t)'
      BY <1>4, Zenon DEF Copies
    <3>2. Holds(s, t, p)'
      <4>1. CASE tab[s][t].wtime = 0 /\ data'[s][t][p] = data[s][t][p]
        <5>1. chain'[t][p] = chain[t][p]
          BY <4>1, <1>5, Zenon DEF Written
        <5> QED BY <5>1, <4>1, <2>0, <2>1, <1>4, <1>8, Zenon DEF Holds, Newest
      <4>2. CASE data'[s][t][p] = NoData
        BY <4>2 DEF Holds, NoData
      <4> QED BY <4>1, <4>2, <1>4, Zenon
    <3> QED BY <2>1, <3>1, <3>2, Zenon
  <2>2. CASE r # s
    <3>1. tr'[r] = tr[r] /\ data'[r] = data[r]
      BY <2>2, <1>4, Zenon
    <3>2. Holds(r, t, p)'
      BY <2>0, <3>1, <1>7, <1>8, Zenon DEF Holds, Newest
    <3>3. ASSUME p = "col", tr[r].active PROVE Copies(r, t)'
      <4>1. Move
        BY <3>3, <2>2, <1>1, Others, Zenon DEF Active
      <4> QED BY <4>1, <2>0, <3>1, <3>3, <1>7, <1>8 DEF Copies, Newest
    <3> QED BY <3>1, <3>2, <3>3, Zenon DEF Copies
  <2> QED BY <2>1, <2>2, Zenon
<1>15. ChainSorted'
  <2> SUFFICES ASSUME NEW t \in Tables, NEW p \in Parts
               PROVE  \A i, j \in 1..Len(chain'[t][p]) :
                          i < j => chain'[t][p][i].wtime > chain'[t][p][j].wtime
    BY Zenon DEF ChainSorted
  <2>0. \A i, j \in 1..Len(chain[t][p]) :
            i < j => chain[t][p][i].wtime > chain[t][p][j].wtime
    BY Zenon DEF IInv, ChainSorted
  <2>1. CASE chain'[t][p] = chain[t][p]
    BY <2>1, <2>0, Zenon
  <2>2. CASE \E v \in VersionRec : chain'[t][p] = <<v>>
    <3>1. Len(chain'[t][p]) = 1
      BY <2>2
    <3> QED BY <3>1
  <2>3. ASSUME NEW v \in VersionRec, v.wtime = w, Newest(t, p).wtime < w,
               chain'[t][p] = <<v>> \o chain[t][p]
        PROVE  \A i, j \in 1..Len(chain'[t][p]) :
                          i < j => chain'[t][p][i].wtime > chain'[t][p][j].wtime
    <3> DEFINE d == chain[t][p]
               e == chain'[t][p]
    <3>1. d \in Seq(VersionRec) /\ d # <<>>
      BY <1>6, Zenon
    <3>2. Len(d) \in Nat /\ Len(d) > 0
      BY <3>1
    <3>3. Len(e) = Len(d) + 1 /\ e[1] = v /\ \A i \in 2..Len(e) : e[i] = d[i - 1]
      BY <2>3, <3>1
    <3>4. \A i \in 1..Len(d) : d[i].wtime \in Nat
      <4>1. \A u \in VersionRec : u.wtime \in Nat
        BY Zenon DEF VersionRec
      <4> QED BY <3>1, <4>1
    <3>5. \A i \in 1..Len(d) : d[i].wtime < w
      <4>1. d[1].wtime < w
        BY <2>3, Zenon DEF Newest
      <4>2. 1 \in 1..Len(d)
        BY <3>2
      <4>3. \A i \in 1..Len(d) : i = 1 \/ d[1].wtime > d[i].wtime
        BY <4>2, <2>0
      <4> QED BY <4>1, <4>2, <4>3, <3>4, <1>1
    <3> SUFFICES ASSUME NEW i \in 1..Len(e), NEW j \in 1..Len(e), i < j
                 PROVE  e[i].wtime > e[j].wtime
      BY Zenon
    <3> HIDE DEF d, e
    <3>6. j \in 2..Len(e) /\ j - 1 \in 1..Len(d) /\ e[j] = d[j - 1]
      BY <3>2, <3>3
    <3>7. CASE i = 1
      BY <3>3, <3>4, <3>5, <3>6, <3>7, <2>3, <1>1, Zenon
    <3>8. CASE i # 1
      <4>1. /\ i \in 2..Len(e) /\ i - 1 \in 1..Len(d) /\ i - 1 < j - 1
            /\ e[i] = d[i - 1]
        BY <3>2, <3>3, <3>8
      <4> QED BY <4>1, <3>6, <2>0, Zenon DEF d
    <3> QED BY <3>7, <3>8, Zenon
  <2> QED BY <2>1, <2>2, <2>3, <1>5, Zenon
<1>16. GtransStamps'
  <2> SUFFICES ASSUME NEW r \in Active'
               PROVE  gtrans'.wtime = gtrans'.wstime
    BY Zenon DEF GtransStamps
  <2>1. gtrans.wtime = gtrans.wstime \/ w > gtrans.wstime
    BY <1>1, Zenon DEF IInv, GtransStamps, w
  <2>2. gtrans.wtime \in Nat /\ gtrans.wstime \in Nat /\ gtrans.wtime <= gtrans.wstime
    BY <1>1, Zenon DEF TypeOK, Clock
  <2> QED BY <2>1, <2>2, <1>1, <1>2 DEF Larger
<1>17. HeldIsLive'
  <2> SUFFICES ASSUME NEW r \in Active', NEW t \in Tables, NEW p \in Parts,
                      data'[r][t][p].at = "gtrans", InOrder(r)'
               PROVE  \E i \in DOMAIN chain'[t][p] :
                          chain'[t][p][i].wtime = data'[r][t][p].id
    BY Zenon DEF HeldIsLive
  <2>1. /\ r \in Active /\ r \in Sessions /\ r # s /\ Move /\ InOrder(r)
        /\ data'[r] = data[r]
    BY <1>4, <1>8, <1>9, Zenon
  <2>2. PICK i \in DOMAIN chain[t][p] : chain[t][p][i].wtime = data[r][t][p].id
    BY <2>1, Zenon DEF IInv, HeldIsLive
  <2>3. CASE chain'[t][p] = chain[t][p]
    BY <2>1, <2>2, <2>3, Zenon
  <2>4. ASSUME NEW v \in VersionRec, chain'[t][p] = <<v>> \o chain[t][p]
        PROVE  \E k \in DOMAIN chain'[t][p] :
                          chain'[t][p][k].wtime = data'[r][t][p].id
    <3>1. /\ i + 1 \in DOMAIN chain'[t][p]
          /\ chain'[t][p][i + 1] = chain[t][p][i]
      BY <2>2, <2>4, <1>6
    <3> QED BY <3>1, <2>1, <2>2, Zenon
  <2> QED BY <2>1, <2>3, <2>4, <1>5, Zenon
<1>18. CommittedOnly'
  <2>0. CommittedOnly /\ committed \subseteq committed'
    BY <1>1, Zenon DEF IInv
  <2>1. ASSUME NEW t \in Tables
        PROVE  base'[t].ins \cup base'[t].ups \subseteq committed'
    <3>1. base'[t] = UpdatedBase(s, t)
      BY <1>1, Zenon DEF rollforward_trans
    <3>2. Written(s, t, "col") =>
            data[s][t]["col"].ins \cup data[s][t]["col"].ups \subseteq committed'
      BY <2>0, <1>1, Zenon DEF CommittedOnly, Written, w, Parts
    <3> QED BY <3>1, <3>2, <2>0 DEF CommittedOnly, UpdatedBase
  <2>2. ASSUME NEW t \in Tables, NEW p \in Parts, NEW i \in DOMAIN chain'[t][p]
        PROVE  chain'[t][p][i].ins \cup chain'[t][p][i].ups \subseteq committed'
    <3>0. \A k \in DOMAIN chain[t][p] :
            chain[t][p][k].ins \cup chain[t][p][k].ups \subseteq committed'
      BY <2>0, Zenon DEF CommittedOnly
    <3>1. CASE chain'[t][p] = chain[t][p]
      BY <3>0, <3>1, Zenon
    <3>2. ASSUME NEW v \in VersionRec, v.ins \cup v.ups \subseteq committed',
                 chain'[t][p] = <<v>> \/ chain'[t][p] = <<v>> \o chain[t][p]
          PROVE  chain'[t][p][i].ins \cup chain'[t][p][i].ups \subseteq committed'
      <4>1. chain'[t][p][i] = v \/ \E k \in DOMAIN chain[t][p] :
                                     chain'[t][p][i] = chain[t][p][k]
        <5>1. CASE chain'[t][p] = <<v>>
          BY <5>1
        <5>2. CASE chain'[t][p] = <<v>> \o chain[t][p]
          <6>1. i = 1 \/ (i - 1 \in DOMAIN chain[t][p] /\ chain'[t][p][i] = chain[t][p][i - 1])
            BY <5>2, <1>6
          <6>2. i = 1 => chain'[t][p][i] = v
            BY <5>2, <1>6
          <6> QED BY <6>1, <6>2, Zenon
        <5> QED BY <3>2, <5>1, <5>2, Zenon
      <4> QED BY <4>1, <3>0, <3>2, Zenon
    <3> QED BY <3>1, <3>2, <1>5, Zenon
  <2>3. ASSUME NEW r \in Active', NEW t \in Tables, NEW p \in Parts,
               data'[r][t][p].at = "own"
        PROVE  data'[r][t][p].ins \cup data'[r][t][p].ups
                   \subseteq committed' \cup {tr'[r].wstime}
    BY <2>0, <2>3, <1>4, <1>9 DEF CommittedOnly
  <2> QED BY <2>1, <2>2, <2>3, Zenon DEF CommittedOnly
<1> QED
  BY <1>10, <1>11, <1>12, <1>13, <1>14, <1>15, <1>16, <1>17, <1>18, Zenon DEF IInv, Stamped

-----------------------------------------------------------------------------
(* Begin and end *)

\* The end of a transaction that changes nothing for others preserves the
\* invariant.
LEMMA EndStep ==
    ASSUME IInv, NEW s \in Sessions, mvc_commit_nothing(s) \/ mvc_rollback(s)
    PROVE  IInv'
<1> DEFINE x == [tr[s] EXCEPT !.active = FALSE]
<1>0. TypeOK
  BY Zenon DEF IInv
<1>1. /\ tr' = [tr EXCEPT ![s] = x] /\ work' = [work EXCEPT ![s] = 0]
      /\ UNCHANGED <<stamp, gtrans, gtab, chain, base, schema_number, tab, data,
                     committed, late>>
  BY Zenon DEF mvc_commit_nothing, mvc_rollback, Ends, global, history
<1>2. /\ x \in TransRec /\ ~x.active /\ x.stime = tr[s].stime
      /\ x.wstime = tr[s].wstime /\ x.wtime = tr[s].wtime /\ x.swtime = tr[s].swtime
  BY <1>0, Zenon DEF TypeOK, TransRec
<1> HIDE DEF x
<1>3. tr'[s] = x /\ \A r \in Sessions \ {s} : tr'[r] = tr[r]
  BY <1>0, <1>1, Zenon DEF TypeOK
<1>4. \A r \in Sessions :
        /\ tr'[r].active => tr[r].active
        /\ tr'[r].stime = tr[r].stime /\ tr'[r].wstime = tr[r].wstime
        /\ tr'[r].wtime = tr[r].wtime /\ tr'[r].swtime = tr[r].swtime
        /\ InOrder(r)' <=> InOrder(r)
  BY <1>1, <1>2, <1>3, Zenon DEF InOrder
<1>5. Active' \subseteq Active
  BY <1>4, Zenon DEF Active
<1>6. TypeOK'
  <2>1. tr' \in [Sessions -> TransRec] /\ work' \in [Sessions -> 0..MaxWork]
    BY <1>0, <1>1, <1>2, TransAssumption DEF TypeOK
  <2> QED BY <1>0, <1>1, <2>1, Zenon DEF TypeOK
<1>7. Stamped'
  <2>1. Clock'
    BY <1>1, Zenon DEF IInv, Stamped, Clock, Newest
  <2>2. ASSUME NEW r \in Sessions PROVE Session(r)'
    <3>1. Session(r)
      BY Zenon DEF IInv, Stamped
    <3> QED BY <1>1, <1>4, <3>1 DEF Session
  <2>3. \A r \in Sessions : LateNoted(r)'
    BY <1>1, <1>4, <1>5, Zenon DEF IInv, Stamped, LateNoted, Active
  <2>4. ASSUME NEW r \in Active' PROVE Distinct(r)'
    <3>1. r \in Active /\ Distinct(r)
      BY <1>5, Zenon DEF IInv, Stamped
    <3> QED BY <1>1, <1>4, <1>5, <3>1 DEF Distinct, Active
  <2> QED BY <2>1, <2>2, <2>3, <2>4, Zenon DEF Stamped
<1>8. Viewed'
  BY <1>1, <1>4, Zenon DEF IInv, Viewed, Holds, Copies, Newest
<1>9. ChainSorted' /\ GtransStamps'
  BY <1>1, <1>4, <1>5, Zenon DEF IInv, ChainSorted, GtransStamps, Active
<1>10. HeldIsLive' /\ CommittedOnly'
  BY <1>1, <1>4, <1>5 DEF IInv, HeldIsLive, CommittedOnly, Active
<1> QED
  BY <1>6, <1>7, <1>8, <1>9, <1>10, Zenon DEF IInv

\* What is left of a session's stamps and views when it begins again: no mark of
\* a write, no copy, and no version that is older than one it could see now.
LEMMA BeginLeaves ==
    ASSUME IInv, NEW s \in Sessions, sql_trans_begin(s),
           NEW t \in Tables, NEW p \in Parts
    PROVE  /\ tab'[s][t] \in TimesRec /\ data'[s][t][p] \in DataRec
           /\ tab'[s][t].wtime = 0 /\ tab'[s][t].cwtime = 0
           /\ tab'[s][t].crtime <= gtrans.wtime
           /\ data'[s][t][p].at # "own"
           /\ data'[s][t][p].at = "gtrans" /\ InOrder(s) =>
                data'[s][t][p].id = Newest(t, p).wtime
           /\ data'[s][t][p].at = "gtrans" => late[s] \subseteq late'[s]
<1> DEFINE drops == /\ ResetNeeded(s) /\ ResetSchema(s) /\ ResetTable(s, t)
                    /\ p = "del" \/ ResetColumn(s, t)
<1>0. TypeOK /\ Clock /\ Session(s) /\ Holds(s, t, p)
  BY Zenon DEF IInv, Stamped, Viewed
<1>1. /\ tr[s] \in TransRec /\ tab[s][t] \in TimesRec /\ data[s][t][p] \in DataRec
      /\ gtab[t] \in TimesRec /\ gtrans \in [wtime : Nat, wstime : Nat, swtime : Nat]
  BY <1>0 DEF TypeOK
<1>2. Newest(t, p) \in VersionRec
  <2>1. chain[t][p] \in Seq(VersionRec) /\ chain[t][p] # <<>>
    BY <1>0 DEF TypeOK
  <2> QED BY <2>1 DEF Newest
<1>3. data'[s][t][p] = IF drops THEN NoData ELSE data[s][t][p]
  <2>1. CASE ResetNeeded(s)
    <3>1. reset_trans(s)
      BY <2>1, Zenon DEF sql_trans_begin
    <3>2. data'[s] = [u \in Tables |-> [q \in Parts |->
                    IF /\ ResetSchema(s) /\ ResetTable(s, u)
                       /\ q = "del" \/ ResetColumn(s, u)
                    THEN NoData ELSE data[s][u][q]]]
      BY <3>1, <1>0, Zenon DEF reset_trans, TypeOK
    <3>3. data'[s][t][p] = IF /\ ResetSchema(s) /\ ResetTable(s, t)
                              /\ p = "del" \/ ResetColumn(s, t)
                           THEN NoData ELSE data[s][t][p]
      BY <3>2
    <3>4. CASE drops
      BY <3>3, <3>4, Zenon
    <3>5. CASE ~drops
      BY <3>3, <3>5, <2>1, Zenon
    <3> QED BY <3>4, <3>5, Zenon
  <2>2. CASE ~ResetNeeded(s)
    BY <2>2, Zenon DEF sql_trans_begin
  <2> QED BY <2>1, <2>2, Zenon
<1>4. \/ tab'[s][t] = tab[s][t] /\ ~(ResetNeeded(s) /\ ResetSchema(s))
      \/ tab'[s][t] = NoTimes
      \/ /\ tab'[s][t] = [tab[s][t] EXCEPT !.rtime = 0, !.wtime = 0]
         /\ ~ResetTable(s, t)
  <2>1. CASE ResetNeeded(s)
    <3>1. reset_trans(s)
      BY <2>1, Zenon DEF sql_trans_begin
    <3>2. tab'[s] = [u \in Tables |->
                    IF ResetSchema(s)
                    THEN IF ResetTable(s, u) THEN NoTimes
                         ELSE [tab[s][u] EXCEPT !.rtime = 0, !.wtime = 0]
                    ELSE tab[s][u]]
      BY <3>1, <1>0, Zenon DEF reset_trans, TypeOK
    <3> QED BY <3>2, <2>1, Zenon
  <2>2. CASE ~ResetNeeded(s)
    BY <2>2, Zenon DEF sql_trans_begin
  <2> QED BY <2>1, <2>2, Zenon
<1>5. NoData \in DataRec /\ NoData.at = "none"
  BY Zenon DEF NoData, DataRec, Rows
<1>6. tab'[s][t].wtime = 0 /\ tab'[s][t].cwtime = 0 /\ tab'[s][t] \in TimesRec
  <2>1. CASE tab'[s][t] = tab[s][t] /\ ~(ResetNeeded(s) /\ ResetSchema(s))
    <3>1. tr[s].swtime = 0
      BY <2>1, <1>0, Zenon DEF Session, ResetNeeded, ResetSchema
    <3>2. tab[s][t].wtime = 0 /\ tab[s][t].cwtime = 0
      BY <3>1, <1>0, Zenon DEF Session
    <3> QED BY <2>1, <3>2, <1>1, Zenon
  <2>2. CASE tab'[s][t] = NoTimes
    BY <2>2 DEF NoTimes, TimesRec
  <2>3. CASE /\ tab'[s][t] = [tab[s][t] EXCEPT !.rtime = 0, !.wtime = 0]
             /\ ~ResetTable(s, t)
    <3>1. tab[s][t].cwtime = 0
      BY <2>3, <1>0, Zenon DEF Session, ResetTable
    <3> QED BY <2>3, <3>1, <1>1, Zenon DEF TimesRec
  <2> QED BY <1>4, <2>1, <2>2, <2>3, Zenon
<1>7. tab'[s][t].crtime <= gtrans.wtime
  <2>1. tab'[s][t].crtime \in {0, tab[s][t].crtime}
    <3>1. CASE tab'[s][t] = tab[s][t]
      BY <3>1, Zenon
    <3>2. CASE tab'[s][t] = NoTimes
      BY <3>2 DEF NoTimes
    <3>3. CASE tab'[s][t] = [tab[s][t] EXCEPT !.rtime = 0, !.wtime = 0]
      BY <3>3, <1>1, Zenon DEF TimesRec
    <3> QED BY <1>4, <3>1, <3>2, <3>3, Zenon
  <2>2. tab[s][t].crtime <= tr[s].stime /\ tr[s].stime <= gtrans.wtime
    BY <1>0, Zenon DEF Session
  <2> QED BY <2>1, <2>2, <1>1 DEF TimesRec, TransRec
<1>8. data'[s][t][p].at # "own"
  <2> SUFFICES ASSUME data[s][t][p].at = "own" PROVE drops
    BY <1>3, <1>5, Zenon
  <2>1. tab[s][t].wtime # 0 /\ (p = "col" => tab[s][t].cwtime # 0)
    BY <1>0, Zenon DEF Session
  <2>2. tr[s].swtime # 0 /\ tr[s].wtime # 0
    BY <2>1, <1>0, Zenon DEF Session
  <2> QED BY <2>1, <2>2, Zenon DEF ResetNeeded, ResetSchema, ResetTable, ResetColumn, Parts
<1>9. ASSUME data'[s][t][p].at = "gtrans", InOrder(s)
      PROVE  data'[s][t][p].id = Newest(t, p).wtime
  <2>1. data'[s][t][p] = data[s][t][p] /\ ~drops
    BY <1>3, <1>5, <1>9, Zenon
  <2> SUFFICES ASSUME tr[s].stime < Newest(t, p).wtime PROVE drops
    BY <2>1, <1>9, <1>0, Zenon DEF Holds
  <2>2. CASE p = "col"
    <3>1. /\ Newest(t, p).wtime <= gtab[t].cwtime /\ gtab[t].cwtime <= gtab[t].wtime
          /\ gtab[t].wtime <= gtrans.swtime /\ gtrans.swtime <= gtrans.wtime
          /\ gtrans.wtime <= gtrans.wstime
      BY <2>2, <1>0, Zenon DEF Clock
    <3>2. /\ tr[s].stime < gtab[t].cwtime /\ tr[s].stime < gtab[t].wtime
          /\ tr[s].stime < gtrans.swtime /\ tr[s].stime < gtrans.wstime
      BY <3>1, <1>1, <1>2 DEF TransRec, TimesRec, VersionRec
    <3> QED BY <3>2, Zenon DEF ResetNeeded, ResetSchema, ResetTable, ResetColumn
  <2>3. CASE p = "del"
    <3>1. /\ Newest(t, p).wtime <= gtab[t].wtime
          /\ gtab[t].wtime <= gtrans.swtime /\ gtrans.swtime <= gtrans.wtime
          /\ gtrans.wtime <= gtrans.wstime
      BY <2>3, <1>0, Zenon DEF Clock
    <3>2. /\ tr[s].stime < gtab[t].wtime
          /\ tr[s].stime < gtrans.swtime /\ tr[s].stime < gtrans.wstime
      BY <3>1, <1>1, <1>2 DEF TransRec, TimesRec, VersionRec
    <3> QED BY <3>2, <2>3, Zenon DEF ResetNeeded, ResetSchema, ResetTable
  <2> QED BY <2>2, <2>3, Zenon DEF Parts
<1>10. ASSUME data'[s][t][p].at = "gtrans" PROVE late[s] \subseteq late'[s]
  <2>1. data'[s] # NothingHeld
    BY <1>5, <1>10 DEF NothingHeld
  <2> QED BY <2>1, <1>0, Zenon DEF sql_trans_begin, TypeOK
<1>11. data'[s][t][p] \in DataRec
  BY <1>1, <1>3, <1>5, Zenon
<1> HIDE DEF drops
<1> QED
  BY <1>6, <1>7, <1>8, <1>9, <1>10, <1>11, Zenon

\* The begin of a transaction preserves the invariant.
LEMMA BeginStep ==
    ASSUME IInv, NEW s \in Sessions, sql_trans_begin(s)
    PROVE  IInv'
<1> DEFINE x == tr'[s]
<1>0. TypeOK /\ Clock /\ \A r \in Sessions : Session(r) /\ LateNoted(r)
  BY Zenon DEF IInv, Stamped
<1>1. /\ UNCHANGED <<gtrans, gtab, chain, base, schema_number, work, committed>>
      /\ stamp' = stamp + 1 /\ ~tr[s].active
  BY Zenon DEF sql_trans_begin, global
<1>2. /\ stamp \in Nat /\ tr \in [Sessions -> TransRec]
      /\ gtrans.wtime \in Nat /\ gtrans.wstime \in Nat
      /\ gtrans.wtime < stamp /\ gtrans.wstime < stamp
  BY <1>0 DEF TypeOK, Clock
<1>3. /\ x \in TransRec /\ x.active /\ x.stime = gtrans.wtime /\ x.wstime = stamp
      /\ x.wtime = 0 /\ x.swtime = 0
  <2>1. ~ResetNeeded(s) => tr[s].swtime = 0
    BY <1>0, Zenon DEF Session, ResetNeeded
  <2>2. tr[s] \in TransRec /\ schema_number \in Nat
    BY <1>0, Zenon DEF TypeOK
  <2>3. x = [active |-> TRUE, stime |-> gtrans.wtime, wstime |-> stamp,
             wtime |-> 0,
             srtime |-> IF ResetNeeded(s) THEN 0 ELSE tr[s].srtime,
             swtime |-> IF ResetNeeded(s) THEN 0 ELSE tr[s].swtime,
             schema_number |-> schema_number, schema_updates |-> FALSE]
    BY <1>2, Zenon DEF sql_trans_begin
  <2> QED BY <2>1, <2>2, <2>3, <1>2 DEF TransRec
<1>4. \A r \in Sessions \ {s} :
        /\ tr'[r] = tr[r] /\ tab'[r] = tab[r] /\ data'[r] = data[r]
        /\ late'[r] = late[r]
  BY <1>0, Zenon DEF sql_trans_begin, reset_trans, TypeOK
<1>5. ASSUME NEW t \in Tables, NEW p \in Parts
      PROVE  /\ tab'[s][t] \in TimesRec /\ data'[s][t][p] \in DataRec
             /\ tab'[s][t].wtime = 0 /\ tab'[s][t].cwtime = 0
             /\ tab'[s][t].crtime <= gtrans.wtime
             /\ data'[s][t][p].at # "own"
             /\ data'[s][t][p].at = "gtrans" /\ InOrder(s) =>
                  data'[s][t][p].id = Newest(t, p).wtime
             /\ data'[s][t][p].at = "gtrans" => late[s] \subseteq late'[s]
  BY BeginLeaves, Zenon
<1> HIDE DEF x
<1>6. \A r \in Sessions : tr[r].stime < stamp /\ (tr[r].active => tr[r].wstime < stamp)
  <2> TAKE r \in Sessions
  <2>1. tr[r] \in TransRec
    BY <1>2, Zenon
  <2> QED BY <1>0, <1>2, <2>1 DEF Session, TransRec
<1>7. Active' = Active \cup {s} /\ s \notin Active
  BY <1>1, <1>3, <1>4, Zenon DEF Active, x
<1>8. TypeOK'
  <2>1. tr' \in [Sessions -> TransRec]
    <3>1. tr' = [tr EXCEPT ![s] = x]
      BY <1>2, Zenon DEF sql_trans_begin, x
    <3> QED BY <3>1, <1>2, <1>3, Zenon
  <2>2. tab' \in [Sessions -> [Tables -> TimesRec]]
        /\ data' \in [Sessions -> [Tables -> [Parts -> DataRec]]]
    <3>1. CASE ResetNeeded(s)
      <4>1. tab'[s] \in [Tables -> TimesRec]
        <5>1. tab'[s] = [t \in Tables |-> tab'[s][t]]
          BY <3>1, <1>0, Zenon DEF sql_trans_begin, reset_trans, TypeOK
        <5>2. \A t \in Tables : tab'[s][t] \in TimesRec
          BY <1>5, Zenon DEF Parts
        <5> QED BY <5>1, <5>2, Zenon
      <4>2. data'[s] \in [Tables -> [Parts -> DataRec]]
        <5>1. data'[s] = [t \in Tables |-> [p \in Parts |->
                    IF /\ ResetSchema(s) /\ ResetTable(s, t)
                       /\ p = "del" \/ ResetColumn(s, t)
                    THEN NoData ELSE data[s][t][p]]]
          BY <3>1, <1>0, Zenon DEF sql_trans_begin, reset_trans, TypeOK
        <5>2. NoData \in DataRec
          BY Zenon DEF NoData, DataRec, Rows
        <5>3. \A t \in Tables, p \in Parts : data[s][t][p] \in DataRec
          <6>1. data \in [Sessions -> [Tables -> [Parts -> DataRec]]]
            BY <1>0, Zenon DEF TypeOK
          <6> QED BY <6>1
        <5> QED BY <5>1, <5>2, <5>3
      <4>3. tab' = [tab EXCEPT ![s] = tab'[s]] /\ data' = [data EXCEPT ![s] = data'[s]]
        BY <3>1, <1>0, Zenon DEF sql_trans_begin, reset_trans, TypeOK
      <4> QED BY <4>1, <4>2, <4>3, <1>0, Zenon DEF TypeOK
    <3>2. CASE ~ResetNeeded(s)
      BY <3>2, <1>0, Zenon DEF sql_trans_begin, TypeOK
    <3> QED BY <3>1, <3>2, Zenon
  <2>3. late' \in [Sessions -> Rows]
    <3>1. {tr[r].wstime : r \in {q \in Active : tr[q].wstime < gtrans.wtime}} \in Rows
      BY <1>2, Zenon DEF Active, Rows, TransRec
    <3>2. late \in [Sessions -> Rows] /\ late[s] \in Rows
      BY <1>0, Zenon DEF TypeOK
    <3>3. late'[s] \in Rows
      BY <3>1, <3>2, Zenon DEF sql_trans_begin, Rows
    <3>4. late' = [late EXCEPT ![s] = late'[s]]
      BY <3>2 DEF sql_trans_begin
    <3> QED BY <3>2, <3>3, <3>4, Zenon
  <2> QED BY <1>0, <1>1, <1>2, <2>1, <2>2, <2>3 DEF TypeOK
<1>9. Clock'
  BY <1>0, <1>1, <1>2 DEF Clock, Newest
<1>10. \A r \in Sessions : Session(r)'
  <2> TAKE r \in Sessions
  <2>1. CASE r = s
    BY <2>1, <1>1, <1>2, <1>3, <1>5 DEF Session, x, Parts
  <2>2. CASE r # s
    <3>1. /\ Session(r) /\ tr'[r] = tr[r] /\ tab'[r] = tab[r] /\ data'[r] = data[r]
          /\ gtrans' = gtrans
      BY <2>2, <1>0, <1>1, <1>4, Zenon
    <3>2. tr[r].active => tr[r].wstime < stamp'
      <4>1. tr[r].wstime \in Nat
        BY <1>2, Zenon DEF TransRec
      <4> QED BY <4>1, <1>1, <1>2, <1>6
    <3> QED BY <3>1, <3>2, Zenon DEF Session
  <2> QED BY <2>1, <2>2, Zenon
<1>11. \A r \in Sessions : LateNoted(r)'
  <2> SUFFICES ASSUME NEW r \in Sessions, NEW q \in Active',
                      tr'[q].wstime < tr'[r].stime
               PROVE  tr'[q].wstime \in late'[r]
    BY Zenon DEF LateNoted
  <2>1. q \in Active /\ q # s
    <3>1. tr'[r].stime < stamp
      BY <1>2, <1>3, <1>4, <1>6, Zenon DEF x
    <3>2. tr'[s].wstime = stamp
      BY <1>3, Zenon DEF x
    <3>3. tr'[r].stime \in Nat
      BY <1>8, Zenon DEF TypeOK, TransRec
    <3> QED BY <3>1, <3>2, <3>3, <1>2, <1>7
  <2>2. q \in Sessions /\ tr'[q] = tr[q]
    BY <2>1, <1>4, Zenon DEF Active
  <2>3. CASE r = s
    <3>1. tr[q].wstime < gtrans.wtime
      BY <2>2, <2>3, <1>3, Zenon DEF x
    <3>2. {tr[u].wstime : u \in {v \in Active : tr[v].wstime < gtrans.wtime}}
              \subseteq late'[s]
      BY <1>0, Zenon DEF sql_trans_begin, TypeOK
    <3> QED BY <2>1, <2>2, <2>3, <3>1, <3>2, Zenon
  <2>4. CASE r # s
    BY <2>1, <2>2, <2>4, <1>0, <1>4, Zenon DEF LateNoted
  <2> QED BY <2>3, <2>4, Zenon
<1>12. ASSUME NEW r \in Active' PROVE Distinct(r)'
  <2>1. CASE r = s
    <3>1. \A t \in Tables : gtab[t].wtime < stamp /\ gtab[t].cwtime < stamp
      <4> TAKE t \in Tables
      <4>1. gtab[t] \in TimesRec /\ gtrans.swtime \in Nat
        BY <1>0, Zenon DEF TypeOK
      <4> QED BY <4>1, <1>0, <1>2 DEF Clock, TimesRec
    <3>2. \A t \in Tables : gtab[t].wtime # stamp /\ gtab[t].cwtime # stamp
      <4> TAKE t \in Tables
      <4>1. gtab[t] \in TimesRec
        BY <1>0, Zenon DEF TypeOK
      <4> QED BY <4>1, <3>1, <1>2 DEF TimesRec
    <3>3. \A q \in Sessions : /\ tr'[q].stime # stamp
                              /\ tr'[q].active /\ q # s => tr'[q].wstime # stamp
      <4> TAKE q \in Sessions
      <4>1. tr[q].stime \in Nat /\ tr[q].wstime \in Nat
        BY <1>2, Zenon DEF TransRec
      <4> QED BY <4>1, <1>2, <1>3, <1>4, <1>6 DEF x
    <3> QED BY <2>1, <3>2, <3>3, <1>1, <1>2, <1>3, Zenon DEF Distinct, x
  <2>2. CASE r # s
    <3>1. r \in Active /\ r \in Sessions /\ tr'[r] = tr[r]
      BY <2>2, <1>4, <1>7, Zenon DEF Active
    <3>2. Distinct(r)
      BY <3>1, Zenon DEF IInv, Stamped
    <3>3. tr[r].wstime # stamp
      BY <3>1, <1>2, <1>6 DEF Active, TransRec
    <3> QED BY <3>1, <3>2, <3>3, <1>1, <1>3, <1>4 DEF Distinct, x
  <2> QED BY <2>1, <2>2, Zenon
<1>13. \A r \in Sessions \ {s} : InOrder(r)' <=> InOrder(r)
  BY <1>1, <1>4, Zenon DEF InOrder
<1>14. ASSUME NEW t \in Tables, NEW p \in Parts, data'[s][t][p].at = "gtrans",
              InOrder(s)'
       PROVE  data'[s][t][p].id = Newest(t, p).wtime
  <2>1. InOrder(s)
    BY <1>14, <1>5, <1>1, Zenon DEF InOrder
  <2> QED BY <2>1, <1>14, <1>5, Zenon
<1>15. Viewed'
  <2> SUFFICES ASSUME NEW r \in Sessions, NEW t \in Tables
               PROVE  Copies(r, t)' /\ \A p \in Parts : Holds(r, t, p)'
    BY Zenon DEF Viewed
  <2>1. CASE r = s
    BY <2>1, <1>1, <1>5, <1>14, Zenon DEF Copies, Holds, Newest, Parts
  <2>2. CASE r # s
    BY <2>2, <1>1, <1>4, <1>13, Zenon DEF IInv, Viewed, Copies, Holds, Newest
  <2> QED BY <2>1, <2>2, Zenon
<1>16. ChainSorted'
  BY <1>1, Zenon DEF IInv, ChainSorted
<1>17. GtransStamps'
  <2>1. x.wstime > gtrans.wstime
    BY <1>2, <1>3, Zenon
  <2> QED BY <2>1, <1>1, <1>4, <1>7, Zenon DEF IInv, GtransStamps, Active, x
<1>18. HeldIsLive'
  <2> SUFFICES ASSUME NEW r \in Active', NEW t \in Tables, NEW p \in Parts,
                      data'[r][t][p].at = "gtrans", InOrder(r)'
               PROVE  \E i \in DOMAIN chain[t][p] :
                          chain[t][p][i].wtime = data'[r][t][p].id
    BY <1>1, Zenon DEF HeldIsLive
  <2>1. CASE r = s
    <3>1. 1 \in DOMAIN chain[t][p]
      BY <1>0 DEF TypeOK
    <3> QED BY <2>1, <3>1, <1>14, Zenon DEF Newest
  <2>2. CASE r # s
    BY <2>2, <1>4, <1>7, <1>13 DEF IInv, HeldIsLive, Active
  <2> QED BY <2>1, <2>2, Zenon
<1>19. CommittedOnly'
  <2>1. ASSUME NEW r \in Active', NEW t \in Tables, NEW p \in Parts,
               data'[r][t][p].at = "own"
        PROVE  data'[r][t][p].ins \cup data'[r][t][p].ups
                   \subseteq committed \cup {tr'[r].wstime}
    <3>1. r # s
      BY <2>1, <1>5, Zenon
    <3> QED BY <2>1, <3>1, <1>4, <1>7 DEF IInv, CommittedOnly, Active
  <2> QED BY <2>1, <1>1 DEF IInv, CommittedOnly
<1> QED
  BY <1>8, <1>9, <1>10, <1>11, <1>12, <1>15, <1>16, <1>17, <1>18, <1>19, Zenon DEF IInv, Stamped

-----------------------------------------------------------------------------
(* The store manager *)

\* The store manager, which runs when no transaction is active, preserves the
\* invariant.
LEMMA ManagerStep ==
    ASSUME IInv, store_manager
    PROVE  IInv'
<1> DEFINE changed == {t \in Tables : HasChanges(t)}
<1>0. TypeOK /\ Clock /\ CommittedOnly
  BY Zenon DEF IInv, Stamped
<1>1. /\ UNCHANGED <<schema_number, tr, tab, data, work, committed, late>>
      /\ stamp' = stamp + 1 /\ Active = {}
  BY Zenon DEF store_manager, local, history, Idle
<1>2. Active' = {} /\ \A r \in Sessions : ~tr[r].active /\ (InOrder(r)' <=> InOrder(r))
  BY <1>1, Zenon DEF Active, InOrder
<1>3. /\ chain' = [t \in Tables |-> [chain[t] EXCEPT !["col"] = gtr_update_delta(t)]]
      /\ base' = [t \in Tables |->
                  IF t \in changed
                  THEN [ins |-> base[t].ins \cup chain[t]["col"][1].ins,
                        ups |-> base[t].ups \cup chain[t]["col"][1].ups]
                  ELSE base[t]]
      /\ gtab' = [t \in Tables |->
                  IF t \in changed
                  THEN [gtab[t] EXCEPT !.wtime = stamp, !.cwtime = stamp] ELSE gtab[t]]
      /\ gtrans' = IF changed # {}
                   THEN [wtime |-> stamp, wstime |-> stamp, swtime |-> stamp]
                   ELSE [gtrans EXCEPT !.wstime = stamp]
  BY Zenon DEF store_manager
<1> HIDE DEF changed
<1>4. /\ stamp \in Nat /\ gtrans \in [wtime : Nat, wstime : Nat, swtime : Nat]
      /\ gtrans.swtime <= gtrans.wtime /\ gtrans.wtime < stamp
      /\ gtrans.swtime < stamp
  BY <1>0 DEF TypeOK, Clock
<1>5. /\ gtrans' \in [wtime : Nat, wstime : Nat, swtime : Nat]
      /\ gtrans'.swtime <= gtrans'.wtime /\ gtrans'.wtime <= gtrans'.wstime
      /\ gtrans'.wstime < stamp' /\ gtrans.wtime <= gtrans'.wtime
      /\ gtrans.swtime <= gtrans'.swtime
      /\ changed # {} => gtrans'.swtime = stamp
  <2>1. CASE changed # {}
    <3>1. gtrans' = [wtime |-> stamp, wstime |-> stamp, swtime |-> stamp]
      BY <2>1, <1>3, Zenon
    <3> QED BY <3>1, <1>1, <1>4
  <2>2. CASE changed = {}
    <3>1. gtrans' = [gtrans EXCEPT !.wstime = stamp]
      BY <2>2, <1>3, Zenon
    <3>2. /\ gtrans' \in [wtime : Nat, wstime : Nat, swtime : Nat]
          /\ gtrans'.wstime = stamp /\ gtrans'.wtime = gtrans.wtime
          /\ gtrans'.swtime = gtrans.swtime
      BY <3>1, <1>4, Zenon
    <3> QED BY <3>2, <2>2, <1>1, <1>4
  <2> QED BY <2>1, <2>2, Zenon
<1>6. ASSUME NEW t \in Tables
      PROVE  /\ chain'[t] \in [Parts -> Seq(VersionRec)]
             /\ \A p \in Parts :
                  /\ chain'[t][p] # <<>>
                  /\ chain'[t][p][1].wtime = chain[t][p][1].wtime
                  /\ \/ chain'[t][p] = chain[t][p]
                     \/ chain'[t][p] = <<[chain[t][p][1] EXCEPT !.ins = {}, !.ups = {}]>>
  <2>1. /\ chain[t] \in [Parts -> Seq(VersionRec)]
        /\ \A p \in Parts : chain[t][p] # <<>>
    BY <1>0, Zenon DEF TypeOK
  <2>2. chain[t]["col"][1] \in VersionRec
    BY <2>1 DEF Parts
  <2> DEFINE v == [chain[t]["col"][1] EXCEPT !.ins = {}, !.ups = {}]
  <2>3. v \in VersionRec /\ v.wtime = chain[t]["col"][1].wtime
    BY <2>2, Zenon DEF VersionRec, Rows
  <2>4. chain'[t] = [chain[t] EXCEPT !["col"] = gtr_update_delta(t)]
    BY <1>3, Zenon
  <2>5. gtr_update_delta(t) = chain[t]["col"] \/ gtr_update_delta(t) = <<v>>
    BY Zenon DEF gtr_update_delta
  <2> HIDE DEF v
  <2>6. /\ gtr_update_delta(t) \in Seq(VersionRec) /\ gtr_update_delta(t) # <<>>
        /\ gtr_update_delta(t)[1].wtime = chain[t]["col"][1].wtime
    <3>1. CASE gtr_update_delta(t) = chain[t]["col"]
      BY <3>1, <2>1, Zenon DEF Parts
    <3>2. CASE gtr_update_delta(t) = <<v>>
      <4>1. <<v>> \in Seq(VersionRec) /\ <<v>> # <<>> /\ <<v>>[1] = v
        BY <2>3
      <4> QED BY <4>1, <3>2, <2>3, Zenon
    <3> QED BY <3>1, <3>2, <2>5, Zenon
  <2>7. /\ chain'[t]["col"] = gtr_update_delta(t)
        /\ chain'[t]["del"] = chain[t]["del"]
        /\ chain'[t] \in [Parts -> Seq(VersionRec)]
    BY <2>1, <2>4, <2>6, Zenon DEF Parts
  <2> QED BY <2>1, <2>5, <2>6, <2>7, Zenon DEF Parts, v
<1>7. ASSUME NEW t \in Tables
      PROVE  /\ gtab'[t] \in TimesRec
             /\ gtab[t].wtime <= gtab'[t].wtime /\ gtab[t].cwtime <= gtab'[t].cwtime
             /\ gtab'[t].cwtime <= gtab'[t].wtime /\ gtab'[t].wtime <= gtrans'.swtime
  <2>1. gtab[t] \in TimesRec /\ gtab[t].cwtime <= gtab[t].wtime
        /\ gtab[t].wtime <= gtrans.swtime
    BY <1>0, Zenon DEF TypeOK, Clock
  <2>2. CASE t \in changed
    <3>1. gtab'[t] = [gtab[t] EXCEPT !.wtime = stamp, !.cwtime = stamp]
      BY <2>2, <1>3, Zenon
    <3>2. gtab'[t] \in TimesRec /\ gtab'[t].wtime = stamp /\ gtab'[t].cwtime = stamp
      BY <3>1, <2>1, <1>4, Zenon DEF TimesRec
    <3> QED BY <3>2, <2>1, <2>2, <1>4, <1>5 DEF TimesRec
  <2>3. CASE t \notin changed
    <3>1. gtab'[t] = gtab[t]
      BY <2>3, <1>3, Zenon
    <3> QED BY <3>1, <2>1, <1>4, <1>5 DEF TimesRec
  <2> QED BY <2>2, <2>3, Zenon
<1>8. ASSUME NEW t \in Tables
      PROVE  /\ base'[t] \in [ins : Rows, ups : Rows]
             /\ base'[t].ins \cup base'[t].ups \subseteq committed
  <2>1. base[t] \in [ins : Rows, ups : Rows] /\ base[t].ins \cup base[t].ups \subseteq committed
    BY <1>0, Zenon DEF TypeOK, CommittedOnly
  <2>2. chain[t]["col"] \in Seq(VersionRec) /\ chain[t]["col"] # <<>>
    BY <1>0, Zenon DEF TypeOK, Parts
  <2>3. chain[t]["col"][1] \in VersionRec /\ 1 \in DOMAIN chain[t]["col"]
    BY <2>2
  <2>4. chain[t]["col"][1].ins \cup chain[t]["col"][1].ups \subseteq committed
    BY <2>3, <1>0, Zenon DEF CommittedOnly, Parts
  <2>5. CASE t \in changed
    BY <2>5, <2>1, <2>3, <2>4, <1>3, Zenon DEF VersionRec, Rows
  <2>6. CASE t \notin changed
    BY <2>6, <2>1, <1>3, Zenon
  <2> QED BY <2>5, <2>6, Zenon
<1>9. TypeOK'
  <2>1. /\ chain' \in [Tables -> [Parts -> Seq(VersionRec)]]
        /\ \A t \in Tables, p \in Parts : chain'[t][p] # <<>>
    <3>1. chain' = [t \in Tables |-> chain'[t]]
      BY <1>3, Zenon
    <3> QED BY <3>1, <1>6, Zenon
  <2>2. gtab' \in [Tables -> TimesRec]
    <3>1. gtab' = [t \in Tables |-> gtab'[t]]
      BY <1>3, Zenon
    <3> QED BY <3>1, <1>7, Zenon
  <2>3. base' \in [Tables -> [ins : Rows, ups : Rows]]
    <3>1. base' = [t \in Tables |-> base'[t]]
      BY <1>3, Zenon
    <3> QED BY <3>1, <1>8, Zenon
  <2>4. stamp' \in Nat
    BY <1>1, <1>4
  <2> QED BY <2>1, <2>2, <2>3, <2>4, <1>0, <1>1, <1>5, Zenon DEF TypeOK
<1>10. Clock'
  <2> SUFFICES ASSUME NEW t \in Tables
               PROVE  /\ Newest(t, "col")'.wtime <= gtab'[t].cwtime
                      /\ Newest(t, "del")'.wtime <= gtab'[t].wtime
    BY <1>5, <1>7, Zenon DEF Clock
  <2>1. /\ chain'[t]["col"][1].wtime = chain[t]["col"][1].wtime
        /\ chain'[t]["del"][1].wtime = chain[t]["del"][1].wtime
    BY <1>6, Zenon DEF Parts
  <2>2. chain[t]["col"] \in Seq(VersionRec) /\ chain[t]["col"] # <<>>
        /\ chain[t]["del"] \in Seq(VersionRec) /\ chain[t]["del"] # <<>>
    BY <1>0 DEF TypeOK, Parts
  <2>3. chain[t]["col"][1] \in VersionRec /\ chain[t]["del"][1] \in VersionRec
    BY <2>2
  <2>4. gtab[t] \in TimesRec
    BY <1>0, Zenon DEF TypeOK
  <2>5. /\ chain[t]["col"][1].wtime <= gtab[t].cwtime
        /\ chain[t]["del"][1].wtime <= gtab[t].wtime
    BY <1>0, Zenon DEF Clock, Newest
  <2> QED BY <2>1, <2>3, <2>4, <2>5, <1>7 DEF Newest, VersionRec, TimesRec
<1>11. \A r \in Sessions : Session(r)' /\ LateNoted(r)'
  <2> TAKE r \in Sessions
  <2>1. Session(r) /\ tr[r].stime \in Nat
    BY <1>0, Zenon DEF IInv, Stamped, TypeOK, TransRec
  <2>2. tr[r].stime <= gtrans'.wtime
    BY <2>1, <1>4, <1>5 DEF Session
  <2> QED BY <2>1, <2>2, <1>1, <1>2, Zenon DEF Session, LateNoted
<1>12. Viewed'
  <2> SUFFICES ASSUME NEW r \in Sessions, NEW t \in Tables, NEW p \in Parts
               PROVE  Copies(r, t)' /\ Holds(r, t, p)'
    BY Zenon DEF Viewed, Parts
  <2>1. Copies(r, t)'
    BY <1>1, <1>2, Zenon DEF Copies
  <2>2. Holds(r, t, p)
    BY Zenon DEF IInv, Viewed
  <2>3. Newest(t, p)'.wtime = Newest(t, p).wtime
    BY <1>6, Zenon DEF Newest
  <2> QED BY <2>1, <2>2, <2>3, <1>1, <1>2, Zenon DEF Holds
<1>13. ChainSorted'
  <2> SUFFICES ASSUME NEW t \in Tables, NEW p \in Parts
               PROVE  \A i, j \in 1..Len(chain'[t][p]) :
                          i < j => chain'[t][p][i].wtime > chain'[t][p][j].wtime
    BY DEF ChainSorted
  <2>1. CASE chain'[t][p] = chain[t][p]
    BY <2>1, Zenon DEF IInv, ChainSorted
  <2>2. CASE chain'[t][p] = <<[chain[t][p][1] EXCEPT !.ins = {}, !.ups = {}]>>
    <3>1. Len(chain'[t][p]) = 1
      BY <2>2
    <3> QED BY <3>1
  <2> QED BY <2>1, <2>2, <1>6, Zenon
<1>14. CommittedOnly'
  <2> SUFFICES ASSUME NEW t \in Tables, NEW p \in Parts, NEW i \in DOMAIN chain'[t][p]
               PROVE  chain'[t][p][i].ins \cup chain'[t][p][i].ups \subseteq committed
    BY <1>1, <1>2, <1>8, Zenon DEF CommittedOnly
  <2>1. CASE chain'[t][p] = chain[t][p]
    BY <2>1, <1>0, Zenon DEF CommittedOnly
  <2>2. CASE chain'[t][p] = <<[chain[t][p][1] EXCEPT !.ins = {}, !.ups = {}]>>
    <3>1. i = 1
      BY <2>2
    <3>2. chain[t][p] \in Seq(VersionRec) /\ chain[t][p] # <<>>
      BY <1>0 DEF TypeOK
    <3>3. chain[t][p][1] \in VersionRec
      BY <3>2
    <3>4. chain'[t][p][i] = [chain[t][p][1] EXCEPT !.ins = {}, !.ups = {}]
      BY <2>2, <3>1
    <3>5. chain'[t][p][i].ins = {} /\ chain'[t][p][i].ups = {}
      BY <3>3, <3>4, Zenon DEF VersionRec
    <3> QED BY <3>5, Zenon
  <2> QED BY <2>1, <2>2, <1>6, Zenon
<1> QED
  BY <1>2, <1>9, <1>10, <1>11, <1>12, <1>13, <1>14, Zenon
     DEF IInv, Stamped, GtransStamps, HeldIsLive

-----------------------------------------------------------------------------
(* The theorems *)

\* A new or restarted database satisfies the invariant.
LEMMA InitInv == Init => IInv
<1> SUFFICES ASSUME Init PROVE IInv
  BY Zenon
<1>1. PICK w \in {0, 2} :
        /\ gtrans = [wtime |-> w, wstime |-> Larger(1, w), swtime |-> w]
        /\ gtab = [t \in Tables |->
                    [rtime |-> 0, wtime |-> w, crtime |-> 0, cwtime |-> w]]
        /\ chain = [t \in Tables |-> [p \in Parts |->
                       <<[wtime |-> w, ins |-> {}, ups |-> {}]>>]]
        /\ tr = [s \in Sessions |->
                    [active |-> FALSE, stime |-> w, wstime |-> 0, wtime |-> 0,
                     srtime |-> 0, swtime |-> 0, schema_number |-> 0,
                     schema_updates |-> FALSE]]
  BY Zenon DEF Init
<1>2. /\ stamp = 3 /\ schema_number = 0
      /\ base = [t \in Tables |-> [ins |-> {}, ups |-> {}]]
      /\ tab = [s \in Sessions |-> [t \in Tables |-> NoTimes]]
      /\ data = [s \in Sessions |-> NothingHeld]
      /\ work = [s \in Sessions |-> 0]
      /\ committed = {} /\ late = [s \in Sessions |-> {}]
  BY Zenon DEF Init
<1> DEFINE v == [wtime |-> w, ins |-> {}, ups |-> {}]
<1>3. v \in VersionRec /\ v.wtime = w /\ v.ins = {} /\ v.ups = {}
  <2>1. {} \in Rows
    BY Zenon DEF Rows
  <2> QED BY <2>1 DEF VersionRec
<1>4. /\ <<v>> \in Seq(VersionRec) /\ <<v>> # <<>> /\ <<v>>[1] = v
      /\ Len(<<v>>) = 1 /\ DOMAIN <<v>> = {1}
  BY <1>3
<1>5. \A t \in Tables, p \in Parts : chain[t][p] = <<v>>
  BY <1>1, Zenon
<1>6. chain \in [Tables -> [Parts -> Seq(VersionRec)]]
  BY <1>1, <1>4, Zenon
<1> HIDE DEF v
<1>7. NoTimes \in TimesRec /\ NoData \in DataRec /\ NoData.at = "none"
  BY Zenon DEF NoTimes, TimesRec, NoData, DataRec, Rows
<1>8. /\ gtab \in [Tables -> TimesRec]
      /\ \A t \in Tables : gtab[t].wtime = w /\ gtab[t].cwtime = w
  BY <1>1 DEF TimesRec
<1>9. /\ gtrans \in [wtime : Nat, wstime : Nat, swtime : Nat]
      /\ gtrans.wtime = w /\ gtrans.swtime = w /\ w <= gtrans.wstime /\ gtrans.wstime < 3
  BY <1>1 DEF Larger
<1>10. /\ tr \in [Sessions -> TransRec]
       /\ \A s \in Sessions : /\ ~tr[s].active /\ tr[s].stime = w /\ tr[s].wstime = 0
                               /\ tr[s].wtime = 0 /\ tr[s].swtime = 0
  BY <1>1 DEF TransRec
<1>11. TypeOK
  <2>1. tab \in [Sessions -> [Tables -> TimesRec]]
    BY <1>2, <1>7, Zenon
  <2>2. data \in [Sessions -> [Tables -> [Parts -> DataRec]]]
    BY <1>2, <1>7, Zenon DEF NothingHeld
  <2>3. base \in [Tables -> [ins : Rows, ups : Rows]]
    BY <1>2, Zenon DEF Rows
  <2>4. work \in [Sessions -> 0..MaxWork]
    BY <1>2, TransAssumption
  <2> QED BY <1>2, <1>4, <1>5, <1>6, <1>8, <1>9, <1>10, <2>1, <2>2, <2>3, <2>4, Zenon
          DEF TypeOK, Rows
<1>12. Active = {}
  BY <1>10, Zenon DEF Active
<1>13. \A s \in Sessions, t \in Tables, p \in Parts : data[s][t][p] = NoData
  BY <1>2, Zenon DEF NothingHeld
<1>14. Stamped
  <2>1. Clock
    BY <1>2, <1>3, <1>4, <1>5, <1>8, <1>9 DEF Clock, Newest, Parts
  <2>2. ASSUME NEW s \in Sessions PROVE Session(s)
    <3>1. tab[s] = [t \in Tables |-> NoTimes]
      BY <1>2, Zenon
    <3> QED BY <3>1, <1>7, <1>9, <1>10, <1>13 DEF Session, NoTimes
  <2> QED BY <2>1, <2>2, <1>12, Zenon DEF Stamped, LateNoted
<1>15. Viewed
  BY <1>7, <1>10, <1>13, Zenon DEF Viewed, Copies, Holds, Parts
<1>16. ChainSorted /\ GtransStamps /\ HeldIsLive
  BY <1>4, <1>5, <1>12 DEF ChainSorted, GtransStamps, HeldIsLive
<1>17. CommittedOnly
  BY <1>2, <1>3, <1>4, <1>5, <1>12, Zenon DEF CommittedOnly
<1> QED
  BY <1>11, <1>14, <1>15, <1>16, <1>17, Zenon DEF IInv

\* Every step preserves the invariant.
LEMMA NextInv == IInv /\ [Next]_vars => IInv'
<1> SUFFICES ASSUME IInv, [Next]_vars PROVE IInv'
  BY Zenon
<1>1. CASE store_manager
  BY <1>1, ManagerStep, Zenon
<1>2. ASSUME NEW s \in Sessions, sql_trans_begin(s) PROVE IInv'
  BY <1>2, BeginStep, Zenon
<1>3. ASSUME NEW s \in Sessions, sql_trans_create_table(s) PROVE IInv'
  BY <1>3, SchemaStep, Zenon
<1>4. ASSUME NEW s \in Sessions, mvc_commit_nothing(s) \/ mvc_rollback(s) PROVE IInv'
  BY <1>4, EndStep, Zenon
<1>5. ASSUME NEW s \in Sessions, mvc_commit(s) PROVE IInv'
  BY <1>5, CommitStep, Zenon
<1>6. ASSUME NEW s \in Sessions, NEW t \in Tables,
             bind_col(s, t) \/ bind_ucol(s, t) \/ bind_del(s, t) \/ count_col(s, t)
      PROVE  IInv'
  BY <1>6, ReadStep, Zenon
<1>7. ASSUME NEW s \in Sessions, NEW t \in Tables,
             append_col(s, t) \/ update_col(s, t) \/ delete_tab(s, t)
      PROVE  IInv'
  BY <1>7, WriteStep, Zenon
<1>8. CASE UNCHANGED vars
  <2>1. UNCHANGED <<stamp, gtrans, gtab, chain, base, schema_number, tr, tab, data,
                    work, committed, late>>
    BY <1>8, Zenon DEF vars, global, local, history
  <2>2. TypeOK' /\ ChainSorted'
    BY <2>1, Zenon DEF IInv, TypeOK, ChainSorted
  <2>3. Stamped' /\ GtransStamps'
    <3>1. Clock'
      BY <2>1, Zenon DEF IInv, Stamped, Clock, Newest
    <3>2. ASSUME NEW s \in Sessions PROVE Session(s)'
      BY <2>1, Zenon DEF IInv, Stamped, Session
    <3>3. ASSUME NEW s \in Sessions PROVE LateNoted(s)'
      BY <2>1, Zenon DEF IInv, Stamped, LateNoted, Active
    <3>4. ASSUME NEW r \in Active' PROVE Distinct(r)'
      BY <2>1, Zenon DEF IInv, Stamped, Distinct, Active
    <3>5. GtransStamps'
      BY <2>1, Zenon DEF IInv, GtransStamps, Active
    <3> QED BY <3>1, <3>2, <3>3, <3>4, <3>5, Zenon DEF Stamped
  <2>4. Viewed'
    BY <2>1, Zenon DEF IInv, Viewed, Copies, Holds, InOrder, Newest
  <2>5. HeldIsLive'
    BY <2>1 DEF IInv, HeldIsLive, InOrder, Active
  <2>6. CommittedOnly'
    BY <2>1 DEF IInv, CommittedOnly, Active
  <2> QED BY <2>2, <2>3, <2>4, <2>5, <2>6, Zenon DEF IInv
<1> QED
  BY <1>1, <1>2, <1>3, <1>4, <1>5, <1>6, <1>7, <1>8, Zenon DEF Next

LEMMA Invariance == Spec => []IInv
BY InitInv, NextInv, PTL DEF Spec

\* The variables keep their types, and every part has a version to read.
THEOREM TypeCorrect == Spec => []TypeOK
<1>1. IInv => TypeOK
  BY Zenon DEF IInv
<1> QED BY <1>1, Invariance, PTL

\* The chain of versions that timestamp_delta searches and that update_table
\* extends is always ordered, newest first.
THEOREM ChainsSorted == Spec => []ChainSorted
<1>1. IInv => ChainSorted
  BY Zenon DEF IInv
<1> QED BY <1>1, Invariance, PTL

\* The assertion of rollforward_trans on the stamps of gtrans never fails.
THEOREM AssertedStamps == Spec => []GtransStamps
<1>1. IInv => GtransStamps
  BY Zenon DEF IInv
<1> QED BY <1>1, Invariance, PTL

\* Others see only what committed transactions have written.
THEOREM ReadsCommitted == Spec => []CommittedOnly
<1>1. IInv => CommittedOnly
  BY Zenon DEF IInv
<1> QED BY <1>1, Invariance, PTL

\* A transaction never holds a version that update_table or the store manager
\* has freed, as long as commits come in the order of the stamps.
THEOREM HeldNotFreed == Spec => []HeldIsLive
<1>1. IInv => HeldIsLive
  BY Zenon DEF IInv
<1> QED BY <1>1, Invariance, PTL

\* A transaction that passes sql_trans_validate and has read the column that it
\* writes has in its copy what it is about to replace.
THEOREM UpdatesKept == Spec => []NoLostUpdate
<1>1. IInv => NoLostUpdate
  <2> SUFFICES ASSUME IInv, NEW s \in Active, NEW t \in Tables,
                      Written(s, t, "col"), tab[s][t].crtime # 0,
                      sql_trans_validate(s), InOrder(s)
               PROVE  /\ Newest(t, "col").ins \subseteq data[s][t]["col"].ins
                      /\ Newest(t, "col").ups \subseteq data[s][t]["col"].ups
    BY Zenon DEF NoLostUpdate, Newest
  <2>1. s \in Sessions /\ tr[s].active
    BY Zenon DEF Active
  <2>2. TypeOK /\ Clock /\ Session(s) /\ Copies(s, t)
    BY <2>1, Zenon DEF IInv, Stamped, Viewed
  <2>3. tab[s][t].wtime # 0 /\ data[s][t]["col"].at = "own"
    BY Zenon DEF Written
  <2>4. validate_table(s, t)
    BY <2>2, <2>3, Zenon DEF sql_trans_validate, Session
  <2>5. tab[s][t].crtime >= gtab[t].cwtime
    BY <2>3, <2>4, Zenon DEF validate_table, ValidTimes
  <2>6. tab[s][t].crtime <= tr[s].stime /\ Newest(t, "col").wtime <= gtab[t].cwtime
    BY <2>2, Zenon DEF Session, Clock
  <2>7. /\ tab[s][t].crtime \in Nat /\ tr[s].stime \in Nat /\ gtab[t].cwtime \in Nat
    <3>1. tab[s][t] \in TimesRec /\ gtab[t] \in TimesRec /\ tr[s] \in TransRec
      BY <2>1, <2>2, Zenon DEF TypeOK
    <3> QED BY <3>1, Zenon DEF TimesRec, TransRec
  <2>8. Newest(t, "col").wtime \in Nat
    <3>1. chain[t]["col"] \in Seq(VersionRec) /\ chain[t]["col"] # <<>>
      <4>1. "col" \in Parts
        BY Zenon DEF Parts
      <4> QED BY <2>2, <4>1, Zenon DEF TypeOK
    <3>2. chain[t]["col"][1] \in VersionRec
      BY <3>1
    <3> QED BY <3>2, Zenon DEF Newest, VersionRec
  <2>9. ~(tr[s].stime < Newest(t, "col").wtime)
    BY <2>5, <2>6, <2>7, <2>8
  <2> QED BY <2>1, <2>2, <2>3, <2>9, Zenon DEF Copies
<1> QED BY <1>1, Invariance, PTL

\* In an ordered chain a stamp names one version.
LEMMA VersionNamed ==
    ASSUME NEW d \in Seq(VersionRec), NEW k \in DOMAIN d,
           \A i, j \in 1..Len(d) : i < j => d[i].wtime > d[j].wtime
    PROVE  VersionAt(d, d[k].wtime) = d[k]
<1> DEFINE c == CHOOSE i \in DOMAIN d : d[i].wtime = d[k].wtime
<1>1. DOMAIN d = 1..Len(d) /\ Len(d) \in Nat
  OBVIOUS
<1>2. \A i \in 1..Len(d) : d[i].wtime \in Nat
  <2>1. \A v \in VersionRec : v.wtime \in Nat
    BY Zenon DEF VersionRec
  <2> QED BY <2>1
<1>3. c \in DOMAIN d /\ d[c].wtime = d[k].wtime
  BY Zenon
<1>4. VersionAt(d, d[k].wtime) = d[c]
  BY Zenon DEF VersionAt
<1> HIDE DEF c
<1>5. k \in 1..Len(d) /\ c \in 1..Len(d)
  BY <1>1, <1>3, Zenon
<1>6. ~(c < k) /\ ~(k < c)
  BY <1>2, <1>3, <1>5
<1>7. c = k
  BY <1>1, <1>5, <1>6
<1> QED
  BY <1>4, <1>7, Zenon

\* A step does not change what a running transaction sees of what it holds.
LEMMA SnapshotStep ==
    ASSUME IInv, IInv', [Next]_vars,
           NEW s \in Sessions, NEW t \in Tables, NEW p \in Parts,
           tr[s].active, tr'[s] = tr[s], InOrder(s),
           data[s][t][p].at # "none", data'[s][t][p] = data[s][t][p]
    PROVE  Seen(s, t, p)' = Seen(s, t, p)
<1>1. CASE UNCHANGED <<chain, base>>
  BY <1>1, Zenon DEF Seen
<1>2. CASE store_manager
  BY <1>2, Zenon DEF store_manager, Idle, Active
<1>3. ASSUME NEW r \in Sessions, mvc_commit(r)
      PROVE  Seen(s, t, p)' = Seen(s, t, p)
  <2>1. r \in Active /\ s \in Active /\ r # s /\ rollforward_trans(r)
    <3>1. r \in Active /\ rollforward_trans(r)
      BY <1>3, Committing, Zenon
    <3>2. ~tr'[r].active
      BY <1>3, CommitLeaves, Zenon
    <3> QED BY <3>1, <3>2, Zenon DEF Active
  <2>2. Move
    BY <2>1, Others, Zenon
  <2>3. base'[t] = base[t]
    BY <2>1, <2>2, Zenon DEF rollforward_trans, UpdatedBase
  <2>4. CASE data[s][t][p].at = "own"
    BY <2>3, <2>4, Zenon DEF Seen
  <2>5. CASE data[s][t][p].at = "gtrans"
    <3> DEFINE d == chain[t][p]
               e == chain'[t][p]
               n == data[s][t][p].id
    <3>1. PICK k \in DOMAIN d : d[k].wtime = n
      BY <2>1, <2>5, Zenon DEF IInv, HeldIsLive
    <3>2. \E j \in DOMAIN e : e[j] = d[k]
      <4>1. CASE e = d
        BY <4>1, Zenon
      <4>2. CASE \E v \in VersionRec : e = <<v>> \o d
        <5>1. PICK v \in VersionRec : e = <<v>> \o d
          BY <4>2, Zenon
        <5>2. d \in Seq(VersionRec)
          BY DEF IInv, TypeOK
        <5> HIDE DEF d, e, n
        <5>3. k + 1 \in DOMAIN e /\ e[k + 1] = d[k]
          BY <5>1, <5>2
        <5> QED BY <5>3, Zenon
      <4> QED BY <4>1, <4>2, <2>2, <1>3, CommitChain, Zenon
    <3>3. PICK j \in DOMAIN e : e[j] = d[k]
      BY <3>2, Zenon
    <3>4. /\ d \in Seq(VersionRec) /\ e \in Seq(VersionRec)
          /\ \A i, l \in 1..Len(d) : i < l => d[i].wtime > d[l].wtime
          /\ \A i, l \in 1..Len(e) : i < l => e[i].wtime > e[l].wtime
      <4>1. /\ chain \in [Tables -> [Parts -> Seq(VersionRec)]]
            /\ chain' \in [Tables -> [Parts -> Seq(VersionRec)]]
        BY Zenon DEF IInv, TypeOK
      <4>2. ChainSorted /\ ChainSorted'
        BY Zenon DEF IInv
      <4> QED BY <4>1, <4>2, Zenon DEF ChainSorted
    <3> HIDE DEF d, e
    <3>5. VersionAt(d, n) = d[k] /\ VersionAt(e, n) = d[k]
      BY <3>1, <3>3, <3>4, VersionNamed
    <3>6. Seen(s, t, p) = IF p = "del" THEN d[k].ins
                          ELSE <<base[t].ins \cup d[k].ins, base[t].ups \cup d[k].ups>>
      BY <2>5, <3>5, Zenon DEF Seen, d
    <3>7. Seen(s, t, p)' = IF p = "del" THEN d[k].ins
                           ELSE <<base[t].ins \cup d[k].ins, base[t].ups \cup d[k].ups>>
      BY <2>3, <2>5, <3>5, Zenon DEF Seen, e
    <3> QED BY <3>6, <3>7, Zenon
  <2>6. data[s][t][p].at \in {"none", "gtrans", "own"}
    BY DEF IInv, TypeOK, DataRec
  <2> QED BY <2>4, <2>5, <2>6, Zenon
<1>4. CASE UNCHANGED vars
  BY <1>1, <1>4, Zenon DEF vars, global
<1>5. ASSUME NEW r \in Sessions,
             \/ sql_trans_begin(r) \/ sql_trans_create_table(r)
             \/ mvc_commit_nothing(r) \/ mvc_rollback(r)
      PROVE  UNCHANGED <<chain, base>>
  BY <1>5, Zenon DEF sql_trans_begin, sql_trans_create_table, mvc_commit_nothing,
              mvc_rollback, global
<1>6. ASSUME NEW r \in Sessions, NEW u \in Tables,
             \/ bind_col(r, u) \/ bind_ucol(r, u) \/ bind_del(r, u) \/ count_col(r, u)
             \/ append_col(r, u) \/ update_col(r, u) \/ delete_tab(r, u)
      PROVE  UNCHANGED <<chain, base>>
  BY <1>6, Zenon DEF bind_col, bind_ucol, bind_del, count_col, append_col, update_col,
              delete_tab, global
<1> QED
  BY <1>1, <1>2, <1>3, <1>4, <1>5, <1>6, Zenon DEF Next

\* No commit and no pass of the store manager changes what a running transaction
\* sees, as long as commits come in the order of the stamps.
THEOREM Snapshots == Spec => SnapshotStable
<1> DEFINE Stable ==
      \A s \in Sessions, t \in Tables, p \in Parts :
          /\ tr[s].active /\ tr'[s] = tr[s] /\ InOrder(s)
          /\ data[s][t][p].at # "none" /\ data'[s][t][p] = data[s][t][p]
          => Seen(s, t, p)' = Seen(s, t, p)
<1>1. IInv /\ IInv' /\ [Next]_vars => Stable
  BY SnapshotStep, Zenon
<1>2. IInv /\ IInv' /\ [Next]_vars => [Stable]_vars
  BY <1>1, Zenon
<1>3. SnapshotStable <=> [][Stable]_vars
  BY Zenon DEF SnapshotStable
<1> HIDE DEF Stable
<1> QED BY <1>2, <1>3, Invariance, PTL DEF Spec
=============================================================================
