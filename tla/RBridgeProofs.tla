--------------------------- MODULE RBridgeProofs ---------------------------
(***************************************************************************)
(* Vectors of R keep the memory they lie on, for any number of columns,    *)
(* results, vectors and fixes.  Beyond the property itself the invariant   *)
(* says which copies of views are out of reach of later queries, and that  *)
(* the list a query is filling is protected, so that a collection between  *)
(* two columns takes neither the list nor its vectors.                     *)
(***************************************************************************)
EXTENDS RBridge, FiniteSetTheorems, TLAPS

Exists(v) == vec[v] # Nothing

\* The vectors of f whose finalizer will release BAT b.
Owners(f, b) == {v \in Vectors : f[v] # Nothing /\ f[v].bid = b}

\* The variables have the types the code gives them.
Typed ==
    /\ TypeOK
    /\ pp \in Seq(Lists \cup {Nothing} \cup ToSet(Caller))
    /\ vec \in [Vectors -> [bid : Bats, on : Bats] \cup {Nothing}]
    /\ list \in [Lists -> Seq(Vectors) \cup {Nothing}]

\* Each vector owns one of the fixes of the BAT it will release.
FixOwned == \A b \in Bats : refs[b] >= Cardinality(Owners(vec, b))

\* A vector lies on the BAT it will release, or on a fixed copy of it that no
\* other vector releases and no program refers to.
OnOwnOrCopy ==
    \A v \in Vectors : Exists(v) =>
        \/ vec[v].on = vec[v].bid
        \/ /\ vec[v].on \in Temp \ plan
           /\ refs[vec[v].on] > 0 /\ Owners(vec, vec[v].on) = {}

\* What variables of R and existing lists refer to exists.
Reached ==
    /\ \A v \in held \cap Vectors : Exists(v)
    /\ \A l \in Lists : list[l] # Nothing => \A v \in ToSet(list[l]) : Exists(v)

\* The program refers to the BATs in plan, and fills a protected list.
Query ==
    /\ \A b \in plan : lrefs[b] = 1
    /\ pc \in {"columns", "seal"} =>
        ldvalue \in Lists /\ ldvalue \in ToSet(pp) /\ list[ldvalue] # Nothing
    /\ ldtype = "LD_RESULT" => ldvalue \in Lists
    /\ up # "running" => pc = "idle"

\* leaked_bids has the BATs of all vectors while the kernel runs.
Noted == up = "running" => \A v \in Vectors : Exists(v) => vec[v].bid \in bids

IInv == Typed /\ FixOwned /\ OnOwnOrCopy /\ Reached /\ Query /\ Noted

-----------------------------------------------------------------------------
(* Counting vectors.                                                         *)

\* A set of vectors is finite, and has a size of 0 only if it is empty.
LEMMA Counted ==
    ASSUME NEW S \in SUBSET Vectors
    PROVE  IsFiniteSet(S) /\ Cardinality(S) \in Nat /\ (Cardinality(S) = 0 <=> S = {})
<1>1. IsFiniteSet(S)
    BY BridgeAssumption, FS_Subset, Zenon
<1> QED BY <1>1, FS_CardinalityType, FS_EmptySet, Zenon

\* One more vector counts one more.
LEMMA CountAdd ==
    ASSUME NEW S \in SUBSET Vectors, NEW v \in Vectors, v \notin S
    PROVE  Cardinality(S \cup {v}) = Cardinality(S) + 1
BY Counted, FS_AddElement, Zenon

\* Without the vectors of D, as many fewer are left.
LEMMA CountRemove ==
    ASSUME NEW S \in SUBSET Vectors, NEW D \in SUBSET Vectors, D \subseteq S
    PROVE  Cardinality(S \ D) = Cardinality(S) - Cardinality(D)
<1>1. IsFiniteSet(S) /\ IsFiniteSet(D)
    BY Counted, Zenon
<1>2. Cardinality(S \ D) = Cardinality(S) - Cardinality(S \cap D)
    BY <1>1, FS_Difference, Zenon
<1>3. S \cap D = D
    BY Zenon
<1> QED BY <1>2, <1>3, Zenon

\* A BAT that some vector will release is fixed.
LEMMA OwnedFixed ==
    ASSUME IInv, NEW v \in Vectors, Exists(v)
    PROVE  vec[v].bid \in Bats /\ refs[vec[v].bid] > 0
<1> DEFINE b == vec[v].bid
<1>1. b \in Bats
    BY BridgeAssumption, Zenon DEF IInv, Typed, Exists
<1>2. v \in Owners(vec, b) /\ Owners(vec, b) \in SUBSET Vectors
    BY Zenon DEF Owners, Exists
<1>3. Cardinality(Owners(vec, b)) \in Nat /\ Cardinality(Owners(vec, b)) # 0
    BY <1>2, Counted, Zenon
<1>4. refs[b] >= Cardinality(Owners(vec, b)) /\ refs[b] \in Nat
    BY <1>1, Zenon DEF IInv, FixOwned, Typed, TypeOK
<1> HIDE DEF b
<1>5. refs[b] > 0
    BY <1>3, <1>4
<1> QED BY <1>1, <1>5, Zenon DEF b

\* The invariant gives the properties the runs check.
LEMMA Backed == IInv => VectorBacked
<1> SUFFICES ASSUME IInv PROVE VectorBacked
    BY Zenon
<1>1. \A b \in Bats : refs[b] >= Cardinality({v \in Vectors : vec[v] # Nothing /\ vec[v].bid = b})
    BY Zenon DEF IInv, FixOwned, Owners, Exists
<1>2. ASSUME NEW v \in LiveVectors PROVE Exists(v)
  <2>1. CASE v \in held
    BY <2>1, Zenon DEF IInv, Reached, LiveVectors
  <2>2. CASE v \notin held
    BY <2>2, Zenon DEF IInv, Reached, LiveVectors, LiveLists
  <2> QED BY <2>1, <2>2, Zenon
<1>3. ASSUME NEW v \in LiveVectors PROVE refs[vec[v].on] > 0
  <2>1. v \in Vectors /\ Exists(v)
    BY <1>2, Zenon DEF LiveVectors
  <2>2. CASE vec[v].on = vec[v].bid
    BY <2>1, <2>2, OwnedFixed, Zenon
  <2>3. CASE vec[v].on # vec[v].bid
    BY <2>1, <2>3, Zenon DEF IInv, OnOwnOrCopy
  <2> QED BY <2>2, <2>3, Zenon
<1> QED BY <1>1, <1>2, <1>3, Zenon DEF VectorBacked, Exists

-----------------------------------------------------------------------------
(* The steps of a query.                                                     *)

LEMMA InitInv == Init => IInv
<1> SUFFICES ASSUME Init PROVE IInv
    BY Zenon
<1>1. Typed
  <2>1. pp \in Seq(Lists \cup {Nothing} \cup ToSet(Caller))
    BY BridgeAssumption DEF Init
  <2> QED BY <2>1, BridgeAssumption DEF Init, Typed, TypeOK, Bats
<1>2. \A v \in Vectors : ~Exists(v)
    BY Zenon DEF Init, Exists
<1>3. FixOwned
  <2> SUFFICES ASSUME NEW b \in Bats PROVE refs[b] >= Cardinality(Owners(vec, b))
    BY Zenon DEF FixOwned
  <2>1. Owners(vec, b) = {}
    BY <1>2, Zenon DEF Owners, Exists
  <2>2. Cardinality(Owners(vec, b)) = 0
    BY <2>1, FS_EmptySet, Zenon
  <2> QED BY <2>2 DEF Init
<1>4. Reached /\ Query
    BY Zenon DEF Init, Reached, Query
<1> QED BY <1>1, <1>2, <1>3, <1>4, Zenon DEF IInv, OnOwnOrCopy, Noted

\* The steps of the program that touch neither BATs nor objects of R.
LEMMA QuietStep ==
    ASSUME IInv, Start \/ EndSilently \/ ProgramFails \/ leak_seal \/ freeVariables \/ ReturnError
    PROVE  IInv'
<1>1. UNCHANGED <<up, refs, vec, list, bids, held, ldvalue, width>> /\ plan' \subseteq plan
    BY Zenon DEF Start, EndSilently, ProgramFails, leak_seal, freeVariables, ReturnError, bbpvars, rvars, ldvars
<1>2. pp' \in Seq(Lists \cup {Nothing} \cup ToSet(Caller))
  <2>1. CASE ReturnError
    BY <2>1, BridgeAssumption DEF ReturnError
  <2>2. CASE ~ReturnError
    BY <2>2, Zenon DEF Start, EndSilently, ProgramFails, leak_seal, freeVariables, IInv, Typed
  <2> QED BY <2>1, <2>2, Zenon
<1>3. TypeOK'
  <2>1. lrefs' \in [Bats -> 0 .. 1]
    <3>1. CASE freeVariables
      BY <3>1 DEF freeVariables, IInv, Typed, TypeOK, Query
    <3>2. CASE ~freeVariables
      BY <3>2, Zenon DEF Start, EndSilently, ProgramFails, leak_seal, ReturnError, bbpvars, IInv, Typed, TypeOK
    <3> QED BY <3>1, <3>2, Zenon
  <2>2. pc' \in {"idle", "plan", "columns", "seal", "end", "return"}
        /\ ldtype' \in {"LD_PROCESSING", "LD_RESULT", "LD_ERROR"}
    BY Zenon DEF Start, EndSilently, ProgramFails, leak_seal, freeVariables, ReturnError, ldvars, IInv, Typed, TypeOK
  <2> QED BY <1>1, <2>1, <2>2, Zenon DEF IInv, Typed, TypeOK
<1>4. Typed'
    BY <1>1, <1>2, <1>3, Zenon DEF IInv, Typed
<1>5. FixOwned' /\ OnOwnOrCopy' /\ Reached' /\ Noted'
  <2>1. \A b : Owners(vec', b) = Owners(vec, b)
    BY <1>1, Zenon DEF Owners, Exists
  <2>2. FixOwned'
    BY <1>1, <2>1, Zenon DEF IInv, FixOwned
  <2>3. OnOwnOrCopy'
    BY <1>1, <2>1, Zenon DEF IInv, OnOwnOrCopy, Exists
  <2>4. Reached' /\ Noted'
    BY <1>1, Zenon DEF IInv, Reached, Noted, Exists
  <2> QED BY <2>2, <2>3, <2>4, Zenon
<1>6. Query'
  <2>1. \A b \in plan' : lrefs'[b] = 1
    BY Zenon DEF Start, EndSilently, ProgramFails, leak_seal, freeVariables, ReturnError, bbpvars, IInv, Query
  <2>2. pc' \notin {"columns", "seal"} /\ (up' # "running" => pc' = "idle")
    BY <1>1, Zenon DEF Start, EndSilently, ProgramFails, leak_seal, freeVariables, ReturnError, IInv, Query
  <2>3. ldtype' = "LD_RESULT" => ldvalue' \in Lists
    BY <1>1, Zenon DEF Start, EndSilently, ProgramFails, leak_seal, freeVariables, ReturnError, ldvars, IInv, Query
  <2> QED BY <2>1, <2>2, <2>3, Zenon DEF Query
<1> QED BY <1>4, <1>5, <1>6, Zenon DEF IInv

\* A BAT of the program gets its logical reference.
LEMMA ComputedPlan ==
    ASSUME IInv, NEW b \in Columns, Computed(b)
    PROVE  /\ b \in Bats /\ plan' \subseteq Temp /\ lrefs' \in [Bats -> 0 .. 1]
           /\ \A c \in plan' : lrefs'[c] = 1
           /\ \A c \in Temp \ plan : refs[c] > 0 => c # b /\ c \notin plan'
           /\ \A c \in FreeBats \ {b} : c \in Temp /\ refs[c] = 0 /\ c \notin plan'
<1>1. b \in Bats /\ plan' \subseteq Temp
    BY Zenon DEF Columns, Computed, IInv, Typed, TypeOK, Bats, FreeBats
<1>2. lrefs' \in [Bats -> 0 .. 1] /\ \A c \in plan' : lrefs'[c] = 1
  <2>1. CASE b \in Base \cup plan
    BY <2>1, BridgeAssumption, Zenon DEF Computed, IInv, Typed, TypeOK, Query
  <2>2. CASE b \notin Base \cup plan
    BY <1>1, <2>2 DEF Computed, IInv, Typed, TypeOK, Query, Bats
  <2> QED BY <2>1, <2>2, Zenon
<1>3. ASSUME NEW c \in Temp \ plan, refs[c] > 0 PROVE c # b /\ c \notin plan'
    BY <1>3, BridgeAssumption DEF Columns, Computed, FreeBats
<1>4. ASSUME NEW c \in FreeBats \ {b} PROVE c \in Temp /\ refs[c] = 0 /\ c \notin plan'
    BY DEF FreeBats, Computed, IInv, Query
<1> QED BY <1>1, <1>2, <1>3, <1>4, Zenon

\* Further fixes do no harm to the vectors there are.
LEMMA MoreFixes ==
    ASSUME IInv, UNCHANGED vec, refs' \in [Bats -> Nat],
           \A b \in Bats : refs'[b] >= refs[b],
           \A c \in Temp \ plan : refs[c] > 0 => c \notin plan'
    PROVE  FixOwned' /\ OnOwnOrCopy'
<1>1. \A b : Owners(vec', b) = Owners(vec, b)
    BY Zenon DEF Owners, Exists
<1>2. FixOwned'
  <2> SUFFICES ASSUME NEW b \in Bats PROVE refs'[b] >= Cardinality(Owners(vec, b))
    BY <1>1, Zenon DEF FixOwned
  <2>1. Cardinality(Owners(vec, b)) \in Nat
    BY Counted, Zenon DEF Owners
  <2>2. refs[b] >= Cardinality(Owners(vec, b)) /\ refs[b] \in Nat /\ refs'[b] \in Nat
    BY Zenon DEF IInv, FixOwned, Typed, TypeOK
  <2> QED BY <2>1, <2>2
<1>3. OnOwnOrCopy'
  <2> SUFFICES ASSUME NEW v \in Vectors, Exists(v), vec[v].on # vec[v].bid
               PROVE  vec[v].on \in Temp \ plan' /\ refs'[vec[v].on] > 0 /\ Owners(vec, vec[v].on) = {}
    BY <1>1, Zenon DEF OnOwnOrCopy, Exists
  <2> DEFINE c == vec[v].on
  <2>1. c \in Temp \ plan /\ refs[c] > 0 /\ Owners(vec, c) = {}
    BY Zenon DEF IInv, OnOwnOrCopy
  <2>2. c \in Bats /\ c \notin plan' /\ refs[c] \in Nat /\ refs'[c] \in Nat
    BY <2>1, Zenon DEF Bats, IInv, Typed, TypeOK
  <2> HIDE DEF c
  <2>3. refs'[c] > 0
    BY <2>1, <2>2
  <2> QED BY <2>1, <2>2, <2>3, Zenon DEF c
<1> QED BY <1>2, <1>3, Zenon

\* A new R object is empty and, on top of R's stack, protected.
LEMMA NewObject ==
    ASSUME IInv, NEW l \in FreeLists, list' = [list EXCEPT ![l] = <<>>],
           pp' = pp \o <<l, Nothing, Nothing>>, UNCHANGED <<vec, held>>
    PROVE  /\ l \in Lists /\ l \in ToSet(pp') /\ list'[l] # Nothing
           /\ pp' \in Seq(Lists \cup {Nothing} \cup ToSet(Caller))
           /\ list' \in [Lists -> Seq(Vectors) \cup {Nothing}]
           /\ Reached'
<1>1. l \in Lists /\ <<>> \in Seq(Vectors) /\ list \in [Lists -> Seq(Vectors) \cup {Nothing}]
    BY DEF FreeLists, IInv, Typed
<1>2. list' \in [Lists -> Seq(Vectors) \cup {Nothing}] /\ list'[l] = <<>> /\ list'[l] # Nothing
    BY <1>1, BridgeAssumption, Zenon
<1>3. pp' \in Seq(Lists \cup {Nothing} \cup ToSet(Caller))
    BY <1>1 DEF IInv, Typed
<1>4. l \in ToSet(pp')
  <2>1. Len(pp) \in Nat /\ Len(pp') = Len(pp) + 3 /\ pp'[Len(pp) + 1] = l
    BY <1>1 DEF IInv, Typed
  <2>2. Len(pp) + 1 \in DOMAIN pp'
    BY <1>3, <2>1
  <2> QED BY <2>1, <2>2, Zenon DEF ToSet
<1>5. Reached'
  <2>1. ToSet(<<>>) = {}
    BY DEF ToSet
  <2>2. \A v \in held \cap Vectors : Exists(v)
    BY Zenon DEF IInv, Reached
  <2>3. ASSUME NEW k \in Lists, list'[k] # Nothing, NEW v \in ToSet(list'[k]) PROVE Exists(v)
    <3>1. CASE k = l
      BY <1>2, <2>1, <2>3, <3>1, Zenon
    <3>2. CASE k # l
      BY <1>1, <2>3, <3>2, Zenon DEF IInv, Reached
    <3> QED BY <3>1, <3>2, Zenon
  <2> QED BY <2>2, <2>3, Zenon DEF Reached, Exists
<1> QED BY <1>1, <1>2, <1>3, <1>4, <1>5, Zenon

\* A result starts as an empty list.
LEMMA ResultStep == ASSUME IInv, leak_rs PROVE IInv'
<1> PICK ncol \in 1 .. MaxCols, l \in FreeLists :
        /\ ldtype' = "LD_PROCESSING" /\ ldvalue' = l /\ width' = ncol
        /\ list' = [list EXCEPT ![l] = <<>>]
        /\ pp' = pp \o <<l, Nothing, Nothing>>
    BY Zenon DEF leak_rs
<1>1. UNCHANGED <<up, refs, lrefs, plan, bids, vec, held>> /\ pc = "plan" /\ pc' = "columns"
    BY Zenon DEF leak_rs, bbpvars
<1>2. /\ l \in Lists /\ l \in ToSet(pp') /\ list'[l] # Nothing
      /\ pp' \in Seq(Lists \cup {Nothing} \cup ToSet(Caller))
      /\ list' \in [Lists -> Seq(Vectors) \cup {Nothing}]
      /\ Reached'
    BY <1>1, NewObject, Zenon
<1>3. TypeOK'
    BY <1>1, <1>2, BridgeAssumption DEF IInv, Typed, TypeOK
<1>4. Typed'
    BY <1>1, <1>2, <1>3, Zenon DEF IInv, Typed
<1>5. FixOwned' /\ OnOwnOrCopy'
  <2>1. refs' \in [Bats -> Nat] /\ \A b \in Bats : refs'[b] >= refs[b]
    BY <1>1 DEF IInv, Typed, TypeOK
  <2> QED BY <1>1, <2>1, MoreFixes, Zenon
<1>6. Query' /\ Noted'
    BY <1>1, <1>2, Zenon DEF IInv, Query, Noted, Exists
<1> QED BY <1>2, <1>4, <1>5, <1>6, Zenon DEF IInv

\* A single value: its BAT, if it comes as one, keeps a fix.
LEMMA ValueStep == ASSUME IInv, leak_value PROVE IInv'
<1> PICK l \in FreeLists, type \in {"LD_RESULT", "LD_ERROR"} :
        /\ ldtype' = type /\ ldvalue' = l /\ width' = 0
        /\ list' = [list EXCEPT ![l] = <<>>]
        /\ pp' = pp \o <<l, Nothing, Nothing>>
    BY Zenon DEF leak_value
<1>1. UNCHANGED <<up, bids, vec, held>> /\ pc = "plan" /\ pc' = "end"
    BY Zenon DEF leak_value
<1>2. /\ l \in Lists /\ Reached'
      /\ pp' \in Seq(Lists \cup {Nothing} \cup ToSet(Caller))
      /\ list' \in [Lists -> Seq(Vectors) \cup {Nothing}]
    BY <1>1, NewObject, Zenon
<1>3. /\ plan' \subseteq Temp /\ lrefs' \in [Bats -> 0 .. 1]
      /\ \A c \in plan' : lrefs'[c] = 1
      /\ \A c \in Temp \ plan : refs[c] > 0 => c \notin plan'
      /\ refs' \in [Bats -> Nat] /\ \A b \in Bats : refs'[b] >= refs[b]
  <2>1. CASE UNCHANGED bbpvars
    BY <2>1 DEF bbpvars, IInv, Typed, TypeOK, Query
  <2>2. CASE \E b \in Columns : Computed(b) /\ refs' = [refs EXCEPT ![b] = @ + 1]
    <3> PICK b \in Columns : Computed(b) /\ refs' = [refs EXCEPT ![b] = @ + 1]
      BY <2>2, Zenon
    <3>1. refs' \in [Bats -> Nat] /\ \A c \in Bats : refs'[c] >= refs[c]
      BY ComputedPlan DEF IInv, Typed, TypeOK
    <3> QED BY <3>1, ComputedPlan, Zenon
  <2> QED BY <2>1, <2>2, Zenon DEF leak_value
<1>4. Typed'
  <2>1. TypeOK'
    BY <1>1, <1>2, <1>3, BridgeAssumption DEF IInv, Typed, TypeOK
  <2> QED BY <1>1, <1>2, <2>1, Zenon DEF IInv, Typed
<1>5. FixOwned' /\ OnOwnOrCopy'
    BY <1>1, <1>3, MoreFixes, Zenon
<1>6. Query' /\ Noted'
    BY <1>1, <1>2, <1>3, Zenon DEF IInv, Query, Noted, Exists
<1> QED BY <1>2, <1>4, <1>5, <1>6, Zenon DEF IInv

\* One more vector v that releases b, laid over b or over a copy.
LEMMA VectorStep ==
    ASSUME IInv, pc = "columns", NEW b \in Columns, NEW v \in FreeVectors, NEW on,
           Computed(b), AddVector(v, b, on), UNCHANGED <<up, ldvars, pp, held>>,
           refs' \in [Bats -> Nat],
           \A c \in Bats : refs'[c] >= refs[c],
           refs'[b] = refs[b] + 1,
           on = b \/ (on \in FreeBats \ {b} /\ refs'[on] > 0)
    PROVE  IInv'
<1>1. /\ b \in Bats /\ plan' \subseteq Temp /\ lrefs' \in [Bats -> 0 .. 1]
      /\ \A c \in plan' : lrefs'[c] = 1
      /\ \A c \in Temp \ plan : refs[c] > 0 => c # b /\ c \notin plan'
      /\ on # b => on \in Temp /\ refs[on] = 0 /\ on \notin plan'
    BY ComputedPlan, Zenon
<1>2. v \in Vectors /\ ~Exists(v) /\ on \in Bats
    BY <1>1, Zenon DEF FreeVectors, Exists, Bats
<1>3. /\ vec \in [Vectors -> [bid : Bats, on : Bats] \cup {Nothing}]
      /\ vec' = [vec EXCEPT ![v] = [bid |-> b, on |-> on]]
    BY Zenon DEF IInv, Typed, AddVector
<1>4. /\ vec' \in [Vectors -> [bid : Bats, on : Bats] \cup {Nothing}]
      /\ vec'[v] = [bid |-> b, on |-> on] /\ vec'[v] # Nothing
      /\ \A u \in Vectors \ {v} : vec'[u] = vec[u]
    BY <1>1, <1>2, <1>3, BridgeAssumption
<1>5. \A u \in Vectors : Exists(u)' <=> (Exists(u) \/ u = v)
    BY <1>4, Zenon DEF Exists
<1>6. ldvalue \in Lists /\ list[ldvalue] \in Seq(Vectors) /\ list[ldvalue] # Nothing
      /\ list \in [Lists -> Seq(Vectors) \cup {Nothing}] /\ ldvalue \in ToSet(pp)
    BY BridgeAssumption, Zenon DEF IInv, Typed, Query
<1>7. list' = [list EXCEPT ![ldvalue] = Append(list[ldvalue], v)]
    BY <1>6, Zenon DEF AddVector
<1>8. Append(list[ldvalue], v) \in Seq(Vectors) /\ Append(list[ldvalue], v) # Nothing
  <2> DEFINE q == list[ldvalue]
  <2>1. q \in Seq(Vectors) /\ v \in Vectors
    BY <1>2, <1>6, Zenon
  <2> HIDE DEF q
  <2>2. Append(q, v) \in Seq(Vectors)
    BY <2>1
  <2>3. Append(q, v) # Nothing
    BY <2>2, BridgeAssumption, Zenon
  <2> QED BY <2>2, <2>3, Zenon DEF q
<1>9. Typed'
  <2>1. list' \in [Lists -> Seq(Vectors) \cup {Nothing}]
    BY <1>6, <1>7, <1>8, Zenon
  <2>2. pc' \in {"columns", "seal"} /\ bids' \subseteq Bats
    BY <1>1, Zenon DEF AddVector, IInv, Typed, TypeOK
  <2>3. TypeOK'
    BY <1>1, <2>2, Zenon DEF IInv, Typed, TypeOK, ldvars
  <2> QED BY <1>4, <2>1, <2>3, Zenon DEF IInv, Typed
<1>10. Owners(vec', b) = Owners(vec, b) \cup {v} /\ \A c : c # b => Owners(vec', c) = Owners(vec, c)
  <2>1. \A c : Owners(vec', c) = {u \in Vectors : Exists(u)' /\ vec'[u].bid = c}
    BY Zenon DEF Owners, Exists
  <2>2. Owners(vec', b) = Owners(vec, b) \cup {v}
    BY <1>2, <1>4, <1>5, <2>1 DEF Owners, Exists
  <2>3. ASSUME NEW c, c # b PROVE Owners(vec', c) = Owners(vec, c)
    BY <1>2, <1>4, <1>5, <2>1, <2>3 DEF Owners, Exists
  <2> QED BY <2>2, <2>3, Zenon
<1>11. FixOwned'
  <2> SUFFICES ASSUME NEW c \in Bats PROVE refs'[c] >= Cardinality(Owners(vec', c))
    BY Zenon DEF FixOwned
  <2>1. /\ Cardinality(Owners(vec, c)) \in Nat /\ refs[c] \in Nat /\ refs'[c] \in Nat
        /\ refs[c] >= Cardinality(Owners(vec, c)) /\ refs'[c] >= refs[c]
    BY Counted, Zenon DEF Owners, IInv, FixOwned, Typed, TypeOK
  <2>2. CASE c = b
    <3>1. v \notin Owners(vec, b) /\ Owners(vec, b) \in SUBSET Vectors
      BY <1>2, Zenon DEF Owners, Exists
    <3>2. Cardinality(Owners(vec', b)) = Cardinality(Owners(vec, b)) + 1
      BY <1>2, <1>10, <3>1, CountAdd, Zenon
    <3> QED BY <2>1, <2>2, <3>2
  <2>3. CASE c # b
    BY <1>10, <2>1, <2>3
  <2> QED BY <2>2, <2>3, Zenon
<1>12. OnOwnOrCopy'
  <2> SUFFICES ASSUME NEW u \in Vectors, Exists(u)', vec'[u].on # vec'[u].bid
               PROVE  /\ vec'[u].on \in Temp \ plan'
                      /\ refs'[vec'[u].on] > 0 /\ Owners(vec', vec'[u].on) = {}
    BY Zenon DEF OnOwnOrCopy
  <2>1. CASE u = v
    <3>1. vec'[u].on = on /\ on # b
      BY <1>4, <2>1
    <3>2. Cardinality(Owners(vec, on)) = 0
      <4>1. Cardinality(Owners(vec, on)) \in Nat /\ refs[on] >= Cardinality(Owners(vec, on))
        BY <1>2, Counted, Zenon DEF Owners, IInv, FixOwned
      <4> QED BY <1>1, <3>1, <4>1
    <3>3. Owners(vec, on) = {}
      BY <3>2, Counted, Zenon DEF Owners
    <3>4. Owners(vec', on) = {}
      BY <1>10, <3>1, <3>3, Zenon
    <3> QED BY <1>1, <3>1, <3>4, Zenon
  <2>2. CASE u # v
    <3> DEFINE c == vec[u].on
    <3>1. vec'[u] = vec[u] /\ Exists(u)
      BY <1>4, <1>5, <2>2, Zenon
    <3>2. c \in Temp \ plan /\ refs[c] > 0 /\ Owners(vec, c) = {}
      BY <3>1, Zenon DEF IInv, OnOwnOrCopy
    <3>3. c # b /\ c \notin plan' /\ c \in Bats
      BY <1>1, <3>2, Zenon DEF Bats
    <3>4. refs[c] \in Nat /\ refs'[c] \in Nat /\ refs'[c] >= refs[c]
      BY <3>3, Zenon DEF IInv, Typed, TypeOK
    <3>5. Owners(vec', c) = {}
      BY <1>10, <3>2, <3>3, Zenon
    <3> HIDE DEF c
    <3>6. refs'[c] > 0
      BY <3>2, <3>4
    <3>7. Owners(vec', vec'[u].on) = {}
      BY <3>1, <3>5, Zenon DEF c
    <3> QED BY <3>1, <3>2, <3>3, <3>6, <3>7, Zenon DEF c
  <2> QED BY <2>1, <2>2, Zenon
<1>13. Reached'
  <2>1. \A u \in held' \cap Vectors : Exists(u)'
    BY <1>5, Zenon DEF IInv, Reached
  <2>2. ASSUME NEW k \in Lists, list'[k] # Nothing, NEW u \in ToSet(list'[k]) PROVE Exists(u)'
    <3>1. CASE k # ldvalue
      <4>1. list'[k] = list[k] /\ list[k] \in Seq(Vectors)
        BY <1>6, <1>7, <2>2, <3>1, Zenon
      <4>2. u \in Vectors /\ Exists(u)
        BY <2>2, <4>1 DEF IInv, Reached, ToSet
      <4> QED BY <1>5, <4>2, Zenon
    <3>2. CASE k = ldvalue
      <4>1. list'[k] = Append(list[ldvalue], v)
        BY <1>6, <1>7, <3>2, Zenon
      <4>2. PICK i \in DOMAIN Append(list[ldvalue], v) : u = Append(list[ldvalue], v)[i]
        BY <4>1, Zenon DEF ToSet
      <4>3. u = v \/ \E j \in DOMAIN list[ldvalue] : u = list[ldvalue][j]
        BY <1>6, <4>2
      <4>4. u = v \/ (u \in Vectors /\ Exists(u))
        BY <1>6, <4>3 DEF IInv, Reached, ToSet
      <4> QED BY <1>2, <1>5, <4>4, Zenon
    <3> QED BY <3>1, <3>2, Zenon
  <2> QED BY <2>1, <2>2, Zenon DEF Reached
<1>14. Query'
  <2>1. list'[ldvalue] # Nothing
    BY <1>6, <1>7, <1>8, Zenon
  <2>2. ldvalue' = ldvalue /\ ldtype' = ldtype /\ pp' = pp /\ up' = up /\ up = "running"
    BY Zenon DEF ldvars, IInv, Query
  <2> QED BY <1>1, <1>6, <2>1, <2>2, Zenon DEF IInv, Query
<1>15. Noted'
  <2>1. bids' = bids \cup {b}
    BY Zenon DEF AddVector
  <2> QED BY <1>4, <1>5, <2>1 DEF IInv, Noted, Exists
<1> QED BY <1>9, <1>11, <1>12, <1>13, <1>14, <1>15, Zenon DEF IInv

\* A column in place, or over the copy of a view.
LEMMA ColumnStep == ASSUME IInv, leak_addColumn PROVE IInv'
<1> PICK b \in Columns, v \in FreeVectors :
        /\ Computed(b)
        /\ \/ CanBeView(b, FALSE) /\ ColumnInPlace(b, v)
           \/ CanBeView(b, TRUE) /\ \E c \in FreeBats \ {b} : ColumnOfView(b, c, v)
    BY Zenon DEF leak_addColumn
<1>1. pc = "columns" /\ UNCHANGED <<up, ldvars, pp, held>>
    BY Zenon DEF leak_addColumn
<1>2. b \in Bats /\ refs \in [Bats -> Nat] /\ \A c \in FreeBats \ {b} : c \in Bats /\ refs[c] = 0
    BY ComputedPlan, Zenon DEF IInv, Typed, TypeOK, Bats
<1>3. CASE ColumnInPlace(b, v)
  <2>1. refs' = [refs EXCEPT ![b] = @ + 1] /\ AddVector(v, b, b)
    BY <1>3, Zenon DEF ColumnInPlace
  <2>2. refs' \in [Bats -> Nat] /\ refs'[b] = refs[b] + 1 /\ \A c \in Bats : refs'[c] >= refs[c]
    BY <1>2, <2>1
  <2> QED BY <1>1, <2>1, <2>2, VectorStep, Zenon
<1>4. CASE \E c \in FreeBats \ {b} : ColumnOfView(b, c, v)
  <2> PICK c \in FreeBats \ {b} : ColumnOfView(b, c, v)
    BY <1>4, Zenon
  <2>1. refs' = [refs EXCEPT ![b] = @ + 1, ![c] = 3] /\ AddVector(v, b, c)
    BY Zenon DEF ColumnOfView
  <2>2. refs' \in [Bats -> Nat] /\ refs'[b] = refs[b] + 1 /\ refs'[c] = 3
        /\ \A d \in Bats : refs'[d] >= refs[d]
    BY <1>2, <2>1
  <2>3. c \in FreeBats \ {b} /\ refs'[c] > 0
    BY <2>2
  <2> QED BY <1>1, <2>1, <2>2, <2>3, VectorStep, Zenon
<1> QED BY <1>3, <1>4, Zenon

\* A column of a type that is not supported leaves its fixes behind.
LEMMA ColumnFailStep == ASSUME IInv, leak_addColumnFails PROVE IInv'
<1> PICK b \in Columns :
        /\ Computed(b)
        /\ \/ CanBeView(b, FALSE) /\ refs' = [refs EXCEPT ![b] = @ + 1]
           \/ CanBeView(b, TRUE) /\ \E c \in FreeBats \ {b} :
                refs' = [refs EXCEPT ![b] = @ + 1, ![c] = 3]
    BY Zenon DEF leak_addColumnFails
<1>1. UNCHANGED <<up, ldtype, ldvalue, width, pp, bids, list, vec, held>> /\ pc = "columns" /\ pc' = "end"
    BY Zenon DEF leak_addColumnFails, ldvars, rvars
<1>2. b \in Bats /\ refs \in [Bats -> Nat] /\ \A c \in FreeBats \ {b} : c \in Bats /\ refs[c] = 0
    BY ComputedPlan, Zenon DEF IInv, Typed, TypeOK, Bats
<1>3. refs' \in [Bats -> Nat] /\ \A d \in Bats : refs'[d] >= refs[d]
  <2>1. CASE refs' = [refs EXCEPT ![b] = @ + 1]
    BY <1>2, <2>1
  <2>2. CASE \E c \in FreeBats \ {b} : refs' = [refs EXCEPT ![b] = @ + 1, ![c] = 3]
    <3> PICK c \in FreeBats \ {b} : refs' = [refs EXCEPT ![b] = @ + 1, ![c] = 3]
      BY <2>2
    <3> QED BY <1>2
  <2> QED BY <2>1, <2>2, Zenon
<1>4. Typed'
  <2>1. TypeOK'
    BY <1>1, <1>3, ComputedPlan, Zenon DEF IInv, Typed, TypeOK
  <2> QED BY <1>1, <2>1, Zenon DEF IInv, Typed
<1>5. FixOwned' /\ OnOwnOrCopy'
    BY <1>1, <1>3, ComputedPlan, MoreFixes, Zenon
<1>6. Reached' /\ Noted'
    BY <1>1, Zenon DEF IInv, Reached, Noted, Exists
<1>7. Query'
    BY <1>1, ComputedPlan, Zenon DEF IInv, Query
<1> QED BY <1>4, <1>5, <1>6, <1>7, Zenon DEF IInv

-----------------------------------------------------------------------------
(* The steps of the R session.                                               *)

\* R gets, drops and takes apart results; what it takes exists.
LEMMA SessionStep ==
    ASSUME IInv, ReturnResult \/ Drop \/ TakeColumn
    PROVE  IInv'
<1>1. UNCHANGED <<up, ldtype, ldvalue, width, refs, lrefs, plan, bids, list, vec>> /\ pc' = "idle"
    BY Zenon DEF ReturnResult, Drop, TakeColumn, ldvars, bbpvars
<1>2. pp' \in Seq(Lists \cup {Nothing} \cup ToSet(Caller))
  <2>1. CASE ReturnResult
    BY <2>1 DEF ReturnResult, UNPROTECT3, IInv, Typed
  <2>2. CASE ~ReturnResult
    BY <2>2, Zenon DEF Drop, TakeColumn, IInv, Typed
  <2> QED BY <2>1, <2>2, Zenon
<1>3. held' \subseteq Lists \cup Vectors /\ \A v \in held' \cap Vectors : Exists(v)
  <2>1. CASE ReturnResult
    BY <2>1, BridgeAssumption, Zenon DEF ReturnResult, IInv, Typed, TypeOK, Reached, Query
  <2>2. CASE Drop
    BY <2>2, Zenon DEF Drop, IInv, Typed, TypeOK, Reached
  <2>3. CASE TakeColumn
    <3> PICK l \in held \cap Lists :
            list[l] # Nothing /\ \E v \in ToSet(list[l]) : held' = held \cup {v}
      BY <2>3, Zenon DEF TakeColumn
    <3> PICK v \in ToSet(list[l]) : held' = held \cup {v}
      BY Zenon
    <3>1. list[l] \in Seq(Vectors)
      BY Zenon DEF IInv, Typed
    <3>2. v \in Vectors /\ Exists(v)
      BY <3>1 DEF IInv, Reached, ToSet
    <3> QED BY <3>2, Zenon DEF IInv, Typed, TypeOK, Reached
  <2> QED BY <2>1, <2>2, <2>3, Zenon
<1>4. Typed'
  <2>1. TypeOK'
    BY <1>1, <1>3, Zenon DEF IInv, Typed, TypeOK
  <2> QED BY <1>1, <1>2, <2>1, Zenon DEF IInv, Typed
<1>5. FixOwned' /\ OnOwnOrCopy' /\ Noted'
    BY <1>1, Zenon DEF IInv, FixOwned, OnOwnOrCopy, Noted, Exists
<1>6. Reached' /\ Query'
    BY <1>1, <1>3, Zenon DEF IInv, Reached, Query, Exists
<1> QED BY <1>4, <1>5, <1>6, Zenon DEF IInv

\* The vectors that are left after a collection.
LEMMA Survivors ==
    ASSUME IInv, Collect
    PROVE  /\ LiveVectors = {v \in Vectors : Exists(v)'}
           /\ \A v \in LiveVectors : Exists(v) /\ vec'[v] = vec[v]
           /\ \A b : Owners(vec', b) = Owners(vec, b) \ {v \in Dead : vec[v].bid = b}
           /\ \A b : {v \in Dead : vec[v].bid = b} \subseteq Owners(vec, b)
<1>1. \A v \in LiveVectors : v \in Vectors /\ Exists(v)
  <2> SUFFICES ASSUME NEW v \in LiveVectors PROVE v \in Vectors /\ Exists(v)
    BY Zenon
  <2>1. CASE v \in held
    BY <2>1, Zenon DEF IInv, Reached, LiveVectors
  <2>2. CASE v \notin held
    BY <2>2, Zenon DEF IInv, Reached, LiveVectors, LiveLists
  <2> QED BY <2>1, <2>2, Zenon
<1>2. \A v \in Vectors : vec'[v] = IF v \in LiveVectors THEN vec[v] ELSE Nothing
    BY Zenon DEF Collect
<1>3. LiveVectors = {v \in Vectors : Exists(v)'}
    BY <1>1, <1>2, Zenon DEF Exists
<1>4. ASSUME NEW b PROVE Owners(vec', b) = Owners(vec, b) \ {v \in Dead : vec[v].bid = b}
    BY <1>1, <1>2, Zenon DEF Owners, Dead, Exists
<1>5. ASSUME NEW b PROVE {v \in Dead : vec[v].bid = b} \subseteq Owners(vec, b)
    BY Zenon DEF Owners, Dead
<1> QED BY <1>1, <1>2, <1>3, <1>4, <1>5, Zenon

\* The finalizers give back the fixes of the dead vectors and no others.
LEMMA FixesLeft ==
    ASSUME IInv, Collect, NEW b \in Bats
    PROVE  /\ refs'[b] \in Nat /\ refs'[b] >= Cardinality(Owners(vec', b))
           /\ Owners(vec, b) = {} => refs'[b] = refs[b]
<1> DEFINE S == Owners(vec, b)
           D == {v \in Dead : vec[v].bid = b}
<1>1. refs'[b] = refs[b] - Cardinality(D)
    BY Zenon DEF Collect, destroyBat
<1>2. Owners(vec', b) = S \ D /\ D \subseteq S
    BY Survivors, Zenon
<1>3. S \in SUBSET Vectors /\ D \in SUBSET Vectors /\ (S \ D) \in SUBSET Vectors
    BY <1>2, Zenon DEF Owners
<1>4. refs[b] \in Nat /\ refs[b] >= Cardinality(S)
    BY Zenon DEF IInv, Typed, TypeOK, FixOwned
<1> HIDE DEF S, D
<1>5. Cardinality(S \ D) = Cardinality(S) - Cardinality(D)
    BY <1>2, <1>3, CountRemove, Zenon
<1>6. Cardinality(S) \in Nat /\ Cardinality(D) \in Nat /\ Cardinality(S \ D) \in Nat
    BY <1>3, Counted, Zenon
<1>7. refs'[b] \in Nat /\ refs'[b] >= Cardinality(S \ D)
    BY <1>1, <1>4, <1>5, <1>6
<1>8. S = {} => Cardinality(D) = 0
    BY <1>2, FS_EmptySet, Zenon
<1>9. S = {} => refs'[b] = refs[b]
    BY <1>1, <1>4, <1>8
<1> QED BY <1>2, <1>7, <1>9, Zenon DEF S

\* A collection at any moment, in stop() as well.
LEMMA CollectStep ==
    ASSUME IInv, Collect, UNCHANGED <<pc, ldvars, pp, lrefs, plan, held>>,
           up' \in {"running", "stopped", "forced"}, up' # "running" => pc = "idle",
           bids' \subseteq bids, up' = "running" => up = "running" /\ bids' = bids
    PROVE  IInv'
<1>1. UNCHANGED <<pc, ldtype, ldvalue, width, pp, lrefs, plan, held>>
    BY Zenon DEF ldvars
<1>2. Typed'
  <2>1. refs' \in [Bats -> Nat]
    BY FixesLeft, Zenon DEF Collect, destroyBat
  <2>2. vec' \in [Vectors -> [bid : Bats, on : Bats] \cup {Nothing}]
        /\ list' \in [Lists -> Seq(Vectors) \cup {Nothing}]
    BY Zenon DEF Collect, IInv, Typed
  <2>3. TypeOK'
    BY <1>1, <2>1, Zenon DEF IInv, Typed, TypeOK
  <2> QED BY <1>1, <2>2, <2>3, Zenon DEF IInv, Typed
<1>3. FixOwned'
    BY FixesLeft, Zenon DEF FixOwned
<1>4. \A v \in Vectors : Exists(v)' => v \in LiveVectors /\ Exists(v) /\ vec'[v] = vec[v]
    BY Survivors, Zenon
<1>5. OnOwnOrCopy'
  <2> SUFFICES ASSUME NEW v \in Vectors, Exists(v)', vec'[v].on # vec'[v].bid
               PROVE  /\ vec'[v].on \in Temp \ plan'
                      /\ refs'[vec'[v].on] > 0 /\ Owners(vec', vec'[v].on) = {}
    BY Zenon DEF OnOwnOrCopy
  <2> DEFINE c == vec[v].on
  <2>1. vec'[v] = vec[v] /\ c \in Temp \ plan /\ refs[c] > 0 /\ Owners(vec, c) = {}
    BY <1>4, Zenon DEF IInv, OnOwnOrCopy
  <2>2. c \in Bats
    BY <2>1, Zenon DEF Bats
  <2>3. refs'[c] = refs[c] /\ Owners(vec', c) = {}
    BY <2>1, <2>2, FixesLeft, Survivors, Zenon
  <2> HIDE DEF c
  <2> QED BY <1>1, <2>1, <2>3, Zenon DEF c
<1>6. Reached'
  <2>1. \A v \in held \cap Vectors : v \in LiveVectors /\ Exists(v)'
    BY Survivors, Zenon DEF LiveVectors
  <2>2. ASSUME NEW l \in Lists, list'[l] # Nothing, NEW v \in ToSet(list'[l]) PROVE Exists(v)'
    <3>1. l \in LiveLists /\ list'[l] = list[l]
      BY <2>2, Zenon DEF Collect
    <3>2. list[l] \in Seq(Vectors)
      BY <2>2, <3>1, Zenon DEF IInv, Typed
    <3>3. v \in Vectors
      BY <2>2, <3>1, <3>2 DEF ToSet
    <3>4. v \in LiveVectors
      BY <2>2, <3>1, <3>3, Zenon DEF LiveVectors
    <3> QED BY <3>3, <3>4, Survivors, Zenon
  <2> QED BY <1>1, <2>1, <2>2, Zenon DEF Reached
<1>7. Query'
  <2>1. pc \in {"columns", "seal"} => list'[ldvalue] # Nothing
    BY Zenon DEF Collect, LiveLists, IInv, Query
  <2> QED BY <1>1, <2>1, Zenon DEF IInv, Query
<1>8. Noted'
    BY <1>4, Zenon DEF IInv, Noted
<1> QED BY <1>2, <1>3, <1>5, <1>6, <1>7, <1>8, Zenon DEF IInv

\* Every step keeps the invariant.
LEMMA NextInv == IInv /\ [Next]_vars => IInv'
<1> SUFFICES ASSUME IInv, [Next]_vars PROVE IInv'
    BY Zenon
<1>1. CASE UNCHANGED vars
    BY <1>1, Zenon DEF vars, ldvars, bbpvars, rvars, IInv, Typed, TypeOK, FixOwned, OnOwnOrCopy,
        Reached, Query, Noted, Exists
<1>2. CASE gc
  <2>1. /\ up = "running" /\ Collect
        /\ UNCHANGED <<up, pc, ldvars, pp, lrefs, plan, bids, held>>
    BY <1>2, Zenon DEF gc
  <2> QED BY <2>1, CollectStep, Zenon
<1>3. ASSUME NEW force \in BOOLEAN, stop(force) PROVE IInv'
  <2>1. /\ up = "running" /\ pc = "idle" /\ Collect
        /\ UNCHANGED <<pc, ldvars, pp, lrefs, plan, held>>
    BY <1>3, Zenon DEF stop
  <2>2. \/ up' = up /\ bids' = bids
        \/ up' \in {"stopped", "forced"} /\ bids' = {}
    BY <1>3, Zenon DEF stop
  <2>3. /\ up' \in {"running", "stopped", "forced"} /\ bids' \subseteq bids
        /\ up' = "running" => bids' = bids
    BY <2>1, <2>2, Zenon
  <2> QED BY <2>1, <2>3, CollectStep, Zenon
<1> QED BY <1>1, <1>2, <1>3, QuietStep, ResultStep, ColumnStep, ColumnFailStep, ValueStep, SessionStep, Zenon DEF Next

LEMMA Invariance == Spec => []IInv
BY InitInv, NextInv, PTL DEF Spec

\* For any number of columns, results and vectors: each vector that R can reach
\* lies on memory that a fix keeps in place, whatever R drops, keeps and collects
\* and whatever fails in a query of leak_addColumn.
THEOREM VectorsBacked == Spec => []VectorBacked
BY Invariance, Backed, PTL

\* The kernel stops without force only when no vector of leak_addColumn that R
\* can reach lies on its memory.
THEOREM SafeStop == Spec => StopIsSafe
<1>1. ASSUME IInv, [Next]_vars, up = "running", up' = "stopped" PROVE LiveVectors = {}
  <2>1. stop(FALSE)
    BY <1>1, Zenon DEF Next, vars, Start, EndSilently, leak_rs, leak_addColumn, leak_addColumnFails, leak_seal,
        leak_value, ProgramFails, freeVariables, ReturnResult, ReturnError, Drop, TakeColumn, gc, stop
  <2>2. Collect /\ \A b \in bids : ~(destroyBat[b] > 0)
    BY <1>1, <2>1, Zenon DEF stop, leakedBatInUse
  <2>3. SUFFICES ASSUME NEW v \in LiveVectors PROVE FALSE
    BY Zenon
  <2>4. v \in Vectors /\ Exists(v) /\ Exists(v)' /\ vec'[v] = vec[v]
    BY <1>1, <2>2, Survivors, Zenon
  <2> DEFINE b == vec[v].bid
  <2>5. b \in bids /\ b \in Bats
    BY <1>1, <2>4, Zenon DEF IInv, Noted, Typed, TypeOK
  <2>6. v \in Owners(vec', b) /\ Owners(vec', b) \in SUBSET Vectors
    BY <2>4, Zenon DEF Owners, Exists
  <2>7. Cardinality(Owners(vec', b)) \in Nat /\ Cardinality(Owners(vec', b)) # 0
    BY <2>6, Counted, Zenon
  <2>8. refs'[b] \in Nat /\ refs'[b] >= Cardinality(Owners(vec', b)) /\ refs'[b] = destroyBat[b]
    BY <1>1, <2>2, <2>5, FixesLeft, Zenon DEF Collect
  <2>9. ~(destroyBat[b] > 0)
    BY <2>2, <2>5, Zenon
  <2> HIDE DEF b
  <2> QED BY <2>7, <2>8, <2>9
<1>2. IInv /\ [Next]_vars => [up = "running" /\ up' = "stopped" => LiveVectors = {}]_vars
    BY <1>1, Zenon
<1> QED BY <1>2, Invariance, PTL DEF Spec, StopIsSafe
=============================================================================
