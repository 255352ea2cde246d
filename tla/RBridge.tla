------------------------------ MODULE RBridge ------------------------------
(* The bridge between the R interpreter and the database kernel in its        *)
(* process (interface/Rinterface.c, sql/backends/monet5/leak.c,               *)
(* Rpackage/leaked_data.c, R/monetinR.R).  The columns of a result are not    *)
(* copied: an R vector is laid over the memory of a BAT (a column of the      *)
(* kernel).  A fix on the BAT (BBP_refs) keeps that memory in place, and the  *)
(* finalizer of the vector gives the fix back when R collects it.             *)
EXTENDS Naturals, Sequences, FiniteSets, SequencesExt

CONSTANTS
    Base,       \* BATs that hold columns of tables: the catalog refers to them
    Temp,       \* slots of the BAT pool for intermediate results
    Lists,      \* R objects that can be the value of a result
    Vectors,    \* R vectors laid over BATs
    MaxCols,    \* columns of a result
    MaxFixes,   \* bound on the fixes of one BAT
    Caller,     \* what R has protected before it calls the bridge
    Nothing

Bats == Base \cup Temp

ASSUME BridgeAssumption ==
    /\ IsFiniteSet(Vectors) /\ MaxCols \in Nat
    /\ Base \cap Temp = {} /\ Lists \cap Vectors = {}
    /\ Caller \in Seq(ToSet(Caller))
    /\ Nothing \notin Lists \cup Seq(Vectors) \cup [bid : Bats, on : Bats]

VARIABLES
    up,         \* "running", "stopped" or "forced" (stopped with force=TRUE)
    pc,         \* progress of the query: "idle", "plan", "columns", "seal", "end", "return"
    ldtype,     \* leaked_data->type
    ldvalue,    \* leaked_data->value
    width,      \* LENGTH(leaked_data->value)
    pp,         \* the stack of objects protected from R's garbage collector
    refs,       \* BBP_refs: fixes of each BAT
    lrefs,      \* BBP_lrefs: logical references to each BAT
    plan,       \* intermediate BATs the variables of the MAL program refer to
    bids,       \* leaked_bids
    list,       \* the vectors in each list object, Nothing when it is free
    vec,        \* the BAT a vector gives back and the one it lies on
    held        \* R objects that variables of the R session refer to

ldvars == <<ldtype, ldvalue, width>>
bbpvars == <<refs, lrefs, plan>>
rvars == <<list, vec, held>>
vars == <<up, pc, ldvars, pp, bbpvars, bids, rvars>>

Init ==
    /\ up = "running" /\ pc = "idle"
    /\ ldtype = "LD_ERROR" /\ ldvalue = Nothing /\ width = 0
    /\ pp = Caller
    /\ refs = [b \in Bats |-> 0]
    /\ lrefs = [b \in Bats |-> IF b \in Base THEN 1 ELSE 0]
    /\ plan = {} /\ bids = {}
    /\ list = [l \in Lists |-> Nothing]
    /\ vec = [v \in Vectors |-> Nothing]
    /\ held = {}

FreeBats == {b \in Temp : refs[b] = 0 /\ lrefs[b] = 0}
FreeLists == {l \in Lists : list[l] = Nothing}
FreeVectors == {v \in Vectors : vec[v] = Nothing}

(* What R can reach: its variables, the protected objects, and what the lists *)
(* among them contain.                                                        *)
LiveLists == {l \in Lists : l \in held \/ l \in ToSet(pp)}
LiveVectors ==
    {v \in Vectors : v \in held
        \/ \E l \in LiveLists : list[l] # Nothing /\ v \in ToSet(list[l])}

-----------------------------------------------------------------------------
(* A query: the MAL program of a statement, with the output instructions      *)
(* replaced by those of the leak module.                                      *)

Start ==
    /\ up = "running" /\ pc = "idle"
    /\ pc' = "plan"
    /\ UNCHANGED <<up, ldvars, pp, bbpvars, bids, rvars>>

\* An update, a transaction statement, a parse error, or a failure before the
\* first leak instruction: leaked_data is left as it was.
EndSilently ==
    /\ pc = "plan"
    /\ pc' = "end"
    /\ UNCHANGED <<up, ldvars, pp, bbpvars, bids, rvars>>

leak_rs ==
    /\ pc = "plan"
    /\ \E ncol \in 1 .. MaxCols, l \in FreeLists :
        /\ ldtype' = "LD_PROCESSING" /\ ldvalue' = l /\ width' = ncol
        /\ list' = [list EXCEPT ![l] = <<>>]
        /\ pp' = pp \o <<l, Nothing, Nothing>>
    /\ pc' = "columns"
    /\ UNCHANGED <<up, bbpvars, bids, vec, held>>

\* The BAT of a column: one of a table, one the program already has, or a new one.
Columns == {b \in Base \cup plan \cup FreeBats : refs[b] < MaxFixes}
Computed(b) ==
    /\ plan' = plan \cup ({b} \ Base)
    /\ lrefs' = IF b \in Base \cup plan THEN lrefs ELSE [lrefs EXCEPT ![b] = 1]

\* Whether BAT b can be (or not be) a view, given the columns laid on it so far.
CanBeView(b, view) ==
    /\ view => b \in Temp
    /\ \A v \in Vectors \ FreeVectors : vec[v].bid = b => (vec[v].on # b) = view

\* Seeded defect: the chain of leaked BATs loses its tail.
BugAddVector(v, bid, on) ==
    /\ vec' = [vec EXCEPT ![v] = [bid |-> bid, on |-> on]]
    /\ list' = [list EXCEPT ![ldvalue] = Append(@, v)]
    /\ bids' = {bid}
    /\ pc' = IF Len(list[ldvalue]) + 1 = width THEN "seal" ELSE "columns"
\* Lays vector v over BAT `on`; its finalizer will release `bid`.
AddVector(v, bid, on) ==
    /\ vec' = [vec EXCEPT ![v] = [bid |-> bid, on |-> on]]
    /\ list' = [list EXCEPT ![ldvalue] = Append(@, v)]
    /\ bids' = bids \cup {bid}
    /\ pc' = IF Len(list[ldvalue]) + 1 = width THEN "seal" ELSE "columns"

\* A column that is no view is laid over its own BAT.
ColumnInPlace(b, v) ==
    /\ refs' = [refs EXCEPT ![b] = @ + 1]
    /\ AddVector(v, b, b)

\* Seeded defect: the vector is laid over the copy, but not fixed there.
BugColumnOfView(b, c, v) ==
    /\ refs' = [refs EXCEPT ![b] = @ + 1]
    /\ AddVector(v, b, c)
\* A view has no room for the header of a vector: a copy is made, which gets a
\* fix from BATcopy, one from BBPincref and one from BATdescriptor.
ColumnOfView(b, c, v) ==
    /\ refs' = [refs EXCEPT ![b] = @ + 1, ![c] = 3]
    /\ AddVector(v, b, c)

leak_addColumn ==
    /\ pc = "columns"
    /\ \E b \in Columns, v \in FreeVectors :
        /\ Computed(b)
        /\ \/ CanBeView(b, FALSE) /\ ColumnInPlace(b, v)
           \/ CanBeView(b, TRUE) /\ \E c \in FreeBats \ {b} : ColumnOfView(b, c, v)
    /\ UNCHANGED <<up, ldvars, pp, held>>

\* The type of the column is not supported: the fix is not given back.  A view
\* was copied before the type is looked at.
leak_addColumnFails ==
    /\ pc = "columns"
    /\ \E b \in Columns :
        /\ Computed(b)
        /\ \/ CanBeView(b, FALSE) /\ refs' = [refs EXCEPT ![b] = @ + 1]
           \/ CanBeView(b, TRUE) /\ \E c \in FreeBats \ {b} :
                refs' = [refs EXCEPT ![b] = @ + 1, ![c] = 3]
    /\ pc' = "end"
    /\ UNCHANGED <<up, ldvars, pp, bids, rvars>>

\* Another instruction fails between two columns, or the BAT is missing.
ProgramFails ==
    /\ pc \in {"columns", "seal"}
    /\ pc' = "end"
    /\ UNCHANGED <<up, ldvars, pp, bbpvars, bids, rvars>>

leak_seal ==
    /\ pc = "seal"
    /\ ldtype' = "LD_RESULT"
    /\ pc' = "end"
    /\ UNCHANGED <<up, ldvalue, width, pp, bbpvars, bids, rvars>>

\* A single value is copied into a new R object.  When it comes as a BAT, the
\* fix on it is not given back.
leak_value ==
    /\ pc = "plan"
    /\ \E l \in FreeLists, type \in {"LD_RESULT", "LD_ERROR"} :
        /\ ldtype' = type /\ ldvalue' = l /\ width' = 0
        /\ list' = [list EXCEPT ![l] = <<>>]
        /\ pp' = pp \o <<l, Nothing, Nothing>>
    /\ \/ UNCHANGED bbpvars
       \/ \E b \in Columns : Computed(b) /\ refs' = [refs EXCEPT ![b] = @ + 1]
    /\ pc' = "end"
    /\ UNCHANGED <<up, bids, vec, held>>

\* The statement is over: the references of the program's variables are dropped.
freeVariables ==
    /\ pc = "end"
    /\ lrefs' = [b \in Bats |-> IF b \in plan THEN lrefs[b] - 1 ELSE lrefs[b]]
    /\ plan' = {}
    /\ pc' = "return"
    /\ UNCHANGED <<up, ldvars, pp, refs, bids, rvars>>

\* R's stack without its topmost three objects.
UNPROTECT3 == SubSeq(pp, 1, Len(pp) - 3)

\* monetinR_executeQuery hands leaked_data->value to R, which may have freed it
\* when it was the value of an earlier statement (what R does with a freed object
\* is outside the model) ...
ReturnResult ==
    /\ pc = "return" /\ ldtype = "LD_RESULT"
    /\ held' = held \cup {ldvalue}
    /\ pp' = UNPROTECT3
    /\ pc' = "idle"
    /\ UNCHANGED <<up, ldvars, bbpvars, bids, list, vec>>

\* ... or raises an error, and R cuts its stack back to what the caller had.
ReturnError ==
    /\ pc = "return" /\ ldtype \in {"LD_PROCESSING", "LD_ERROR"}
    /\ pp' = Caller
    /\ pc' = "idle"
    /\ UNCHANGED <<up, ldvars, bbpvars, bids, rvars>>

-----------------------------------------------------------------------------
(* The R session: between two calls it drops results or takes columns out of  *)
(* them; its garbage collector runs whenever R allocates.                     *)

Drop ==
    /\ up = "running" /\ pc = "idle"
    /\ \E x \in held : held' = held \ {x}
    /\ UNCHANGED <<up, pc, ldvars, pp, bbpvars, bids, list, vec>>

TakeColumn ==
    /\ up = "running" /\ pc = "idle"
    /\ \E l \in held \cap Lists :
        list[l] # Nothing /\ \E v \in ToSet(list[l]) : held' = held \cup {v}
    /\ UNCHANGED <<up, pc, ldvars, pp, bbpvars, bids, list, vec>>

Dead == {v \in Vectors : vec[v] # Nothing} \ LiveVectors

\* The finalizers of the dead vectors release the BATs they were given.
destroyBat == [b \in Bats |-> refs[b] - Cardinality({v \in Dead : vec[v].bid = b})]

Collect ==
    /\ refs' = destroyBat
    /\ vec' = [v \in Vectors |-> IF v \in LiveVectors THEN vec[v] ELSE Nothing]
    /\ list' = [l \in Lists |-> IF l \in LiveLists THEN list[l] ELSE Nothing]

gc ==
    /\ up = "running"
    /\ Collect
    /\ UNCHANGED <<up, pc, ldvars, pp, lrefs, plan, bids, held>>

leakedBatInUse(r) == \E b \in bids : r[b] > 0

\* stop(): a collection, the check unless force is given, and the end of the
\* process when the finalizer of the released kernel handle calls GDKexit.
stop(force) ==
    /\ up = "running" /\ pc = "idle"
    /\ Collect
    /\ IF ~force /\ leakedBatInUse(destroyBat)
       THEN UNCHANGED <<up, bids>>
       ELSE up' = (IF force THEN "forced" ELSE "stopped") /\ bids' = {}
    /\ UNCHANGED <<pc, ldvars, pp, lrefs, plan, held>>

Next ==
    \/ Start \/ EndSilently
    \/ leak_rs \/ leak_addColumn \/ leak_addColumnFails \/ leak_seal \/ leak_value
    \/ ProgramFails \/ freeVariables \/ ReturnResult \/ ReturnError
    \/ Drop \/ TakeColumn \/ gc
    \/ \E force \in BOOLEAN : stop(force)

Spec == Init /\ [][Next]_vars

-----------------------------------------------------------------------------
(* Properties *)

\* The variables have their types; in particular no BAT is released more often
\* than it was fixed (the assertion of BBPreleaseref).
TypeOK ==
    /\ up \in {"running", "stopped", "forced"}
    /\ pc \in {"idle", "plan", "columns", "seal", "end", "return"}
    /\ ldtype \in {"LD_PROCESSING", "LD_RESULT", "LD_ERROR"}
    /\ ldvalue \in Lists \cup {Nothing} /\ width \in 0 .. MaxCols
    /\ refs \in [Bats -> Nat] /\ lrefs \in [Bats -> 0 .. 1]
    /\ plan \subseteq Temp /\ bids \subseteq Bats
    /\ held \subseteq Lists \cup Vectors

\* "I keep it, my precious": whatever R drops, keeps and collects, and whatever
\* fails in a query, each vector of leak_addColumn that exists still owns a fix
\* on the BAT its finalizer will release, and one R can reach lies on a BAT that
\* is fixed in memory.
VectorBacked ==
    up = "running" =>
        /\ \A b \in Bats :
            refs[b] >= Cardinality({v \in Vectors : vec[v] # Nothing /\ vec[v].bid = b})
        /\ \A v \in LiveVectors : vec[v] # Nothing /\ refs[vec[v].on] > 0

\* stop() without force ends the kernel only when R can reach no vector that
\* lies on its memory: monetinR_batinUse misses none.
StopIsSafe ==
    [][up = "running" /\ up' = "stopped" => LiveVectors = {}]_vars

\* Between two calls of monetinR_executeQuery R's protection stack is what it
\* was: no object of the caller lost its protection, none of the bridge kept it.
ProtectBalanced == pc = "idle" => pp = Caller
=============================================================================
