------------------------------ MODULE Admission ------------------------------
(***************************************************************************)
(* Memory admission of dataflow instructions: MALadmission                 *)
(* (monetdb5/mal/mal_resource.c) as DFLOWworker calls it before and after  *)
(* it executes an instruction, and the reset of its counters by            *)
(* DFLOWinitBlk (monetdb5/mal/mal_dataflow.c).                             *)
(*                                                                         *)
(* MALadmission works under mal_contextLock.  DFLOWinitBlk resets the      *)
(* counters without it, so a call is two steps: one reads the counters,    *)
(* one stores what was computed from them, and a reset that falls between  *)
(* the two is overwritten.                                                 *)
(***************************************************************************)
EXTENDS Integers, FiniteSets

CONSTANTS
    Workers,      \* the DFLOWworker threads
    Claims,       \* the memory claims an instruction can have
    Threshold,    \* MEMORY_THRESHOLD * monet_memory
    MayCall       \* whether instructions may call functions with a block

ASSUME ClaimsAssumption == Claims \subseteq Nat
ASSUME ThresholdAssumption == Threshold \in Nat
ASSUME WorkersAssumption == IsFiniteSet(Workers)

VARIABLES
    memorypool,   \* memory left to hand out
    memoryclaims, \* number of claims handed out
    phase,        \* phase[w]: where worker w is in its loop
    arg, hot,     \* arg[w], hot[w]: fe->argclaim and fe->hotclaim of its event
    lock,         \* the worker that holds mal_contextLock, if any
    reg           \* the counters as that worker read them

vars == <<memorypool, memoryclaims, phase, arg, hot, lock, reg>>

\* The workers whose claim was granted and not given back yet.
Holders == {w \in Workers : phase[w] \in {"run", "call", "release"} /\ arg[w] > 0}

\* The holders that do not wait for a dataflow block of their own.
ActiveHolders == {w \in Holders : phase[w] # "call"}

NoRead == [pool |-> 0, claims |-> 0]

Init ==
    /\ memorypool = 0 /\ memoryclaims = 0
    /\ phase = [w \in Workers |-> "idle"]
    /\ arg = [w \in Workers |-> 0] /\ hot = [w \in Workers |-> 0]
    /\ lock = {}
    /\ reg = NoRead

\* The worker takes an event from the queue.
Take(w) ==
    /\ phase[w] = "idle"
    /\ \E a, h \in Claims : arg' = [arg EXCEPT ![w] = a]
                         /\ hot' = [hot EXCEPT ![w] = h]
    /\ phase' = [phase EXCEPT ![w] = "request"]
    /\ UNCHANGED <<memorypool, memoryclaims, lock, reg>>

\* "optimistically set memory": an event without a claim is always admitted.
AdmitFree(w) ==
    /\ phase[w] = "request" /\ arg[w] = 0
    /\ phase' = [phase EXCEPT ![w] = "run"]
    /\ UNCHANGED <<memorypool, memoryclaims, arg, hot, lock, reg>>

\* First half of MALadmission: normalise and read the counters.
Read(w) ==
    LET claims == IF memoryclaims < 0 THEN 0 ELSE memoryclaims
        pool == IF memorypool <= 0 /\ claims = 0 THEN Threshold ELSE memorypool
    IN  /\ phase[w] \in {"request", "release"} /\ arg[w] > 0
        /\ lock = {}
        /\ lock' = {w}
        /\ memoryclaims' = claims /\ memorypool' = pool
        /\ reg' = [pool |-> pool, claims |-> claims]
        /\ UNCHANGED <<phase, arg, hot>>

Admissible(w) == reg.claims = 0 \/ reg.pool > arg[w] + hot[w]

Admit(w) ==
    /\ lock = {w} /\ phase[w] = "request"
    /\ Admissible(w)
    /\ memorypool' = reg.pool - (arg[w] + hot[w])
    /\ memoryclaims' = reg.claims + 1
    /\ phase' = [phase EXCEPT ![w] = "run"]
    /\ lock' = {} /\ reg' = NoRead
    /\ UNCHANGED <<arg, hot>>

\* The event goes back to the queue, "don't assume priority anymore".
Refuse(w) ==
    /\ lock = {w} /\ phase[w] = "request"
    /\ ~Admissible(w)
    /\ hot' = [hot EXCEPT ![w] = 0]
    /\ lock' = {} /\ reg' = NoRead
    /\ UNCHANGED <<memorypool, memoryclaims, phase, arg>>

Finish(w) ==
    /\ phase[w] = "run"
    /\ phase' = [phase EXCEPT ![w] = IF arg[w] = 0 THEN "idle" ELSE "release"]
    /\ UNCHANGED <<memorypool, memoryclaims, arg, hot, lock, reg>>

\* Seeded defect: memory is given back, the count is not.
BugReleaseCounted(w) ==
    /\ lock = {w} /\ phase[w] = "release"
    /\ memorypool' = reg.pool + arg[w] + hot[w]
    /\ memoryclaims' = reg.claims
    /\ phase' = [phase EXCEPT ![w] = "idle"]
    /\ lock' = {} /\ reg' = NoRead
    /\ UNCHANGED <<arg, hot>>

\* "release memory claimed before"
Release(w) ==
    /\ lock = {w} /\ phase[w] = "release"
    /\ memorypool' = reg.pool + arg[w] + hot[w]
    /\ memoryclaims' = reg.claims - 1
    /\ phase' = [phase EXCEPT ![w] = "idle"]
    /\ lock' = {} /\ reg' = NoRead
    /\ UNCHANGED <<arg, hot>>

\* DFLOWinitBlk ends with memorypool = memoryclaims = 0, for a client ...
DFLOWinitBlk ==
    /\ memorypool' = 0 /\ memoryclaims' = 0
    /\ UNCHANGED <<phase, arg, hot, lock, reg>>

\* ... or for the block of a function that an instruction calls; the worker
\* keeps its claim while other workers execute that block.
Call(w) ==
    /\ MayCall /\ phase[w] = "run"
    /\ memorypool' = 0 /\ memoryclaims' = 0
    /\ phase' = [phase EXCEPT ![w] = "call"]
    /\ UNCHANGED <<arg, hot, lock, reg>>

Return(w) ==
    /\ phase[w] = "call"
    /\ phase' = [phase EXCEPT ![w] = "run"]
    /\ UNCHANGED <<memorypool, memoryclaims, arg, hot, lock, reg>>

Next ==
    \/ DFLOWinitBlk
    \/ \E w \in Workers :
        \/ Take(w) \/ AdmitFree(w) \/ Read(w) \/ Admit(w) \/ Refuse(w)
        \/ Finish(w) \/ Release(w) \/ Call(w) \/ Return(w)

Spec == Init /\ [][Next]_vars

-----------------------------------------------------------------------------

\* The variables have their types: what a worker asks for is never negative.
TypeOK ==
    /\ memorypool \in Int /\ memoryclaims \in Int
    /\ phase \in [Workers -> {"idle", "request", "run", "call", "release"}]
    /\ arg \in [Workers -> Nat] /\ hot \in [Workers -> Nat]
    /\ lock \subseteq Workers
    /\ reg \in [pool : Int, claims : Int]

\* Whoever is inside MALadmission has a claim to make or to give back, and the
\* count it has read does not exceed the claims held.
LockedRead ==
    \A w \in lock :
        /\ lock = {w}
        /\ phase[w] \in {"request", "release"} /\ arg[w] > 0
        /\ reg.claims <= Cardinality(Holders)

\* MALadmission never counts more claims than workers hold, although resets by
\* DFLOWinitBlk race with its updates: a count that keeps an instruction
\* waiting is one that some holder will still take back.
ClaimsBound == memoryclaims <= Cardinality(Holders)

\* "threads will ultimately release resources.  Therefore, we wait for it":
\* while the counter makes requests wait, some worker that holds a claim is
\* executing, and not itself waiting for requests that wait for the counter.
WaitIsTemporary == memoryclaims > 0 => ActiveHolders # {}
=============================================================================
