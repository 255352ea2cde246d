-------------------------- MODULE DataflowInvariant --------------------------
(***************************************************************************)
(* The inductive invariant of the dataflow scheduler, for any blocks,      *)
(* clients and workers.  Three ideas carry it:                             *)
(*   - an event is in one place, and once it is anywhere its count of      *)
(*     blocks is zero, so that neither the scheduler nor a worker that     *)
(*     looks ahead, which both need a positive count, takes it again;      *)
(*   - the count of a pending instruction is the number of its wakeups     *)
(*     from instructions that the scheduler has not handled yet;           *)
(*   - an instruction that is scheduled has no open predecessor, and the   *)
(*     one that ends the life of a variable is a successor of all uses.    *)
(***************************************************************************)
EXTENDS Dataflow, TLAPS

IsEvent(p, x) == x[1] \in Threads /\ x[2] \in Pcs(p[x[1]]) /\ x = <<x[1], x[2]>>

\* Event <<t, n>> is queued, with a worker, or claimed by one.
Out(t, n) ==
    \/ <<t, n>> \in Range(todo)
    \/ \E w \in Workers : fe[w] = <<t, n>> \/ fnxt[w] = <<t, n>>

\* It is somewhere: out, handed back or counted.
In(t, n) == Out(t, n) \/ n \in Range(done[t]) \/ n \in handled[t]

\* The scheduler and the workers have not touched the instruction yet.
Idle(t, n) == status[t][n] = "pending" /\ ~In(t, n)

\* Where a worker is that has not executed its event to the end.
Early == {"check", "execute", "call", "failed"}

\* The instruction has not been executed to its end.
Open(t, n) ==
    \/ Idle(t, n)
    \/ <<t, n>> \in Range(todo)
    \/ \E w \in Workers : \/ fnxt[w] = <<t, n>>
                          \/ fe[w] = <<t, n>> /\ wpc[w] \in Early

\* The wakeups instruction n still waits for.
Waits(t, n) == {e \in edges[t] : e.dst = n /\ e.src \notin handled[t]}

Blocks == Programs \cup Callees \cup {NoBlock}

-----------------------------------------------------------------------------
(* What holds of a flow *)

FlowTyped(t) ==
    /\ edges[t] = DFLOWinitBlk(prog[t])
    /\ status[t] \in [Pcs(prog[t]) -> {"pending", "running", "wrapup"}]
    /\ blocks[t] \in [Pcs(prog[t]) -> Nat]
    /\ done[t] \in Seq(Pcs(prog[t]))
    /\ handled[t] \subseteq Pcs(prog[t])
    /\ tasks[t] = Cardinality(handled[t])
    /\ stk[t] \subseteq BlockVars(prog[t])

\* An event that was handed back is nowhere else.
FlowOnce(t) ==
    /\ IsInjective(done[t])
    /\ \A n \in Pcs(prog[t]) :
        /\ ~(n \in Range(done[t]) /\ n \in handled[t])
        /\ Out(t, n) => n \notin Range(done[t]) /\ n \notin handled[t]

\* The count of a pending instruction is the number of its wakeups that were
\* not handled; an event that is somewhere counts zero, and is marked as such
\* except between the two halves of the scheduler's first loop.
Counts(t) ==
    \A n \in Pcs(prog[t]) :
        /\ status[t][n] = "pending" => blocks[t][n] = Cardinality(Waits(t, n))
        /\ In(t, n) => blocks[t][n] = 0
        /\ In(t, n) /\ status[t][n] = "pending" =>
            sched[t] = "mark" /\ n = cursor[t]

\* The first loop of DFLOWscheduler: nothing is counted, nothing beyond the
\* cursor is touched.
FirstLoop(t) ==
    /\ sched[t] \in {"enqueue", "mark"} =>
        /\ handled[t] = {}
        /\ \A n \in Pcs(prog[t]) :
            n > cursor[t] \/ (sched[t] = "enqueue" /\ n = cursor[t]) => Idle(t, n)
    /\ sched[t] = "mark" =>
        /\ cursor[t] \in Pcs(prog[t])
        /\ \A e \in edges[t] : e.dst # cursor[t]
        /\ ~exiting => In(t, cursor[t])

\* Nothing is scheduled before all it waits for has been executed.
Ordered(t) == \A e \in edges[t] : Open(t, e.src) => Idle(t, e.dst)

\* In a flow without errors a variable has its value from its assignment until
\* the instruction that ends its life is executed.
Values(t) ==
    ~exiting /\ ~error[t] =>
        \A v \in BlockVars(prog[t]) :
            /\ \/ v \in InputVars(prog[t])
               \/ \E m \in Pcs(prog[t]) : ~Open(t, m) /\ v \in prog[t].stmt[m].ret
               => \/ v \in stk[t]
                  \/ \E n \in Pcs(prog[t]) : EndOfLife(prog[t], v) = n /\ ~Open(t, n)
            /\ \A n \in Pcs(prog[t]) :
                EndOfLife(prog[t], v) = n /\ ~Open(t, n) => v \notin stk[t]

\* A flow is freed after its last instruction, unless the server exits.
Ends(t) ==
    ~exiting =>
        /\ sched[t] = "idle" => prog[t] = NoBlock
        /\ sched[t] = "return" => tasks[t] = Len(prog[t].stmt)

FlowInv(t) ==
    /\ FlowTyped(t) /\ FlowOnce(t) /\ Counts(t) /\ FirstLoop(t)
    /\ Ordered(t) /\ Values(t) /\ Ends(t)

-----------------------------------------------------------------------------
(* What holds of the workers *)

Typed ==
    /\ prog \in [Threads -> Blocks]
    /\ sched \in [Threads -> {"idle", "enqueue", "mark", "wait", "return"}]
    /\ error \in [Threads -> BOOLEAN]
    /\ cursor \in [Threads -> Nat]
    /\ exiting \in BOOLEAN
    /\ DOMAIN edges = Threads /\ DOMAIN status = Threads /\ DOMAIN blocks = Threads
    /\ DOMAIN done = Threads /\ DOMAIN tasks = Threads /\ DOMAIN handled = Threads
    /\ DOMAIN stk = Threads
    /\ todo \in Seq(Threads \X Nat)
    /\ wpc \in [Workers -> {"dequeue", "check", "execute", "call", "failed",
                            "lookahead", "done", "exited"}]
    /\ DOMAIN fe = Workers /\ DOMAIN fnxt = Workers

\* An event is queued once, or held once, or claimed once.
Once ==
    /\ IsInjective(todo)
    /\ \A w \in Workers :
        /\ fe[w] # NoEvent => fe[w] \notin Range(todo)
        /\ fnxt[w] # NoEvent => fnxt[w] \notin Range(todo)
        /\ \A u \in Workers :
            /\ fe[w] # NoEvent /\ fe[w] = fe[u] => w = u
            /\ fnxt[w] # NoEvent /\ fnxt[w] = fnxt[u] => w = u
            /\ fe[w] # NoEvent => fe[w] # fnxt[u]

\* All events are instructions of flows that exist.
Known ==
    /\ \A x \in Range(todo) : IsEvent(prog, x)
    /\ \A w \in Workers :
        /\ fe[w] # NoEvent => IsEvent(prog, fe[w])
        /\ fnxt[w] # NoEvent => IsEvent(prog, fnxt[w])

\* What a worker holds fits to where it is, and a worker enters a block only
\* while it executes an instruction of another flow.
Hands ==
    \A w \in Workers :
        /\ fe[w] = NoEvent <=> wpc[w] \in {"dequeue", "exited"}
        /\ fnxt[w] # NoEvent => wpc[w] \in {"dequeue", "done"}
        /\ sched[w] # "idle" <=> wpc[w] = "call"
        /\ wpc[w] = "execute" => prog[w] = NoBlock
        /\ wpc[w] = "call" => fe[w][1] # w

IInv ==
    /\ Typed /\ Once /\ Known /\ Hands /\ ArgsLive
    /\ exiting => MayExit
    /\ \A t \in Threads : FlowInv(t)

-----------------------------------------------------------------------------
(* What the proofs use of finite sets and of numbers; it is proved in the  *)
(* end, where the library is at hand.                                      *)

EmptyFact ==
    /\ IsFiniteSet({}) /\ Cardinality({}) = 0
    /\ \A S : IsFiniteSet(S) => (Cardinality(S) = 0 <=> S = {})
CardinalityFact == \A S : IsFiniteSet(S) => Cardinality(S) \in Nat
SingletonFact == \A S : IsFiniteSet(S) => (Cardinality(S) = 1 <=> \E x : S = {x})
SubsetFact ==
    \A S, T : IsFiniteSet(S) /\ T \subseteq S =>
        /\ IsFiniteSet(T) /\ Cardinality(T) <= Cardinality(S)
        /\ Cardinality(S) = Cardinality(T) => S = T
AddFact ==
    \A S, x : IsFiniteSet(S) =>
        Cardinality(S \cup {x}) = IF x \in S THEN Cardinality(S) ELSE Cardinality(S) + 1
DifferenceFact ==
    \A S, T : IsFiniteSet(S) =>
        /\ IsFiniteSet(S \ T)
        /\ Cardinality(S \ T) = Cardinality(S) - Cardinality(S \cap T)
SurjectionFact ==
    \A S, T : \A f \in Surjection(S, T) : IsFiniteSet(S) =>
        /\ IsFiniteSet(T) /\ Cardinality(T) <= Cardinality(S)
        /\ Cardinality(T) = Cardinality(S) <=> f \in Injection(S, T)
IntervalFact ==
    \A n \in Nat : IsFiniteSet(1 .. n) /\ Cardinality(1 .. n) = n
LeastFact == \A T \in SUBSET Nat : T # {} => \E i \in T : \A j \in T : i <= j
EdgesFact == \A p : IsBlock(p) => IsFiniteSet(DFLOWinitBlk(p))

Ground ==
    /\ EmptyFact /\ CardinalityFact /\ SingletonFact /\ SubsetFact /\ AddFact
    /\ DifferenceFact /\ SurjectionFact /\ IntervalFact /\ LeastFact /\ EdgesFact

\* A step of the action A keeps the invariant.
Preserves(A) == Ground /\ IInv /\ A => IInv'

\* From the invariant such a step leads to P.
Ensures(A, P) == Ground /\ IInv /\ A => P

-----------------------------------------------------------------------------
(* Queues *)

\* q_enqueue puts one event at the end.
LEMMA AppendFacts ==
    ASSUME NEW S, NEW s \in Seq(S), NEW x \in S
    PROVE  /\ Append(s, x) \in Seq(S)
           /\ \A y : y \in Range(Append(s, x)) <=> y \in Range(s) \/ y = x
           /\ IsInjective(s) /\ x \notin Range(s) => IsInjective(Append(s, x))
<1> DEFINE a == Append(s, x)
<1>1. /\ a \in Seq(S) /\ Len(a) = Len(s) + 1 /\ Len(s) \in Nat
      /\ DOMAIN s = 1 .. Len(s) /\ DOMAIN a = 1 .. Len(s) + 1
      /\ a[Len(s) + 1] = x /\ \A k \in 1 .. Len(s) : a[k] = s[k]
  OBVIOUS
<1> HIDE DEF a
<1>2. ASSUME NEW y PROVE y \in Range(a) <=> y \in Range(s) \/ y = x
  BY <1>1 DEF Range
<1>3. IsInjective(s) /\ x \notin Range(s) => IsInjective(a)
  BY <1>1 DEF Range, IsInjective
<1> QED  BY <1>1, <1>2, <1>3, Zenon DEF a

\* q_dequeue takes the last event.
LEMMA FrontFacts ==
    ASSUME NEW S, NEW s \in Seq(S), s # <<>>
    PROVE  /\ Front(s) \in Seq(S)
           /\ Last(s) \in S
           /\ \A y : y \in Range(s) <=> y \in Range(Front(s)) \/ y = Last(s)
           /\ IsInjective(s) => IsInjective(Front(s)) /\ Last(s) \notin Range(Front(s))
<1> DEFINE f == Front(s)
<1>0. Len(s) \in Nat \ {0} /\ DOMAIN s = 1 .. Len(s) /\ Last(s) = s[Len(s)]
  BY DEF Last
<1>a. /\ f \in Seq(S) /\ Len(f) = Len(s) - 1
      /\ \A k \in 1 .. Len(s) - 1 : f[k] = s[k]
  BY <1>0 DEF Front
<1>1. /\ f \in Seq(S) /\ Len(f) = Len(s) - 1 /\ Len(s) \in Nat \ {0}
      /\ DOMAIN s = 1 .. Len(s) /\ DOMAIN f = 1 .. Len(s) - 1
      /\ Last(s) = s[Len(s)] /\ \A k \in 1 .. Len(s) - 1 : f[k] = s[k]
  BY <1>0, <1>a
<1> HIDE DEF f
<1>2. ASSUME NEW y PROVE y \in Range(s) <=> y \in Range(f) \/ y = Last(s)
  BY <1>1 DEF Range
<1>3. IsInjective(s) => IsInjective(f)
  BY <1>1 DEF IsInjective
<1>4. IsInjective(s) => Last(s) \notin Range(f)
  BY <1>1 DEF Range, IsInjective
<1>5. Last(s) \in S
  BY <1>1
<1> QED  BY <1>1, <1>2, <1>3, <1>4, <1>5, Zenon DEF f

\* q_requeue puts one event at the other end, the scheduler several at the end.
LEMMA ConcatFacts ==
    ASSUME NEW S, NEW s \in Seq(S), NEW r \in Seq(S)
    PROVE  /\ s \o r \in Seq(S)
           /\ \A y : y \in Range(s \o r) <=> y \in Range(s) \/ y \in Range(r)
           /\ IsInjective(s) /\ IsInjective(r) /\ Range(s) \cap Range(r) = {}
                => IsInjective(s \o r)
<1> DEFINE c == s \o r
<1>1. /\ c \in Seq(S) /\ Len(c) = Len(s) + Len(r) /\ Len(s) \in Nat /\ Len(r) \in Nat
      /\ DOMAIN s = 1 .. Len(s) /\ DOMAIN r = 1 .. Len(r)
      /\ DOMAIN c = 1 .. Len(s) + Len(r)
  OBVIOUS
<1>2. /\ \A k \in 1 .. Len(s) : c[k] = s[k]
      /\ \A k \in 1 .. Len(r) : c[k + Len(s)] = r[k]
      /\ \A k \in Len(s) + 1 .. Len(s) + Len(r) : c[k] = r[k - Len(s)]
  OBVIOUS
<1> HIDE DEF c
<1>3. ASSUME NEW y PROVE y \in Range(c) <=> y \in Range(s) \/ y \in Range(r)
  <2>1. ASSUME y \in Range(c) PROVE y \in Range(s) \/ y \in Range(r)
    <3>1. PICK k \in DOMAIN c : y = c[k]
      BY <2>1, Zenon DEF Range
    <3>2. CASE k <= Len(s)
      BY <1>1, <1>2, <3>1, <3>2 DEF Range
    <3>3. CASE k > Len(s)
      <4>1. k - Len(s) \in DOMAIN r /\ r[k - Len(s)] = y
        BY <1>1, <1>2, <3>1, <3>3
      <4> QED  BY <4>1, Zenon DEF Range
    <3> QED  BY <1>1, <3>2, <3>3
  <2>2. y \in Range(s) => y \in Range(c)
    BY <1>1, <1>2 DEF Range
  <2>3. ASSUME y \in Range(r) PROVE y \in Range(c)
    <3>1. PICK k \in 1 .. Len(r) : y = r[k]
      BY <1>1, <2>3, Zenon DEF Range
    <3>2. k + Len(s) \in DOMAIN c /\ c[k + Len(s)] = y
      BY <1>1, <1>2, <3>1
    <3> QED  BY <3>2, Zenon DEF Range
  <2> QED  BY <2>1, <2>2, <2>3, Zenon
<1>4. ASSUME IsInjective(s), IsInjective(r), Range(s) \cap Range(r) = {}
      PROVE  IsInjective(c)
  <2> SUFFICES ASSUME NEW j \in DOMAIN c, NEW k \in DOMAIN c, c[j] = c[k]
               PROVE  j = k
    BY Zenon DEF IsInjective
  <2>1. CASE j <= Len(s) /\ k <= Len(s)
    BY <1>1, <1>2, <1>4, <2>1 DEF IsInjective
  <2>2. CASE j > Len(s) /\ k > Len(s)
    <3>1. j - Len(s) \in DOMAIN r /\ k - Len(s) \in DOMAIN r
      BY <1>1, <2>2
    <3>2. r[j - Len(s)] = r[k - Len(s)]
      BY <1>1, <1>2, <2>2
    <3> QED  BY <1>1, <1>4, <3>1, <3>2 DEF IsInjective
  <2>3. CASE j <= Len(s) /\ k > Len(s)
    <3>1. j \in DOMAIN s /\ k - Len(s) \in DOMAIN r /\ s[j] = r[k - Len(s)]
      BY <1>1, <1>2, <2>3
    <3> QED  BY <1>4, <3>1, Zenon DEF Range
  <2>4. CASE k <= Len(s) /\ j > Len(s)
    <3>1. k \in DOMAIN s /\ j - Len(s) \in DOMAIN r /\ s[k] = r[j - Len(s)]
      BY <1>1, <1>2, <2>4
    <3> QED  BY <1>4, <3>1, Zenon DEF Range
  <2> QED  BY <1>1, <2>1, <2>2, <2>3, <2>4
<1> QED  BY <1>1, <1>3, <1>4, Zenon DEF c

\* The order in which the scheduler queues what it woke has all of it, once.
LEMMA OrderFacts ==
    ASSUME Ground, NEW S, IsFiniteSet(S), NEW s \in Orders(S)
    PROVE  s \in Seq(S) /\ IsInjective(s) /\ Range(s) = S
<1> DEFINE D == 1 .. Cardinality(S)
<1>1. Cardinality(S) \in Nat
  BY Zenon DEF Ground, CardinalityFact
<1>2. s \in Injection(D, S) /\ s \in Surjection(D, S)
  BY Zenon DEF Orders, Bijection
<1>3. s \in [D -> S] /\ IsInjective(s)
  BY <1>2, Zenon DEF Injection
<1>4. s \in Seq(S)
  BY <1>1, <1>3
<1>5. Range(s) \subseteq S
  BY <1>3, Zenon DEF Range
<1>6. S \subseteq Range(s)
  BY <1>2, <1>3, Zenon DEF Surjection, Range
<1> QED  BY <1>3, <1>4, <1>5, <1>6, Zenon

-----------------------------------------------------------------------------
(* Graphs *)

\* LastPc is the greatest of a set of pcs, and 0 if there is none.
LEMMA LastPcFacts ==
    ASSUME Ground, NEW k \in Nat, NEW S \in SUBSET (1 .. k)
    PROVE  IF S = {} THEN LastPc(S) = 0
           ELSE LastPc(S) \in S /\ \A m \in S : m <= LastPc(S)
<1> SUFFICES ASSUME S # {} PROVE LastPc(S) \in S /\ \A m \in S : m <= LastPc(S)
  BY Zenon DEF LastPc
<1> DEFINE T == {k - m : m \in S}
<1>1. T \in SUBSET Nat
  <2>1. \A m \in S : m \in Nat /\ m <= k
    OBVIOUS
  <2> QED  BY <2>1
<1>a. T # {}
  BY Zenon
<1>2. PICK i \in T : \A j \in T : i <= j
  BY <1>1, <1>a, Zenon DEF Ground, LeastFact
<1>3. PICK n \in S : i = k - n
  BY <1>2, Zenon
<1>4. \A m \in S : m <= n
  <2>1. TAKE m \in S
  <2>2. k - m \in T /\ m \in Nat /\ n \in Nat
    OBVIOUS
  <2>3. k - n <= k - m
    BY <1>2, <1>3, <2>2, Zenon
  <2> QED  BY <2>2, <2>3
<1> QED  BY <1>4, Zenon DEF LastPc

\* The empty block, of which DFLOWinitBlk makes no edges.
LEMMA NoBlockIsBlock == IsBlock(NoBlock) /\ Pcs(NoBlock) = {} /\ DFLOWinitBlk(NoBlock) = {}
<1>1. Pcs(NoBlock) = {} /\ NoBlock.stmt = <<>>
  BY DEF NoBlock, Pcs
<1>2. IsBlock(NoBlock)
  BY <1>1 DEF IsBlock
<1>3. DFLOWinitBlk(NoBlock) = {}
  BY <1>1, Zenon DEF DFLOWinitBlk, UseEdges, EolEdges
<1> QED  BY <1>1, <1>2, <1>3, Zenon

\* Everything runMALdataflow can be given is a block.
LEMMA AllBlocksAre == \A p \in Blocks : IsBlock(p)
BY BlocksAssumption, NoBlockIsBlock, Zenon DEF Blocks

\* The pcs of a block are as many as its statements.
LEMMA PcsFacts ==
    ASSUME Ground, NEW p, IsBlock(p)
    PROVE  /\ Len(p.stmt) \in Nat
           /\ Pcs(p) = 1 .. Len(p.stmt)
           /\ IsFiniteSet(Pcs(p)) /\ Cardinality(Pcs(p)) = Len(p.stmt)
<1>1. Len(p.stmt) \in Nat /\ Pcs(p) = 1 .. Len(p.stmt)
  BY DEF IsBlock, Pcs
<1> QED  BY <1>1, Zenon DEF Ground, IntervalFact

\* DFLOWinitBlk takes the last assignment before a use.
LEMMA AssignedFacts ==
    ASSUME Ground, NEW p, IsBlock(p), NEW v, NEW n \in Pcs(p), Assigned(p, v, n) # 0
    PROVE  /\ Assigned(p, v, n) \in Pcs(p) /\ Assigned(p, v, n) < n
           /\ v \in p.stmt[Assigned(p, v, n)].ret
<1> DEFINE S == {m \in Pcs(p) : m < n /\ v \in p.stmt[m].ret}
<1>1. S \in SUBSET (1 .. Len(p.stmt)) /\ Len(p.stmt) \in Nat
  BY PcsFacts, Zenon
<1>2. LastPc(S) \in S
  <2> HIDE DEF S
  <2>1. LastPc(S) # 0
    BY Zenon DEF Assigned, S
  <2> QED  BY <1>1, <2>1, LastPcFacts, Zenon
<1> QED  BY <1>2, Zenon DEF Assigned

\* The end of life of a variable is the last statement that mentions it.
LEMMA EndOfLifeFacts ==
    ASSUME Ground, NEW p, IsBlock(p), NEW v
    PROVE  LET e == EndOfLife(p, v)
           IN  e = 0 \/ /\ e \in Pcs(p) /\ v \in p.stmt[e].ret \cup Args(p, e)
                        /\ \A m \in Pcs(p) : v \in p.stmt[m].ret \cup Args(p, m) => m <= e
<1> DEFINE S == {n \in Pcs(p) : v \in p.stmt[n].ret \cup Args(p, n)}
<1>1. S \in SUBSET (1 .. Len(p.stmt)) /\ Len(p.stmt) \in Nat
  BY PcsFacts, Zenon
<1>2. LastPc(S) = 0 \/ (LastPc(S) \in S /\ \A m \in S : m <= LastPc(S))
  <2> HIDE DEF S
  <2> QED  BY <1>1, LastPcFacts, Zenon
<1>3. EndOfLife(p, v) = 0 \/ EndOfLife(p, v) = LastPc(S)
  BY Zenon DEF EndOfLife
<1> QED  BY <1>2, <1>3, Zenon

\* An argument assigned in the block makes its use wait for the assignment.
LEMMA UseEdge ==
    ASSUME NEW p, NEW n \in Pcs(p), NEW v \in Args(p, n), Assigned(p, v, n) # 0
    PROVE  \E e \in DFLOWinitBlk(p) : e.src = Assigned(p, v, n) /\ e.dst = n
<1>1. PICK j \in DOMAIN p.stmt[n].arg : v = p.stmt[n].arg[j]
  BY Zenon DEF Args
<1> DEFINE e == [src |-> Assigned(p, p.stmt[n].arg[j], n), dst |-> n,
                 arg |-> j, kind |-> "use"]
<1>2. e \in UseEdges(p)
  BY <1>1 DEF UseEdges
<1>3. e.src = Assigned(p, v, n) /\ e.dst = n
  BY <1>1, Zenon
<1> QED  BY <1>2, <1>3, Zenon DEF DFLOWinitBlk

\* The end of the life of a variable waits for the other uses of it ...
LEMMA EolEdge ==
    ASSUME NEW p, NEW n \in Pcs(p), NEW v \in Args(p, n), EndOfLife(p, v) \notin {0, n}
    PROVE  \E e \in DFLOWinitBlk(p) : e.src = n /\ e.dst = EndOfLife(p, v)
<1>1. PICK j \in DOMAIN p.stmt[n].arg : v = p.stmt[n].arg[j]
  BY Zenon DEF Args
<1> DEFINE e == [src |-> n, dst |-> EndOfLife(p, p.stmt[n].arg[j]),
                 arg |-> j, kind |-> "eol"]
<1>2. e \in EolEdges(p)
  BY <1>1 DEF EolEdges
<1>3. e.src = n /\ e.dst = EndOfLife(p, v)
  BY <1>1, Zenon
<1> QED  BY <1>2, <1>3, Zenon DEF DFLOWinitBlk

\* ... and for its assignment.
LEMMA RetEdge ==
    ASSUME Ground, NEW p, IsBlock(p), NEW n \in Pcs(p), NEW v \in p.stmt[n].ret,
           EndOfLife(p, v) \notin {0, n}
    PROVE  \E e \in DFLOWinitBlk(p) : e.src = n /\ e.dst = EndOfLife(p, v)
<1> DEFINE f == EndOfLife(p, v)
<1>1. f \in Pcs(p) /\ v \in p.stmt[f].ret \cup Args(p, f) /\ n <= f
  BY EndOfLifeFacts, Zenon
<1>2. v \in Args(p, f)
  BY <1>1, Zenon DEF IsBlock
<1>3. n < f
  BY <1>1, PcsFacts
<1> HIDE DEF f
<1>4. Assigned(p, v, f) # 0
  <2> DEFINE S == {m \in Pcs(p) : m < f /\ v \in p.stmt[m].ret}
  <2>1. n \in S /\ S \in SUBSET (1 .. Len(p.stmt)) /\ Len(p.stmt) \in Nat
    BY <1>3, PcsFacts, Zenon
  <2>2. LastPc(S) \in S
    <3> HIDE DEF S
    <3> QED  BY <2>1, LastPcFacts, Zenon
  <2>3. LastPc(S) # 0
    <3> HIDE DEF S
    <3> QED  BY <2>1, <2>2
  <2> QED  BY <2>3, Zenon DEF Assigned
<1>5. Assigned(p, v, f) = n
  BY <1>1, <1>4, AssignedFacts, Zenon DEF IsBlock
<1> QED  BY <1>1, <1>2, <1>4, <1>5, UseEdge DEF f

\* The wakeups lead from instructions of the block to instructions of the block.
LEMMA EdgeEnds ==
    ASSUME Ground, NEW p, IsBlock(p), NEW e \in DFLOWinitBlk(p)
    PROVE  e.src \in Pcs(p) /\ e.dst \in Pcs(p)
<1>1. CASE e \in UseEdges(p)
  <2>1. PICK n \in Pcs(p) : \E j \in DOMAIN p.stmt[n].arg :
            /\ Assigned(p, p.stmt[n].arg[j], n) # 0
            /\ e = [src |-> Assigned(p, p.stmt[n].arg[j], n), dst |-> n,
                    arg |-> j, kind |-> "use"]
    BY <1>1, Zenon DEF UseEdges
  <2>2. PICK j \in DOMAIN p.stmt[n].arg :
            /\ Assigned(p, p.stmt[n].arg[j], n) # 0
            /\ e = [src |-> Assigned(p, p.stmt[n].arg[j], n), dst |-> n,
                    arg |-> j, kind |-> "use"]
    BY <2>1, Zenon
  <2>3. e.src = Assigned(p, p.stmt[n].arg[j], n) /\ e.dst = n
    BY <2>2, Zenon
  <2>4. Assigned(p, p.stmt[n].arg[j], n) \in Pcs(p)
    BY <2>2, AssignedFacts, Zenon
  <2> QED  BY <2>3, <2>4, Zenon
<1>2. CASE e \in EolEdges(p)
  <2>1. PICK n \in Pcs(p) : \E j \in DOMAIN p.stmt[n].arg :
            /\ EndOfLife(p, p.stmt[n].arg[j]) \notin {0, n}
            /\ e = [src |-> n, dst |-> EndOfLife(p, p.stmt[n].arg[j]),
                    arg |-> j, kind |-> "eol"]
    BY <1>2, Zenon DEF EolEdges
  <2>2. PICK j \in DOMAIN p.stmt[n].arg :
            /\ EndOfLife(p, p.stmt[n].arg[j]) \notin {0, n}
            /\ e = [src |-> n, dst |-> EndOfLife(p, p.stmt[n].arg[j]),
                    arg |-> j, kind |-> "eol"]
    BY <2>1, Zenon
  <2>3. e.src = n /\ e.dst = EndOfLife(p, p.stmt[n].arg[j])
    BY <2>2, Zenon
  <2>4. EndOfLife(p, p.stmt[n].arg[j]) \in Pcs(p)
    BY <2>2, EndOfLifeFacts, Zenon
  <2> QED  BY <2>3, <2>4, Zenon
<1> QED  BY <1>1, <1>2, Zenon DEF DFLOWinitBlk

-----------------------------------------------------------------------------
(* Steps that leave a flow alone, or move its events only *)

\* A step that does not touch the flow of thread t.
Untouched(t) ==
    /\ prog'[t] = prog[t] /\ edges'[t] = edges[t] /\ status'[t] = status[t]
    /\ blocks'[t] = blocks[t] /\ error'[t] = error[t] /\ done'[t] = done[t]
    /\ tasks'[t] = tasks[t] /\ handled'[t] = handled[t] /\ stk'[t] = stk[t]
    /\ sched'[t] = sched[t] /\ cursor'[t] = cursor[t]
    /\ exiting => exiting'
    /\ \A n \in Pcs(prog[t]) :
        /\ <<t, n>> \in Range(todo') <=> <<t, n>> \in Range(todo)
        /\ \A w \in Workers :
            /\ fe'[w] = <<t, n>> <=> fe[w] = <<t, n>>
            /\ fnxt'[w] = <<t, n>> <=> fnxt[w] = <<t, n>>
            /\ fe[w] = <<t, n>> => (wpc'[w] \in Early <=> wpc[w] \in Early)

\* A step that leaves a flow and its events alone keeps what holds of the flow.
LEMMA UntouchedFlow ==
    ASSUME Ground, NEW t \in Threads, Typed, Typed', FlowInv(t), Untouched(t)
    PROVE  FlowInv(t)'
<1>1. /\ prog'[t] = prog[t] /\ edges'[t] = edges[t] /\ status'[t] = status[t]
      /\ blocks'[t] = blocks[t] /\ error'[t] = error[t] /\ done'[t] = done[t]
      /\ tasks'[t] = tasks[t] /\ handled'[t] = handled[t] /\ stk'[t] = stk[t]
      /\ sched'[t] = sched[t] /\ cursor'[t] = cursor[t]
      /\ exiting => exiting'
  BY Zenon DEF Untouched
<1>2. \A n \in Pcs(prog[t]) :
        /\ Out(t, n)' <=> Out(t, n)
        /\ In(t, n)' <=> In(t, n)
        /\ Idle(t, n)' <=> Idle(t, n)
        /\ Open(t, n)' <=> Open(t, n)
  <2> TAKE n \in Pcs(prog[t])
  <2>1. Out(t, n)' <=> Out(t, n)
    BY Zenon DEF Untouched, Out
  <2>2. In(t, n)' <=> In(t, n)
    BY <1>1, <2>1, Zenon DEF In
  <2>3. Idle(t, n)' <=> Idle(t, n)
    BY <1>1, <2>2, Zenon DEF Idle
  <2>4. Open(t, n)' <=> Open(t, n)
    BY <2>3, Zenon DEF Untouched, Open
  <2> QED  BY <2>1, <2>2, <2>3, <2>4, Zenon
<1>3. FlowTyped(t)' /\ Ends(t)'
  BY <1>1, Zenon DEF FlowInv, FlowTyped, Ends
<1>4. FlowOnce(t)'
  BY <1>1, <1>2, Zenon DEF FlowInv, FlowOnce
<1>5. \A n : Waits(t, n)' = Waits(t, n)
  BY <1>1, Zenon DEF Waits
<1>6. Counts(t)'
  BY <1>1, <1>2, <1>5, Zenon DEF FlowInv, Counts
<1>7. FirstLoop(t)'
  BY <1>1, <1>2, Zenon DEF FlowInv, FirstLoop
<1>8. \A e \in edges[t] : e.src \in Pcs(prog[t]) /\ e.dst \in Pcs(prog[t])
  BY EdgeEnds, AllBlocksAre, Zenon DEF FlowInv, FlowTyped, Typed
<1>9. Ordered(t)'
  BY <1>1, <1>2, <1>8, Zenon DEF FlowInv, Ordered
<1>10. Values(t)'
  BY <1>1, <1>2, Zenon DEF FlowInv, Values
<1> QED  BY <1>3, <1>4, <1>6, <1>7, <1>9, <1>10, Zenon DEF FlowInv

\* A step that only moves, loses or marks events of the flow keeps its counts and
\* its order: nothing becomes an event, and nothing is opened again.
LEMMA QuietFlow ==
    ASSUME Ground, NEW t \in Threads, Typed, FlowInv(t),
           prog'[t] = prog[t], edges'[t] = edges[t], blocks'[t] = blocks[t],
           handled'[t] = handled[t], cursor'[t] = cursor[t],
           \A n \in Pcs(prog[t]) :
                \/ status'[t][n] = status[t][n]
                \/ In(t, n) /\ status'[t][n] # "pending",
           \/ sched'[t] = sched[t]
           \/ sched[t] # "mark" /\ sched'[t] \notin {"enqueue", "mark"},
           exiting => exiting',
           \A n \in Pcs(prog[t]) : /\ In(t, n)' => In(t, n)
                                   /\ Open(t, n)' => Open(t, n)
                                   /\ ~exiting' /\ In(t, n) => In(t, n)'
    PROVE  Counts(t)' /\ FirstLoop(t)' /\ Ordered(t)'
<1>1. \A n : Waits(t, n)' = Waits(t, n)
  BY DEF Waits
<1>2. \A n \in Pcs(prog[t]) : Idle(t, n) => Idle(t, n)'
  BY Zenon DEF Idle
<1>3. \A e \in edges[t] : e.src \in Pcs(prog[t]) /\ e.dst \in Pcs(prog[t])
  BY EdgeEnds, AllBlocksAre, Zenon DEF FlowInv, FlowTyped, Typed
<1>4. Counts(t)'
  BY <1>1, Zenon DEF FlowInv, Counts
<1>5. FirstLoop(t)'
  BY <1>2, Zenon DEF FlowInv, FirstLoop
<1>6. Ordered(t)'
  BY <1>2, <1>3, Zenon DEF FlowInv, Ordered
<1> QED  BY <1>4, <1>5, <1>6, Zenon

\* A step that closes no instruction keeps what the stack of the flow holds.
LEMMA QuietValues ==
    ASSUME NEW t \in Threads, FlowInv(t), prog'[t] = prog[t], stk'[t] = stk[t],
           exiting => exiting', error[t] => error'[t],
           ~exiting' /\ ~error'[t] =>
                \A n \in Pcs(prog[t]) : Open(t, n)' <=> Open(t, n)
    PROVE  Values(t)'
BY Zenon DEF FlowInv, Values

\* No event is the absence of one.
LEMMA NotNone == \A t, n : <<t, n>> # NoEvent
BY Zenon DEF NoEvent

\* What a worker of DFLOWworker holds is an event of a flow that is there.
LEMMA Holding ==
    ASSUME Known, NEW w \in Workers
    PROVE  /\ fe[w] # NoEvent =>
                /\ fe[w][1] \in Threads /\ fe[w][2] \in Pcs(prog[fe[w][1]])
                /\ fe[w] = <<fe[w][1], fe[w][2]>>
           /\ fnxt[w] # NoEvent =>
                /\ fnxt[w][1] \in Threads /\ fnxt[w][2] \in Pcs(prog[fnxt[w][1]])
                /\ fnxt[w] = <<fnxt[w][1], fnxt[w][2]>>
BY Zenon DEF Known, IsEvent

\* The pcs of the flow of any thread.
LEMMA PcsNat ==
    ASSUME Ground, Typed, NEW t \in Threads
    PROVE  /\ IsBlock(prog[t]) /\ Pcs(prog[t]) \subseteq Nat
           /\ IsFiniteSet(Pcs(prog[t])) /\ Cardinality(Pcs(prog[t])) = Len(prog[t].stmt)
<1>1. IsBlock(prog[t])
  BY AllBlocksAre, Zenon DEF Typed
<1> QED  BY <1>1, PcsFacts

-----------------------------------------------------------------------------
(* Initially, and when the server stops *)

\* Initially there is no flow and every queue is empty.
LEMMA InitInv == Ground /\ Init => IInv
<1> SUFFICES ASSUME Ground, Init PROVE IInv
  BY Zenon
<1>1. \A n : n \notin Range(<<>>)
  BY DEF Range
<1>2. Typed
  <2>1. /\ prog \in [Threads -> Blocks] /\ cursor \in [Threads -> Nat]
        /\ sched \in [Threads -> {"idle", "enqueue", "mark", "wait", "return"}]
        /\ error \in [Threads -> BOOLEAN] /\ exiting \in BOOLEAN
    BY Zenon DEF Init, Blocks
  <2>2. /\ DOMAIN edges = Threads /\ DOMAIN status = Threads /\ DOMAIN blocks = Threads
        /\ DOMAIN done = Threads /\ DOMAIN tasks = Threads /\ DOMAIN handled = Threads
        /\ DOMAIN stk = Threads /\ DOMAIN fe = Workers /\ DOMAIN fnxt = Workers
    BY Zenon DEF Init
  <2>3. wpc \in [Workers -> {"dequeue", "check", "execute", "call", "failed",
                             "lookahead", "done", "exited"}]
    BY Zenon DEF Init
  <2>4. todo \in Seq(Threads \X Nat)
    BY DEF Init
  <2> QED  BY <2>1, <2>2, <2>3, <2>4, Zenon DEF Typed
<1>3. Once /\ Known /\ Hands /\ ArgsLive
  BY <1>1 DEF Init, Once, Known, Hands, ArgsLive, NoEvent, IsInjective, Threads
<1>4. ~exiting
  BY Zenon DEF Init
<1>5. ASSUME NEW t \in Threads PROVE FlowInv(t)
  <2>1. /\ prog[t] = NoBlock /\ Pcs(prog[t]) = {} /\ edges[t] = {}
        /\ DFLOWinitBlk(prog[t]) = {} /\ status[t] = <<>> /\ blocks[t] = <<>>
        /\ done[t] = <<>> /\ tasks[t] = 0 /\ handled[t] = {} /\ stk[t] = {}
        /\ sched[t] = "idle"
    BY NoBlockIsBlock, Zenon DEF Init
  <2>2. FlowTyped(t)
    BY <2>1 DEF Ground, EmptyFact, FlowTyped
  <2>3. FlowOnce(t)
    BY <2>1 DEF FlowOnce, IsInjective
  <2>4. Counts(t) /\ FirstLoop(t) /\ Ordered(t)
    BY <2>1, Zenon DEF Counts, FirstLoop, Ordered
  <2>5. BlockVars(prog[t]) = {}
    BY <2>1, Zenon DEF BlockVars
  <2>6. Values(t) /\ Ends(t)
    BY <2>1, <2>5, Zenon DEF Values, Ends
  <2> QED  BY <2>2, <2>3, <2>4, <2>6, Zenon DEF FlowInv
<1> QED  BY <1>2, <1>3, <1>4, <1>5, Zenon DEF IInv

\* stopMALdataflow only raises the flag.
LEMMA StopStep ==
    Preserves(stopMALdataflow)
<1> SUFFICES ASSUME Ground, IInv, stopMALdataflow
             PROVE  IInv'
  BY Zenon DEF Preserves
<1>1. /\ UNCHANGED <<prog, edges, status, blocks, error, done, tasks, handled, stk,
                     sched, cursor, todo, wpc, fe, fnxt>>
      /\ exiting' = TRUE /\ MayExit
  BY Zenon DEF stopMALdataflow, flowvars, workvars
<1>2. Typed' /\ Once' /\ Known' /\ Hands' /\ ArgsLive'
  BY <1>1 DEF IInv, Typed, Once, Known, Hands, ArgsLive
<1>3. ASSUME NEW t \in Threads PROVE FlowInv(t)'
  <2>1. Untouched(t)
    BY <1>1, Zenon DEF Untouched
  <2> QED  BY <1>2, <2>1, UntouchedFlow, Zenon DEF IInv
<1> QED  BY <1>1, <1>2, <1>3, Zenon DEF IInv

-----------------------------------------------------------------------------
(* The scheduler *)

\* The scheduler goes from one loop to the next, or to the end.
LEMMA SchedUnlockStep ==
    ASSUME NEW t \in Threads
    PROVE  Preserves(SchedUnlock(t) \/ SchedLeave(t))
<1> SUFFICES ASSUME Ground, IInv, SchedUnlock(t) \/ SchedLeave(t)
             PROVE  IInv'
  BY Zenon DEF Preserves
<1>1. /\ UNCHANGED <<prog, edges, status, blocks, error, done, tasks, handled, stk,
                     cursor, todo, wpc, fe, fnxt, exiting>>
      /\ \E x \in {"wait", "return"} : sched' = [sched EXCEPT ![t] = x]
      /\ sched[t] \in {"enqueue", "wait"}
      /\ sched'[t] = "return" => tasks[t] = Len(prog[t].stmt)
  BY Zenon DEF SchedUnlock, SchedLeave, IInv, Typed, workvars
<1>2. /\ \A u \in Threads \ {t} : sched'[u] = sched[u]
      /\ sched'[t] \in {"wait", "return"}
      /\ sched' \in [Threads -> {"idle", "enqueue", "mark", "wait", "return"}]
  BY <1>1 DEF IInv, Typed
<1>3. Typed'
  BY <1>1, <1>2, Zenon DEF IInv, Typed
<1>4. Once' /\ Known' /\ Hands' /\ ArgsLive'
  <2>1. \A w \in Workers : w \in Threads
    BY Zenon DEF Threads
  <2>2. Once /\ Known /\ Hands /\ ArgsLive
    BY Zenon DEF IInv
  <2>3. Once' /\ Known'
    BY <1>1, <2>2, Zenon DEF Once, Known
  <2>4. Hands'
    BY <1>1, <1>2, <2>1, <2>2, Zenon DEF Hands
  <2>5. ArgsLive'
    BY <1>1, <2>2, Zenon DEF ArgsLive
  <2> QED  BY <2>3, <2>4, <2>5, Zenon
<1>5. ASSUME NEW u \in Threads, u # t PROVE FlowInv(u)'
  <2>1. Untouched(u)
    BY <1>1, <1>2, <1>5, Zenon DEF Untouched
  <2> QED  BY <1>3, <2>1, UntouchedFlow, Zenon DEF IInv
<1>6. FlowInv(t)'
  <2>1. \A n \in Pcs(prog[t]) :
            (In(t, n)' <=> In(t, n)) /\ (Open(t, n)' <=> Open(t, n))
    BY <1>1, Zenon DEF In, Out, Open, Idle
  <2>2. Counts(t)' /\ FirstLoop(t)' /\ Ordered(t)'
    BY <1>1, <1>2, <2>1, QuietFlow, Zenon DEF IInv
  <2>3. Values(t)'
    BY <1>1, <2>1, QuietValues, Zenon DEF IInv
  <2>4. FlowTyped(t)' /\ FlowOnce(t)' /\ Ends(t)'
    BY <1>1, <1>2, Zenon DEF IInv, FlowInv, FlowTyped, FlowOnce, Out, Ends
  <2> QED  BY <2>2, <2>3, <2>4 DEF FlowInv
<1> QED  BY <1>1, <1>3, <1>4, <1>5, <1>6, Zenon DEF IInv

\* While the server exits the scheduler leaves with an event in its hands.
LEMMA SchedBreakStep ==
    ASSUME NEW t \in Threads
    PROVE  Preserves(SchedBreak(t))
<1> SUFFICES ASSUME Ground, IInv, SchedBreak(t)
             PROVE  IInv'
  BY Zenon DEF Preserves
<1>1. /\ UNCHANGED <<prog, edges, status, blocks, error, tasks, handled, stk,
                     cursor, todo, wpc, fe, fnxt, exiting>>
      /\ sched' = [sched EXCEPT ![t] = "return"]
      /\ sched[t] = "wait" /\ exiting /\ done[t] # <<>>
      /\ done' = done \/ done' = [done EXCEPT ![t] = Front(@)]
  BY Zenon DEF SchedBreak, workvars
<1>2. /\ \A u \in Threads \ {t} : sched'[u] = sched[u] /\ done'[u] = done[u]
      /\ sched'[t] = "return" /\ DOMAIN done' = Threads
      /\ done'[t] = done[t] \/ done'[t] = Front(done[t])
      /\ sched' \in [Threads -> {"idle", "enqueue", "mark", "wait", "return"}]
  BY <1>1, Zenon DEF IInv, Typed
<1>3. Typed'
  BY <1>1, <1>2, Zenon DEF IInv, Typed
<1>4. Once' /\ Known' /\ Hands' /\ ArgsLive'
  <2>1. \A w \in Workers : w \in Threads
    BY Zenon DEF Threads
  <2>2. Once /\ Known /\ Hands /\ ArgsLive
    BY Zenon DEF IInv
  <2>3. Once' /\ Known'
    BY <1>1, <2>2, Zenon DEF Once, Known
  <2>4. Hands'
    BY <1>1, <1>2, <2>1, <2>2, Zenon DEF Hands
  <2>5. ArgsLive'
    BY <1>1, <2>2, Zenon DEF ArgsLive
  <2> QED  BY <2>3, <2>4, <2>5
<1>5. ASSUME NEW u \in Threads, u # t PROVE FlowInv(u)'
  <2>1. Untouched(u)
    BY <1>1, <1>2, <1>5 DEF Untouched
  <2> QED  BY <1>3, <2>1, UntouchedFlow, Zenon DEF IInv
<1>6. FlowInv(t)'
  <2>1. /\ done[t] \in Seq(Pcs(prog[t])) /\ IsInjective(done[t])
        /\ FlowInv(t) /\ Counts(t) /\ FlowOnce(t)
    BY Zenon DEF IInv, FlowInv, FlowTyped, FlowOnce
  <2>2. /\ done'[t] \in Seq(Pcs(prog[t])) /\ IsInjective(done'[t])
        /\ \A n : n \in Range(done'[t]) => n \in Range(done[t])
    BY <1>1, <1>2, <2>1, FrontFacts
  <2>3. \A n \in Pcs(prog[t]) :
            (In(t, n)' => In(t, n)) /\ (Open(t, n)' => Open(t, n))
    <3> TAKE n \in Pcs(prog[t])
    <3>1. In(t, n)' => In(t, n)
      BY <1>1, <2>2, Zenon DEF In, Out
    <3>2. Idle(t, n)' => Idle(t, n)
      BY <1>1, <2>1, Zenon DEF Idle, Counts
    <3> QED  BY <1>1, <3>1, <3>2, Zenon DEF Open
  <2>4. Counts(t)' /\ FirstLoop(t)' /\ Ordered(t)'
    BY <1>1, <1>2, <2>1, <2>3, QuietFlow, Zenon DEF IInv
  <2>5. Values(t)' /\ Ends(t)'
    BY <1>1, Zenon DEF Values, Ends
  <2>6. FlowTyped(t)' /\ FlowOnce(t)'
    BY <1>1, <1>2, <2>1, <2>2, Zenon DEF FlowInv, FlowTyped, FlowOnce, Out
  <2> QED  BY <2>4, <2>5, <2>6, Zenon DEF FlowInv
<1> QED  BY <1>1, <1>3, <1>4, <1>5, <1>6, Zenon DEF IInv

-----------------------------------------------------------------------------
(* The workers, moving events *)

\* A worker takes an event, from the queue or its claim, to check it.
LEMMA WorkerDequeueStep ==
    ASSUME NEW w \in Workers
    PROVE  Preserves(WorkerDequeue(w))
<1> SUFFICES ASSUME Ground, IInv, WorkerDequeue(w)
             PROVE  IInv'
  BY Zenon DEF Preserves
<1>0. Typed /\ Once /\ Known /\ Hands /\ ArgsLive /\ todo \in Seq(Threads \X Nat)
      /\ IsInjective(todo)
  BY Zenon DEF IInv, Typed, Once
<1>1. PICK x :
      /\ UNCHANGED <<prog, edges, status, blocks, error, done, tasks, handled, stk,
                     sched, cursor, exiting>>
      /\ fe' = [fe EXCEPT ![w] = x] /\ fnxt' = [fnxt EXCEPT ![w] = NoEvent]
      /\ wpc' = [wpc EXCEPT ![w] = "check"] /\ wpc[w] = "dequeue"
      /\ \/ x = fnxt[w] /\ fnxt[w] # NoEvent /\ todo' = todo
         \/ fnxt[w] = NoEvent /\ todo # <<>> /\ x = Last(todo) /\ todo' = Front(todo)
  BY <1>0, Zenon DEF WorkerDequeue, flowvars, Typed
<1>a. /\ x # NoEvent /\ IsEvent(prog, x)
      /\ todo' \in Seq(Threads \X Nat) /\ IsInjective(todo')
      /\ x \notin Range(todo')
      /\ \A y : y # x => (y \in Range(todo') <=> y \in Range(todo))
      /\ \A y : y \in Range(todo') => y \in Range(todo)
      /\ x \in Range(todo) \/ x = fnxt[w]
  <2>1. CASE x = fnxt[w] /\ fnxt[w] # NoEvent /\ todo' = todo
    BY <1>0, <2>1, Zenon DEF Once, Known
  <2>2. CASE fnxt[w] = NoEvent /\ todo # <<>> /\ x = Last(todo) /\ todo' = Front(todo)
    <3>1. /\ todo' \in Seq(Threads \X Nat) /\ IsInjective(todo')
          /\ x \notin Range(todo') /\ x \in Range(todo)
          /\ \A y : y # x => (y \in Range(todo') <=> y \in Range(todo))
          /\ \A y : y \in Range(todo') => y \in Range(todo)
      BY <1>0, <2>2, FrontFacts, Zenon
    <3>2. IsEvent(prog, x)
      BY <1>0, <3>1, Zenon DEF Known
    <3> QED  BY <3>1, <3>2, NotNone, Zenon DEF IsEvent
  <2> QED  BY <1>1, <2>1, <2>2, Zenon
<1>b. PICK t \in Threads : t = x[1]
  BY <1>a, Zenon DEF IsEvent
<1>c. PICK n \in Pcs(prog[t]) : x = <<t, n>>
  BY <1>a, <1>b, Zenon DEF IsEvent
<1>2. /\ x # NoEvent /\ x = <<t, n>> /\ todo' \in Seq(Threads \X Nat)
      /\ IsInjective(todo') /\ x \notin Range(todo')
      /\ \A y : y # x => (y \in Range(todo') <=> y \in Range(todo))
      /\ \A y : y \in Range(todo') => y \in Range(todo)
      /\ x \in Range(todo) \/ x = fnxt[w]
  BY <1>a, <1>c, Zenon
<1>3. /\ fe'[w] = x /\ fnxt'[w] = NoEvent /\ wpc'[w] = "check" /\ fe[w] = NoEvent
      /\ \A u \in Workers \ {w} : fe'[u] = fe[u] /\ fnxt'[u] = fnxt[u] /\ wpc'[u] = wpc[u]
  BY <1>0, <1>1, Zenon DEF Typed, Hands
<1>4. Typed'
  BY <1>0, <1>1, <1>2, Zenon DEF Typed
<1>5. \A u \in Workers : u # w => fe[u] # x /\ fnxt[u] # x
  <2>1. x # NoEvent /\ (x \in Range(todo) \/ x = fnxt[w])
    BY <1>2, Zenon
  <2> QED  BY <1>0, <2>1 DEF Once
<1>6. Once'
  <2>1. /\ IsInjective(todo') /\ x \notin Range(todo')
        /\ \A y : y \in Range(todo') => y \in Range(todo)
    BY <1>2, Zenon
  <2>2. ASSUME NEW u \in Workers
        PROVE  /\ fe'[u] # NoEvent => fe'[u] \notin Range(todo')
               /\ fnxt'[u] # NoEvent => fnxt'[u] \notin Range(todo')
    BY <1>0, <1>3, <2>1, Zenon DEF Once
  <2>3. ASSUME NEW u \in Workers, NEW v \in Workers
        PROVE  /\ fe'[u] # NoEvent /\ fe'[u] = fe'[v] => u = v
               /\ fnxt'[u] # NoEvent /\ fnxt'[u] = fnxt'[v] => u = v
               /\ fe'[u] # NoEvent => fe'[u] # fnxt'[v]
    BY <1>0, <1>3, <1>5 DEF Once
  <2> QED  BY <2>1, <2>2, <2>3, Zenon DEF Once
<1>7. Known'
  BY <1>0, <1>1, <1>a, <1>3, Zenon DEF Known, IsEvent
<1>8. Hands'
  BY <1>0, <1>1, <1>2, <1>3 DEF Hands
<1>9. ArgsLive'
  BY <1>0, <1>1, <1>3, Zenon DEF ArgsLive
<1>10. ASSUME NEW u \in Threads, u # t PROVE FlowInv(u)'
  <2>1. \A m : <<u, m>> # x /\ <<u, m>> # NoEvent
    BY <1>2, <1>10, NotNone, Zenon
  <2>2. \A m : fnxt[w] # <<u, m>>
    BY <1>1, <2>1, <1>3, Zenon
  <2>3. Untouched(u)
    <3>1. /\ prog' = prog /\ edges' = edges /\ status' = status /\ blocks' = blocks
          /\ error' = error /\ done' = done /\ tasks' = tasks /\ handled' = handled
          /\ stk' = stk /\ sched' = sched /\ cursor' = cursor /\ exiting' = exiting
      BY <1>1, Zenon
    <3>2. ASSUME NEW m \in Pcs(prog[u]), NEW v \in Workers
          PROVE  /\ fe'[v] = <<u, m>> <=> fe[v] = <<u, m>>
                 /\ fnxt'[v] = <<u, m>> <=> fnxt[v] = <<u, m>>
                 /\ fe[v] = <<u, m>> => (wpc'[v] \in Early <=> wpc[v] \in Early)
      BY <1>3, <2>1, <2>2, Zenon
    <3> QED  BY <1>2, <2>1, <3>1, <3>2, Zenon DEF Untouched
  <2> QED  BY <1>0, <1>4, <2>3, UntouchedFlow, Zenon DEF IInv
<1>11. FlowInv(t)'
  <2>1. \A m \in Pcs(prog[t]) :
            /\ Out(t, m)' <=> Out(t, m)
            /\ In(t, m)' <=> In(t, m)
            /\ Open(t, m)' <=> Open(t, m)
    <3> TAKE m \in Pcs(prog[t])
    <3>1. <<t, m>> # NoEvent
      BY NotNone, Zenon
    <3>2. CASE m = n
      <4>1. x = <<t, m>> /\ Out(t, m) /\ Out(t, m)'
        BY <1>2, <1>3, <3>2, Zenon DEF Out
      <4>2. Open(t, m) /\ Open(t, m)'
        BY <1>2, <1>3, <4>1, Zenon DEF Open, Early
      <4> QED  BY <4>1, <4>2, Zenon DEF In
    <3>3. CASE m # n
      <4>1. x # <<t, m>> /\ (<<t, m>> \in Range(todo') <=> <<t, m>> \in Range(todo))
        BY <1>2, <3>3, Zenon
      <4>2. fnxt[w] # <<t, m>>
        BY <1>1, <4>1, <3>1, <1>3, Zenon
      <4>3. Out(t, m)' <=> Out(t, m)
        BY <1>3, <3>1, <4>1, <4>2, Zenon DEF Out
      <4>4. (In(t, m)' <=> In(t, m)) /\ (Idle(t, m)' <=> Idle(t, m))
        BY <1>1, <4>3, Zenon DEF In, Idle
      <4>5. Open(t, m)' <=> Open(t, m)
        BY <1>3, <3>1, <4>1, <4>2, <4>4, Zenon DEF Open
      <4> QED  BY <4>3, <4>4, <4>5, Zenon
    <3> QED  BY <3>2, <3>3, Zenon
  <2>2. Counts(t)' /\ FirstLoop(t)' /\ Ordered(t)'
    BY <1>0, <1>1, <1>2, <2>1, QuietFlow, Zenon DEF IInv
  <2>3. Values(t)'
    BY <1>1, <1>2, <2>1, QuietValues, Zenon DEF IInv
  <2>4. FlowTyped(t)' /\ FlowOnce(t)' /\ Ends(t)'
    BY <1>1, <1>2, <2>1, Zenon DEF IInv, FlowInv, FlowTyped, FlowOnce, Ends
  <2> QED  BY <2>2, <2>3, <2>4, Zenon DEF FlowInv
<1> QED  BY <1>1, <1>4, <1>6, <1>7, <1>8, <1>9, <1>10, <1>11, Zenon DEF IInv

\* A worker goes on with the event <<t, n>> it holds.
Goes(w, t, n, pc) ==
    /\ fe[w] = <<t, n>> /\ wpc[w] \in {"check", "execute", "failed"}
    /\ wpc' = [wpc EXCEPT ![w] = pc]
    /\ pc \in {"execute", "failed", "lookahead", "done"}
    /\ pc = "execute" => prog[w] = NoBlock /\ wpc[w] = "check"
    /\ UNCHANGED <<prog, edges, blocks, done, tasks, handled, sched, cursor,
                   todo, fe, fnxt, exiting>>
    /\ error' \in [Threads -> BOOLEAN] /\ DOMAIN status' = Threads /\ DOMAIN stk' = Threads
    /\ \A u \in Threads : u # t =>
            status'[u] = status[u] /\ stk'[u] = stk[u] /\ error'[u] = error[u]
    /\ status'[t] \in [Pcs(prog[t]) -> {"pending", "running", "wrapup"}]
    /\ \A m \in Pcs(prog[t]) : status'[t][m] = status[t][m]
                               \/ (m = n /\ status'[t][m] # "pending")
    /\ stk'[t] \subseteq BlockVars(prog[t])

\* What follows: the event is where it was, and only it may have been closed.
Gone(t, n, pc) ==
    /\ Typed' /\ Once' /\ Known' /\ Hands'
    /\ \A u \in Threads : u # t => FlowInv(u)'
    /\ FlowTyped(t)' /\ FlowOnce(t)' /\ Ends(t)'
    /\ Counts(t)' /\ FirstLoop(t)' /\ Ordered(t)'
    /\ \A m \in Pcs(prog[t]) : m # n => (Open(t, m)' <=> Open(t, m))
    /\ Open(t, n)
    /\ Open(t, n)' <=> pc \in {"execute", "failed"}

\* The event stays where it is, and may only be closed.
LEMMA WorkerGoes ==
    ASSUME NEW w \in Workers, NEW t \in Threads, NEW n \in Pcs(prog[t]), NEW pc
    PROVE  Ensures(Goes(w, t, n, pc), Gone(t, n, pc))
<1> SUFFICES ASSUME Ground, IInv, Goes(w, t, n, pc)
             PROVE  Gone(t, n, pc)
  BY Zenon DEF Ensures
<1> USE DEF Gone
<1> USE DEF Goes
<1>0. Typed /\ Once /\ Known /\ Hands /\ FlowInv(t)
  BY Zenon DEF IInv
<1>1. wpc'[w] = pc /\ \A u \in Workers \ {w} : wpc'[u] = wpc[u]
  BY <1>0, Zenon DEF Typed
<1>2. Typed'
  BY <1>0, Zenon DEF Typed
<1>3. Once' /\ Known'
  BY <1>0, Zenon DEF Once, Known
<1>4. <<t, n>> # NoEvent
  BY NotNone, Zenon
<1>5. Hands'
  BY <1>0, <1>1, <1>4 DEF Hands
<1>6. ASSUME NEW u \in Threads, u # t PROVE FlowInv(u)'
  <2>1. \A m : <<u, m>> # <<t, n>>
    BY <1>6, Zenon
  <2>2. \A v \in Workers : fe[v] # <<t, n>> => wpc'[v] = wpc[v]
    BY <1>1, <1>4, Zenon
  <2>3. Untouched(u)
    BY <1>6, <2>1, <2>2, Zenon DEF Untouched
  <2> QED  BY <1>0, <1>2, <2>3, UntouchedFlow, Zenon DEF IInv
<1>7. \A m \in Pcs(prog[t]) : (Out(t, m)' <=> Out(t, m)) /\ (In(t, m)' <=> In(t, m))
  BY Zenon DEF In, Out
<1>8. In(t, n) /\ Open(t, n)
  BY Zenon DEF In, Out, Open, Early
<1>9. Open(t, n)' <=> pc \in {"execute", "failed"}
  <2>1. <<t, n>> \notin Range(todo) /\ \A u \in Workers : fnxt[u] # <<t, n>>
    BY <1>0, <1>4 DEF Once
  <2>2. ASSUME NEW u \in Workers, fe[u] = <<t, n>> PROVE u = w
    <3>1. fe[w] # NoEvent /\ fe[w] = fe[u]
      BY <1>4, <2>2, Zenon
    <3> QED  BY <1>0, <3>1, Zenon DEF Once
  <2>3. ~Idle(t, n)'
    BY <1>7, <1>8, Zenon DEF Idle
  <2> QED  BY <1>1, <2>1, <2>2, <2>3, Zenon DEF Open, Early
<1>10. ASSUME NEW m \in Pcs(prog[t]), m # n PROVE Open(t, m)' <=> Open(t, m)
  <2>1. <<t, m>> # <<t, n>>
    BY <1>10, Zenon
  <2>2. Idle(t, m)' <=> Idle(t, m)
    BY <1>7, <1>10, Zenon DEF Idle
  <2> QED  BY <1>1, <2>1, <2>2, Zenon DEF Open
<1>11. Counts(t)' /\ FirstLoop(t)' /\ Ordered(t)'
  BY <1>0, <1>7, <1>8, <1>9, <1>10, QuietFlow, Zenon
<1>12. FlowTyped(t)' /\ FlowOnce(t)' /\ Ends(t)'
  BY <1>0, <1>7, Zenon DEF FlowInv, FlowTyped, FlowOnce, Ends
<1> QED  BY <1>2, <1>3, <1>5, <1>6, <1>8, <1>9, <1>10, <1>11, <1>12, Zenon

\* All arguments of an instruction that may be executed have their values.
LEMMA ArgsPresent ==
    ASSUME Ground, NEW t \in Threads, NEW n \in Pcs(prog[t]), Typed, FlowInv(t),
           Open(t, n), ~Idle(t, n), ~exiting, ~error[t]
    PROVE  Args(prog[t], n) \subseteq stk[t]
<1> SUFFICES ASSUME NEW v \in Args(prog[t], n) PROVE v \in stk[t]
  BY Zenon
<1>1. IsBlock(prog[t]) /\ edges[t] = DFLOWinitBlk(prog[t]) /\ v \in BlockVars(prog[t])
      /\ Pcs(prog[t]) \subseteq Nat
  BY PcsNat DEF FlowInv, FlowTyped, BlockVars
<1>2. \/ v \in InputVars(prog[t])
      \/ \E m \in Pcs(prog[t]) : ~Open(t, m) /\ v \in prog[t].stmt[m].ret
  <2>1. CASE Assigned(prog[t], v, n) = 0
    BY <1>1, <2>1, Zenon DEF IsBlock
  <2>2. CASE Assigned(prog[t], v, n) # 0
    <3>1. PICK e \in edges[t] : e.src = Assigned(prog[t], v, n) /\ e.dst = n
      BY <1>1, <2>2, UseEdge
    <3>2. ~Open(t, e.src)
      BY <3>1, Zenon DEF FlowInv, Ordered
    <3> QED  BY <1>1, <2>2, <3>1, <3>2, AssignedFacts, Zenon
  <2> QED  BY <2>1, <2>2, Zenon
<1>3. ASSUME NEW f \in Pcs(prog[t]), EndOfLife(prog[t], v) = f PROVE Open(t, f)
  <2>1. CASE f = n
    BY <2>1, Zenon
  <2>2. CASE f # n
    <3>1. EndOfLife(prog[t], v) \notin {0, n}
      <4>1. f # 0
        BY <1>1, PcsFacts
      <4> QED  BY <1>3, <2>2, <4>1, Zenon
    <3>2. PICK e \in edges[t] : e.src = n /\ e.dst = EndOfLife(prog[t], v)
      BY <1>1, <3>1, EolEdge
    <3>3. Idle(t, f)
      BY <1>3, <3>2, Zenon DEF FlowInv, Ordered
    <3> QED  BY <3>3, Zenon DEF Open
  <2> QED  BY <2>1, <2>2, Zenon
<1> QED  BY <1>1, <1>2, <1>3, Zenon DEF FlowInv, Values

\* After an error the event is only handed back, or an error is recorded.
LEMMA WorkerSkipStep ==
    ASSUME NEW w \in Workers
    PROVE  Preserves(WorkerSkip(w) \/ WorkerError(w))
<1> SUFFICES ASSUME Ground, IInv, WorkerSkip(w) \/ WorkerError(w)
             PROVE  IInv'
  BY Zenon DEF Preserves
<1>0. Typed /\ Hands /\ Known /\ ArgsLive /\ wpc[w] \in {"check", "failed"}
  BY Zenon DEF IInv, WorkerSkip, WorkerError
<1>1. fe[w] # NoEvent /\ IsEvent(prog, fe[w])
  BY <1>0, Zenon DEF Hands, Known
<1>2. PICK t \in Threads : t = fe[w][1]
  BY <1>1, Zenon DEF IsEvent
<1>3. PICK n \in Pcs(prog[t]) : fe[w] = <<t, n>>
  BY <1>1, <1>2, Zenon DEF IsEvent
<1>4. /\ UNCHANGED <<prog, edges, status, blocks, done, tasks, handled, stk,
                     sched, cursor, todo, fe, fnxt, exiting>>
      /\ wpc' = [wpc EXCEPT ![w] = "done"]
      /\ error' = [error EXCEPT ![t] = TRUE]
  <2>1. CASE WorkerSkip(w)
    <3>1. error[t] = TRUE /\ error' = error
      BY <1>0, <1>2, <2>1, Zenon DEF WorkerSkip, flowvars, Typed
    <3>2. error' = [error EXCEPT ![t] = TRUE]
      BY <1>0, <3>1, Zenon DEF Typed
    <3>3. /\ UNCHANGED <<prog, edges, status, blocks, done, tasks, handled, stk,
                         sched, cursor, todo, fe, fnxt, exiting>>
          /\ wpc' = [wpc EXCEPT ![w] = "done"]
      BY <2>1, Zenon DEF WorkerSkip, flowvars
    <3> QED  BY <3>2, <3>3, Zenon
  <2>2. CASE WorkerError(w)
    BY <1>2, <2>2, Zenon DEF WorkerError
  <2> QED  BY <2>1, <2>2, Zenon
<1>5. /\ error' \in [Threads -> BOOLEAN] /\ error'[t] = TRUE
      /\ \A u \in Threads : u # t => error'[u] = error[u]
      /\ DOMAIN status = Threads /\ DOMAIN stk = Threads
  BY <1>0, <1>4, Zenon DEF Typed
<1>6. /\ status[t] \in [Pcs(prog[t]) -> {"pending", "running", "wrapup"}]
      /\ stk[t] \subseteq BlockVars(prog[t])
  BY Zenon DEF IInv, FlowInv, FlowTyped
<1>a. Goes(w, t, n, "done")
  BY <1>0, <1>3, <1>4, <1>5, <1>6, Zenon DEF Goes
<1>7. /\ Typed' /\ Once' /\ Known' /\ Hands'
      /\ \A u \in Threads : u # t => FlowInv(u)'
      /\ FlowTyped(t)' /\ FlowOnce(t)' /\ Ends(t)'
      /\ Counts(t)' /\ FirstLoop(t)' /\ Ordered(t)'
  BY <1>a, WorkerGoes, Zenon DEF Ensures, Gone
<1>8. Values(t)'
  BY <1>5, Zenon DEF Values
<1>9. ArgsLive'
  <2>1. \A u \in Workers : wpc'[u] \in {"execute", "call"} => wpc'[u] = wpc[u]
    BY <1>0, <1>4, Zenon DEF Typed
  <2> QED  BY <1>0, <1>4, <2>1, Zenon DEF ArgsLive
<1>10. FlowInv(t)'
  BY <1>7, <1>8, Zenon DEF FlowInv
<1> QED  BY <1>4, <1>7, <1>9, <1>10, Zenon DEF IInv

\* The admitted event has its arguments.
LEMMA WorkerAdmitStep ==
    ASSUME NEW w \in Workers
    PROVE  Preserves(WorkerAdmit(w))
<1> SUFFICES ASSUME Ground, IInv, WorkerAdmit(w)
             PROVE  IInv'
  BY Zenon DEF Preserves
<1>0. Typed /\ Hands /\ Known /\ ArgsLive /\ wpc[w] = "check"
  BY Zenon DEF IInv, WorkerAdmit
<1>1. fe[w] # NoEvent /\ IsEvent(prog, fe[w])
  BY <1>0, Zenon DEF Hands, Known
<1>2. PICK t \in Threads : t = fe[w][1]
  BY <1>1, Zenon DEF IsEvent
<1>3. PICK n \in Pcs(prog[t]) : fe[w] = <<t, n>>
  BY <1>1, <1>2, Zenon DEF IsEvent
<1>4. /\ UNCHANGED <<prog, edges, status, blocks, error, done, tasks, handled, stk,
                     sched, cursor, todo, fe, fnxt, exiting>>
      /\ wpc' = [wpc EXCEPT ![w] = "execute"]
      /\ ~exiting /\ ~error[t]
  BY <1>2, Zenon DEF WorkerAdmit, flowvars
<1>5. error' \in [Threads -> BOOLEAN] /\ DOMAIN status = Threads /\ DOMAIN stk = Threads
  BY <1>0, <1>4, Zenon DEF Typed
<1>6. /\ status[t] \in [Pcs(prog[t]) -> {"pending", "running", "wrapup"}]
      /\ stk[t] \subseteq BlockVars(prog[t]) /\ FlowInv(t)
  BY Zenon DEF IInv, FlowInv, FlowTyped
<1>7. prog[w] = NoBlock
  <2>1. w \in Threads
    BY Zenon DEF Threads
  <2>2. sched[w] = "idle" /\ FlowInv(w)
    BY <1>0, <2>1, Zenon DEF Hands, IInv
  <2> QED  BY <1>4, <2>2, Zenon DEF FlowInv, Ends
<1>a. Goes(w, t, n, "execute")
  BY <1>0, <1>3, <1>4, <1>5, <1>6, <1>7, Zenon DEF Goes
<1>8. /\ Typed' /\ Once' /\ Known' /\ Hands'
      /\ \A u \in Threads : u # t => FlowInv(u)'
      /\ FlowTyped(t)' /\ FlowOnce(t)' /\ Ends(t)'
      /\ Counts(t)' /\ FirstLoop(t)' /\ Ordered(t)'
      /\ \A m \in Pcs(prog[t]) : m # n => (Open(t, m)' <=> Open(t, m))
      /\ Open(t, n) /\ Open(t, n)'
  BY <1>a, WorkerGoes, Zenon DEF Ensures, Gone
<1>9. Values(t)'
  BY <1>4, <1>6, <1>8, QuietValues, Zenon
<1>10. Args(prog[t], n) \subseteq stk[t]
  <2>1. ~Idle(t, n)
    BY <1>3, Zenon DEF Idle, In, Out
  <2> QED  BY <1>0, <1>4, <1>6, <1>8, <2>1, ArgsPresent, Zenon
<1>11. ArgsLive'
  <2>1. \A u \in Workers \ {w} : wpc'[u] = wpc[u]
    BY <1>0, <1>4, Zenon DEF Typed
  <2>2. fe[w][1] = t /\ fe[w][2] = n
    BY <1>3
  <2> QED  BY <1>0, <1>4, <1>10, <2>1, <2>2, Zenon DEF ArgsLive
<1>12. FlowInv(t)'
  BY <1>8, <1>9, Zenon DEF FlowInv
<1> QED  BY <1>4, <1>8, <1>11, <1>12, Zenon DEF IInv

\* The instruction fails: its state is wrapup, and the error comes next.
LEMMA WorkerFailStep ==
    ASSUME NEW w \in Workers
    PROVE  Preserves(WorkerFail(w))
<1> SUFFICES ASSUME Ground, IInv, WorkerFail(w)
             PROVE  IInv'
  BY Zenon DEF Preserves
<1>0. Typed /\ Hands /\ Known /\ ArgsLive /\ wpc[w] = "execute"
  BY Zenon DEF IInv, WorkerFail
<1>1. fe[w] # NoEvent /\ IsEvent(prog, fe[w])
  BY <1>0, Zenon DEF Hands, Known
<1>2. PICK t \in Threads : t = fe[w][1]
  BY <1>1, Zenon DEF IsEvent
<1>3. PICK n \in Pcs(prog[t]) : fe[w] = <<t, n>>
  BY <1>1, <1>2, Zenon DEF IsEvent
<1>4. /\ UNCHANGED <<prog, edges, blocks, error, done, tasks, handled, stk,
                     sched, cursor, todo, fe, fnxt, exiting>>
      /\ wpc' = [wpc EXCEPT ![w] = "failed"]
      /\ status' = [status EXCEPT ![t][n] = "wrapup"]
  BY <1>3 DEF WorkerFail
<1>5. error' \in [Threads -> BOOLEAN] /\ DOMAIN status = Threads /\ DOMAIN stk = Threads
  BY <1>0, <1>4, Zenon DEF Typed
<1>6. /\ status[t] \in [Pcs(prog[t]) -> {"pending", "running", "wrapup"}]
      /\ stk[t] \subseteq BlockVars(prog[t]) /\ FlowInv(t)
  BY Zenon DEF IInv, FlowInv, FlowTyped
<1>7. /\ DOMAIN status' = Threads
      /\ \A u \in Threads : u # t => status'[u] = status[u]
      /\ status'[t] = [status[t] EXCEPT ![n] = "wrapup"]
  BY <1>4, <1>5, Zenon
<1>8. /\ status'[t] \in [Pcs(prog[t]) -> {"pending", "running", "wrapup"}]
      /\ \A m \in Pcs(prog[t]) : status'[t][m] = status[t][m]
                                 \/ (m = n /\ status'[t][m] # "pending")
  BY <1>6, <1>7, Zenon
<1>a. Goes(w, t, n, "failed")
  BY <1>0, <1>3, <1>4, <1>5, <1>6, <1>7, <1>8, Zenon DEF Goes
<1>9. /\ Typed' /\ Once' /\ Known' /\ Hands'
      /\ \A u \in Threads : u # t => FlowInv(u)'
      /\ FlowTyped(t)' /\ FlowOnce(t)' /\ Ends(t)'
      /\ Counts(t)' /\ FirstLoop(t)' /\ Ordered(t)'
      /\ \A m \in Pcs(prog[t]) : m # n => (Open(t, m)' <=> Open(t, m))
      /\ Open(t, n) /\ Open(t, n)'
  BY <1>a, WorkerGoes, Zenon DEF Ensures, Gone
<1>10. Values(t)'
  BY <1>4, <1>6, <1>9, QuietValues, Zenon
<1>11. ArgsLive'
  <2>1. \A u \in Workers : wpc'[u] \in {"execute", "call"} => wpc'[u] = wpc[u]
    BY <1>0, <1>4, Zenon DEF Typed
  <2> QED  BY <1>0, <1>4, <2>1, Zenon DEF ArgsLive
<1>12. FlowInv(t)'
  BY <1>9, <1>10, Zenon DEF FlowInv
<1> QED  BY <1>4, <1>9, <1>11, <1>12, Zenon DEF IInv

\* Event <<t, m>> is where it was.
Same(t, m) ==
    /\ <<t, m>> \in Range(todo') <=> <<t, m>> \in Range(todo)
    /\ \A u \in Workers :
        /\ fe'[u] = <<t, m>> <=> fe[u] = <<t, m>>
        /\ fnxt'[u] = <<t, m>> <=> fnxt[u] = <<t, m>>
        /\ fe[u] = <<t, m>> => (wpc'[u] \in Early <=> wpc[u] \in Early)

\* An instruction whose events are not touched is where it was.
LEMMA SameFacts ==
    ASSUME NEW t \in Threads, NEW m \in Pcs(prog[t]), Same(t, m),
           status'[t][m] = status[t][m], handled'[t] = handled[t],
           m \in Range(done'[t]) <=> m \in Range(done[t])
    PROVE  /\ Out(t, m)' <=> Out(t, m)
           /\ In(t, m)' <=> In(t, m)
           /\ Idle(t, m)' <=> Idle(t, m)
           /\ Open(t, m)' <=> Open(t, m)
<1>1. Out(t, m)' <=> Out(t, m)
  BY Zenon DEF Same, Out
<1>2. In(t, m)' <=> In(t, m)
  BY <1>1, Zenon DEF In
<1>3. Idle(t, m)' <=> Idle(t, m)
  BY <1>2, Zenon DEF Idle
<1>4. Open(t, m)' <=> Open(t, m)
  BY <1>3, Zenon DEF Same, Open
<1> QED  BY <1>1, <1>2, <1>3, <1>4, Zenon

\* A worker lets go of the event <<t, n>> it holds.
LetsGo(w, t, n, pc) ==
    /\ fe[w] = <<t, n>> /\ fe' = [fe EXCEPT ![w] = NoEvent] /\ fnxt' = fnxt
    /\ wpc' = [wpc EXCEPT ![w] = pc]
    /\ \/ pc = "exited" /\ wpc[w] = "check"
       \/ pc = "dequeue" /\ wpc[w] \in {"check", "done"}
    /\ UNCHANGED <<prog, edges, status, blocks, error, tasks, handled, stk,
                   sched, cursor, exiting>>
    /\ todo' \in Seq(Threads \X Nat) /\ IsInjective(todo')
    /\ \A y : y \in Range(todo') => y \in Range(todo) \/ y = <<t, n>>
    /\ \A y : y \in Range(todo) => y \in Range(todo')
    /\ DOMAIN done' = Threads /\ \A u \in Threads : u # t => done'[u] = done[u]

\* What follows: the event is in no hands, and all else is as before.
LetGo(t, n) ==
    /\ Typed' /\ Once' /\ Known' /\ Hands' /\ ArgsLive'
    /\ \A u \in Threads : u # t => FlowInv(u)'
    /\ \A m \in Pcs(prog[t]) : m # n => Same(t, m)
    /\ <<t, n>> \notin Range(todo)
    /\ \A u \in Workers : fe'[u] # <<t, n>> /\ fnxt'[u] # <<t, n>>

\* It is out of its hands, and other flows are not affected.
LEMMA LettingGo ==
    ASSUME NEW w \in Workers, NEW t \in Threads, NEW n \in Pcs(prog[t]), NEW pc
    PROVE  Ensures(LetsGo(w, t, n, pc), LetGo(t, n))
<1> SUFFICES ASSUME Ground, IInv, LetsGo(w, t, n, pc)
             PROVE  LetGo(t, n)
  BY Zenon DEF Ensures
<1> USE DEF LetGo
<1>0. Typed /\ Once /\ Known /\ Hands /\ ArgsLive /\ FlowInv(t)
  BY Zenon DEF IInv
<1>1. <<t, n>> # NoEvent /\ fe[w] = <<t, n>>
  BY NotNone, Zenon DEF LetsGo
<1>2. /\ fe'[w] = NoEvent /\ wpc'[w] = pc
      /\ \A u \in Workers \ {w} : fe'[u] = fe[u] /\ wpc'[u] = wpc[u]
  BY <1>0, Zenon DEF Typed, LetsGo
<1>a. /\ UNCHANGED <<prog, edges, status, blocks, error, tasks, handled, stk,
                     sched, cursor, exiting, fnxt>>
      /\ \A y : y \in Range(todo') => y \in Range(todo) \/ y = <<t, n>>
      /\ \A y : y \in Range(todo) => y \in Range(todo')
  BY Zenon DEF LetsGo
<1>3. <<t, n>> \notin Range(todo) /\ \A u \in Workers : fnxt[u] # <<t, n>>
  BY <1>0, <1>1, Zenon DEF Once
<1>4. ASSUME NEW u \in Workers, u # w PROVE fe[u] # <<t, n>>
  <2>1. fe[w] # NoEvent
    BY <1>1, Zenon
  <2> QED  BY <1>0, <1>1, <1>4, <2>1, Zenon DEF Once
<1>5. Typed'
  BY <1>0, Zenon DEF Typed, LetsGo
<1>6. Once'
  <2>1. ASSUME NEW u \in Workers
        PROVE  /\ fe'[u] # NoEvent => fe'[u] \notin Range(todo')
               /\ fnxt'[u] # NoEvent => fnxt'[u] \notin Range(todo')
    BY <1>0, <1>2, <1>3, <1>4, <1>a, Zenon DEF Once
  <2>2. ASSUME NEW u \in Workers, NEW v \in Workers
        PROVE  /\ fe'[u] # NoEvent /\ fe'[u] = fe'[v] => u = v
               /\ fnxt'[u] # NoEvent /\ fnxt'[u] = fnxt'[v] => u = v
               /\ fe'[u] # NoEvent => fe'[u] # fnxt'[v]
    BY <1>0, <1>2, <1>a DEF Once
  <2>3. IsInjective(todo')
    BY Zenon DEF LetsGo
  <2> QED  BY <2>1, <2>2, <2>3, Zenon DEF Once
<1>7. Known'
  <2>1. IsEvent(prog, <<t, n>>)
    BY Zenon DEF IsEvent
  <2> QED  BY <1>0, <1>2, <1>a, <2>1, Zenon DEF Known, IsEvent
<1>8. Hands'
  <2>1. \/ pc = "exited" /\ wpc[w] = "check"
        \/ pc = "dequeue" /\ wpc[w] \in {"check", "done"}
    BY Zenon DEF LetsGo
  <2> QED  BY <1>0, <1>1, <1>2, <1>a, <2>1, Zenon DEF Hands
<1>9. ArgsLive'
  <2>1. pc \in {"exited", "dequeue"}
    BY Zenon DEF LetsGo
  <2> QED  BY <1>0, <1>2, <1>a, <2>1, Zenon DEF ArgsLive
<1>10. ASSUME NEW u \in Threads, u # t PROVE FlowInv(u)'
  <2>1. \A m : <<u, m>> # <<t, n>> /\ <<u, m>> # NoEvent
    BY <1>10, NotNone, Zenon
  <2>2. Untouched(u)
    BY <1>1, <1>2, <1>10, <1>a, <2>1 DEF Untouched, LetsGo
  <2> QED  BY <1>0, <1>5, <2>2, UntouchedFlow, Zenon DEF IInv
<1>11. ASSUME NEW m \in Pcs(prog[t]), m # n PROVE Same(t, m)
  <2>1. <<t, m>> # <<t, n>> /\ <<t, m>> # NoEvent
    BY <1>11, NotNone, Zenon
  <2> QED  BY <1>1, <1>2, <1>a, <2>1, Zenon DEF Same
<1>12. \A u \in Workers : fe'[u] # <<t, n>> /\ fnxt'[u] # <<t, n>>
  BY <1>1, <1>2, <1>3, <1>4, <1>a, Zenon
<1> QED  BY <1>3, <1>5, <1>6, <1>7, <1>8, <1>9, <1>10, <1>11, <1>12, Zenon

\* The server exits: what the worker was about to check is lost.
LEMMA WorkerExitStep ==
    ASSUME NEW w \in Workers
    PROVE  Preserves(WorkerExit(w))
<1> SUFFICES ASSUME Ground, IInv, WorkerExit(w)
             PROVE  IInv'
  BY Zenon DEF Preserves
<1>0. Typed /\ Once /\ Hands /\ Known /\ ArgsLive
  BY Zenon DEF IInv
<1>1. /\ UNCHANGED <<prog, edges, status, blocks, error, done, tasks, handled, stk,
                     sched, cursor, todo, fnxt, exiting>>
      /\ wpc' = [wpc EXCEPT ![w] = "exited"] /\ fe' = [fe EXCEPT ![w] = NoEvent]
      /\ exiting
      /\ wpc[w] = "check" \/ (wpc[w] = "dequeue" /\ fnxt[w] = NoEvent)
  BY Zenon DEF WorkerExit, flowvars
<1>2. CASE wpc[w] = "dequeue" /\ fnxt[w] = NoEvent
  <2>1. /\ \A u \in Workers : fe'[u] = fe[u]
        /\ wpc'[w] = "exited" /\ \A u \in Workers \ {w} : wpc'[u] = wpc[u]
        /\ fe[w] = NoEvent
    BY <1>0, <1>1, <1>2, Zenon DEF Hands, Typed
  <2>2. Typed'
    BY <1>0, <1>1, Zenon DEF Typed
  <2>3. Once' /\ Known'
    BY <1>0, <1>1, <2>1 DEF Once, Known, IsEvent
  <2>4. Hands' /\ ArgsLive'
    BY <1>0, <1>1, <1>2, <2>1 DEF Hands, ArgsLive
  <2>5. ASSUME NEW u \in Threads PROVE FlowInv(u)'
    <3>1. \A m : <<u, m>> # NoEvent
      BY NotNone, Zenon
    <3>2. Untouched(u)
      BY <1>1, <2>1, <3>1, Zenon DEF Untouched
    <3> QED  BY <1>0, <2>2, <3>2, UntouchedFlow, Zenon DEF IInv
  <2> QED  BY <1>1, <2>2, <2>3, <2>4, <2>5, Zenon DEF IInv
<1>3. CASE wpc[w] = "check"
  <2>1. fe[w] # NoEvent /\ IsEvent(prog, fe[w])
    BY <1>0, <1>3, Zenon DEF Hands, Known
  <2>2. PICK t \in Threads : t = fe[w][1]
    BY <2>1, Zenon DEF IsEvent
  <2>3. PICK n \in Pcs(prog[t]) : fe[w] = <<t, n>>
    BY <2>1, <2>2, Zenon DEF IsEvent
  <2>4. LetsGo(w, t, n, "exited")
    BY <1>0, <1>1, <1>3, <2>3, Zenon DEF LetsGo, Typed, Once
  <2>5. /\ Typed' /\ Once' /\ Known' /\ Hands' /\ ArgsLive'
        /\ \A u \in Threads : u # t => FlowInv(u)'
        /\ \A m \in Pcs(prog[t]) : m # n => Same(t, m)
        /\ <<t, n>> \notin Range(todo)
        /\ \A u \in Workers : fe'[u] # <<t, n>> /\ fnxt'[u] # <<t, n>>
    BY <2>4, LettingGo, Zenon DEF Ensures, LetGo
  <2>6. Out(t, n) /\ Open(t, n) /\ In(t, n)
    BY <1>3, <2>3, Zenon DEF Out, Open, In, Early
  <2>7. \A m \in Pcs(prog[t]) :
            /\ Out(t, m)' => Out(t, m)
            /\ In(t, m)' => In(t, m)
            /\ Open(t, m)' => Open(t, m)
    <3> TAKE m \in Pcs(prog[t])
    <3>1. CASE m = n
      BY <2>6, <3>1, Zenon
    <3>2. CASE m # n
      BY <1>1, <2>5, <3>2, SameFacts, Zenon
    <3> QED  BY <3>1, <3>2, Zenon
  <2>8. Counts(t)' /\ FirstLoop(t)' /\ Ordered(t)'
    BY <1>0, <1>1, <2>7, QuietFlow, Zenon DEF IInv
  <2>9. Values(t)' /\ Ends(t)'
    BY <1>1, Zenon DEF Values, Ends
  <2>10. FlowTyped(t)' /\ FlowOnce(t)'
    BY <1>1, <2>7, Zenon DEF IInv, FlowInv, FlowTyped, FlowOnce
  <2>11. FlowInv(t)'
    BY <2>8, <2>9, <2>10, Zenon DEF FlowInv
  <2> QED  BY <1>1, <2>5, <2>11, Zenon DEF IInv
<1> QED  BY <1>1, <1>2, <1>3, Zenon

\* MALadmission refuses: the event goes back to the queue.
LEMMA WorkerDelayStep ==
    ASSUME NEW w \in Workers
    PROVE  Preserves(WorkerDelay(w))
<1> SUFFICES ASSUME Ground, IInv, WorkerDelay(w)
             PROVE  IInv'
  BY Zenon DEF Preserves
<1>0. /\ Typed /\ Once /\ Hands /\ Known /\ wpc[w] = "check"
      /\ todo \in Seq(Threads \X Nat) /\ IsInjective(todo)
  BY Zenon DEF IInv, WorkerDelay, Typed, Once
<1>1. /\ UNCHANGED <<prog, edges, status, blocks, error, done, tasks, handled, stk,
                     sched, cursor, fnxt, exiting>>
      /\ wpc' = [wpc EXCEPT ![w] = "dequeue"] /\ fe' = [fe EXCEPT ![w] = NoEvent]
      /\ todo' = <<fe[w]>> \o todo
  BY Zenon DEF WorkerDelay, flowvars
<1>2. fe[w] # NoEvent /\ IsEvent(prog, fe[w])
  BY <1>0, Zenon DEF Hands, Known
<1>3. PICK t \in Threads : t = fe[w][1]
  BY <1>2, Zenon DEF IsEvent
<1>4. PICK n \in Pcs(prog[t]) : fe[w] = <<t, n>>
  BY <1>2, <1>3, Zenon DEF IsEvent
<1>5. fe[w] \notin Range(todo)
  BY <1>0, <1>2, Zenon DEF Once
<1>6. /\ todo' \in Seq(Threads \X Nat) /\ IsInjective(todo')
      /\ \A y : y \in Range(todo') <=> y \in Range(todo) \/ y = <<t, n>>
  <2> DEFINE s == <<fe[w]>>
  <2>1. fe[w] \in Threads \X Nat
    BY <1>0, <1>4, PcsNat
  <2>2. s \in Seq(Threads \X Nat) /\ IsInjective(s)
    BY <2>1 DEF IsInjective
  <2>3. \A y : y \in Range(s) <=> y = fe[w]
    BY DEF Range
  <2>4. Range(s) \cap Range(todo) = {}
    BY <1>5, <2>3, Zenon
  <2> HIDE DEF s
  <2>5. /\ s \o todo \in Seq(Threads \X Nat) /\ IsInjective(s \o todo)
        /\ \A y : y \in Range(s \o todo) <=> y \in Range(s) \/ y \in Range(todo)
    BY <1>0, <2>2, <2>4, ConcatFacts, Zenon
  <2>6. todo' = s \o todo
    BY <1>1, Zenon DEF s
  <2> QED  BY <1>4, <2>3, <2>5, <2>6, Zenon
<1>7. LetsGo(w, t, n, "dequeue")
  <2>1. /\ \A y : y \in Range(todo') => y \in Range(todo) \/ y = <<t, n>>
        /\ \A y : y \in Range(todo) => y \in Range(todo')
    BY <1>6, Zenon
  <2>2. DOMAIN done' = Threads /\ \A u \in Threads : u # t => done'[u] = done[u]
    BY <1>0, <1>1, Zenon DEF Typed
  <2>3. /\ UNCHANGED <<prog, edges, status, blocks, error, tasks, handled, stk,
                       sched, cursor, fnxt, exiting>>
        /\ wpc' = [wpc EXCEPT ![w] = "dequeue"] /\ fe' = [fe EXCEPT ![w] = NoEvent]
        /\ wpc[w] = "check"
    BY <1>0, <1>1, Zenon
  <2> QED  BY <1>4, <1>6, <2>1, <2>2, <2>3, Zenon DEF LetsGo
<1>8. /\ Typed' /\ Once' /\ Known' /\ Hands' /\ ArgsLive'
      /\ \A u \in Threads : u # t => FlowInv(u)'
      /\ \A m \in Pcs(prog[t]) : m # n => Same(t, m)
      /\ <<t, n>> \notin Range(todo)
      /\ \A u \in Workers : fe'[u] # <<t, n>> /\ fnxt'[u] # <<t, n>>
  BY <1>7, LettingGo, Zenon DEF Ensures, LetGo
<1>9. Out(t, n) /\ Out(t, n)' /\ Open(t, n) /\ Open(t, n)'
  BY <1>0, <1>4, <1>6, Zenon DEF Out, Open, Early
<1>10. \A m \in Pcs(prog[t]) :
            /\ Out(t, m)' <=> Out(t, m)
            /\ In(t, m)' <=> In(t, m)
            /\ Open(t, m)' <=> Open(t, m)
  <2> TAKE m \in Pcs(prog[t])
  <2>1. CASE m = n
    BY <1>9, <2>1, Zenon DEF In
  <2>2. CASE m # n
    BY <1>1, <1>8, <2>2, SameFacts, Zenon
  <2> QED  BY <2>1, <2>2, Zenon
<1>11. Counts(t)' /\ FirstLoop(t)' /\ Ordered(t)'
  BY <1>0, <1>1, <1>10, QuietFlow, Zenon DEF IInv
<1>12. Values(t)'
  BY <1>1, <1>10, QuietValues, Zenon DEF IInv
<1>13. FlowTyped(t)' /\ FlowOnce(t)' /\ Ends(t)'
  BY <1>1, <1>10, Zenon DEF IInv, FlowInv, FlowTyped, FlowOnce, Ends
<1>14. FlowInv(t)'
  BY <1>11, <1>12, <1>13, Zenon DEF FlowInv
<1> QED  BY <1>1, <1>8, <1>14, Zenon DEF IInv

\* The event is handed to the scheduler of its flow.
LEMMA WorkerDoneStep ==
    ASSUME NEW w \in Workers
    PROVE  Preserves(WorkerDone(w))
<1> SUFFICES ASSUME Ground, IInv, WorkerDone(w)
             PROVE  IInv'
  BY Zenon DEF Preserves
<1>0. Typed /\ Once /\ Hands /\ Known /\ wpc[w] = "done"
  BY Zenon DEF IInv, WorkerDone
<1>2. fe[w] # NoEvent /\ IsEvent(prog, fe[w])
  BY <1>0, Zenon DEF Hands, Known
<1>3. PICK t \in Threads : t = fe[w][1]
  BY <1>2, Zenon DEF IsEvent
<1>4. PICK n \in Pcs(prog[t]) : fe[w] = <<t, n>>
  BY <1>2, <1>3, Zenon DEF IsEvent
<1>1. /\ UNCHANGED <<prog, edges, status, blocks, error, tasks, handled, stk,
                     sched, cursor, todo, fnxt, exiting>>
      /\ wpc' = [wpc EXCEPT ![w] = "dequeue"] /\ fe' = [fe EXCEPT ![w] = NoEvent]
      /\ done' = [done EXCEPT ![t] = Append(done[t], n)]
  BY <1>4 DEF WorkerDone
<1>5. /\ DOMAIN done' = Threads /\ done'[t] = Append(done[t], n)
      /\ \A u \in Threads : u # t => done'[u] = done[u]
  BY <1>0, <1>1, Zenon DEF Typed
<1>6. LetsGo(w, t, n, "dequeue")
  BY <1>0, <1>1, <1>4, <1>5, Zenon DEF LetsGo, Typed, Once
<1>7. /\ Typed' /\ Once' /\ Known' /\ Hands' /\ ArgsLive'
      /\ \A u \in Threads : u # t => FlowInv(u)'
      /\ \A m \in Pcs(prog[t]) : m # n => Same(t, m)
      /\ <<t, n>> \notin Range(todo)
      /\ \A u \in Workers : fe'[u] # <<t, n>> /\ fnxt'[u] # <<t, n>>
  BY <1>6, LettingGo, Zenon DEF Ensures, LetGo
<1>8. /\ done[t] \in Seq(Pcs(prog[t])) /\ IsInjective(done[t]) /\ FlowOnce(t) /\ FlowInv(t)
  BY Zenon DEF IInv, FlowInv, FlowTyped, FlowOnce
<1>9. Out(t, n) /\ n \notin Range(done[t]) /\ n \notin handled[t]
  BY <1>4, <1>8, Zenon DEF FlowOnce, Out
<1>10. /\ done'[t] \in Seq(Pcs(prog[t])) /\ IsInjective(done'[t])
       /\ \A m : m \in Range(done'[t]) <=> m \in Range(done[t]) \/ m = n
  <2>1. /\ Append(done[t], n) \in Seq(Pcs(prog[t])) /\ IsInjective(Append(done[t], n))
        /\ \A m : m \in Range(Append(done[t], n)) <=> m \in Range(done[t]) \/ m = n
    BY <1>8, <1>9, AppendFacts, Zenon
  <2> QED  BY <1>5, <2>1, Zenon
<1>11. ~Out(t, n)' /\ In(t, n) /\ In(t, n)' /\ ~Open(t, n)'
  <2>1. ~Out(t, n)' /\ In(t, n) /\ In(t, n)'
    BY <1>1, <1>7, <1>9, <1>10, Zenon DEF Out, In
  <2> QED  BY <1>1, <1>7, <2>1, Zenon DEF Open, Idle
<1>12. ~Open(t, n)
  <2>1. \A u \in Workers : fnxt[u] # <<t, n>>
    BY <1>1, <1>7, Zenon
  <2>2. ASSUME NEW u \in Workers, fe[u] = <<t, n>> PROVE wpc[u] = "done"
    <3>1. u = w
      BY <1>0, <1>2, <1>4, <2>2, Zenon DEF Once
    <3> QED  BY <1>0, <3>1, Zenon
  <2> QED  BY <1>7, <1>11, <2>1, <2>2, Zenon DEF Open, Idle, Early
<1>13. \A m \in Pcs(prog[t]) :
            (In(t, m)' <=> In(t, m)) /\ (Open(t, m)' <=> Open(t, m))
  <2> TAKE m \in Pcs(prog[t])
  <2>1. CASE m = n
    BY <1>11, <1>12, <2>1, Zenon
  <2>2. CASE m # n
    BY <1>1, <1>7, <1>10, <2>2, SameFacts, Zenon
  <2> QED  BY <2>1, <2>2, Zenon
<1>14. Counts(t)' /\ FirstLoop(t)' /\ Ordered(t)'
  BY <1>0, <1>1, <1>8, <1>13, QuietFlow, Zenon
<1>15. Values(t)'
  BY <1>1, <1>8, <1>13, QuietValues, Zenon
<1>16. FlowTyped(t)' /\ Ends(t)'
  BY <1>1, <1>8, <1>10, Zenon DEF FlowInv, FlowTyped, Ends
<1>17. FlowOnce(t)'
  <2> SUFFICES ASSUME NEW m \in Pcs(prog[t])
               PROVE  /\ ~(m \in Range(done'[t]) /\ m \in handled[t])
                      /\ Out(t, m)' => m \notin Range(done'[t]) /\ m \notin handled[t]
    BY <1>1, <1>10, Zenon DEF FlowOnce
  <2>1. CASE m = n
    BY <1>9, <1>10, <1>11, <2>1, Zenon
  <2>2. CASE m # n
    <3>1. Out(t, m)' <=> Out(t, m)
      BY <1>1, <1>7, <1>10, <2>2, SameFacts, Zenon
    <3> QED  BY <1>8, <1>10, <2>2, <3>1, Zenon DEF FlowOnce
  <2> QED  BY <2>1, <2>2, Zenon
<1>18. FlowInv(t)'
  BY <1>14, <1>15, <1>16, <1>17, Zenon DEF FlowInv
<1> QED  BY <1>1, <1>7, <1>18, Zenon DEF IInv

-----------------------------------------------------------------------------
(* The workers, executing *)

\* The graph of a flow, and that no statement has pc 0.
LEMMA FlowGraph ==
    ASSUME Ground, NEW t \in Threads, Typed, FlowInv(t)
    PROVE  /\ IsBlock(prog[t]) /\ edges[t] = DFLOWinitBlk(prog[t])
           /\ 0 \notin Pcs(prog[t])
<1>1. edges[t] = DFLOWinitBlk(prog[t])
  BY Zenon DEF FlowInv, FlowTyped
<1>2. IsBlock(prog[t])
  BY PcsNat, Zenon
<1>3. 0 \notin Pcs(prog[t])
  <2>1. \A k \in Nat : 0 \notin 1 .. k
    OBVIOUS
  <2> QED  BY <1>2, <2>1, PcsFacts, Zenon
<1> QED  BY <1>1, <1>2, <1>3, Zenon

\* The effect of an instruction on the values of its flow.
LEMMA ExecutedValues ==
    ASSUME Ground, NEW t \in Threads, NEW n \in Pcs(prog[t]), Typed, FlowInv(t),
           prog'[t] = prog[t], stk'[t] = Executed(t, n), error'[t] = error[t],
           exiting => exiting', Open(t, n), ~Open(t, n)',
           \A m \in Pcs(prog[t]) : m # n => (Open(t, m)' <=> Open(t, m))
    PROVE  Values(t)'
<1>0. /\ IsBlock(prog[t]) /\ edges[t] = DFLOWinitBlk(prog[t])
      /\ 0 \notin Pcs(prog[t])
  BY FlowGraph, Zenon
<1> SUFFICES ASSUME ~exiting, ~error[t], NEW v \in BlockVars(prog[t])
             PROVE  /\ \/ v \in InputVars(prog[t])
                       \/ \E m \in Pcs(prog[t]) : ~Open(t, m)' /\ v \in prog[t].stmt[m].ret
                       => \/ v \in stk'[t]
                          \/ \E f \in Pcs(prog[t]) :
                                EndOfLife(prog[t], v) = f /\ ~Open(t, f)'
                    /\ \A f \in Pcs(prog[t]) :
                        EndOfLife(prog[t], v) = f /\ ~Open(t, f)' => v \notin stk'[t]
  BY Zenon DEF Values
<1>1. /\ \/ v \in InputVars(prog[t])
         \/ \E m \in Pcs(prog[t]) : ~Open(t, m) /\ v \in prog[t].stmt[m].ret
         => \/ v \in stk[t]
            \/ \E f \in Pcs(prog[t]) : EndOfLife(prog[t], v) = f /\ ~Open(t, f)
      /\ \A f \in Pcs(prog[t]) : EndOfLife(prog[t], v) = f /\ ~Open(t, f) => v \notin stk[t]
  BY Zenon DEF FlowInv, Values
<1>2. v \in stk'[t] <=> /\ v \in stk[t] \/ v \in prog[t].stmt[n].ret
                        /\ EndOfLife(prog[t], v) # n
  <2>1. EndOfLife(prog[t], v) = n => v \in prog[t].stmt[n].ret \cup Args(prog[t], n)
    BY <1>0, EndOfLifeFacts, Zenon
  <2> QED  BY <2>1, Zenon DEF Executed, Garbage
<1>3. ASSUME \/ v \in InputVars(prog[t])
             \/ \E m \in Pcs(prog[t]) : ~Open(t, m)' /\ v \in prog[t].stmt[m].ret
      PROVE  \/ v \in stk'[t]
             \/ \E f \in Pcs(prog[t]) : EndOfLife(prog[t], v) = f /\ ~Open(t, f)'
  <2>1. CASE EndOfLife(prog[t], v) = n
    BY <2>1, Zenon
  <2>2. CASE EndOfLife(prog[t], v) # n /\ v \in prog[t].stmt[n].ret
    BY <1>2, <2>2, Zenon
  <2>3. CASE EndOfLife(prog[t], v) # n /\ v \notin prog[t].stmt[n].ret
    BY <1>1, <1>2, <1>3, <2>3, Zenon
  <2> QED  BY <2>1, <2>2, <2>3, Zenon
<1>4. ASSUME NEW f \in Pcs(prog[t]), EndOfLife(prog[t], v) = f, ~Open(t, f)'
      PROVE  v \notin stk'[t]
  <2>1. CASE f = n
    BY <1>2, <1>4, <2>1, Zenon
  <2>2. CASE f # n
    <3>1. ~Open(t, f) /\ v \notin stk[t]
      BY <1>1, <1>4, <2>2, Zenon
    <3>2. ASSUME v \in prog[t].stmt[n].ret PROVE FALSE
      <4>1. EndOfLife(prog[t], v) \notin {0, n}
        BY <1>0, <1>4, <2>2, Zenon
      <4>2. PICK e \in DFLOWinitBlk(prog[t]) : e.src = n /\ e.dst = EndOfLife(prog[t], v)
        BY <1>0, <3>2, <4>1, RetEdge, Zenon
      <4>3. Idle(t, f)
        BY <1>0, <1>4, <4>2, Zenon DEF FlowInv, Ordered
      <4> QED  BY <3>1, <4>3, Zenon DEF Open
    <3> QED  BY <1>2, <3>1, <3>2, Zenon
  <2> QED  BY <2>1, <2>2, Zenon
<1> QED  BY <1>3, <1>4, Zenon

\* An instruction releases no argument of another one that is executed.
LEMMA ExecutedArgs ==
    ASSUME Ground, NEW t \in Threads, NEW n \in Pcs(prog[t]), NEW m \in Pcs(prog[t]), m # n,
           Typed, FlowInv(t), ~Idle(t, n), Open(t, m),
           Args(prog[t], m) \subseteq stk[t]
    PROVE  Args(prog[t], m) \subseteq Executed(t, n)
<1> SUFFICES ASSUME NEW v \in Args(prog[t], m), v \in Garbage(prog[t], n) PROVE FALSE
  BY Zenon DEF Executed
<1>1. /\ IsBlock(prog[t]) /\ edges[t] = DFLOWinitBlk(prog[t])
      /\ 0 \notin Pcs(prog[t])
  BY FlowGraph, Zenon
<1>2. EndOfLife(prog[t], v) = n
  BY Zenon DEF Garbage
<1>3. EndOfLife(prog[t], v) \notin {0, m}
  BY <1>1, <1>2, Zenon
<1>4. PICK e \in edges[t] : e.src = m /\ e.dst = EndOfLife(prog[t], v)
  BY <1>1, <1>3, EolEdge
<1>5. Idle(t, n)
  BY <1>2, <1>4, Zenon DEF FlowInv, Ordered
<1> QED  BY <1>5, Zenon

\* runMALsequence only touches variables of the block.
LEMMA ExecutedVars ==
    ASSUME NEW t \in Threads, NEW n \in Pcs(prog[t]), FlowInv(t)
    PROVE  Executed(t, n) \subseteq BlockVars(prog[t])
<1>1. stk[t] \subseteq BlockVars(prog[t])
  BY Zenon DEF FlowInv, FlowTyped
<1>2. prog[t].stmt[n].ret \subseteq BlockVars(prog[t])
  BY Zenon DEF BlockVars
<1> QED  BY <1>1, <1>2, Zenon DEF Executed

\* Another worker that executes an instruction of the same flow.
LEMMA OtherArgs ==
    ASSUME Ground, IInv, NEW w \in Workers, NEW t \in Threads, NEW n \in Pcs(prog[t]),
           fe[w] = <<t, n>>, NEW u \in Workers, u # w, wpc[u] \in {"execute", "call"},
           fe[u][1] = t
    PROVE  Args(prog[t], fe[u][2]) \subseteq Executed(t, n)
<1>0. Typed /\ Once /\ Hands /\ Known /\ ArgsLive /\ FlowInv(t)
  BY Zenon DEF IInv
<1>1. fe[u] # NoEvent /\ fe[w] # NoEvent
  BY <1>0, NotNone, Zenon DEF Hands
<1>2. IsEvent(prog, fe[u])
  BY <1>0, <1>1, Zenon DEF Known
<1>3. PICK m \in Pcs(prog[t]) : fe[u] = <<t, m>>
  BY <1>2, Zenon DEF IsEvent
<1>4. fe[u] # fe[w]
  BY <1>0, <1>1, Zenon DEF Once
<1>5. m # n
  BY <1>3, <1>4, Zenon
<1>6. Open(t, m) /\ ~Idle(t, n)
  BY <1>3, Zenon DEF Open, Idle, In, Out, Early
<1>7. Args(prog[t], m) \subseteq stk[t]
  BY <1>0, <1>3 DEF ArgsLive
<1>8. Args(prog[t], m) \subseteq Executed(t, n)
  BY <1>0, <1>5, <1>6, <1>7, ExecutedArgs, Zenon
<1> QED  BY <1>3, <1>8

\* A successful execution adds the results and drops what ends its life there;
\* no other running instruction of the flow has an argument that is dropped.
LEMMA WorkerSucceedStep ==
    ASSUME NEW w \in Workers
    PROVE  Preserves(WorkerSucceed(w))
<1> SUFFICES ASSUME Ground, IInv, WorkerSucceed(w)
             PROVE  IInv'
  BY Zenon DEF Preserves
<1>0. Typed /\ Hands /\ Known /\ ArgsLive /\ wpc[w] = "execute"
  BY Zenon DEF IInv, WorkerSucceed
<1>1. fe[w] # NoEvent /\ IsEvent(prog, fe[w])
  BY <1>0, Zenon DEF Hands, Known
<1>2. PICK t \in Threads : t = fe[w][1]
  BY <1>1, Zenon DEF IsEvent
<1>3. PICK n \in Pcs(prog[t]) : fe[w] = <<t, n>>
  BY <1>1, <1>2, Zenon DEF IsEvent
<1>4. /\ UNCHANGED <<prog, edges, blocks, error, done, tasks, handled,
                     sched, cursor, todo, fe, fnxt, exiting>>
      /\ wpc' = [wpc EXCEPT ![w] = "lookahead"]
      /\ status' = [status EXCEPT ![t][n] = "wrapup"]
      /\ stk' = [stk EXCEPT ![t] = Executed(t, n)]
  BY <1>3 DEF WorkerSucceed
<1>5. /\ error' \in [Threads -> BOOLEAN] /\ DOMAIN status = Threads
      /\ DOMAIN stk' = Threads /\ stk'[t] = Executed(t, n)
      /\ \A u \in Threads : u # t => stk'[u] = stk[u]
  BY <1>0, <1>4, Zenon DEF Typed
<1>6. /\ status[t] \in [Pcs(prog[t]) -> {"pending", "running", "wrapup"}]
      /\ FlowInv(t) /\ stk'[t] \subseteq BlockVars(prog[t])
  BY <1>5, ExecutedVars, Zenon DEF IInv, FlowInv, FlowTyped
<1>7. /\ DOMAIN status' = Threads
      /\ \A u \in Threads : u # t => status'[u] = status[u]
      /\ status'[t] = [status[t] EXCEPT ![n] = "wrapup"]
  BY <1>4, <1>5, Zenon
<1>8. /\ status'[t] \in [Pcs(prog[t]) -> {"pending", "running", "wrapup"}]
      /\ \A m \in Pcs(prog[t]) : status'[t][m] = status[t][m]
                                 \/ (m = n /\ status'[t][m] # "pending")
  BY <1>6, <1>7, Zenon
<1>9. Goes(w, t, n, "lookahead")
  BY <1>0, <1>3, <1>4, <1>5, <1>6, <1>7, <1>8, Zenon DEF Goes
<1>10. /\ Typed' /\ Once' /\ Known' /\ Hands'
       /\ \A u \in Threads : u # t => FlowInv(u)'
       /\ FlowTyped(t)' /\ FlowOnce(t)' /\ Ends(t)'
       /\ Counts(t)' /\ FirstLoop(t)' /\ Ordered(t)'
       /\ \A m \in Pcs(prog[t]) : m # n => (Open(t, m)' <=> Open(t, m))
       /\ Open(t, n) /\ ~Open(t, n)'
  BY <1>9, WorkerGoes DEF Ensures, Gone
<1>11. Values(t)'
  BY <1>0, <1>4, <1>5, <1>6, <1>10, ExecutedValues, Zenon
<1>12. ArgsLive'
  <2> SUFFICES ASSUME NEW u \in Workers, wpc'[u] \in {"execute", "call"}
               PROVE  Args(prog[fe[u][1]], fe[u][2]) \subseteq stk'[fe[u][1]]
    BY <1>4, Zenon DEF ArgsLive
  <2>1. u # w /\ wpc[u] = wpc'[u]
    BY <1>0, <1>4, Zenon DEF Typed
  <2>2. fe[u] # NoEvent
    BY <1>0, <2>1, Zenon DEF Hands
  <2>3. fe[u][1] \in Threads
    BY <1>0, <2>2, Holding, Zenon
  <2>4. CASE fe[u][1] = t
    BY <1>3, <1>5, <2>1, <2>4, OtherArgs
  <2>5. CASE fe[u][1] # t
    BY <1>0, <1>5, <2>1, <2>3, <2>5, Zenon DEF ArgsLive
  <2> QED  BY <2>4, <2>5, Zenon
<1>13. FlowInv(t)'
  BY <1>10, <1>11, Zenon DEF FlowInv
<1> QED  BY <1>4, <1>10, <1>12, <1>13, Zenon DEF IInv

-----------------------------------------------------------------------------
(* Events that become runnable *)

\* Instruction k of flow t gets into the queue, or a worker claims it: nothing
\* that it waits for is open, and its count becomes zero.
LEMMA Scheduled ==
    ASSUME Ground, NEW t \in Threads, NEW W \in SUBSET Pcs(prog[t]), Typed, FlowInv(t),
           prog'[t] = prog[t], edges'[t] = edges[t], stk'[t] = stk[t],
           error'[t] = error[t], exiting => exiting',
           \A m \in Pcs(prog[t]) :
                /\ Open(t, m)' <=> Open(t, m)
                /\ m \notin W => (Idle(t, m)' <=> Idle(t, m)),
           \A e \in edges[t] : e.dst \in W => ~Open(t, e.src)
    PROVE  Ordered(t)' /\ Values(t)'
<1>1. \A e \in edges[t] : e.src \in Pcs(prog[t]) /\ e.dst \in Pcs(prog[t])
  BY EdgeEnds, AllBlocksAre, Zenon DEF FlowInv, FlowTyped, Typed
<1>2. Ordered(t)'
  BY <1>1, Zenon DEF FlowInv, Ordered
<1>3. Values(t)'
  BY QuietValues, Zenon
<1> QED  BY <1>2, <1>3, Zenon

\* What is handed back or counted is closed.
LEMMA HandledClosed ==
    ASSUME NEW t \in Threads, FlowInv(t), NEW m \in Pcs(prog[t]),
           m \in Range(done[t]) \/ m \in handled[t]
    PROVE  ~Open(t, m)
<1>1. ~Out(t, m) /\ In(t, m)
  BY Zenon DEF FlowInv, FlowOnce, In
<1> QED  BY <1>1, Zenon DEF Open, Out, Idle

\* A worker claims the dependent k of the instruction it executed, or nothing.
LEMMA WorkerLookaheadStep ==
    ASSUME NEW w \in Workers
    PROVE  Preserves(WorkerLookahead(w))
<1> SUFFICES ASSUME Ground, IInv, WorkerLookahead(w)
             PROVE  IInv'
  BY Zenon DEF Preserves
<1>0. Typed /\ Once /\ Hands /\ Known /\ ArgsLive /\ wpc[w] = "lookahead"
  BY Zenon DEF IInv, WorkerLookahead
<1>1. fe[w] # NoEvent /\ IsEvent(prog, fe[w]) /\ fnxt[w] = NoEvent
  BY <1>0, Zenon DEF Hands, Known
<1>2. PICK t \in Threads : t = fe[w][1]
  BY <1>1, Zenon DEF IsEvent
<1>3. PICK n \in Pcs(prog[t]) : fe[w] = <<t, n>>
  BY <1>1, <1>2, Zenon DEF IsEvent
<1>4. /\ UNCHANGED <<prog, edges, error, done, tasks, handled, stk, sched,
                     cursor, todo, fe, exiting>>
      /\ wpc' = [wpc EXCEPT ![w] = "done"]
      /\ Unlocked(t)
  BY <1>2, Zenon DEF WorkerLookahead
<1>5. wpc'[w] = "done" /\ \A u \in Workers \ {w} : wpc'[u] = wpc[u]
  BY <1>0, <1>4, Zenon DEF Typed
<1>6. FlowInv(t) /\ FlowTyped(t) /\ FlowOnce(t) /\ Counts(t) /\ FirstLoop(t)
  BY Zenon DEF IInv, FlowInv
<1>7. \A u \in Workers : wpc'[u] \in Early <=> wpc[u] \in Early
  BY <1>0, <1>5, Zenon DEF Early
<1>8. ArgsLive'
  <2>1. \A u \in Workers : wpc'[u] \in {"execute", "call"} => wpc'[u] = wpc[u]
    BY <1>5, Zenon
  <2> QED  BY <1>0, <1>4, <2>1, Zenon DEF ArgsLive
<1>9. CASE UNCHANGED <<status, blocks, fnxt>>
  <2>1. Typed'
    BY <1>0, <1>4, <1>9, Zenon DEF Typed
  <2>2. Once' /\ Known'
    BY <1>0, <1>4, <1>9, Zenon DEF Once, Known
  <2>3. Hands'
    BY <1>0, <1>1, <1>4, <1>5, <1>9 DEF Hands
  <2>4. ASSUME NEW u \in Threads PROVE FlowInv(u)'
    <3>1. Untouched(u)
      BY <1>4, <1>7, <1>9, Zenon DEF Untouched
    <3> QED  BY <1>0, <2>1, <3>1, UntouchedFlow, Zenon DEF IInv
  <2> QED  BY <1>4, <1>8, <2>1, <2>2, <2>3, <2>4, Zenon DEF IInv
<1>10. ASSUME NEW k \in Claimable(w),
              status' = [status EXCEPT ![t][k] = "running"],
              blocks' = [blocks EXCEPT ![t][k] = 0],
              fnxt' = [fnxt EXCEPT ![w] = <<t, k>>]
       PROVE  IInv'
  <2>1. /\ k \in Pcs(prog[t]) /\ Wakeups(t, n, k) # {}
        /\ status[t][k] = "pending" /\ blocks[t][k] = 1
    BY <1>3, <1>10 DEF Claimable
  <2>2. ~In(t, k) /\ Idle(t, k)
    <3>1. In(t, k) => blocks[t][k] = 0
      BY <1>6, <2>1, Zenon DEF Counts
    <3>2. 0 # 1
      OBVIOUS
    <3> QED  BY <2>1, <3>1, <3>2, Zenon DEF Idle
  <2>3. In(t, n) /\ n \notin handled[t] /\ k # n
    <3>1. Out(t, n) /\ In(t, n)
      BY <1>3, Zenon DEF In, Out
    <3> QED  BY <1>6, <2>2, <3>1, Zenon DEF FlowOnce
  <2>4. \A e \in Waits(t, k) : e.src = n
    <3>1. PICK e \in edges[t] : e.src = n /\ e.dst = k
      BY <2>1, Zenon DEF Wakeups
    <3>2. e \in Waits(t, k)
      BY <2>3, <3>1, Zenon DEF Waits
    <3>3. IsFiniteSet(edges[t])
      BY <1>0, <1>6, PcsNat, Zenon DEF Ground, EdgesFact, FlowTyped
    <3>4. IsFiniteSet(Waits(t, k)) /\ Cardinality(Waits(t, k)) = 1
      BY <1>6, <2>1, <3>3, Zenon DEF Ground, SubsetFact, Waits, Counts
    <3>5. Waits(t, k) = {e}
      BY <3>2, <3>4, SMTT(30) DEF Ground, SingletonFact
    <3> QED  BY <3>1, <3>5, Zenon
  <2>5. /\ DOMAIN status' = Threads /\ DOMAIN blocks' = Threads /\ DOMAIN fnxt' = Workers
        /\ \A u \in Threads : u # t => status'[u] = status[u] /\ blocks'[u] = blocks[u]
        /\ status'[t] = [status[t] EXCEPT ![k] = "running"]
        /\ blocks'[t] = [blocks[t] EXCEPT ![k] = 0]
        /\ fnxt'[w] = <<t, k>> /\ \A u \in Workers \ {w} : fnxt'[u] = fnxt[u]
    BY <1>0, <1>10, Zenon DEF Typed
  <2>6. /\ status'[t] \in [Pcs(prog[t]) -> {"pending", "running", "wrapup"}]
        /\ status'[t][k] = "running"
        /\ \A m \in Pcs(prog[t]) : m # k => status'[t][m] = status[t][m]
    BY <1>6, <2>1, <2>5 DEF FlowTyped
  <2>7. /\ blocks'[t] \in [Pcs(prog[t]) -> Nat] /\ blocks'[t][k] = 0
        /\ \A m \in Pcs(prog[t]) : m # k => blocks'[t][m] = blocks[t][m]
    <3>1. blocks[t] \in [Pcs(prog[t]) -> Nat]
      BY <1>6, Zenon DEF FlowTyped
    <3>2. blocks'[t] = [blocks[t] EXCEPT ![k] = 0]
      BY <2>5, Zenon
    <3> QED  BY <2>1, <3>1, <3>2
  <2>8. Typed'
    BY <1>0, <1>4, <2>5, Zenon DEF Typed
  <2>9. /\ <<t, k>> # NoEvent /\ <<t, k>> \notin Range(todo)
        /\ \A u \in Workers : fe[u] # <<t, k>> /\ fnxt[u] # <<t, k>>
    BY <2>2, NotNone, Zenon DEF In, Out
  <2>10. Once'
    <3>1. ASSUME NEW u \in Workers
          PROVE  /\ fe'[u] # NoEvent => fe'[u] \notin Range(todo')
                 /\ fnxt'[u] # NoEvent => fnxt'[u] \notin Range(todo')
      <4>1. /\ fe[u] # NoEvent => fe[u] \notin Range(todo)
            /\ fnxt[u] # NoEvent => fnxt[u] \notin Range(todo)
        BY <1>0, Zenon DEF Once
      <4>2. fe'[u] = fe[u] /\ Range(todo') = Range(todo)
        BY <1>4, Zenon
      <4>3. fnxt'[u] = fnxt[u] \/ fnxt'[u] = <<t, k>>
        BY <2>5, Zenon
      <4> QED  BY <2>9, <4>1, <4>2, <4>3, Zenon
    <3>2. ASSUME NEW u \in Workers, NEW v \in Workers
          PROVE  /\ fe'[u] # NoEvent /\ fe'[u] = fe'[v] => u = v
                 /\ fnxt'[u] # NoEvent /\ fnxt'[u] = fnxt'[v] => u = v
                 /\ fe'[u] # NoEvent => fe'[u] # fnxt'[v]
      <4>1. /\ fe[u] # NoEvent /\ fe[u] = fe[v] => u = v
            /\ fnxt[u] # NoEvent /\ fnxt[u] = fnxt[v] => u = v
            /\ fe[u] # NoEvent => fe[u] # fnxt[v]
        BY <1>0, Zenon DEF Once
      <4>2. fe'[u] = fe[u] /\ fe'[v] = fe[v]
        BY <1>4, Zenon
      <4>3. /\ fnxt'[u] = fnxt[u] \/ (u = w /\ fnxt'[u] = <<t, k>>)
            /\ fnxt'[v] = fnxt[v] \/ (v = w /\ fnxt'[v] = <<t, k>>)
        BY <2>5, Zenon
      <4> QED  BY <2>9, <4>1, <4>2, <4>3, Zenon
    <3> QED  BY <1>0, <1>4, <3>1, <3>2, Zenon DEF Once
  <2>11. Known'
    <3>1. IsEvent(prog, <<t, k>>)
      BY <2>1, Zenon DEF IsEvent
    <3> QED  BY <1>0, <1>4, <2>5, <3>1 DEF Known, IsEvent
  <2>12. Hands'
    <3> SUFFICES ASSUME NEW u \in Workers
                 PROVE  /\ fe'[u] = NoEvent <=> wpc'[u] \in {"dequeue", "exited"}
                        /\ fnxt'[u] # NoEvent => wpc'[u] \in {"dequeue", "done"}
                        /\ sched'[u] # "idle" <=> wpc'[u] = "call"
                        /\ wpc'[u] = "execute" => prog'[u] = NoBlock
                        /\ wpc'[u] = "call" => fe'[u][1] # u
      BY Zenon DEF Hands
    <3>1. /\ fe[u] = NoEvent <=> wpc[u] \in {"dequeue", "exited"}
          /\ fnxt[u] # NoEvent => wpc[u] \in {"dequeue", "done"}
          /\ sched[u] # "idle" <=> wpc[u] = "call"
          /\ wpc[u] = "execute" => prog[u] = NoBlock
          /\ wpc[u] = "call" => fe[u][1] # u
      BY <1>0, Zenon DEF Hands
    <3>2. fe'[u] = fe[u] /\ sched'[u] = sched[u] /\ prog'[u] = prog[u]
      BY <1>4, Zenon
    <3>3. CASE u = w
      BY <1>0, <1>5, <3>1, <3>2, <3>3, Zenon
    <3>4. CASE u # w
      <4>1. wpc'[u] = wpc[u] /\ fnxt'[u] = fnxt[u]
        BY <1>5, <2>5, <3>4, Zenon
      <4> QED  BY <3>1, <3>2, <4>1, Zenon
    <3> QED  BY <3>3, <3>4, Zenon
  <2>13. ASSUME NEW u \in Threads, u # t PROVE FlowInv(u)'
    <3>1. \A m : <<u, m>> # <<t, k>> /\ <<u, m>> # NoEvent
      BY <2>13, NotNone, Zenon
    <3>2. Untouched(u)
      BY <1>1, <1>4, <1>7, <2>5, <2>13, <3>1, Zenon DEF Untouched
    <3> QED  BY <1>0, <2>8, <3>2, UntouchedFlow, Zenon DEF IInv
  <2>14. ASSUME NEW m \in Pcs(prog[t]), m # k
         PROVE  /\ Out(t, m)' <=> Out(t, m)
                /\ In(t, m)' <=> In(t, m)
                /\ Idle(t, m)' <=> Idle(t, m)
                /\ Open(t, m)' <=> Open(t, m)
    <3>1. <<t, m>> # <<t, k>> /\ <<t, m>> # NoEvent
      BY <2>14, NotNone, Zenon
    <3>2. Same(t, m)
      BY <1>1, <1>4, <1>7, <2>5, <3>1, Zenon DEF Same
    <3> QED  BY <1>4, <2>6, <2>14, <3>2, SameFacts, Zenon
  <2>15. Open(t, k) /\ Open(t, k)' /\ In(t, k)'
    BY <2>2, <2>5, Zenon DEF Open, In, Out
  <2>16. ASSUME NEW e \in edges[t], e.dst \in {k} PROVE ~Open(t, e.src)
    <3>1. e.src \in Pcs(prog[t])
      BY <1>0, <1>6, PcsNat, EdgeEnds, Zenon DEF FlowTyped
    <3>2. CASE e.src \in handled[t]
      BY <1>6, <3>1, <3>2, HandledClosed, Zenon
    <3>3. CASE e.src \notin handled[t]
      <4>1. e.src = n
        BY <2>4, <2>16, <3>3, Zenon DEF Waits
      <4>2. /\ <<t, n>> \notin Range(todo) /\ \A u \in Workers : fnxt[u] # <<t, n>>
        BY <1>0, <1>1, <1>3, Zenon DEF Once
      <4>3. ASSUME NEW u \in Workers, fe[u] = <<t, n>> PROVE u = w
        BY <1>0, <1>1, <1>3, <4>3, Zenon DEF Once
      <4> QED  BY <1>0, <2>3, <4>1, <4>2, <4>3, Zenon DEF Open, Idle, Early
    <3> QED  BY <3>2, <3>3, Zenon
  <2>17. Ordered(t)' /\ Values(t)'
    <3>1. {k} \in SUBSET Pcs(prog[t])
      BY <2>1, Zenon
    <3>2. \A m \in Pcs(prog[t]) :
                /\ Open(t, m)' <=> Open(t, m)
                /\ m \notin {k} => (Idle(t, m)' <=> Idle(t, m))
      BY <2>14, <2>15, Zenon
    <3> QED  BY <1>0, <1>4, <1>6, <2>16, <3>1, <3>2, Scheduled, Zenon
  <2>18. FlowTyped(t)' /\ Ends(t)' /\ FirstLoop(t)'
    BY <1>4, <1>6, <2>6, <2>7, Zenon DEF FlowInv, FlowTyped, Ends, FirstLoop, Unlocked
  <2>19. FlowOnce(t)'
    <3> SUFFICES ASSUME NEW m \in Pcs(prog[t])
                 PROVE  /\ ~(m \in Range(done[t]) /\ m \in handled[t])
                        /\ Out(t, m)' => m \notin Range(done[t]) /\ m \notin handled[t]
      BY <1>4, <1>6, Zenon DEF FlowOnce
    <3>1. CASE m = k
      BY <1>6, <2>2, <3>1, Zenon DEF FlowOnce, In
    <3>2. CASE m # k
      BY <1>6, <2>14, <3>2, Zenon DEF FlowOnce
    <3> QED  BY <3>1, <3>2, Zenon
  <2>20. Counts(t)'
    <3>1. \A m : Waits(t, m)' = Waits(t, m)
      BY <1>4, Zenon DEF Waits
    <3> SUFFICES ASSUME NEW m \in Pcs(prog[t])
                 PROVE  /\ status'[t][m] = "pending" =>
                                blocks'[t][m] = Cardinality(Waits(t, m)')
                        /\ In(t, m)' => blocks'[t][m] = 0
                        /\ In(t, m)' /\ status'[t][m] = "pending" =>
                                sched[t] = "mark" /\ m = cursor[t]
      BY <1>4, Zenon DEF Counts
    <3>2. CASE m = k
      BY <2>6, <2>7, <3>2, Zenon
    <3>3. CASE m # k
      BY <1>6, <2>6, <2>7, <2>14, <3>1, <3>3, Zenon DEF Counts
    <3> QED  BY <3>2, <3>3, Zenon
  <2>21. FlowInv(t)'
    BY <2>17, <2>18, <2>19, <2>20, Zenon DEF FlowInv
  <2> QED  BY <1>4, <1>8, <2>8, <2>10, <2>11, <2>12, <2>13, <2>21, Zenon DEF IInv
<1> QED  BY <1>2, <1>9, <1>10, Zenon DEF WorkerLookahead

=============================================================================
