---------------------------- MODULE DataflowGraph ----------------------------
(***************************************************************************)
(* The dependency graph that DFLOWinitBlk derives from a guarded dataflow  *)
(* block (monetdb5/mal/mal_dataflow.c).                                    *)
(*                                                                         *)
(* A block is a record                                                     *)
(*   stmt : the instructions, a sequence of [ret, arg, call] records: the  *)
(*          set of variables assigned, the sequence of non-constant        *)
(*          arguments, and whether the instruction calls a MAL function    *)
(*          that has a dataflow block of its own;                          *)
(*   keep : the variables that outlive the block or need no cleanup, for   *)
(*          which no instruction of the block is the end of life.          *)
(* Program counters are relative to flow->start, the first one is 1.       *)
(***************************************************************************)
EXTENDS Naturals, Sequences, FiniteSets

Pcs(p) == DOMAIN p.stmt

Args(p, n) == {p.stmt[n].arg[j] : j \in DOMAIN p.stmt[n].arg}

BlockVars(p) == UNION {p.stmt[n].ret \cup Args(p, n) : n \in Pcs(p)}

\* Largest member of a set of program counters, 0 for the empty set.
LastPc(S) == IF S = {} THEN 0 ELSE CHOOSE n \in S : \A m \in S : m <= n

\* assign[v] when the loop of DFLOWinitBlk has reached instruction n.
Assigned(p, v, n) == LastPc({m \in Pcs(p) : m < n /\ v \in p.stmt[m].ret})

\* The variables the caller must have assigned before it enters the block.
InputVars(p) == {v \in BlockVars(p) : \A n \in Pcs(p) : v \notin p.stmt[n].ret}

\* A block as OPTdataflow makes it: finitely many instructions and arguments, no
\* variable assigned twice ("flow blocks should be closed when we reach a point
\* where a variable is assigned more then once"), and an argument that no earlier
\* instruction of the block assigns comes from outside.
IsBlock(p) ==
    /\ p.stmt \in Seq({p.stmt[n] : n \in Pcs(p)})
    /\ \A n \in Pcs(p) : p.stmt[n].arg \in Seq(Args(p, n))
    /\ \A m, n \in Pcs(p) : \A v \in p.stmt[m].ret : v \in p.stmt[n].ret => m = n
    /\ \A n \in Pcs(p) : \A v \in Args(p, n) :
        Assigned(p, v, n) = 0 => v \in InputVars(p)

\* getEndOfLife, as malGarbageCollector computes it: the last instruction that
\* mentions the variable as target or operand; 0 if that is not in the block.
EndOfLife(p, v) ==
    IF v \in p.keep THEN 0
    ELSE LastPc({n \in Pcs(p) : v \in p.stmt[n].ret \cup Args(p, n)})

\* Wakeups from the instruction that assigns an argument to its use.
UseEdges(p) ==
    UNION {{[src |-> Assigned(p, p.stmt[n].arg[j], n), dst |-> n,
             arg |-> j, kind |-> "use"] :
                j \in {k \in DOMAIN p.stmt[n].arg :
                            Assigned(p, p.stmt[n].arg[k], n) # 0}} :
            n \in Pcs(p)}

\* Wakeups from every use of a variable to the instruction that ends its life.
EolEdges(p) ==
    UNION {{[src |-> n, dst |-> EndOfLife(p, p.stmt[n].arg[j]),
             arg |-> j, kind |-> "eol"] :
                j \in {k \in DOMAIN p.stmt[n].arg :
                            EndOfLife(p, p.stmt[n].arg[k]) \notin {0, n}}} :
            n \in Pcs(p)}

\* Seeded defect: the end of life of a variable does not wait for its uses.
BugNoEolEdges(p) == UseEdges(p)

DFLOWinitBlk(p) == UseEdges(p) \cup EolEdges(p)

\* The variables the interpreter's garbage collection releases after it has
\* executed instruction n of the block.
Garbage(p, n) ==
    {v \in p.stmt[n].ret \cup Args(p, n) : EndOfLife(p, v) = n}
=============================================================================
