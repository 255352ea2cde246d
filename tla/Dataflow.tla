------------------------------ MODULE Dataflow ------------------------------
(***************************************************************************)
(* The parallel interpreter of MAL dataflow blocks                         *)
(* (monetdb5/mal/mal_dataflow.c): a pool of DFLOWworker threads that share  *)
(* one LIFO queue of runnable instructions (todo), and one DFLOWscheduler   *)
(* per active block, run by the thread that entered the block, which       *)
(* consumes the block's queue of handled instructions (done).              *)
(*                                                                         *)
(* The thread that entered a block names its flow: a client thread, or a   *)
(* worker that executes a call of a function with a block of its own.  An  *)
(* event <<t, n>> is instruction n of the flow of thread t.                *)
(*                                                                         *)
(* A queue operation is one step: the semaphore of a queue counts its      *)
(* elements.  The critical sections under flow->flowlock are one step,     *)
(* except the loop with which the scheduler queues the instructions that   *)
(* need not wait: it makes an event visible to the workers before it sets  *)
(* the state of the instruction, so it holds the lock over several steps.  *)
(* Memory admission is a choice between running and requeueing an event;   *)
(* module Admission models what MALadmission decides.                      *)
(***************************************************************************)
EXTENDS DataflowGraph, Functions

CONSTANTS
    Clients,      \* threads that enter dataflow blocks of their own
    Workers,      \* the DFLOWworker threads
    Programs,     \* the blocks a client may enter
    Callees,      \* the blocks of functions that instructions call
    MayExit       \* whether stopMALdataflow may be called

Threads == Clients \cup Workers

ASSUME ThreadsAssumption == Clients \cap Workers = {}
ASSUME BlocksAssumption == \A p \in Programs \cup Callees : IsBlock(p)

\* A queue is a sequence that grows and shrinks at its end.
Last(q) == q[Len(q)]
Front(q) == SubSeq(q, 1, Len(q) - 1)

\* The orders in which the elements of a set can be queued.
Orders(S) == Bijection(1 .. Cardinality(S), S)

VARIABLES
    prog,         \* prog[t]: the block of t's flow (flow->mb, start, stop)
    edges,        \* edges[t]: flow->nodes and flow->edges
    status,       \* status[t][n]: flow->status[n].state
    blocks,       \* blocks[t][n]: flow->status[n].blocks
    error,        \* error[t]: flow->error is set
    done,         \* done[t]: flow->done
    tasks,        \* tasks[t]: the scheduler's count of handled instructions
    handled,      \* handled[t]: which instructions it counted (history)
    stk,          \* stk[t]: the variables of the stack frame with a value
    sched,        \* sched[t]: where t is in runMALdataflow
    cursor,       \* cursor[t]: loop index of the scheduler's first loop
    todo,         \* the shared queue of runnable events
    wpc,          \* wpc[w]: where worker w is in DFLOWworker
    fe,           \* fe[w]: the event w works on
    fnxt,         \* fnxt[w]: the event w has claimed to do next
    exiting       \* stopMALdataflow has been called

flowvars == <<prog, edges, status, blocks, error, done, tasks, handled, stk,
              sched, cursor>>
workvars == <<wpc, fe, fnxt>>
vars == <<flowvars, todo, workvars, exiting>>

NoEvent == <<>>
NoBlock == [stmt |-> <<>>, keep |-> {}]

\* The flow exists from its allocation until runMALdataflow frees it.
Live(t) == sched[t] # "idle"

\* flow->flowlock is free: the scheduler's first loop is over.
Unlocked(t) == sched[t] \notin {"enqueue", "mark"}

\* The edges of flow t from instruction m to instruction n.
Wakeups(t, m, n) == {e \in edges[t] : e.src = m /\ e.dst = n}

Init ==
    /\ prog = [t \in Threads |-> NoBlock]
    /\ edges = [t \in Threads |-> {}]
    /\ status = [t \in Threads |-> <<>>]
    /\ blocks = [t \in Threads |-> <<>>]
    /\ error = [t \in Threads |-> FALSE]
    /\ done = [t \in Threads |-> <<>>]
    /\ tasks = [t \in Threads |-> 0]
    /\ handled = [t \in Threads |-> {}]
    /\ stk = [t \in Threads |-> {}]
    /\ sched = [t \in Threads |-> "idle"]
    /\ cursor = [t \in Threads |-> 0]
    /\ todo = <<>>
    /\ wpc = [w \in Workers |-> "dequeue"]
    /\ fe = [w \in Workers |-> NoEvent]
    /\ fnxt = [w \in Workers |-> NoEvent]
    /\ exiting = FALSE

-----------------------------------------------------------------------------
(* runMALdataflow and DFLOWscheduler, run by thread t *)

\* Allocate the flow of block p and derive its graph.
runMALdataflow(t, p) ==
    /\ prog' = [prog EXCEPT ![t] = p]
    /\ edges' = [edges EXCEPT ![t] = DFLOWinitBlk(p)]
    /\ status' = [status EXCEPT ![t] = [n \in Pcs(p) |-> "pending"]]
    /\ blocks' = [blocks EXCEPT ![t] =
            [n \in Pcs(p) |-> Cardinality({e \in DFLOWinitBlk(p) : e.dst = n})]]
    /\ error' = [error EXCEPT ![t] = FALSE]
    /\ done' = [done EXCEPT ![t] = <<>>]
    /\ tasks' = [tasks EXCEPT ![t] = 0]
    /\ handled' = [handled EXCEPT ![t] = {}]
    /\ stk' = [stk EXCEPT ![t] = InputVars(p)]
    /\ sched' = [sched EXCEPT ![t] = "enqueue"]
    /\ cursor' = [cursor EXCEPT ![t] = 1]

\* Clients enter no block once the server exits.
ClientEnter(c) ==
    /\ sched[c] = "idle" /\ ~exiting
    /\ \E p \in Programs : runMALdataflow(c, p)
    /\ UNCHANGED <<todo, workvars, exiting>>

\* The instructions from the cursor on that wait for nothing.
Eligible(t) == {n \in Pcs(prog[t]) : n >= cursor[t] /\ blocks[t][n] = 0}

\* First loop of DFLOWscheduler: queue the next instruction with no blocks ...
SchedEnqueue(t) ==
    /\ sched[t] = "enqueue"
    /\ \E n \in Eligible(t) :
        /\ \A m \in Eligible(t) : n <= m
        /\ todo' = Append(todo, <<t, n>>)
        /\ cursor' = [cursor EXCEPT ![t] = n]
    /\ sched' = [sched EXCEPT ![t] = "mark"]
    /\ UNCHANGED <<prog, edges, status, blocks, error, done, tasks, handled,
                   stk, workvars, exiting>>

\* ... and only then set its state.
SchedMark(t) ==
    /\ sched[t] = "mark"
    /\ status' = [status EXCEPT ![t][cursor[t]] = "running"]
    /\ cursor' = [cursor EXCEPT ![t] = @ + 1]
    /\ sched' = [sched EXCEPT ![t] = "enqueue"]
    /\ UNCHANGED <<prog, edges, blocks, error, done, tasks, handled, stk,
                   todo, workvars, exiting>>

SchedUnlock(t) ==
    /\ sched[t] = "enqueue"
    /\ Eligible(t) = {}
    /\ sched' = [sched EXCEPT ![t] = "wait"]
    /\ UNCHANGED <<prog, edges, status, blocks, error, done, tasks, handled,
                   stk, cursor, todo, workvars, exiting>>

\* Second loop: take a handled instruction m and unblock its dependents.
SchedDone(t) ==
    /\ sched[t] = "wait"
    /\ tasks[t] # Len(prog[t].stmt)
    /\ done[t] # <<>>
    /\ ~exiting
    /\ LET m == Last(done[t])
           woken == {n \in Pcs(prog[t]) :
                        /\ status[t][n] = "pending"
                        /\ Wakeups(t, m, n) # {}
                        /\ blocks[t][n] = Cardinality(Wakeups(t, m, n))}
       IN  /\ done' = [done EXCEPT ![t] = Front(@)]
           /\ tasks' = [tasks EXCEPT ![t] = @ + 1]
           /\ handled' = [handled EXCEPT ![t] = @ \cup {m}]
           /\ status' = [status EXCEPT ![t] = [n \in Pcs(prog[t]) |->
                    IF n \in woken THEN "running" ELSE @[n]]]
           /\ blocks' = [blocks EXCEPT ![t] = [n \in Pcs(prog[t]) |->
                    IF status[t][n] = "pending"
                        THEN @[n] - Cardinality(Wakeups(t, m, n)) ELSE @[n]]]
           /\ \E order \in Orders({<<t, n>> : n \in woken}) :
                todo' = todo \o order
    /\ UNCHANGED <<prog, edges, error, stk, sched, cursor, workvars, exiting>>

\* Seeded defect: the loop stops one instruction early.
BugLeaveEarly(t) ==
    /\ sched[t] = "wait"
    /\ tasks[t] + 1 >= Len(prog[t].stmt)
    /\ sched' = [sched EXCEPT ![t] = "return"]
    /\ UNCHANGED <<prog, edges, status, blocks, error, done, tasks, handled,
                   stk, cursor, todo, workvars, exiting>>

\* The loop ends when every instruction was handled.
SchedLeave(t) ==
    /\ sched[t] = "wait"
    /\ tasks[t] = Len(prog[t].stmt)
    /\ sched' = [sched EXCEPT ![t] = "return"]
    /\ UNCHANGED <<prog, edges, status, blocks, error, done, tasks, handled,
                   stk, cursor, todo, workvars, exiting>>

\* A scheduler that wakes up while the server exits leaves the loop; it has
\* taken an event or not, depending on when exiting was set.
SchedBreak(t) ==
    /\ sched[t] = "wait" /\ exiting
    /\ tasks[t] # Len(prog[t].stmt)
    /\ done[t] # <<>>
    /\ done' = done \/ done' = [done EXCEPT ![t] = Front(@)]
    /\ sched' = [sched EXCEPT ![t] = "return"]
    /\ UNCHANGED <<prog, edges, status, blocks, error, tasks, handled, stk,
                   cursor, todo, workvars, exiting>>

\* runMALdataflow frees the flow and returns its error, if any.  The server
\* aborts when the assertion at the end of DFLOWscheduler does not hold.  A
\* flow that is abandoned while the server exits may still be in the hands of
\* workers: they read what the freed memory last held.
FreeFlow(t) ==
    /\ sched[t] = "return" /\ done[t] = <<>>
    /\ sched' = [sched EXCEPT ![t] = "idle"]
    /\ IF exiting THEN UNCHANGED <<prog, edges, blocks, error, done, tasks,
                                   handled, cursor>>
       ELSE /\ prog' = [prog EXCEPT ![t] = NoBlock]
            /\ edges' = [edges EXCEPT ![t] = {}]
            /\ blocks' = [blocks EXCEPT ![t] = <<>>]
            /\ error' = [error EXCEPT ![t] = FALSE]
            /\ tasks' = [tasks EXCEPT ![t] = 0]
            /\ handled' = [handled EXCEPT ![t] = {}]
            /\ cursor' = [cursor EXCEPT ![t] = 0]
            /\ UNCHANGED done

ClientReturn(c) ==
    /\ FreeFlow(c)
    /\ status' = [status EXCEPT ![c] = IF exiting THEN @ ELSE <<>>]
    /\ stk' = [stk EXCEPT ![c] = IF exiting THEN @ ELSE {}]
    /\ UNCHANGED <<todo, workvars, exiting>>

-----------------------------------------------------------------------------
(* DFLOWworker, run by worker w *)

\* Take the event claimed before, or the one on top of the queue.
WorkerDequeue(w) ==
    /\ wpc[w] = "dequeue"
    /\ \/ /\ fnxt[w] # NoEvent
          /\ fe' = [fe EXCEPT ![w] = fnxt[w]]
          /\ UNCHANGED todo
       \/ /\ fnxt[w] = NoEvent /\ ~exiting /\ todo # <<>>
          /\ fe' = [fe EXCEPT ![w] = Last(todo)]
          /\ todo' = Front(todo)
    /\ fnxt' = [fnxt EXCEPT ![w] = NoEvent]
    /\ wpc' = [wpc EXCEPT ![w] = "check"]
    /\ UNCHANGED <<flowvars, exiting>>

\* Seeded defect: nobody raises the semaphore of the queue of idle workers.
BugNoWakeup(w) ==
    /\ exiting
    /\ wpc[w] = "check"
    /\ wpc' = [wpc EXCEPT ![w] = "exited"]
    /\ fe' = [fe EXCEPT ![w] = NoEvent]
    /\ UNCHANGED <<flowvars, todo, fnxt, exiting>>

\* The semaphore was raised by stopMALdataflow, or exiting was set meanwhile.
WorkerExit(w) ==
    /\ exiting
    /\ \/ wpc[w] = "check"
       \/ wpc[w] = "dequeue" /\ fnxt[w] = NoEvent
    /\ wpc' = [wpc EXCEPT ![w] = "exited"]
    /\ fe' = [fe EXCEPT ![w] = NoEvent]
    /\ UNCHANGED <<flowvars, todo, fnxt, exiting>>

\* After an error in the flow its remaining instructions are only counted.
WorkerSkip(w) ==
    /\ wpc[w] = "check" /\ ~exiting
    /\ error[fe[w][1]]
    /\ wpc' = [wpc EXCEPT ![w] = "done"]
    /\ UNCHANGED <<flowvars, todo, fe, fnxt, exiting>>

\* MALadmission refuses: the event goes to the bottom of the queue.
WorkerDelay(w) ==
    /\ wpc[w] = "check" /\ ~exiting
    /\ ~error[fe[w][1]]
    /\ todo' = <<fe[w]>> \o todo
    /\ fe' = [fe EXCEPT ![w] = NoEvent]
    /\ wpc' = [wpc EXCEPT ![w] = "dequeue"]
    /\ UNCHANGED <<flowvars, fnxt, exiting>>

\* MALadmission agrees: the worker enters runMALsequence.
WorkerAdmit(w) ==
    /\ wpc[w] = "check" /\ ~exiting
    /\ ~error[fe[w][1]]
    /\ wpc' = [wpc EXCEPT ![w] = "execute"]
    /\ UNCHANGED <<flowvars, todo, fe, fnxt, exiting>>

\* The worker executes a function call whose body has a dataflow block.
WorkerCall(w) ==
    /\ wpc[w] = "execute"
    /\ prog[fe[w][1]].stmt[fe[w][2]].call
    /\ \E p \in Callees : runMALdataflow(w, p)
    /\ wpc' = [wpc EXCEPT ![w] = "call"]
    /\ UNCHANGED <<todo, fe, fnxt, exiting>>

\* Seeded defect: nothing is garbage collected.
BugNoGarbage(t, n) == stk[t] \cup prog[t].stmt[n].ret

\* The effect of an instruction that succeeds: its targets get their values
\* and the variables whose life ends here are released.
Executed(t, n) == (stk[t] \cup prog[t].stmt[n].ret) \ Garbage(prog[t], n)

WorkerSucceed(w) ==
    LET t == fe[w][1]
        n == fe[w][2]
    IN  /\ wpc[w] = "execute" /\ ~prog[t].stmt[n].call
        /\ stk' = [stk EXCEPT ![t] = Executed(t, n)]
        /\ status' = [status EXCEPT ![t][n] = "wrapup"]
        /\ wpc' = [wpc EXCEPT ![w] = "lookahead"]
        /\ UNCHANGED <<prog, edges, blocks, error, done, tasks, handled,
                       sched, cursor, todo, fe, fnxt, exiting>>

\* runMALsequence returns an error.
WorkerFail(w) ==
    /\ wpc[w] = "execute"
    /\ status' = [status EXCEPT ![fe[w][1]][fe[w][2]] = "wrapup"]
    /\ wpc' = [wpc EXCEPT ![w] = "failed"]
    /\ UNCHANGED <<prog, edges, blocks, error, done, tasks, handled, stk,
                   sched, cursor, todo, fe, fnxt, exiting>>

\* The block of the called function is finished: the call succeeds or fails
\* as the block did.
WorkerReturn(w) ==
    LET t == fe[w][1]
        n == fe[w][2]
    IN  /\ wpc[w] = "call"
        /\ FreeFlow(w)
        /\ status' = [status EXCEPT ![w] = IF exiting THEN @ ELSE <<>>,
                                    ![t][n] = "wrapup"]
        /\ stk' = [stk EXCEPT ![w] = IF exiting THEN @ ELSE {},
                              ![t] = IF error[w] THEN @ ELSE Executed(t, n)]
        /\ wpc' = [wpc EXCEPT ![w] = IF error[w] THEN "failed" ELSE "lookahead"]
        /\ UNCHANGED <<todo, fe, fnxt, exiting>>

\* Seeded defect: an instruction that fails is not handed to the scheduler.
BugErrorLost(w) ==
    /\ wpc[w] = "failed"
    /\ Unlocked(fe[w][1])
    /\ error' = [error EXCEPT ![fe[w][1]] = TRUE]
    /\ wpc' = [wpc EXCEPT ![w] = "dequeue"]
    /\ fe' = [fe EXCEPT ![w] = NoEvent]
    /\ UNCHANGED <<prog, edges, status, blocks, done, tasks, handled, stk,
                   sched, cursor, todo, fnxt, exiting>>

\* The first error of a flow is kept.
WorkerError(w) ==
    /\ wpc[w] = "failed"
    /\ Unlocked(fe[w][1])
    /\ error' = [error EXCEPT ![fe[w][1]] = TRUE]
    /\ wpc' = [wpc EXCEPT ![w] = "done"]
    /\ UNCHANGED <<prog, edges, status, blocks, done, tasks, handled, stk,
                   sched, cursor, todo, fe, fnxt, exiting>>

\* The dependents of the event of w that wait for nothing else.
Claimable(w) ==
    {n \in Pcs(prog[fe[w][1]]) :
        /\ Wakeups(fe[w][1], fe[w][2], n) # {}
        /\ status[fe[w][1]][n] = "pending"
        /\ blocks[fe[w][1]][n] = 1}

\* Seeded defect: the claimed dependent is left pending, with its count ...
BugClaimUnmarked(w) ==
    LET t == fe[w][1]
    IN  /\ wpc[w] = "lookahead"
        /\ Unlocked(t)
        /\ \/ Claimable(w) = {} /\ UNCHANGED fnxt
           \/ \E n \in Claimable(w) : fnxt' = [fnxt EXCEPT ![w] = <<t, n>>]
        /\ wpc' = [wpc EXCEPT ![w] = "done"]
        /\ UNCHANGED <<flowvars, todo, fe, exiting>>

\* ... or left pending with a count of zero.
BugClaimPending(w) ==
    LET t == fe[w][1]
    IN  /\ wpc[w] = "lookahead"
        /\ Unlocked(t)
        /\ \/ Claimable(w) = {} /\ UNCHANGED <<blocks, fnxt>>
           \/ \E n \in Claimable(w) :
                /\ blocks' = [blocks EXCEPT ![t][n] = 0]
                /\ fnxt' = [fnxt EXCEPT ![w] = <<t, n>>]
        /\ wpc' = [wpc EXCEPT ![w] = "done"]
        /\ UNCHANGED <<prog, edges, status, error, done, tasks, handled, stk,
                       sched, cursor, todo, fe, exiting>>

\* Claim a dependent that the result just produced makes runnable.
WorkerLookahead(w) ==
    LET t == fe[w][1]
    IN  /\ wpc[w] = "lookahead"
        /\ Unlocked(t)
        /\ \/ /\ Claimable(w) = {}
              /\ UNCHANGED <<status, blocks, fnxt>>
           \/ \E n \in Claimable(w) :
                /\ status' = [status EXCEPT ![t][n] = "running"]
                /\ blocks' = [blocks EXCEPT ![t][n] = 0]
                /\ fnxt' = [fnxt EXCEPT ![w] = <<t, n>>]
        /\ wpc' = [wpc EXCEPT ![w] = "done"]
        /\ UNCHANGED <<prog, edges, error, done, tasks, handled, stk, sched,
                       cursor, todo, fe, exiting>>

\* Hand the event to the scheduler of its flow.
WorkerDone(w) ==
    LET t == fe[w][1]
    IN  /\ wpc[w] = "done"
        /\ done' = [done EXCEPT ![t] = Append(@, fe[w][2])]
        /\ fe' = [fe EXCEPT ![w] = NoEvent]
        /\ wpc' = [wpc EXCEPT ![w] = "dequeue"]
        /\ UNCHANGED <<prog, edges, status, blocks, error, tasks, handled,
                       stk, sched, cursor, todo, fnxt, exiting>>

-----------------------------------------------------------------------------

\* mal_exit stops the workers, whatever the clients are doing.
stopMALdataflow ==
    /\ MayExit /\ ~exiting
    /\ exiting' = TRUE
    /\ UNCHANGED <<flowvars, todo, workvars>>

Scheduler(t) ==
    \/ SchedEnqueue(t) \/ SchedMark(t) \/ SchedUnlock(t)
    \/ SchedDone(t) \/ SchedLeave(t) \/ SchedBreak(t)

Worker(w) ==
    \/ WorkerDequeue(w) \/ WorkerExit(w) \/ WorkerSkip(w) \/ WorkerDelay(w)
    \/ WorkerAdmit(w) \/ WorkerCall(w) \/ WorkerSucceed(w) \/ WorkerFail(w)
    \/ WorkerReturn(w) \/ WorkerError(w) \/ WorkerLookahead(w) \/ WorkerDone(w)

Next ==
    \/ \E c \in Clients : ClientEnter(c) \/ ClientReturn(c)
    \/ \E t \in Threads : Scheduler(t)
    \/ \E w \in Workers : Worker(w)
    \/ stopMALdataflow

Spec == Init /\ [][Next]_vars

\* Threads are scheduled fairly, and MALadmission does not refuse for ever
\* (module Admission).
Fairness ==
    /\ \A c \in Clients : WF_vars(ClientReturn(c))
    /\ \A t \in Threads : WF_vars(Scheduler(t))
    /\ \A w \in Workers : WF_vars(Worker(w)) /\ SF_vars(WorkerAdmit(w))

FairSpec == Spec /\ Fairness

-----------------------------------------------------------------------------
(* Properties *)

Events == UNION {{<<t, n>> : n \in Pcs(prog[t])} : t \in Threads}

\* The variables have their types; in particular no instruction waits for a
\* negative number of others, and a worker's claim is an event of a live flow.
TypeOK ==
    /\ sched \in [Threads -> {"idle", "enqueue", "mark", "wait", "return"}]
    /\ \A t \in Threads :
        /\ status[t] \in [Pcs(prog[t]) -> {"pending", "running", "wrapup"}]
        /\ blocks[t] \in [Pcs(prog[t]) -> Nat]
        /\ stk[t] \subseteq BlockVars(prog[t])
        /\ handled[t] \subseteq Pcs(prog[t])
        /\ tasks[t] \in 0 .. Len(prog[t].stmt)
        /\ done[t] \in Seq(Pcs(prog[t]))
    /\ wpc \in [Workers -> {"dequeue", "check", "execute", "call", "failed",
                            "lookahead", "done", "exited"}]
    /\ \A w \in Workers : fnxt[w] = NoEvent \/ fnxt[w] \in Events

\* An instruction executes only while every argument it has is on the stack:
\* its producers in the block have finished, and the instruction that ends the
\* life of an argument and releases it has not run before this one is through
\* ("be careful, watch out for garbage collection interference").
ArgsLive ==
    \A w \in Workers : wpc[w] \in {"execute", "call"} =>
        Args(prog[fe[w][1]], fe[w][2]) \subseteq stk[fe[w][1]]

\* The places where an event can be: queued in todo, in the hands of a worker,
\* claimed by a worker, queued in done, or counted by the scheduler.
Places(t, n) ==
    {<<"todo", k>> : k \in {k \in DOMAIN todo : todo[k] = <<t, n>>}}
    \cup {<<"fe", w>> : w \in {w \in Workers : fe[w] = <<t, n>>}}
    \cup {<<"fnxt", w>> : w \in {w \in Workers : fnxt[w] = <<t, n>>}}
    \cup {<<"done", k>> : k \in {k \in DOMAIN done[t] : done[t][k] = n}}
    \cup (IF n \in handled[t] THEN {<<"handled", 0>>} ELSE {})

\* An instruction is scheduled at most once, although the scheduler and the
\* looking-ahead workers race to make the dependents of a result runnable.
ScheduledOnce ==
    \A t \in Threads : \A n \in Pcs(prog[t]) : Cardinality(Places(t, n)) <= 1

\* No queue and no worker refers to an event of a flow that runMALdataflow has
\* freed: the count of handled instructions reaches the size of the block only
\* after the last worker has let go of the flow.  (A flow abandoned while the
\* server exits is not freed in this model.)
NoDanglingEvent ==
    /\ \A k \in DOMAIN todo : todo[k] \in Events
    /\ \A w \in Workers : fe[w] # NoEvent => fe[w] \in Events
    /\ \A w \in Workers : fnxt[w] # NoEvent => fnxt[w] \in Events

\* A block that ends without error leaves on the stack exactly the variables
\* that executing its instructions one after the other leaves there.
SequentialResult ==
    \A t \in Threads : sched[t] = "return" /\ ~error[t] /\ ~exiting =>
        stk[t] = {v \in BlockVars(prog[t]) : EndOfLife(prog[t], v) = 0}

\* assert(flow->done->last == 0) at the end of DFLOWscheduler.
DoneEmptyAtReturn ==
    \A t \in Threads : sched[t] = "return" => done[t] = <<>>

\* Every thread that enters a dataflow block leaves it.
EveryBlockReturns == \A t \in Threads : Live(t) ~> ~Live(t)

\* stopMALdataflow gets every worker to leave its loop, so that it can join
\* them, except the workers that wait for the block of a function they called.
WorkersStop ==
    exiting ~> \A w \in Workers : wpc[w] \in {"exited", "call"}
=============================================================================
