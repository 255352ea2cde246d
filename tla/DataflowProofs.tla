--------------------------- MODULE DataflowProofs ---------------------------
(***************************************************************************)
(* Every step of the dataflow scheduler preserves the inductive invariant  *)
(* of DataflowInvariant, and what follows from it.                         *)
(***************************************************************************)
EXTENDS DataflowInvariant, FiniteSetTheorems, WellFoundedInduction

-----------------------------------------------------------------------------
(* Steps of the scheduler *)

\* The scheduler of t puts the events of instructions W into the queue.
Queues(t, W) ==
    /\ UNCHANGED <<prog, edges, error, stk, wpc, fe, fnxt, exiting>>
    /\ W \subseteq Pcs(prog[t])
    /\ \A n \in W : ~In(t, n)
    /\ todo' \in Seq(Threads \X Nat) /\ IsInjective(todo')
    /\ \A y : y \in Range(todo') <=> (y \in Range(todo) \/ \E n \in W : y = <<t, n>>)

\* What follows: exactly the instructions W are out in addition.
Queued(t, W) ==
    /\ Once' /\ Known' /\ ArgsLive'
    /\ \A n \in Pcs(prog[t]) : Out(t, n)' <=> (Out(t, n) \/ n \in W)
    /\ \A u \in Threads \ {t} : \A n :
         <<u, n>> \in Range(todo') <=> <<u, n>> \in Range(todo)

\* Each event is still in one place, and the stacks are not touched.
LEMMA Queueing ==
    ASSUME NEW t \in Threads, NEW W
    PROVE  Ensures(Queues(t, W), Queued(t, W))
<1> SUFFICES ASSUME Ground, IInv, Queues(t, W)
             PROVE  Queued(t, W)
  BY Zenon DEF Ensures
<1> USE DEF Queued
<1>0. Once /\ Known /\ ArgsLive
  BY Zenon DEF IInv
<1>1. /\ UNCHANGED <<prog, edges, error, stk, wpc, fe, fnxt, exiting>>
      /\ W \subseteq Pcs(prog[t]) /\ IsInjective(todo')
      /\ \A y : y \in Range(todo') <=> (y \in Range(todo) \/ \E n \in W : y = <<t, n>>)
  BY Zenon DEF Queues
<1>2. \A n \in W : \A w \in Workers : fe[w] # <<t, n>> /\ fnxt[w] # <<t, n>>
  BY Zenon DEF Queues, In, Out
<1>3. Once'
  <2>1. ASSUME NEW w \in Workers
        PROVE  /\ fe[w] # NoEvent => fe[w] \notin Range(todo')
               /\ fnxt[w] # NoEvent => fnxt[w] \notin Range(todo')
    BY <1>0, <1>1, <1>2 DEF Once
  <2> QED  BY <1>0, <1>1, <2>1, Zenon DEF Once
<1>4. Known'
  <2>1. \A n \in W : IsEvent(prog, <<t, n>>)
    BY <1>1, Zenon DEF IsEvent
  <2>2. \A x \in Range(todo') : IsEvent(prog, x)
    BY <1>0, <1>1, <2>1, Zenon DEF Known
  <2> QED  BY <1>0, <1>1, <2>2, Zenon DEF Known, IsEvent
<1>5. ArgsLive'
  BY <1>0, <1>1, Zenon DEF ArgsLive
<1>6. ASSUME NEW n \in Pcs(prog[t]) PROVE Out(t, n)' <=> (Out(t, n) \/ n \in W)
  <2>1. <<t, n>> \in Range(todo') <=> (<<t, n>> \in Range(todo) \/ n \in W)
    BY <1>1
  <2> QED  BY <1>1, <2>1, Zenon DEF Out
<1>7. ASSUME NEW u \in Threads \ {t}, NEW n
      PROVE  <<u, n>> \in Range(todo') <=> <<u, n>> \in Range(todo)
  BY <1>1
<1> QED  BY <1>3, <1>4, <1>5, <1>6, <1>7, Zenon

\* First half of the first loop: an instruction that waits for nothing is queued.
LEMMA SchedEnqueueStep ==
    ASSUME NEW t \in Threads
    PROVE  Preserves(SchedEnqueue(t))
<1> SUFFICES ASSUME Ground, IInv, SchedEnqueue(t)
             PROVE  IInv'
  BY Zenon DEF Preserves
<1>0. Typed /\ Once /\ Hands /\ todo \in Seq(Threads \X Nat) /\ IsInjective(todo)
      /\ sched[t] = "enqueue"
  BY Zenon DEF IInv, Typed, Once, SchedEnqueue
<1>1. PICK k \in Eligible(t) :
        /\ \A m \in Eligible(t) : k <= m
        /\ todo' = Append(todo, <<t, k>>)
        /\ cursor' = [cursor EXCEPT ![t] = k]
  BY Zenon DEF SchedEnqueue
<1>2. /\ UNCHANGED <<prog, edges, status, blocks, error, done, tasks, handled, stk,
                     wpc, fe, fnxt, exiting>>
      /\ sched' = [sched EXCEPT ![t] = "mark"]
  BY Zenon DEF SchedEnqueue, workvars
<1>3. FlowInv(t) /\ FlowTyped(t) /\ FlowOnce(t) /\ Counts(t) /\ FirstLoop(t) /\ Ends(t)
  BY Zenon DEF IInv, FlowInv
<1>4. k \in Pcs(prog[t]) /\ k \in Nat /\ cursor[t] \in Nat /\ k >= cursor[t]
      /\ blocks[t][k] = 0
  BY <1>0, PcsNat, Zenon DEF Eligible, Typed
<1>5. handled[t] = {} /\ Idle(t, k) /\ ~In(t, k) /\ status[t][k] = "pending"
  <2>1. k > cursor[t] \/ k = cursor[t]
    BY <1>4
  <2>2. handled[t] = {} /\ Idle(t, k)
    BY <1>0, <1>3, <1>4, <2>1, Zenon DEF FirstLoop
  <2> QED  BY <2>2, Zenon DEF Idle
<1>6. \A e \in edges[t] : e.dst # k
  <2>1. IsFiniteSet(edges[t])
    BY <1>0, <1>3, PcsNat, Zenon DEF Ground, EdgesFact, FlowTyped
  <2>2. IsFiniteSet(Waits(t, k)) /\ Cardinality(Waits(t, k)) = 0
    BY <1>3, <1>4, <1>5, <2>1, Zenon DEF Ground, SubsetFact, Waits, Counts
  <2>3. Waits(t, k) = {}
    BY <2>2, Zenon DEF Ground, EmptyFact
  <2> QED  BY <1>5, <2>3, Zenon DEF Waits
<1>7. Queues(t, {k})
  <2>1. <<t, k>> \in Threads \X Nat /\ <<t, k>> \notin Range(todo)
    BY <1>4, <1>5, Zenon DEF In, Out
  <2>a. /\ Append(todo, <<t, k>>) \in Seq(Threads \X Nat)
        /\ \A y : y \in Range(Append(todo, <<t, k>>)) <=> y \in Range(todo) \/ y = <<t, k>>
        /\ IsInjective(todo) /\ <<t, k>> \notin Range(todo) =>
                IsInjective(Append(todo, <<t, k>>))
    BY <1>0, <2>1, AppendFacts, SMTT(30)
  <2>2. /\ todo' \in Seq(Threads \X Nat) /\ IsInjective(todo')
        /\ \A y : y \in Range(todo') <=> y \in Range(todo) \/ y = <<t, k>>
    BY <1>0, <1>1, <2>1, <2>a, Zenon
  <2> QED  BY <1>2, <1>4, <1>5, <2>2, Zenon DEF Queues
<1>8. /\ Once' /\ Known' /\ ArgsLive'
      /\ \A n \in Pcs(prog[t]) : Out(t, n)' <=> (Out(t, n) \/ n \in {k})
      /\ \A u \in Threads \ {t} : \A n :
                <<u, n>> \in Range(todo') <=> <<u, n>> \in Range(todo)
  BY <1>7, Queueing, Zenon DEF Ensures, Queued
<1>9. /\ sched'[t] = "mark" /\ cursor'[t] = k
      /\ \A u \in Threads \ {t} : sched'[u] = sched[u] /\ cursor'[u] = cursor[u]
      /\ sched' \in [Threads -> {"idle", "enqueue", "mark", "wait", "return"}]
      /\ cursor' \in [Threads -> Nat]
  BY <1>0, <1>1, <1>2, <1>4, Zenon DEF Typed
<1>10. Typed'
  <2>1. todo' \in Seq(Threads \X Nat)
    BY <1>7, Zenon DEF Queues
  <2> QED  BY <1>0, <1>2, <1>9, <2>1, Zenon DEF Typed
<1>11. Hands'
  <2>1. \A w \in Workers : w \in Threads /\ (sched'[w] # "idle" <=> sched[w] # "idle")
    BY <1>0, <1>9, Zenon DEF Threads
  <2> QED  BY <1>0, <1>2, <2>1, Zenon DEF Hands
<1>12. ASSUME NEW u \in Threads, u # t PROVE FlowInv(u)'
  <2>1. Untouched(u)
    BY <1>2, <1>8, <1>9, <1>12, Zenon DEF Untouched
  <2> QED  BY <1>0, <1>10, <2>1, UntouchedFlow, Zenon DEF IInv
<1>13. FlowInv(t)'
  <2>1. ASSUME NEW m \in Pcs(prog[t])
        PROVE  /\ In(t, m)' <=> (In(t, m) \/ m = k)
               /\ m # k => (Idle(t, m)' <=> Idle(t, m))
               /\ Open(t, m)' <=> Open(t, m)
    <3>1. In(t, m)' <=> (In(t, m) \/ m = k)
      BY <1>2, <1>8, Zenon DEF In
    <3>2. m # k => (Idle(t, m)' <=> Idle(t, m))
      BY <1>2, <3>1, Zenon DEF Idle
    <3>3. CASE m = k
      <4>1. <<t, k>> \in Range(todo')
        BY <1>7, Zenon DEF Queues
      <4> QED  BY <1>5, <3>1, <3>3, <4>1, Zenon DEF Open
    <3>4. CASE m # k
      <4>1. <<t, m>> \in Range(todo') <=> <<t, m>> \in Range(todo)
        BY <1>7, <3>4 DEF Queues
      <4> QED  BY <1>2, <3>1, <3>2, <3>4, <4>1, Zenon DEF Open
    <3> QED  BY <3>1, <3>2, <3>3, <3>4, Zenon
  <2>2. Ordered(t)' /\ Values(t)'
    <3>1. {k} \in SUBSET Pcs(prog[t]) /\ \A e \in edges[t] : e.dst \in {k} => ~Open(t, e.src)
      BY <1>4, <1>6, Zenon
    <3>2. \A m \in Pcs(prog[t]) :
                /\ Open(t, m)' <=> Open(t, m)
                /\ m \notin {k} => (Idle(t, m)' <=> Idle(t, m))
      BY <2>1, Zenon
    <3> QED  BY <1>0, <1>2, <1>3, <3>1, <3>2, Scheduled, Zenon
  <2>3. FlowTyped(t)' /\ Ends(t)'
    BY <1>2, <1>3, <1>9, Zenon DEF FlowTyped, Ends
  <2>4. FlowOnce(t)'
    BY <1>2, <1>3, <1>5, <1>8, Zenon DEF FlowOnce, In
  <2>5. Counts(t)'
    <3>1. \A m : Waits(t, m)' = Waits(t, m)
      BY <1>2, Zenon DEF Waits
    <3> QED  BY <1>0, <1>2, <1>3, <1>4, <1>9, <2>1, <3>1, SMTT(30) DEF Counts
  <2>6. FirstLoop(t)'
    <3>1. ASSUME NEW m \in Pcs(prog[t]), m > k PROVE Idle(t, m)'
      <4>a. m \in Nat
        BY <1>0, PcsNat, Zenon
      <4>1. m > cursor[t] /\ m # k
        BY <1>4, <3>1, <4>a
      <4> QED  BY <1>0, <1>3, <2>1, <4>1, Zenon DEF FirstLoop
    <3> QED  BY <1>2, <1>4, <1>5, <1>6, <1>9, <2>1, <3>1, Zenon DEF FirstLoop
  <2> QED  BY <2>2, <2>3, <2>4, <2>5, <2>6, Zenon DEF FlowInv
<1> QED  BY <1>2, <1>8, <1>10, <1>11, <1>12, <1>13, Zenon DEF IInv

\* Second half: the instruction gets its state, and the loop goes on.
LEMMA SchedMarkStep ==
    ASSUME NEW t \in Threads
    PROVE  Preserves(SchedMark(t))
<1> SUFFICES ASSUME Ground, IInv, SchedMark(t)
             PROVE  IInv'
  BY Zenon DEF Preserves
<1>0. Typed /\ Once /\ Hands /\ Known /\ ArgsLive /\ sched[t] = "mark"
  BY Zenon DEF IInv, SchedMark
<1>1. /\ UNCHANGED <<prog, edges, blocks, error, done, tasks, handled, stk, todo,
                     wpc, fe, fnxt, exiting>>
      /\ status' = [status EXCEPT ![t][cursor[t]] = "running"]
      /\ cursor' = [cursor EXCEPT ![t] = @ + 1]
      /\ sched' = [sched EXCEPT ![t] = "enqueue"]
  BY Zenon DEF SchedMark, workvars
<1>2. FlowInv(t) /\ FlowTyped(t) /\ FlowOnce(t) /\ Counts(t) /\ FirstLoop(t) /\ Ends(t)
  BY Zenon DEF IInv, FlowInv
<1>3. PICK k \in Pcs(prog[t]) : k = cursor[t] /\ k \in Nat
  BY <1>0, <1>2, Zenon DEF FirstLoop, Typed
<1>4. /\ handled[t] = {} /\ (~exiting => In(t, k)) /\ \A e \in edges[t] : e.dst # k
      /\ \A n \in Pcs(prog[t]) : n > k => Idle(t, n)
  BY <1>0, <1>2, <1>3, Zenon DEF FirstLoop
<1>5. /\ sched'[t] = "enqueue" /\ cursor'[t] = k + 1
      /\ \A u \in Threads \ {t} : /\ sched'[u] = sched[u] /\ cursor'[u] = cursor[u]
                                  /\ status'[u] = status[u]
      /\ sched' \in [Threads -> {"idle", "enqueue", "mark", "wait", "return"}]
      /\ cursor' \in [Threads -> Nat] /\ DOMAIN status' = Threads
      /\ status'[t] = [status[t] EXCEPT ![k] = "running"]
  BY <1>0, <1>1, <1>3 DEF Typed
<1>6. /\ status'[t] \in [Pcs(prog[t]) -> {"pending", "running", "wrapup"}]
      /\ status'[t][k] = "running"
      /\ \A m \in Pcs(prog[t]) : m # k => status'[t][m] = status[t][m]
  BY <1>2, <1>5 DEF FlowTyped
<1>7. Typed'
  BY <1>0, <1>1, <1>5, Zenon DEF Typed
<1>8. Once' /\ Known' /\ ArgsLive'
  BY <1>0, <1>1, Zenon DEF Once, Known, ArgsLive
<1>9. Hands'
  <2>1. \A w \in Workers : w \in Threads /\ (sched'[w] # "idle" <=> sched[w] # "idle")
    BY <1>0, <1>5, Zenon DEF Threads
  <2> QED  BY <1>0, <1>1, <2>1, Zenon DEF Hands
<1>10. ASSUME NEW u \in Threads, u # t PROVE FlowInv(u)'
  <2>1. Untouched(u)
    BY <1>1, <1>5, <1>10, Zenon DEF Untouched
  <2> QED  BY <1>0, <1>7, <2>1, UntouchedFlow, Zenon DEF IInv
<1>11. FlowInv(t)'
  <2>1. ASSUME NEW m \in Pcs(prog[t])
        PROVE  /\ Out(t, m)' <=> Out(t, m)
               /\ In(t, m)' <=> In(t, m)
               /\ m # k => (Idle(t, m)' <=> Idle(t, m))
               /\ ~Idle(t, k)'
               /\ Open(t, m)' => Open(t, m)
               /\ ~exiting => (Open(t, m)' <=> Open(t, m))
    <3>1. (Out(t, m)' <=> Out(t, m)) /\ (In(t, m)' <=> In(t, m))
      BY <1>1, Zenon DEF In, Out
    <3>2. /\ m # k => (Idle(t, m)' <=> Idle(t, m))
          /\ ~Idle(t, k)' /\ (~exiting => ~Idle(t, k))
      BY <1>4, <1>6, <3>1, Zenon DEF Idle
    <3>3. Open(t, m)' => Open(t, m)
      BY <1>1, <3>2, Zenon DEF Open
    <3>4. ~exiting => (Open(t, m)' <=> Open(t, m))
      BY <1>1, <3>2, Zenon DEF Open
    <3> QED  BY <3>1, <3>2, <3>3, <3>4, Zenon
  <2>2. Ordered(t)'
    <3>1. \A e \in edges[t] : e.src \in Pcs(prog[t]) /\ e.dst \in Pcs(prog[t])
      BY <1>0, <1>2, PcsNat, EdgeEnds, Zenon DEF FlowTyped
    <3> QED  BY <1>1, <1>2, <1>4, <2>1, <3>1, Zenon DEF FlowInv, Ordered
  <2>3. Values(t)'
    BY <1>1, <1>2, <2>1, QuietValues, Zenon
  <2>4. FlowTyped(t)' /\ Ends(t)' /\ FlowOnce(t)'
    BY <1>1, <1>2, <1>5, <1>6, <2>1, Zenon DEF FlowTyped, Ends, FlowOnce
  <2>5. Counts(t)'
    <3>1. \A m : Waits(t, m)' = Waits(t, m)
      BY <1>1, Zenon DEF Waits
    <3> QED  BY <1>1, <1>2, <1>3, <1>6, <2>1, <3>1 DEF Counts
  <2>6. FirstLoop(t)'
    <3>1. ASSUME NEW m \in Pcs(prog[t]), m > k + 1 \/ m = k + 1 PROVE Idle(t, m)'
      <4>a. m \in Nat
        BY <1>0, PcsNat, Zenon
      <4>1. m > k /\ m # k
        BY <1>3, <3>1, <4>a
      <4> QED  BY <1>4, <2>1, <4>1, Zenon
    <3> QED  BY <1>1, <1>4, <1>5, <3>1, Zenon DEF FirstLoop
  <2> QED  BY <2>2, <2>3, <2>4, <2>5, <2>6, Zenon DEF FlowInv
<1> QED  BY <1>1, <1>7, <1>8, <1>9, <1>10, <1>11, Zenon DEF IInv

\* Second loop: an instruction is counted, and those it was the last to hold up
\* are queued.
LEMMA SchedDoneStep ==
    ASSUME NEW t \in Threads
    PROVE  Preserves(SchedDone(t))
<1> SUFFICES ASSUME Ground, IInv, SchedDone(t)
             PROVE  IInv'
  BY Zenon DEF Preserves
<1> DEFINE m == Last(done[t])
           W == {n \in Pcs(prog[t]) :
                    /\ status[t][n] = "pending"
                    /\ Wakeups(t, m, n) # {}
                    /\ blocks[t][n] = Cardinality(Wakeups(t, m, n))}
<1>0. Typed /\ Once /\ Hands /\ todo \in Seq(Threads \X Nat) /\ IsInjective(todo)
  BY Zenon DEF IInv, Typed, Once
<1>1. /\ UNCHANGED <<prog, edges, error, stk, sched, cursor, wpc, fe, fnxt, exiting>>
      /\ sched[t] = "wait" /\ done[t] # <<>> /\ ~exiting
  BY Zenon DEF SchedDone, workvars
<1>2. /\ done' = [done EXCEPT ![t] = Front(@)]
      /\ tasks' = [tasks EXCEPT ![t] = @ + 1]
      /\ handled' = [handled EXCEPT ![t] = @ \cup {m}]
  BY Zenon DEF SchedDone
<1>3. /\ status' = [status EXCEPT ![t] = [n \in Pcs(prog[t]) |->
                    IF n \in W THEN "running" ELSE @[n]]]
      /\ blocks' = [blocks EXCEPT ![t] = [n \in Pcs(prog[t]) |->
                    IF status[t][n] = "pending"
                        THEN @[n] - Cardinality(Wakeups(t, m, n)) ELSE @[n]]]
  BY Zenon DEF SchedDone
<1>4. PICK order \in Orders({<<t, n>> : n \in W}) : todo' = todo \o order
  BY Zenon DEF SchedDone
<1>5. /\ W \subseteq Pcs(prog[t])
      /\ \A n \in W : /\ status[t][n] = "pending"
                      /\ Wakeups(t, m, n) # {}
                      /\ blocks[t][n] = Cardinality(Wakeups(t, m, n))
  BY Zenon
<1>6. FlowInv(t) /\ FlowTyped(t) /\ FlowOnce(t) /\ Counts(t) /\ Ends(t)
  BY Zenon DEF IInv, FlowInv
<1>7. /\ m \in Pcs(prog[t]) /\ m \in Range(done[t]) /\ m \notin handled[t]
      /\ Front(done[t]) \in Seq(Pcs(prog[t])) /\ IsInjective(Front(done[t]))
      /\ m \notin Range(Front(done[t]))
      /\ \A y : y \in Range(done[t]) <=> y \in Range(Front(done[t])) \/ y = m
  <2>1. done[t] \in Seq(Pcs(prog[t])) /\ IsInjective(done[t])
    BY <1>6, Zenon DEF FlowTyped, FlowOnce
  <2>2. /\ m \in Pcs(prog[t]) /\ m \in Range(done[t])
        /\ Front(done[t]) \in Seq(Pcs(prog[t])) /\ IsInjective(Front(done[t]))
        /\ m \notin Range(Front(done[t]))
        /\ \A y : y \in Range(done[t]) <=> y \in Range(Front(done[t])) \/ y = m
    BY <1>1, <2>1, FrontFacts, Zenon
  <2> QED  BY <1>6, <2>2, Zenon DEF FlowOnce
<1> HIDE DEF m, W
<1>8. /\ \A u \in Threads \ {t} : /\ done'[u] = done[u] /\ tasks'[u] = tasks[u]
                                  /\ handled'[u] = handled[u] /\ status'[u] = status[u]
                                  /\ blocks'[u] = blocks[u]
      /\ DOMAIN done' = Threads /\ DOMAIN tasks' = Threads /\ DOMAIN handled' = Threads
      /\ DOMAIN status' = Threads /\ DOMAIN blocks' = Threads
      /\ done'[t] = Front(done[t]) /\ tasks'[t] = tasks[t] + 1
      /\ handled'[t] = handled[t] \cup {m}
  BY <1>0, <1>2, <1>3, Zenon DEF Typed
<1>9. /\ status'[t] = [n \in Pcs(prog[t]) |-> IF n \in W THEN "running" ELSE status[t][n]]
      /\ blocks'[t] = [n \in Pcs(prog[t]) |-> IF status[t][n] = "pending"
                        THEN blocks[t][n] - Cardinality(Wakeups(t, m, n))
                        ELSE blocks[t][n]]
  BY <1>0, <1>3, Zenon DEF Typed
<1>10. \A n \in Pcs(prog[t]) : status[t][n] = "pending" => Idle(t, n) /\ ~In(t, n)
  BY <1>1, <1>6, Zenon DEF Counts, Idle
<1>11. ASSUME NEW n \in Pcs(prog[t])
       PROVE  /\ IsFiniteSet(Waits(t, n)) /\ IsFiniteSet(Waits(t, n)')
              /\ Wakeups(t, m, n) \in SUBSET Waits(t, n)
              /\ Cardinality(Wakeups(t, m, n)) \in Nat /\ Cardinality(Waits(t, n)) \in Nat
              /\ Cardinality(Wakeups(t, m, n)) <= Cardinality(Waits(t, n))
              /\ Cardinality(Waits(t, n)') =
                    Cardinality(Waits(t, n)) - Cardinality(Wakeups(t, m, n))
              /\ Cardinality(Waits(t, n)) = Cardinality(Wakeups(t, m, n)) =>
                    Waits(t, n) = Wakeups(t, m, n)
  <2>1. IsFiniteSet(edges[t])
    BY <1>0, <1>6, PcsNat, Zenon DEF Ground, EdgesFact, FlowTyped
  <2>2. Waits(t, n) \in SUBSET edges[t] /\ Wakeups(t, m, n) \in SUBSET Waits(t, n)
    BY <1>7, Zenon DEF Waits, Wakeups
  <2>3. Waits(t, n)' = Waits(t, n) \ Wakeups(t, m, n)
    BY <1>1, <1>8, Zenon DEF Waits, Wakeups
  <2>4. IsFiniteSet(Waits(t, n))
    BY <2>1, <2>2, Zenon DEF Ground, SubsetFact
  <2>5. /\ IsFiniteSet(Wakeups(t, m, n))
        /\ Cardinality(Wakeups(t, m, n)) <= Cardinality(Waits(t, n))
        /\ Cardinality(Waits(t, n)) = Cardinality(Wakeups(t, m, n)) =>
                    Waits(t, n) = Wakeups(t, m, n)
    BY <2>2, <2>4, Zenon DEF Ground, SubsetFact
  <2>6. Waits(t, n) \cap Wakeups(t, m, n) = Wakeups(t, m, n)
    BY <2>2, Zenon
  <2>7. /\ IsFiniteSet(Waits(t, n) \ Wakeups(t, m, n))
        /\ Cardinality(Waits(t, n) \ Wakeups(t, m, n)) =
            Cardinality(Waits(t, n)) - Cardinality(Waits(t, n) \cap Wakeups(t, m, n))
    BY <2>4, Zenon DEF Ground, DifferenceFact
  <2>8. Cardinality(Wakeups(t, m, n)) \in Nat /\ Cardinality(Waits(t, n)) \in Nat
    BY <2>4, <2>5, Zenon DEF Ground, CardinalityFact
  <2> QED  BY <2>2, <2>3, <2>4, <2>5, <2>6, <2>7, <2>8, Zenon
<1>12. Queues(t, W)
  <2>1. IsFiniteSet(W) /\ IsFiniteSet({<<t, n>> : n \in W})
    <3>1. IsFiniteSet(W)
      BY <1>0, <1>5, PcsNat, Zenon DEF Ground, SubsetFact
    <3>2. [n \in W |-> <<t, n>>] \in Surjection(W, {<<t, n>> : n \in W})
      BY Zenon DEF Surjection
    <3> QED  BY <3>1, <3>2, Zenon DEF Ground, SurjectionFact
  <2> DEFINE E == {<<t, n>> : n \in W}
  <2>2. \A y : y \in E <=> \E n \in W : y = <<t, n>>
    BY Zenon
  <2>3. E \subseteq Threads \X Nat
    BY <1>0, <1>5, PcsNat, SMTT(30)
  <2>4. \A y \in E : y \notin Range(todo)
    BY <1>5, <1>10, Zenon DEF In, Out
  <2>5. order \in Orders(E) /\ IsFiniteSet(E)
    BY <1>4, <2>1, Zenon
  <2> HIDE DEF E
  <2>6. order \in Seq(E) /\ IsInjective(order) /\ Range(order) = E
    BY <2>5, OrderFacts, Zenon
  <2>7. order \in Seq(Threads \X Nat)
    BY <2>3, <2>6
  <2>8. /\ todo \o order \in Seq(Threads \X Nat)
        /\ \A y : y \in Range(todo \o order) <=> y \in Range(todo) \/ y \in Range(order)
        /\ IsInjective(todo) /\ IsInjective(order) /\ Range(todo) \cap Range(order) = {}
                => IsInjective(todo \o order)
    BY <1>0, <2>7, ConcatFacts, Zenon
  <2>9. Range(todo) \cap Range(order) = {}
    BY <2>4, <2>6, Zenon
  <2>10. /\ todo' \in Seq(Threads \X Nat) /\ IsInjective(todo')
         /\ \A y : y \in Range(todo') <=> (y \in Range(todo) \/ \E n \in W : y = <<t, n>>)
    BY <1>0, <1>4, <2>2, <2>6, <2>8, <2>9, Zenon
  <2>11. \A n \in W : ~In(t, n)
    BY <1>5, <1>10, Zenon
  <2> QED  BY <1>1, <1>5, <2>10, <2>11, Zenon DEF Queues
<1>13. /\ Once' /\ Known' /\ ArgsLive'
       /\ \A n \in Pcs(prog[t]) : Out(t, n)' <=> (Out(t, n) \/ n \in W)
       /\ \A u \in Threads \ {t} : \A n :
                <<u, n>> \in Range(todo') <=> <<u, n>> \in Range(todo)
  BY <1>12, Queueing, Zenon DEF Ensures, Queued
<1>14. Typed'
  <2>1. todo' \in Seq(Threads \X Nat)
    BY <1>12, Zenon DEF Queues
  <2> QED  BY <1>0, <1>1, <1>8, <2>1, Zenon DEF Typed
<1>15. Hands'
  BY <1>0, <1>1, Zenon DEF Hands
<1>16. ASSUME NEW u \in Threads, u # t PROVE FlowInv(u)'
  <2>1. Untouched(u)
    BY <1>1, <1>8, <1>13, <1>16, Zenon DEF Untouched
  <2> QED  BY <1>0, <1>14, <2>1, UntouchedFlow, Zenon DEF IInv
<1>17. FlowInv(t)'
  <2>1. ASSUME NEW n \in Pcs(prog[t])
        PROVE  /\ In(t, n)' <=> (In(t, n) \/ n \in W)
               /\ n \notin W => (Idle(t, n)' <=> Idle(t, n))
               /\ Open(t, n)' <=> Open(t, n)
    <3>1. In(t, n)' <=> (In(t, n) \/ n \in W)
      BY <1>7, <1>8, <1>13, Zenon DEF In
    <3>2. n \notin W => (Idle(t, n)' <=> Idle(t, n))
      BY <1>9, <3>1, Zenon DEF Idle
    <3>3. <<t, n>> \in Range(todo') <=> (<<t, n>> \in Range(todo) \/ n \in W)
      BY <1>12, SMTT(30) DEF Queues
    <3>4. n \in W => Open(t, n) /\ Open(t, n)'
      BY <1>5, <1>10, <3>3, Zenon DEF Open
    <3>5. n \notin W => (Open(t, n)' <=> Open(t, n))
      BY <1>1, <3>2, <3>3, Zenon DEF Open
    <3> QED  BY <3>1, <3>2, <3>4, <3>5, Zenon
  <2>2. Ordered(t)' /\ Values(t)'
    <3>1. ASSUME NEW e \in edges[t], e.dst \in W PROVE ~Open(t, e.src)
      <4>1. e.src \in Pcs(prog[t]) /\ e.dst \in Pcs(prog[t])
        BY <1>0, <1>6, PcsNat, EdgeEnds, Zenon DEF FlowTyped
      <4>2. Waits(t, e.dst) = Wakeups(t, m, e.dst)
        <5>1. status[t][e.dst] = "pending" /\ blocks[t][e.dst] = Cardinality(Wakeups(t, m, e.dst))
          BY <1>5, <3>1, Zenon
        <5>2. blocks[t][e.dst] = Cardinality(Waits(t, e.dst))
          BY <1>6, <4>1, <5>1, Zenon DEF Counts
        <5> QED  BY <1>11, <4>1, <5>1, <5>2, Zenon
      <4>3. e.src \in handled[t] \/ e.src = m
        BY <4>2, Zenon DEF Waits, Wakeups
      <4> QED  BY <1>6, <1>7, <4>1, <4>3, HandledClosed, Zenon
    <3>2. \A n \in Pcs(prog[t]) :
                /\ Open(t, n)' <=> Open(t, n)
                /\ n \notin W => (Idle(t, n)' <=> Idle(t, n))
      BY <2>1, Zenon
    <3>3. W \in SUBSET Pcs(prog[t])
      BY <1>5, Zenon
    <3> QED  BY <1>0, <1>1, <1>6, <3>1, <3>2, <3>3, Scheduled, Zenon
  <2>3. /\ status'[t] \in [Pcs(prog[t]) -> {"pending", "running", "wrapup"}]
        /\ blocks'[t] \in [Pcs(prog[t]) -> Nat]
    <3>1. status'[t] \in [Pcs(prog[t]) -> {"pending", "running", "wrapup"}]
      BY <1>6, <1>9, Zenon DEF FlowTyped
    <3>2. ASSUME NEW n \in Pcs(prog[t]), status[t][n] = "pending"
          PROVE  blocks[t][n] - Cardinality(Wakeups(t, m, n)) \in Nat
      <4>1. blocks[t][n] = Cardinality(Waits(t, n))
        BY <1>6, <3>2, Zenon DEF Counts
      <4> QED  BY <1>11, <4>1, SMTT(30)
    <3> QED  BY <1>6, <1>9, <3>1, <3>2, SMTT(30) DEF FlowTyped
  <2>4. FlowTyped(t)'
    <3>1. IsFiniteSet(handled[t])
      BY <1>0, <1>6, PcsNat, Zenon DEF Ground, SubsetFact, FlowTyped
    <3>2. tasks'[t] = Cardinality(handled'[t])
      <4>1. Cardinality(handled[t] \cup {m}) = Cardinality(handled[t]) + 1
        BY <1>7, <3>1, Zenon DEF Ground, AddFact
      <4>2. tasks[t] = Cardinality(handled[t])
        BY <1>6, Zenon DEF FlowTyped
      <4> QED  BY <1>8, <4>1, <4>2, Zenon
    <3> QED  BY <1>1, <1>6, <1>7, <1>8, <2>3, <3>2, Zenon DEF FlowTyped
  <2>5. FlowOnce(t)'
    <3>1. ASSUME NEW n \in Pcs(prog[t])
          PROVE  /\ ~(n \in Range(done'[t]) /\ n \in handled'[t])
                 /\ Out(t, n)' => n \notin Range(done'[t]) /\ n \notin handled'[t]
      <4>1. n \in W => n \notin Range(done[t]) /\ n \notin handled[t]
        BY <1>5, <1>10, Zenon DEF In
      <4>2. /\ ~(n \in Range(done[t]) /\ n \in handled[t])
            /\ Out(t, n) => n \notin Range(done[t]) /\ n \notin handled[t]
        BY <1>6, Zenon DEF FlowOnce
      <4>3. Out(t, n)' <=> (Out(t, n) \/ n \in W)
        BY <1>13, Zenon
      <4> QED  BY <1>7, <1>8, <4>1, <4>2, <4>3, Zenon
    <3> QED  BY <1>1, <1>7, <1>8, <3>1, Zenon DEF FlowOnce
  <2>6. Counts(t)'
    <3> SUFFICES ASSUME NEW n \in Pcs(prog[t])
                 PROVE  /\ status'[t][n] = "pending" =>
                                blocks'[t][n] = Cardinality(Waits(t, n)')
                        /\ In(t, n)' => blocks'[t][n] = 0
                        /\ In(t, n)' => status'[t][n] # "pending"
      BY <1>1, Zenon DEF Counts
    <3>1. CASE status[t][n] # "pending"
      <4>1. n \notin W
        BY <1>5, <3>1, Zenon
      <4>2. status'[t][n] = status[t][n] /\ blocks'[t][n] = blocks[t][n]
        BY <1>9, <3>1, <4>1, Zenon
      <4> QED  BY <1>6, <2>1, <3>1, <4>1, <4>2, Zenon DEF Counts
    <3>2. CASE status[t][n] = "pending"
      <4>1. blocks[t][n] = Cardinality(Waits(t, n)) /\ ~In(t, n)
        BY <1>6, <1>10, <3>2, Zenon DEF Counts
      <4>2. /\ blocks'[t][n] = blocks[t][n] - Cardinality(Wakeups(t, m, n))
            /\ n \in W => status'[t][n] = "running"
        BY <1>9, <3>2, Zenon
      <4>3. blocks'[t][n] = Cardinality(Waits(t, n)')
        BY <1>11, <4>1, <4>2, Zenon
      <4>4. n \in W => blocks'[t][n] = 0
        <5>1. n \in W => blocks[t][n] = Cardinality(Wakeups(t, m, n))
          BY <1>5, Zenon
        <5> QED  BY <1>11, <4>2, <5>1, SMTT(30)
      <4> QED  BY <2>1, <4>1, <4>2, <4>3, <4>4, Zenon
    <3> QED  BY <3>1, <3>2, Zenon
  <2>7. FirstLoop(t)' /\ Ends(t)'
    BY <1>1, Zenon DEF FirstLoop, Ends
  <2> QED  BY <2>2, <2>4, <2>5, <2>6, <2>7, Zenon DEF FlowInv
<1> QED  BY <1>1, <1>13, <1>14, <1>15, <1>16, <1>17, Zenon DEF IInv

-----------------------------------------------------------------------------
(* Flows that begin and end *)

\* No event is left of a flow that was counted to its end, or not begun.
LEMMA NothingOut ==
    ASSUME Ground, IInv, NEW t \in Threads, prog[t] = NoBlock \/ (sched[t] = "return" /\ ~exiting)
    PROVE  \A n : ~Out(t, n)
<1> SUFFICES ASSUME NEW n, Out(t, n) PROVE FALSE
  BY Zenon
<1>0. Typed /\ Known /\ FlowInv(t)
  BY Zenon DEF IInv
<1>1. IsEvent(prog, <<t, n>>)
  BY <1>0, NotNone, Zenon DEF Out, Known
<1>2. n \in Pcs(prog[t])
  BY <1>1, Zenon DEF IsEvent
<1>3. CASE prog[t] = NoBlock
  BY <1>2, <1>3, NoBlockIsBlock, Zenon
<1>4. CASE sched[t] = "return" /\ ~exiting
  <2>1. Cardinality(handled[t]) = Len(prog[t].stmt) /\ handled[t] \in SUBSET Pcs(prog[t])
    BY <1>0, <1>4, Zenon DEF FlowInv, FlowTyped, Ends
  <2>2. IsFiniteSet(Pcs(prog[t])) /\ Cardinality(Pcs(prog[t])) = Len(prog[t].stmt)
    BY <1>0, PcsNat, Zenon
  <2>3. Pcs(prog[t]) = handled[t]
    BY <2>1, <2>2, Zenon DEF Ground, SubsetFact
  <2> QED  BY <1>0, <1>2, <2>3, Zenon DEF FlowInv, FlowOnce
<1> QED  BY <1>3, <1>4, Zenon

\* The new flow of block p.
Enters(t, p) ==
    /\ prog[t] = NoBlock
    /\ runMALdataflow(t, p)
    /\ UNCHANGED <<todo, fe, fnxt, exiting>>
    /\ wpc' \in [Workers -> {"dequeue", "check", "execute", "call", "failed",
                             "lookahead", "done", "exited"}]
    /\ \A w \in Workers : wpc'[w] = wpc[w] \/ (wpc[w] = "execute" /\ wpc'[w] = "call")

\* What follows: the flow of t is new, and it is not in any hands.
Entered(t) ==
    /\ Typed' /\ Once' /\ Known' /\ ArgsLive'
    /\ \A u \in Threads : FlowInv(u)'
    /\ \A u \in Threads : u # t => sched'[u] = sched[u] /\ prog'[u] = prog[u]
    /\ sched'[t] = "enqueue"
    /\ \A w \in Workers : fe[w] # NoEvent => fe[w][1] # t

\* Nothing of the new flow is anywhere yet, and other flows are not affected.
LEMMA Entering ==
    ASSUME NEW t \in Threads, NEW p \in Blocks
    PROVE  Ensures(Enters(t, p), Entered(t))
<1> SUFFICES ASSUME Ground, IInv, Enters(t, p)
             PROVE  Entered(t)
  BY Zenon DEF Ensures
<1> USE DEF Entered
<1>0. Typed /\ Once /\ Known /\ Hands /\ ArgsLive
  BY Zenon DEF IInv
<1>1. \A n : ~Out(t, n)
  BY NothingOut, Zenon DEF Enters
<1>2. /\ DOMAIN prog = Threads /\ DOMAIN error = Threads /\ DOMAIN sched = Threads
      /\ DOMAIN cursor = Threads
  BY <1>0, Zenon DEF Typed
<1>3. /\ DOMAIN edges' = Threads /\ DOMAIN status' = Threads /\ DOMAIN blocks' = Threads
      /\ DOMAIN done' = Threads /\ DOMAIN tasks' = Threads /\ DOMAIN handled' = Threads
      /\ DOMAIN stk' = Threads
  BY <1>0, Zenon DEF Typed, Enters, runMALdataflow
<1>4. /\ prog'[t] = p /\ edges'[t] = DFLOWinitBlk(p)
      /\ status'[t] = [n \in Pcs(p) |-> "pending"]
      /\ error'[t] = FALSE /\ done'[t] = <<>> /\ tasks'[t] = 0 /\ handled'[t] = {}
      /\ stk'[t] = InputVars(p) /\ sched'[t] = "enqueue" /\ cursor'[t] = 1
  BY <1>0, <1>2, Zenon DEF Typed, Enters, runMALdataflow
<1>5. blocks'[t] = [n \in Pcs(p) |-> Cardinality({e \in DFLOWinitBlk(p) : e.dst = n})]
  BY <1>0, Zenon DEF Typed, Enters, runMALdataflow
<1>6. ASSUME NEW u \in Threads, u # t
      PROVE  /\ prog'[u] = prog[u] /\ edges'[u] = edges[u] /\ status'[u] = status[u]
             /\ blocks'[u] = blocks[u] /\ error'[u] = error[u] /\ done'[u] = done[u]
             /\ tasks'[u] = tasks[u] /\ handled'[u] = handled[u] /\ stk'[u] = stk[u]
             /\ sched'[u] = sched[u] /\ cursor'[u] = cursor[u]
  BY <1>0, <1>2, <1>6, Zenon DEF Typed, Enters, runMALdataflow
<1>7. /\ prog' \in [Threads -> Blocks] /\ error' \in [Threads -> BOOLEAN]
      /\ sched' \in [Threads -> {"idle", "enqueue", "mark", "wait", "return"}]
      /\ cursor' \in [Threads -> Nat]
  BY <1>0, Zenon DEF Typed, Enters, runMALdataflow
<1>8. /\ UNCHANGED <<todo, fe, fnxt, exiting>>
      /\ wpc' \in [Workers -> {"dequeue", "check", "execute", "call", "failed",
                               "lookahead", "done", "exited"}]
      /\ \A w \in Workers : wpc'[w] = wpc[w] \/ (wpc[w] = "execute" /\ wpc'[w] = "call")
  BY Zenon DEF Enters
<1>9. Typed'
  BY <1>0, <1>3, <1>7, <1>8, Zenon DEF Typed
<1>10. Once'
  BY <1>0, <1>8, Zenon DEF Once
<1>11. \A x : x # NoEvent /\ IsEvent(prog, x) /\ Out(x[1], x[2]) =>
            x[1] # t /\ IsEvent(prog', x)
  BY <1>1, <1>6, Zenon DEF IsEvent
<1>12. ASSUME NEW w \in Workers, fe[w] # NoEvent
       PROVE  /\ IsEvent(prog, fe[w]) /\ fe[w][1] \in Threads /\ fe[w][1] # t
  <2>1. IsEvent(prog, fe[w])
    BY <1>0, <1>12, Zenon DEF Known
  <2>2. fe[w] = <<fe[w][1], fe[w][2]>> /\ fe[w][1] \in Threads
    BY <2>1, Zenon DEF IsEvent
  <2>3. Out(fe[w][1], fe[w][2])
    BY <2>2, Zenon DEF Out
  <2> QED  BY <1>1, <2>1, <2>2, <2>3, Zenon
<1>13. Known'
  <2>1. ASSUME NEW x \in Range(todo) PROVE IsEvent(prog', x)
    <3>1. IsEvent(prog, x)
      BY <1>0, Zenon DEF Known
    <3>2. x = <<x[1], x[2]>>
      BY <3>1, Zenon DEF IsEvent
    <3>3. Out(x[1], x[2])
      BY <3>2, Zenon DEF Out
    <3> QED  BY <1>11, <3>1, <3>2, <3>3, NotNone, Zenon
  <2>2. ASSUME NEW w \in Workers, fe[w] # NoEvent PROVE IsEvent(prog', fe[w])
    BY <1>6, <1>12, <2>2, Zenon DEF IsEvent
  <2>3. ASSUME NEW w \in Workers, fnxt[w] # NoEvent PROVE IsEvent(prog', fnxt[w])
    <3>1. IsEvent(prog, fnxt[w])
      BY <1>0, <2>3, Zenon DEF Known
    <3>2. fnxt[w] = <<fnxt[w][1], fnxt[w][2]>>
      BY <3>1, Zenon DEF IsEvent
    <3>3. Out(fnxt[w][1], fnxt[w][2])
      BY <3>2, Zenon DEF Out
    <3> QED  BY <1>11, <2>3, <3>1, <3>3, Zenon
  <2> QED  BY <1>8, <2>1, <2>2, <2>3, Zenon DEF Known
<1>14. ArgsLive'
  <2> SUFFICES ASSUME NEW w \in Workers, wpc'[w] \in {"execute", "call"}
               PROVE  Args(prog'[fe[w][1]], fe[w][2]) \subseteq stk'[fe[w][1]]
    BY <1>8, Zenon DEF ArgsLive
  <2>1. wpc[w] \in {"execute", "call"}
    BY <1>8, Zenon
  <2>2. fe[w] # NoEvent
    BY <1>0, <2>1, Zenon DEF Hands
  <2>3. fe[w][1] \in Threads /\ fe[w][1] # t
    BY <1>12, <2>2, Zenon
  <2>4. prog'[fe[w][1]] = prog[fe[w][1]] /\ stk'[fe[w][1]] = stk[fe[w][1]]
    BY <1>6, <2>3, Zenon
  <2> QED  BY <1>0, <2>1, <2>4, Zenon DEF ArgsLive
<1>15. ASSUME NEW u \in Threads, u # t PROVE FlowInv(u)'
  <2>1. \A w \in Workers : wpc'[w] \in Early <=> wpc[w] \in Early
    BY <1>8, Zenon DEF Early
  <2>2. Untouched(u)
    BY <1>6, <1>8, <1>15, <2>1, Zenon DEF Untouched
  <2> QED  BY <1>0, <1>9, <2>2, UntouchedFlow, Zenon DEF IInv
<1>16. FlowInv(t)'
  <2>1. IsBlock(p) /\ IsFiniteSet(DFLOWinitBlk(p)) /\ Pcs(p) \subseteq Nat \ {0}
    <3>1. IsBlock(p)
      BY AllBlocksAre, Zenon
    <3> QED  BY <3>1, PcsFacts DEF Ground, EdgesFact
  <2>2. \A n \in Pcs(p) : Out(t, n)' <=> Out(t, n)
    BY <1>8, Zenon DEF Out
  <2>3. \A n \in Pcs(p) : ~Out(t, n)' /\ ~In(t, n)' /\ Idle(t, n)' /\ Open(t, n)'
    <3> TAKE n \in Pcs(p)
    <3>1. ~Out(t, n)'
      BY <1>1, <2>2, Zenon
    <3>2. ~In(t, n)'
      BY <1>4, <3>1, SMTT(30) DEF In, Range
    <3>3. Idle(t, n)'
      BY <1>4, <3>2, Zenon DEF Idle
    <3> QED  BY <3>1, <3>2, <3>3, Zenon DEF Open
  <2>4. ASSUME NEW n \in Pcs(p)
        PROVE  /\ blocks'[t][n] = Cardinality(Waits(t, n)')
               /\ Cardinality({e \in DFLOWinitBlk(p) : e.dst = n}) \in Nat
    <3>1. Waits(t, n)' = {e \in DFLOWinitBlk(p) : e.dst = n}
      BY <1>4, Zenon DEF Waits
    <3>2. {e \in DFLOWinitBlk(p) : e.dst = n} \in SUBSET DFLOWinitBlk(p)
      BY Zenon
    <3>3. Cardinality({e \in DFLOWinitBlk(p) : e.dst = n}) \in Nat
      BY <2>1, <3>2, Zenon DEF Ground, SubsetFact, CardinalityFact
    <3> QED  BY <1>5, <3>1, <3>3, Zenon
  <2>5. FlowTyped(t)'
    <3>1. blocks'[t] \in [Pcs(p) -> Nat]
      BY <1>5, <2>4, Zenon
    <3>2. InputVars(p) \subseteq BlockVars(p)
      BY Zenon DEF InputVars
    <3> QED  BY <1>4, <3>1, <3>2 DEF Ground, EmptyFact, FlowTyped
  <2>6. FlowOnce(t)'
    BY <1>4, <2>3, SMTT(30) DEF FlowOnce, IsInjective, Range
  <2>7. Counts(t)'
    BY <1>4, <2>3, <2>4, Zenon DEF Counts
  <2>8. FirstLoop(t)'
    BY <1>4, <2>3, Zenon DEF FirstLoop
  <2>9. Ordered(t)'
    BY <1>4, <2>1, <2>3, EdgeEnds, Zenon DEF Ordered
  <2>10. Values(t)' /\ Ends(t)'
    BY <1>4, <2>3, Zenon DEF Values, Ends
  <2> QED  BY <2>5, <2>6, <2>7, <2>8, <2>9, <2>10, Zenon DEF FlowInv
<1> QED  BY <1>4, <1>6, <1>9, <1>10, <1>12, <1>13, <1>14, <1>15, <1>16, Zenon

\* A client enters runMALdataflow.
LEMMA ClientEnterStep ==
    ASSUME NEW c \in Clients
    PROVE  Preserves(ClientEnter(c))
<1> SUFFICES ASSUME Ground, IInv, ClientEnter(c)
             PROVE  IInv'
  BY Zenon DEF Preserves
<1>0. Typed /\ Hands /\ c \in Threads /\ c \notin Workers
  BY ThreadsAssumption, Zenon DEF IInv, Threads
<1>1. PICK p \in Programs : runMALdataflow(c, p)
  BY Zenon DEF ClientEnter
<1>2. UNCHANGED <<todo, wpc, fe, fnxt, exiting>> /\ sched[c] = "idle" /\ ~exiting
  BY Zenon DEF ClientEnter, workvars
<1>3. Enters(c, p) /\ p \in Blocks
  <2>1. prog[c] = NoBlock
    BY <1>0, <1>2, Zenon DEF IInv, FlowInv, Ends
  <2> QED  BY <1>0, <1>1, <1>2, <2>1, Zenon DEF Enters, Typed, Blocks
<1>4. /\ Typed' /\ Once' /\ Known' /\ ArgsLive'
      /\ \A u \in Threads : FlowInv(u)'
      /\ \A u \in Threads : u # c => sched'[u] = sched[u] /\ prog'[u] = prog[u]
  BY <1>0, <1>3, Entering, Zenon DEF Ensures, Entered
<1>5. Hands'
  <2>1. \A w \in Workers : sched'[w] = sched[w] /\ prog'[w] = prog[w]
    BY <1>0, <1>4, Zenon DEF Threads
  <2> QED  BY <1>0, <1>2, <2>1, Zenon DEF Hands
<1> QED  BY <1>2, <1>4, <1>5, Zenon DEF IInv

\* A worker that executes a call enters runMALdataflow itself.
LEMMA WorkerCallStep ==
    ASSUME NEW w \in Workers
    PROVE  Preserves(WorkerCall(w))
<1> SUFFICES ASSUME Ground, IInv, WorkerCall(w)
             PROVE  IInv'
  BY Zenon DEF Preserves
<1>0. Typed /\ Hands /\ w \in Threads /\ wpc[w] = "execute"
  BY Zenon DEF IInv, Threads, WorkerCall
<1>1. PICK p \in Callees : runMALdataflow(w, p)
  BY Zenon DEF WorkerCall
<1>2. UNCHANGED <<todo, fe, fnxt, exiting>> /\ wpc' = [wpc EXCEPT ![w] = "call"]
  BY Zenon DEF WorkerCall
<1>3. wpc'[w] = "call" /\ \A u \in Workers \ {w} : wpc'[u] = wpc[u]
  BY <1>0, <1>2, Zenon DEF Typed
<1>4. Enters(w, p) /\ p \in Blocks
  <2>1. prog[w] = NoBlock
    BY <1>0, Zenon DEF Hands
  <2> QED  BY <1>0, <1>1, <1>2, <1>3, <2>1, Zenon DEF Enters, Typed, Blocks
<1>5. /\ Typed' /\ Once' /\ Known' /\ ArgsLive'
      /\ \A u \in Threads : FlowInv(u)'
      /\ \A u \in Threads : u # w => sched'[u] = sched[u] /\ prog'[u] = prog[u]
      /\ sched'[w] = "enqueue"
      /\ \A u \in Workers : fe[u] # NoEvent => fe[u][1] # w
  BY <1>0, <1>4, Entering, Zenon DEF Ensures, Entered
<1>6. Hands'
  <2>1. \A u \in Workers : u # w => sched'[u] = sched[u] /\ prog'[u] = prog[u]
    BY <1>5, Zenon DEF Threads
  <2>2. fe[w] # NoEvent /\ fe[w][1] # w /\ fnxt[w] = NoEvent
    BY <1>0, <1>5, Zenon DEF Hands
  <2> SUFFICES ASSUME NEW u \in Workers
               PROVE  /\ fe'[u] = NoEvent <=> wpc'[u] \in {"dequeue", "exited"}
                      /\ fnxt'[u] # NoEvent => wpc'[u] \in {"dequeue", "done"}
                      /\ sched'[u] # "idle" <=> wpc'[u] = "call"
                      /\ wpc'[u] = "execute" => prog'[u] = NoBlock
                      /\ wpc'[u] = "call" => fe'[u][1] # u
    BY Zenon DEF Hands
  <2>3. fe'[u] = fe[u] /\ fnxt'[u] = fnxt[u]
    BY <1>2, Zenon
  <2>4. CASE u = w
    BY <1>3, <1>5, <2>2, <2>3, <2>4, Zenon
  <2>5. CASE u # w
    <3>1. wpc'[u] = wpc[u] /\ sched'[u] = sched[u] /\ prog'[u] = prog[u]
      BY <1>3, <2>1, <2>5, Zenon
    <3> QED  BY <1>0, <2>3, <3>1, Zenon DEF Hands
  <2> QED  BY <2>4, <2>5, Zenon
<1> QED  BY <1>2, <1>5, <1>6, Zenon DEF IInv

\* The flow of t is freed, or abandoned while the server exits.
Frees(t) ==
    /\ FreeFlow(t)
    /\ status'[t] = IF exiting THEN status[t] ELSE <<>>
    /\ stk'[t] = IF exiting THEN stk[t] ELSE {}
    /\ UNCHANGED <<todo, fe, fnxt, exiting>>
    /\ DOMAIN status' = Threads /\ DOMAIN stk' = Threads
    /\ wpc' \in [Workers -> {"dequeue", "check", "execute", "call", "failed",
                             "lookahead", "done", "exited"}]
    /\ \A w \in Workers : wpc'[w] = wpc[w] \/ fe[w][1] # t

\* What follows: the flow of t is gone, and the others are as before.
Freed(t) ==
    /\ Typed' /\ Once' /\ Known' /\ FlowInv(t)' /\ sched'[t] = "idle"
    /\ \A u \in Threads : u # t =>
         /\ prog'[u] = prog[u] /\ edges'[u] = edges[u]
         /\ blocks'[u] = blocks[u] /\ error'[u] = error[u] /\ done'[u] = done[u]
         /\ tasks'[u] = tasks[u] /\ handled'[u] = handled[u]
         /\ sched'[u] = sched[u] /\ cursor'[u] = cursor[u]
    /\ ~exiting => \A w \in Workers : fe[w] # NoEvent => fe[w][1] # t
    /\ exiting => UNCHANGED <<prog, error>>
    /\ prog'[t] \in {prog[t], NoBlock}

\* No worker holds an event of the flow unless the server exits.
LEMMA Freeing ==
    ASSUME NEW t \in Threads
    PROVE  Ensures(Frees(t), Freed(t))
<1> SUFFICES ASSUME Ground, IInv, Frees(t)
             PROVE  Freed(t)
  BY Zenon DEF Ensures
<1> USE DEF Freed
<1>0. Typed /\ Once /\ Known /\ FlowInv(t) /\ exiting \in BOOLEAN
  BY Zenon DEF IInv, Typed
<1>1. /\ sched[t] = "return" /\ done[t] = <<>>
      /\ sched' = [sched EXCEPT ![t] = "idle"]
      /\ UNCHANGED <<todo, fe, fnxt, exiting>>
      /\ exiting => UNCHANGED <<prog, edges, blocks, error, done, tasks, handled, cursor>>
      /\ ~exiting => /\ prog' = [prog EXCEPT ![t] = NoBlock]
                     /\ edges' = [edges EXCEPT ![t] = {}]
                     /\ blocks' = [blocks EXCEPT ![t] = <<>>]
                     /\ error' = [error EXCEPT ![t] = FALSE]
                     /\ tasks' = [tasks EXCEPT ![t] = 0]
                     /\ handled' = [handled EXCEPT ![t] = {}]
                     /\ cursor' = [cursor EXCEPT ![t] = 0]
                     /\ UNCHANGED done
  BY Zenon DEF Frees, FreeFlow
<1>2. /\ prog' \in [Threads -> Blocks] /\ error' \in [Threads -> BOOLEAN]
      /\ sched' \in [Threads -> {"idle", "enqueue", "mark", "wait", "return"}]
      /\ cursor' \in [Threads -> Nat] /\ sched'[t] = "idle"
      /\ DOMAIN edges' = Threads /\ DOMAIN blocks' = Threads /\ DOMAIN done' = Threads
      /\ DOMAIN tasks' = Threads /\ DOMAIN handled' = Threads
  <2>1. /\ sched' \in [Threads -> {"idle", "enqueue", "mark", "wait", "return"}]
        /\ sched'[t] = "idle"
    BY <1>0, <1>1, Zenon DEF Typed
  <2>2. CASE exiting
    BY <1>0, <1>1, <2>1, <2>2, Zenon DEF Typed
  <2>3. CASE ~exiting
    <3>a. NoBlock \in Blocks
      BY Zenon DEF Blocks
    <3>b. prog \in [Threads -> Blocks] /\ prog' = [prog EXCEPT ![t] = NoBlock]
      BY <1>0, <1>1, <2>3, Zenon DEF Typed
    <3>c. prog' \in [Threads -> Blocks]
      BY <3>a, <3>b, Zenon
    <3>1. /\ prog' \in [Threads -> Blocks] /\ error' \in [Threads -> BOOLEAN]
          /\ cursor' \in [Threads -> Nat]
      <4>1. error' = [error EXCEPT ![t] = FALSE] /\ error \in [Threads -> BOOLEAN]
        BY <1>0, <1>1, <2>3, Zenon DEF Typed
      <4>2. cursor' = [cursor EXCEPT ![t] = 0] /\ cursor \in [Threads -> Nat]
        BY <1>0, <1>1, <2>3, Zenon DEF Typed
      <4>3. error' \in [Threads -> BOOLEAN]
        BY <4>1, Zenon
      <4>4. cursor' \in [Threads -> Nat]
        BY <4>2, Zenon
      <4> QED  BY <3>c, <4>3, <4>4, Zenon
    <3>2. /\ DOMAIN edges' = Threads /\ DOMAIN blocks' = Threads /\ DOMAIN done' = Threads
          /\ DOMAIN tasks' = Threads /\ DOMAIN handled' = Threads
      BY <1>0, <1>1, <2>3, Zenon DEF Typed
    <3> QED  BY <2>1, <3>1, <3>2, Zenon
  <2> QED  BY <1>0, <2>2, <2>3, Zenon
<1>3. Typed'
  BY <1>0, <1>1, <1>2 DEF Typed, Frees
<1>4. ASSUME NEW u \in Threads, u # t
      PROVE  /\ prog'[u] = prog[u] /\ edges'[u] = edges[u]
             /\ blocks'[u] = blocks[u] /\ error'[u] = error[u] /\ done'[u] = done[u]
             /\ tasks'[u] = tasks[u] /\ handled'[u] = handled[u]
             /\ sched'[u] = sched[u] /\ cursor'[u] = cursor[u]
  BY <1>0, <1>1, <1>4 DEF Typed
<1>5. Once'
  BY <1>0, <1>1, Zenon DEF Once
<1>6. ~exiting => \A n : ~Out(t, n)
  BY <1>1, NothingOut, Zenon
<1>7. ASSUME NEW x, IsEvent(prog, x), Out(x[1], x[2])
      PROVE  IsEvent(prog', x) /\ (~exiting => x[1] # t)
  <2>1. x[1] \in Threads /\ x[2] \in Pcs(prog[x[1]]) /\ x = <<x[1], x[2]>>
    BY <1>7, Zenon DEF IsEvent
  <2>2. ~exiting => x[1] # t
    BY <1>6, <1>7, Zenon
  <2>3. prog'[x[1]] = prog[x[1]]
    BY <1>1, <1>4, <2>1, <2>2, Zenon
  <2> QED  BY <2>1, <2>2, <2>3, Zenon DEF IsEvent
<1>8. Known' /\ (~exiting => \A w \in Workers : fe[w] # NoEvent => fe[w][1] # t)
  <2>1. ASSUME NEW x \in Range(todo) PROVE IsEvent(prog', x)
    <3>1. IsEvent(prog, x)
      BY <1>0, Zenon DEF Known
    <3>2. x = <<x[1], x[2]>>
      BY <3>1, Zenon DEF IsEvent
    <3>3. Out(x[1], x[2])
      BY <3>2, Zenon DEF Out
    <3> QED  BY <1>7, <3>1, <3>3, Zenon
  <2>2. ASSUME NEW w \in Workers, fe[w] # NoEvent
        PROVE  IsEvent(prog', fe[w]) /\ (~exiting => fe[w][1] # t)
    <3>1. IsEvent(prog, fe[w])
      BY <1>0, <2>2, Zenon DEF Known
    <3>2. fe[w] = <<fe[w][1], fe[w][2]>>
      BY <3>1, Zenon DEF IsEvent
    <3>3. Out(fe[w][1], fe[w][2])
      BY <3>2, Zenon DEF Out
    <3> QED  BY <1>7, <3>1, <3>3, Zenon
  <2>3. ASSUME NEW w \in Workers, fnxt[w] # NoEvent PROVE IsEvent(prog', fnxt[w])
    <3>1. IsEvent(prog, fnxt[w])
      BY <1>0, <2>3, Zenon DEF Known
    <3>2. fnxt[w] = <<fnxt[w][1], fnxt[w][2]>>
      BY <3>1, Zenon DEF IsEvent
    <3>3. Out(fnxt[w][1], fnxt[w][2])
      BY <3>2, Zenon DEF Out
    <3> QED  BY <1>7, <3>1, <3>3, Zenon
  <2> QED  BY <1>1, <2>1, <2>2, <2>3, Zenon DEF Known
<1>9. FlowInv(t)'
  <2>1. CASE ~exiting
    <3>1. /\ prog'[t] = NoBlock /\ Pcs(prog'[t]) = {} /\ edges'[t] = {}
          /\ DFLOWinitBlk(prog'[t]) = {} /\ blocks'[t] = <<>> /\ done'[t] = <<>>
          /\ tasks'[t] = 0 /\ handled'[t] = {} /\ sched'[t] = "idle"
          /\ status'[t] = <<>> /\ stk'[t] = {}
      BY <1>0, <1>1, <2>1, NoBlockIsBlock DEF Typed, Frees
    <3>2. FlowTyped(t)'
      BY <3>1, SMTT(30) DEF Ground, EmptyFact, FlowTyped
    <3>3. FlowOnce(t)'
      BY <3>1, SMTT(30) DEF FlowOnce, IsInjective
    <3>4. Counts(t)' /\ FirstLoop(t)' /\ Ordered(t)'
      BY <3>1, Zenon DEF Counts, FirstLoop, Ordered
    <3>5. BlockVars(prog'[t]) = {}
      BY <3>1, Zenon DEF BlockVars
    <3>6. Values(t)' /\ Ends(t)'
      BY <3>1, <3>5, Zenon DEF Values, Ends
    <3> QED  BY <3>2, <3>3, <3>4, <3>6, Zenon DEF FlowInv
  <2>2. CASE exiting
    <3>1. /\ prog'[t] = prog[t] /\ edges'[t] = edges[t] /\ blocks'[t] = blocks[t]
          /\ done'[t] = done[t] /\ tasks'[t] = tasks[t] /\ handled'[t] = handled[t]
          /\ cursor'[t] = cursor[t] /\ status'[t] = status[t] /\ stk'[t] = stk[t]
          /\ exiting'
      BY <1>1, <2>2, Zenon DEF Frees
    <3>2. ASSUME NEW n \in Pcs(prog[t])
          PROVE  /\ Out(t, n)' <=> Out(t, n)
                 /\ In(t, n)' <=> In(t, n)
                 /\ Idle(t, n)' <=> Idle(t, n)
                 /\ Open(t, n)' <=> Open(t, n)
      <4>1. Same(t, n)
        BY <1>1 DEF Same, Frees
      <4> QED  BY <3>1, <4>1, SameFacts, Zenon
    <3>3. Counts(t)' /\ FirstLoop(t)' /\ Ordered(t)'
      BY <1>0, <1>1, <1>2, <3>1, <3>2, QuietFlow, Zenon
    <3>4. FlowTyped(t)' /\ FlowOnce(t)'
      BY <1>0, <3>1, <3>2, Zenon DEF FlowInv, FlowTyped, FlowOnce
    <3>5. Values(t)' /\ Ends(t)'
      BY <3>1, Zenon DEF Values, Ends
    <3> QED  BY <3>3, <3>4, <3>5, Zenon DEF FlowInv
  <2> QED  BY <1>0, <2>1, <2>2, Zenon
<1>10. prog'[t] \in {prog[t], NoBlock}
  BY <1>0, <1>1, Zenon DEF Typed
<1> QED  BY <1>1, <1>2, <1>3, <1>4, <1>5, <1>8, <1>9, <1>10, Zenon

\* A client returns from runMALdataflow.
LEMMA ClientReturnStep ==
    ASSUME NEW c \in Clients
    PROVE  Preserves(ClientReturn(c))
<1> SUFFICES ASSUME Ground, IInv, ClientReturn(c)
             PROVE  IInv'
  BY Zenon DEF Preserves
<1>0. Typed /\ Hands /\ ArgsLive /\ c \in Threads /\ c \notin Workers /\ exiting \in BOOLEAN
  BY ThreadsAssumption, Zenon DEF IInv, Threads, Typed
<1>1. /\ FreeFlow(c) /\ UNCHANGED <<todo, wpc, fe, fnxt, exiting>>
      /\ status' = [status EXCEPT ![c] = IF exiting THEN @ ELSE <<>>]
      /\ stk' = [stk EXCEPT ![c] = IF exiting THEN @ ELSE {}]
  BY Zenon DEF ClientReturn, workvars
<1>2. /\ DOMAIN status' = Threads /\ DOMAIN stk' = Threads
      /\ status'[c] = IF exiting THEN status[c] ELSE <<>>
      /\ stk'[c] = IF exiting THEN stk[c] ELSE {}
      /\ \A u \in Threads : u # c => status'[u] = status[u] /\ stk'[u] = stk[u]
      /\ exiting => stk'[c] = stk[c]
  BY <1>0, <1>1, Zenon DEF Typed
<1>3. Frees(c)
  BY <1>0, <1>1, <1>2, Zenon DEF Frees, Typed
<1>4. /\ Typed' /\ Once' /\ Known' /\ FlowInv(c)' /\ sched'[c] = "idle"
      /\ \A u \in Threads : u # c =>
                /\ prog'[u] = prog[u] /\ edges'[u] = edges[u]
                /\ blocks'[u] = blocks[u] /\ error'[u] = error[u] /\ done'[u] = done[u]
                /\ tasks'[u] = tasks[u] /\ handled'[u] = handled[u]
                /\ sched'[u] = sched[u] /\ cursor'[u] = cursor[u]
      /\ ~exiting => \A w \in Workers : fe[w] # NoEvent => fe[w][1] # c
      /\ exiting => UNCHANGED <<prog, error>>
  BY <1>0, <1>3, Freeing, Zenon DEF Ensures, Freed
<1>5. Hands'
  <2>1. \A w \in Workers : sched'[w] = sched[w] /\ prog'[w] = prog[w]
    BY <1>0, <1>4, Zenon DEF Threads
  <2> QED  BY <1>0, <1>1, <2>1, Zenon DEF Hands
<1>6. ArgsLive'
  <2> SUFFICES ASSUME NEW w \in Workers, wpc[w] \in {"execute", "call"}
               PROVE  Args(prog'[fe[w][1]], fe[w][2]) \subseteq stk'[fe[w][1]]
    BY <1>1, Zenon DEF ArgsLive
  <2>1. fe[w] # NoEvent
    BY <1>0, Zenon DEF Hands
  <2>2. fe[w][1] \in Threads
    BY <2>1, Holding, Zenon DEF IInv
  <2>3. prog'[fe[w][1]] = prog[fe[w][1]] /\ stk'[fe[w][1]] = stk[fe[w][1]]
    BY <1>0, <1>2, <1>4, <2>1, <2>2, Zenon
  <2> QED  BY <1>0, <2>3, Zenon DEF ArgsLive
<1>7. ASSUME NEW u \in Threads, u # c PROVE FlowInv(u)'
  <2>1. Untouched(u)
    BY <1>1, <1>2, <1>4, <1>7, Zenon DEF Untouched
  <2> QED  BY <1>0, <1>4, <2>1, UntouchedFlow, Zenon DEF IInv
<1> QED  BY <1>1, <1>4, <1>5, <1>6, <1>7, Zenon DEF IInv

\* The block of a called function ends, and with it the instruction that called.
LEMMA WorkerReturnStep ==
    ASSUME NEW w \in Workers
    PROVE  Preserves(WorkerReturn(w))
<1> SUFFICES ASSUME Ground, IInv, WorkerReturn(w)
             PROVE  IInv'
  BY Zenon DEF Preserves
<1>0. /\ Typed /\ Once /\ Hands /\ Known /\ ArgsLive /\ wpc[w] = "call"
      /\ w \in Threads /\ exiting \in BOOLEAN
  BY Zenon DEF IInv, Threads, Typed, WorkerReturn
<1>1. fe[w] # NoEvent /\ IsEvent(prog, fe[w]) /\ fe[w][1] # w /\ fnxt[w] = NoEvent
  BY <1>0, Zenon DEF Hands, Known
<1>2. PICK t \in Threads : t = fe[w][1] /\ t # w
  BY <1>1, Zenon DEF IsEvent
<1>3. PICK n \in Pcs(prog[t]) : fe[w] = <<t, n>>
  BY <1>1, <1>2, Zenon DEF IsEvent
<1>4. PICK pc \in {"failed", "lookahead"} : pc = IF error[w] THEN "failed" ELSE "lookahead"
  BY Zenon
<1>5. /\ FreeFlow(w) /\ UNCHANGED <<todo, fe, fnxt, exiting>>
      /\ wpc' = [wpc EXCEPT ![w] = pc]
  BY <1>4, Zenon DEF WorkerReturn
<1>6. /\ status' = [status EXCEPT ![w] = IF exiting THEN @ ELSE <<>>, ![t][n] = "wrapup"]
      /\ stk' = [stk EXCEPT ![w] = IF exiting THEN @ ELSE {},
                            ![t] = IF error[w] THEN @ ELSE Executed(t, n)]
  BY <1>3 DEF WorkerReturn
<1>7. /\ DOMAIN status' = Threads
      /\ status'[w] = IF exiting THEN status[w] ELSE <<>>
      /\ \A u \in Threads : u # w /\ u # t => status'[u] = status[u]
      /\ status'[t] = [status[t] EXCEPT ![n] = "wrapup"]
  BY <1>0, <1>2, <1>6, Zenon DEF Typed
<1>8. /\ DOMAIN stk' = Threads
      /\ stk'[w] = IF exiting THEN stk[w] ELSE {}
      /\ \A u \in Threads : u # w /\ u # t => stk'[u] = stk[u]
      /\ stk'[t] = IF error[w] THEN stk[t] ELSE Executed(t, n)
  BY <1>0, <1>2, <1>6, Zenon DEF Typed
<1>9. wpc'[w] = pc /\ \A u \in Workers \ {w} : wpc'[u] = wpc[u]
  BY <1>0, <1>5, Zenon DEF Typed
<1>10. Frees(w)
  <2>1. wpc' \in [Workers -> {"dequeue", "check", "execute", "call", "failed",
                              "lookahead", "done", "exited"}]
    BY <1>0, <1>4, <1>5, Zenon DEF Typed
  <2>2. \A u \in Workers : wpc'[u] = wpc[u] \/ fe[u][1] # w
    BY <1>1, <1>9, Zenon
  <2> QED  BY <1>5, <1>7, <1>8, <2>1, <2>2, Zenon DEF Frees
<1>11. /\ Typed' /\ Once' /\ Known' /\ FlowInv(w)' /\ sched'[w] = "idle"
       /\ \A u \in Threads : u # w =>
                /\ prog'[u] = prog[u] /\ edges'[u] = edges[u]
                /\ blocks'[u] = blocks[u] /\ error'[u] = error[u] /\ done'[u] = done[u]
                /\ tasks'[u] = tasks[u] /\ handled'[u] = handled[u]
                /\ sched'[u] = sched[u] /\ cursor'[u] = cursor[u]
       /\ ~exiting => \A u \in Workers : fe[u] # NoEvent => fe[u][1] # w
       /\ exiting => UNCHANGED <<prog, error>>
  BY <1>0, <1>10, Freeing, Zenon DEF Ensures, Freed
<1>12. Hands'
  <2>1. \A u \in Workers : u # w => sched'[u] = sched[u] /\ prog'[u] = prog[u]
    BY <1>11, Zenon DEF Threads
  <2> SUFFICES ASSUME NEW u \in Workers
               PROVE  /\ fe'[u] = NoEvent <=> wpc'[u] \in {"dequeue", "exited"}
                      /\ fnxt'[u] # NoEvent => wpc'[u] \in {"dequeue", "done"}
                      /\ sched'[u] # "idle" <=> wpc'[u] = "call"
                      /\ wpc'[u] = "execute" => prog'[u] = NoBlock
                      /\ wpc'[u] = "call" => fe'[u][1] # u
    BY Zenon DEF Hands
  <2>2. fe'[u] = fe[u] /\ fnxt'[u] = fnxt[u]
    BY <1>5, Zenon
  <2>3. CASE u = w
    <3>1. wpc'[u] \in {"failed", "lookahead"}
      BY <1>4, <1>9, <2>3, Zenon
    <3>2. wpc'[u] \notin {"dequeue", "exited", "call", "execute"}
      BY <3>1
    <3> QED  BY <1>1, <1>11, <2>2, <2>3, <3>2, Zenon
  <2>4. CASE u # w
    <3>1. wpc'[u] = wpc[u] /\ sched'[u] = sched[u] /\ prog'[u] = prog[u]
      BY <1>9, <2>1, <2>4, Zenon
    <3> QED  BY <1>0, <2>2, <3>1, Zenon DEF Hands
  <2> QED  BY <2>3, <2>4, Zenon
<1>13. ASSUME NEW u \in Threads, u # w, u # t PROVE FlowInv(u)'
  <2>1. \A m : <<u, m>> # <<t, n>>
    BY <1>13, Zenon
  <2>2. /\ prog'[u] = prog[u] /\ edges'[u] = edges[u]
        /\ blocks'[u] = blocks[u] /\ error'[u] = error[u] /\ done'[u] = done[u]
        /\ tasks'[u] = tasks[u] /\ handled'[u] = handled[u]
        /\ sched'[u] = sched[u] /\ cursor'[u] = cursor[u]
    BY <1>11, <1>13, Zenon
  <2>3. status'[u] = status[u] /\ stk'[u] = stk[u]
    BY <1>7, <1>8, <1>13, Zenon
  <2>4. \A v \in Workers : fe[v] # <<t, n>> => wpc'[v] = wpc[v]
    BY <1>3, <1>9, Zenon
  <2>5. Untouched(u)
    BY <1>5, <2>1, <2>2, <2>3, <2>4, Zenon DEF Untouched
  <2> QED  BY <1>0, <1>11, <2>5, UntouchedFlow, Zenon DEF IInv
<1>14. /\ FlowInv(t) /\ FlowTyped(t)
       /\ status[t] \in [Pcs(prog[t]) -> {"pending", "running", "wrapup"}]
  BY Zenon DEF IInv, FlowInv, FlowTyped
<1>15. /\ status'[t] \in [Pcs(prog[t]) -> {"pending", "running", "wrapup"}]
       /\ status'[t][n] = "wrapup"
       /\ \A m \in Pcs(prog[t]) : m # n => status'[t][m] = status[t][m]
  BY <1>7, <1>14, Zenon
<1>16. /\ prog'[t] = prog[t] /\ edges'[t] = edges[t] /\ blocks'[t] = blocks[t]
       /\ error'[t] = error[t] /\ done'[t] = done[t] /\ tasks'[t] = tasks[t]
       /\ handled'[t] = handled[t] /\ sched'[t] = sched[t] /\ cursor'[t] = cursor[t]
  BY <1>2, <1>11, Zenon
<1>17. /\ \A m \in Pcs(prog[t]) : (Out(t, m)' <=> Out(t, m)) /\ (In(t, m)' <=> In(t, m))
       /\ In(t, n) /\ Open(t, n)
  <2>1. \A m \in Pcs(prog[t]) : Out(t, m)' <=> Out(t, m)
    BY <1>5, Zenon DEF Out
  <2>2. \A m \in Pcs(prog[t]) : In(t, m)' <=> In(t, m)
    BY <1>16, <2>1, Zenon DEF In
  <2>3. In(t, n) /\ Open(t, n)
    BY <1>0, <1>3, Zenon DEF In, Out, Open, Early
  <2> QED  BY <2>1, <2>2, <2>3, Zenon
<1>18. ASSUME NEW m \in Pcs(prog[t]), m # n PROVE Open(t, m)' <=> Open(t, m)
  <2>1. <<t, m>> # <<t, n>>
    BY <1>18, Zenon
  <2>2. Same(t, m)
    BY <1>3, <1>5, <1>9, <2>1, Zenon DEF Same
  <2> QED  BY <1>15, <1>16, <1>18, <2>2, SameFacts, Zenon
<1>19. Open(t, n)' <=> pc = "failed"
  <2>1. <<t, n>> \notin Range(todo) /\ \A u \in Workers : fnxt[u] # <<t, n>>
    BY <1>0, <1>1, <1>3, Zenon DEF Once
  <2>2. ASSUME NEW u \in Workers, fe[u] = <<t, n>> PROVE u = w
    BY <1>0, <1>1, <1>3, <2>2, Zenon DEF Once
  <2>3. ~Idle(t, n)'
    BY <1>15, Zenon DEF Idle
  <2> QED  BY <1>3, <1>4, <1>5, <1>9, <2>1, <2>2, <2>3, Zenon DEF Open, Early
<1>20. Counts(t)' /\ FirstLoop(t)' /\ Ordered(t)'
  BY <1>0, <1>5, <1>14, <1>15, <1>16, <1>17, <1>18, QuietFlow, Zenon
<1>21. FlowTyped(t)' /\ FlowOnce(t)' /\ Ends(t)'
  <2>1. stk'[t] \subseteq BlockVars(prog[t])
    BY <1>8, <1>14, ExecutedVars, Zenon DEF FlowTyped
  <2> QED  BY <1>5, <1>14, <1>15, <1>16, <1>17, <2>1, Zenon DEF FlowInv, FlowTyped, FlowOnce, Ends
<1>22. Values(t)'
  <2>1. CASE error[w]
    BY <1>4, <1>5, <1>8, <1>14, <1>16, <1>17, <1>18, <1>19, <2>1, QuietValues, Zenon
  <2>2. CASE ~error[w]
    BY <1>0, <1>4, <1>5, <1>8, <1>14, <1>16, <1>17, <1>18, <1>19, <2>2, ExecutedValues, Zenon
  <2> QED  BY <2>1, <2>2, Zenon
<1>23. ArgsLive'
  <2> SUFFICES ASSUME NEW u \in Workers, wpc'[u] \in {"execute", "call"}
               PROVE  Args(prog'[fe[u][1]], fe[u][2]) \subseteq stk'[fe[u][1]]
    BY <1>5, Zenon DEF ArgsLive
  <2>1. u # w /\ wpc[u] = wpc'[u]
    BY <1>4, <1>9, Zenon
  <2>2. fe[u] # NoEvent
    BY <1>0, <2>1, Zenon DEF Hands
  <2>3. fe[u][1] \in Threads /\ Args(prog[fe[u][1]], fe[u][2]) \subseteq stk[fe[u][1]]
    BY <1>0, <2>1, <2>2, Holding, Zenon DEF ArgsLive
  <2>4. CASE fe[u][1] = t
    <3>1. Args(prog[t], fe[u][2]) \subseteq Executed(t, n)
      BY <1>3, <2>1, <2>4, OtherArgs, Zenon
    <3> QED  BY <1>8, <1>16, <2>3, <2>4, <3>1, Zenon
  <2>5. CASE fe[u][1] = w
    <3>1. exiting
      BY <1>0, <1>11, <2>2, <2>5, Zenon
    <3> QED  BY <1>8, <1>11, <2>3, <2>5, <3>1, Zenon
  <2>6. CASE fe[u][1] # t /\ fe[u][1] # w
    BY <1>8, <1>11, <2>3, <2>6, Zenon
  <2> QED  BY <2>4, <2>5, <2>6, Zenon
<1>24. FlowInv(t)'
  BY <1>20, <1>21, <1>22, Zenon DEF FlowInv
<1> QED  BY <1>5, <1>11, <1>12, <1>13, <1>23, <1>24, Zenon DEF IInv

-----------------------------------------------------------------------------
(* The invariant *)

\* Every step of the interpreter keeps the invariant.
LEMMA NextInv == Ground /\ IInv /\ [Next]_vars => IInv'
<1> SUFFICES ASSUME Ground, IInv, [Next]_vars PROVE IInv'
  BY Zenon
<1>1. ASSUME NEW c \in Clients, ClientEnter(c) \/ ClientReturn(c) PROVE IInv'
  BY <1>1, ClientEnterStep, ClientReturnStep, Zenon DEF Preserves
<1>2. ASSUME NEW t \in Threads, Scheduler(t) PROVE IInv'
  BY <1>2, SchedEnqueueStep, SchedMarkStep, SchedUnlockStep, SchedDoneStep, SchedBreakStep, Zenon DEF Scheduler, Preserves
<1>3. ASSUME NEW w \in Workers, Worker(w) PROVE IInv'
  <2>1. CASE WorkerDequeue(w) \/ WorkerExit(w) \/ WorkerSkip(w) \/ WorkerDelay(w)
    BY <2>1, WorkerDequeueStep, WorkerExitStep, WorkerSkipStep, WorkerDelayStep, Zenon DEF Preserves
  <2>2. CASE WorkerAdmit(w) \/ WorkerCall(w) \/ WorkerSucceed(w) \/ WorkerFail(w)
    BY <2>2, WorkerAdmitStep, WorkerCallStep, WorkerSucceedStep, WorkerFailStep, Zenon DEF Preserves
  <2>3. CASE WorkerReturn(w) \/ WorkerError(w) \/ WorkerLookahead(w) \/ WorkerDone(w)
    BY <2>3, WorkerReturnStep, WorkerSkipStep, WorkerLookaheadStep, WorkerDoneStep, Zenon DEF Preserves
  <2> QED  BY <1>3, <2>1, <2>2, <2>3, Zenon DEF Worker
<1>4. CASE stopMALdataflow
  BY <1>4, StopStep, Zenon DEF Preserves
<1>5. CASE UNCHANGED vars
  <2>1. UNCHANGED <<prog, edges, status, blocks, error, done, tasks, handled, stk,
                    sched, cursor, todo, wpc, fe, fnxt, exiting>>
    BY <1>5, Zenon DEF vars, flowvars, workvars
  <2>2. Typed' /\ Once' /\ Known' /\ Hands' /\ ArgsLive'
    BY <2>1, Zenon DEF IInv, Typed, Once, Known, Hands, ArgsLive
  <2>3. ASSUME NEW t \in Threads PROVE FlowInv(t)'
    <3>1. Untouched(t)
      BY <2>1, Zenon DEF Untouched
    <3> QED  BY <2>2, <3>1, UntouchedFlow, Zenon DEF IInv
  <2> QED  BY <2>1, <2>2, <2>3, Zenon DEF IInv
<1> QED  BY <1>1, <1>2, <1>3, <1>4, <1>5, Zenon DEF Next

\* The scheduler that returns has counted every instruction of its block.
LEMMA AllHandled ==
    ASSUME Ground, IInv, NEW t \in Threads, sched[t] = "return", ~exiting
    PROVE  handled[t] = Pcs(prog[t])
<1>0. Typed /\ FlowInv(t)
  BY Zenon DEF IInv
<1>1. Cardinality(handled[t]) = Len(prog[t].stmt) /\ handled[t] \in SUBSET Pcs(prog[t])
  BY <1>0, Zenon DEF FlowInv, FlowTyped, Ends
<1>2. IsFiniteSet(Pcs(prog[t])) /\ Cardinality(Pcs(prog[t])) = Len(prog[t].stmt)
  BY <1>0, PcsNat, Zenon
<1> QED  BY <1>1, <1>2, Zenon DEF Ground, SubsetFact

-----------------------------------------------------------------------------
(* What the proofs use of finite sets and of numbers *)

\* A set of numbers has a least element.
LEMMA Least ==
    ASSUME NEW T \in SUBSET Nat, T # {}
    PROVE  \E i \in T : \A j \in T : i <= j
<1> DEFINE R == OpToRel(<, Nat)
<1>1. IsWellFoundedOn(R, Nat)
  BY NatLessThanWellFounded, Zenon
<1> HIDE DEF R
<1>2. PICK i \in T : \A j \in T : ~(<<j, i>> \in R)
  BY <1>1, WFMin, Zenon
<1>3. \A j \in T : j < i => <<j, i>> \in R
  BY Zenon DEF R, OpToRel
<1>4. \A j \in T : ~(j < i)
  BY <1>2, <1>3, Zenon
<1>5. i \in Nat /\ \A j \in T : j \in Nat
  BY Zenon
<1>6. \A j \in T : i <= j
  BY <1>4, <1>5, SMT
<1> QED  BY <1>6, Zenon

\* The edges of DFLOWinitBlk are finitely many.
LEMMA FiniteEdges ==
    ASSUME NEW p, IsBlock(p)
    PROVE  IsFiniteSet(DFLOWinitBlk(p))
<1>1. IsFiniteSet(Pcs(p))
  <2>1. Len(p.stmt) \in Nat /\ Pcs(p) = 1 .. Len(p.stmt)
    BY DEF IsBlock, Pcs
  <2> QED  BY <2>1, FS_Interval
<1>2. \A n \in Pcs(p) : IsFiniteSet(DOMAIN p.stmt[n].arg)
  <2> SUFFICES ASSUME NEW n \in Pcs(p) PROVE IsFiniteSet(DOMAIN p.stmt[n].arg)
    BY Zenon
  <2>1. p.stmt[n].arg \in Seq(Args(p, n))
    BY Zenon DEF IsBlock
  <2>2. DOMAIN p.stmt[n].arg = 1 .. Len(p.stmt[n].arg) /\ Len(p.stmt[n].arg) \in Nat
    BY <2>1
  <2> QED  BY <2>2, FS_Interval
<1>3. IsFiniteSet(UseEdges(p))
  <2> DEFINE J(n) == {k \in DOMAIN p.stmt[n].arg : Assigned(p, p.stmt[n].arg[k], n) # 0}
             E(n, j) == [src |-> Assigned(p, p.stmt[n].arg[j], n), dst |-> n,
                         arg |-> j, kind |-> "use"]
             U(n) == {E(n, j) : j \in J(n)}
             T == {U(n) : n \in Pcs(p)}
  <2>1. UseEdges(p) = UNION T
    BY Zenon DEF UseEdges
  <2>2. ASSUME NEW n \in Pcs(p) PROVE IsFiniteSet(J(n))
    BY <1>2, FS_Subset, Zenon
  <2> HIDE DEF J, E
  <2>3. ASSUME NEW n \in Pcs(p) PROVE IsFiniteSet(U(n))
    <3>1. [j \in J(n) |-> E(n, j)] \in Surjection(J(n), U(n))
      BY Zenon DEF Surjection
    <3> QED  BY <3>1, <2>2, FS_Surjection, Zenon
  <2> HIDE DEF U
  <2>4. [n \in Pcs(p) |-> U(n)] \in Surjection(Pcs(p), T)
    BY Zenon DEF Surjection
  <2>5. IsFiniteSet(T)
    BY <2>4, <1>1, FS_Surjection, Zenon
  <2>6. \A u \in T : IsFiniteSet(u)
    BY <2>3, Zenon
  <2> HIDE DEF T
  <2> QED  BY <2>1, <2>5, <2>6, FS_UNION, Zenon
<1>4. IsFiniteSet(EolEdges(p))
  <2> DEFINE J(n) == {k \in DOMAIN p.stmt[n].arg :
                        EndOfLife(p, p.stmt[n].arg[k]) \notin {0, n}}
             E(n, j) == [src |-> n, dst |-> EndOfLife(p, p.stmt[n].arg[j]),
                         arg |-> j, kind |-> "eol"]
             U(n) == {E(n, j) : j \in J(n)}
             T == {U(n) : n \in Pcs(p)}
  <2>1. EolEdges(p) = UNION T
    BY Zenon DEF EolEdges
  <2>2. ASSUME NEW n \in Pcs(p) PROVE IsFiniteSet(J(n))
    BY <1>2, FS_Subset, Zenon
  <2> HIDE DEF J, E
  <2>3. ASSUME NEW n \in Pcs(p) PROVE IsFiniteSet(U(n))
    <3>1. [j \in J(n) |-> E(n, j)] \in Surjection(J(n), U(n))
      BY Zenon DEF Surjection
    <3> QED  BY <3>1, <2>2, FS_Surjection, Zenon
  <2> HIDE DEF U
  <2>4. [n \in Pcs(p) |-> U(n)] \in Surjection(Pcs(p), T)
    BY Zenon DEF Surjection
  <2>5. IsFiniteSet(T)
    BY <2>4, <1>1, FS_Surjection, Zenon
  <2>6. \A u \in T : IsFiniteSet(u)
    BY <2>3, Zenon
  <2> HIDE DEF T
  <2> QED  BY <2>1, <2>5, <2>6, FS_UNION, Zenon
<1> QED  BY <1>3, <1>4, FS_Union, Zenon DEF DFLOWinitBlk

\* What the steps above take for granted holds.
LEMMA GroundHolds == Ground
<1>1. EmptyFact /\ CardinalityFact
  BY FS_EmptySet, FS_CardinalityType, Zenon DEF EmptyFact, CardinalityFact
<1>2. SingletonFact
  BY FS_Singleton, Zenon DEF SingletonFact
<1>3. SubsetFact
  BY FS_Subset, Zenon DEF SubsetFact
<1>4. AddFact
  BY FS_AddElement, Zenon DEF AddFact
<1>5. DifferenceFact
  BY FS_Difference, Zenon DEF DifferenceFact
<1>6. SurjectionFact
  BY FS_Surjection, Zenon DEF SurjectionFact
<1>7. IntervalFact
  BY FS_Interval DEF IntervalFact
<1>8. LeastFact
  BY Least, Zenon DEF LeastFact
<1>9. EdgesFact
  BY FiniteEdges, Zenon DEF EdgesFact
<1> QED  BY <1>1, <1>2, <1>3, <1>4, <1>5, <1>6, <1>7, <1>8, <1>9, Zenon DEF Ground

\* The inductive invariant holds in all reachable states.
LEMMA Invariance == Spec => []IInv
<1>1. Init => IInv
  BY InitInv, GroundHolds, Zenon
<1>2. IInv /\ [Next]_vars => IInv'
  BY NextInv, GroundHolds, Zenon
<1> QED  BY <1>1, <1>2, PTL DEF Spec

-----------------------------------------------------------------------------
(* What the dataflow interpreter guarantees, for any blocks and threads *)

\* An instruction is executed only while all its arguments are on the stack: the
\* edges of DFLOWinitBlk from every use of a variable to its end of life keep the
\* garbage collection of runMALsequence off the arguments of running instructions.
THEOREM ArgumentsLive == Spec => []ArgsLive
<1>1. IInv => ArgsLive
  BY Zenon DEF IInv
<1> QED  BY <1>1, Invariance, PTL

\* No instruction is in two places or twice in one: the scheduler and the workers
\* that look ahead in DFLOWworker never both schedule a dependent.
THEOREM SchedulesOnce == Spec => []ScheduledOnce
<1>1. ASSUME IInv PROVE ScheduledOnce
  <2> SUFFICES ASSUME NEW t \in Threads, NEW n \in Pcs(prog[t])
               PROVE  Cardinality(Places(t, n)) <= 1
    BY Zenon DEF ScheduledOnce
  <2>0. Once /\ FlowOnce(t) /\ Typed /\ FlowTyped(t)
    BY <1>1, Zenon DEF IInv, FlowInv
  <2>1. <<t, n>> # NoEvent
    BY NotNone, Zenon
  <2>2. ASSUME NEW x, Places(t, n) \subseteq {x} PROVE Cardinality(Places(t, n)) <= 1
    <3>1. Places(t, n) = {} \/ Places(t, n) = {x}
      BY <2>2, Zenon
    <3>2. CASE Places(t, n) = {}
      BY <3>2, FS_EmptySet
    <3>3. CASE Places(t, n) = {x}
      <4>1. Cardinality({x}) = 1
        BY FS_Singleton, Zenon
      <4> QED  BY <3>3, <4>1
    <3> QED  BY <3>1, <3>2, <3>3, Zenon
  <2>3. Out(t, n) => n \notin Range(done[t]) /\ n \notin handled[t]
    BY <2>0, Zenon DEF FlowOnce
  <2>4. ~(n \in Range(done[t]) /\ n \in handled[t])
    BY <2>0, Zenon DEF FlowOnce
  <2>5. ASSUME NEW k \in DOMAIN todo, todo[k] = <<t, n>>
        PROVE  Places(t, n) \subseteq {<<"todo", k>>}
    <3>1. <<t, n>> \in Range(todo)
      BY <2>5, Zenon DEF Range
    <3>2. \A w \in Workers : fe[w] # <<t, n>> /\ fnxt[w] # <<t, n>>
      BY <2>0, <2>1, <3>1, SMTT(30) DEF Once
    <3>3. n \notin Range(done[t]) /\ n \notin handled[t]
      BY <2>3, <3>1, Zenon DEF Out
    <3>4. \A i \in DOMAIN todo : todo[i] = <<t, n>> => i = k
      BY <2>0, <2>5, Zenon DEF Once, IsInjective
    <3> QED  BY <3>2, <3>3, <3>4, Zenon DEF Places, Range
  <2>6. ASSUME NEW w \in Workers, fe[w] = <<t, n>>
        PROVE  Places(t, n) \subseteq {<<"fe", w>>}
    <3>1. <<t, n>> \notin Range(todo) /\ \A u \in Workers : fnxt[u] # <<t, n>>
      BY <2>0, <2>1, <2>6, Zenon DEF Once
    <3>2. ASSUME NEW u \in Workers, fe[u] = <<t, n>> PROVE u = w
      BY <2>0, <2>1, <2>6, <3>2, Zenon DEF Once
    <3>3. n \notin Range(done[t]) /\ n \notin handled[t]
      BY <2>3, <2>6, Zenon DEF Out
    <3> QED  BY <3>1, <3>2, <3>3, Zenon DEF Places, Range
  <2>7. ASSUME NEW w \in Workers, fnxt[w] = <<t, n>>
        PROVE  Places(t, n) \subseteq {<<"fnxt", w>>}
    <3>1. <<t, n>> \notin Range(todo)
      BY <2>0, <2>1, <2>7, Zenon DEF Once
    <3>a. ASSUME NEW u \in Workers PROVE fe[u] # <<t, n>>
      BY <2>0, <2>1, <2>7, Zenon DEF Once
    <3>2. ASSUME NEW u \in Workers, fnxt[u] = <<t, n>> PROVE u = w
      BY <2>0, <2>1, <2>7, <3>2, Zenon DEF Once
    <3>3. n \notin Range(done[t]) /\ n \notin handled[t]
      BY <2>3, <2>7, Zenon DEF Out
    <3> QED  BY <3>1, <3>a, <3>2, <3>3, Zenon DEF Places, Range
  <2>8. ASSUME ~Out(t, n), NEW k \in DOMAIN done[t], done[t][k] = n
        PROVE  Places(t, n) \subseteq {<<"done", k>>}
    <3>1. n \in Range(done[t]) /\ n \notin handled[t]
      BY <2>4, <2>8, Zenon DEF Range
    <3>2. \A i \in DOMAIN done[t] : done[t][i] = n => i = k
      BY <2>0, <2>8, Zenon DEF FlowOnce, IsInjective
    <3> QED  BY <2>8, <3>1, <3>2, Zenon DEF Places, Out, Range
  <2>9. ASSUME ~Out(t, n), n \notin Range(done[t])
        PROVE  Places(t, n) \subseteq {<<"handled", 0>>}
    BY <2>9, Zenon DEF Places, Out, Range
  <2>10. CASE Out(t, n)
    BY <2>2, <2>5, <2>6, <2>7, <2>10, Zenon DEF Out, Range
  <2>11. CASE ~Out(t, n) /\ n \in Range(done[t])
    BY <2>2, <2>8, <2>11, Zenon DEF Range
  <2>12. CASE ~Out(t, n) /\ n \notin Range(done[t])
    BY <2>2, <2>9, <2>12, Zenon
  <2> QED  BY <2>10, <2>11, <2>12, Zenon
<1> QED  BY <1>1, Invariance, PTL

\* No queue or worker holds an event of a flow that runMALdataflow has freed.
THEOREM NoneDangling == Spec => []NoDanglingEvent
<1>1. ASSUME IInv PROVE NoDanglingEvent
  <2>1. Known
    BY <1>1, Zenon DEF IInv
  <2>2. \A x : IsEvent(prog, x) => x \in Events
    BY DEF IsEvent, Events
  <2>3. \A k \in DOMAIN todo : todo[k] \in Range(todo)
    BY Zenon DEF Range
  <2> QED  BY <2>1, <2>2, <2>3, Zenon DEF Known, NoDanglingEvent
<1> QED  BY <1>1, Invariance, PTL

\* A block that runMALdataflow ends without error leaves the same variables on the
\* stack as executing its instructions in their order.
THEOREM LikeSequential == Spec => []SequentialResult
<1>1. ASSUME IInv PROVE SequentialResult
  <2> SUFFICES ASSUME NEW t \in Threads, sched[t] = "return", ~error[t], ~exiting
               PROVE  stk[t] = {v \in BlockVars(prog[t]) : EndOfLife(prog[t], v) = 0}
    BY Zenon DEF SequentialResult
  <2>0. Typed /\ FlowInv(t)
    BY <1>1, Zenon DEF IInv
  <2>1. \A m \in Pcs(prog[t]) : ~Open(t, m)
    <3>1. handled[t] = Pcs(prog[t])
      BY <1>1, AllHandled, GroundHolds, Zenon
    <3> QED  BY <2>0, <3>1, HandledClosed, Zenon
  <2>2. IsBlock(prog[t]) /\ 0 \notin Pcs(prog[t])
    BY <2>0, PcsNat, PcsFacts, GroundHolds
  <2>3. stk[t] \subseteq BlockVars(prog[t])
    BY <2>0, Zenon DEF FlowInv, FlowTyped
  <2>4. ASSUME NEW v \in BlockVars(prog[t]) PROVE v \in stk[t] <=> EndOfLife(prog[t], v) = 0
    <3>1. /\ \/ v \in InputVars(prog[t])
             \/ \E m \in Pcs(prog[t]) : ~Open(t, m) /\ v \in prog[t].stmt[m].ret
             => \/ v \in stk[t]
                \/ \E n \in Pcs(prog[t]) : EndOfLife(prog[t], v) = n /\ ~Open(t, n)
          /\ \A n \in Pcs(prog[t]) :
                EndOfLife(prog[t], v) = n /\ ~Open(t, n) => v \notin stk[t]
      BY <2>0, Zenon DEF FlowInv, Values
    <3>2. EndOfLife(prog[t], v) = 0 \/ EndOfLife(prog[t], v) \in Pcs(prog[t])
      BY <2>2, EndOfLifeFacts, GroundHolds, Zenon
    <3>3. \/ v \in InputVars(prog[t])
          \/ \E m \in Pcs(prog[t]) : v \in prog[t].stmt[m].ret
      BY Zenon DEF InputVars
    <3> QED  BY <2>1, <2>2, <3>1, <3>2, <3>3, Zenon
  <2> QED  BY <2>3, <2>4, Zenon
<1> QED  BY <1>1, Invariance, PTL

\* While the server does not exit, the assertion flow->done->last == 0 at the end of
\* DFLOWscheduler holds.
THEOREM NothingLeftInDone ==
    ASSUME MayExit = FALSE
    PROVE  Spec => []DoneEmptyAtReturn
<1>1. ASSUME IInv PROVE DoneEmptyAtReturn
  <2> SUFFICES ASSUME NEW t \in Threads, sched[t] = "return" PROVE done[t] = <<>>
    BY Zenon DEF DoneEmptyAtReturn
  <2>1. ~exiting /\ FlowInv(t)
    BY <1>1, Zenon DEF IInv
  <2>2. handled[t] = Pcs(prog[t])
    BY <1>1, <2>1, AllHandled, GroundHolds, Zenon
  <2>3. done[t] \in Seq(Pcs(prog[t]))
    BY <2>1, Zenon DEF FlowInv, FlowTyped
  <2>4. \A n \in Pcs(prog[t]) : n \notin Range(done[t])
    BY <2>1, <2>2, Zenon DEF FlowInv, FlowOnce
  <2>5. \A k \in 1 .. Len(done[t]) : done[t][k] \in Pcs(prog[t]) /\ done[t][k] \in Range(done[t])
    BY <2>3 DEF Range
  <2>6. Len(done[t]) = 0
    BY <2>3, <2>4, <2>5
  <2> QED  BY <2>3, <2>6
<1> QED  BY <1>1, Invariance, PTL

\* The queues, counts and states of DFLOWscheduler and DFLOWworker have their types;
\* in particular flow->status[n].blocks is never negative.
THEOREM Types == Spec => []TypeOK
<1>1. ASSUME IInv PROVE TypeOK
  <2>1. ASSUME NEW t \in Threads PROVE tasks[t] \in 0 .. Len(prog[t].stmt)
    <3>1. /\ IsFiniteSet(Pcs(prog[t])) /\ Cardinality(Pcs(prog[t])) = Len(prog[t].stmt)
          /\ handled[t] \in SUBSET Pcs(prog[t]) /\ tasks[t] = Cardinality(handled[t])
      BY <1>1, PcsNat, GroundHolds, Zenon DEF IInv, FlowInv, FlowTyped
    <3>2. IsFiniteSet(handled[t]) /\ Cardinality(handled[t]) <= Cardinality(Pcs(prog[t]))
      BY <3>1, FS_Subset, Zenon
    <3>3. Cardinality(handled[t]) \in Nat /\ Cardinality(Pcs(prog[t])) \in Nat
      BY <3>1, <3>2, FS_CardinalityType, Zenon
    <3> QED  BY <3>1, <3>2, <3>3
  <2>2. ASSUME NEW w \in Workers PROVE fnxt[w] = NoEvent \/ fnxt[w] \in Events
    <3>1. \A x : IsEvent(prog, x) => x \in Events
      BY DEF IsEvent, Events
    <3> QED  BY <1>1, <3>1, Zenon DEF IInv, Known
  <2>3. ASSUME NEW t \in Threads PROVE FlowTyped(t)
    BY <1>1, Zenon DEF IInv, FlowInv
  <2>4. Typed
    BY <1>1, Zenon DEF IInv
  <2> QED  BY <2>1, <2>2, <2>3, <2>4, Zenon DEF TypeOK, Typed, FlowTyped
<1> QED  BY <1>1, Invariance, PTL

=============================================================================
