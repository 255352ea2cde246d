----------------------------- MODULE MCDataflow -----------------------------
EXTENDS Dataflow

CONSTANT Size     \* number of instructions of the blocks

\* Instruction n assigns variable n; variable 0 comes from outside the block.
Stmt(n, arg, call) == [ret |-> {n}, arg |-> arg, call |-> call]

\* Up to two arguments; their order does not matter.
ArgLists(n) ==
    {<<>>} \cup {<<v>> : v \in 0 .. n - 1}
    \cup {a \in (0 .. n - 1) \X (0 .. n - 1) :
            a[1] < a[2] \/ (a[1] = a[2] /\ a[1] # 0)}

\* All blocks of Size instructions with up to two arguments each, in which the
\* interpreter collects every variable, or all but a few.
AllBlocks ==
    {[stmt |-> [n \in 1 .. Size |-> Stmt(n, f[n], FALSE)], keep |-> k] :
        f \in {g \in [1 .. Size -> ArgLists(Size)] :
                 \A n \in 1 .. Size : g[n] \in ArgLists(n)},
        k \in {{}, {0, 1}}}

\* A diamond, a use of one variable twice, and a late end of life.
Diamond ==
    [stmt |-> <<Stmt(1, <<0>>, FALSE), Stmt(2, <<1>>, FALSE),
                Stmt(3, <<1, 0>>, FALSE), Stmt(4, <<2, 3>>, FALSE)>>,
     keep |-> {4}]
Twice ==
    [stmt |-> <<Stmt(1, <<0>>, FALSE), Stmt(2, <<1, 1>>, FALSE),
                Stmt(3, <<0, 1>>, FALSE)>>, keep |-> {2}]
Diamonds == {Diamond, Twice}
Chain ==
    [stmt |-> <<Stmt(1, <<>>, FALSE), Stmt(2, <<1>>, FALSE)>>, keep |-> {2}]
TwiceOrChain == {Twice, Chain}

\* A block with one call beside other work, one with two independent calls.
OneCall ==
    {[stmt |-> <<Stmt(1, <<0>>, TRUE), Stmt(2, <<0>>, FALSE),
                 Stmt(3, <<1, 2>>, FALSE)>>, keep |-> {0, 3}]}
TwoCalls ==
    {[stmt |-> <<Stmt(1, <<0>>, TRUE), Stmt(2, <<0>>, TRUE)>>, keep |-> {0, 1, 2}]}
Body == {[stmt |-> <<Stmt(1, <<0>>, FALSE), Stmt(2, <<0>>, FALSE)>>,
          keep |-> {0, 1}]}
CallsAndDiamonds == OneCall \cup Diamonds
AllBlocksAndCalls == AllBlocks \cup CallsAndDiamonds
=============================================================================
