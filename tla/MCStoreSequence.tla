--------------------------- MODULE MCStoreSequence ---------------------------
EXTENDS StoreSequence

Def(start, min, max, inc, cache, cycle) ==
    [start |-> start, minvalue |-> min, maxvalue |-> max, increment |-> inc,
     cacheinc |-> cache, cycle |-> cycle]

\* Steps and caches of one and two, with and without bounds.
NoCycle ==
    {Def(b[1], b[2], b[3], i, c, FALSE) :
        b \in {<<1, 0, 0>>, <<2, 2, 5>>}, i \in {1, 2}, c \in {1, 2}}

\* Changes that keep the increment and do not reopen an exhausted sequence.
Narrow == {[maxvalue |-> 3, cycle |-> FALSE], [cacheinc |-> 3, cycle |-> FALSE]}

One == {Def(1, 0, 0, 1, 2, FALSE)}
Step == {[increment |-> 3, cycle |-> FALSE]}
=============================================================================
