------------------------------ MODULE Checkpoint ------------------------------
(***************************************************************************)
(* What a persistent BAT store promises (gdk_tm.c, gdk_bbp.c): the durable *)
(* checkpoint moves in whole commits only, a commit takes the current      *)
(* state of the bats it is given and leaves the others as they were, and   *)
(* a restart brings the program back to exactly the last checkpoint.       *)
(* BBPSync, the commit protocol of the code, is shown to implement it.     *)
(***************************************************************************)
EXTENDS Naturals

CONSTANTS Bats,      \* bat identifiers (slots of the BBP)
          Lists,     \* the sets of bats that can be committed together
          Versions   \* contents a bat can have; 0 stands for "no such bat"

VARIABLES db,        \* the durable checkpoint: a version for every bat
          cur        \* the persistent bats as the running program has them

Contents == [Bats -> Versions \cup {0}]

Init == /\ db \in Contents
        /\ cur = db

\* The program creates, updates or drops one bat; nothing durable changes.
Change == \E b \in Bats, v \in Versions \cup {0} :
             /\ cur' = [cur EXCEPT ![b] = v]
             /\ UNCHANGED db

Commit == \E list \in Lists :
             /\ db' = [b \in Bats |-> IF b \in list THEN cur[b] ELSE db[b]]
             /\ UNCHANGED cur

Crash == /\ cur' = db
         /\ UNCHANGED db

Next == Change \/ Commit \/ Crash

Spec == Init /\ [][Next]_<<db, cur>>
=============================================================================
