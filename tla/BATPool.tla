------------------------------ MODULE BATPool ------------------------------
(***************************************************************************)
(* The BAT buffer pool while the server runs: reference counts, loading,   *)
(* unloading, views and the trimming of memory (gdk/gdk_bbp.c, with        *)
(* BATmode of gdk_bat.c and VIEWcreate_ of gdk_align.c).                   *)
(*                                                                         *)
(* A bat has a number of memory fixes (refs), a number of logical          *)
(* references (lrefs) and a set of status flags.  Every thread takes and   *)
(* drops references; the last fix may unload or destroy the bat, and a     *)
(* trimmer unloads unfixed bats at any time.  The pool protects itself by  *)
(* the flags LOADING, UNLOADING, SAVING and DELETING: they are set under   *)
(* the bat's swap lock, other threads spin on them, and they are cleared   *)
(* WITHOUT the lock, by a read and a write of the status word.             *)
(*                                                                         *)
(* A step of the model is what one thread does while it holds the swap     *)
(* lock, or one unlocked access.  The calls a thread still has to make are *)
(* a sequence; a call replaces itself by the calls it makes.               *)
(*                                                                         *)
(* Abstracted: a bat's contents are the number of the last write; the LRU  *)
(* order of the trimmer (any unfixed bats may be picked); head and tail    *)
(* parents of a view are one parent; the flags SWAPPED and RENAMED, which  *)
(* only commits read, are left out.  Commits are module BBPSync's.         *)
(***************************************************************************)
EXTENDS Integers, Sequences, FiniteSets, FiniteSetsExt, SequencesExt, TLC

CONSTANTS
  Threads,      \* the threads that use the pool
  Bats,         \* the slots of the BBP array; 1 holds a committed bat
  FlagRaces,    \* whether an unlocked clearing may collide with BATmode
  MaxWrite,     \* bound: the writes to one bat
  MaxRef,       \* bound: the fixes, and the logical references, a thread has
  MaxOps        \* bound: the operations the threads start in all

ASSUME PoolAssumption ==
  /\ Bats \subseteq Nat \ {0} /\ 1 \in Bats
  /\ FlagRaces \in BOOLEAN
  /\ {MaxWrite, MaxRef, MaxOps} \subseteq Nat

VARIABLES
  bbp,      \* the BBP array: one record per slot
  file,     \* the contents of a bat's heap files
  th,       \* per thread: the calls to make, a read status word, an I/O result
  own,      \* per thread: its fixes and its logical references
  has,      \* per thread: the bats it has a pointer to
  latest,   \* the contents last written to a bat (history)
  ops       \* how many operations were started

vars == <<bbp, file, th, own, has, latest, ops>>

Flags == {"LOADED", "TMP", "DELETED", "EXISTING", "NEW",
          "UNLOADING", "LOADING", "SAVING", "DELETING"}
BBPPERSISTENT == {"EXISTING", "NEW"}
BBPUNSTABLE == {"UNLOADING", "DELETING"}
BBPWAITING == {"UNLOADING", "LOADING", "SAVING", "DELETING"}
None == -1

On(b, flags) == bbp[b].status \cap flags # {}

(***************************************************************************)
(* The state after a restart: a committed bat, not loaded, with the one    *)
(* logical reference of a persistent bat (BBPreadEntries) and one that     *)
(* each thread holds through its catalog; the other slots are free.        *)
(***************************************************************************)
FreeSlot == [used |-> FALSE, status |-> {}, refs |-> 0, lrefs |-> 0,
             share |-> 0, cache |-> FALSE, parent |-> 0, hot |-> FALSE,
             persistent |-> FALSE, copied |-> FALSE, mem |-> 0, dirty |-> FALSE]

Init ==
  /\ bbp = [b \in Bats |->
              IF b = 1
                THEN [FreeSlot EXCEPT !.used = TRUE, !.status = {"EXISTING"},
                        !.lrefs = 1 + Cardinality(Threads), !.hot = TRUE,
                        !.persistent = TRUE,
                        !.copied = TRUE]
                ELSE FreeSlot]
  /\ file = [b \in Bats |-> IF b = 1 THEN 0 ELSE None]
  /\ th = [t \in Threads |-> [calls |-> <<>>, read |-> {}, ok |-> TRUE]]
  /\ own = [t \in Threads |-> [fix |-> [b \in Bats |-> 0],
                               log |-> [b \in Bats |-> IF b = 1 THEN 1 ELSE 0]]]
  /\ has = [t \in Threads |-> {}]
  /\ latest = [b \in Bats |-> 0]
  /\ ops = 0

(***************************************************************************)
(* Calls.  Call(f, b) is a call of f on bat b; arg is the view's parent    *)
(* for an insertion, the flags for a status_off, the owner of a new        *)
(* logical reference, or the new mode for BATmode.                         *)
(***************************************************************************)
CallA(f, b, a) == [f |-> f, b |-> b, arg |-> a]
Call(f, b) == CallA(f, b, {})

Idle(t) == th[t].calls = <<>>
In(t, f) == ~Idle(t) /\ Head(th[t].calls).f = f
Here(t) == Head(th[t].calls)

\* The current call of t goes on with, or ends and leaves, these calls.
Continue(t, calls) ==
  th' = [th EXCEPT ![t].calls = calls \o Tail(th[t].calls)]
Return(t) == Continue(t, <<>>)

\* Thread t, which is idle, starts these calls.
Start(t, calls) ==
  /\ Idle(t) /\ ops < MaxOps
  /\ ops' = ops + 1
  /\ th' = [th EXCEPT ![t].calls = calls]

(***************************************************************************)
(* BBP_status_off outside the lock: the status word is read, and written   *)
(* back later.  When another thread, under the lock, updates it in between *)
(* (only BATmode can), the two writes collide: what that thread set is     *)
(* lost when this write comes last, and this clearing is lost when that    *)
(* one does.  Without FlagRaces the hardware happens to serialise them.    *)
(***************************************************************************)
status_off_read(t) ==
  /\ In(t, "status_off")
  /\ LET c == Here(t) IN
       th' = [th EXCEPT ![t] =
                [@ EXCEPT !.read = bbp[c.b].status,
                          !.calls = <<CallA("status_off_write", c.b, c.arg)>> \o Tail(@)]]
  /\ UNCHANGED <<bbp, file, own, has, latest, ops>>

status_off_write(t) ==
  /\ In(t, "status_off_write")
  /\ LET c == Here(t)
         status == bbp[c.b].status
     IN \E s \in {status \ c.arg}
                   \cup (IF FlagRaces /\ status # th[t].read
                           THEN {th[t].read \ c.arg, status} ELSE {}) :
          bbp' = [bbp EXCEPT ![c.b].status = s]
  /\ th' = [th EXCEPT ![t].read = {}, ![t].calls = Tail(@)]
  /\ UNCHANGED <<file, own, has, latest, ops>>

Off(b, flags) == <<CallA("status_off", b, flags)>>

(***************************************************************************)
(* incref: spin while the bat is unstable or being loaded; count.  The     *)
(* first fix of a view fixes and loads the parent, outside the lock, under *)
(* LOADING.  "fix" and "retain" are a client's, "pfix" is a view's fix on  *)
(* its parent, "mode_retain" is the reference of a persistent bat.         *)
(***************************************************************************)
MayIncref(b) == ~On(b, BBPUNSTABLE \cup {"LOADING"})

incref(t) ==
  /\ \E f \in {"fix", "pfix", "retain", "mode_retain"} : In(t, f)
  /\ LET c == Here(t)
         b == c.b
         logical == c.f \in {"retain", "mode_retain"}
         p == bbp[b].parent
         load == ~logical /\ bbp[b].refs = 0 /\ p # 0
     IN /\ MayIncref(b)
        /\ bbp' = [bbp EXCEPT ![b].lrefs = IF logical THEN @ + 1 ELSE @,
                              ![b].refs = IF logical THEN @ ELSE @ + 1,
                              ![b].status = IF load THEN @ \cup {"LOADING"} ELSE @]
        /\ IF load
             THEN Continue(t, <<Call("pfix", p), Call("descriptor", p)>>
                                \o Off(b, {"LOADING"}))
             ELSE Return(t)
        /\ own' = CASE c.f = "fix" -> [own EXCEPT ![t].fix[b] = @ + 1]
                    [] c.f = "retain" -> [own EXCEPT ![c.arg].log[b] = @ + 1]
                    [] OTHER -> own
  /\ UNCHANGED <<file, has, latest, ops>>

(***************************************************************************)
(* getBBPdescriptor: a cached bat is returned at once.  Otherwise spin     *)
(* until no other thread works on the bat, set LOADING, load outside the   *)
(* lock, clear LOADING.  BATload_intern may fail; BBPcacheit enters the    *)
(* loaded bat.  "descriptor" is called with a fix.  When the parent of a   *)
(* view cannot be loaded the server dies (incref uses the NULL pointer),   *)
(* so only loads that a client asked for fail here.                        *)
(***************************************************************************)
ForParent(t) == \E i \in DOMAIN th[t].calls :
  th[t].calls[i].f = "status_off" /\ th[t].calls[i].b # Here(t).b

Pointer(t, b) ==
  has' = [has EXCEPT ![t] = IF own[t].fix[b] > 0 THEN @ \cup {b} ELSE @]

\* Seeded defect: clearing LOADING is left to BBPcacheit, which a failed load
\* does not reach.
BugDescriptor(t) ==
  /\ In(t, "descriptor")
  /\ LET b == Here(t).b IN
       \/ bbp[b].cache /\ Return(t) /\ Pointer(t, b) /\ UNCHANGED bbp
       \/ /\ ~bbp[b].cache /\ ~On(b, BBPWAITING)
          /\ bbp' = [bbp EXCEPT ![b].status = @ \cup {"LOADING"}]
          /\ Continue(t, <<Call("load", b)>>)
          /\ UNCHANGED has
  /\ UNCHANGED <<file, own, latest, ops>>

getBBPdescriptor(t) ==
  /\ In(t, "descriptor")
  /\ LET b == Here(t).b IN
       \/ bbp[b].cache /\ Return(t) /\ Pointer(t, b) /\ UNCHANGED bbp
       \/ /\ ~bbp[b].cache /\ ~On(b, BBPWAITING)
          /\ bbp' = [bbp EXCEPT ![b].status = @ \cup {"LOADING"}]
          /\ Continue(t, <<Call("load", b)>> \o Off(b, {"LOADING"}))
          /\ UNCHANGED has
  /\ UNCHANGED <<file, own, latest, ops>>

BATload_intern(t) ==
  /\ In(t, "load")
  /\ LET b == Here(t).b IN
       \/ /\ file[b] # None
          /\ bbp' = [bbp EXCEPT ![b] =
                       [@ EXCEPT !.cache = TRUE, !.hot = TRUE, !.mem = file[b],
                                 !.dirty = FALSE, !.parent = 0, !.copied = TRUE,
                                 !.persistent = On(b, BBPPERSISTENT),
                                 !.status = (@ \cup {"LOADED"}) \ {"LOADING", "DELETING"}]]
          /\ Pointer(t, b)
       \/ ~ForParent(t) /\ UNCHANGED <<bbp, has>>
  /\ Return(t)
  /\ UNCHANGED <<file, own, latest, ops>>

(***************************************************************************)
(* decref: spin while the bat is being unloaded; count down.  With fixes   *)
(* left, or logical references to a bat that was not made cold, the stamp  *)
(* is renewed.  Otherwise a loaded bat is marked UNLOADING under the lock, *)
(* and destroyed or unloaded outside it.  The last fix of a view drops the *)
(* view's fix on its parent.                                               *)
(***************************************************************************)
\* Seeded defect: the unloading is not marked while the lock is held.
BugMarked(b, swap) == bbp[b].status

Marked(b, swap) == bbp[b].status \cup (IF swap THEN {"UNLOADING"} ELSE {})

\* Seeded defect: every unfix of a view drops the fix on the parent.
BugParentFix(b, logical, r) ==
  IF ~logical /\ bbp[b].cache /\ bbp[b].parent # 0
    THEN <<Call("punfix", bbp[b].parent)>> ELSE <<>>

ParentFix(b, logical, r) ==
  IF ~logical /\ bbp[b].cache /\ r = 0 /\ bbp[b].parent # 0
    THEN <<Call("punfix", bbp[b].parent)>> ELSE <<>>

decref(t) ==
  /\ \E f \in {"unfix", "punfix", "release", "mode_release"} : In(t, f)
  /\ LET c == Here(t)
         b == c.b
         logical == c.f \in {"release", "mode_release"}
         r == IF logical THEN bbp[b].refs ELSE bbp[b].refs - 1
         l == IF logical THEN bbp[b].lrefs - 1 ELSE bbp[b].lrefs
         keep == r > 0 \/ (l > 0 /\ bbp[b].hot)
         swap == ~keep /\ (bbp[b].cache \/ On(b, {"TMP"}))
         unload == CASE ~(swap /\ bbp[b].cache) -> <<>>
                     [] swap /\ bbp[b].cache /\ l = 0 /\ ~On(b, {"DELETED"}) ->
                          <<Call("destroy", b)>>
                     [] OTHER -> <<Call("save", b), Call("uncache", b)>>
     IN /\ ~On(b, {"UNLOADING"})
        /\ bbp' = [bbp EXCEPT ![b].refs = r, ![b].lrefs = l,
                              ![b].hot = keep \/ @,
                              ![b].status = Marked(b, swap)]
        /\ Continue(t, unload \o ParentFix(b, logical, r))
  /\ UNCHANGED <<file, own, has, latest, ops>>

(***************************************************************************)
(* BBPdestroy: delete the files and free the slot (BBPclear), and only     *)
(* then release a view's parent (GDKunshare).                              *)
(***************************************************************************)
Unshare(p) ==
  IF p = 0 THEN <<>> ELSE <<Call("unshare", p), Call("release", p)>>

BBPdestroy(t) ==
  /\ In(t, "destroy")
  /\ LET b == Here(t).b IN
       /\ bbp' = [bbp EXCEPT ![b] = FreeSlot]
       /\ file' = [file EXCEPT ![b] = None]
       /\ Continue(t, Unshare(bbp[b].parent))
  /\ UNCHANGED <<own, has, latest, ops>>

GDKunshare(t) ==
  /\ In(t, "unshare")
  /\ bbp' = [bbp EXCEPT ![Here(t).b].share = @ - 1]
  /\ Return(t)
  /\ UNCHANGED <<file, own, has, latest, ops>>

(***************************************************************************)
(* BBPsave: nothing to do for a bat without logical references, a view or  *)
(* a clean bat; wait for another thread's save; or save under SAVING.  The *)
(* write may fail, and then the bat stays dirty.                           *)
(***************************************************************************)
NoSave(b) == bbp[b].lrefs = 0 \/ bbp[b].parent # 0 \/ ~bbp[b].dirty

BBPsave(t) ==
  /\ In(t, "save")
  /\ LET b == Here(t).b IN
       \/ /\ NoSave(b)
          /\ th' = [th EXCEPT ![t].calls = Tail(@), ![t].ok = TRUE]
          /\ UNCHANGED bbp
       \/ /\ ~NoSave(b) /\ On(b, {"SAVING"})
          /\ th' = [th EXCEPT ![t].calls = <<Call("spin", b)>> \o Tail(@)]
          /\ UNCHANGED bbp
       \/ /\ ~NoSave(b) /\ ~On(b, {"SAVING"})
          /\ bbp' = [bbp EXCEPT ![b].status = @ \cup {"SAVING"}
                        \cup (IF bbp[b].persistent THEN {} ELSE {"TMP"})]
          /\ Continue(t, <<Call("write_heaps", b)>> \o Off(b, {"SAVING"}))
  /\ UNCHANGED <<file, own, has, latest, ops>>

BBPspin(t) ==
  /\ In(t, "spin")
  /\ ~On(Here(t).b, {"SAVING"})
  /\ th' = [th EXCEPT ![t].calls = Tail(@), ![t].ok = TRUE]
  /\ UNCHANGED <<bbp, file, own, has, latest, ops>>

\* Seeded defect: the bat counts as clean although the write failed.
BugBATsave(t) ==
  /\ In(t, "write_heaps")
  /\ LET b == Here(t).b IN \E good \in BOOLEAN :
       /\ file' = IF good THEN [file EXCEPT ![b] = bbp[b].mem] ELSE file
       /\ bbp' = [bbp EXCEPT ![b].dirty = FALSE, ![b].copied = TRUE]
       /\ th' = [th EXCEPT ![t].calls = Tail(@), ![t].ok = TRUE]
  /\ UNCHANGED <<own, has, latest, ops>>

BATsave(t) ==
  /\ In(t, "write_heaps")
  /\ LET b == Here(t).b IN \E good \in BOOLEAN :
       /\ file' = IF good THEN [file EXCEPT ![b] = bbp[b].mem] ELSE file
       /\ bbp' = IF good THEN [bbp EXCEPT ![b].dirty = FALSE, ![b].copied = TRUE]
                         ELSE bbp
       /\ th' = [th EXCEPT ![t].calls = Tail(@), ![t].ok = good]
  /\ UNCHANGED <<own, has, latest, ops>>

(***************************************************************************)
(* The rest of BBPfree, after the save: free the memory and take the bat   *)
(* out of the cache, clear LOADED and UNLOADING; release a view's parent.  *)
(* After a failed save the bat stays loaded.                               *)
(***************************************************************************)
BBPfree(t) ==
  /\ In(t, "uncache")
  /\ LET b == Here(t).b IN
       IF th[t].ok
         THEN /\ bbp' = [bbp EXCEPT ![b].cache = FALSE]
              /\ Continue(t, Off(b, {"LOADED"}) \o Off(b, {"UNLOADING"})
                               \o Unshare(bbp[b].parent))
         ELSE Continue(t, Off(b, {"UNLOADING"})) /\ UNCHANGED bbp
  /\ UNCHANGED <<file, own, has, latest, ops>>

(***************************************************************************)
(* BBPtrim: with all the locks, mark any trimmable bats UNLOADING; unload  *)
(* them one by one without the locks.  The trim locks admit one trimmer.   *)
(***************************************************************************)
BBPtrimmable(b) ==
  /\ bbp[b].cache /\ bbp[b].refs = 0 /\ bbp[b].parent = 0
  /\ ~On(b, BBPWAITING)

Trimming(t) == \E i \in DOMAIN th[t].calls : th[t].calls[i].f = "trimmed"

BBPtrim(t) ==
  /\ \A u \in Threads : ~Trimming(u)
  /\ \E S \in SUBSET {b \in Bats : BBPtrimmable(b)} \ {{}} :
       /\ bbp' = [b \in Bats |-> IF b \in S
                    THEN [bbp[b] EXCEPT !.status = @ \cup {"UNLOADING"}]
                    ELSE bbp[b]]
       /\ Start(t, FoldLeft(LAMBDA calls, b :
                              calls \o <<Call("save", b), Call("uncache", b)>>,
                            <<>>, SetToSeq(S)) \o <<Call("trimmed", 1)>>)
  /\ UNCHANGED <<file, own, has, latest>>

BBPtrim_end(t) ==
  /\ In(t, "trimmed")
  /\ Return(t)
  /\ UNCHANGED <<bbp, file, own, has, latest, ops>>

(***************************************************************************)
(* New bats.  BBPinsert takes a free slot, with one fix and DELETING;      *)
(* BBPcacheit makes it a loaded bat.  A view first shares its parent, on   *)
(* which the creator has a fix.                                            *)
(***************************************************************************)
BBPshare(t) ==
  /\ In(t, "share")
  /\ bbp' = [bbp EXCEPT ![Here(t).b].lrefs = @ + 1, ![Here(t).b].refs = @ + 1,
                        ![Here(t).b].share = @ + 1]
  /\ Return(t)
  /\ UNCHANGED <<file, own, has, latest, ops>>

BBPinsert(t) ==
  /\ In(t, "insert")
  /\ \E b \in {x \in Bats : ~bbp[x].used} :
       /\ b = Min({x \in Bats : ~bbp[x].used})
       /\ bbp' = [bbp EXCEPT ![b] =
                    [FreeSlot EXCEPT !.used = TRUE, !.status = {"DELETING"},
                       !.refs = 1, !.parent = Here(t).arg]]
       /\ Continue(t, <<Call("cacheit", b)>>)
  /\ UNCHANGED <<file, own, has, latest, ops>>

BBPcacheit(t) ==
  /\ In(t, "cacheit")
  /\ LET b == Here(t).b IN
       /\ bbp' = [bbp EXCEPT ![b] =
                    [@ EXCEPT !.status = (@ \cup {"LOADED"}) \ {"LOADING", "DELETING"},
                              !.hot = TRUE, !.cache = TRUE, !.dirty = TRUE]]
       /\ latest' = [latest EXCEPT ![b] = 0]
       /\ own' = [own EXCEPT ![t].fix[b] = 1]
       /\ has' = [has EXCEPT ![t] = @ \cup {b}]
       /\ Return(t)
  /\ UNCHANGED <<file, ops>>

(***************************************************************************)
(* BATmode after its change of the logical references: under the swap lock *)
(* the flags of the persistence state are set.                             *)
(***************************************************************************)
ModeFlags(b, persistent) ==
  LET s == bbp[b].status
      tmp == IF ~bbp[b].copied THEN s
             ELSE IF persistent THEN s \ {"TMP"} ELSE s \cup {"TMP"}
  IN IF persistent
       THEN (tmp \cup {IF "DELETED" \in s THEN "EXISTING" ELSE "NEW"}) \ {"DELETED"}
       ELSE (tmp \cup (IF "NEW" \in s THEN {} ELSE {"DELETED"})) \ BBPPERSISTENT

BATmode(t) ==
  /\ In(t, "mode")
  /\ LET c == Here(t) IN
       bbp' = [bbp EXCEPT ![c.b].status = ModeFlags(c.b, c.arg),
                          ![c.b].persistent = c.arg]
  /\ Return(t)
  /\ UNCHANGED <<file, own, has, latest, ops>>

(***************************************************************************)
(* What an idle thread starts.  It may fix a bat it has a reference to.    *)
(***************************************************************************)
Knows(t, b) == own[t].fix[b] > 0 \/ own[t].log[b] > 0

Saving(b) == \E t \in Threads : \E i \in DOMAIN th[t].calls :
  th[t].calls[i].b = b /\ th[t].calls[i].f \in {"save", "write_heaps"}

ChangingMode(b) == \E t \in Threads : \E i \in DOMAIN th[t].calls :
  th[t].calls[i].b = b /\ th[t].calls[i].f = "mode"

start_fix(t, b) ==
  /\ Knows(t, b) /\ own[t].fix[b] < MaxRef
  /\ Start(t, <<Call("fix", b), Call("descriptor", b)>>)
  /\ UNCHANGED <<bbp, file, own, has, latest>>

start_unfix(t, b) ==
  /\ own[t].fix[b] > 0
  /\ Start(t, <<Call("unfix", b)>>)
  /\ own' = [own EXCEPT ![t].fix[b] = @ - 1]
  /\ has' = [has EXCEPT ![t] = IF own[t].fix[b] = 1 THEN @ \ {b} ELSE @]
  /\ UNCHANGED <<bbp, file, latest>>

\* A logical reference for oneself or for another thread, for instance a
\* variable of the MAL stack that a worker will read.
start_retain(t, b) ==
  /\ Knows(t, b)
  /\ \E o \in Threads : /\ own[o].log[b] < MaxRef
                        /\ Start(t, <<CallA("retain", b, o)>>)
  /\ UNCHANGED <<bbp, file, own, has, latest>>

start_release(t, b) ==
  /\ own[t].log[b] > 0
  /\ Start(t, <<Call("release", b)>>)
  /\ own' = [own EXCEPT ![t].log[b] = @ - 1]
  /\ UNCHANGED <<bbp, file, has, latest>>

\* Seeded defect: the fix is dropped before the logical reference is taken.
BugKeepref(t, b) ==
  <<Call("descriptor", b), Call("unfix", b), CallA("retain", b, t)>>

BBPkeepref(t, b) ==
  <<Call("descriptor", b), CallA("retain", b, t), Call("unfix", b)>>

start_keepref(t, b) ==
  /\ own[t].fix[b] = 1 /\ own[t].log[b] < MaxRef
  /\ Start(t, BBPkeepref(t, b))
  /\ own' = [own EXCEPT ![t].fix[b] = @ - 1]
  /\ has' = [has EXCEPT ![t] = @ \ {b}]
  /\ UNCHANGED <<bbp, file, latest>>

\* The array is extended when it is full; here a thread does not insert then.
Room == Cardinality({b \in Bats : ~bbp[b].used})
          > Cardinality({t \in Threads : \E i \in DOMAIN th[t].calls :
                                           th[t].calls[i].f = "insert"})

start_new(t) ==
  /\ Room
  /\ Start(t, <<CallA("insert", 1, 0)>>)
  /\ UNCHANGED <<bbp, file, own, has, latest>>

VIEWcreate_(t, p) ==
  /\ p \in has[t] /\ bbp[p].parent = 0 /\ Room
  /\ Start(t, <<Call("share", p), CallA("insert", 1, p)>>)
  /\ UNCHANGED <<bbp, file, own, has, latest>>

start_save(t, b) ==
  /\ b \in has[t]
  /\ Start(t, <<Call("save", b)>>)
  /\ UNCHANGED <<bbp, file, own, has, latest>>

start_mode(t, b) ==
  /\ b \in has[t] /\ bbp[b].parent = 0 /\ ~ChangingMode(b)
  /\ LET persistent == ~bbp[b].persistent IN
       Start(t, <<Call(IF persistent THEN "mode_retain" ELSE "mode_release", b),
                  CallA("mode", b, persistent)>>)
  /\ UNCHANGED <<bbp, file, own, has, latest>>

\* BUNappend and the like.  A bat is not written while it is being saved:
\* updates and commits exclude each other by the locks of the SQL store.
write(t, b) ==
  /\ b \in has[t] /\ bbp[b].parent = 0 /\ bbp[b].share = 0 /\ ~Saving(b)
  /\ Idle(t) /\ latest[b] < MaxWrite /\ ops < MaxOps
  /\ latest' = [latest EXCEPT ![b] = @ + 1]
  /\ bbp' = [bbp EXCEPT ![b].mem = latest[b] + 1, ![b].dirty = TRUE]
  /\ ops' = ops + 1
  /\ UNCHANGED <<file, th, own, has>>

\* Only bats that are not views are made cold (see the README).
BBPcold(t, b) ==
  /\ b \in has[t] /\ bbp[b].parent = 0 /\ bbp[b].hot
  /\ Idle(t) /\ ops < MaxOps
  /\ bbp' = [bbp EXCEPT ![b].hot = FALSE]
  /\ ops' = ops + 1
  /\ UNCHANGED <<file, th, own, has, latest>>

Client(t) ==
  \/ start_new(t)
  \/ BBPtrim(t)
  \/ \E b \in Bats : \/ start_fix(t, b) \/ start_unfix(t, b)
                     \/ start_retain(t, b) \/ start_release(t, b)
                     \/ start_keepref(t, b) \/ VIEWcreate_(t, b)
                     \/ start_save(t, b) \/ start_mode(t, b)
                     \/ write(t, b) \/ BBPcold(t, b)

Step(t) ==
  \/ status_off_read(t) \/ status_off_write(t)
  \/ incref(t) \/ decref(t) \/ getBBPdescriptor(t) \/ BATload_intern(t)
  \/ BBPdestroy(t) \/ GDKunshare(t) \/ BBPsave(t) \/ BBPspin(t)
  \/ BATsave(t) \/ BBPfree(t) \/ BBPtrim_end(t)
  \/ BBPshare(t) \/ BBPinsert(t) \/ BBPcacheit(t) \/ BATmode(t)

Next == \E t \in Threads : Client(t) \/ Step(t)

Spec == Init /\ [][Next]_vars

\* Every thread is scheduled: it never stops inside the pool.
FairSpec == Spec /\ \A t \in Threads : WF_vars(Step(t))

-----------------------------------------------------------------------------
(***************************************************************************)
(* Properties                                                              *)
(***************************************************************************)

\* The values of the variables: counters never negative, flags known.
TypeOK ==
  /\ \A b \in Bats :
       /\ bbp[b].status \subseteq Flags
       /\ {bbp[b].refs, bbp[b].lrefs, bbp[b].share} \subseteq Nat
       /\ bbp[b].parent \in Bats \cup {0}
       /\ bbp[b].mem \in 0..MaxWrite /\ file[b] \in {None} \cup 0..MaxWrite
       /\ {bbp[b].used, bbp[b].cache, bbp[b].hot, bbp[b].persistent,
           bbp[b].copied, bbp[b].dirty} \subseteq BOOLEAN
  /\ \A t \in Threads :
       /\ has[t] \subseteq Bats
       /\ own[t] \in [fix : [Bats -> 0..(MaxRef + 1)], log : [Bats -> 0..(MaxRef + 1)]]
       /\ th[t].read \subseteq Flags /\ th[t].ok \in BOOLEAN
  /\ ops \in 0..MaxOps

\* Whoever has a pointer to a bat may follow it: the bat is in the cache, is
\* not being unloaded by a trimmer or by the last reference of another thread,
\* and a view's parent, whose heap it points into, is in the cache as well
\* (BATdescriptor with BBPunfix, BBPtrim and decref running concurrently).
PointersLive ==
  \A t \in Threads : \A b \in has[t] :
    /\ bbp[b].used /\ bbp[b].cache /\ ~On(b, BBPUNSTABLE)
    /\ bbp[b].parent # 0 => LET p == bbp[bbp[b].parent] IN
                              p.used /\ p.cache /\ "UNLOADING" \notin p.status

\* How many calls of the threads satisfy P.
Pending(P(_)) ==
  FoldSet(LAMBDA t, n : n + Cardinality({i \in DOMAIN th[t].calls : P(th[t].calls[i])}),
          0, Threads)
Total(F(_), S) == FoldSet(LAMBDA x, n : n + F(x), 0, S)

\* The fixes of a bat are accounted for: its threads' fixes, one for each of its
\* views that is itself fixed, and what a thread is about to take or to drop.
\* So incref and decref never run into "does not have pointer fixes", and a view
\* never keeps its parent in memory, or loses it, by a miscount.
FixesBalance ==
  \A b \in {x \in Bats : bbp[x].used} :
    bbp[b].refs =
      Total(LAMBDA t : own[t].fix[b], Threads)
      + Cardinality({v \in Bats : bbp[v].used /\ bbp[v].parent = b /\ bbp[v].refs > 0})
      + Pending(LAMBDA c : c.b = b /\ c.f \in {"unfix", "punfix", "cacheit"})
      + Pending(LAMBDA c : c.f = "insert" /\ c.arg = b)
      - Pending(LAMBDA c : c.b = b /\ c.f = "pfix")
      - Pending(LAMBDA c : c.f = "share" /\ c.b = b)

\* The logical references of a bat are accounted for in the same way, so that a
\* bat is destroyed by its last owner and by nobody before: its threads', the one
\* of a persistent bat (BATmode), and one for each view on it (BBPshare until
\* GDKunshare), whether the view is loaded or not.
LogicalBalance ==
  \A b \in {x \in Bats : bbp[x].used} :
    bbp[b].lrefs =
      Total(LAMBDA t : own[t].log[b], Threads)
      + Cardinality({v \in Bats : bbp[v].used /\ bbp[v].parent = b})
      + (IF bbp[b].persistent THEN 1 ELSE 0)
      + Pending(LAMBDA c : c.b = b /\ c.f = "release")
      + Pending(LAMBDA c : c.f = "insert" /\ c.arg = b)
      - Pending(LAMBDA c : c.f = "share" /\ c.b = b)
      + Pending(LAMBDA c : c.b = b /\ c.f = "mode" /\ c.arg = TRUE)
      - Pending(LAMBDA c : c.b = b /\ c.f = "mode_retain")
      - Pending(LAMBDA c : c.b = b /\ c.f = "mode" /\ c.arg = FALSE)
      + Pending(LAMBDA c : c.b = b /\ c.f = "mode_release")

\* Swapping is invisible: a loaded bat holds what was last written to it, however
\* often it was saved, unloaded and loaded since, also after a failed save
\* (BBPsave, BBPfree, BATload_intern).
ContentsKept ==
  \A t \in Threads : \A b \in has[t] : bbp[b].parent = 0 => bbp[b].mem = latest[b]

\* A bat was left UNLOADING although no thread is unloading it.
AtWork(b, flag, calls) == \E t \in Threads : \E i \in DOMAIN th[t].calls :
  LET c == th[t].calls[i] IN
    c.b = b /\ (c.f \in calls \/ (c.f \in {"status_off", "status_off_write"}
                                   /\ flag \in c.arg))
Orphaned == \E b \in Bats :
  On(b, {"UNLOADING"}) /\ ~AtWork(b, "UNLOADING", {"uncache", "destroy"})

\* Nobody waits for ever: the spinning on LOADING, UNLOADING, SAVING and DELETING
\* ends, so every operation on the pool returns, unless a bat was left UNLOADING
\* (which decref does in one case, see UnloadingIsWork).
OperationsEnd ==
  \A t \in Threads : ~Idle(t) ~> (Idle(t) \/ Orphaned)

\* "BBPUNLOADING: set while we are unloading" (gdk_bbp.h), so that the threads
\* that wait for its end will see it.
UnloadingIsWork ==
  \A b \in Bats : On(b, {"UNLOADING"}) => AtWork(b, "UNLOADING", {"uncache", "destroy"})

\* "If the bat is to be persistent after the next commit, BBPEXISTING or BBPNEW
\* is set" (gdk_bbp.h): the flags follow the mode BATmode gave a loaded bat.
ModeInStatus ==
  \A b \in Bats : bbp[b].used /\ bbp[b].cache =>
    (bbp[b].persistent <=> On(b, BBPPERSISTENT))
=============================================================================
