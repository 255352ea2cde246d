--------------------------- MODULE AdmissionProofs ---------------------------
(***************************************************************************)
(* ClaimsBound holds for every number of workers, every set of claims and  *)
(* every threshold.  It is not inductive: Admit and Release store what     *)
(* Read has read some steps before, so the invariant also bounds the       *)
(* value in the reader's registers (LockedRead).                           *)
(***************************************************************************)
EXTENDS Admission, FiniteSetTheorems, TLAPS

IInv == TypeOK /\ LockedRead /\ ClaimsBound

\* The holders are finitely many workers, so their number is a natural number.
LEMMA HoldersFinite == IsFiniteSet(Holders) /\ Cardinality(Holders) \in Nat
<1>1. Holders \subseteq Workers
  BY Zenon DEF Holders
<1>2. IsFiniteSet(Holders)
  BY <1>1, WorkersAssumption, FS_Subset, Zenon
<1> QED
  BY <1>2, FS_CardinalityType, Zenon

\* MALadmission and DFLOWinitBlk keep the variables in their types.
LEMMA TypeStep == TypeOK /\ [Next]_vars => TypeOK'
<1> SUFFICES ASSUME TypeOK, [Next]_vars
             PROVE  TypeOK'
  BY Zenon
<1> USE ClaimsAssumption, ThresholdAssumption DEF TypeOK
<1>1. CASE UNCHANGED vars
  BY <1>1, Zenon DEF vars
<1>2. CASE DFLOWinitBlk
  BY <1>2 DEF DFLOWinitBlk
<1>3. ASSUME NEW w \in Workers,
             \/ Take(w) \/ AdmitFree(w) \/ Finish(w) \/ Call(w) \/ Return(w)
      PROVE  TypeOK'
  BY <1>3 DEF Take, AdmitFree, Finish, Call, Return
<1>4. ASSUME NEW w \in Workers,
             Read(w) \/ Admit(w) \/ Refuse(w) \/ Release(w)
      PROVE  TypeOK'
  BY <1>4 DEF Read, Admit, Refuse, Release, NoRead
<1> QED
  BY <1>1, <1>2, <1>3, <1>4, Zenon DEF Next

\* A step of a worker outside MALadmission, and a reset, change neither the
\* holders nor what a reader has read; a reset only lowers the count.
LEMMA OutsideStep ==
    ASSUME IInv, TypeOK', Holders' = Holders,
           memoryclaims' = memoryclaims \/ memoryclaims' = 0,
           UNCHANGED <<lock, reg>>,
           \A w \in lock : phase'[w] = phase[w] /\ arg'[w] = arg[w]
    PROVE  (LockedRead /\ ClaimsBound)'
<1>1. Cardinality(Holders) \in Nat /\ Cardinality(Holders') = Cardinality(Holders)
  BY HoldersFinite, Zenon
<1>2. ClaimsBound'
  BY <1>1 DEF IInv, ClaimsBound
<1>3. LockedRead'
  BY <1>1, Zenon DEF IInv, LockedRead
<1> QED
  BY <1>2, <1>3, Zenon

\* Every step of the workers, and every reset, preserves the invariant: a
\* granted claim adds one holder and one to the count, a release takes both.
LEMMA InvariantStep == IInv /\ [Next]_vars => IInv'
<1> SUFFICES ASSUME IInv, [Next]_vars
             PROVE  IInv'
  BY Zenon
<1>t. TypeOK'
  BY TypeStep, Zenon DEF IInv
<1>h. IsFiniteSet(Holders) /\ Cardinality(Holders) \in Nat
  BY HoldersFinite, Zenon
<1>1. CASE UNCHANGED vars
  <2>1. Holders' = Holders
    BY <1>1, Zenon DEF vars, Holders
  <2> QED
    BY <1>1, <1>t, <2>1, OutsideStep, Zenon DEF vars, IInv
<1>2. CASE DFLOWinitBlk
  <2>1. Holders' = Holders
    BY <1>2, Zenon DEF DFLOWinitBlk, Holders
  <2> QED
    BY <1>2, <1>t, <2>1, OutsideStep, Zenon DEF DFLOWinitBlk, IInv
<1>3. ASSUME NEW w \in Workers,
             \/ Take(w) \/ AdmitFree(w) \/ Finish(w) \/ Call(w) \/ Return(w)
      PROVE  IInv'
  <2> USE DEF Take, AdmitFree, Finish, Call, Return
  <2>1. Holders' = Holders
    BY <1>3 DEF IInv, TypeOK, Holders
  <2>2. \A v \in lock : phase'[v] = phase[v] /\ arg'[v] = arg[v]
    BY <1>3 DEF IInv, TypeOK, LockedRead
  <2>3. memoryclaims' = memoryclaims \/ memoryclaims' = 0
    BY <1>3, Zenon
  <2>4. UNCHANGED <<lock, reg>>
    BY <1>3, Zenon
  <2> QED
    BY <1>t, <2>1, <2>2, <2>3, <2>4, OutsideStep, Zenon DEF IInv
<1>4. ASSUME NEW w \in Workers, Read(w)
      PROVE  IInv'
  <2>1. Holders' = Holders
    BY <1>4, Zenon DEF Read, Holders
  <2>2. memoryclaims' <= Cardinality(Holders) /\ reg'.claims = memoryclaims'
    BY <1>4, <1>h DEF Read, IInv, TypeOK, ClaimsBound
  <2>3. lock' = {w} /\ phase' = phase /\ arg' = arg
        /\ phase[w] \in {"request", "release"} /\ arg[w] > 0
    BY <1>4, Zenon DEF Read
  <2> QED
    BY <1>t, <2>1, <2>2, <2>3, Zenon DEF IInv, LockedRead, ClaimsBound
<1>5. ASSUME NEW w \in Workers, Refuse(w)
      PROVE  IInv'
  <2>1. Holders' = Holders
    BY <1>5, Zenon DEF Refuse, Holders
  <2> QED
    BY <1>5, <1>t, <2>1, Zenon DEF Refuse, IInv, LockedRead, ClaimsBound
<1>6. ASSUME NEW w \in Workers, Admit(w)
      PROVE  IInv'
  <2>1. w \notin Holders /\ Holders' = Holders \cup {w}
    BY <1>6, Zenon DEF Admit, IInv, TypeOK, LockedRead, Holders
  <2>2. Cardinality(Holders') = Cardinality(Holders) + 1
    BY <1>h, <2>1, FS_AddElement, Zenon
  <2>3. memoryclaims' = reg.claims + 1 /\ reg.claims <= Cardinality(Holders)
    BY <1>6, Zenon DEF Admit, IInv, LockedRead
  <2>4. ClaimsBound'
    BY <1>h, <2>2, <2>3 DEF IInv, TypeOK, ClaimsBound
  <2> QED
    BY <1>6, <1>t, <2>4, Zenon DEF Admit, IInv, LockedRead
<1>7. ASSUME NEW w \in Workers, Release(w)
      PROVE  IInv'
  <2>1. w \in Holders /\ Holders' = Holders \ {w}
    BY <1>7, Zenon DEF Release, IInv, TypeOK, LockedRead, Holders
  <2>2. Cardinality(Holders') = Cardinality(Holders) - 1
    BY <1>h, <2>1, FS_RemoveElement, Zenon
  <2>3. memoryclaims' = reg.claims - 1 /\ reg.claims <= Cardinality(Holders)
    BY <1>7, Zenon DEF Release, IInv, LockedRead
  <2>4. ClaimsBound'
    BY <1>h, <2>2, <2>3 DEF IInv, TypeOK, ClaimsBound
  <2> QED
    BY <1>7, <1>t, <2>4, Zenon DEF Release, IInv, LockedRead
<1> QED
  BY <1>1, <1>2, <1>3, <1>4, <1>5, <1>6, <1>7, Zenon DEF Next

\* The variables of memory admission keep their types, and MALadmission never
\* counts more claims than the workers hold, whatever number of workers,
\* memory claims and resets by DFLOWinitBlk there are.
THEOREM AdmissionInvariant == Spec => [](TypeOK /\ ClaimsBound)
<1>1. Init => IInv
  <2> SUFFICES ASSUME Init
               PROVE  IInv
    BY Zenon
  <2>1. TypeOK /\ LockedRead
    BY DEF Init, TypeOK, LockedRead, NoRead
  <2> QED
    BY <2>1, HoldersFinite DEF Init, IInv, ClaimsBound
<1>2. IInv => TypeOK /\ ClaimsBound
  BY Zenon DEF IInv
<1> QED
  BY <1>1, <1>2, InvariantStep, PTL DEF Spec

\* Where no instruction calls a function with a dataflow block of its own, a
\* request that MALadmission refuses waits for a worker that is executing.
THEOREM WaitWithoutCalls == ~MayCall => (Spec => []WaitIsTemporary)
<1> DEFINE NoCall == \A w \in Workers : phase[w] # "call"
<1> SUFFICES ASSUME ~MayCall
             PROVE  Spec => []WaitIsTemporary
  BY Zenon
<1>1. Init => NoCall
  BY Zenon DEF Init
<1>2. TypeOK /\ NoCall /\ [Next]_vars => NoCall'
  <2> SUFFICES ASSUME TypeOK, NoCall, [Next]_vars
               PROVE  NoCall'
    BY Zenon
  <2>1. UNCHANGED vars \/ DFLOWinitBlk => NoCall'
    BY Zenon DEF vars, DFLOWinitBlk
  <2>2. ASSUME NEW w \in Workers, Call(w)
        PROVE  FALSE
    BY <2>2, Zenon DEF Call
  <2>3. ASSUME NEW w \in Workers,
               \/ Take(w) \/ AdmitFree(w) \/ Read(w) \/ Admit(w) \/ Refuse(w)
               \/ Finish(w) \/ Release(w) \/ Return(w)
        PROVE  NoCall'
    BY <2>3, Zenon DEF TypeOK, Take, AdmitFree, Read, Admit, Refuse, Finish,
                Release, Return
  <2> QED
    BY <2>1, <2>2, <2>3, Zenon DEF Next
<1>3. TypeOK /\ ClaimsBound /\ NoCall => WaitIsTemporary
  <2> SUFFICES ASSUME TypeOK, ClaimsBound, NoCall, memoryclaims > 0
               PROVE  ActiveHolders # {}
    BY Zenon DEF WaitIsTemporary
  <2>1. ActiveHolders = Holders
    BY Zenon DEF ActiveHolders, Holders
  <2>2. Cardinality(Holders) # 0
    BY HoldersFinite DEF ClaimsBound, TypeOK
  <2> QED
    BY <2>1, <2>2, FS_EmptySet, Zenon
<1> QED
  BY <1>1, <1>2, <1>3, AdmissionInvariant, PTL DEF Spec
=============================================================================
