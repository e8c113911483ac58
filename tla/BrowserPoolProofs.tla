-------------------------- MODULE BrowserPoolProofs --------------------------
(* Proofs about BrowserPool, for every set of calls and every max_pages.     *)
(*                                                                           *)
(* The invariant IInv is the conjunction of the invariants TLC checks and of *)
(* LaunchMeansStopped, without which the launch of a second Chrome cannot be *)
(* excluded.  Three lemmas reduce the permit arithmetic of every action to   *)
(* how one call enters, leaves or stays in the set of holders.               *)
EXTENDS BrowserPool, FiniteSetTheorems, TLAPS

(* A call only sits in the launch stage while the pool is reset.             *)
LaunchMeansStopped == \A r \in Request : pc[r] = "launch" => pool = "NotStarted"

IInv ==
    /\ TypeOK
    /\ PermitConservation
    /\ MutexOnlyInside
    /\ PoolTellsTruth
    /\ LaunchMeansStopped

-----------------------------------------------------------------------------
(* The holders are finitely many, so their number is a natural number.       *)
LEMMA HoldersFinite ==
    IsFiniteSet(Holders) /\ Cardinality(Holders) \in Nat
<1>1. Holders \in SUBSET Request
  BY DEF Holders
<1>2. IsFiniteSet(Holders)
  BY <1>1, PoolAssumption, FS_Subset
<1> QED
  BY <1>2, FS_CardinalityType

(* A call that moves to a stage with a permit becomes one more holder.       *)
LEMMA HolderEnters ==
    ASSUME pc \in [Request -> Stage], NEW r \in Request, NEW s \in HoldsPermit,
           pc[r] \notin HoldsPermit, pc' = [pc EXCEPT ![r] = s]
    PROVE  /\ Holders' = Holders \cup {r}
           /\ Cardinality(Holders)' = Cardinality(Holders) + 1
<1>1. Holders' = Holders \cup {r}
  BY DEF Holders
<1>2. r \notin Holders
  BY DEF Holders
<1> QED
  BY <1>1, <1>2, HoldersFinite, FS_AddElement

(* A call that moves to a stage without one is a holder less.                *)
LEMMA HolderLeaves ==
    ASSUME pc \in [Request -> Stage], NEW r \in Request, NEW s \in Stage \ HoldsPermit,
           pc[r] \in HoldsPermit, pc' = [pc EXCEPT ![r] = s]
    PROVE  /\ Holders' = Holders \ {r}
           /\ Cardinality(Holders)' = Cardinality(Holders) - 1
<1>1. Holders' = Holders \ {r}
  BY DEF Holders
<1>2. r \in Holders
  BY DEF Holders
<1> QED
  BY <1>1, <1>2, HoldersFinite, FS_RemoveElement

(* Any other move of a call leaves the holders as they are.                  *)
LEMMA HolderStays ==
    ASSUME pc \in [Request -> Stage], NEW r \in Request, NEW s \in Stage,
           pc[r] \in HoldsPermit <=> s \in HoldsPermit, pc' = [pc EXCEPT ![r] = s]
    PROVE  Holders' = Holders
BY DEF Holders

-----------------------------------------------------------------------------
(* What a step does to the holders: one call enters, one leaves, or none.    *)
HoldersStep ==
    \/ Holders' = Holders /\ permits' = permits
    \/ \E r \in Request :
          /\ r \notin Holders
          /\ permits > 0
          /\ Holders' = Holders \cup {r}
          /\ Cardinality(Holders)' = Cardinality(Holders) + 1
          /\ permits' = permits - 1
    \/ \E r \in Request :
          /\ r \in Holders
          /\ Holders' = Holders \ {r}
          /\ Cardinality(Holders)' = Cardinality(Holders) - 1
          /\ permits' = permits + 1

(* Every step of the pool, action by action, does one of these three.        *)
LEMMA StepOfHolders == TypeOK /\ [Next]_vars => HoldersStep
<1> SUFFICES ASSUME TypeOK, [Next]_vars PROVE HoldersStep
  OBVIOUS
<1> USE DEF Go
<1>0. pc \in [Request -> Stage]
  BY DEF TypeOK
<1>1. ASSUME NEW r \in Request, TakePermit(r) PROVE HoldersStep
  <2>1. pc[r] \notin HoldsPermit /\ "lock" \in HoldsPermit
    BY <1>1 DEF TakePermit, HoldsPermit
  <2> QED
    BY <1>0, <1>1, <2>1, HolderEnters DEF TakePermit, HoldersStep, Holders
<1>2. ASSUME NEW r \in Request, NEW s \in Stage \ HoldsPermit,
             pc[r] \in HoldsPermit, pc' = [pc EXCEPT ![r] = s], permits' = permits + 1
      PROVE  HoldersStep
  BY <1>0, <1>2, HolderLeaves DEF HoldersStep, Holders
<1>3. ASSUME NEW r \in Request, NEW s \in Stage,
             pc[r] \in HoldsPermit <=> s \in HoldsPermit,
             pc' = [pc EXCEPT ![r] = s], permits' = permits
      PROVE  HoldersStep
  BY <1>0, <1>3, HolderStays DEF HoldersStep
<1>4. ASSUME pc' = pc, permits' = permits PROVE HoldersStep
  BY <1>4 DEF HoldersStep, Holders
<1>5. ASSUME NEW r \in Request, Call(r) PROVE HoldersStep
  BY <1>5, <1>3 DEF Call, shared, Stage, HoldsPermit
<1>6. ASSUME NEW r \in Request, TakeMutex(r) PROVE HoldersStep
  <2>1. PICK s \in {"launch", "open"} : pc[r] = "lock" /\ pc' = [pc EXCEPT ![r] = s]
    BY <1>6 DEF TakeMutex
  <2> QED
    BY <1>6, <2>1, <1>3 DEF TakeMutex, Stage, HoldsPermit
<1>7. ASSUME NEW r \in Request, Acquire(r) PROVE HoldersStep
  <2>1. CASE LaunchOk(r) \/ OpenOk(r)
    BY <2>1, <1>3 DEF LaunchOk, OpenOk, Stage, HoldsPermit
  <2>2. CASE LaunchFail(r) \/ OpenFail(r)
    BY <2>2, <1>2 DEF LaunchFail, OpenFail, FailUnderMutex, Stage, HoldsPermit
  <2> QED
    BY <1>7, <2>1, <2>2 DEF Acquire
<1>8. ASSUME NEW r \in Request, UsePage(r) PROVE HoldersStep
  <2>1. CASE NavOk(r) \/ NavFail(r) \/ Extract(r) \/ ShotOk(r)
    BY <2>1, <1>3 DEF NavOk, NavFail, Extract, ShotOk, shared, Stage, HoldsPermit
  <2>2. CASE ShotFail(r) \/ Close(r)
    BY <2>2, <1>2 DEF ShotFail, Close, Stage, HoldsPermit
  <2> QED
    BY <1>8, <2>1, <2>2 DEF UsePage
<1>9. ASSUME NEW r \in Request, Cancel(r) PROVE HoldersStep
  <2>1. CASE r \in Holders
    BY <1>9, <2>1, <1>2 DEF Cancel, Holders, Stage, HoldsPermit
  <2>2. CASE r \notin Holders
    BY <1>9, <2>2, <1>3 DEF Cancel, Holders, Stage, HoldsPermit
  <2> QED
    BY <2>1, <2>2
<1>10. CASE Crash \/ HandlerExit \/ UNCHANGED vars
  BY <1>10, <1>4 DEF Crash, HandlerExit, vars
<1> QED
  BY <1>1, <1>5, <1>6, <1>7, <1>8, <1>9, <1>10 DEF Next

(* The permits stay accounted for.                                           *)
LEMMA StepKeepsPermits ==
    TypeOK /\ PermitConservation /\ [Next]_vars => PermitConservation' /\ permits' \in 0..MaxPages
<1> SUFFICES ASSUME TypeOK, PermitConservation, [Next]_vars
             PROVE  PermitConservation' /\ permits' \in 0..MaxPages
  OBVIOUS
<1>1. HoldersStep
  BY StepOfHolders
<1>2. permits \in 0..MaxPages /\ MaxPages \in Nat
  BY PoolAssumption DEF TypeOK
<1>3. CASE Holders' = Holders /\ permits' = permits
  BY <1>2, <1>3 DEF PermitConservation
<1>4. CASE \E r \in Request :
              /\ r \notin Holders
              /\ permits > 0
              /\ Holders' = Holders \cup {r}
              /\ Cardinality(Holders)' = Cardinality(Holders) + 1
              /\ permits' = permits - 1
  BY <1>2, <1>4, HoldersFinite DEF PermitConservation
<1>5. CASE \E r \in Request :
              /\ r \in Holders
              /\ Holders' = Holders \ {r}
              /\ Cardinality(Holders)' = Cardinality(Holders) - 1
              /\ permits' = permits + 1
  <2>1. Cardinality(Holders) > 0
    BY <1>5, HoldersFinite, FS_EmptySet
  <2> QED
    BY <1>2, <1>5, <2>1, HoldersFinite DEF PermitConservation
<1> QED
  BY <1>1, <1>3, <1>4, <1>5 DEF HoldersStep

-----------------------------------------------------------------------------
(* What each invariant says of the stage of one call, for the case analysis. *)
StageInv ==
    /\ MutexOnlyInside
    /\ PoolTellsTruth
    /\ LaunchMeansStopped

(* Types but for the permits, which StepKeepsPermits bounds.                 *)
LEMMA StepKeepsTypes ==
    TypeOK /\ PermitConservation /\ [Next]_vars => TypeOK'
<1> SUFFICES ASSUME TypeOK, PermitConservation, [Next]_vars PROVE TypeOK'
  OBVIOUS
<1>0. permits' \in 0..MaxPages
  BY StepKeepsPermits
<1> USE PoolAssumption DEF TypeOK, Stage, Go, DropPage, shared
<1>1. ASSUME NEW r \in Request, AbandonTab(r)
      PROVE  /\ page' \in [Request -> {"none", "live", "dead"}]
             /\ orphans' \in 0..OrphanCap
  BY <1>1 DEF AbandonTab, Saturate
<1>2. ASSUME NEW r \in Request, Call(r) PROVE TypeOK'
  BY <1>2, <1>0 DEF Call
<1>3. ASSUME NEW r \in Request, TakePermit(r) PROVE TypeOK'
  BY <1>3, <1>0 DEF TakePermit
<1>4. ASSUME NEW r \in Request, TakeMutex(r) PROVE TypeOK'
  BY <1>4, <1>0 DEF TakeMutex
<1>5. ASSUME NEW r \in Request, Acquire(r) PROVE TypeOK'
  BY <1>5, <1>0 DEF Acquire, LaunchOk, LaunchFail, OpenOk, OpenFail, FailUnderMutex
<1>6. ASSUME NEW r \in Request, UsePage(r) PROVE TypeOK'
  <2>1. CASE NavOk(r) \/ NavFail(r) \/ Extract(r) \/ ShotOk(r)
    BY <2>1, <1>0 DEF NavOk, NavFail, Extract, ShotOk
  <2>2. CASE ShotFail(r)
    BY <2>2, <1>0, <1>1 DEF ShotFail
  <2>3. CASE Close(r)
    BY <2>3, <1>0, <1>1 DEF Close
  <2> QED
    BY <1>6, <2>1, <2>2, <2>3 DEF UsePage
<1>7. ASSUME NEW r \in Request, Cancel(r) PROVE TypeOK'
  <2>1. page' \in [Request -> {"none", "live", "dead"}] /\ orphans' \in 0..OrphanCap
    BY <1>7, <1>1 DEF Cancel, Saturate
  <2> QED
    BY <1>7, <2>1, <1>0 DEF Cancel
<1>8. CASE Crash \/ HandlerExit
  BY <1>8, <1>0 DEF Crash, HandlerExit
<1>9. CASE UNCHANGED vars
  BY <1>9 DEF vars
<1> QED
  BY <1>2, <1>3, <1>4, <1>5, <1>6, <1>7, <1>8, <1>9 DEF Next

(* The mutex and the pool's record of Chrome stay consistent.                *)
LEMMA StepKeepsStages ==
    TypeOK /\ StageInv /\ [Next]_vars => StageInv'
<1> SUFFICES ASSUME TypeOK, StageInv, [Next]_vars PROVE StageInv'
  OBVIOUS
<1> USE PoolAssumption DEF TypeOK, StageInv, MutexOnlyInside,
        PoolTellsTruth, LaunchMeansStopped, Stage, HoldsMutex, Go, DropPage, shared
<1>2. ASSUME NEW r \in Request, Call(r) PROVE StageInv'
  BY <1>2 DEF Call
<1>3. ASSUME NEW r \in Request, TakePermit(r) PROVE StageInv'
  BY <1>3 DEF TakePermit
<1>4. ASSUME NEW r \in Request, TakeMutex(r) PROVE StageInv'
  BY <1>4 DEF TakeMutex, MustLaunch
<1>5. ASSUME NEW r \in Request, Acquire(r) PROVE StageInv'
  BY <1>5 DEF Acquire, LaunchOk, LaunchFail, OpenOk, OpenFail, FailUnderMutex
<1>6. ASSUME NEW r \in Request, UsePage(r) PROVE StageInv'
  BY <1>6 DEF UsePage, NavOk, NavFail, Extract, ShotOk, ShotFail, Close, AbandonTab, Saturate
<1>7. ASSUME NEW r \in Request, Cancel(r) PROVE StageInv'
  BY <1>7 DEF Cancel, AbandonTab, Saturate
<1>8. CASE Crash \/ HandlerExit
  BY <1>8 DEF Crash, HandlerExit
<1>9. CASE UNCHANGED vars
  BY <1>9 DEF vars
<1> QED
  BY <1>2, <1>3, <1>4, <1>5, <1>6, <1>7, <1>8, <1>9 DEF Next

-----------------------------------------------------------------------------
(* The initial state has all permits, a free mutex and no Chrome.            *)
LEMMA InitIInv == Init => IInv
<1> SUFFICES ASSUME Init PROVE IInv
  OBVIOUS
<1>1. TypeOK
  BY PoolAssumption DEF Init, TypeOK, Stage
<1>2. Holders = {}
  BY DEF Init, Holders, HoldsPermit
<1>3. PermitConservation
  BY <1>2, PoolAssumption, FS_EmptySet DEF Init, PermitConservation
<1>4. MutexOnlyInside /\ PoolTellsTruth /\ LaunchMeansStopped
  BY PoolAssumption DEF Init, MutexOnlyInside, PoolTellsTruth,
     LaunchMeansStopped, HoldsMutex
<1> QED
  BY <1>1, <1>3, <1>4 DEF IInv

(* No step of a call, of Chrome or of its handler breaks the invariant.      *)
LEMMA StepKeepsIInv == IInv /\ [Next]_vars => IInv'
BY StepKeepsPermits, StepKeepsTypes, StepKeepsStages DEF IInv, StageInv

(* The inductive invariant holds in every reachable state.                   *)
THEOREM Invariance == Spec => []IInv
BY InitIInv, StepKeepsIInv, PTL DEF Spec

(* Every variable keeps its type.                                            *)
THEOREM TypeCorrect == Spec => []TypeOK
<1>1. IInv => TypeOK
  BY DEF IInv
<1> QED
  BY <1>1, Invariance, PTL

(* No path through a call, an error or a cancellation loses or mints a page  *)
(* slot, for every number of calls and every max_pages.                      *)
THEOREM PermitsConserved == Spec => []PermitConservation
<1>1. IInv => PermitConservation
  BY DEF IInv
<1> QED
  BY <1>1, Invariance, PTL

(* The pool's mutex is held by the one call that is inside acquire_page, and *)
(* by nobody otherwise.                                                      *)
THEOREM MutexHeldInside == Spec => []MutexOnlyInside
<1>1. IInv => MutexOnlyInside
  BY DEF IInv
<1> QED
  BY <1>1, Invariance, PTL

(* The pool's record never denies a Chrome that runs with its handler.       *)
THEOREM PoolRecordTrue == Spec => []PoolTellsTruth
<1>1. IInv => PoolTellsTruth
  BY DEF IInv
<1> QED
  BY <1>1, Invariance, PTL

(* However many calls race to launch, a Chrome is only started where none    *)
(* runs: whoever launches has the mutex, and found or left the pool stopped. *)
THEOREM OneChrome == Spec => NoSecondChrome
<1>1. IInv => (Launches => chrome = "down")
  <2> SUFFICES ASSUME IInv, NEW r \in Request, pc[r] = "launch" PROVE chrome = "down"
    BY DEF Launches
  <2>1. pool = "NotStarted"
    BY DEF IInv, LaunchMeansStopped
  <2>2. handler = "none"
    BY <2>1 DEF IInv, PoolTellsTruth
  <2> QED
    BY <2>2 DEF IInv, PoolTellsTruth, TypeOK
<1>2. IInv /\ [Next]_vars => [Launches => chrome = "down"]_vars
  BY <1>1
<1> QED
  BY <1>2, Invariance, PTL DEF Spec, NoSecondChrome

(* The pool implements PageSlots: seen through the set of calls that hold a  *)
(* permit, every step takes one slot of a free one, gives one back, or does  *)
(* nothing.                                                                  *)
THEOREM ImplementsSlots == Spec => SlotsSafety
<1>1. Init => Slots!Init
  BY DEF Init, Slots!Init, Holders, HoldsPermit
<1>2. IInv /\ [Next]_vars => [Slots!Next]_Holders
  <2> SUFFICES ASSUME IInv, [Next]_vars PROVE [Slots!Next]_Holders
    OBVIOUS
  <2>1. HoldersStep
    BY StepOfHolders DEF IInv
  <2>2. permits + Cardinality(Holders) = MaxPages /\ permits \in Nat /\ Cardinality(Holders) \in Nat
    BY HoldersFinite, PoolAssumption DEF IInv, PermitConservation, TypeOK
  <2>3. permits > 0 => Cardinality(Holders) < MaxPages
    BY <2>2, PoolAssumption
  <2>4. Slots!Cardinality(Holders) = Cardinality(Holders)
    BY DEF Slots!Cardinality, Cardinality
  <2> QED
    BY <2>1, <2>3, <2>4 DEF HoldersStep, Slots!Next, Slots!Take, Slots!Give
<1> QED
  BY <1>1, <1>2, Invariance, PTL DEF Spec, SlotsSafety, Slots!Safety
=============================================================================
