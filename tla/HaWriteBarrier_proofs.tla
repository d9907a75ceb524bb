------------------------ MODULE HaWriteBarrier_proofs ------------------------
(***************************************************************************)
(* Proofs about HaWriteBarrier for every set of tasks and promotions.      *)
(* The argument: activeWrites counts the active leases, so a count of zero *)
(* means that no operation runs; and while the node is primary a promotion *)
(* that is under way is the only one and keeps the fence closed, so no     *)
(* lease is taken behind it.                                               *)
(***************************************************************************)
EXTENDS HaWriteBarrier, FiniteSetTheorems, TLAPS

(* Exactly the waiting promotions are registered, and the fence belongs to *)
(* the one promotion that is under way while the node is primary.          *)
WaitersAreDraining == \A p \in drainWaiters : promotion[p] = "draining"

FenceIsOwned ==
    role = "primary" =>
        \A p, q \in Promotion :
            promotion[p] # "idle" => /\ fencedForPromotion
                                     /\ promotion[q] # "idle" => p = q

IInv ==
    /\ TypeOK
    /\ LeaseAccounting
    /\ NoLostDrain
    /\ WaitersAreDraining
    /\ FenceIsOwned
    /\ PromotionExcludesWrites

Active == {t \in Task : lease[t] = "active"}

(* A count of zero means that no task holds an active lease.               *)
LEMMA ZeroMeansNone ==
    ASSUME NEW f, Cardinality({t \in Task : f[t] = "active"}) = 0
    PROVE  \A t \in Task : f[t] # "active"
<1> DEFINE A == {t \in Task : f[t] = "active"}
<1>1. IsFiniteSet(A)
  BY TasksFinite, FS_Subset
<1>2. A = {}
  BY <1>1, FS_EmptySet
<1> QED
  BY <1>2

LEMMA ZeroMeansQuiet ==
    ASSUME TypeOK, LeaseAccounting, activeWrites = 0
    PROVE  \A t \in Task : ops[t] = 0
<1>1. \A t \in Task : lease[t] # "active"
  BY ZeroMeansNone DEF LeaseAccounting
<1> QED
  BY <1>1 DEF LeaseAccounting, TypeOK

(* Taking a lease adds one element to the set of active leases.            *)
LEMMA AdmitCounts ==
    ASSUME TypeOK, LeaseAccounting, NEW t \in Task, Admit(t)
    PROVE  LeaseAccounting'
<1>1. IsFiniteSet(Active)
  BY TasksFinite, FS_Subset DEF Active
<1>2. Active' = Active \union {t} /\ t \notin Active
  BY DEF Admit, Inherits, Active, TypeOK
<1>3. Cardinality(Active') = Cardinality(Active) + 1
  BY <1>1, <1>2, FS_AddElement
<1>4. activeWrites' = Cardinality(Active')
  BY <1>3 DEF Admit, Acquire, LeaseAccounting, Active
<1>5. \A u \in Task : ops'[u] > 0 <=> lease'[u] = "active"
  BY DEF Admit, LeaseAccounting, TypeOK
<1> QED
  BY <1>4, <1>5 DEF LeaseAccounting, Active

(* Ending a lease removes one element.                                     *)
LEMMA FinishCounts ==
    ASSUME TypeOK, LeaseAccounting, NEW t \in Task, Finish(t)
    PROVE  LeaseAccounting' /\ activeWrites >= 1
<1>1. IsFiniteSet(Active)
  BY TasksFinite, FS_Subset DEF Active
<1>2. Active' = Active \ {t} /\ t \in Active
  BY DEF Finish, Inherits, Active, TypeOK
<1>3. Cardinality(Active') = Cardinality(Active) - 1
  BY <1>1, <1>2, FS_RemoveElement
<1>4. activeWrites' = Cardinality(Active')
  BY <1>3 DEF Finish, LeaseAccounting, Active
<1>5. \A u \in Task : ops'[u] > 0 <=> lease'[u] = "active"
  BY DEF Finish, LeaseAccounting, TypeOK
<1>6. Cardinality(Active') \in Nat
  BY <1>1, <1>2, FS_RemoveElement, FS_CardinalityType
<1> QED
  BY <1>4, <1>5, <1>6 DEF LeaseAccounting, Active, Finish, TypeOK

LEMMA InitIInv == Init => IInv
<1> SUFFICES ASSUME Init PROVE IInv
  OBVIOUS
<1>1. {t \in Task : lease[t] = "active"} = {}
  BY DEF Init
<1>2. LeaseAccounting
  BY <1>1, FS_EmptySet DEF Init, LeaseAccounting
<1> QED
  BY <1>2 DEF Init, IInv, TypeOK, NoLostDrain, WaitersAreDraining, FenceIsOwned,
              PromotionExcludesWrites, Past

(* Every step preserves the invariant.                                     *)
LEMMA NextIInv == IInv /\ [Next]_vars => IInv'
<1> SUFFICES ASSUME IInv, [Next]_vars PROVE IInv'
  OBVIOUS
<1> USE DEF IInv
<1>1. ASSUME NEW t \in Task, Admit(t) PROVE IInv'
  <2>1. TypeOK'
    BY <1>1 DEF Admit, Acquire, fences, TypeOK
  <2>2. LeaseAccounting'
    BY <1>1, AdmitCounts
  <2>3. NoLostDrain' /\ WaitersAreDraining' /\ FenceIsOwned'
    BY <1>1 DEF Admit, Acquire, fences, TypeOK, NoLostDrain, WaitersAreDraining, FenceIsOwned
  <2>4. PromotionExcludesWrites'
    BY <1>1 DEF Admit, AdmissionOpen, fences, FenceIsOwned, PromotionExcludesWrites, Past, TypeOK
  <2> QED
    BY <2>1, <2>2, <2>3, <2>4
<1>2. ASSUME NEW t \in Task, Nest(t) PROVE IInv'
  <2>1. TypeOK' /\ LeaseAccounting'
    BY <1>2 DEF Nest, Inherits, fences, TypeOK, LeaseAccounting
  <2>2. NoLostDrain' /\ WaitersAreDraining' /\ FenceIsOwned'
    BY <1>2 DEF Nest, fences, NoLostDrain, WaitersAreDraining, FenceIsOwned
  <2>3. PromotionExcludesWrites'
    BY <1>2 DEF Nest, Inherits, fences, PromotionExcludesWrites, Past, LeaseAccounting, TypeOK
  <2> QED
    BY <2>1, <2>2, <2>3
<1>3. ASSUME NEW t \in Task, EndNested(t) PROVE IInv'
  <2>1. TypeOK' /\ LeaseAccounting'
    BY <1>3 DEF EndNested, fences, TypeOK, LeaseAccounting
  <2>2. NoLostDrain' /\ WaitersAreDraining' /\ FenceIsOwned'
    BY <1>3 DEF EndNested, fences, NoLostDrain, WaitersAreDraining, FenceIsOwned
  <2>3. PromotionExcludesWrites'
    BY <1>3 DEF EndNested, fences, PromotionExcludesWrites, Past, TypeOK
  <2> QED
    BY <2>1, <2>2, <2>3
<1>4. ASSUME NEW t \in Task, Finish(t) PROVE IInv'
  <2>1. LeaseAccounting' /\ activeWrites >= 1
    BY <1>4, FinishCounts
  <2>2. TypeOK'
    BY <1>4, <2>1 DEF Finish, fences, TypeOK
  <2>3. NoLostDrain' /\ WaitersAreDraining'
    BY <1>4, <2>1 DEF Finish, LastWriter, TypeOK, NoLostDrain, WaitersAreDraining
  <2>4. FenceIsOwned'
    BY <1>4 DEF Finish, fences, TypeOK, FenceIsOwned, WaitersAreDraining
  <2>5. PromotionExcludesWrites'
    <3>1. CASE LastWriter
      <4>1. activeWrites' = 0
        BY <1>4, <3>1 DEF Finish, LastWriter
      <4>2. \A u \in Task : lease'[u] # "active"
        BY <2>1, <4>1, ZeroMeansNone DEF LeaseAccounting
      <4>3. \A u \in Task : ops'[u] = 0
        BY <2>1, <2>2, <4>2 DEF LeaseAccounting, TypeOK
      <4> QED
        BY <4>3 DEF PromotionExcludesWrites
    <3>2. CASE ~LastWriter
      BY <1>4, <3>2 DEF Finish, fences, PromotionExcludesWrites, Past, TypeOK
    <3> QED
      BY <3>1, <3>2
  <2> QED
    BY <2>1, <2>2, <2>3, <2>4, <2>5
<1>5. ASSUME NEW t \in Task, Commit(t) PROVE IInv'
  BY <1>5 DEF Commit, fences, writes, TypeOK, LeaseAccounting, NoLostDrain, WaitersAreDraining,
              FenceIsOwned, PromotionExcludesWrites, Past
<1>6. ASSUME NEW p \in Promotion, BeginPromotion(p) PROVE IInv'
  <2>1. TypeOK' /\ LeaseAccounting' /\ NoLostDrain' /\ WaitersAreDraining'
    BY <1>6 DEF BeginPromotion, fences, writes, TypeOK, LeaseAccounting, NoLostDrain, WaitersAreDraining
  <2>2. FenceIsOwned'
    BY <1>6 DEF BeginPromotion, AdmissionOpen, fences, TypeOK, FenceIsOwned
  <2>3. PromotionExcludesWrites'
    BY <1>6, ZeroMeansQuiet DEF BeginPromotion, fences, writes, TypeOK, PromotionExcludesWrites, Past
  <2> QED
    BY <2>1, <2>2, <2>3
<1>7. ASSUME NEW p \in Promotion, Drained(p) PROVE IInv'
  BY <1>7 DEF Drained, fences, writes, TypeOK, LeaseAccounting, NoLostDrain, WaitersAreDraining,
              FenceIsOwned, PromotionExcludesWrites, Past
<1>8. ASSUME NEW p \in Promotion, DrainTimeout(p) PROVE IInv'
  BY <1>8 DEF DrainTimeout, fences, writes, TypeOK, LeaseAccounting, NoLostDrain, WaitersAreDraining,
              FenceIsOwned, PromotionExcludesWrites, Past
<1>9. ASSUME NEW p \in Promotion, SaveIntent(p) PROVE IInv'
  BY <1>9 DEF SaveIntent, fences, writes, TypeOK, LeaseAccounting, NoLostDrain, WaitersAreDraining,
              FenceIsOwned, PromotionExcludesWrites, Past
<1>10. ASSUME NEW p \in Promotion, AbortPromotion(p) PROVE IInv'
  BY <1>10 DEF AbortPromotion, fences, writes, TypeOK, LeaseAccounting, NoLostDrain, WaitersAreDraining,
              FenceIsOwned, PromotionExcludesWrites, Past
<1>11. ASSUME NEW p \in Promotion, InterruptPromotion(p) PROVE IInv'
  BY <1>11 DEF InterruptPromotion, fences, writes, TypeOK, LeaseAccounting, NoLostDrain, WaitersAreDraining,
              FenceIsOwned, PromotionExcludesWrites, Past
<1>12. ASSUME NEW p \in Promotion, CompletePromotion(p) PROVE IInv'
  BY <1>12 DEF CompletePromotion, Demote, writes, TypeOK, LeaseAccounting, NoLostDrain, WaitersAreDraining,
              FenceIsOwned, PromotionExcludesWrites, Past
<1>13. ASSUME CompleteRecovery PROVE IInv'
  BY <1>13 DEF CompleteRecovery, Demote, writes, TypeOK, LeaseAccounting, NoLostDrain, WaitersAreDraining,
              FenceIsOwned, PromotionExcludesWrites, Past
<1>14. ASSUME FenceAuthority \/ QuorumChange PROVE IInv'
  BY <1>14 DEF FenceAuthority, QuorumChange, writes, TypeOK, LeaseAccounting, NoLostDrain,
              WaitersAreDraining, FenceIsOwned, PromotionExcludesWrites, Past
<1>15. ASSUME AdoptDiscoveredPrimary PROVE IInv'
  BY <1>15 DEF AdoptDiscoveredPrimary, writes, TypeOK, LeaseAccounting, NoLostDrain,
              WaitersAreDraining, FenceIsOwned, PromotionExcludesWrites, Past
<1>16. CASE UNCHANGED vars
  BY <1>16 DEF vars, fences, writes, TypeOK, LeaseAccounting, NoLostDrain, WaitersAreDraining,
              FenceIsOwned, PromotionExcludesWrites, Past
<1> QED
  BY <1>1, <1>2, <1>3, <1>4, <1>5, <1>6, <1>7, <1>8, <1>9, <1>10, <1>11, <1>12, <1>13, <1>14,
     <1>15, <1>16 DEF Next

THEOREM Invariance == Spec => []IInv
<1> QED
  BY InitIInv, NextIInv, PTL DEF Spec

(* The state keeps its types; in particular activeWrites never goes below  *)
(* zero, however leases, nested operations and promotions interleave.      *)
THEOREM TypeCorrect == Spec => []TypeOK
<1>1. IInv => TypeOK
  BY DEF IInv
<1> QED
  BY <1>1, Invariance, PTL

(* activeWrites is the number of leases that are held, and an operation    *)
(* runs exactly under a lease: a context that outlives its lease is never  *)
(* taken for one (runPrimaryWrite).                                        *)
THEOREM LeasesAreCounted == Spec => []LeaseAccounting
<1>1. IInv => LeaseAccounting
  BY DEF IInv
<1> QED
  BY <1>1, Invariance, PTL

(* beginPromotion returns only when no write runs, and none starts behind  *)
(* it while the node is primary.                                           *)
THEOREM PromotionIsExclusive == Spec => []PromotionExcludesWrites
<1>1. IInv => PromotionExcludesWrites
  BY DEF IInv
<1> QED
  BY <1>1, Invariance, PTL

(* No promotion waits for a wakeup that never comes.                       *)
THEOREM DrainIsWoken == Spec => []NoLostDrain
<1>1. IInv => NoLostDrain
  BY DEF IInv
<1> QED
  BY <1>1, Invariance, PTL

(* No changelog row is committed behind the barrier of a promotion.        *)
THEOREM BarrierHolds == Spec => NoCommitBehindBarrier
<1>1. IInv /\ [Next]_vars =>
        [(\E p \in Promotion : promotion[p] \in {"holding", "activating"}) => commits' = commits]_vars
  <2> SUFFICES ASSUME IInv, Next, NEW p \in Promotion, promotion[p] \in {"holding", "activating"}
               PROVE  commits' = commits
    OBVIOUS
  <2>1. ASSUME NEW t \in Task, Commit(t) PROVE FALSE
    BY <2>1 DEF Commit, Writable, IInv, PromotionExcludesWrites, Past, TypeOK
  <2> QED
    BY <2>1 DEF Next, Admit, Nest, EndNested, Finish, BeginPromotion, Drained, DrainTimeout, SaveIntent,
                AbortPromotion, InterruptPromotion, CompletePromotion, CompleteRecovery, Demote,
                FenceAuthority, QuorumChange, AdoptDiscoveredPrimary
<1> QED
  BY <1>1, Invariance, PTL DEF Spec, NoCommitBehindBarrier
=============================================================================
