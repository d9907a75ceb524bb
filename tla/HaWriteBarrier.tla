--------------------------- MODULE HaWriteBarrier ---------------------------
(***************************************************************************)
(* The write admission barrier of one node                                 *)
(* (src/src/services/ha-write-barrier.ts), the repository's own check       *)
(* assertPrimaryWritable, and the places that open and close the promotion *)
(* fence (promoteNode, finalizePromotion, adoptDiscoveredPrimary and boot). *)
(*                                                                         *)
(* A task is a chain of asynchronous calls: an admin request, a scheduler  *)
(* round, or a continuation that one of them left running.  Every step     *)
(* below runs between two awaits, so it is atomic; tasks, promotions,      *)
(* timers and fences interleave freely between the steps.                  *)
(***************************************************************************)
EXTENDS Integers, FiniteSets

CONSTANTS
    Task,        \* tasks that write configuration
    Promotion,   \* calls of promoteNode
    MaxOps,      \* bound: operations one lease runs at once (itself and nested)
    MaxCommits   \* bound: row commits

ASSUME TasksFinite == IsFiniteSet(Task)
ASSUME BoundsAreNat == MaxOps \in Nat /\ MaxCommits \in Nat

VARIABLES
    role,                \* config.ha.role
    authorityFence,      \* config.ha.authorityFence # null
    quorumLost,          \* config.ha.quorumFenced || isQuorumProofStale()
    fencedForPromotion,  \* config.ha.fencedForPromotion
    intent,              \* a row in ha_promotion_intent (durable)
    lease,               \* the WriteLeaseContext a task carries: none, active, ended
    ops,                 \* operations the task is running under its lease
    activeWrites,        \* HaPrimaryWriteBarrier.activeWrites
    drainWaiters,        \* promotions whose resolve callback is registered
    promotion,           \* where each promoteNode call stands
    commits              \* changelog rows committed by primary writes so far

fences == <<role, authorityFence, quorumLost>>
writes == <<lease, ops, activeWrites>>
vars == <<fences, fencedForPromotion, intent, writes, drainWaiters, promotion, commits>>

TypeOK ==
    /\ role \in {"primary", "replica"}
    /\ authorityFence \in BOOLEAN
    /\ quorumLost \in BOOLEAN
    /\ fencedForPromotion \in BOOLEAN
    /\ intent \in BOOLEAN
    /\ lease \in [Task -> {"none", "active", "ended"}]
    /\ ops \in [Task -> Nat]
    /\ activeWrites \in Nat
    /\ drainWaiters \subseteq Promotion
    /\ promotion \in [Promotion -> {"idle", "draining", "drained", "holding", "activating"}]
    /\ commits \in Nat

(* prepareForRuntimeAtBoot: a primary that finds a durable promotion intent *)
(* starts with the promotion fence closed; a durable authority fence is    *)
(* loaded from the configuration row.                                      *)
Init ==
    /\ role = "primary"
    /\ authorityFence \in BOOLEAN
    /\ quorumLost \in BOOLEAN
    /\ intent \in BOOLEAN
    /\ fencedForPromotion = intent
    /\ lease = [t \in Task |-> "none"]
    /\ ops = [t \in Task |-> 0]
    /\ activeWrites = 0
    /\ drainWaiters = {}
    /\ promotion = [p \in Promotion |-> "idle"]
    /\ commits = 0

(***************************************************************************)
(* runPrimaryWrite                                                         *)
(***************************************************************************)

(* Faulty variant: an ended context is inherited too.                      *)
InheritsAnyContext(t) == lease[t] # "none"

(* inherited?.active: the call runs inside a lease that has not ended.     *)
Inherits(t) == lease[t] = "active"

(* Faulty variant: the promotion fence is not part of admission.           *)
AdmissionIgnoresPromotion == ~authorityFence /\ ~quorumLost

AdmissionOpen == ~authorityFence /\ ~quorumLost /\ ~fencedForPromotion

Acquire == activeWrites' = activeWrites + 1

(* Faulty variant: the count is tested before it goes down.                *)
NoWriterBefore == activeWrites = 0

(* this.activeWrites === 0 after the decrement *)
LastWriter == activeWrites = 1

(* The call inherits no active lease: it takes one of its own.             *)
Admit(t) ==
    /\ ~Inherits(t)
    /\ AdmissionOpen
    /\ lease' = [lease EXCEPT ![t] = "active"]
    /\ ops' = [ops EXCEPT ![t] = @ + 1]
    /\ Acquire
    /\ UNCHANGED <<fences, fencedForPromotion, intent, drainWaiters, promotion, commits>>

(* The call inherits an active lease: it runs without a check or a count.  *)
Nest(t) ==
    /\ Inherits(t)
    /\ ops[t] < MaxOps
    /\ ops' = [ops EXCEPT ![t] = @ + 1]
    /\ UNCHANGED <<fences, fencedForPromotion, intent, lease, activeWrites, drainWaiters, promotion, commits>>

(* A nested operation ends; the operation of the lease itself is the last. *)
EndNested(t) ==
    /\ ops[t] > 1
    /\ ops' = [ops EXCEPT ![t] = @ - 1]
    /\ UNCHANGED <<fences, fencedForPromotion, intent, lease, activeWrites, drainWaiters, promotion, commits>>

(* The finally block: the context is deactivated, the count goes down and  *)
(* the last writer resolves every waiter.  The task keeps the ended        *)
(* context, as a continuation it left behind does.                         *)
Finish(t) ==
    /\ Inherits(t)
    /\ ops[t] = 1
    /\ lease' = [lease EXCEPT ![t] = "ended"]
    /\ ops' = [ops EXCEPT ![t] = 0]
    /\ activeWrites' = activeWrites - 1
    /\ IF LastWriter
       THEN /\ promotion' = [p \in Promotion |-> IF p \in drainWaiters THEN "drained" ELSE promotion[p]]
            /\ drainWaiters' = {}
       ELSE UNCHANGED <<promotion, drainWaiters>>
    /\ UNCHANGED <<fences, fencedForPromotion, intent, commits>>

(* Faulty variant: a node that is no longer primary may write.             *)
WritableInAnyRole(t) == fencedForPromotion => Inherits(t)

(* assertPrimaryWritable *)
Writable(t) == role = "primary" /\ (fencedForPromotion => Inherits(t))

(* An operation commits a row and its changelog entry.                     *)
Commit(t) ==
    /\ ops[t] > 0
    /\ Writable(t)
    /\ commits < MaxCommits
    /\ commits' = commits + 1
    /\ UNCHANGED <<fences, fencedForPromotion, intent, writes, drainWaiters, promotion>>

(***************************************************************************)
(* beginPromotion and endPromotion, as promoteNode calls them.             *)
(* beginPromotion also refuses while config.ha.electionInProgress is set;  *)
(* only a replica campaigns, so on a primary that flag is never set.       *)
(***************************************************************************)

BeginPromotion(p) ==
    /\ promotion[p] = "idle"
    /\ role = "primary"
    /\ AdmissionOpen
    /\ fencedForPromotion' = TRUE
    /\ IF activeWrites = 0
       THEN /\ promotion' = [promotion EXCEPT ![p] = "holding"]
            /\ UNCHANGED drainWaiters
       ELSE /\ promotion' = [promotion EXCEPT ![p] = "draining"]
            /\ drainWaiters' = drainWaiters \union {p}
    /\ UNCHANGED <<fences, intent, writes, commits>>

(* The promise was resolved: beginPromotion's continuation runs.           *)
Drained(p) ==
    /\ promotion[p] = "drained"
    /\ promotion' = [promotion EXCEPT ![p] = "holding"]
    /\ drainWaiters' = drainWaiters \ {p}
    /\ UNCHANGED <<fences, fencedForPromotion, intent, writes, commits>>

(* The drain timer fires before the promise is resolved.                   *)
DrainTimeout(p) ==
    /\ promotion[p] = "draining"
    /\ fencedForPromotion' = FALSE
    /\ promotion' = [promotion EXCEPT ![p] = "idle"]
    /\ drainWaiters' = drainWaiters \ {p}
    /\ UNCHANGED <<fences, intent, writes, commits>>

(* The handshakes succeeded and saveHaPromotionIntent committed.           *)
SaveIntent(p) ==
    /\ promotion[p] = "holding"
    /\ promotion' = [promotion EXCEPT ![p] = "activating"]
    /\ intent' = TRUE
    /\ UNCHANGED <<fences, fencedForPromotion, writes, drainWaiters, commits>>

(* promoteNode fails before its intent is durable, or the activation       *)
(* message was not sent or was rejected and the intent is withdrawn.       *)
AbortPromotion(p) ==
    /\ promotion[p] \in {"holding", "activating"}
    /\ promotion' = [promotion EXCEPT ![p] = "idle"]
    /\ intent' = (intent /\ promotion[p] = "holding")
    /\ fencedForPromotion' = FALSE
    /\ UNCHANGED <<fences, writes, drainWaiters, commits>>

(* The outcome of the activation is unknown: promoteNode throws and leaves *)
(* the fence and the intent in place.                                      *)
InterruptPromotion(p) ==
    /\ promotion[p] = "activating"
    /\ promotion' = [promotion EXCEPT ![p] = "idle"]
    /\ UNCHANGED <<fences, fencedForPromotion, intent, writes, drainWaiters, commits>>

(* completeHaPromotionIntent commits the demotion, then endPromotion.      *)
Demote ==
    /\ intent /\ ~authorityFence
    /\ intent' = FALSE
    /\ role' = "replica"
    /\ fencedForPromotion' = FALSE
    /\ UNCHANGED <<authorityFence, quorumLost, writes, drainWaiters, commits>>

(* finalizePromotion of promoteNode: the target acknowledged.              *)
CompletePromotion(p) ==
    /\ promotion[p] = "activating"
    /\ Demote
    /\ promotion' = [promotion EXCEPT ![p] = "idle"]

(* resumePromotionIfNeeded: the target reconnected and acknowledged.       *)
CompleteRecovery ==
    /\ role = "primary"
    /\ Demote
    /\ UNCHANGED promotion

(***************************************************************************)
(* The other writers of the flags                                          *)
(***************************************************************************)

(* fencePrimaryAuthority: a replica reported a newer epoch.                *)
FenceAuthority ==
    /\ role = "primary"
    /\ authorityFence' = TRUE
    /\ UNCHANGED <<role, quorumLost, fencedForPromotion, intent, writes, drainWaiters, promotion, commits>>

(* A vote request, the quorum tick, or the majority proof going stale; the *)
(* tick clears it again.                                                   *)
QuorumChange ==
    /\ role = "primary"
    /\ quorumLost' = ~quorumLost
    /\ UNCHANGED <<role, authorityFence, fencedForPromotion, intent, writes, drainWaiters, promotion, commits>>

(* adoptDiscoveredPrimary: every fence is opened, the node is a replica.   *)
AdoptDiscoveredPrimary ==
    /\ role' = "replica"
    /\ authorityFence' = FALSE
    /\ quorumLost' = FALSE
    /\ fencedForPromotion' = FALSE
    /\ intent' = FALSE
    /\ UNCHANGED <<writes, drainWaiters, promotion, commits>>

Next ==
    \/ \E t \in Task : Admit(t) \/ Nest(t) \/ EndNested(t) \/ Finish(t) \/ Commit(t)
    \/ \E p \in Promotion :
          \/ BeginPromotion(p) \/ Drained(p) \/ DrainTimeout(p) \/ SaveIntent(p)
          \/ AbortPromotion(p) \/ InterruptPromotion(p) \/ CompletePromotion(p)
    \/ CompleteRecovery \/ FenceAuthority \/ QuorumChange \/ AdoptDiscoveredPrimary

Spec == Init /\ [][Next]_vars

(***************************************************************************)
(* Properties                                                              *)
(***************************************************************************)

(* activeWrites counts exactly the leases that are active, and operations  *)
(* run only under one: the count promotion waits on never misses a writer  *)
(* and never goes negative.                                                *)
LeaseAccounting ==
    /\ activeWrites = Cardinality({t \in Task : lease[t] = "active"})
    /\ \A t \in Task : ops[t] > 0 <=> lease[t] = "active"

(* beginPromotion's wait is over. *)
Past(p) == promotion[p] \in {"drained", "holding", "activating"}

(* Once beginPromotion has returned and while the node is still primary,   *)
(* no write operation is running: the changelog position captured next is  *)
(* behind no write in flight.                                              *)
PromotionExcludesWrites ==
    role = "primary" => \A p \in Promotion : Past(p) => \A t \in Task : ops[t] = 0

(* A promotion waits only while a writer is still active and its callback  *)
(* is registered, so the last writer wakes it: no wakeup is lost between   *)
(* the check of activeWrites and the registration.                         *)
NoLostDrain ==
    \A p \in Promotion : promotion[p] = "draining" => activeWrites > 0 /\ p \in drainWaiters

(* No row is committed behind the barrier: from the moment beginPromotion  *)
(* returned until promoteNode is over, the changelog does not grow, also   *)
(* when the fences are opened under it by adoptDiscoveredPrimary.          *)
NoCommitBehindBarrier ==
    [][(\E p \in Promotion : promotion[p] \in {"holding", "activating"}) => commits' = commits]_vars
=============================================================================
