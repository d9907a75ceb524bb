---------------------------- MODULE HaPromotion ----------------------------
(***************************************************************************)
(* Manual promotion: the primary hands its role to a chosen replica, and   *)
(* finishes an interrupted handover when the target comes back             *)
(* (promoteNode, resumePromotionIfNeeded, finalizePromotion and            *)
(* handlePromote in src/src/services/ha-mesh-service.ts).                  *)
(*                                                                         *)
(* All members are registered.  A write is a single step, since promotion  *)
(* waits for the leases (HaWriteBarrier); a changelog is its length, since *)
(* there is one line of writers.  Elections, the authority fence and the   *)
(* search for a primary that comes with them belong to HaElection.         *)
(***************************************************************************)
EXTENDS Integers, FiniteSets

CONSTANTS
    Node,           \* the registered members
    First,          \* the first primary
    NoNode, NoIntent, NoJob,
    MaxRows,        \* bound: writes
    MaxPromotions,  \* bound: promotions asked for
    MaxFaults       \* bound: restarts, broken connections, failing statements, late answers

ASSUME MembersFinite == IsFiniteSet(Node) /\ First \in Node /\ NoNode \notin Node
ASSUME BoundsAreNat == {MaxRows, MaxPromotions, MaxFaults} \subseteq Nat

VARIABLES
    role, follows, epoch,  \* ha_cluster_config, of each node
    intent,                \* ha_promotion_intent
    rows,                  \* the changelog rows a node has: its own or up to its cursor
    live,                  \* config.ha.role of the running process
    fenced,                \* config.ha.fencedForPromotion
    restart,               \* gracefulRestart is scheduled
    conn,                  \* the primary a replica has an announced connection to
    promotes,              \* promote messages on that connection
    acks,                  \* promote_applied_ack messages on it
    applying,              \* promote messages whose handler is under way
    job,                   \* promoteNode or resumePromotionIfNeeded of a primary
    promotions, faults,
    gaveUp                 \* history: primaries whose handover ended without a result on an open connection

config == <<role, follows, epoch>>
wire == <<conn, promotes, acks>>
vars == <<config, intent, rows, live, fenced, restart, wire, applying, job, promotions, faults, gaveUp>>

Intent == [id : Nat, target : Node, epoch : Nat]
Promote == [id : Nat, target : Node, epoch : Nat]
Ack == [id : Nat, success : BOOLEAN]
Job == [kind : {"promote", "resume"}, pc : {"fence", "prepare", "save", "send", "applied", "notify", "demote"},
        id : Nat, target : Node, open : BOOLEAN, barrier : Nat, awaiting : SUBSET Node]

ASSUME NothingDistinct == NoIntent \notin Intent /\ NoJob \notin Job

TypeOK ==
    /\ role \in [Node -> {"primary", "replica"}] /\ live \in [Node -> {"primary", "replica"}]
    /\ follows \in [Node -> Node \union {NoNode}]
    /\ \A n \in Node : role[n] = "replica" => follows[n] \in Node \ {n}
    /\ epoch \in [Node -> Nat] /\ rows \in [Node -> Nat]
    /\ fenced \in [Node -> BOOLEAN] /\ restart \in [Node -> BOOLEAN]
    /\ intent \in [Node -> Intent \union {NoIntent}]
    /\ conn \in [Node -> Node \union {NoNode}]
    /\ promotes \in [Node -> SUBSET Promote] /\ applying \in [Node -> SUBSET Promote]
    /\ acks \in [Node -> SUBSET Ack]
    /\ job \in [Node -> Job \union {NoJob}]
    /\ promotions \in Nat /\ faults \in Nat /\ gaveUp \subseteq Node

Init ==
    /\ role = [n \in Node |-> IF n = First THEN "primary" ELSE "replica"]
    /\ live = role
    /\ follows = [n \in Node |-> IF n = First THEN NoNode ELSE First]
    /\ epoch = [n \in Node |-> 0] /\ rows = [n \in Node |-> 0]
    /\ fenced = [n \in Node |-> FALSE]
    /\ restart = [n \in Node |-> FALSE]
    /\ intent = [n \in Node |-> NoIntent]
    /\ conn = follows
    /\ promotes = [n \in Node |-> {}] /\ acks = [n \in Node |-> {}] /\ applying = [n \in Node |-> {}]
    /\ job = [n \in Node |-> NoJob]
    /\ promotions = 0 /\ faults = MaxFaults /\ gaveUp = {}

Connected(p) == {n \in Node : conn[n] = p}

AllConnected(p) == Connected(p) = Node \ {p}

(* runPrimaryWrite admits a write.                                         *)
Writable(n) == live[n] = "primary" /\ ~fenced[n]

Write(p) ==
    /\ Writable(p) /\ rows[p] < MaxRows
    /\ rows' = [rows EXCEPT ![p] = @ + 1]
    /\ UNCHANGED <<config, intent, live, fenced, restart, wire, applying, job, promotions, faults, gaveUp>>

(* The next change, or a catch-up                                          *)
Replicate(n) ==
    /\ conn[n] # NoNode /\ rows[n] # rows[conn[n]]
    /\ rows' = [rows EXCEPT ![n] = rows[conn[n]]]
    /\ UNCHANGED <<config, intent, live, fenced, restart, wire, applying, job, promotions, faults, gaveUp>>

(***************************************************************************)
(* promoteNode                                                             *)
(***************************************************************************)

At(p, pc) == job[p] # NoJob /\ job[p].pc = pc

Goto(p, pc) == job' = [job EXCEPT ![p].pc = pc]

(* The checks, beginPromotion, the flush of the changelog and the heartbeat*)
(* that asks the bystanders to distrust the primary for now                *)
BeginPromotion(p, t) ==
    /\ live[p] = "primary" /\ ~fenced[p]
    /\ conn[t] = p /\ AllConnected(p)
    /\ promotions < MaxPromotions
    /\ promotions' = promotions + 1
    /\ fenced' = [fenced EXCEPT ![p] = TRUE]
    /\ job' = [job EXCEPT ![p] = [kind |-> "promote", pc |-> "fence", id |-> promotions + 1, target |-> t,
                                  open |-> TRUE, barrier |-> 0, awaiting |-> Node \ {p, t}]]
    /\ UNCHANGED <<config, intent, rows, live, restart, wire, applying, faults, gaveUp>>

(* promotion_fence_ack of a bystander                                      *)
BystanderFenced(p, b) ==
    /\ At(p, "fence") /\ b \in job[p].awaiting /\ conn[b] = p
    /\ job' = [job EXCEPT ![p].awaiting = @ \ {b}]
    /\ UNCHANGED <<config, intent, rows, live, fenced, restart, wire, applying, promotions, faults, gaveUp>>

(* The promotion fails: the fence goes unless the intent is durable.       *)
Failed(p) ==
    /\ job' = [job EXCEPT ![p] = NoJob]
    /\ fenced' = [fenced EXCEPT ![p] = intent[p] # NoIntent]

(* The barrier is captured and prepare_promote sent.                       *)
Prepare(p) ==
    /\ At(p, "fence") /\ job[p].awaiting = {}
    /\ \/ /\ job[p].open
          /\ job' = [job EXCEPT ![p].pc = "prepare", ![p].barrier = rows[p]]
          /\ UNCHANGED fenced
       \/ ~job[p].open /\ Failed(p)
    /\ UNCHANGED <<config, intent, rows, live, restart, wire, applying, promotions, faults, gaveUp>>

(* Faulty variant: the cursor of the target is not compared.               *)
ReadyAtOnce(p) == job[p].open

(* handlePreparePromote: the target has the rows up to the barrier.        *)
TargetReady(p) == job[p].open /\ rows[job[p].target] >= job[p].barrier

(* Faulty variant: the bystanders hear of the new primary at once.         *)
SendToAll(p, i) ==
    /\ promotes' = [n \in Node |-> IF conn[n] = p
                                     THEN promotes[n] \union {[id |-> i.id, target |-> i.target, epoch |-> i.epoch]}
                                     ELSE promotes[n]]
    /\ Goto(p, "applied")

(* waitForPromoteAppliedAck sends the activation to the target alone.      *)
SendActivation(p, i) ==
    /\ promotes' = [promotes EXCEPT ![i.target] = @ \union {[id |-> i.id, target |-> i.target, epoch |-> i.epoch]}]
    /\ Goto(p, "applied")

(* prepare_promote_ack arrives.  A recovery goes on without a pause.       *)
Prepared(p) ==
    /\ At(p, "prepare") /\ TargetReady(p)
    /\ CASE job[p].kind = "resume" -> SendActivation(p, intent[p]) /\ UNCHANGED fenced
         [] job[p].kind = "promote" /\ AllConnected(p) -> Goto(p, "save") /\ UNCHANGED <<fenced, promotes>>
         [] OTHER -> Failed(p) /\ UNCHANGED promotes
    /\ UNCHANGED <<config, intent, rows, live, restart, conn, acks, applying, promotions, faults, gaveUp>>

(* saveHaPromotionIntent                                                   *)
SaveIntent(p) ==
    /\ At(p, "save") /\ Goto(p, "send")
    /\ intent' = [intent EXCEPT ![p] = [id |-> job[p].id, target |-> job[p].target, epoch |-> epoch[p] + 1]]
    /\ UNCHANGED <<config, rows, live, fenced, restart, wire, applying, promotions, faults, gaveUp>>

(* The intent goes and so does the fence.                                  *)
Withdrawn(p) ==
    /\ intent' = [intent EXCEPT ![p] = NoIntent]
    /\ job' = [job EXCEPT ![p] = NoJob]
    /\ fenced' = [fenced EXCEPT ![p] = FALSE]

Kept(p) ==
    /\ job' = [job EXCEPT ![p] = NoJob]
    /\ UNCHANGED <<intent, fenced>>

(* PromotionTargetRejectedError: only promoteNode withdraws, a recovery    *)
(* keeps the fence.                                                        *)
NotActivated(p) == IF job[p].kind = "promote" THEN Withdrawn(p) ELSE Kept(p)

(* The activation is sent once the intent is stored; on a closed socket    *)
(* this is a PromotionMessageNotSentError.                                 *)
SendPromote(p) ==
    /\ At(p, "send")
    /\ \/ job[p].open /\ SendActivation(p, intent[p]) /\ UNCHANGED <<intent, fenced>>
       \/ ~job[p].open /\ Withdrawn(p) /\ UNCHANGED promotes
    /\ UNCHANGED <<config, rows, live, restart, conn, acks, applying, promotions, faults, gaveUp>>

(* promote_applied_ack, if it is the one the job waits for                 *)
ReceiveAck(p, n) ==
    /\ conn[n] = p
    /\ \E a \in acks[n] :
          /\ acks' = [acks EXCEPT ![n] = @ \ {a}]
          /\ \/ /\ At(p, "applied") /\ job[p].target = n /\ intent[p].id = a.id
                /\ \/ a.success /\ Goto(p, "notify") /\ UNCHANGED <<intent, fenced, gaveUp>>
                   \/ /\ ~a.success /\ NotActivated(p)
                      /\ gaveUp' = gaveUp \union {p}
             \/ /\ ~(At(p, "applied") /\ job[p].target = n /\ intent[p].id = a.id)
                /\ UNCHANGED <<intent, fenced, job, gaveUp>>
    /\ UNCHANGED <<config, rows, live, restart, conn, promotes, applying, promotions, faults>>

(* The bystanders are told.                                                *)
NotifyBystanders(p) ==
    LET message == [id |-> intent[p].id, target |-> job[p].target, epoch |-> intent[p].epoch]
    IN  /\ At(p, "notify") /\ Goto(p, "demote")
        /\ promotes' = [n \in Node |-> IF conn[n] = p /\ n # job[p].target THEN promotes[n] \union {message}
                                                                          ELSE promotes[n]]
    /\ UNCHANGED <<config, intent, rows, live, fenced, restart, conn, acks, applying, promotions, faults, gaveUp>>

(* completeHaPromotionIntent and the restart                               *)
Demote(p) ==
    /\ At(p, "demote")
    /\ role' = [role EXCEPT ![p] = "replica"] /\ live' = [live EXCEPT ![p] = "replica"]
    /\ follows' = [follows EXCEPT ![p] = intent[p].target]
    /\ epoch' = [epoch EXCEPT ![p] = intent[p].epoch]
    /\ intent' = [intent EXCEPT ![p] = NoIntent]
    /\ fenced' = [fenced EXCEPT ![p] = FALSE]
    /\ restart' = [restart EXCEPT ![p] = TRUE]
    /\ job' = [job EXCEPT ![p] = NoJob]
    /\ UNCHANGED <<rows, wire, applying, promotions, faults, gaveUp>>

(* completePromotionWithRetry gives up: the node stays a fenced primary.   *)
DemoteFails(p) ==
    /\ At(p, "demote")
    /\ faults > 0 /\ faults' = faults - 1
    /\ Failed(p)
    /\ UNCHANGED <<config, intent, rows, live, restart, wire, applying, promotions, gaveUp>>

(* One of the three timers runs out.                                       *)
JobTimeout(p) ==
    /\ At(p, "fence") \/ At(p, "prepare") \/ At(p, "applied")
    /\ faults > 0 /\ faults' = faults - 1
    /\ Failed(p)
    /\ gaveUp' = gaveUp \union {p}
    /\ UNCHANGED <<config, intent, rows, live, restart, wire, applying, promotions>>

(***************************************************************************)
(* A replica: handlePromote                                                *)
(***************************************************************************)

(* A stale message is ignored.                                             *)
ReceivePromote(n) ==
    /\ \E m \in promotes[n] :
          /\ promotes' = [promotes EXCEPT ![n] = @ \ {m}]
          /\ applying' = [applying EXCEPT ![n] = IF m.epoch >= epoch[n] THEN @ \union {m} ELSE @]
    /\ UNCHANGED <<config, intent, rows, live, fenced, restart, conn, acks, job, promotions, faults, gaveUp>>

Reply(n, m, success) ==
    acks' = IF conn[n] # NoNode THEN [acks EXCEPT ![n] = @ \union {[id |-> m.id, success |-> success]}] ELSE acks

(* Faulty variant: the epoch is left for the next announcement.            *)
StoredWithoutEpoch(n, m) ==
    /\ role' = [role EXCEPT ![n] = IF m.target = n THEN "primary" ELSE "replica"]
    /\ follows' = [follows EXCEPT ![n] = IF m.target = n THEN NoNode ELSE m.target]
    /\ epoch' = [epoch EXCEPT ![n] = IF m.target = n THEN @ ELSE m.epoch]

(* applyRoleChange                                                         *)
Stored(n, m) ==
    /\ role' = [role EXCEPT ![n] = IF m.target = n THEN "primary" ELSE "replica"]
    /\ follows' = [follows EXCEPT ![n] = IF m.target = n THEN NoNode ELSE m.target]
    /\ epoch' = [epoch EXCEPT ![n] = m.epoch]

(* persistRoleChangeWithRetry ends, well or not, after any number of       *)
(* retries, and the answer goes to the connection of that moment.          *)
ApplyPromote(n) ==
    /\ \E m \in applying[n] :
          /\ applying' = [applying EXCEPT ![n] = @ \ {m}]
          /\ \/ /\ Stored(n, m)
                /\ restart' = [restart EXCEPT ![n] = TRUE]
                /\ IF m.target = n THEN Reply(n, m, TRUE) ELSE UNCHANGED acks
                /\ UNCHANGED faults
             \/ /\ faults > 0 /\ faults' = faults - 1
                /\ IF m.target = n THEN Reply(n, m, FALSE) /\ UNCHANGED restart
                                   ELSE UNCHANGED acks /\ restart' = [restart EXCEPT ![n] = TRUE]
                /\ UNCHANGED <<role, follows, epoch>>
    /\ UNCHANGED <<intent, rows, live, fenced, conn, promotes, job, promotions, gaveUp>>

(***************************************************************************)
(* Connections and processes                                               *)
(***************************************************************************)

(* handlePrimaryClose: the job that waits for one of the closed            *)
(* connections fails.                                                      *)
Interrupted(p, S) ==
    \/ At(p, "fence") /\ job[p].awaiting \intersect S # {}
    \/ (At(p, "prepare") \/ At(p, "applied")) /\ job[p].target \in S

(* A handover keeps its socket, which stays closed when the target comes   *)
(* back on another one.                                                    *)
AfterClose(j, S) == IF j # NoJob /\ j.target \in S THEN [j EXCEPT !.open = FALSE] ELSE j

Close(S) ==
    /\ conn' = [n \in Node |-> IF n \in S THEN NoNode ELSE conn[n]]
    /\ promotes' = [n \in Node |-> IF n \in S THEN {} ELSE promotes[n]]
    /\ acks' = [n \in Node |-> IF n \in S THEN {} ELSE acks[n]]

Disconnect(n) ==
    /\ conn[n] # NoNode /\ faults > 0
    /\ faults' = faults - 1
    /\ Close({n})
    /\ LET p == conn[n]
       IN  IF Interrupted(p, {n}) THEN Failed(p)
           ELSE job' = [job EXCEPT ![p] = AfterClose(@, {n})] /\ UNCHANGED fenced
    /\ UNCHANGED <<config, intent, rows, live, restart, applying, promotions, gaveUp>>

(* Faulty variant: the intent is not looked at when the process starts.    *)
NotFencedAtBoot(n) == FALSE

(* The promotion part of prepareForRuntimeAtBoot                           *)
FencedAtBoot(n) == role[n] = "primary" /\ intent[n] # NoIntent

(* The process ends and starts with the persisted role; a primary with an  *)
(* intent starts fenced (prepareForRuntimeAtBoot).                         *)
Boot(n) ==
    LET lost == {n} \union Connected(n)
    IN  /\ Close(lost)
        /\ live' = [live EXCEPT ![n] = role[n]]
        /\ restart' = [restart EXCEPT ![n] = FALSE]
        /\ applying' = [applying EXCEPT ![n] = {}]
        /\ job' = [p \in Node |-> IF p = n \/ Interrupted(p, lost) THEN NoJob ELSE AfterClose(job[p], lost)]
        /\ fenced' = [p \in Node |->
              IF p = n THEN FencedAtBoot(n)
              ELSE IF Interrupted(p, lost) THEN intent[p] # NoIntent ELSE fenced[p]]
        /\ UNCHANGED <<config, intent, rows, promotions, gaveUp>>

Restart(n) == restart[n] /\ Boot(n) /\ UNCHANGED faults

Crash(n) == faults > 0 /\ faults' = faults - 1 /\ Boot(n)

(* Faulty variant: a recovery has to be asked for.                         *)
NeverDue(p, n) == FALSE

(* The guards of resumePromotionIfNeeded                                   *)
Due(p, n) == intent[p] # NoIntent /\ intent[p].target = n /\ job[p] = NoJob

(* Hello and announce: the replica takes the epoch of its primary, and     *)
(* resumePromotionIfNeeded starts when it is the target of an intent.      *)
Announce(n) ==
    LET p == follows[n]
    IN  /\ live[n] = "replica" /\ role[n] = "replica" /\ conn[n] = NoNode /\ ~restart[n]
        /\ live[p] = "primary" /\ epoch[p] >= epoch[n]
        /\ conn' = [conn EXCEPT ![n] = p]
        /\ epoch' = [epoch EXCEPT ![n] = epoch[p]]
        /\ job' = [job EXCEPT ![p] =
              IF Due(p, n) THEN [kind |-> "resume", pc |-> "prepare", id |-> intent[p].id, target |-> n,
                                 open |-> TRUE, barrier |-> rows[p], awaiting |-> {}]
                           ELSE @]
        /\ UNCHANGED <<role, follows, intent, rows, live, fenced, restart, promotes, acks, applying,
                       promotions, faults, gaveUp>>

(* The former primary answers with a redirect (handlePrimaryRedirect,      *)
(* adoptDiscoveredPrimary).                                                *)
FollowRedirect(n) ==
    LET p == follows[n]
    IN  /\ live[n] = "replica" /\ role[n] = "replica" /\ conn[n] = NoNode /\ ~restart[n]
        /\ live[p] = "replica" /\ ~restart[p] /\ role[p] = "replica"
        /\ epoch[p] >= epoch[n] /\ follows[p] # p
        /\ follows' = [follows EXCEPT ![n] = follows[p]]
        /\ epoch' = [epoch EXCEPT ![n] = epoch[p]]
        /\ restart' = [restart EXCEPT ![n] = TRUE]
        /\ UNCHANGED <<role, intent, rows, live, fenced, wire, applying, job, promotions, faults, gaveUp>>

PrimaryStep(p) ==
    \/ Prepare(p) \/ Prepared(p) \/ SaveIntent(p) \/ SendPromote(p) \/ NotifyBystanders(p) \/ Demote(p)
    \/ \E n \in Node : BystanderFenced(p, n) \/ ReceiveAck(p, n)

ReplicaStep(n) ==
    \/ Replicate(n) \/ ReceivePromote(n) \/ ApplyPromote(n) \/ Restart(n)
    \/ Announce(n) \/ FollowRedirect(n)

Next ==
    \E n \in Node :
        \/ Write(n) \/ PrimaryStep(n) \/ ReplicaStep(n)
        \/ \E t \in Node : BeginPromotion(n, t)
        \/ DemoteFails(n) \/ JobTimeout(n) \/ Disconnect(n) \/ Crash(n)

Spec == Init /\ [][Next]_vars

(* Handlers, reconnection and scheduled restarts go on; nothing makes an   *)
(* operator promote or write.                                              *)
Fairness == \A n \in Node : WF_vars(PrimaryStep(n)) /\ WF_vars(ReplicaStep(n))

FairSpec == Spec /\ Fairness

(***************************************************************************)
(* Properties                                                              *)
(***************************************************************************)

(* There are never two nodes that admit writes, whatever restarts, breaks, *)
(* answers late or fails to persist during a handover: the fence of the    *)
(* old primary outlives its process until its demotion is durable          *)
(* (saveHaPromotionIntent, prepareForRuntimeAtBoot, promoteNode's          *)
(* withdrawal of the intent).                                              *)
OneWriter == \A m, n \in Node : Writable(m) /\ Writable(n) => m = n

(* A node that admits writes has every row ever written: no write commits  *)
(* behind the barrier the target has confirmed, in the first attempt or in *)
(* a resumed one (waitForPreparePromoteAck).                               *)
WriterHasAllRows == \A m, n \in Node : Writable(n) => rows[m] <= rows[n]

(* A replica points at a primary or at a node that can send it on: the     *)
(* bystanders are told, and the old primary steps down, only after the     *)
(* target has persisted its role (finalizePromotion).                      *)
ReplicasCanFindAPrimary ==
    \A n \in Node : role[n] = "replica" =>
        \/ role[follows[n]] = "primary"
        \/ epoch[follows[n]] > epoch[n] /\ role[follows[follows[n]]] = "primary"

(* No handover makes a replica refuse the primary it looks for: its epoch  *)
(* never overtakes that primary's, which would fence it for good           *)
(* (fenceAuthorityForNewerEpoch); the target persists the epoch of the     *)
(* intent with its role before a bystander hears of it.                    *)
PrimaryNeverOutdated ==
    \A n \in Node : role[n] = "replica" /\ live[follows[n]] = "primary" => epoch[follows[n]] >= epoch[n]

(* An intent is waiting for a target that is still connected and has no    *)
(* reason to announce itself again.                                        *)
Stranded(p) == p \in gaveUp /\ intent[p] # NoIntent /\ conn[intent[p].target] = p

(* The cluster gets a writable primary again after every promotion,        *)
(* completed, aborted, or interrupted and resumed when the target comes    *)
(* back; the exception is a handover that ended without a result while its *)
(* target stayed connected, for resumePromotionIfNeeded runs only when the *)
(* target announces itself.                                                *)
WritableAgain == []<>(\E n \in Node : Writable(n) \/ Stranded(n))
=============================================================================
