------------------------- MODULE HaPromotion_proofs -------------------------
(***************************************************************************)
(* Proofs about the planned handover: at most one member admits writes,    *)
(* it has every row, no replica loses its way to a primary and none meets  *)
(* a primary that is older than itself.                                    *)
(*                                                                         *)
(* The argument follows one member, the leader: the primary with the       *)
(* newest epoch.  LeaderInv says what every other member knows of it: an   *)
(* older primary has handed over to it and is fenced (Handed), a replica   *)
(* follows it or somebody who does (Following), and whatever is on its way *)
(* speaks of its epoch or is the activation it sent itself (Messages).     *)
(* Steps keep the leader, with one exception: when the target of the       *)
(* leader's own intent stores the activation (HandoverStep) it becomes the *)
(* leader.  By then everybody followed the old leader (Settled) and the    *)
(* target had all of its rows (Barrier), and that is all the new leader    *)
(* needs.  An intent is given up only while no copy of its activation is   *)
(* left (Withdrawable), so that no late message activates a second leader. *)
(***************************************************************************)
EXTENDS HaPromotion, TLAPS

(* Nobody is connected to himself, to a replica that stays one, or while   *)
(* it is a primary; a closed connection carries nothing.                   *)
Connections ==
    \A n \in Node :
        /\ conn[n] = NoNode => promotes[n] = {} /\ acks[n] = {}
        /\ conn[n] # NoNode => /\ conn[conn[n]] = NoNode
                               /\ live[conn[n]] = "primary" \/ restart[conn[n]]
                               /\ follows[n] = conn[n] \/ restart[n]
        /\ live[n] = "primary" => role[n] = "primary" /\ conn[n] = NoNode /\ applying[n] = {}

(* A handover runs on a fenced primary, over a connection while it is      *)
(* open, and its intent is durable from the moment it is saved.            *)
JobInv(p) ==
    job[p] # NoJob =>
        /\ live[p] = "primary" /\ fenced[p]
        /\ job[p].target # p
        /\ job[p].open => conn[job[p].target] = p
        /\ job[p].pc = "applied" => job[p].open
        /\ job[p].kind = "promote" /\ job[p].pc \in {"fence", "prepare", "save"} => intent[p] = NoIntent
        /\ job[p].kind = "resume" => job[p].pc \in {"prepare", "applied", "notify", "demote"}
        /\ job[p].kind = "resume" \/ job[p].pc \in {"send", "applied", "notify", "demote"} =>
              intent[p] # NoIntent /\ intent[p].target = job[p].target /\ intent[p].id = job[p].id

(* An intent keeps its primary fenced and names the next epoch.            *)
IntentInv(p) ==
    intent[p] # NoIntent =>
        /\ live[p] = "primary" /\ fenced[p]
        /\ intent[p].target # p /\ intent[p].epoch = epoch[p] + 1

(* Identifiers are new.                                                    *)
Identifiers ==
    \A n \in Node :
        /\ job[n] # NoJob => job[n].id <= promotions
        /\ intent[n] # NoIntent => intent[n].id <= promotions
        /\ \A a \in acks[n] : a.id <= promotions
        /\ \A m \in promotes[n] \union applying[n] : m.id <= promotions

(* Another primary than l is one that has handed over to l.                *)
Handed(l) ==
    \A o \in Node \ {l} :
        /\ role[o] = "primary" => intent[o] # NoIntent /\ intent[o].target = l /\ intent[o].epoch = epoch[l]
        /\ epoch[o] <= epoch[l] /\ rows[o] <= rows[l]

(* A replica that does not follow l is behind it, and one redirect away.   *)
Following(l) ==
    \A o \in Node \ {l} :
        role[o] = "replica" /\ follows[o] # l =>
            LET x == follows[o]
            IN  /\ x \in Node \ {o, l} /\ epoch[o] <= epoch[x] /\ epoch[o] < epoch[l]
                /\ role[x] = "replica" => follows[x] = l /\ epoch[x] = epoch[l]

(* What is on its way: the activation of l's intent, or news of l.         *)
Messages(l) ==
    \A n \in Node : \A m \in promotes[n] \union applying[n] :
        /\ m.target = n => m = intent[l] \/ (n = l /\ m.epoch = epoch[l])
        /\ m.target # n => /\ m.target = l /\ m.epoch = epoch[l] /\ conn[n] # l
                           /\ follows[n] # l \/ restart[n]

(* Connections to l are those of its replicas, and only l can have         *)
(* acknowledged an activation.                                             *)
Attached(l) ==
    /\ \A n \in Node : conn[n] = l => role[n] = "replica" /\ follows[n] = l
    /\ conn[l] # NoNode => rows[conn[l]] = rows[l]
    /\ \A n \in Node : \A a \in acks[n] : a.success => n = l

(* A handover begins, and its intent exists, only when all follow l.       *)
Settled(l) ==
    job[l] # NoJob \/ intent[l] # NoIntent =>
        \A o \in Node \ {l} :
            /\ role[o] = "replica" /\ follows[o] = l /\ conn[o] \in {l, NoNode}
            /\ \A m \in promotes[o] \union applying[o] : m = intent[l]

(* The target of a handover that may be activated has every row of l.      *)
Barrier(l) ==
    /\ job[l] # NoJob /\ job[l].pc = "prepare" => job[l].barrier = rows[l]
    /\ job[l] # NoJob /\ job[l].pc = "save" => rows[job[l].target] >= rows[l]
    /\ intent[l] # NoIntent => rows[intent[l].target] >= rows[l]

(* A promotion may be withdrawn because nothing of it is under way.        *)
Withdrawable(l) ==
    \A p \in Node : job[p] # NoJob =>
        /\ job[p].kind = "promote" /\ job[p].pc \in {"fence", "prepare", "save", "send"} =>
              /\ p = l
              /\ \A n \in Node : /\ promotes[n] = {} /\ applying[n] = {}
                                 /\ \A a \in acks[n] : a.id # job[p].id
        /\ job[p].kind = "promote" /\ job[p].pc = "applied" =>
              LET n == job[p].target
              IN  /\ (\E a \in acks[n] : a.id = job[p].id /\ ~a.success) =>
                        p = l /\ intent[p] \notin promotes[n] \union applying[n]
                  /\ intent[p] \in promotes[n] => intent[p] \notin applying[n]
                  /\ promotes[n] \union applying[n] # {} => p = l /\ \A a \in acks[n] : a.id # job[p].id
        /\ job[p].pc \in {"notify", "demote"} => job[p].target = l

(* l is the leader: what everybody else knows of it.                       *)
LeaderInv(l) ==
    /\ role[l] = "primary"
    /\ Handed(l) /\ Following(l) /\ Messages(l) /\ Attached(l) /\ Settled(l) /\ Barrier(l) /\ Withdrawable(l)

(* The inductive invariant.                                                *)
IInv ==
    /\ TypeOK /\ Connections /\ Identifiers
    /\ \A p \in Node : JobInv(p) /\ IntentInv(p)
    /\ \E l \in Node : LeaderInv(l)

(* What is left of the handover of q once the connections of S are closed  *)
ClosedFor(q, S) ==
    /\ job[q] # NoJob
    /\ job'[q].kind = job[q].kind /\ job'[q].pc = job[q].pc /\ job'[q].id = job[q].id
    /\ job'[q].target = job[q].target /\ job'[q].barrier = job[q].barrier
    /\ job'[q].open => job[q].open /\ job[q].target \notin S
    /\ job'[q].pc = "applied" => job[q].target \notin S /\ job'[q].open = job[q].open

(* Member q restarts, or is not the one that does.                         *)
Rebooted(q, S) ==
    /\ {q} \union Connected(q) \subseteq S
    /\ live'[q] = role[q] /\ ~restart'[q] /\ applying'[q] = {} /\ job'[q] = NoJob
    /\ fenced'[q] = FencedAtBoot(q)

NotRebooted(q) ==
    /\ live'[q] = live[q] /\ restart'[q] = restart[q] /\ applying'[q] = applying[q]
    /\ fenced'[q] = IF job[q] # NoJob /\ job'[q] = NoJob THEN intent[q] # NoIntent ELSE fenced[q]

(* The activation that is sent is the intent.                              *)
LEMMA MessageIsIntent ==
    ASSUME NEW i \in Intent
    PROVE  [id |-> i.id, target |-> i.target, epoch |-> i.epoch] = i
BY DEF Intent

(* A closed connection ends the handover that waits for it and leaves the  *)
(* others without their socket.                                            *)
LEMMA ClosedJob ==
    ASSUME TypeOK, NEW q \in Node, NEW S \in SUBSET Node,
           job'[q] = IF Interrupted(q, S) THEN NoJob ELSE AfterClose(job[q], S)
    PROVE  /\ job'[q] \in Job \union {NoJob}
           /\ job'[q] # NoJob => ClosedFor(q, S)
           /\ Interrupted(q, S) => job[q] # NoJob /\ job'[q] = NoJob
           /\ ~Interrupted(q, S) => (job[q] = NoJob <=> job'[q] = NoJob)
<1>1. job[q] \in Job \union {NoJob}
  BY DEF TypeOK
<1>2. CASE Interrupted(q, S)
  BY <1>2 DEF Interrupted, At
<1>3. CASE ~Interrupted(q, S) /\ job[q] = NoJob
  BY <1>3 DEF AfterClose
<1>4. CASE ~Interrupted(q, S) /\ job[q] # NoJob
  <2>1. job'[q] = IF job[q].target \in S THEN [job[q] EXCEPT !.open = FALSE] ELSE job[q]
    BY <1>4 DEF AfterClose
  <2>2. job[q] \in Job
    BY <1>1, <1>4
  <2>3. /\ job'[q] \in Job
        /\ job'[q].kind = job[q].kind /\ job'[q].pc = job[q].pc /\ job'[q].id = job[q].id
        /\ job'[q].target = job[q].target /\ job'[q].barrier = job[q].barrier
        /\ job'[q].open => job[q].open /\ job[q].target \notin S
        /\ job[q].target \notin S => job'[q].open = job[q].open
    BY <2>1, <2>2 DEF Job
  <2>4. job'[q] # NoJob
    BY <2>3, NothingDistinct
  <2> QED BY <1>4, <2>3, <2>4 DEF Interrupted, At, ClosedFor
<1> QED BY <1>2, <1>3, <1>4

(* An answer is an acknowledgement.                                        *)
LEMMA ReplyType ==
    ASSUME TypeOK, NEW n \in Node, NEW m \in Promote, NEW s \in BOOLEAN, Reply(n, m, s)
    PROVE  acks' \in [Node -> SUBSET Ack]
BY DEF TypeOK, Reply, Promote, Ack

(* Only the leader admits a write: the others are fenced or replicas, so   *)
(* its rows stay the highest.                                              *)
LEMMA WriteStep ==
    ASSUME IInv, NEW n \in Node, Write(n)
    PROVE  IInv'
<1>1. PICK l \in Node : LeaderInv(l)
  BY DEF IInv
<1> USE DEF IInv, LeaderInv
<1>2. TypeOK'
  BY DEF TypeOK, Write, config, wire
<1>3. Connections'
  BY DEF Connections, Write, config, wire
<1>4. Identifiers'
  BY DEF Identifiers, Write, wire
<1>5. \A q \in Node : JobInv(q)'
  BY DEF JobInv, Write, wire
<1>6. \A q \in Node : IntentInv(q)'
  BY DEF IntentInv, Write, config
<1>7. role'[l] = "primary"
  BY <1>1 DEF Write, config
<1>8. Handed(l)'
  BY <1>1 DEF Handed, TypeOK, IntentInv, Connections, Write, Writable, config
<1>9. Following(l)'
  BY <1>1 DEF Following, Write, config
<1>10. Messages(l)'
  BY <1>1 DEF Messages, Write, config, wire
<1>11. Attached(l)'
  BY <1>1 DEF Attached, Connections, Handed, IntentInv, Write, Writable, config, wire
<1>12. Settled(l)'
  BY <1>1 DEF Settled, Write, config, wire
<1>13. Barrier(l)'
  BY <1>1 DEF Barrier, TypeOK, JobInv, IntentInv, Write, Writable
<1>14. Withdrawable(l)'
  BY <1>1 DEF Withdrawable, Write, wire
<1> QED
  BY <1>2, <1>3, <1>4, <1>5, <1>6, <1>7, <1>8, <1>9, <1>10, <1>11, <1>12, <1>13, <1>14

(* A replica takes rows from the primary it is connected to, never more    *)
(* than the leader has.                                                    *)
LEMMA ReplicateStep ==
    ASSUME IInv, NEW n \in Node, Replicate(n)
    PROVE  IInv'
<1>1. PICK l \in Node : LeaderInv(l)
  BY DEF IInv
<1> USE DEF IInv, LeaderInv
<1>2. TypeOK'
  BY DEF TypeOK, Replicate, config, wire
<1>3. Connections'
  BY DEF Connections, Replicate, config, wire
<1>4. Identifiers'
  BY DEF Identifiers, Replicate, wire
<1>5. \A q \in Node : JobInv(q)'
  BY DEF JobInv, Replicate, wire
<1>6. \A q \in Node : IntentInv(q)'
  BY DEF IntentInv, Replicate, config
<1>7. role'[l] = "primary"
  BY <1>1 DEF Replicate, config
<1>8. Handed(l)'
  BY <1>1 DEF Handed, TypeOK, Attached, Replicate, config
<1>9. Following(l)'
  BY <1>1 DEF Following, Replicate, config
<1>10. Messages(l)'
  BY <1>1 DEF Messages, Replicate, config, wire
<1>11. Attached(l)'
  BY <1>1 DEF Attached, Connections, Replicate, config, wire
<1>12. Settled(l)'
  BY <1>1 DEF Settled, Replicate, config, wire
<1>13. Barrier(l)'
  BY <1>1 DEF Barrier, TypeOK, Settled, Attached, Replicate
<1>14. Withdrawable(l)'
  BY <1>1 DEF Withdrawable, Replicate, wire
<1> QED
  BY <1>2, <1>3, <1>4, <1>5, <1>6, <1>7, <1>8, <1>9, <1>10, <1>11, <1>12, <1>13, <1>14

(* A handover begins at the leader alone, with every member attached to it *)
(* and nothing on its way (AllConnected): this is where Settled comes      *)
(* from.                                                                   *)
LEMMA BeginPromotionStep ==
    ASSUME IInv, NEW n \in Node, NEW t \in Node, BeginPromotion(n, t)
    PROVE  IInv'
<1>1. PICK l \in Node : LeaderInv(l)
  BY DEF IInv
<1> USE DEF IInv, LeaderInv
<1>a. n = l
  BY <1>1 DEF TypeOK, Handed, IntentInv, Connections, BeginPromotion
<1>b. \A o \in Node \ {l} : conn[o] = l /\ role[o] = "replica" /\ follows[o] = l
  BY <1>1, <1>a DEF Attached, BeginPromotion, AllConnected, Connected
<1>c. intent[l] = NoIntent /\ job[l] = NoJob
  BY <1>1, <1>a DEF IntentInv, JobInv, BeginPromotion
<1>d. \A o \in Node : promotes[o] = {} /\ applying[o] = {}
  <2>1. promotes[l] = {} /\ applying[l] = {}
    BY <1>a DEF Connections, BeginPromotion
  <2>2. ASSUME NEW o \in Node \ {l}, NEW m \in promotes[o] \union applying[o]
        PROVE  FALSE
    <3>1. m \in Promote
      BY <2>2 DEF TypeOK
    <3>2. m # NoIntent
      BY <3>1, NothingDistinct DEF Promote, Intent
    <3> QED BY <1>1, <1>b, <1>c, <2>2, <3>2 DEF Messages
  <2> QED BY <2>1, <2>2
<1>2. TypeOK'
  BY DEF TypeOK, BeginPromotion, Job, config, wire
<1>3. Connections'
  BY DEF Connections, BeginPromotion, config, wire
<1>4. Identifiers'
  <2>1. promotions' = promotions + 1 /\ promotions \in Nat
    BY DEF BeginPromotion, TypeOK
  <2>2. \A q \in Node : job'[q] # NoJob => job'[q].id <= promotions'
    BY <2>1 DEF Identifiers, BeginPromotion, TypeOK, Job
  <2>3. \A q \in Node : intent'[q] # NoIntent => intent'[q].id <= promotions'
    BY <2>1 DEF Identifiers, BeginPromotion, TypeOK, Intent
  <2>4. \A q \in Node : \A a \in acks'[q] : a.id <= promotions'
    BY <2>1 DEF Identifiers, BeginPromotion, TypeOK, Ack, wire
  <2> QED BY <1>d, <2>2, <2>3, <2>4 DEF Identifiers, BeginPromotion, wire
<1>5. \A q \in Node : JobInv(q)'
  BY DEF JobInv, TypeOK, IntentInv, BeginPromotion, AllConnected, Connected, wire
<1>6. \A q \in Node : IntentInv(q)'
  BY DEF IntentInv, BeginPromotion, config
<1>7. role'[l] = "primary"
  BY <1>1 DEF BeginPromotion, config
<1>8. Handed(l)'
  BY <1>1 DEF Handed, BeginPromotion, config
<1>9. Following(l)'
  BY <1>1 DEF Following, BeginPromotion, config
<1>10. Messages(l)'
  BY <1>1 DEF Messages, BeginPromotion, config, wire
<1>11. Attached(l)'
  BY <1>1 DEF Attached, BeginPromotion, config, wire
<1>12. Settled(l)'
  BY <1>b, <1>d DEF Settled, BeginPromotion, config, wire
<1>13. Barrier(l)'
  BY <1>1 DEF Barrier, BeginPromotion
<1>14. Withdrawable(l)'
  BY <1>b, <1>d DEF Withdrawable, TypeOK, Connections, Identifiers, BeginPromotion, Job, wire
<1> QED
  BY <1>2, <1>3, <1>4, <1>5, <1>6, <1>7, <1>8, <1>9, <1>10, <1>11, <1>12, <1>13, <1>14

(* A bystander's answer only shortens the list the handover waits for.     *)
LEMMA BystanderFencedStep ==
    ASSUME IInv, NEW n \in Node, NEW b \in Node, BystanderFenced(n, b)
    PROVE  IInv'
<1>1. PICK l \in Node : LeaderInv(l)
  BY DEF IInv
<1> USE DEF IInv, LeaderInv
<1>2. TypeOK'
  BY DEF TypeOK, BystanderFenced, At, Job, config, wire
<1>3. Connections'
  BY DEF Connections, BystanderFenced, config, wire
<1>4. Identifiers'
  BY DEF Identifiers, BystanderFenced, At, wire
<1>5. \A q \in Node : JobInv(q)'
  BY DEF JobInv, BystanderFenced, At, wire
<1>6. \A q \in Node : IntentInv(q)'
  BY DEF IntentInv, BystanderFenced, config
<1>7. role'[l] = "primary"
  BY <1>1 DEF BystanderFenced, config
<1>8. Handed(l)'
  BY <1>1 DEF Handed, BystanderFenced, config
<1>9. Following(l)'
  BY <1>1 DEF Following, BystanderFenced, config
<1>10. Messages(l)'
  BY <1>1 DEF Messages, BystanderFenced, config, wire
<1>11. Attached(l)'
  BY <1>1 DEF Attached, BystanderFenced, config, wire
<1>12. Settled(l)'
  BY <1>1 DEF Settled, BystanderFenced, At, config, wire
<1>13. Barrier(l)'
  BY <1>1 DEF Barrier, BystanderFenced, At
<1>14. Withdrawable(l)'
  BY <1>1 DEF Withdrawable, BystanderFenced, At, wire
<1> QED
  BY <1>2, <1>3, <1>4, <1>5, <1>6, <1>7, <1>8, <1>9, <1>10, <1>11, <1>12, <1>13, <1>14

(* The barrier is captured behind the fence, so the rows it names stay the *)
(* leader's rows.                                                          *)
LEMMA CapturedStep ==
    ASSUME IInv, NEW p \in Node, At(p, "fence"), job[p].open,
           job' = [job EXCEPT ![p].pc = "prepare", ![p].barrier = rows[p]],
           UNCHANGED <<config, intent, rows, live, fenced, restart, wire, applying,
                       promotions, faults, gaveUp>>
    PROVE  IInv'
<1>1. PICK l \in Node : LeaderInv(l)
  BY DEF IInv
<1> USE DEF IInv, LeaderInv
<1>2. TypeOK'
  <2>1. job[p] \in Job /\ rows[p] \in Nat
    BY DEF TypeOK, At
  <2>2. [job[p] EXCEPT !.pc = "prepare", !.barrier = rows[p]] \in Job
    BY <2>1 DEF Job
  <2>3. job' = [job EXCEPT ![p] = [job[p] EXCEPT !.pc = "prepare", !.barrier = rows[p]]]
    BY <2>1 DEF TypeOK
  <2>4. job' \in [Node -> Job \union {NoJob}]
    BY <2>2, <2>3 DEF TypeOK
  <2> QED BY <2>4 DEF TypeOK, config, wire
<1>3. Connections'
  BY DEF Connections, config, wire
<1>4. Identifiers'
  BY DEF Identifiers, TypeOK, At, wire
<1>5. \A q \in Node : JobInv(q)'
  BY DEF JobInv, TypeOK, At, wire
<1>6. \A q \in Node : IntentInv(q)'
  BY DEF IntentInv, config
<1>7. role'[l] = "primary"
  BY <1>1 DEF config
<1>8. Handed(l)'
  BY <1>1 DEF Handed, config
<1>9. Following(l)'
  BY <1>1 DEF Following, config
<1>10. Messages(l)'
  BY <1>1 DEF Messages, config, wire
<1>11. Attached(l)'
  BY <1>1 DEF Attached, config, wire
<1>12. Settled(l)'
  BY <1>1 DEF Settled, TypeOK, At, config, wire
<1>13. Barrier(l)'
  BY <1>1 DEF Barrier, TypeOK
<1>14. Withdrawable(l)'
  BY <1>1 DEF Withdrawable, TypeOK, At, Job, wire
<1> QED
  BY <1>2, <1>3, <1>4, <1>5, <1>6, <1>7, <1>8, <1>9, <1>10, <1>11, <1>12, <1>13, <1>14

(* A handover that fails before its intent is saved opens the fence again; *)
(* one whose intent exists stays fenced.                                   *)
LEMMA FailedStep ==
    ASSUME IInv, NEW p \in Node, job[p] # NoJob, Failed(p),
           faults' \in Nat, gaveUp' \subseteq Node,
           UNCHANGED <<config, intent, rows, live, restart, wire, applying, promotions>>
    PROVE  IInv'
<1>1. PICK l \in Node : LeaderInv(l)
  BY DEF IInv
<1> USE DEF IInv, LeaderInv
<1>2. TypeOK'
  BY DEF TypeOK, Failed, config, wire
<1>3. Connections'
  BY DEF Connections, config, wire
<1>4. Identifiers'
  BY DEF Identifiers, Failed, wire
<1>5. \A q \in Node : JobInv(q)'
  BY DEF JobInv, TypeOK, Failed, wire
<1>6. \A q \in Node : IntentInv(q)'
  BY DEF IntentInv, TypeOK, Failed, config
<1>7. role'[l] = "primary"
  BY <1>1 DEF config
<1>8. Handed(l)'
  BY <1>1 DEF Handed, config
<1>9. Following(l)'
  BY <1>1 DEF Following, config
<1>10. Messages(l)'
  BY <1>1 DEF Messages, config, wire
<1>11. Attached(l)'
  BY <1>1 DEF Attached, config, wire
<1>12. Settled(l)'
  BY <1>1 DEF Settled, Failed, config, wire
<1>13. Barrier(l)'
  BY <1>1 DEF Barrier, Failed
<1>14. Withdrawable(l)'
  <2>1. \A q \in Node : job'[q] # NoJob => job'[q] = job[q]
    BY DEF TypeOK, Failed
  <2>2. UNCHANGED <<intent, promotes, acks, applying>>
    BY DEF wire
  <2> HIDE DEF IInv
  <2> QED BY <1>1, <2>1, <2>2 DEF Withdrawable
<1> QED
  BY <1>2, <1>3, <1>4, <1>5, <1>6, <1>7, <1>8, <1>9, <1>10, <1>11, <1>12, <1>13, <1>14

(* The target has reported the barrier: it has all rows of the leader      *)
(* before the intent is saved.                                             *)
LEMMA SaveAllowedStep ==
    ASSUME IInv, NEW p \in Node, At(p, "prepare"), TargetReady(p), job[p].kind = "promote",
           AllConnected(p), Goto(p, "save"),
           UNCHANGED <<config, intent, rows, live, fenced, restart, wire, applying,
                       promotions, faults, gaveUp>>
    PROVE  IInv'
<1>1. PICK l \in Node : LeaderInv(l)
  BY DEF IInv
<1> USE DEF IInv, LeaderInv
<1>2. TypeOK'
  BY DEF TypeOK, At, Goto, Job, config, wire
<1>3. Connections'
  BY DEF Connections, config, wire
<1>4. Identifiers'
  BY DEF Identifiers, At, Goto, wire
<1>5. \A q \in Node : JobInv(q)'
  BY DEF JobInv, At, Goto, wire
<1>6. \A q \in Node : IntentInv(q)'
  BY DEF IntentInv, config
<1>7. role'[l] = "primary"
  BY <1>1 DEF config
<1>8. Handed(l)'
  BY <1>1 DEF Handed, config
<1>9. Following(l)'
  BY <1>1 DEF Following, config
<1>10. Messages(l)'
  BY <1>1 DEF Messages, config, wire
<1>11. Attached(l)'
  BY <1>1 DEF Attached, config, wire
<1>12. Settled(l)'
  BY <1>1 DEF Settled, At, Goto, config, wire
<1>13. Barrier(l)'
  BY <1>1 DEF Barrier, At, TargetReady, Goto
<1>14. Withdrawable(l)'
  BY <1>1 DEF Withdrawable, At, Goto, wire
<1> QED
  BY <1>2, <1>3, <1>4, <1>5, <1>6, <1>7, <1>8, <1>9, <1>10, <1>11, <1>12, <1>13, <1>14

(* The intent of the leader names the next epoch; no activation is on its  *)
(* way yet.                                                                *)
LEMMA SaveIntentStep ==
    ASSUME IInv, NEW n \in Node, SaveIntent(n)
    PROVE  IInv'
<1>1. PICK l \in Node : LeaderInv(l)
  BY DEF IInv
<1> USE DEF IInv, LeaderInv
<1>a. n = l /\ job[n].kind = "promote" /\ job[n] \in Job
  BY <1>1 DEF SaveIntent, At, Withdrawable, JobInv, TypeOK, Job
<1>b. \A q \in Node : promotes[q] = {} /\ applying[q] = {}
  BY <1>1, <1>a DEF SaveIntent, At, Withdrawable
<1>c. intent' = [intent EXCEPT ![n] = [id |-> job[n].id, target |-> job[n].target, epoch |-> epoch[n] + 1]]
  BY DEF SaveIntent
<1>d. intent'[n] \in Intent /\ intent'[n] # NoIntent
  BY <1>a, <1>c, NothingDistinct DEF TypeOK, Job, Intent
<1>2. TypeOK'
  BY DEF TypeOK, SaveIntent, Goto, At, Job, Intent, config, wire
<1>3. Connections'
  BY DEF Connections, SaveIntent, config, wire
<1>4. Identifiers'
  BY DEF Identifiers, SaveIntent, Goto, At, wire
<1>5. \A q \in Node : JobInv(q)'
  BY <1>d DEF JobInv, TypeOK, SaveIntent, Goto, At, wire
<1>6. \A q \in Node : IntentInv(q)'
  BY DEF IntentInv, JobInv, SaveIntent, At, config
<1>7. role'[l] = "primary"
  BY <1>1 DEF SaveIntent, config
<1>8. Handed(l)'
  BY <1>1, <1>a DEF Handed, SaveIntent, config
<1>9. Following(l)'
  BY <1>1 DEF Following, SaveIntent, config
<1>10. Messages(l)'
  BY <1>b DEF Messages, SaveIntent, wire
<1>11. Attached(l)'
  BY <1>1 DEF Attached, SaveIntent, config, wire
<1>12. Settled(l)'
  BY <1>1, <1>b DEF Settled, SaveIntent, Goto, At, config, wire
<1>13. Barrier(l)'
  BY <1>1 DEF Barrier, SaveIntent, Goto, At
<1>14. Withdrawable(l)'
  BY <1>1 DEF Withdrawable, TypeOK, SaveIntent, Goto, At, Job, wire
<1> QED
  BY <1>2, <1>3, <1>4, <1>5, <1>6, <1>7, <1>8, <1>9, <1>10, <1>11, <1>12, <1>13, <1>14

(* Sending the activation, the first time or after a restart: the message  *)
(* is the saved intent, and nobody else's handover has an open connection. *)
LEMMA ActivationStep ==
    ASSUME IInv, NEW p \in Node, job[p] # NoJob, job[p].open,
           (job[p].kind = "resume" /\ job[p].pc = "prepare") \/ job[p].pc = "send",
           SendActivation(p, intent[p]),
           UNCHANGED <<config, intent, rows, live, fenced, restart, conn, acks, applying,
                       promotions, faults, gaveUp>>
    PROVE  IInv'
<1>1. PICK l \in Node : LeaderInv(l)
  BY DEF IInv
<1> USE DEF IInv, LeaderInv
<1> DEFINE t == job[p].target
<1>a. t \in Node /\ t # p /\ conn[t] = p /\ intent[p] \in Intent /\ intent[p].target = t /\ job[p] \in Job
  BY DEF TypeOK, JobInv, Job
<1>b. promotes' = [promotes EXCEPT ![t] = @ \union {intent[p]}]
  BY <1>a, MessageIsIntent DEF SendActivation
<1>c. job' = [job EXCEPT ![p].pc = "applied"]
  BY DEF SendActivation, Goto
<1>d. \A q \in Node \ {p} : job[q] # NoJob => l \notin {p, q} /\ ~job[q].open
  <2>1. \A q \in Node : job[q] # NoJob => role[q] = "primary"
    BY DEF JobInv, Connections
  <2>2. \A q \in Node : job[q] # NoJob /\ q # l => l # p
    BY <1>1, <2>1 DEF Settled
  <2>3. \A q \in Node \ {l} : job[q] # NoJob => intent[q] # NoIntent /\ intent[q].target = l
    BY <1>1, <2>1 DEF Handed
  <2>4. \A q \in Node \ {l} : job[q] # NoJob => job[q].target = l
    BY <1>1, <2>1, <2>3 DEF Handed, JobInv, Withdrawable, TypeOK, Job
  <2> QED BY <1>1, <1>a, <2>1, <2>2, <2>4 DEF Settled, JobInv
<1> HIDE DEF t
<1>2. TypeOK'
  BY <1>a, <1>b, <1>c DEF TypeOK, Promote, Intent, Job, config, wire
<1>3. Connections'
  BY <1>a, <1>b, MembersFinite DEF Connections, TypeOK, config
<1>4. Identifiers'
  BY <1>b, <1>c DEF Identifiers, JobInv
<1>5. \A q \in Node : JobInv(q)'
  BY <1>c DEF JobInv
<1>6. \A q \in Node : IntentInv(q)'
  BY DEF IntentInv, config
<1>7. role'[l] = "primary"
  BY <1>1 DEF config
<1>8. Handed(l)'
  BY <1>1 DEF Handed, config
<1>9. Following(l)'
  BY <1>1 DEF Following, config
<1>10. Messages(l)'
  BY <1>1, <1>a, <1>b DEF Messages, JobInv, Connections, Handed, config
<1>11. Attached(l)'
  BY <1>1 DEF Attached, config
<1>12. Settled(l)'
  <2>1. role[p] = "primary"
    BY DEF JobInv, Connections
  <2>2. CASE p = l
    BY <1>1, <1>a, <1>b, <1>c, <2>2 DEF Settled, TypeOK, config
  <2>3. CASE p # l
    BY <1>1, <1>c, <2>1, <2>3 DEF Settled, TypeOK
  <2> QED BY <2>2, <2>3
<1>13. Barrier(l)'
  BY <1>1, <1>c DEF Barrier
<1>14. Withdrawable(l)'
  BY <1>1, <1>c, <1>d DEF Withdrawable, TypeOK, JobInv, Intent
<1> QED
  BY <1>2, <1>3, <1>4, <1>5, <1>6, <1>7, <1>8, <1>9, <1>10, <1>11, <1>12, <1>13, <1>14

(* Withdrawing an intent is safe when no copy of its activation is left    *)
(* anywhere.                                                               *)
LEMMA WithdrawnStep ==
    ASSUME IInv, NEW p \in Node, job[p] # NoJob,
           \A l \in Node : LeaderInv(l) => p = l,
           \A n \in Node : promotes'[n] = {} /\ applying[n] = {},
           Withdrawn(p), gaveUp' \subseteq Node,
           promotes' = promotes, \A n \in Node : acks'[n] \subseteq acks[n],
            acks' \in [Node -> SUBSET Ack],
           UNCHANGED <<config, rows, live, restart, conn, applying, promotions, faults>>
    PROVE  IInv'
<1>1. PICK l \in Node : LeaderInv(l)
  BY DEF IInv
<1> USE DEF IInv, LeaderInv
<1>2. TypeOK'
  BY <1>1 DEF TypeOK, JobInv, IntentInv, Withdrawn, Job, Intent, config, wire
<1>3. Connections'
  BY DEF Connections, config
<1>4. Identifiers'
  BY DEF Identifiers, Withdrawn
<1>5. \A q \in Node : JobInv(q)'
  BY DEF JobInv, TypeOK, Withdrawn
<1>6. \A q \in Node : IntentInv(q)'
  BY DEF IntentInv, TypeOK, Withdrawn, config
<1>7. role'[l] = "primary"
  BY <1>1 DEF config
<1>8. Handed(l)'
  BY <1>1 DEF Handed, Withdrawn, config
<1>9. Following(l)'
  BY <1>1 DEF Following, config
<1>10. Messages(l)'
  BY DEF Messages
<1>11. Attached(l)'
  BY <1>1 DEF Attached, config
<1>12. Settled(l)'
  BY <1>1 DEF Settled, config
<1>13. Barrier(l)'
  BY <1>1 DEF Barrier, Withdrawn
<1>14. Withdrawable(l)'
  BY <1>1 DEF Withdrawable, TypeOK, Withdrawn, Job
<1> QED
  BY <1>2, <1>3, <1>4, <1>5, <1>6, <1>7, <1>8, <1>9, <1>10, <1>11, <1>12, <1>13, <1>14

(* An acknowledgement that is accepted, or one nobody waits for.           *)
LEMMA AnswerStep ==
    ASSUME IInv, NEW p \in Node, NEW n \in Node, NEW a \in acks[n],
           acks' = [acks EXCEPT ![n] = @ \ {a}],
           conn[n] = p,
           \/ /\ At(p, "applied") /\ job[p].target = n /\ intent[p].id = a.id /\ a.success
              /\ Goto(p, "notify")
           \/ UNCHANGED job,
           UNCHANGED <<config, intent, rows, live, fenced, restart, conn, promotes, applying,
                       promotions, faults, gaveUp>>
    PROVE  IInv'
<1>1. PICK l \in Node : LeaderInv(l)
  BY DEF IInv
<1> USE DEF IInv, LeaderInv
<1>2. TypeOK'
  BY <1>1 DEF TypeOK, Goto, At, Job, config
<1>3. Connections'
  BY DEF Connections, config
<1>4. Identifiers'
  BY DEF Identifiers, TypeOK, Goto, At, Job
<1>5. \A q \in Node : JobInv(q)'
  BY DEF JobInv, TypeOK, Goto, At, Job
<1>6. \A q \in Node : IntentInv(q)'
  BY DEF IntentInv, config
<1>7. role'[l] = "primary"
  BY <1>1 DEF config
<1>8. Handed(l)'
  BY <1>1 DEF Handed, config
<1>9. Following(l)'
  BY <1>1 DEF Following, config
<1>10. Messages(l)'
  BY <1>1 DEF Messages, config
<1>11. Attached(l)'
  BY <1>1 DEF Attached, config
<1>12. Settled(l)'
  BY <1>1 DEF Settled, TypeOK, Goto, At, config
<1>13. Barrier(l)'
  BY <1>1 DEF Barrier, TypeOK, Goto, At, Job
<1>14. Withdrawable(l)'
  BY <1>1 DEF Withdrawable, TypeOK, Attached, Goto, At, Job
<1> QED
  BY <1>2, <1>3, <1>4, <1>5, <1>6, <1>7, <1>8, <1>9, <1>10, <1>11, <1>12, <1>13, <1>14

(* A resumed handover that is refused keeps its intent, and its fence.     *)
LEMMA KeptStep ==
    ASSUME IInv, NEW p \in Node, job[p] # NoJob, NEW n \in Node, NEW a \in acks[n],
           acks' = [acks EXCEPT ![n] = @ \ {a}],
           Kept(p), gaveUp' \subseteq Node,
           UNCHANGED <<config, rows, live, restart, conn, promotes, applying, promotions, faults>>
    PROVE  IInv'
<1>1. PICK l \in Node : LeaderInv(l)
  BY DEF IInv
<1> USE DEF IInv, LeaderInv
<1>2. TypeOK'
  BY DEF TypeOK, Kept, config
<1>3. Connections'
  BY DEF Connections, config
<1>4. Identifiers'
  BY DEF Identifiers, Kept
<1>5. \A q \in Node : JobInv(q)'
  BY DEF JobInv, Kept
<1>6. \A q \in Node : IntentInv(q)'
  BY DEF IntentInv, Kept, config
<1>7. role'[l] = "primary"
  BY <1>1 DEF config
<1>8. Handed(l)'
  BY <1>1 DEF Handed, Kept, config
<1>9. Following(l)'
  BY <1>1 DEF Following, config
<1>10. Messages(l)'
  BY <1>1 DEF Messages, Kept, config
<1>11. Attached(l)'
  BY <1>1 DEF Attached, config
<1>12. Settled(l)'
  BY <1>1 DEF Settled, Kept, config
<1>13. Barrier(l)'
  BY <1>1 DEF Barrier, Kept
<1>14. Withdrawable(l)'
  BY <1>1 DEF Withdrawable, Kept
<1> QED
  BY <1>2, <1>3, <1>4, <1>5, <1>6, <1>7, <1>8, <1>9, <1>10, <1>11, <1>12, <1>13, <1>14

(* The news sent to the bystanders names the leader and its epoch.         *)
LEMMA NotifyBystandersStep ==
    ASSUME IInv, NEW n \in Node, NotifyBystanders(n)
    PROVE  IInv'
<1>1. PICK l \in Node : LeaderInv(l)
  BY DEF IInv
<1> USE DEF IInv, LeaderInv
<1>a. job[n] # NoJob /\ job[n] \in Job /\ job[n].target = l /\ n # l /\ role[n] = "primary"
  BY <1>1 DEF NotifyBystanders, At, Withdrawable, JobInv, Connections, TypeOK
<1>b. intent[n] \in Intent /\ intent[n].target = l /\ intent[n].epoch = epoch[l]
  BY <1>1, <1>a DEF NotifyBystanders, At, JobInv, TypeOK, Handed
<1>c. promotes' = [o \in Node |-> IF conn[o] = n /\ o # l THEN promotes[o] \union {intent[n]}
                                   ELSE promotes[o]]
  BY <1>a, <1>b, MessageIsIntent DEF NotifyBystanders
<1>d. job[l] = NoJob /\ intent[l] = NoIntent
  BY <1>1, <1>a DEF Settled
<1>e. job' = [job EXCEPT ![n].pc = "demote"]
  BY DEF NotifyBystanders, Goto
<1>2. TypeOK'
  <2>1. promotes' \in [Node -> SUBSET Promote]
    BY <1>b, <1>c DEF TypeOK, Promote, Intent
  <2>2. job' \in [Node -> Job \union {NoJob}]
    BY <1>a, <1>e DEF TypeOK, Job
  <2> QED BY <2>1, <2>2 DEF TypeOK, NotifyBystanders, config
<1>3. Connections'
  BY <1>a, <1>b, <1>c, MembersFinite DEF Connections, TypeOK, NotifyBystanders, config
<1>4. Identifiers'
  <2>1. \A q \in Node : job'[q] # NoJob => job[q] # NoJob /\ job'[q].id = job[q].id
    BY <1>a, <1>e DEF TypeOK, Job
  <2>2. intent[n].id <= promotions
    BY <1>a DEF Identifiers, JobInv, NotifyBystanders, At
  <2> QED BY <1>c, <2>1, <2>2 DEF Identifiers, NotifyBystanders
<1>5. \A q \in Node : JobInv(q)'
  <2>1. \A q \in Node \ {n} : job'[q] = job[q]
    BY <1>e DEF TypeOK
  <2>2. job'[n] = [job[n] EXCEPT !.pc = "demote"] /\ job[n].pc = "notify"
    BY <1>a, <1>e DEF TypeOK, NotifyBystanders, At
  <2> QED BY <1>a, <2>1, <2>2 DEF JobInv, Job, NotifyBystanders, config
<1>6. \A q \in Node : IntentInv(q)'
  BY DEF IntentInv, NotifyBystanders, config
<1>7. role'[l] = "primary"
  BY <1>1 DEF NotifyBystanders, config
<1>8. Handed(l)'
  BY <1>1 DEF Handed, NotifyBystanders, config
<1>9. Following(l)'
  BY <1>1 DEF Following, NotifyBystanders, config
<1>10. Messages(l)'
  BY <1>1, <1>a, <1>b, <1>c, MembersFinite DEF Messages, Connections, TypeOK, NotifyBystanders, config
<1>11. Attached(l)'
  BY <1>1 DEF Attached, NotifyBystanders, config
<1>12. Settled(l)'
  BY <1>d, <1>a, <1>e DEF Settled, TypeOK, NotifyBystanders
<1>13. Barrier(l)'
  BY <1>d, <1>e DEF Barrier, NotifyBystanders
<1>14. Withdrawable(l)'
  <2>1. \A q \in Node : job[q] # NoJob => q # l
    BY <1>d
  <2>2. promotes'[l] = promotes[l]
    BY <1>c
  <2>3. \A q \in Node : job[q] # NoJob /\ job[q].pc = "applied" => job[q].target = l
    BY <1>1, <2>1 DEF Handed, JobInv, Connections
  <2>4. UNCHANGED <<intent, acks, applying>>
    BY DEF NotifyBystanders
  <2>5. \A q \in Node : job'[q] # NoJob => q # l /\ job[q] # NoJob /\ job'[q].kind = job[q].kind
                                          /\ job'[q].id = job[q].id /\ job'[q].target = job[q].target
                                          /\ (q # n => job'[q].pc = job[q].pc)
                                          /\ (q = n => job'[q].pc = "demote")
    BY <1>a, <1>e, <2>1 DEF TypeOK, Job
  <2> QED BY <1>1, <1>a, <2>1, <2>2, <2>3, <2>4, <2>5 DEF Withdrawable
<1> QED
  BY <1>2, <1>3, <1>4, <1>5, <1>6, <1>7, <1>8, <1>9, <1>10, <1>11, <1>12, <1>13, <1>14

(* The old primary becomes a replica of the leader.                        *)
LEMMA DemoteStep ==
    ASSUME IInv, NEW n \in Node, Demote(n)
    PROVE  IInv'
<1>1. PICK l \in Node : LeaderInv(l)
  BY DEF IInv
<1> USE DEF IInv, LeaderInv
<1>a. job[n] # NoJob /\ job[n].target = l /\ n # l /\ role[n] = "primary"
  BY <1>1 DEF Demote, At, Withdrawable, JobInv, Connections
<1>b. intent[n] \in Intent /\ intent[n].target = l /\ intent[n].epoch = epoch[l]
  BY <1>1, <1>a DEF Demote, At, JobInv, TypeOK, Handed
<1>d. job[l] = NoJob /\ intent[l] = NoIntent
  BY <1>1, <1>a DEF Settled
<1>2. TypeOK'
  BY <1>a, <1>b DEF TypeOK, Demote, wire
<1>3. Connections'
  BY DEF Connections, TypeOK, Demote, wire
<1>4. Identifiers'
  BY DEF Identifiers, Demote, wire
<1>5. \A q \in Node : JobInv(q)'
  BY DEF JobInv, TypeOK, Demote, wire
<1>6. \A q \in Node : IntentInv(q)'
  BY DEF IntentInv, TypeOK, Demote
<1>7. role'[l] = "primary"
  BY <1>1, <1>a DEF Demote
<1>8. Handed(l)'
  BY <1>1, <1>b DEF Handed, TypeOK, Demote
<1>9. Following(l)'
  BY <1>1, <1>b DEF Following, TypeOK, Demote
<1>10. Messages(l)'
  BY <1>1, <1>b DEF Messages, TypeOK, Demote, wire
<1>11. Attached(l)'
  BY <1>1, <1>b DEF Attached, Demote, wire
<1>12. Settled(l)'
  BY <1>d DEF Settled, Demote
<1>13. Barrier(l)'
  BY <1>1 DEF Barrier, Demote
<1>14. Withdrawable(l)'
  BY <1>1 DEF Withdrawable, TypeOK, Demote, Job, wire
<1> QED
  BY <1>2, <1>3, <1>4, <1>5, <1>6, <1>7, <1>8, <1>9, <1>10, <1>11, <1>12, <1>13, <1>14

(* A message is taken from the connection before it is applied.            *)
LEMMA ReceivePromoteStep ==
    ASSUME IInv, NEW n \in Node, ReceivePromote(n)
    PROVE  IInv'
<1>1. PICK l \in Node : LeaderInv(l)
  BY DEF IInv
<1> USE DEF IInv, LeaderInv
<1>2. TypeOK'
  BY DEF TypeOK, ReceivePromote, config
<1>3. Connections'
  BY DEF Connections, ReceivePromote, config
<1>4. Identifiers'
  BY DEF Identifiers, ReceivePromote
<1>5. \A q \in Node : JobInv(q)'
  BY DEF JobInv, ReceivePromote
<1>6. \A q \in Node : IntentInv(q)'
  BY DEF IntentInv, ReceivePromote, config
<1>7. role'[l] = "primary"
  BY <1>1 DEF ReceivePromote, config
<1>8. Handed(l)'
  BY <1>1 DEF Handed, ReceivePromote, config
<1>9. Following(l)'
  BY <1>1 DEF Following, ReceivePromote, config
<1>10. Messages(l)'
  BY <1>1 DEF Messages, ReceivePromote, config
<1>11. Attached(l)'
  BY <1>1 DEF Attached, ReceivePromote, config
<1>12. Settled(l)'
  BY <1>1 DEF Settled, ReceivePromote, config
<1>13. Barrier(l)'
  BY <1>1 DEF Barrier, ReceivePromote
<1>14. Withdrawable(l)'
  BY <1>1 DEF Withdrawable, TypeOK, JobInv, IntentInv, Handed, Connections, Identifiers, ReceivePromote,
     Promote, config
<1> QED
  BY <1>2, <1>3, <1>4, <1>5, <1>6, <1>7, <1>8, <1>9, <1>10, <1>11, <1>12, <1>13, <1>14

(* A member that cannot store the message stays what it was, and says so.  *)
LEMMA NotStoredStep ==
    ASSUME IInv, NEW n \in Node, NEW m \in applying[n], applying' = [applying EXCEPT ![n] = @ \ {m}],
           faults' \in Nat, restart' \in [Node -> BOOLEAN], \A q \in Node : restart[q] => restart'[q],
           IF m.target = n THEN Reply(n, m, FALSE) /\ UNCHANGED restart ELSE UNCHANGED acks,
           UNCHANGED <<role, follows, epoch>>,
           UNCHANGED <<intent, rows, live, fenced, conn, promotes, job, promotions, gaveUp>>
    PROVE  IInv'
<1>1. PICK l \in Node : LeaderInv(l)
  BY DEF IInv
<1> USE DEF IInv, LeaderInv
<1>a. m \in Promote
  BY DEF TypeOK
<1>b. acks' \in [Node -> SUBSET Ack]
  BY <1>a, ReplyType DEF TypeOK
<1>2. TypeOK'
  BY <1>b DEF TypeOK
<1>3. Connections'
  BY DEF Connections, TypeOK, Reply
<1>4. Identifiers'
  BY DEF Identifiers, TypeOK, Reply
<1>5. \A q \in Node : JobInv(q)'
  BY DEF JobInv
<1>6. \A q \in Node : IntentInv(q)'
  BY DEF IntentInv
<1>7. role'[l] = "primary"
  BY <1>1
<1>8. Handed(l)'
  BY <1>1 DEF Handed
<1>9. Following(l)'
  BY <1>1 DEF Following
<1>10. Messages(l)'
  BY <1>1 DEF Messages
<1>11. Attached(l)'
  BY <1>1 DEF Attached, TypeOK, Reply
<1>12. Settled(l)'
  BY <1>1 DEF Settled
<1>13. Barrier(l)'
  BY <1>1 DEF Barrier
<1>14. Withdrawable(l)'
  <2> SUFFICES ASSUME NEW p \in Node, job[p] # NoJob, job[p].kind = "promote", job[p].pc = "applied"
               PROVE  LET t == job[p].target
                      IN  /\ (\E a \in acks'[t] : a.id = job[p].id /\ ~a.success) =>
                                p = l /\ intent[p] \notin promotes[t] \union applying'[t]
                          /\ intent[p] \in promotes[t] => intent[p] \notin applying'[t]
                          /\ promotes[t] \union applying'[t] # {} => p = l /\ \A a \in acks'[t] : a.id # job[p].id
    BY <1>1 DEF Withdrawable
  <2> DEFINE t == job[p].target
  <2>1. /\ (\E a \in acks[t] : a.id = job[p].id /\ ~a.success) =>
              p = l /\ intent[p] \notin promotes[t] \union applying[t]
        /\ intent[p] \in promotes[t] => intent[p] \notin applying[t]
        /\ promotes[t] \union applying[t] # {} => p = l /\ \A a \in acks[t] : a.id # job[p].id
    BY <1>1 DEF Withdrawable
  <2>2. t \in Node /\ t # p /\ intent[p].target = t /\ intent[p].id = job[p].id /\ intent[p] # NoIntent
    BY DEF JobInv, TypeOK, Job
  <2>3. CASE t # n
    <3>1. acks'[t] = acks[t] /\ applying'[t] = applying[t]
      BY <2>2, <2>3 DEF Reply, TypeOK
    <3> QED BY <2>1, <3>1
  <2>4. CASE t = n
    <3>1. p = l /\ \A a \in acks[n] : a.id # job[p].id
      BY <2>1, <2>4
    <3>2. \A x \in promotes[n] \union applying[n] : x = intent[p]
      BY <1>1, <2>2, <2>4, <3>1 DEF Settled
    <3>3. m = intent[p] /\ promotes[n] = {} /\ applying'[n] = {}
      BY <2>1, <2>4, <3>2 DEF TypeOK
    <3> QED BY <2>4, <3>1, <3>3
  <2> QED BY <2>3, <2>4
<1> QED
  BY <1>2, <1>3, <1>4, <1>5, <1>6, <1>7, <1>8, <1>9, <1>10, <1>11, <1>12, <1>13, <1>14

(* A bystander that stores the news follows the leader.                    *)
LEMMA NewsStoredStep ==
    ASSUME IInv, NEW n \in Node, NEW m \in applying[n], m.target # n,
           applying' = [applying EXCEPT ![n] = @ \ {m}],
           Stored(n, m), restart' = [restart EXCEPT ![n] = TRUE], UNCHANGED <<acks, faults>>,
           UNCHANGED <<intent, rows, live, fenced, conn, promotes, job, promotions, gaveUp>>
    PROVE  IInv'
<1>1. PICK l \in Node : LeaderInv(l)
  BY DEF IInv
<1> USE DEF IInv, LeaderInv
<1>a. m.target = l /\ m.epoch = epoch[l] /\ n # l /\ conn[n] # l
  BY <1>1 DEF Messages
<1>b. live[n] = "replica" /\ intent[n] = NoIntent /\ job[n] = NoJob /\ role[n] = "replica"
  BY <1>1, <1>a DEF TypeOK, Connections, IntentInv, JobInv, Handed
<1>2. TypeOK'
  BY DEF TypeOK, Stored, Promote
<1>3. Connections'
  BY DEF Connections, TypeOK, Stored
<1>4. Identifiers'
  BY DEF Identifiers
<1>5. \A q \in Node : JobInv(q)'
  BY DEF JobInv
<1>6. \A q \in Node : IntentInv(q)'
  BY <1>b DEF IntentInv, Stored
<1>7. role'[l] = "primary"
  BY <1>1, <1>b DEF Stored
<1>8. Handed(l)'
  BY <1>1, <1>a DEF Handed, TypeOK, Stored
<1>9. Following(l)'
  BY <1>1, <1>a DEF Following, TypeOK, Stored
<1>10. Messages(l)'
  BY <1>1 DEF Messages, TypeOK, Stored
<1>11. Attached(l)'
  BY <1>1, <1>a DEF Attached, Stored
<1>12. Settled(l)'
  BY <1>1, <1>a DEF Settled, Stored
<1>13. Barrier(l)'
  BY <1>1 DEF Barrier
<1>14. Withdrawable(l)'
  BY <1>1 DEF Withdrawable
<1> QED
  BY <1>2, <1>3, <1>4, <1>5, <1>6, <1>7, <1>8, <1>9, <1>10, <1>11, <1>12, <1>13, <1>14

(* The leader may be activated again by a resumed handover: it stores what *)
(* it has.                                                                 *)
LEMMA RepeatedStep ==
    ASSUME IInv, NEW n \in Node, NEW m \in applying[n], m.target = n, LeaderInv(n),
           applying' = [applying EXCEPT ![n] = @ \ {m}],
           Stored(n, m), restart' = [restart EXCEPT ![n] = TRUE], Reply(n, m, TRUE), UNCHANGED faults,
           UNCHANGED <<intent, rows, live, fenced, conn, promotes, job, promotions, gaveUp>>
    PROVE  IInv'
<1>1. PICK l \in Node : l = n /\ LeaderInv(l)
  BY DEF IInv
<1> USE DEF IInv, LeaderInv
<1>a. m \in Promote /\ intent[n] \in Intent \union {NoIntent}
  BY DEF TypeOK
<1>b. m.epoch = epoch[n] /\ role[n] = "primary"
  BY <1>1, <1>a, NothingDistinct DEF Messages, IntentInv, Promote, Intent
<1>c. acks' \in [Node -> SUBSET Ack]
  BY <1>a, ReplyType DEF TypeOK
<1>d. UNCHANGED <<role, epoch>> /\ follows' = [follows EXCEPT ![n] = NoNode]
  BY <1>b DEF Stored, TypeOK
<1>2. TypeOK'
  BY <1>b, <1>c, <1>d DEF TypeOK
<1>3. Connections'
  BY <1>d DEF Connections, TypeOK, Reply
<1>4. Identifiers'
  BY DEF Identifiers, Reply
<1>5. \A q \in Node : JobInv(q)'
  BY DEF JobInv
<1>6. \A q \in Node : IntentInv(q)'
  BY <1>d DEF IntentInv
<1>7. role'[l] = "primary"
  BY <1>1, <1>d
<1>8. Handed(l)'
  BY <1>1, <1>d DEF Handed
<1>9. Following(l)'
  BY <1>1, <1>d DEF Following
<1>10. Messages(l)'
  BY <1>1, <1>d DEF Messages
<1>11. Attached(l)'
  BY <1>1, <1>d DEF Attached, Reply
<1>12. Settled(l)'
  BY <1>1, <1>d DEF Settled
<1>13. Barrier(l)'
  BY <1>1 DEF Barrier
<1>14. Withdrawable(l)'
  BY <1>1 DEF Withdrawable, JobInv, IntentInv, Reply
<1> QED
  BY <1>2, <1>3, <1>4, <1>5, <1>6, <1>7, <1>8, <1>9, <1>10, <1>11, <1>12, <1>13, <1>14

(* The leader changes: the target stores the activation of the leader's    *)
(* intent. Everything LeaderInv asks of the target follows from Settled    *)
(* and Barrier at the old leader.                                          *)
LEMMA HandoverStep ==
    ASSUME IInv, NEW n \in Node, NEW m \in applying[n], NEW l \in Node, LeaderInv(l), m.target = n,
           n # l,
           applying' = [applying EXCEPT ![n] = @ \ {m}],
           Stored(n, m), restart' = [restart EXCEPT ![n] = TRUE], Reply(n, m, TRUE), UNCHANGED faults,
           UNCHANGED <<intent, rows, live, fenced, conn, promotes, job, promotions, gaveUp>>
    PROVE  IInv'
<1> USE DEF IInv, LeaderInv
<1>1. m \in Promote /\ m = intent[l] /\ intent[l] # NoIntent /\ intent[l] \in Intent
  BY NothingDistinct DEF TypeOK, Messages, Promote, Intent
<1>2. intent[l].target = n /\ intent[l].epoch = epoch[l] + 1 /\ live[l] = "primary" /\ rows[n] >= rows[l]
  BY <1>1 DEF IntentInv, Barrier
<1>3. \A o \in Node \ {l} : /\ role[o] = "replica" /\ follows[o] = l /\ conn[o] \in {l, NoNode}
                            /\ \A x \in promotes[o] \union applying[o] : x = m
  BY <1>1 DEF Settled
<1>4. conn[l] = NoNode /\ promotes[l] = {} /\ applying[l] = {} /\ acks[l] = {}
  BY <1>2 DEF Connections
<1>5. \A o \in Node \ {l} : live[o] = "replica" /\ intent[o] = NoIntent /\ job[o] = NoJob
  BY <1>3 DEF TypeOK, Connections, IntentInv, JobInv
<1>6. \A o \in Node \ {l, n} : promotes[o] = {} /\ applying[o] = {}
  BY <1>1, <1>2, <1>3 DEF Messages
<1>7. /\ role' = [role EXCEPT ![n] = "primary"] /\ follows' = [follows EXCEPT ![n] = NoNode]
      /\ epoch' = [epoch EXCEPT ![n] = epoch[l] + 1]
  BY <1>1, <1>2 DEF Stored
<1>8. /\ acks' \in [Node -> SUBSET Ack]
      /\ \A o \in Node \ {n} : acks'[o] = acks[o]
      /\ acks'[n] \subseteq acks[n] \union {[id |-> m.id, success |-> TRUE]}
      /\ conn[n] = NoNode => acks'[n] = acks[n]
  BY <1>1, ReplyType DEF Reply, TypeOK
<1>9. TypeOK'
  <2>1. applying' \in [Node -> SUBSET Promote] /\ restart' \in [Node -> BOOLEAN]
    BY DEF TypeOK
  <2>2. /\ role' \in [Node -> {"primary", "replica"}] /\ epoch' \in [Node -> Nat]
        /\ follows' \in [Node -> Node \union {NoNode}]
    BY <1>7 DEF TypeOK
  <2>3. \A q \in Node : role'[q] = "replica" => follows'[q] \in Node \ {q}
    BY <1>7 DEF TypeOK
  <2> QED BY <1>8, <2>1, <2>2, <2>3 DEF TypeOK
<1>10. Connections'
  BY <1>3, <1>4, <1>5, <1>7, <1>8, MembersFinite DEF Connections, TypeOK
<1>11. Identifiers'
  BY <1>8 DEF Identifiers, TypeOK
<1>12. \A q \in Node : JobInv(q)' /\ IntentInv(q)'
  BY <1>5, <1>7 DEF JobInv, IntentInv, TypeOK
<1>13. LeaderInv(n)'
  <2>1. Handed(n)'
    BY <1>1, <1>2, <1>3, <1>7 DEF Handed, TypeOK
  <2>2. Following(n)'
    BY <1>3, <1>7 DEF Following, Handed, TypeOK
  <2>3. Messages(n)'
    BY <1>1, <1>2, <1>3, <1>4, <1>6, <1>7 DEF Messages, TypeOK
  <2>4. Attached(n)'
    <3>1. \A o \in Node : conn[o] # n
      BY <1>3, <1>4, MembersFinite
    <3>2. conn[n] # NoNode => rows[conn[n]] = rows[n]
      BY <1>2, <1>3 DEF Handed, TypeOK
    <3>3. \A o \in Node : \A a \in acks'[o] : a.success => o = n
      BY <1>4, <1>8 DEF Attached
    <3> QED BY <3>1, <3>2, <3>3 DEF Attached
  <2>5. Settled(n)' /\ Barrier(n)'
    BY <1>5 DEF Settled, Barrier
  <2>6. Withdrawable(n)'
    <3>1. \A q \in Node : job[q] # NoJob => q = l
      BY <1>5
    <3>2. job[l] # NoJob => /\ job[l].kind = "promote" => job[l].pc \in {"applied", "notify", "demote"}
                            /\ job[l].pc \notin {"notify", "demote"}
      BY DEF Withdrawable, JobInv, TypeOK, Job
    <3>3. SUFFICES ASSUME job[l] # NoJob, job[l].kind = "promote", job[l].pc = "applied"
                   PROVE  /\ \A a \in acks'[n] : ~(a.id = job[l].id /\ ~a.success)
                          /\ promotes[n] \union applying'[n] = {}
      <4>1. job[l] # NoJob /\ job[l].kind = "promote" /\ job[l].pc = "applied" => job[l].target = n
        BY <1>2 DEF JobInv
      <4> QED BY <3>1, <3>2, <4>1 DEF Withdrawable
    <3>4. job[l].target = n /\ job[l].id = m.id
      BY <1>1, <1>2, <3>3 DEF JobInv
    <3>5. (\A a \in acks[n] : a.id # job[l].id) /\ (intent[l] \in promotes[n] => intent[l] \notin applying[n])
      BY <3>3, <3>4 DEF Withdrawable
    <3> QED BY <1>1, <1>3, <1>8, <3>5 DEF TypeOK
  <2> QED BY <1>7, <2>1, <2>2, <2>3, <2>4, <2>5, <2>6 DEF TypeOK
<1> QED BY <1>9, <1>10, <1>11, <1>12, <1>13

(* Closed connections, with or without the restart of a member, take       *)
(* messages and acknowledgements with them and leave every durable fact as *)
(* it was.                                                                 *)
LEMMA ClosedStep ==
    ASSUME IInv, NEW S \in SUBSET Node, Close(S),
           UNCHANGED <<config, intent, rows, promotions, gaveUp>>, faults' \in Nat,
           job' \in [Node -> Job \union {NoJob}], fenced' \in [Node -> BOOLEAN],
           live' \in [Node -> {"primary", "replica"}], restart' \in [Node -> BOOLEAN],
           applying' \in [Node -> SUBSET Promote],
           \A q \in Node : job'[q] # NoJob => ClosedFor(q, S),
           \A q \in Node : Rebooted(q, S) \/ NotRebooted(q)
    PROVE  IInv'
<1>1. PICK l \in Node : LeaderInv(l)
  BY DEF IInv
<1> USE DEF IInv, LeaderInv
<1>a. /\ conn' = [q \in Node |-> IF q \in S THEN NoNode ELSE conn[q]]
      /\ promotes' = [q \in Node |-> IF q \in S THEN {} ELSE promotes[q]]
      /\ acks' = [q \in Node |-> IF q \in S THEN {} ELSE acks[q]]
  BY DEF Close
<1>b. \A q \in Node : applying'[q] \subseteq applying[q] /\ (job[q] = NoJob => job'[q] = NoJob)
  BY DEF Rebooted, NotRebooted, ClosedFor
<1> USE MembersFinite
<1> USE DEF ClosedFor
<1>2. TypeOK'
  BY <1>a DEF TypeOK, config
<1>3. Connections'
  BY <1>a DEF Connections, TypeOK, Rebooted, NotRebooted, Connected, config
<1>4. Identifiers'
  BY <1>a, <1>b DEF Identifiers
<1>5. \A q \in Node : JobInv(q)'
  <2> TAKE q \in Node
  <2>1. SUFFICES ASSUME job'[q] # NoJob PROVE JobInv(q)'
    BY DEF JobInv
  <2>2. NotRebooted(q) /\ live'[q] = live[q] /\ fenced'[q] = fenced[q] /\ job[q] # NoJob
    BY <2>1 DEF Rebooted, NotRebooted
  <2>3. job[q] \in Job /\ job'[q] \in Job
    BY <2>1, <2>2 DEF TypeOK
  <2> QED BY <1>a, <2>1, <2>2, <2>3 DEF JobInv, Job
<1>6. \A q \in Node : IntentInv(q)'
  BY <1>a, <1>b DEF IntentInv, JobInv, Connections, Rebooted, NotRebooted, FencedAtBoot, config
<1>7. role'[l] = "primary"
  BY <1>1 DEF config
<1>8. Handed(l)'
  BY <1>1 DEF Handed, config
<1>9. Following(l)'
  BY <1>1 DEF Following, config
<1>10. Messages(l)'
  BY <1>1, <1>a DEF Messages, Rebooted, NotRebooted, config
<1>11. Attached(l)'
  BY <1>1, <1>a DEF Attached, config
<1>12. Settled(l)'
  BY <1>1, <1>a, <1>b DEF Settled, config
<1>13. Barrier(l)'
  BY <1>1 DEF Barrier
<1>14. Withdrawable(l)'
  <2>1. \A q \in Node : job'[q] # NoJob => ClosedFor(q, S) /\ job[q] \in Job /\ job'[q] \in Job
    BY DEF TypeOK
  <2>2. \A q \in Node : promotes'[q] \subseteq promotes[q] /\ acks'[q] \subseteq acks[q]
    BY <1>a
  <2>3. \A q \in Node \ S : promotes'[q] = promotes[q] /\ acks'[q] = acks[q] /\ applying'[q] = applying[q]
    BY <1>a DEF Rebooted, NotRebooted
  <2>4. ASSUME NEW q \in Node, job'[q] # NoJob, job'[q].kind = "promote", job'[q].pc \in {"fence",
               "prepare", "save", "send"}
        PROVE  q = l /\ \A n \in Node : /\ promotes'[n] = {} /\ applying'[n] = {}
                                        /\ \A a \in acks'[n] : a.id # job'[q].id
    BY <1>1, <1>b, <2>1, <2>2, <2>4 DEF Withdrawable
  <2>5. ASSUME NEW q \in Node, job'[q] # NoJob, job'[q].kind = "promote", job'[q].pc = "applied"
        PROVE  LET n == job'[q].target
               IN  /\ (\E a \in acks'[n] : a.id = job'[q].id /\ ~a.success) =>
                         q = l /\ intent'[q] \notin promotes'[n] \union applying'[n]
                   /\ intent'[q] \in promotes'[n] => intent'[q] \notin applying'[n]
                   /\ promotes'[n] \union applying'[n] # {} => q = l /\ \A a \in acks'[n] : a.id # job'[q].id
    <3>1. job[q].target \in Node \ S
      BY <2>1, <2>5 DEF Job
    <3>2. /\ job[q] # NoJob /\ job[q].kind = "promote" /\ job[q].pc = "applied"
          /\ job'[q].target = job[q].target /\ job'[q].id = job[q].id
      BY <2>1, <2>5
    <3>3. intent'[q] = intent[q]
      OBVIOUS
    <3> DEFINE n == job[q].target
    <3>4. /\ (\E a \in acks[n] : a.id = job[q].id /\ ~a.success) =>
                q = l /\ intent[q] \notin promotes[n] \union applying[n]
          /\ intent[q] \in promotes[n] => intent[q] \notin applying[n]
          /\ promotes[n] \union applying[n] # {} => q = l /\ \A a \in acks[n] : a.id # job[q].id
      BY <1>1, <3>2 DEF Withdrawable
    <3>5. promotes'[n] = promotes[n] /\ acks'[n] = acks[n] /\ applying'[n] = applying[n]
      BY <2>3, <3>1
    <3> HIDE DEF IInv
    <3> QED BY <3>2, <3>3, <3>4, <3>5
  <2>6. ASSUME NEW q \in Node, job'[q] # NoJob, job'[q].pc \in {"notify", "demote"}
        PROVE  job'[q].target = l
    BY <1>1, <2>1, <2>6 DEF Withdrawable
  <2> QED BY <2>4, <2>5, <2>6 DEF Withdrawable
<1> QED
  BY <1>2, <1>3, <1>4, <1>5, <1>6, <1>7, <1>8, <1>9, <1>10, <1>11, <1>12, <1>13, <1>14

(* A replica attaches to the primary it follows; a pending intent for it   *)
(* is resumed.                                                             *)
LEMMA AnnounceStep ==
    ASSUME IInv, NEW n \in Node, Announce(n)
    PROVE  IInv'
<1>1. PICK l \in Node : LeaderInv(l)
  BY DEF IInv
<1> USE DEF IInv, LeaderInv
<1> DEFINE p == follows[n]
<1>a. p \in Node \ {n} /\ live[p] = "primary" /\ role[p] = "primary" /\ conn[n] = NoNode
  BY DEF Announce, TypeOK, Connections
<1>b. conn' = [conn EXCEPT ![n] = p] /\ epoch' = [epoch EXCEPT ![n] = epoch[p]]
  BY DEF Announce
<1>2. TypeOK'
  BY DEF TypeOK, Announce, Due, Job, Intent
<1>3. Connections'
  BY DEF Connections, TypeOK, Announce
<1>4. Identifiers'
  BY DEF Identifiers, Announce, Due
<1>5. \A q \in Node : JobInv(q)'
  <2>1. \A q \in Node \ {p} : job'[q] = job[q]
    BY <1>a DEF Announce, TypeOK
  <2>2. \A q \in Node \ {p} : JobInv(q)'
    BY <1>a, <1>b, <2>1, MembersFinite DEF JobInv, Announce, TypeOK, Job
  <2>3. CASE Due(p, n)
    <3>1. /\ job'[p] = [kind |-> "resume", pc |-> "prepare", id |-> intent[p].id, target |-> n,
                        open |-> TRUE, barrier |-> rows[p], awaiting |-> {}]
          /\ intent[p] # NoIntent /\ intent[p].target = n
      BY <1>a, <2>3 DEF Announce, Due, TypeOK
    <3> QED BY <1>a, <1>b, <2>2, <3>1 DEF JobInv, IntentInv, Announce, TypeOK
  <2>4. CASE ~Due(p, n)
    <3>1. job'[p] = job[p]
      BY <1>a, <2>4 DEF Announce, TypeOK
    <3> QED BY <1>a, <1>b, <2>2, <3>1, MembersFinite DEF JobInv, Announce, TypeOK, Job
  <2> QED BY <2>3, <2>4
<1>6. \A q \in Node : IntentInv(q)'
  BY DEF IntentInv, Announce
<1>7. role'[l] = "primary"
  BY <1>1 DEF Announce
<1>8. Handed(l)'
  BY <1>1 DEF Handed, TypeOK, Announce
<1>9. Following(l)'
  <2>1. p # l => epoch[p] < epoch[l]
    BY <1>1, <1>a DEF Handed, IntentInv, TypeOK
  <2>2. epoch[n] <= epoch[p] /\ p # l => \A o \in Node : role[o] = "replica" => follows[o] # n
    BY <1>1, <1>a DEF Following, TypeOK, Announce
  <2> QED BY <1>1, <1>a, <1>b, <2>1 DEF Following, Announce, Handed, TypeOK
<1>10. Messages(l)'
  BY <1>1 DEF Messages, Announce
<1>11. Attached(l)'
  BY <1>1 DEF Attached, Announce
<1>12. Settled(l)'
  BY <1>1 DEF Settled, Announce, Due
<1>13. Barrier(l)'
  BY <1>1 DEF Barrier, Announce
<1>14. Withdrawable(l)'
  BY <1>1 DEF Withdrawable, TypeOK, Announce, Job
<1> QED
  BY <1>2, <1>3, <1>4, <1>5, <1>6, <1>7, <1>8, <1>9, <1>10, <1>11, <1>12, <1>13, <1>14

(* A replica whose primary has handed over follows that primary's          *)
(* successor.                                                              *)
LEMMA FollowRedirectStep ==
    ASSUME IInv, NEW n \in Node, FollowRedirect(n)
    PROVE  IInv'
<1>1. PICK l \in Node : LeaderInv(l)
  BY DEF IInv
<1> USE DEF IInv, LeaderInv
<1>2. TypeOK'
  <2>1. follows[n] \in Node \ {n} /\ follows[follows[n]] \in Node \ {n}
    BY <1>1 DEF FollowRedirect, TypeOK, Following
  <2> QED BY <2>1 DEF FollowRedirect, TypeOK, wire
<1>3. Connections'
  BY DEF Connections, FollowRedirect, wire
<1>4. Identifiers'
  BY DEF Identifiers, FollowRedirect, wire
<1>5. \A q \in Node : JobInv(q)'
  BY DEF JobInv, FollowRedirect, wire
<1>6. \A q \in Node : IntentInv(q)'
  BY DEF IntentInv, FollowRedirect
<1>7. role'[l] = "primary"
  BY <1>1 DEF FollowRedirect
<1>8. Handed(l)'
  BY <1>1 DEF Handed, TypeOK, FollowRedirect
<1>9. Following(l)'
  BY <1>1 DEF Following, TypeOK, FollowRedirect
<1>10. Messages(l)'
  BY <1>1 DEF Messages, TypeOK, FollowRedirect, wire
<1>11. Attached(l)'
  BY <1>1 DEF Attached, FollowRedirect, wire
<1>12. Settled(l)'
  BY <1>1 DEF Settled, FollowRedirect
<1>13. Barrier(l)'
  BY <1>1 DEF Barrier, FollowRedirect
<1>14. Withdrawable(l)'
  BY <1>1 DEF Withdrawable, FollowRedirect, wire
<1> QED
  BY <1>2, <1>3, <1>4, <1>5, <1>6, <1>7, <1>8, <1>9, <1>10, <1>11, <1>12, <1>13, <1>14

(* The lemmas above cover the branches of the remaining actions.           *)
LEMMA PrepareStep == ASSUME IInv, NEW p \in Node, Prepare(p) PROVE IInv'
<1>1. CASE ~job[p].open
  BY <1>1, FailedStep DEF Prepare, At, IInv, TypeOK
<1>2. CASE job[p].open
  BY <1>2, CapturedStep DEF Prepare
<1> QED BY <1>1, <1>2

(* A prepared target is activated by a resumed handover, and opens the way *)
(* to the intent of a new one.                                             *)
LEMMA PreparedStep == ASSUME IInv, NEW p \in Node, Prepared(p) PROVE IInv'
<1>1. job[p] # NoJob /\ job[p].open /\ job[p].kind \in {"resume", "promote"}
  BY DEF Prepared, At, TargetReady, IInv, TypeOK, Job
<1>2. CASE job[p].kind = "resume"
  BY <1>1, <1>2, ActivationStep DEF Prepared, At
<1>3. CASE job[p].kind = "promote" /\ AllConnected(p)
  BY <1>3, SaveAllowedStep DEF Prepared, wire
<1>4. CASE job[p].kind = "promote" /\ ~AllConnected(p)
  BY <1>1, <1>4, FailedStep DEF Prepared, IInv, TypeOK, wire
<1> QED BY <1>1, <1>2, <1>3, <1>4

(* The activation is sent, or withdrawn when the connection is gone.       *)
LEMMA SendPromoteStep == ASSUME IInv, NEW p \in Node, SendPromote(p) PROVE IInv'
<1>1. job[p] # NoJob /\ job[p].pc = "send" /\ job[p].kind = "promote"
  BY DEF SendPromote, At, IInv, JobInv, TypeOK, Job
<1>2. CASE job[p].open
  BY <1>1, <1>2, ActivationStep DEF SendPromote
<1>3. CASE ~job[p].open
  <2>1. \A l \in Node : LeaderInv(l) => p = l /\ \A n \in Node : promotes[n] = {} /\ applying[n] = {}
    BY <1>1 DEF LeaderInv, Withdrawable
  <2>2. \A n \in Node : promotes[n] = {} /\ applying[n] = {}
    BY <2>1 DEF IInv
  <2>3. /\ Withdrawn(p)
        /\ UNCHANGED <<config, rows, live, restart, conn, promotes, acks, applying, promotions, faults, gaveUp>>
    BY <1>3 DEF SendPromote
  <2>4. gaveUp' \subseteq Node /\ acks' \in [Node -> SUBSET Ack]
    BY <2>3 DEF IInv, TypeOK
  <2> QED BY <1>1, <2>1, <2>2, <2>3, <2>4, WithdrawnStep
<1> QED BY <1>2, <1>3

(* A rejected activation is withdrawn by the first attempt and kept by a   *)
(* resumed one.                                                            *)
LEMMA ReceiveAckStep == ASSUME IInv, NEW p \in Node, NEW n \in Node, ReceiveAck(p, n) PROVE IInv'
<1>1. PICK a \in acks[n] :
          /\ acks' = [acks EXCEPT ![n] = @ \ {a}]
          /\ \/ /\ At(p, "applied") /\ job[p].target = n /\ intent[p].id = a.id
                /\ \/ a.success /\ Goto(p, "notify") /\ UNCHANGED <<intent, fenced, gaveUp>>
                   \/ /\ ~a.success /\ NotActivated(p)
                      /\ gaveUp' = gaveUp \union {p}
             \/ /\ ~(At(p, "applied") /\ job[p].target = n /\ intent[p].id = a.id)
                /\ UNCHANGED <<intent, fenced, job, gaveUp>>
  BY DEF ReceiveAck
<1>2. conn[n] = p /\ UNCHANGED <<config, rows, live, restart, conn, promotes, applying, promotions, faults>>
  BY DEF ReceiveAck
<1>3. acks' \in [Node -> SUBSET Ack] /\ \A o \in Node : acks'[o] \subseteq acks[o]
  BY <1>1 DEF IInv, TypeOK
<1>4. CASE \/ At(p, "applied") /\ job[p].target = n /\ intent[p].id = a.id /\ a.success
           \/ ~(At(p, "applied") /\ job[p].target = n /\ intent[p].id = a.id)
  BY <1>1, <1>2, <1>4, AnswerStep
<1>5. CASE At(p, "applied") /\ job[p].target = n /\ intent[p].id = a.id /\ ~a.success
  <2>1. NotActivated(p) /\ gaveUp' \subseteq Node /\ job[p] # NoJob
    BY <1>1, <1>5 DEF At, IInv, TypeOK
  <2>2. CASE job[p].kind # "promote"
    BY <1>1, <1>2, <2>1, <2>2, KeptStep DEF NotActivated
  <2>3. CASE job[p].kind = "promote"
    <3>1. intent[p].id = job[p].id /\ intent[p].target = n /\ n # p /\ live[p] = "primary" /\ intent[p] # NoIntent
      BY <1>5 DEF At, IInv, JobInv
    <3>2. ASSUME NEW l \in Node, LeaderInv(l)
          PROVE  p = l /\ \A o \in Node : promotes[o] = {} /\ applying[o] = {}
      <4>1. p = l /\ intent[p] \notin promotes[n] \union applying[n]
        BY <1>5, <2>3, <3>1, <3>2 DEF At, LeaderInv, Withdrawable
      <4>2. promotes[l] = {} /\ applying[l] = {}
        BY <3>1, <4>1 DEF IInv, Connections
      <4>3. \A o \in Node \ {l} : \A m \in promotes[o] \union applying[o] : m = intent[l]
        BY <3>1, <3>2, <4>1 DEF LeaderInv, Settled
      <4>4. \A o \in Node \ {l, n} : promotes[o] = {} /\ applying[o] = {}
        BY <3>1, <3>2, <4>1, <4>3 DEF LeaderInv, Messages
      <4> QED BY <4>1, <4>2, <4>3, <4>4
    <3>3. \A o \in Node : promotes[o] = {} /\ applying[o] = {}
      BY <3>2 DEF IInv
    <3>4. Withdrawn(p) /\ promotes' = promotes
      BY <1>2, <2>1, <2>3 DEF NotActivated
    <3> QED BY <1>2, <1>3, <2>1, <3>2, <3>3, <3>4, WithdrawnStep
  <2> QED BY <2>2, <2>3
<1> QED BY <1>4, <1>5

(* A demotion that fails keeps the intent and the fence.                   *)
LEMMA DemoteFailsStep == ASSUME IInv, NEW p \in Node, DemoteFails(p) PROVE IInv'
BY FailedStep DEF DemoteFails, At, IInv, TypeOK

(* A handover that gives up waiting is one that fails.                     *)
LEMMA JobTimeoutStep == ASSUME IInv, NEW p \in Node, JobTimeout(p) PROVE IInv'
BY FailedStep DEF JobTimeout, At, IInv, TypeOK

(* A stored message is news of the leader, the leader's own activation     *)
(* once more, or the handover itself.                                      *)
LEMMA ApplyPromoteStep == ASSUME IInv, NEW n \in Node, ApplyPromote(n) PROVE IInv'
<1>1. PICK m \in applying[n] :
          /\ applying' = [applying EXCEPT ![n] = @ \ {m}]
          /\ \/ /\ Stored(n, m)
                /\ restart' = [restart EXCEPT ![n] = TRUE]
                /\ IF m.target = n THEN Reply(n, m, TRUE) ELSE UNCHANGED acks
                /\ UNCHANGED faults
             \/ /\ faults > 0 /\ faults' = faults - 1
                /\ IF m.target = n THEN Reply(n, m, FALSE) /\ UNCHANGED restart
                                   ELSE UNCHANGED acks /\ restart' = [restart EXCEPT ![n] = TRUE]
                /\ UNCHANGED <<role, follows, epoch>>
  BY DEF ApplyPromote
<1>2. UNCHANGED <<intent, rows, live, fenced, conn, promotes, job, promotions, gaveUp>>
  BY DEF ApplyPromote
<1>3. PICK l \in Node : LeaderInv(l)
  BY DEF IInv
<1>4. CASE /\ faults > 0 /\ faults' = faults - 1
           /\ IF m.target = n THEN Reply(n, m, FALSE) /\ UNCHANGED restart
                              ELSE UNCHANGED acks /\ restart' = [restart EXCEPT ![n] = TRUE]
           /\ UNCHANGED <<role, follows, epoch>>
  <2>1. faults' \in Nat
    BY <1>4 DEF IInv, TypeOK
  <2>2. restart' = restart \/ restart' = [restart EXCEPT ![n] = TRUE]
    BY <1>4
  <2>3. restart' \in [Node -> BOOLEAN] /\ \A q \in Node : restart[q] => restart'[q]
    BY <2>2 DEF IInv, TypeOK
  <2> QED BY <1>1, <1>2, <1>4, <2>1, <2>3, NotStoredStep
<1>5. CASE /\ Stored(n, m)
           /\ restart' = [restart EXCEPT ![n] = TRUE]
           /\ IF m.target = n THEN Reply(n, m, TRUE) ELSE UNCHANGED acks
           /\ UNCHANGED faults
  <2>1. CASE m.target # n
    BY <1>1, <1>2, <1>5, <2>1, NewsStoredStep
  <2>2. CASE m.target = n /\ n = l
    BY <1>1, <1>2, <1>3, <1>5, <2>2, RepeatedStep
  <2>3. CASE m.target = n /\ n # l
    BY <1>1, <1>2, <1>3, <1>5, <2>3, HandoverStep
  <2> QED BY <2>1, <2>2, <2>3
<1> QED BY <1>1, <1>4, <1>5

(* One connection breaks.                                                  *)
LEMMA DisconnectStep == ASSUME IInv, NEW n \in Node, Disconnect(n) PROVE IInv'
<1> DEFINE p == conn[n]
<1>1. p \in Node
  BY DEF IInv, TypeOK, Disconnect
<1>2. job' = [job EXCEPT ![p] = IF Interrupted(p, {n}) THEN NoJob ELSE AfterClose(@, {n})]
  BY DEF Disconnect, Failed
<1>3. fenced' = [fenced EXCEPT ![p] = IF Interrupted(p, {n}) THEN intent[p] # NoIntent ELSE @]
  BY <1>1 DEF Disconnect, Failed, IInv, TypeOK
<1>4. job'[p] = IF Interrupted(p, {n}) THEN NoJob ELSE AfterClose(job[p], {n})
  BY <1>1, <1>2 DEF IInv, TypeOK
<1>5. /\ job'[p] \in Job \union {NoJob}
      /\ job'[p] # NoJob => ClosedFor(p, {n})
      /\ Interrupted(p, {n}) => job[p] # NoJob /\ job'[p] = NoJob
      /\ ~Interrupted(p, {n}) => (job[p] = NoJob <=> job'[p] = NoJob)
  BY <1>1, <1>4, ClosedJob DEF IInv
<1>6. ASSUME NEW q \in Node \ {p}, job'[q] # NoJob PROVE ClosedFor(q, {n})
  <2>1. job'[q] = job[q]
    BY <1>2, <1>6 DEF IInv, TypeOK
  <2>2. job[q].open => job[q].target # n
    BY <1>6, <2>1 DEF IInv, JobInv
  <2>3. job[q].pc = "applied" => job[q].open
    BY <1>6, <2>1 DEF IInv, JobInv
  <2> QED BY <1>6, <2>1, <2>2, <2>3 DEF ClosedFor
<1>7. \A q \in Node : NotRebooted(q)
  BY <1>1, <1>2, <1>3, <1>5 DEF NotRebooted, Disconnect, IInv, TypeOK
<1>8. job' \in [Node -> Job \union {NoJob}] /\ fenced' \in [Node -> BOOLEAN] /\ faults' \in Nat
  <2>1. faults' \in Nat
    BY DEF IInv, TypeOK, Disconnect
  <2>2. fenced' \in [Node -> BOOLEAN]
    BY <1>3 DEF IInv, TypeOK
  <2>3. job' \in [Node -> Job \union {NoJob}]
    BY <1>2, <1>4, <1>5 DEF IInv, TypeOK
  <2> QED BY <2>1, <2>2, <2>3
<1>9. /\ live' \in [Node -> {"primary", "replica"}] /\ restart' \in [Node -> BOOLEAN]
      /\ applying' \in [Node -> SUBSET Promote]
  BY DEF IInv, TypeOK, Disconnect
<1>10. Close({n}) /\ UNCHANGED <<config, intent, rows, promotions, gaveUp>>
  BY DEF Disconnect
<1> HIDE DEF p
<1> QED BY <1>5, <1>6, <1>7, <1>8, <1>9, <1>10, ClosedStep

(* A member restarts: its connections break and only what is durable       *)
(* survives.                                                               *)
LEMMA BootStep == ASSUME IInv, NEW n \in Node, Boot(n), faults' \in Nat PROVE IInv'
<1> DEFINE S == {n} \union Connected(n)
<1>1. Close(S) /\ UNCHANGED <<config, intent, rows, promotions, gaveUp>> /\ S \in SUBSET Node
  BY DEF Boot, Connected
<1>2. \A q \in Node \ {n} : job'[q] = IF Interrupted(q, S) THEN NoJob ELSE AfterClose(job[q], S)
  BY DEF Boot
<1>3. job'[n] = NoJob
  BY DEF Boot
<1>4. \A q \in Node \ {n} : /\ job'[q] \in Job \union {NoJob}
                            /\ job'[q] # NoJob => ClosedFor(q, S)
                            /\ Interrupted(q, S) => job[q] # NoJob /\ job'[q] = NoJob
                            /\ ~Interrupted(q, S) => (job[q] = NoJob <=> job'[q] = NoJob)
  BY <1>1, <1>2, ClosedJob DEF IInv
<1>5. fenced' = [q \in Node |-> IF q = n THEN FencedAtBoot(n)
                                ELSE IF Interrupted(q, S) THEN intent[q] # NoIntent ELSE fenced[q]]
  BY DEF Boot
<1>6. /\ live' = [live EXCEPT ![n] = role[n]] /\ restart' = [restart EXCEPT ![n] = FALSE]
      /\ applying' = [applying EXCEPT ![n] = {}]
      /\ job' = [q \in Node |-> job'[q]]
  BY DEF Boot
<1> HIDE DEF S
<1>7. Rebooted(n, S)
  BY <1>3, <1>5, <1>6 DEF Rebooted, IInv, TypeOK, S
<1>8. \A q \in Node \ {n} : NotRebooted(q)
  BY <1>4, <1>5, <1>6 DEF NotRebooted, IInv, TypeOK
<1>9. /\ job' \in [Node -> Job \union {NoJob}] /\ fenced' \in [Node -> BOOLEAN]
      /\ live' \in [Node -> {"primary", "replica"}] /\ restart' \in [Node -> BOOLEAN]
      /\ applying' \in [Node -> SUBSET Promote]
  BY <1>3, <1>4, <1>5, <1>6 DEF IInv, TypeOK, FencedAtBoot
<1> QED BY <1>1, <1>3, <1>4, <1>7, <1>8, <1>9, ClosedStep

(* In the beginning the first member leads and all others follow it.       *)
LEMMA InitIInv == ASSUME Init PROVE IInv
<1> USE DEF Init
<1>1. TypeOK
  BY MembersFinite, BoundsAreNat DEF TypeOK
<1>2. Connections /\ Identifiers
  BY MembersFinite DEF Connections, Identifiers
<1>3. \A p \in Node : JobInv(p) /\ IntentInv(p)
  BY DEF JobInv, IntentInv
<1>4. Handed(First) /\ Following(First) /\ Messages(First) /\ Attached(First)
  BY MembersFinite DEF Handed, Following, Messages, Attached
<1>5. Settled(First) /\ Barrier(First) /\ Withdrawable(First)
  BY MembersFinite DEF Settled, Barrier, Withdrawable
<1>6. role[First] = "primary" /\ First \in Node
  BY MembersFinite
<1> QED BY <1>1, <1>2, <1>3, <1>4, <1>5, <1>6 DEF IInv, LeaderInv

(* A step that changes nothing keeps everything.                           *)
LEMMA StutterIInv == ASSUME IInv, UNCHANGED vars PROVE IInv'
<1> USE DEF vars, config, wire
<1>1. TypeOK' /\ Connections' /\ Identifiers'
  BY DEF IInv, TypeOK, Connections, Identifiers
<1>2. \A p \in Node : JobInv(p)' /\ IntentInv(p)'
  BY DEF IInv, JobInv, IntentInv
<1>3. \A l \in Node : LeaderInv(l) => LeaderInv(l)'
  <2> TAKE l \in Node
  <2> HAVE LeaderInv(l)
  <2>1. Handed(l)' /\ Following(l)' /\ Messages(l)' /\ Attached(l)'
    BY DEF LeaderInv, Handed, Following, Messages, Attached
  <2>2. Settled(l)' /\ Barrier(l)' /\ Withdrawable(l)'
    BY DEF LeaderInv, Settled, Barrier, Withdrawable
  <2> QED BY <2>1, <2>2 DEF LeaderInv
<1> QED BY <1>1, <1>2, <1>3 DEF IInv

(* Every step keeps the inductive invariant.                               *)
LEMMA NextIInv == ASSUME IInv, [Next]_vars PROVE IInv'
<1>1. CASE UNCHANGED vars
  BY <1>1, StutterIInv
<1>2. ASSUME NEW n \in Node, PrimaryStep(n) PROVE IInv'
  BY <1>2, PrepareStep, PreparedStep, SaveIntentStep, SendPromoteStep, NotifyBystandersStep, DemoteStep,
     BystanderFencedStep, ReceiveAckStep DEF PrimaryStep
<1>3. ASSUME NEW n \in Node, Restart(n) \/ Crash(n) PROVE IInv'
  <2>1. Boot(n) /\ faults' \in Nat
    BY <1>3 DEF Restart, Crash, IInv, TypeOK
  <2> QED BY <2>1, BootStep
<1>4. ASSUME NEW n \in Node, ReplicaStep(n) PROVE IInv'
  BY <1>3, <1>4, ReplicateStep, ReceivePromoteStep, ApplyPromoteStep, AnnounceStep, FollowRedirectStep
     DEF ReplicaStep
<1>5. ASSUME NEW n \in Node,
             \/ Write(n) \/ DemoteFails(n) \/ JobTimeout(n) \/ Disconnect(n) \/ Crash(n)
             \/ \E t \in Node : BeginPromotion(n, t)
      PROVE  IInv'
  BY <1>3, <1>5, WriteStep, DemoteFailsStep, JobTimeoutStep, DisconnectStep, BeginPromotionStep
<1> QED BY <1>1, <1>2, <1>4, <1>5 DEF Next

(* The inductive invariant holds in every reachable state.                 *)
THEOREM Invariance == Spec => []IInv
BY InitIInv, NextIInv, PTL DEF Spec

(* Every variable keeps its type, and a replica always follows another     *)
(* member.                                                                 *)
THEOREM TypeCorrect == Spec => []TypeOK
<1>1. IInv => TypeOK
  BY DEF IInv
<1> QED BY <1>1, Invariance, PTL

(* A member that admits writes is the leader: every other primary has an   *)
(* intent, and with it a fence.                                            *)
LEMMA WriterLeads ==
    ASSUME IInv, NEW l \in Node, LeaderInv(l), NEW n \in Node, Writable(n)
    PROVE  n = l
BY DEF IInv, LeaderInv, Connections, Handed, IntentInv, Writable

(* runPrimaryWrite is never open on two nodes, for any number of members   *)
(* and of restarts, broken connections and late answers.                   *)
THEOREM NeverTwoWriters == Spec => []OneWriter
<1>1. IInv => OneWriter
  BY WriterLeads DEF IInv, OneWriter
<1> QED BY <1>1, Invariance, PTL

(* The barrier of waitForPreparePromoteAck loses no write: whoever admits  *)
(* writes has all rows.                                                    *)
THEOREM NoRowLeftBehind == Spec => []WriterHasAllRows
<1>1. IInv => WriterHasAllRows
  <2> SUFFICES ASSUME IInv, NEW m \in Node, NEW n \in Node, Writable(n) PROVE rows[m] <= rows[n]
    BY DEF WriterHasAllRows
  <2>1. PICK l \in Node : LeaderInv(l)
    BY DEF IInv
  <2>2. n = l
    BY <2>1, WriterLeads
  <2> QED BY <2>1, <2>2 DEF IInv, TypeOK, LeaderInv, Handed
<1> QED BY <1>1, Invariance, PTL

(* finalizePromotion's order leaves no replica without a way to a primary. *)
THEOREM NoReplicaLost == Spec => []ReplicasCanFindAPrimary
<1>1. IInv => ReplicasCanFindAPrimary
  <2> SUFFICES ASSUME IInv, NEW n \in Node, role[n] = "replica"
               PROVE  \/ role[follows[n]] = "primary"
                      \/ epoch[follows[n]] > epoch[n] /\ role[follows[follows[n]]] = "primary"
    BY DEF ReplicasCanFindAPrimary
  <2>1. PICK l \in Node : LeaderInv(l)
    BY DEF IInv
  <2> QED BY <2>1 DEF IInv, TypeOK, LeaderInv, Following
<1> QED BY <1>1, Invariance, PTL

(* A handover never makes a replica refuse the primary it looks for.       *)
THEOREM NoPrimaryOutdated == Spec => []PrimaryNeverOutdated
<1>1. IInv => PrimaryNeverOutdated
  <2> SUFFICES ASSUME IInv, NEW n \in Node, role[n] = "replica", live[follows[n]] = "primary"
               PROVE  epoch[follows[n]] >= epoch[n]
    BY DEF PrimaryNeverOutdated
  <2>1. PICK l \in Node : LeaderInv(l)
    BY DEF IInv
  <2> QED BY <2>1 DEF IInv, TypeOK, LeaderInv, Following, Handed
<1> QED BY <1>1, Invariance, PTL

=============================================================================
