------------------------------ MODULE HaRelay ------------------------------
(***************************************************************************)
(* The session relay of an HA cluster: writes that any node may make       *)
(* (sessions, bans, changes of a user made while logging in) are committed *)
(* on the replica, queued in session_relay_outbox, sent to the primary one *)
(* at a time, and come back with the changelog                             *)
(* (src/src/services/ha-mesh-service.ts, src/src/db/repository.ts).        *)
(*                                                                         *)
(* Two kinds of writes stand for all: the insertion of a row of its own    *)
(* (a session) and a patch of one field of the one user every node knows.  *)
(* A role changes hands only to a replica that has the whole changelog;    *)
(* what a failover loses is the subject of HaChangelog.                    *)
(***************************************************************************)
EXTENDS Integers, FiniteSets, Sequences, Functions

CONSTANTS
    Node,           \* the members
    Sqlite,         \* the members whose database is SQLite
    First,          \* the first primary
    Gone,           \* no such row in the table of users
    NoSnapshot, NoRelay,
    MaxWrites,      \* bound: relayed writes
    MaxTransit,     \* bound: relays, answers and drains under way, of a node
    MaxAdmin,       \* bound: writes of the primary itself
    MaxFaults,      \* bound: connections that break, restarts, failing statements
    MaxPromotions   \* bound: changes of the primary

ASSUME MembersFinite == IsFiniteSet(Node) /\ Sqlite \subseteq Node /\ First \in Node
ASSUME BoundsAreNat == {MaxWrites, MaxTransit, MaxAdmin, MaxFaults, MaxPromotions} \subseteq Nat

Id == 1..MaxWrites
RelayOp == {"insert", "patch"}
Write == [id : Id, op : RelayOp]

VARIABLES
    primary,       \* the node whose role is primary
    booting,       \* it has not finished start() yet
    db,            \* the replicated tables: sessions, the user, relay watermarks
    log,           \* replication_changelog, by sequence number
    base,          \* rows up to this one are no longer in the primary's table
    cursor, bootstrapped,  \* replication_cursor
    nextId,        \* the auto-increment counter of session_relay_outbox
    open,          \* transactions that have taken an id and are not committed
    outbox,        \* session_relay_outbox
    conn,          \* state: down, syncing or connected
    snap,          \* a snapshot read at the primary and not yet reconciled
    drains,        \* drainSessionRelayOutbox past its await: the row each has read
    inFlight,      \* relayInFlightId, 0 for null
    late,          \* RELAY_ACK_TIMEOUT_MS has passed since relayInFlightSentAt
    toPrimary, toReplica,  \* messages of the current connection
    handling,      \* the relay at the head of primaryMessageQueue
    writes, adminWrites, faults, promotions,
    accepted,      \* history: relays applied by a primary, in order
    strayed        \* history: nodes whose tables missed an overwrite or lost a relay,
                   \* and those that follow such a node

tables == <<db, log, base, cursor, bootstrapped>>
queue == <<nextId, open, outbox>>
channel == <<drains, inFlight, late, toPrimary>>
bounds == <<writes, adminWrites, faults, promotions>>
history == <<accepted, strayed>>
vars == <<primary, booting, tables, queue, conn, snap, channel, toReplica, handling, bounds, history>>

Key == Node \X Id
ASSUME GoneIsNoRow == \A row \in SUBSET Key : row # Gone

Tables == [sessions : SUBSET Key, user : (SUBSET Key) \union {Gone}, wm : [Node -> Nat]]
Event == [type : {"relay"}, by : Node, write : Write, row : (SUBSET Key) \union {Gone}]
            \union [type : {"user"}, row : (SUBSET Key) \union {Gone}]

TypeOK ==
    /\ primary \in Node /\ booting \in BOOLEAN
    /\ db \in [Node -> Tables]
    /\ log \in Seq(Event) /\ base \in 0..Len(log)
    /\ cursor \in [Node -> 0..Len(log)] /\ bootstrapped \in [Node -> BOOLEAN]
    /\ nextId \in [Node -> 0..MaxWrites]
    /\ open \in [Node -> SUBSET Write] /\ outbox \in [Node -> SUBSET Write]
    /\ conn \in [Node -> {"down", "syncing", "connected"}] /\ conn[primary] = "down"
    /\ snap \in [Node -> [tables : Tables, seq : 0..Len(log)] \union {NoSnapshot}]
    /\ drains \in [Node -> SUBSET Write] /\ inFlight \in [Node -> 0..MaxWrites]
    /\ late \in [Node -> BOOLEAN]
    /\ toPrimary \in [Node -> Seq(Write)]
    /\ toReplica \in [Node -> Seq([type : {"relay_ack", "relay_reject"}, id : Id])]
    /\ handling \in [by : Node, write : Write, live : BOOLEAN] \union {NoRelay}
    /\ writes \in Nat /\ adminWrites \in Nat /\ faults \in Nat /\ promotions \in Nat
    /\ accepted \in [Node -> Seq(Id)] /\ strayed \subseteq Node

(* Every node holds the same tables and has caught up.                     *)
Init ==
    /\ primary = First /\ booting = FALSE
    /\ db = [n \in Node |-> [sessions |-> {}, user |-> {}, wm |-> [m \in Node |-> 0]]]
    /\ log = <<>> /\ base = 0
    /\ cursor = [n \in Node |-> 0] /\ bootstrapped = [n \in Node |-> n # primary]
    /\ nextId = [n \in Node |-> 0]
    /\ open = [n \in Node |-> {}] /\ outbox = [n \in Node |-> {}]
    /\ conn = [n \in Node |-> "down"] /\ snap = [n \in Node |-> NoSnapshot]
    /\ drains = [n \in Node |-> {}] /\ inFlight = [n \in Node |-> 0]
    /\ late = [n \in Node |-> FALSE]
    /\ toPrimary = [n \in Node |-> <<>>] /\ toReplica = [n \in Node |-> <<>>]
    /\ handling = NoRelay
    /\ writes = MaxWrites /\ adminWrites = MaxAdmin
    /\ faults = MaxFaults /\ promotions = MaxPromotions
    /\ accepted = [n \in Node |-> <<>>] /\ strayed = {}

Replicas == Node \ {primary}

(***************************************************************************)
(* Changes of the tables                                                   *)
(***************************************************************************)

(* applyMultiWriterMutation: a patch of a missing user throws.             *)
Applicable(d, w) == w.op = "patch" => d.user # Gone

Applied(d, by, w) ==
    IF w.op = "insert" THEN [d EXCEPT !.sessions = @ \union {<<by, w.id>>}]
                       ELSE [d EXCEPT !.user = @ \union {<<by, w.id>>}]

(* Faulty variant: an event of the node itself is ignored altogether.      *)
EchoIgnored(n, d, e) ==
    CASE e.type = "user" -> [d EXCEPT !.user = e.row]
      [] e.type = "relay" /\ e.by = n -> d
      [] e.type = "relay" /\ e.by # n /\ e.write.op = "insert" ->
            [Applied(d, e.by, e.write) EXCEPT !.wm[e.by] = e.write.id]
      [] OTHER -> [d EXCEPT !.user = e.row, !.wm[e.by] = e.write.id]

(* applyChangelogRow: an event of the node itself only moves its watermark;*)
(* a patch travels as the whole row it left at the primary.                *)
AfterRow(n, d, e) ==
    CASE e.type = "user" -> [d EXCEPT !.user = e.row]
      [] e.type = "relay" /\ e.by = n -> [d EXCEPT !.wm[n] = e.write.id]
      [] e.type = "relay" /\ e.by # n /\ e.write.op = "insert" ->
            [Applied(d, e.by, e.write) EXCEPT !.wm[e.by] = e.write.id]
      [] OTHER -> [d EXCEPT !.user = e.row, !.wm[e.by] = e.write.id]

(* The outbox rows a snapshot with tables d does not include.              *)
NotIn(n, d) == {w \in outbox[n] : w.id > d.wm[n]}

(* Faulty variant: the snapshot stands as it came.                         *)
SnapshotOnly(n, d) == d

(* reapplyPendingSessionRelays, for applicable rows                        *)
Reapplied(n, d) ==
    [d EXCEPT
        !.sessions = @ \union {<<n, w.id>> : w \in {w \in NotIn(n, d) : w.op = "insert"}},
        !.user = IF @ = Gone THEN Gone
                 ELSE @ \union {<<n, w.id>> : w \in {w \in NotIn(n, d) : w.op = "patch"}}]

(* A patch that n has made and that the row e brings does not have yet.    *)
Overwrites(n, e) ==
    /\ \/ e.type = "user"
       \/ e.by # n /\ e.write.op = "patch"
    /\ e.row # Gone /\ db[n].user # Gone
    /\ \E key \in db[n].user \ e.row : key[1] = n

(***************************************************************************)
(* A write on a replica                                                    *)
(***************************************************************************)

NextWrite(n, op) == [id |-> nextId[n] + 1, op |-> op]

(* The auto-increment counter gives the next id.                           *)
TakeId(n) ==
    /\ writes > 0 /\ writes' = writes - 1
    /\ nextId' = [nextId EXCEPT ![n] = @ + 1]

(* replicateSessionChange on a replica commits with the local change.      *)
Commit(n, w) ==
    /\ Applicable(db[n], w)
    /\ outbox' = [outbox EXCEPT ![n] = @ \union {w}]
    /\ db' = [db EXCEPT ![n] = Applied(@, n, w)]

(* SQLite runs one writing transaction at a time: one step.                *)
WriteSerially(n, op) ==
    /\ n \in Replicas \intersect Sqlite
    /\ TakeId(n)
    /\ Commit(n, NextWrite(n, op))
    /\ UNCHANGED <<primary, booting, log, base, cursor, bootstrapped, open, conn, snap, channel, toReplica,
                   handling, adminWrites, faults, promotions, history>>

(* In the other databases the INSERT into session_relay_outbox takes its   *)
(* id, and transactions commit in any order or roll back.                  *)
BeginWrite(n, op) ==
    /\ n \in Replicas \ Sqlite
    /\ Applicable(db[n], NextWrite(n, op))
    /\ TakeId(n)
    /\ open' = [open EXCEPT ![n] = @ \union {NextWrite(n, op)}]
    /\ UNCHANGED <<primary, booting, tables, outbox, conn, snap, channel, toReplica, handling, adminWrites,
                   faults, promotions, history>>

CommitWrite(n) ==
    /\ \E w \in open[n] : Commit(n, w) /\ open' = [open EXCEPT ![n] = @ \ {w}]
    /\ UNCHANGED <<primary, booting, log, base, cursor, bootstrapped, nextId, conn, snap, channel,
                   toReplica, handling, bounds, history>>

RollbackWrite(n) ==
    /\ \E w \in open[n] : open' = [open EXCEPT ![n] = @ \ {w}]
    /\ UNCHANGED <<primary, booting, tables, nextId, outbox, conn, snap, channel, toReplica, handling,
                   bounds, history>>

(***************************************************************************)
(* Sending: drainSessionRelayOutbox                                        *)
(***************************************************************************)

(* pendingSessionRelayRows(1)                                              *)
FirstRow(n, w) == w \in outbox[n] /\ \A v \in outbox[n] : w.id <= v.id

(* Faulty variant: a relay without an answer is never sent again.          *)
DrainOnce(n) ==
    /\ conn[n] = "connected" /\ inFlight[n] = 0
    /\ Cardinality(drains[n]) < MaxTransit
    /\ \E w \in outbox[n] \ drains[n] :
          FirstRow(n, w) /\ drains' = [drains EXCEPT ![n] = @ \union {w}]
    /\ UNCHANGED <<primary, booting, tables, queue, conn, snap, inFlight, late, toPrimary, toReplica,
                   handling, bounds, history>>

(* Called by the interval timer, after an acknowledgement and by those who *)
(* wait for one; up to the await of the first row.                         *)
DrainRead(n) ==
    /\ conn[n] = "connected"
    /\ inFlight[n] = 0 \/ late[n]
    /\ Cardinality(drains[n]) < MaxTransit
    /\ \E w \in outbox[n] \ drains[n] :
          FirstRow(n, w) /\ drains' = [drains EXCEPT ![n] = @ \union {w}]
    /\ UNCHANGED <<primary, booting, tables, queue, conn, snap, inFlight, late, toPrimary, toReplica,
                   handling, bounds, history>>

(* After the await only the socket is looked at, and it may be a new one:  *)
(* the primary drops a relay that comes before the announcement of its     *)
(* node (nodes.get).                                                       *)
DrainSend(n) ==
    /\ conn[n] # "down" /\ Len(toPrimary[n]) < MaxTransit
    /\ \E w \in drains[n] :
          /\ drains' = [drains EXCEPT ![n] = @ \ {w}]
          /\ inFlight' = [inFlight EXCEPT ![n] = w.id]
          /\ late' = [late EXCEPT ![n] = FALSE]
          /\ toPrimary' = IF conn[n] = "connected" THEN [toPrimary EXCEPT ![n] = Append(@, w)]
                                                   ELSE toPrimary
    /\ UNCHANGED <<primary, booting, tables, queue, conn, snap, toReplica, handling, bounds, history>>

DrainDropped(n) ==
    /\ conn[n] = "down"
    /\ \E w \in drains[n] : drains' = [drains EXCEPT ![n] = @ \ {w}]
    /\ UNCHANGED <<primary, booting, tables, queue, conn, snap, inFlight, late, toPrimary, toReplica,
                   handling, bounds, history>>

AckTimeout(n) ==
    /\ inFlight[n] # 0 /\ ~late[n]
    /\ late' = [late EXCEPT ![n] = TRUE]
    /\ UNCHANGED <<primary, booting, tables, queue, conn, snap, drains, inFlight, toPrimary, toReplica,
                   handling, bounds, history>>

(***************************************************************************)
(* The primary                                                             *)
(***************************************************************************)

(* The next relay of n reaches the head of primaryMessageQueue.            *)
TakeRelay(n) ==
    /\ handling = NoRelay /\ toPrimary[n] # <<>> /\ Len(toReplica[n]) < MaxTransit
    /\ toPrimary' = [toPrimary EXCEPT ![n] = Tail(@)]
    /\ handling' = [by |-> n, write |-> Head(toPrimary[n]), live |-> TRUE]
    /\ UNCHANGED <<primary, booting, tables, queue, conn, snap, drains, inFlight, late, toReplica,
                   bounds, history>>

(* Faulty variant: no watermark.                                           *)
NeverSeen(p, by, w) == FALSE

(* applyReplicatedSessionRelay: relayId <= lastRelayId                     *)
Seen(p, by, w) == w.id <= db[p].wm[by]

(* The transaction of applyReplicatedSessionRelay.                         *)
AcceptRelay(p, by, w) ==
    LET d == [Applied(db[p], by, w) EXCEPT !.wm[by] = w.id]
    IN  /\ db' = [db EXCEPT ![p] = d]
        /\ log' = Append(log, [type |-> "relay", by |-> by, write |-> w, row |-> d.user])
        /\ accepted' = [accepted EXCEPT ![by] = Append(@, w.id)]

Answer(type) ==
    toReplica' = IF handling.live
                 THEN [toReplica EXCEPT ![handling.by] = Append(@, [type |-> type, id |-> handling.write.id])]
                 ELSE toReplica

(* handlePrimaryMessage: a relay is acknowledged once it is applied or has *)
(* been before, and rejected when it can never be.                         *)
HandleRelay ==
    /\ handling # NoRelay
    /\ handling' = NoRelay
    /\ \/ /\ Seen(primary, handling.by, handling.write)
          /\ Answer("relay_ack")
          /\ UNCHANGED <<db, log, accepted>>
       \/ /\ ~Seen(primary, handling.by, handling.write)
          /\ Applicable(db[primary], handling.write)
          /\ AcceptRelay(primary, handling.by, handling.write)
          /\ Answer("relay_ack")
       \/ /\ ~Seen(primary, handling.by, handling.write)
          /\ ~Applicable(db[primary], handling.write)
          /\ Answer("relay_reject")
          /\ UNCHANGED <<db, log, accepted>>
    /\ UNCHANGED <<primary, booting, base, cursor, bootstrapped, queue, conn, snap, channel, bounds, strayed>>

(* A fence or a transient database error: no answer, the replica retries.  *)
RelayPostponed ==
    /\ handling # NoRelay /\ faults > 0
    /\ handling' = NoRelay /\ faults' = faults - 1
    /\ UNCHANGED <<primary, booting, tables, queue, conn, snap, channel, toReplica, writes, adminWrites,
                   promotions, history>>

(* A write of the primary itself: the user is saved or deleted.            *)
AdminWrite(row) ==
    /\ ~booting /\ adminWrites > 0 /\ db[primary].user # Gone
    /\ db' = [db EXCEPT ![primary].user = row]
    /\ log' = Append(log, [type |-> "user", row |-> row])
    /\ adminWrites' = adminWrites - 1
    /\ UNCHANGED <<primary, booting, base, cursor, bootstrapped, queue, conn, snap, channel, toReplica,
                   handling, writes, faults, promotions, history>>

(* The changelog is pruned.                                                *)
Prune ==
    /\ base < Len(log) /\ faults > 0
    /\ base' = Len(log) /\ faults' = faults - 1
    /\ UNCHANGED <<primary, booting, db, log, cursor, bootstrapped, queue, conn, snap, channel, toReplica,
                   handling, writes, adminWrites, promotions, history>>

(***************************************************************************)
(* A replica                                                               *)
(***************************************************************************)

Busy(n) == snap[n] # NoSnapshot

(* needsBootstrap, or a gap that runCatchUp finds                          *)
NeedsSnapshot(n) == ~bootstrapped[n] \/ cursor[n] < base

(* connectToPrimary.  A snapshot of the connection before may be under way *)
(* (bootstrapInFlight): the new one then waits for it.                     *)
Connect(n) ==
    /\ n # primary /\ ~booting /\ conn[n] = "down"
    /\ conn' = [conn EXCEPT ![n] = "syncing"]
    /\ UNCHANGED <<primary, booting, tables, queue, snap, channel, toReplica, handling, bounds, history>>

(* performBootstrapSnapshot: the tables of the primary at one moment ...   *)
FetchSnapshot(n) ==
    /\ conn[n] # "down" /\ ~Busy(n) /\ NeedsSnapshot(n)
    /\ snap' = [snap EXCEPT ![n] = [tables |-> db[primary], seq |-> Len(log)]]
    /\ UNCHANGED <<primary, booting, tables, queue, conn, channel, toReplica, handling, bounds, history>>

Closed(n) ==
    /\ conn' = [conn EXCEPT ![n] = "down"]
    /\ inFlight' = [inFlight EXCEPT ![n] = 0]
    /\ late' = [late EXCEPT ![n] = FALSE]
    /\ toPrimary' = [toPrimary EXCEPT ![n] = <<>>]
    /\ toReplica' = [toReplica EXCEPT ![n] = <<>>]
    /\ handling' = IF handling # NoRelay /\ handling.by = n THEN [handling EXCEPT !.live = FALSE]
                                                            ELSE handling

(* ... reconciled at a later one, with what is in the outbox by then.      *)
ReconcileSnapshot(n) ==
    LET d == snap[n].tables
    IN  /\ Busy(n)
        /\ snap' = [snap EXCEPT ![n] = NoSnapshot]
        /\ \/ /\ \A w \in NotIn(n, d) : Applicable(d, w)
              /\ db' = [db EXCEPT ![n] = Reapplied(n, d)]
              /\ cursor' = [cursor EXCEPT ![n] = snap[n].seq]
              /\ bootstrapped' = [bootstrapped EXCEPT ![n] = TRUE]
              /\ strayed' = strayed \ {n}
              /\ UNCHANGED <<conn, inFlight, late, toPrimary, toReplica, handling>>
           \/ /\ \E w \in NotIn(n, d) : ~Applicable(d, w)
              /\ Closed(n)
              /\ UNCHANGED <<db, cursor, bootstrapped, strayed>>
        /\ UNCHANGED <<primary, booting, log, base, queue, drains, bounds, accepted>>

(* applyRow of the next changelog row, from a page or from the stream      *)
ApplyRow(n) ==
    LET e == log[cursor[n] + 1]
    IN  /\ conn[n] # "down" /\ ~Busy(n) /\ ~NeedsSnapshot(n) /\ cursor[n] < Len(log)
        /\ db' = [db EXCEPT ![n] = AfterRow(n, @, e)]
        /\ cursor' = [cursor EXCEPT ![n] = @ + 1]
        /\ strayed' = IF Overwrites(n, e) THEN strayed \union {n} ELSE strayed
        /\ UNCHANGED <<primary, booting, log, base, bootstrapped, queue, conn, snap, channel, toReplica,
                       handling, bounds, accepted>>

(* The end of proceedAfterKeyVerified: announce.                           *)
BecomeConnected(n) ==
    /\ conn[n] = "syncing" /\ ~Busy(n) /\ ~NeedsSnapshot(n) /\ cursor[n] = Len(log)
    /\ conn' = [conn EXCEPT ![n] = "connected"]
    /\ UNCHANGED <<primary, booting, tables, queue, snap, channel, toReplica, handling, bounds, history>>

Without(n, id) == {w \in outbox[n] : w.id # id}

(* relay_ack.  When the row cannot be deleted it is sent again.            *)
HandleAck(n) ==
    LET id == Head(toReplica[n]).id
        mine == inFlight[n] = id
    IN  /\ conn[n] # "down" /\ ~Busy(n) /\ toReplica[n] # <<>> /\ Head(toReplica[n]).type = "relay_ack"
        /\ toReplica' = [toReplica EXCEPT ![n] = Tail(@)]
        /\ \/ /\ outbox' = [outbox EXCEPT ![n] = Without(n, id)]
              /\ inFlight' = [inFlight EXCEPT ![n] = IF mine THEN 0 ELSE @]
              /\ late' = [late EXCEPT ![n] = IF mine THEN FALSE ELSE @]
              /\ strayed' = IF id \in Range(accepted[n]) THEN strayed ELSE strayed \union {n}
              /\ UNCHANGED faults
           \/ /\ faults > 0 /\ faults' = faults - 1
              /\ late' = [late EXCEPT ![n] = inFlight[n] # 0]
              /\ UNCHANGED <<outbox, inFlight, strayed>>
        /\ UNCHANGED <<primary, booting, tables, nextId, open, conn, snap, drains, toPrimary, handling,
                       writes, adminWrites, promotions, accepted>>

(* relay_reject: the row goes, the next connection starts with a snapshot. *)
HandleReject(n) ==
    /\ conn[n] # "down" /\ ~Busy(n) /\ toReplica[n] # <<>> /\ Head(toReplica[n]).type = "relay_reject"
    /\ \/ /\ outbox' = [outbox EXCEPT ![n] = Without(n, Head(toReplica[n]).id)]
          /\ UNCHANGED faults
       \/ /\ faults > 0 /\ faults' = faults - 1
          /\ UNCHANGED outbox
    /\ bootstrapped' = [bootstrapped EXCEPT ![n] = FALSE]
    /\ Closed(n)
    /\ UNCHANGED <<primary, booting, db, log, base, cursor, nextId, open, snap, drains, writes, adminWrites,
                   promotions, history>>

(***************************************************************************)
(* Faults and changes of role                                              *)
(***************************************************************************)

(* handleReplicaClose                                                      *)
Disconnect(n) ==
    /\ conn[n] # "down" /\ faults > 0
    /\ faults' = faults - 1
    /\ Closed(n)
    /\ UNCHANGED <<primary, booting, tables, queue, snap, drains, writes, adminWrites, promotions, history>>

(* The process of a replica ends and starts again.                         *)
RestartReplica(n) ==
    /\ n # primary /\ faults > 0
    /\ faults' = faults - 1
    /\ open' = [open EXCEPT ![n] = {}]
    /\ drains' = [drains EXCEPT ![n] = {}]
    /\ snap' = [snap EXCEPT ![n] = NoSnapshot]
    /\ Closed(n)
    /\ UNCHANGED <<primary, booting, tables, nextId, outbox, writes, adminWrites, promotions, history>>

(* n, which has the whole changelog, starts as the primary; every other    *)
(* node restarts as its replica, the former primary with an empty outbox   *)
(* and in need of a snapshot.  bumpChangelogSequenceTo leaves the changelog*)
(* of n empty up to its cursor.  From then on the tables of n are the ones *)
(* to have, whatever they missed.                                          *)
Promote(n) ==
    /\ n # primary /\ promotions > 0
    /\ bootstrapped[n] /\ cursor[n] = Len(log) /\ handling = NoRelay
    /\ primary' = n /\ booting' = TRUE
    /\ promotions' = promotions - 1
    /\ base' = Len(log)
    /\ bootstrapped' = [bootstrapped EXCEPT ![primary] = FALSE]
    /\ outbox' = [outbox EXCEPT ![primary] = {}]
    /\ open' = [m \in Node |-> {}]
    /\ drains' = [m \in Node |-> {}]
    /\ snap' = [m \in Node |-> NoSnapshot]
    /\ conn' = [m \in Node |-> "down"]
    /\ inFlight' = [m \in Node |-> 0] /\ late' = [m \in Node |-> FALSE]
    /\ toPrimary' = [m \in Node |-> <<>>] /\ toReplica' = [m \in Node |-> <<>>]
    /\ strayed' = IF n \in strayed THEN Node ELSE strayed
    /\ UNCHANGED <<db, log, cursor, nextId, handling, writes, adminWrites, faults, accepted>>

(* adoptPendingSessionRelaysAsPrimary, one row: apply and delete, with a   *)
(* crash in between when the row stays.                                    *)
AdoptRow ==
    /\ booting
    /\ \E w \in outbox[primary] :
          /\ FirstRow(primary, w)
          /\ IF Seen(primary, primary, w) THEN UNCHANGED <<db, log, accepted>>
             ELSE Applicable(db[primary], w) /\ AcceptRelay(primary, primary, w)
          /\ strayed' = IF w.id \in Range(accepted'[primary]) THEN strayed ELSE Node
          /\ \/ outbox' = [outbox EXCEPT ![primary] = @ \ {w}] /\ UNCHANGED faults
             \/ faults > 0 /\ faults' = faults - 1 /\ UNCHANGED outbox
    /\ UNCHANGED <<primary, booting, base, cursor, bootstrapped, nextId, open, conn, snap, channel, toReplica,
                   handling, writes, adminWrites, promotions>>

FinishBoot ==
    /\ booting /\ outbox[primary] = {}
    /\ booting' = FALSE
    /\ UNCHANGED <<primary, tables, queue, conn, snap, channel, toReplica, handling, bounds, history>>

ReplicaStep(n) ==
    \/ Connect(n) \/ FetchSnapshot(n) \/ ReconcileSnapshot(n) \/ ApplyRow(n) \/ BecomeConnected(n)
    \/ DrainRead(n) \/ DrainSend(n) \/ DrainDropped(n) \/ AckTimeout(n)
    \/ HandleAck(n) \/ HandleReject(n)

Next ==
    \/ \E n \in Node :
          \/ \E op \in RelayOp : WriteSerially(n, op) \/ BeginWrite(n, op)
          \/ CommitWrite(n) \/ RollbackWrite(n)
          \/ ReplicaStep(n) \/ TakeRelay(n)
          \/ Disconnect(n) \/ RestartReplica(n) \/ Promote(n)
    \/ HandleRelay \/ RelayPostponed
    \/ AdminWrite(Gone) \/ AdminWrite(db[primary].user) \/ Prune
    \/ AdoptRow \/ FinishBoot

Spec == Init /\ [][Next]_vars

(* The timers (drain interval, acknowledgement timeout, reconnection), the *)
(* message queues and the boot of a primary go on.                         *)
Fairness ==
    /\ \A n \in Node :
          /\ WF_vars(Connect(n)) /\ WF_vars(FetchSnapshot(n)) /\ WF_vars(ReconcileSnapshot(n))
          /\ WF_vars(ApplyRow(n)) /\ WF_vars(BecomeConnected(n))
          /\ WF_vars(DrainRead(n)) /\ WF_vars(DrainSend(n)) /\ WF_vars(AckTimeout(n))
          /\ WF_vars(HandleAck(n)) /\ WF_vars(HandleReject(n)) /\ SF_vars(TakeRelay(n))
    /\ WF_vars(HandleRelay) /\ WF_vars(AdoptRow) /\ WF_vars(FinishBoot)

FairSpec == Spec /\ Fairness

(***************************************************************************)
(* Properties                                                              *)
(***************************************************************************)

(* The relay implements its promise: however often a row is sent, resumed, *)
(* acknowledged late or adopted, the cluster accepts the writes of a node  *)
(* once and in order (drainSessionRelayOutbox, applyReplicatedSessionRelay,*)
(* adoptPendingSessionRelaysAsPrimary), and loses only what a new primary  *)
(* had not adopted when it was replaced (adoptHaDiscoveredPrimary).        *)
Channel == INSTANCE RelayChannel WITH
    leader <- primary,
    open <- [n \in Node |-> {w.id : w \in outbox[n]} \ Range(accepted[n])],
    accepted <- accepted,
    Ordered <- Sqlite

ChannelSpec == Channel!Spec

(* A write of n that was committed after one with a larger id was accepted *)
Overtaken(n, w) ==
    w.id \notin Range(accepted[n]) /\ \E i \in Range(accepted[n]) : i > w.id

(* A replica never loses sight of its own session while the relay is on    *)
(* its way or after a primary has accepted it: snapshots read before that  *)
(* and reconciled after it, echoes and restarts included                   *)
(* (reapplyPendingSessionRelays, applyChangelogRow).                       *)
OwnSessionsVisible ==
    \A n \in Replicas :
        /\ \A w \in outbox[n] : w.op = "insert" /\ ~Overtaken(n, w) => <<n, w.id>> \in db[n].sessions
        /\ \A s \in db[primary].sessions : s[1] = n /\ s[2] \in Range(accepted[n]) => s \in db[n].sessions

(* Nothing of n is on its way to the primary or from it.                   *)
Quiet(n) ==
    /\ n # primary /\ conn[n] = "connected" /\ ~Busy(n) /\ cursor[n] = Len(log)
    /\ outbox[n] = {}

(* A replica with nothing under way holds the tables of its primary, unless*)
(* the row of a user it had patched came back without the patch, or a relay*)
(* of its own was passed over (applyChangelogRow, and the snapshot that    *)
(* follows a rejection).                                                   *)
QuietReplicasAgree ==
    \A n \in Node : Quiet(n) /\ n \notin strayed => db[n] = db[primary]

(* A patch of n waits for a user that the primary has deleted.             *)
Blocked(n) == \E w \in outbox[n] : w.op = "patch" /\ db[primary].user = Gone

(* Every relay is acknowledged or rejected in the end, however the drains, *)
(* the timeouts and the reconnections interleave; only a patch of a user   *)
(* that is gone may keep its node from reconnecting (ReconcileSnapshot) or *)
(* from starting as the primary (AdoptRow).                                *)
RelaysSettle ==
    \A n \in Node : outbox[n] # {} ~> (outbox[n] = {} \/ Blocked(n) \/ Blocked(primary))
=============================================================================
