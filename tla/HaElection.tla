----------------------------- MODULE HaElection -----------------------------
(***************************************************************************)
(* Automatic failover of an HA cluster: terms, votes, activation of a      *)
(* winner, discovery and adoption of a primary, fences and restarts        *)
(* (src/src/services/ha-election-service.ts, the connection half of        *)
(* src/src/services/ha-mesh-service.ts and the conditional updates of the  *)
(* ha_cluster_config row in src/src/db/repository.ts).                     *)
(*                                                                         *)
(* Each node keeps a durable row (db...) and a copy of it in memory        *)
(* (config.ha).  The two differ while a handler waits for the database and *)
(* after a role change until the scheduled restart.  A step runs from one  *)
(* await to the next, a row update together with the code that follows it. *)
(*                                                                         *)
(* Node is the registered membership, which does not change here; a URL is *)
(* the node it reaches.  Timers fire at any time.  Whatever the network or *)
(* the machines do wrong consumes one of the faults.                       *)
(***************************************************************************)
EXTENDS Integers, FiniteSets

CONSTANTS
    Node,          \* registered, activated members (at least the floor of three)
    NoNode,        \* SQL NULL and JavaScript null, where a node id or URL is meant
    MaxCursor,     \* bound: replication cursors range over 0..MaxCursor
    MaxCampaigns,  \* bound: campaigns, and so terms
    MaxFaults      \* bound: crashes, broken connections and lost messages

ASSUME MembersFinite == IsFiniteSet(Node) /\ NoNode \notin Node
ASSUME BoundsAreNat == MaxCampaigns \in Nat /\ MaxCursor \in Nat /\ MaxFaults \in Nat

VARIABLES
    \* the row of ha_cluster_config and the pinned certificate file
    dbRole, dbPrimary, dbEpoch, votedTerm, votedFor, dbFenced, pinned,
    cursor,        \* sequence number of the newest row the node holds
    bootstrapped,  \* replication_cursor.bootstrapped
    \* config.ha
    role, primary, epoch, fenced, quorumFenced,
    \* HaMeshService
    proc,        \* "up", "restarting" (a restart is scheduled) or "down"
    link,        \* a replica's connection state ("mismatch": epoch_mismatch)
    handshake,   \* a hello being handled (step "none": no), and its sender
    \* HaElectionService
    phase,       \* how far its campaign is: campaigningTerm is set unless idle
    term,        \* the term it proposes
    expected,    \* expectedPrimaryUrl
    abandoned,   \* abandonCampaign was called meanwhile
    reconnected, \* the connectivity generation has changed meanwhile
    waiting, granted, higher,  \* votes outstanding, votes counted, newer terms reported
    requests,    \* vote requests on their way or being handled
    announces,   \* announce-primary requests on their way
    \* the environment, and the history the properties speak of
    faults, campaigns, votes, elected

row == <<dbRole, dbPrimary, dbEpoch, votedTerm, votedFor, dbFenced>>
memory == <<role, primary, epoch, fenced, quorumFenced>>
stored == <<pinned, cursor, bootstrapped>>
mesh == <<proc, link, handshake>>
poll == <<waiting, granted, higher>>
campaign == <<phase, term, expected, abandoned, reconnected, poll>>
messages == <<requests, announces>>
history == <<votes, elected>>
bounds == <<faults, campaigns>>
vars == <<row, stored, memory, mesh, campaign, messages, bounds, history>>

NodeOrNull == Node \union {NoNode}

Connected(p) == [step |-> "none", from |-> p, epoch |-> 0]

NoHello == Connected(NoNode)

Hello == [step : {"none", "persist", "verify"}, from : NodeOrNull, epoch : Nat]

Request == [from : Node, to : Node, term : Nat, cursor : Nat, stage : {"sent", "checked", "adopted"}]

Announce == [to : Node, node : Node, epoch : Nat]

Vote == [voter : Node, term : Nat, for : Node]

Winner == [term : Nat, node : Node]

RowType ==
    /\ dbRole \in [Node -> {"primary", "replica"}]
    /\ dbPrimary \in [Node -> NodeOrNull]
    /\ \A n \in Node : dbRole[n] = "replica" => dbPrimary[n] # NoNode
    /\ dbEpoch \in [Node -> Nat]
    /\ votedTerm \in [Node -> Nat]
    /\ votedFor \in [Node -> NodeOrNull]
    /\ dbFenced \in [Node -> BOOLEAN]

StoredType ==
    /\ pinned \in [Node -> BOOLEAN]
    /\ cursor \in [Node -> Nat]
    /\ bootstrapped \in [Node -> BOOLEAN]

MemoryType ==
    /\ role \in [Node -> {"primary", "replica"}]
    /\ primary \in [Node -> NodeOrNull]
    /\ \A n \in Node : role[n] = "replica" => primary[n] # NoNode
    /\ epoch \in [Node -> Nat]
    /\ fenced \in [Node -> BOOLEAN]
    /\ quorumFenced \in [Node -> BOOLEAN]

MeshType ==
    /\ proc \in [Node -> {"up", "restarting", "down"}]
    /\ link \in [Node -> {"unknown", "disconnected", "mismatch", "connected"}]
    /\ handshake \in [Node -> Hello]
    /\ \A n \in Node : handshake[n].step # "none" => handshake[n].from # NoNode

CampaignType ==
    /\ phase \in [Node -> {"idle", "candidate", "voted", "voting", "activating", "won", "notified"}]
    /\ term \in [Node -> Nat]
    /\ expected \in [Node -> NodeOrNull]
    /\ abandoned \in [Node -> BOOLEAN]
    /\ reconnected \in [Node -> BOOLEAN]
    /\ waiting \in [Node -> SUBSET Node]
    /\ granted \in [Node -> SUBSET Node]
    /\ higher \in [Node -> SUBSET Nat]

MessageType == requests \subseteq Request /\ announces \subseteq Announce

HistoryType == votes \subseteq Vote /\ elected \subseteq Winner

TypeOK ==
    /\ RowType /\ StoredType /\ MemoryType /\ MeshType /\ CampaignType /\ MessageType /\ HistoryType
    /\ faults \in Nat /\ campaigns \in Nat

(* A healthy cluster: every other member is connected to one primary.      *)
Init ==
    \E p \in Node :
        /\ dbRole = [n \in Node |-> IF n = p THEN "primary" ELSE "replica"]
        /\ dbPrimary = [n \in Node |-> IF n = p THEN NoNode ELSE p]
        /\ dbEpoch = [n \in Node |-> 0]
        /\ votedTerm = [n \in Node |-> 0]
        /\ votedFor = [n \in Node |-> NoNode]
        /\ dbFenced = [n \in Node |-> FALSE]
        /\ pinned = [n \in Node |-> n # p]
        /\ role = dbRole /\ primary = dbPrimary /\ epoch = dbEpoch /\ fenced = dbFenced
        /\ quorumFenced = [n \in Node |-> FALSE]
        /\ proc = [n \in Node |-> "up"]
        /\ link = [n \in Node |-> IF n = p THEN "unknown" ELSE "connected"]
        /\ handshake = [n \in Node |-> IF n = p THEN NoHello ELSE Connected(p)]
        /\ cursor \in {c \in [Node -> 0..MaxCursor] : \A n \in Node : c[n] <= c[p]}
        /\ bootstrapped = [n \in Node |-> TRUE]
        /\ phase = [n \in Node |-> "idle"] /\ term = [n \in Node |-> 0]
        /\ expected = [n \in Node |-> NoNode]
        /\ abandoned = [n \in Node |-> FALSE] /\ reconnected = [n \in Node |-> FALSE]
        /\ waiting = [n \in Node |-> {}] /\ granted = [n \in Node |-> {}] /\ higher = [n \in Node |-> {}]
        /\ requests = {} /\ announces = {}
        /\ faults = MaxFaults /\ campaigns = MaxCampaigns
        /\ votes = {} /\ elected = {[term |-> 0, node |-> p]}

(***************************************************************************)
(* Helpers                                                                 *)
(***************************************************************************)

Larger(a, b) == IF a >= b THEN a ELSE b

Alive(n) == proc[n] # "down"

(* disconnectedDurationMs() is not null *)
Disconnected(n) == role[n] = "replica" /\ link[n] = "disconnected"

(* At least floor(members / 2) + 1 of the registered members.              *)
IsMajority(S) == Cardinality(S) * 2 > Cardinality(Node)

(* The verified stream of n leads to p.                                    *)
ConnectedTo(n, p) == link[n] = "connected" /\ handshake[n].from = p

(* 1 + connectedReplicaCount() reaches the majority.  How long a primary   *)
(* still counts a replica that is gone is the subject of HaQuorumFence.    *)
HasQuorum(p) == IsMajority({n \in Node : ConnectedTo(n, p)} \union {p})

(* Something goes wrong once more.                                         *)
Fault == faults > 0 /\ faults' = faults - 1 /\ UNCHANGED campaigns

(* A failure that nothing explains consumes a fault.                       *)
FaultUnless(explained) == IF explained THEN UNCHANGED bounds ELSE Fault

(* abandonCampaign: nothing looks at the flag once activation has begun.   *)
Abandon(n) ==
    /\ abandoned' = [abandoned EXCEPT ![n] = @ \/ phase[n] \in {"candidate", "voted", "voting"}]
    /\ UNCHANGED <<phase, term, expected, reconnected, poll>>

(* The finally block of startCampaign, or a new process.                   *)
EndCampaign(n) ==
    /\ phase' = [phase EXCEPT ![n] = "idle"]
    /\ term' = [term EXCEPT ![n] = 0]
    /\ expected' = [expected EXCEPT ![n] = NoNode]
    /\ abandoned' = [abandoned EXCEPT ![n] = FALSE]
    /\ reconnected' = [reconnected EXCEPT ![n] = FALSE]
    /\ waiting' = [waiting EXCEPT ![n] = {}]
    /\ granted' = [granted EXCEPT ![n] = {}]
    /\ higher' = [higher EXCEPT ![n] = {}]

(* The campaign of n enters its next phase.                                *)
Enter(n, next) ==
    /\ phase' = [phase EXCEPT ![n] = next]
    /\ UNCHANGED <<term, expected, abandoned, reconnected>>

(* electionWinnerActivating: set until the activation fails or the process *)
(* restarts.                                                               *)
Activating(n) == phase[n] \in {"activating", "won", "notified"}

(***************************************************************************)
(* Adoption of another primary                                             *)
(***************************************************************************)

(* WHERE cluster_epoch <= clusterEpoch *)
Adoptable(n, e) == dbEpoch[n] <= e

(* The row changes only if it holds no newer epoch; then memory follows,   *)
(* the pinned certificate is deleted and a restart is scheduled.  A former *)
(* primary also loses its changelog: its cursor is what it had applied     *)
(* before it became primary, and it must fetch a snapshot.                 *)
AdoptDiscoveredPrimary(n, p, e) ==
    IF Adoptable(n, e)
    THEN /\ dbRole' = [dbRole EXCEPT ![n] = "replica"]
         /\ dbPrimary' = [dbPrimary EXCEPT ![n] = p]
         /\ dbEpoch' = [dbEpoch EXCEPT ![n] = e]
         /\ dbFenced' = [dbFenced EXCEPT ![n] = FALSE]
         /\ role' = [role EXCEPT ![n] = "replica"]
         /\ primary' = [primary EXCEPT ![n] = p]
         /\ epoch' = [epoch EXCEPT ![n] = e]
         /\ fenced' = [fenced EXCEPT ![n] = FALSE]
         /\ quorumFenced' = [quorumFenced EXCEPT ![n] = FALSE]
         /\ pinned' = [pinned EXCEPT ![n] = FALSE]
         /\ IF dbRole[n] = "primary"
            THEN /\ bootstrapped' = [bootstrapped EXCEPT ![n] = FALSE]
                 /\ \E c \in 0..cursor[n] : cursor' = [cursor EXCEPT ![n] = c]
            ELSE UNCHANGED <<bootstrapped, cursor>>
         /\ proc' = [proc EXCEPT ![n] = "restarting"]
         /\ UNCHANGED <<votedTerm, votedFor>>
    ELSE UNCHANGED <<row, stored, memory, proc>>

(* What handleWhoIsPrimary of a node answers.                              *)
WhoIsPrimary(n) ==
    IF role[n] = "primary" /\ ~quorumFenced[n] /\ ~fenced[n]
    THEN [epoch |-> epoch[n], primary |-> n, role |-> "primary"]
    ELSE [epoch |-> epoch[n], primary |-> primary[n], role |-> "replica"]

(* handleAnnouncePrimary: a winner tells this node.                        *)
HandleAnnouncePrimary(m) ==
    /\ m \in announces /\ Alive(m.to)
    /\ announces' = announces \ {m}
    /\ IF \/ m.epoch < epoch[m.to]
          \/ role[m.to] = "replica" /\ m.epoch = epoch[m.to] /\ primary[m.to] = m.node
       THEN UNCHANGED <<row, stored, memory, proc, campaign>>
       ELSE /\ AdoptDiscoveredPrimary(m.to, m.node, m.epoch)
            /\ Abandon(m.to)
    /\ UNCHANGED <<link, handshake, requests, bounds, history>>

(* Faulty variant: an answer without a primary counts.                     *)
AnyAnswer(answer) == TRUE

(* response.primaryUrl && response.primaryAdminUrl *)
NamesPrimary(answer) == answer.primary # NoNode

(* The peer's answer makes discovery polling adopt what it names.          *)
News(n, peer) ==
    LET answer == WhoIsPrimary(peer)
    IN  /\ NamesPrimary(answer)
        /\ \/ answer.epoch > epoch[n]
           \/ answer.epoch = epoch[n] /\ answer.role = "primary" /\ answer.primary # primary[n]

(* tryDiscoverPrimaryFromPeers, at the start of a replica's election tick. *)
Discover(n, peer) ==
    /\ Alive(n) /\ Disconnected(n) /\ phase[n] = "idle"
    /\ peer # n /\ Alive(peer) /\ News(n, peer)
    /\ AdoptDiscoveredPrimary(n, WhoIsPrimary(peer).primary, WhoIsPrimary(peer).epoch)
    /\ UNCHANGED <<link, handshake, campaign, messages, bounds, history>>

(* tryAutomaticFormerPrimaryRecovery: a majority of all members names one  *)
(* primary at this epoch or a newer one, and that node confirms it.        *)
RecoverFormerPrimary(n) ==
    /\ Alive(n) /\ role[n] = "primary"
    /\ fenced[n] \/ (quorumFenced[n] /\ ~HasQuorum(n))
    /\ \E p \in Node, e \in {epoch[q] : q \in Node} :
          LET confirmers == {q \in Node \ {n} : Alive(q) /\ WhoIsPrimary(q).primary = p /\ epoch[q] = e}
          IN  /\ e >= epoch[n]
              /\ IsMajority(confirmers)
              /\ p \in confirmers /\ WhoIsPrimary(p).role = "primary"
              /\ AdoptDiscoveredPrimary(n, p, e)
    /\ UNCHANGED <<link, handshake, campaign, messages, bounds, history>>

(***************************************************************************)
(* Connection of a replica to its primary                                  *)
(***************************************************************************)

(* A replica that is not connected tries the node its configuration names. *)
Connecting(n) ==
    Alive(n) /\ role[n] = "replica" /\ link[n] # "connected" /\ handshake[n].step = "none"

(* connectToPrimary fails.  Without a pinned certificate the state stays   *)
(* as it is; otherwise handleReplicaClose leaves a standing failure alone. *)
ConnectFails(n) ==
    /\ Connecting(n)
    /\ FaultUnless(~Alive(primary[n]))
    /\ link' = [link EXCEPT ![n] = IF pinned[n] /\ @ = "unknown" THEN "disconnected" ELSE @]
    /\ UNCHANGED <<row, stored, memory, proc, handshake, campaign, messages, history>>

(* The node reached is a replica: its listener answers with a redirect.    *)
HandlePrimaryRedirect(n) ==
    LET p == primary[n]
    IN  /\ Connecting(n) /\ Alive(p) /\ role[p] = "replica"
        /\ IF epoch[p] >= epoch[n] /\ primary[p] # primary[n]
           THEN /\ AdoptDiscoveredPrimary(n, primary[p], epoch[p])
                /\ IF Adoptable(n, epoch[p]) THEN Abandon(n) ELSE UNCHANGED campaign
           ELSE /\ pinned' = [pinned EXCEPT ![n] = TRUE]
                /\ UNCHANGED <<row, cursor, bootstrapped, memory, proc, campaign>>
        /\ link' = [link EXCEPT ![n] = IF epoch[p] >= epoch[n] /\ primary[p] = primary[n] THEN "mismatch"
                                       ELSE IF @ = "mismatch" THEN @ ELSE "disconnected"]
        /\ UNCHANGED <<handshake, messages, bounds, history>>

(* fenceAuthorityForNewerEpoch: an announce with epoch e reaches primary p. *)
(* The fence is durable; the epoch in memory is not raised.                *)
HandleAnnounce(p, e) ==
    /\ fenced' = [fenced EXCEPT ![p] = @ \/ e > epoch[p]]
    /\ dbFenced' = [dbFenced EXCEPT ![p] = @ \/ e > epoch[p]]
    /\ dbEpoch' = [dbEpoch EXCEPT ![p] = IF e > epoch[p] THEN Larger(@, e) ELSE @]

(* message.epoch < config.ha.epoch *)
Stale(n, p) == epoch[p] < epoch[n]

(* handleHello refuses a primary whose epoch is older than this node's,    *)
(* and reports its own epoch to it.                                        *)
RefuseHello(n) ==
    LET p == primary[n]
    IN  /\ Connecting(n) /\ Alive(p) /\ role[p] = "primary"
        /\ Stale(n, p)
        /\ link' = [link EXCEPT ![n] = "mismatch"]
        /\ HandleAnnounce(p, epoch[n])
        /\ pinned' = [pinned EXCEPT ![n] = TRUE]
        /\ UNCHANGED <<dbRole, dbPrimary, votedTerm, votedFor, cursor, bootstrapped, role, primary, epoch,
                       quorumFenced, proc, handshake, campaign, messages, bounds, history>>

(* handleHello accepts the epoch: a newer one is taken over in memory, and *)
(* its row is updated next; otherwise verification begins at once.         *)
AcceptHello(n) ==
    LET p == primary[n]
    IN  /\ Connecting(n) /\ Alive(p) /\ role[p] = "primary"
        /\ ~Stale(n, p)
        /\ epoch' = [epoch EXCEPT ![n] = epoch[p]]
        /\ handshake' = [handshake EXCEPT ![n] =
              [step |-> IF epoch[p] > epoch[n] THEN "persist" ELSE "verify", from |-> p, epoch |-> epoch[p]]]
        /\ pinned' = [pinned EXCEPT ![n] = TRUE]
        /\ UNCHANGED <<row, cursor, bootstrapped, role, primary, fenced, quorumFenced, proc, link,
                       campaign, messages, bounds, history>>

(* updateHaClusterConfig({ clusterEpoch }) overwrites whatever is there.   *)
PersistHelloEpoch(n) ==
    /\ handshake[n].step = "persist"
    /\ dbEpoch' = [dbEpoch EXCEPT ![n] = handshake[n].epoch]
    /\ handshake' = [handshake EXCEPT ![n] =
          [step |-> "verify", from |-> handshake[n].from, epoch |-> handshake[n].epoch]]
    /\ UNCHANGED <<dbRole, dbPrimary, votedTerm, votedFor, dbFenced, stored, memory, proc, link,
                   campaign, messages, bounds, history>>

(* proceedAfterKeyVerified: snapshot or catch-up succeeded.                *)
VerifyConnection(n) ==
    LET p == handshake[n].from
    IN  /\ handshake[n].step = "verify" /\ ~Activating(n)
        /\ Alive(p) /\ role[p] = "primary"
        /\ handshake' = [handshake EXCEPT ![n] = Connected(p)]
        /\ link' = [link EXCEPT ![n] = "connected"]
        /\ reconnected' = [reconnected EXCEPT ![n] = phase[n] # "idle"]
        /\ cursor' = [cursor EXCEPT ![n] = IF bootstrapped[n] THEN Larger(@, cursor[p]) ELSE cursor[p]]
        /\ bootstrapped' = [bootstrapped EXCEPT ![n] = TRUE]
        /\ HandleAnnounce(p, epoch[n])
        /\ UNCHANGED <<dbRole, dbPrimary, votedTerm, votedFor, pinned, role, primary, epoch,
                       quorumFenced, proc, phase, term, expected, abandoned, poll, messages, bounds, history>>

(* The catch-up fails, or a winner that is activating closes the stream.   *)
VerifyFails(n) ==
    /\ handshake[n].step # "none"
    /\ FaultUnless(Activating(n) \/ ~Alive(handshake[n].from) \/ role[handshake[n].from] = "replica")
    /\ handshake' = [handshake EXCEPT ![n] = NoHello]
    /\ link' = [link EXCEPT ![n] = IF @ = "mismatch" THEN @ ELSE "disconnected"]
    /\ UNCHANGED <<row, stored, memory, proc, campaign, messages, history>>

(* The stream closes, or checkHeartbeatWatchdog finds it silent.           *)
Disconnect(n) ==
    /\ Alive(n) /\ link[n] = "connected"
    /\ FaultUnless(role[handshake[n].from] = "replica")
    /\ link' = [link EXCEPT ![n] = "disconnected"]
    /\ handshake' = [handshake EXCEPT ![n] = NoHello]
    /\ UNCHANGED <<row, stored, memory, proc, campaign, messages, history>>

(***************************************************************************)
(* The primary's quorum tick                                               *)
(***************************************************************************)

(* tickPrimaryQuorum fences a primary without a majority.                  *)
LoseQuorum(p) ==
    /\ Alive(p) /\ role[p] = "primary" /\ ~fenced[p] /\ ~quorumFenced[p]
    /\ ~HasQuorum(p)
    /\ quorumFenced' = [quorumFenced EXCEPT ![p] = TRUE]
    /\ UNCHANGED <<row, stored, role, primary, epoch, fenced, mesh, campaign, messages, bounds, history>>

(* clearQuorumLossIfFenced, when a majority is connected again.            *)
RegainQuorum(p) ==
    /\ Alive(p) /\ role[p] = "primary" /\ ~fenced[p] /\ quorumFenced[p]
    /\ HasQuorum(p)
    /\ quorumFenced' = [quorumFenced EXCEPT ![p] = FALSE]
    /\ UNCHANGED <<row, stored, role, primary, epoch, fenced, mesh, campaign, messages, bounds, history>>

(***************************************************************************)
(* A campaign                                                              *)
(***************************************************************************)

(* Discovery polling found nothing to adopt.                               *)
NoNews(n) == \A peer \in Node \ {n} : Alive(peer) => ~News(n, peer)

(* tickReplicaElection: no peer had news and the election timeout is over. *)
StartCampaign(n) ==
    /\ Alive(n) /\ Disconnected(n) /\ phase[n] = "idle"
    /\ campaigns > 0 /\ campaigns' = campaigns - 1
    /\ NoNews(n) \/ faults > 0
    /\ faults' = IF NoNews(n) THEN faults ELSE faults - 1
    /\ phase' = [phase EXCEPT ![n] = "candidate"]
    /\ term' = [term EXCEPT ![n] = epoch[n] + 1]
    /\ expected' = [expected EXCEPT ![n] = primary[n]]
    /\ UNCHANGED <<abandoned, reconnected, poll, row, stored, memory, mesh, messages, history>>

(* Faulty variant: an earlier vote is not looked at.                       *)
GrantableAgain(v, t, c) == dbRole[v] = "replica" /\ dbEpoch[v] <= t

(* The WHERE clause of tryPersistVoteGrant *)
Grantable(v, t, c) ==
    /\ dbRole[v] = "replica" /\ dbEpoch[v] <= t
    /\ votedTerm[v] < t \/ (votedTerm[v] = t /\ votedFor[v] = c)

(* Faulty variant: the candidate voted for is not stored.                  *)
PersistVoteTermOnly(v, t, c) ==
    /\ dbEpoch' = [dbEpoch EXCEPT ![v] = Larger(@, t)]
    /\ votedTerm' = [votedTerm EXCEPT ![v] = t]
    /\ votedFor' = votedFor
    /\ votes' = votes \union {[voter |-> v, term |-> t, for |-> c]}

(* The update of tryPersistVoteGrant *)
PersistVote(v, t, c) ==
    /\ dbEpoch' = [dbEpoch EXCEPT ![v] = Larger(@, t)]
    /\ votedTerm' = [votedTerm EXCEPT ![v] = t]
    /\ votedFor' = [votedFor EXCEPT ![v] = c]
    /\ votes' = votes \union {[voter |-> v, term |-> t, for |-> c]}

(* The campaign is still the one that started, and still disconnected.     *)
StillCampaigning(n) == ~abandoned[n] /\ Disconnected(n)

(* startCampaign votes for itself, durably.                                *)
VoteForSelf(n) ==
    /\ Alive(n) /\ phase[n] = "candidate"
    /\ IF StillCampaigning(n) /\ Grantable(n, term[n], n)
       THEN PersistVote(n, term[n], n) /\ Enter(n, "voted") /\ UNCHANGED poll
       ELSE /\ EndCampaign(n)
            /\ UNCHANGED <<dbEpoch, votedTerm, votedFor, votes>>
    /\ UNCHANGED <<dbRole, dbPrimary, dbFenced, stored, memory, mesh, messages, bounds, elected>>

(* runCampaign asks every other member.                                    *)
RequestVotes(n) ==
    /\ Alive(n) /\ phase[n] = "voted"
    /\ IF StillCampaigning(n)
       THEN /\ epoch' = [epoch EXCEPT ![n] = Larger(@, term[n])]
            /\ requests' = requests \union
                  {[from |-> n, to |-> v, term |-> term[n], cursor |-> cursor[n], stage |-> "sent"] :
                      v \in {v \in Node \ {n} : Alive(v)}}
            /\ Enter(n, "voting")
            /\ granted' = [granted EXCEPT ![n] = {n}]
            /\ waiting' = [waiting EXCEPT ![n] = Node \ {n}]
            /\ UNCHANGED higher
       ELSE EndCampaign(n) /\ UNCHANGED <<epoch, requests>>
    /\ UNCHANGED <<row, stored, role, primary, fenced, quorumFenced, mesh, announces, bounds, history>>

(* Faulty variant: a fetch has no timeout.                                 *)
WaitingForever(n, v) == waiting[n]

(* The members still to be heard of when the fetch for v is over.          *)
WaitingWithout(n, v) == waiting[n] \ {v}

(* The candidate's fetch for v fails or times out; the voter may be still  *)
(* working on it.                                                          *)
RequestFails(n, v) ==
    /\ phase[n] = "voting" /\ v \in waiting[n]
    /\ FaultUnless(~\E r \in requests : r.from = n /\ r.to = v /\ r.term = term[n])
    /\ waiting' = [waiting EXCEPT ![n] = WaitingWithout(n, v)]
    /\ UNCHANGED <<phase, term, expected, abandoned, reconnected, granted, higher, row, stored, memory, mesh, messages, history>>

(* The campaign that sent r still waits for the answer.                    *)
Awaited(r) == phase[r.from] = "voting" /\ term[r.from] = r.term /\ r.to \in waiting[r.from]

(* The voter of r answers; a candidate that waits no longer ignores it.    *)
Reply(r, voteGranted, voterTerm) ==
    /\ requests' = requests \ {r}
    /\ waiting' = [waiting EXCEPT ![r.from] = IF Awaited(r) THEN @ \ {r.to} ELSE @]
    /\ granted' = [granted EXCEPT ![r.from] = IF Awaited(r) /\ voteGranted THEN @ \union {r.to} ELSE @]
    /\ higher' = [higher EXCEPT ![r.from] = IF Awaited(r) /\ voterTerm > r.term THEN @ \union {voterTerm} ELSE @]
    /\ UNCHANGED <<phase, term, expected, abandoned, reconnected>>

(* r has been looked at so far.                                            *)
Progress(r, stage) ==
    /\ requests' = (requests \ {r}) \union
          {[from |-> r.from, to |-> r.to, term |-> r.term, cursor |-> r.cursor, stage |-> stage]}
    /\ UNCHANGED campaign

(* handleVoteRequest, checks that come before its first update.            *)
Refusable(r) ==
    \/ r.term < epoch[r.to]
    \/ role[r.to] = "replica" /\ ~Disconnected(r.to)

RefuseVote(r) ==
    /\ r \in requests /\ r.stage = "sent"
    /\ Refusable(r)
    /\ Reply(r, FALSE, epoch[r.to])
    /\ UNCHANGED <<row, stored, memory, mesh, announces, bounds, history>>

(* A primary fences itself for the term, durably, and grants nothing.      *)
FencePrimaryForElection(r) ==
    LET p == r.to
    IN  /\ r \in requests /\ r.stage = "sent"
        /\ ~Refusable(r) /\ role[p] = "primary"
        /\ quorumFenced' = [quorumFenced EXCEPT ![p] = TRUE]
        /\ dbEpoch' = [dbEpoch EXCEPT ![p] = Larger(@, r.term)]
        /\ epoch' = [epoch EXCEPT ![p] = Larger(@, dbEpoch'[p])]
        /\ Reply(r, FALSE, epoch'[p])
        /\ UNCHANGED <<dbRole, dbPrimary, votedTerm, votedFor, dbFenced, stored, role, primary, fenced, mesh,
                       announces, bounds, history>>

(* A disconnected replica takes the request up.                            *)
ConsiderVote(r) ==
    /\ r \in requests /\ r.stage = "sent"
    /\ ~Refusable(r) /\ role[r.to] = "replica"
    /\ Progress(r, "checked")
    /\ UNCHANGED <<row, stored, memory, mesh, announces, bounds, history>>

(* candidateCursor < ownCursor *)
Behind(r) == r.cursor < cursor[r.to]

(* adoptHaReplicaElectionTerm, then the term and the cursor are compared.  *)
AdoptTerm(r) ==
    LET v == r.to
    IN  /\ r \in requests /\ r.stage = "checked"
        /\ IF dbRole[v] = "primary"
           THEN Reply(r, FALSE, epoch[v]) /\ UNCHANGED <<dbEpoch, epoch>>
           ELSE /\ dbEpoch' = [dbEpoch EXCEPT ![v] = Larger(@, r.term)]
                /\ epoch' = [epoch EXCEPT ![v] = Larger(@, dbEpoch'[v])]
                /\ IF r.term < epoch'[v] \/ Behind(r)
                   THEN Reply(r, FALSE, epoch'[v])
                   ELSE Progress(r, "adopted")
        /\ UNCHANGED <<dbRole, dbPrimary, votedTerm, votedFor, dbFenced, stored, role, primary, fenced,
                       quorumFenced, mesh, announces, bounds, history>>

(* Faulty variant: the candidate gets the vote even if the row was not     *)
(* changed.                                                                *)
GrantVoteUnpersisted(r) ==
    /\ r \in requests /\ r.stage = "adopted"
    /\ IF Grantable(r.to, r.term, r.from)
       THEN PersistVote(r.to, r.term, r.from)
       ELSE UNCHANGED <<dbEpoch, votedTerm, votedFor, votes>>
    /\ Reply(r, TRUE, r.term)
    /\ UNCHANGED <<dbRole, dbPrimary, dbFenced, stored, memory, mesh, announces, bounds, elected>>

(* tryPersistVoteGrant, then the answer.                                   *)
GrantVote(r) ==
    /\ r \in requests /\ r.stage = "adopted"
    /\ IF Grantable(r.to, r.term, r.from)
       THEN PersistVote(r.to, r.term, r.from) /\ Reply(r, TRUE, r.term)
       ELSE Reply(r, FALSE, epoch[r.to]) /\ UNCHANGED <<dbEpoch, votedTerm, votedFor, votes>>
    /\ UNCHANGED <<dbRole, dbPrimary, dbFenced, stored, memory, mesh, announces, bounds, elected>>

Counted(n) == Alive(n) /\ phase[n] = "voting" /\ waiting[n] = {}

(* A voter reported a newer term: it is adopted and the campaign ends.     *)
ConcedeToTerm(n) ==
    /\ Counted(n)
    /\ \E t \in higher[n] :
          /\ epoch' = [epoch EXCEPT ![n] = Larger(@, t)]
          /\ dbEpoch' = [dbEpoch EXCEPT ![n] = IF dbRole[n] = "replica" THEN Larger(@, t) ELSE @]
    /\ EndCampaign(n)
    /\ UNCHANGED <<dbRole, dbPrimary, votedTerm, votedFor, dbFenced, stored, role, primary, fenced,
                   quorumFenced, mesh, messages, bounds, history>>

(* Faulty variant: the connection is not looked at.                        *)
MayActivateConnected(n) == ~abandoned[n]

(* beginElectionWinnerActivation: still disconnected, and not connected to *)
(* a verified primary in between.                                          *)
MayActivate(n) == StillCampaigning(n) /\ ~reconnected[n]

(* The votes are counted.                                                  *)
CountVotes(n) ==
    /\ Counted(n) /\ higher[n] = {}
    /\ IF IsMajority(granted[n]) /\ MayActivate(n)
       THEN Enter(n, "activating") /\ UNCHANGED poll
       ELSE EndCampaign(n)
    /\ UNCHANGED <<row, stored, memory, mesh, messages, bounds, history>>

(* The WHERE clause of activateHaElectionWinner *)
Activatable(n) ==
    /\ dbRole[n] = "replica" /\ dbEpoch[n] = term[n]
    /\ votedTerm[n] = term[n] /\ votedFor[n] = n
    /\ dbPrimary[n] = expected[n]

(* activateElectionWinner: the row says primary; memory still says replica *)
(* until the restart.                                                      *)
ActivateWinner(n) ==
    /\ Alive(n) /\ phase[n] = "activating"
    /\ IF Activatable(n)
       THEN /\ dbRole' = [dbRole EXCEPT ![n] = "primary"]
            /\ dbPrimary' = [dbPrimary EXCEPT ![n] = NoNode]
            /\ dbFenced' = [dbFenced EXCEPT ![n] = FALSE]
            /\ epoch' = [epoch EXCEPT ![n] = term[n]]
            /\ elected' = elected \union {[term |-> term[n], node |-> n]}
            /\ Enter(n, "won") /\ UNCHANGED poll
       ELSE /\ EndCampaign(n)
            /\ UNCHANGED <<dbRole, dbPrimary, dbFenced, epoch, elected>>
    /\ UNCHANGED <<dbEpoch, votedTerm, votedFor, stored, role, primary, fenced, quorumFenced, mesh,
                   messages, bounds, votes>>

(* Faulty variant: the peers are notified before the row is.               *)
AnnounceableEarly(n) == phase[n] \in {"activating", "won"}

(* winElection goes on only after the activation is durable.               *)
Announceable(n) == phase[n] = "won"

(* notifyPeersOfNewPrimary, then the restart is scheduled.                 *)
NotifyPeers(n) ==
    /\ Alive(n) /\ Announceable(n)
    /\ announces' = announces \union
          {[to |-> v, node |-> n, epoch |-> term[n]] : v \in {v \in Node \ {n} : Alive(v)}}
    /\ Enter(n, "notified") /\ UNCHANGED poll
    /\ proc' = [proc EXCEPT ![n] = "restarting"]
    /\ UNCHANGED <<row, stored, memory, link, handshake, requests, bounds, history>>

LoseAnnounce(m) ==
    /\ m \in announces
    /\ Fault
    /\ announces' = announces \ {m}
    /\ UNCHANGED <<row, stored, memory, mesh, campaign, requests, history>>

(***************************************************************************)
(* Restarts                                                                *)
(***************************************************************************)

(* prepareForRuntimeAtBoot: a primary of an election-capable cluster boots *)
(* quorum-fenced.  (Under an authority fence the flag makes no difference.) *)
BootsFenced(n) == dbRole[n] = "primary"

(* loadHaClusterConfigAtBoot and startReplica: memory is the row again.    *)
(* The streams of the process that ended are closed.                       *)
Reload(n) ==
    /\ role' = [role EXCEPT ![n] = dbRole[n]]
    /\ primary' = [primary EXCEPT ![n] = dbPrimary[n]]
    /\ epoch' = [epoch EXCEPT ![n] = dbEpoch[n]]
    /\ fenced' = [fenced EXCEPT ![n] = dbFenced[n]]
    /\ quorumFenced' = [quorumFenced EXCEPT ![n] = BootsFenced(n)]
    /\ link' = [m \in Node |-> IF m = n THEN "unknown" ELSE IF ConnectedTo(m, n) THEN "disconnected" ELSE link[m]]
    /\ handshake' = [m \in Node |-> IF m = n \/ ConnectedTo(m, n) THEN NoHello ELSE handshake[m]]
    /\ EndCampaign(n)
    /\ requests' = {r \in requests : r.to # n}
    /\ announces' = {m \in announces : m.to # n}
    /\ UNCHANGED <<row, stored, history>>

(* The process dies; what it will load at boot is already determined.      *)
Crash(n) ==
    /\ Alive(n)
    /\ Fault
    /\ proc' = [proc EXCEPT ![n] = "down"]
    /\ Reload(n)

Boot(n) ==
    /\ proc[n] = "down"
    /\ proc' = [proc EXCEPT ![n] = "up"]
    /\ UNCHANGED <<row, stored, memory, link, handshake, campaign, messages, bounds, history>>

(* gracefulRestart *)
Restart(n) ==
    /\ proc[n] = "restarting"
    /\ proc' = [proc EXCEPT ![n] = "up"]
    /\ Reload(n)
    /\ UNCHANGED bounds

(***************************************************************************)
(* The specification                                                       *)
(***************************************************************************)

ReplicaStep(n) ==
    \/ ConnectFails(n) \/ HandlePrimaryRedirect(n) \/ RefuseHello(n) \/ AcceptHello(n)
    \/ PersistHelloEpoch(n) \/ VerifyConnection(n) \/ VerifyFails(n) \/ Disconnect(n)

CampaignStep(n) ==
    \/ StartCampaign(n) \/ VoteForSelf(n) \/ RequestVotes(n) \/ ConcedeToTerm(n)
    \/ CountVotes(n) \/ ActivateWinner(n) \/ NotifyPeers(n)

PrimaryStep(n) == LoseQuorum(n) \/ RegainQuorum(n) \/ RecoverFormerPrimary(n)

ProcessStep(n) == Crash(n) \/ Boot(n) \/ Restart(n)

VoterStep(r) == RefuseVote(r) \/ FencePrimaryForElection(r) \/ ConsiderVote(r) \/ AdoptTerm(r) \/ GrantVote(r)

Next ==
    \/ \E n \in Node : ReplicaStep(n) \/ CampaignStep(n) \/ PrimaryStep(n) \/ ProcessStep(n)
    \/ \E n, m \in Node : Discover(n, m) \/ RequestFails(n, m)
    \/ \E r \in requests : VoterStep(r)
    \/ \E m \in announces : HandleAnnouncePrimary(m) \/ LoseAnnounce(m)

Spec == Init /\ [][Next]_vars

(***************************************************************************)
(* Properties                                                              *)
(***************************************************************************)

(* At most one node is ever activated as primary by the election of a      *)
(* term, whatever crashes, delayed votes and restarts happen in between.   *)
ElectionSafety == \A a, b \in elected : a.term = b.term => a = b

(* The row remembers the newest vote ever given, so that none is given     *)
(* twice: no voter has voted for two candidates in one term, also across   *)
(* crashes between the vote and the answer.                                *)
VoteOnce ==
    \A x \in votes :
        /\ x.term <= votedTerm[x.voter]
        /\ x.term = votedTerm[x.voter] => x.for = votedFor[x.voter]
        /\ \A y \in votes : x.voter = y.voter /\ x.term = y.term => x = y

(* Those who persisted a vote for c in term t.                             *)
VotersFor(c, t) == {v \in Node : [voter |-> v, term |-> t, for |-> c] \in votes}

(* The votes a candidate counts are persisted votes of its own term, and   *)
(* every winner had a majority of the members behind it.                   *)
WinnersHaveMajority ==
    /\ \A n \in Node :
          /\ phase[n] # "idle" => term[n] > 0
          /\ phase[n] = "voted" => n \in VotersFor(n, term[n])
          /\ granted[n] \subseteq VotersFor(n, term[n])
          /\ phase[n] = "activating" => IsMajority(granted[n])
    /\ \A x \in elected : x.term > 0 => IsMajority(VotersFor(x.node, x.term))
    /\ \A x, y \in elected : x.term = 0 /\ y.term = 0 => x = y

(* Every node that is primary in its row was primary at the start or was   *)
(* elected, and every replica follows such a node: discovery, redirects,   *)
(* announcements and recovery spread no other name.                        *)
PrimariesAreElected ==
    LET winners == {x.node : x \in elected}
    IN  \A n \in Node : IF dbRole[n] = "primary" THEN n \in winners ELSE dbPrimary[n] \in winners

(* Activation of a winner and the verified connection exclude each other:  *)
(* a node that is turning itself into a primary is not connected to one.   *)
WinnerIsDisconnected == \A n \in Node : Activating(n) => link[n] # "connected"

(***************************************************************************)
(* Liveness.  Timers fire, the event loop serves every request and a       *)
(* scheduled restart happens.  No fault is fair, and a process that died   *)
(* need not come back.                                                     *)
(***************************************************************************)

Fairness ==
    /\ \A n \in Node :
          /\ WF_vars(ReplicaStep(n)) /\ WF_vars(CampaignStep(n)) /\ WF_vars(PrimaryStep(n))
          /\ WF_vars(Restart(n))
          /\ \A m \in Node : WF_vars(Discover(n, m)) /\ WF_vars(RequestFails(n, m))
    /\ WF_vars(\E r \in requests : VoterStep(r))
    /\ WF_vars(\E m \in announces : HandleAnnouncePrimary(m))

FairSpec == Spec /\ Fairness

(* Every campaign ends: in activation and a restart, or abandoned.         *)
CampaignEnds == \A n \in Node : phase[n] # "idle" ~> phase[n] = "idle"
=============================================================================
