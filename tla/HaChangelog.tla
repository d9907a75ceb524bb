---------------------------- MODULE HaChangelog ----------------------------
(***************************************************************************)
(* The changelog of an HA cluster across failovers: sequence numbers,      *)
(* cursors, catch-up and snapshots, majority durability                    *)
(* (src/src/services/ha-mesh-service.ts, src/src/db/repository.ts).        *)
(*                                                                         *)
(* An election is a campaign, one step for each member that answers it,    *)
(* and an activation (HaElection has the messages and the failing writes). *)
(* A handshake is a hello and, after the catch-up, a verified stream: in   *)
(* between, the replica still counts as disconnected and may vote.  A      *)
(* catch-up, a snapshot and a manual promotion are single steps.  Node is  *)
(* the registered membership.  Fences are left out: they stop the          *)
(* admission of writes and make a primary deny that it is one, so without  *)
(* them a primary only commits, and is found, more often.                  *)
(***************************************************************************)
EXTENDS Integers, FiniteSets, FiniteSetsExt

CONSTANTS
    Node,        \* registered, activated members
    NoNode,      \* SQL NULL, where a node is meant
    Sqlite,      \* the members whose own database is SQLite
    MinMembers,  \* autoFailoverMinMembers, the floor of automatic failover
    MaxSeq,      \* bound: sequence numbers
    MaxEpoch,    \* bound: cluster epochs
    MaxFaults    \* bound: connections that break

ASSUME MembersFinite == IsFiniteSet(Node) /\ NoNode \notin Node
ASSUME FloorIsNat == MinMembers \in Nat
ASSUME BoundsAreNat == MaxSeq \in Nat /\ MaxEpoch \in Nat /\ MaxFaults \in Nat
ASSUME SqliteMembers == Sqlite \subseteq Node

VARIABLES
    role, primary, epoch,  \* ha_cluster_config
    cursor,        \* replication_cursor.last_applied_seq
    bootstrapped,  \* replication_cursor.bootstrapped
    log,           \* replication_changelog: rows this node issued and still keeps
    head,          \* replication_changelog_state.high_watermark
    counter,       \* the last value of the auto-increment column seq
    rows,          \* the rows whose effect is in the replicated tables
    link,          \* the replica's stream to its primary
    voted,         \* the last term in which this node's vote is persisted
    votes,         \* grantedBy of its campaign, later the voters that made it primary
    faults,
    reign,         \* history: the epoch with which it last became primary, or -1
    confirmed,     \* history: rows whose writer was told durabilityConfirmed
    waived,        \* history: those for which no majority was waited for
    unsynced,      \* history: former primaries that have not caught up with a primary since
    spoiled,       \* history: candidates with a vote that does not speak for all rows of its voter
    tainted        \* history: one of those is or was primary

config == <<role, primary, epoch>>
changelog == <<log, head, counter>>
replication == <<cursor, bootstrapped>>
election == <<voted, votes>>
durability == <<confirmed, waived>>
marks == <<unsynced, spoiled, tainted>>
vars == <<config, changelog, replication, rows, link, election, faults,
          reign, durability, marks>>

Row == [seq : Nat, by : Node, epoch : Nat]

TypeOK ==
    /\ role \in [Node -> {"primary", "replica"}]
    /\ primary \in [Node -> Node \union {NoNode}]
    /\ \A n \in Node : role[n] = "replica" => primary[n] \in Node
    /\ epoch \in [Node -> Nat]
    /\ cursor \in [Node -> Nat]
    /\ bootstrapped \in [Node -> BOOLEAN]
    /\ log \in [Node -> SUBSET Row]
    /\ head \in [Node -> Nat]
    /\ counter \in [Node -> Nat]
    /\ rows \in [Node -> SUBSET Row]
    /\ link \in [Node -> {"down", "syncing", "verified"}]
    /\ faults \in Nat
    /\ voted \in [Node -> Nat] /\ votes \in [Node -> SUBSET Node]
    /\ reign \in [Node -> Nat \union {-1}]
    /\ confirmed \subseteq Row /\ waived \subseteq confirmed
    /\ unsynced \subseteq Node /\ spoiled \subseteq Node
    /\ tainted \in BOOLEAN

(* A new cluster: the replicas have joined and hold nothing yet.           *)
Init ==
    \E p \in Node :
        /\ role = [n \in Node |-> IF n = p THEN "primary" ELSE "replica"]
        /\ primary = [n \in Node |-> IF n = p THEN NoNode ELSE p]
        /\ epoch = [n \in Node |-> 0]
        /\ cursor = [n \in Node |-> 0]
        /\ bootstrapped = [n \in Node |-> n # p]
        /\ log = [n \in Node |-> {}]
        /\ head = [n \in Node |-> 0]
        /\ counter = [n \in Node |-> 0]
        /\ rows = [n \in Node |-> {}]
        /\ link = [n \in Node |-> IF n = p THEN "down" ELSE "verified"]
        /\ faults = MaxFaults
        /\ voted = [n \in Node |-> 0] /\ votes = [n \in Node |-> {}]
        /\ reign = [n \in Node |-> IF n = p THEN 0 ELSE -1]
        /\ confirmed = {} /\ waived = {}
        /\ unsynced = {} /\ spoiled = {} /\ tainted = FALSE

Larger(a, b) == IF a >= b THEN a ELSE b

IsMajority(S) == Cardinality(S) * 2 > Cardinality(Node)

(* The replicas whose verified stream leads to p.                          *)
Replicas(p) == {n \in Node : link[n] = "verified" /\ primary[n] = p}

(***************************************************************************)
(* The primary                                                             *)
(***************************************************************************)

(* appendChangelogEntry, in the transaction of the write itself.  A quorum *)
(* fence stops the admission of writes (runPrimaryWrite), not the commit   *)
(* of one that was admitted before, so it is no guard here.                *)
Write(p) ==
    LET row == [seq |-> counter[p] + 1, by |-> p, epoch |-> reign[p]]
    IN  /\ role[p] = "primary" /\ counter[p] < MaxSeq
        /\ counter' = [counter EXCEPT ![p] = row.seq]
        /\ head' = [head EXCEPT ![p] = Larger(@, row.seq)]
        /\ log' = [log EXCEPT ![p] = @ \union {row}]
        /\ rows' = [rows EXCEPT ![p] = @ \union {row}]
        /\ UNCHANGED <<config, replication, link, election, faults, reign, durability, marks>>

(* deleteReplicationChangelogBeforeBatch: the oldest rows go, the high     *)
(* watermark stays.                                                        *)
Prune(p) ==
    /\ role[p] = "primary"
    /\ \E r \in log[p] :
          /\ \A other \in log[p] : r.seq <= other.seq
          /\ log' = [log EXCEPT ![p] = @ \ {r}]
    /\ UNCHANGED <<config, head, counter, replication, rows, link, election, faults, reign,
                   durability, marks>>

(* Faulty variant: off by one.                                             *)
AckedAlmost(p, seq) == {p} \union {n \in Replicas(p) : cursor[n] + 1 >= seq}

(* countMembersAckedAtLeast(seq) and the primary itself: a replica reports *)
(* its cursor whenever it moves (a report on its way delays a confirmation *)
(* and changes none).                                                      *)
AckedAtLeast(p, seq) == {p} \union {n \in Replicas(p) : cursor[n] >= seq}

(* The early return of waitForMajorityDurability: the node is no longer    *)
(* primary (the process of a former primary goes on until its restart,     *)
(* and writers that committed before still ask), or the cluster is below   *)
(* the floor.                                                              *)
NothingToWaitFor(p) ==
    \/ role[p] = "replica" /\ p \in unsynced /\ link[p] = "down"
    \/ Cardinality(Node) < MinMembers

(* waitForMajorityDurability answers confirmed for a row of this reign.    *)
ConfirmDurability(p) ==
    /\ \E r \in rows[p] \ confirmed :
          /\ r.by = p /\ r.epoch = reign[p]
          /\ \/ NothingToWaitFor(p)
             \/ role[p] = "primary" /\ IsMajority(AckedAtLeast(p, r.seq))
          /\ confirmed' = confirmed \union {r}
          /\ waived' = IF NothingToWaitFor(p) THEN waived \union {r} ELSE waived
    /\ UNCHANGED <<config, changelog, replication, rows, link, election, faults, reign, marks>>

(***************************************************************************)
(* A replica                                                               *)
(***************************************************************************)

(* Faulty variant: only an empty page is looked at.                        *)
GapOnlyIfEmpty(n, p) ==
    (\A r \in log[p] : r.seq <= cursor[n]) /\ head[p] > cursor[n]

(* The changelog of p does not continue at the cursor of n: the first row  *)
(* of the page lies behind it, or the page is empty below the watermark.   *)
Gap(n, p) ==
    LET page == {r \in log[p] : r.seq > cursor[n]}
    IN  IF page = {} THEN head[p] > cursor[n] ELSE \A r \in page : r.seq > cursor[n] + 1

(* performBootstrapSnapshot: the tables are replaced, then the cursor.     *)
Snapshot(n, p) ==
    /\ rows' = [rows EXCEPT ![n] = rows[p]]
    /\ cursor' = [cursor EXCEPT ![n] = head[p]]
    /\ bootstrapped' = [bootstrapped EXCEPT ![n] = TRUE]

(* applyRow for a row or the rows of the pages, cursor included            *)
Apply(n, page) ==
    /\ rows' = [rows EXCEPT ![n] = @ \union page]
    /\ cursor' = [cursor EXCEPT ![n] = Max({@} \union {r.seq : r \in page})]
    /\ UNCHANGED bootstrapped

(* runCatchUp                                                              *)
CatchUp(n, p) ==
    IF Gap(n, p)
    THEN Snapshot(n, p)
    ELSE Apply(n, {r \in log[p] : r.seq > cursor[n]})

(* proceedAfterKeyVerified                                                 *)
Resume(n, p) == IF bootstrapped[n] THEN CatchUp(n, p) ELSE Snapshot(n, p)

(* The candidates whose vote by n does not speak for rows n now takes from *)
(* p: its handshake began before the vote, or p was asked for a vote too   *)
(* and has the term.                                                       *)
Outdated(n, p) ==
    {w \in Node \ {n, p} : cursor'[n] # cursor[n] /\ n \in votes[w] /\ voted[w] >= reign[p]}

(* Another primary was made with the epoch that p has.                     *)
Shadowed(p) == \E w \in Node \ {p} : reign[w] = epoch[p]

(* n has followed p for a step: marks of the campaigns that are left.      *)
MarkVotes(n, p) ==
    /\ spoiled' = {w \in spoiled \union Outdated(n, p) : votes'[w] # {}}
    /\ tainted' = \/ tainted \/ Shadowed(p)
                  \/ \E w \in Outdated(n, p) : role[w] = "primary"

(* handleHello: an epoch older than the replica's own is refused, a newer  *)
(* one taken over (and any campaign of the replica is then outdated).      *)
HandleHello(n) ==
    LET p == primary[n]
    IN  /\ role[n] = "replica" /\ link[n] = "down"
        /\ p # n /\ role[p] = "primary" /\ epoch[p] >= epoch[n]
        /\ epoch' = [epoch EXCEPT ![n] = epoch[p]]
        /\ votes' = IF epoch[p] > epoch[n] THEN [votes EXCEPT ![n] = {}] ELSE votes
        /\ link' = [link EXCEPT ![n] = "syncing"]
        /\ UNCHANGED <<role, primary, changelog, replication, rows, voted, faults,
                       reign, durability, marks>>

(* proceedAfterKeyVerified: the replica catches up and reports its cursor; *)
(* epochs are not compared again.  A verified connection ends a campaign   *)
(* (electionConnectivityGeneration).                                       *)
ProceedAfterKeyVerified(n) ==
    LET p == primary[n]
    IN  /\ link[n] = "syncing"
        /\ Resume(n, p)
        /\ link' = [link EXCEPT ![n] = "verified"]
        /\ votes' = [votes EXCEPT ![n] = {}]
        /\ MarkVotes(n, p)
        /\ unsynced' = unsynced \ {n}
        /\ UNCHANGED <<config, changelog, voted, faults, reign, durability>>

(* handleMessage, "change": rows at or below the cursor are ignored, the   *)
(* next one is applied, a later one makes the replica catch up.            *)
HandleChange(n) ==
    LET p == primary[n]
    IN  /\ link[n] = "verified"
        /\ \E r \in log[p] :
              /\ r.seq > cursor[n]
              /\ IF r.seq = cursor[n] + 1 THEN Apply(n, {r}) ELSE CatchUp(n, p)
        /\ UNCHANGED <<config, changelog, link, election, faults, reign, durability, unsynced>>
        /\ MarkVotes(n, p)

(* handleMessage, "heartbeat"                                              *)
HandleHeartbeat(n) ==
    LET p == primary[n]
    IN  /\ link[n] = "verified" /\ head[p] > cursor[n]
        /\ CatchUp(n, p)
        /\ UNCHANGED <<config, changelog, link, election, faults, reign, durability, unsynced>>
        /\ MarkVotes(n, p)

(* handleReplicaClose, after the socket closed or the watchdog gave up     *)
Disconnect(n) ==
    /\ link[n] # "down" /\ faults > 0
    /\ faults' = faults - 1
    /\ link' = [link EXCEPT ![n] = "down"]
    /\ UNCHANGED <<config, changelog, replication, rows, election, reign, durability, marks>>

(***************************************************************************)
(* Changes of the primary                                                  *)
(***************************************************************************)

(* prepareForRuntimeAtBoot: bumpChangelogSequenceTo what this node knows.  *)
BootHead(n) == Larger(head[n], cursor[n])

(* The counter survives the deletion of its rows.  SQLite's branch raises  *)
(* it, the others set it; zero returns early.                              *)
BootCounter(n) ==
    IF n \in Sqlite \/ BootHead(n) = 0 THEN Larger(counter[n], BootHead(n)) ELSE BootHead(n)

(* n restarts as primary.                                                  *)
BecomePrimary(n) ==
    /\ head' = [head EXCEPT ![n] = BootHead(n)]
    /\ counter' = [counter EXCEPT ![n] = BootCounter(n)]

(* disconnectedDurationMs is not null.                                     *)
Disconnected(n) == role[n] = "replica" /\ link[n] # "verified"

(* The term of w's campaign, which waits for votes.                        *)
Campaigning(w) == role[w] = "replica" /\ votes[w] # {} /\ voted[w] = epoch[w]

(* startCampaign: a new term, and the candidate's own vote.  (A vote is    *)
(* about cursors, and the cursor of a former primary that has not caught   *)
(* up says nothing of the rows it holds.)                                  *)
StartCampaign(w) ==
    /\ Disconnected(w) /\ Cardinality(Node) >= MinMembers
    /\ epoch[w] < MaxEpoch
    /\ epoch' = [epoch EXCEPT ![w] = @ + 1]
    /\ voted' = [voted EXCEPT ![w] = epoch[w] + 1]
    /\ votes' = [votes EXCEPT ![w] = {w}]
    /\ spoiled' = IF w \in unsynced THEN spoiled \union {w} ELSE spoiled \ {w}
    /\ UNCHANGED <<role, primary, changelog, replication, rows, link, faults, reign,
                   durability, unsynced, tainted>>

(* Faulty variant: the voters do not compare cursors.                      *)
MayGrant(v, w) == voted[v] < epoch[w]

(* The comparison of the cursors and tryPersistVoteGrant                   *)
Grants(v, w) == cursor[v] <= cursor[w] /\ voted[v] < epoch[w]

(* handleVoteRequest of a replica: the term is adopted before the vote is  *)
(* granted or refused.  The connection is looked at once, at the start; a  *)
(* handshake under way may end after the vote (ProceedAfterKeyVerified).   *)
HandleVoteRequest(v, w) ==
    /\ v # w /\ Campaigning(w) /\ v \notin votes[w]
    /\ Disconnected(v) /\ Cardinality(Node) >= MinMembers /\ epoch[v] <= epoch[w]
    /\ Grants(v, w) \/ epoch[v] < epoch[w]
    /\ epoch' = [epoch EXCEPT ![v] = epoch[w]]
    /\ IF Grants(v, w)
       THEN /\ voted' = [voted EXCEPT ![v] = epoch[w]]
            /\ votes' = [votes EXCEPT ![v] = {}, ![w] = @ \union {v}]
            /\ spoiled' = (spoiled \ {v}) \union (IF v \in unsynced THEN {w} ELSE {})
       ELSE /\ votes' = [votes EXCEPT ![v] = {}]
            /\ spoiled' = spoiled \ {v}
            /\ UNCHANGED voted
    /\ UNCHANGED <<role, primary, changelog, replication, rows, link, faults, reign,
                   durability, unsynced, tainted>>

(* handleVoteRequest of a primary: fenceHaPrimaryForElectionTerm           *)
FencePrimaryForTerm(p, w) ==
    /\ role[p] = "primary" /\ Campaigning(w) /\ epoch[p] < epoch[w]
    /\ epoch' = [epoch EXCEPT ![p] = epoch[w]]
    /\ UNCHANGED <<role, primary, changelog, replication, rows, link, election, faults, reign,
                   durability, marks>>

(* beginElectionWinnerActivation and activateElectionWinner                *)
ActivateElectionWinner(w) ==
    /\ Campaigning(w) /\ Disconnected(w) /\ IsMajority(votes[w])
    /\ role' = [role EXCEPT ![w] = "primary"]
    /\ primary' = [primary EXCEPT ![w] = NoNode]
    /\ link' = [link EXCEPT ![w] = "down"]
    /\ BecomePrimary(w)
    /\ reign' = [reign EXCEPT ![w] = epoch[w]]
    /\ tainted' = (tainted \/ w \in spoiled \/ Shadowed(w))
    /\ UNCHANGED <<epoch, log, replication, rows, election, faults, durability, unsynced,
                   spoiled>>

(* wasPrimary *)
NeedsFreshSnapshot(n) == role[n] = "primary"

(* handleAnnouncePrimary: the winner of an election has told n, or the     *)
(* target of a promotion has (HaPromotion).                                *)
Announced(p) == reign[p] = epoch[p]

(* A disconnected replica asks its peers or is redirected by a former      *)
(* primary (tryDiscoverPrimaryFromPeers, handlePrimaryRedirect).           *)
Discovers(n) == Disconnected(n)

(* tryAutomaticFormerPrimaryRecovery: a majority names p, itself included. *)
Recovers(n, p) ==
    /\ role[n] = "primary"
    /\ IsMajority({m \in Node \ {n} : epoch[m] = epoch[p] /\ (m = p \/ primary[m] = p)})

(* adoptDiscoveredPrimary: a former primary forgets its changelog.         *)
Adopt(n, p) ==
    /\ n # p /\ role[p] = "primary" /\ epoch[p] >= epoch[n]
    /\ Announced(p) \/ Discovers(n) \/ Recovers(n, p)
    /\ role[n] = "replica" => primary[n] # p
    /\ role' = [role EXCEPT ![n] = "replica"]
    /\ primary' = [primary EXCEPT ![n] = p]
    /\ epoch' = [epoch EXCEPT ![n] = epoch[p]]
    /\ link' = [m \in Node |-> IF m = n \/ primary[m] = n THEN "down" ELSE link[m]]
    /\ votes' = [votes EXCEPT ![n] = {}]
    /\ IF NeedsFreshSnapshot(n)
       THEN /\ bootstrapped' = [bootstrapped EXCEPT ![n] = FALSE]
            /\ log' = [log EXCEPT ![n] = {}]
            /\ head' = [head EXCEPT ![n] = 0]
       ELSE UNCHANGED <<bootstrapped, log, head>>
    /\ unsynced' = IF role[n] = "primary" THEN unsynced \union {n} ELSE unsynced
    /\ spoiled' = spoiled \ {n}
    /\ UNCHANGED <<counter, cursor, rows, voted, faults, reign, durability, tainted>>

(* promoteNode: with every member connected and every row flushed to them, *)
(* the target becomes primary and the old primary its replica.  Messages   *)
(* are in order, so a fence acknowledgement follows the rows before it.    *)
PromoteNode(p, t) ==
    /\ role[p] = "primary" /\ epoch[p] < MaxEpoch
    /\ Replicas(p) = Node \ {p} /\ t \in Replicas(p)
    /\ \A n \in Replicas(p) : cursor[n] >= head[p]
    /\ role' = [role EXCEPT ![p] = "replica", ![t] = "primary"]
    /\ primary' = [primary EXCEPT ![p] = t, ![t] = NoNode]
    /\ epoch' = [epoch EXCEPT ![p] = @ + 1, ![t] = epoch[p] + 1]
    /\ head' = [head EXCEPT ![t] = BootHead(t)]
    /\ counter' = [counter EXCEPT ![t] = BootCounter(t)]
    /\ link' = [n \in Node |-> "down"]
    /\ votes' = [votes EXCEPT ![p] = {}]
    /\ reign' = [reign EXCEPT ![t] = epoch[p] + 1]
    /\ unsynced' = unsynced \union {p}
    /\ spoiled' = spoiled \ {p}
    /\ UNCHANGED <<log, replication, rows, voted, faults, durability, tainted>>

Next ==
    \/ \E n \in Node :
          \/ Write(n) \/ Prune(n) \/ ConfirmDurability(n)
          \/ HandleHello(n) \/ ProceedAfterKeyVerified(n) \/ HandleChange(n) \/ HandleHeartbeat(n)
          \/ Disconnect(n) \/ StartCampaign(n) \/ ActivateElectionWinner(n)
    \/ \E n, m \in Node :
          \/ HandleVoteRequest(n, m) \/ FencePrimaryForTerm(n, m)
          \/ Adopt(n, m) \/ PromoteNode(n, m)

Spec == Init /\ [][Next]_vars

(***************************************************************************)
(* Properties                                                              *)
(***************************************************************************)

(* A connected replica holds exactly what its primary holds up to the      *)
(* replica's cursor, and everything once it has reached the watermark: no  *)
(* row is skipped, none of another history is kept.                        *)
FollowersAgree ==
    \A n \in Node : link[n] = "verified" =>
        /\ rows[n] = {r \in rows[primary[n]] : r.seq <= cursor[n]}
        /\ cursor[n] >= head[primary[n]] => rows[n] = rows[primary[n]]

(* A row for which waitForMajorityDurability found a majority is in the    *)
(* tables of every primary of a later reign.                               *)
ConfirmedSurvives ==
    \A p \in Node :
        role[p] = "primary" =>
            {r \in confirmed \ waived : r.epoch <= reign[p]} \subseteq rows[p]

(* Most histories are clean: every vote that made a primary speaks for the *)
(* rows of its voter.  It does not when the voter is a former primary that *)
(* has not caught up yet (its cursor is the one from before it was         *)
(* primary), or when the voter takes rows of the primary it voted against  *)
(* after its vote, from a handshake that was under way.  Nothing in the    *)
(* code rules the two out, and in both the properties fail.  They are also *)
(* about clusters of three members, where a majority takes every           *)
(* replica: cursors carry no epoch, so a replica outside the election that *)
(* is ahead of the winner takes the winner's rows for those it has.        *)

(* In a clean history a connected replica holds exactly what its primary   *)
(* holds up to the replica's cursor (applyRow, runCatchUp, snapshots).     *)
CleanFollowersAgree == tainted \/ FollowersAgree

(* In a clean history a row that waitForMajorityDurability confirmed by a  *)
(* majority survives every failover.                                       *)
CleanConfirmedSurvives == tainted \/ ConfirmedSurvives

(* In a clean history waitForMajorityDurability finds a majority of        *)
(* acknowledgements only for rows that a majority of the members holds in  *)
(* its tables.                                                             *)
CleanConfirmedByMajority ==
    [][tainted \/ \A r \in (confirmed' \ confirmed) \ waived' :
                      IsMajority({n \in Node : r \in rows[n]})]_vars
=============================================================================
