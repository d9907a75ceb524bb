# BurrowGate: a TLA+ verification project

BurrowGate (`src/`) is a self-hosted gateway written in TypeScript for Bun: it
terminates TLS, proxies HTTP, WebSocket, TCP and UDP, applies access rules,
challenges and limits, and is administered through a web interface. Several
nodes can be joined into a high-availability cluster with one *primary*, which
owns the configuration, and *replicas*, which follow it through a changelog and
can replace it.

This directory holds TLA+ modules translated from that code, the TLC
configurations that check them, machine-checked proofs of the results that matter
most, and `PROJECT.json`, which maps every definition to the lines it models.
It concentrates on the parts where a mistake is expensive and a test unlikely to find
it: the cluster, and the background services whose steps interleave.

| module | models | checked by | proofs |
|---|---|---|---|
| `HaWriteBarrier` | write admission of one node against manual promotion | `MCHaWriteBarrier` | `HaWriteBarrier_proofs` |
| `HaElection` | automatic failover: votes, activation, adoption, fences, restarts | `MCHaElection` | `HaElection_proofs` |
| `HaPromotion` | manual promotion: the handover between three nodes and its recovery | `MCHaPromotion` | `HaPromotion_proofs` |
| `HaChangelog` | the changelog across failovers: sequence numbers, cursors, durability | `MCHaChangelog` | – |
| `RelayChannel` | what the session relay promises (abstract specification) | through `HaRelay` | through `HaRelay_proofs` |
| `HaRelay` | the session relay: outbox, acknowledgements, snapshots, adoption | `MCHaRelay` | `HaRelay_proofs` |
| `PendingChanges` | scheduled changes of streams and sites | `MCPendingChanges` | `PendingChanges_proofs` |
| `Notifications` | events, outbox and webhook deliveries (extended by `OriginHealth`) | `MCOriginHealth` | in `OriginHealth_proofs` |
| `OriginHealth` | health checks of a site's origins, pool state, alerts | `MCOriginHealth` | `OriginHealth_proofs` |
| `CrowdSecStore` | the decision store: what insert, remove, sweep and lookup do | `MCCrowdSec` | in `CrowdSec_proofs` |
| `CrowdSec` | the poller of a CrowdSec Local API on top of the store | `MCCrowdSec` | `CrowdSec_proofs` |
| `FirewallSync` | pushing the active bans to an external firewall | `MCFirewallSync` | `FirewallSync_proofs` |

Contents: 1 inventory, 2 plan, 3 modules and code, 4 runs, 5 fairness, 6 proofs,
7 disagreements with the documentation, 8 what is not modelled.

## 1 Inventory

Everything runs in one Bun process per node, on one event loop. Concurrency
inside a node is interleaving at `await`; between nodes it is messages (a
WebSocket stream from each replica to its primary, HTTPS requests between all
members). The state of a node is its database (SQLite, PostgreSQL or MySQL) and
what the services keep in memory, much of it a copy of a row.

### The cluster

* **Write barrier** (`services/ha-write-barrier.ts`). State: a counter of active
  writes, waiters for the counter to reach zero, the flag `fencedForPromotion`.
  Operations: run under a lease, begin a promotion (close, drain, give up after a
  time), end it. Called by every configuration write (`db/repository.ts`) and by
  `promoteNode`. Hard: a request admitted before the fence and finishing after it;
  a drain that times out next to a second promotion; nested operations that
  outlive their request. Correct when no row is committed behind the barrier and no
  drain waits for a wakeup that is not coming.
* **Election** (`services/ha-election-service.ts`). State: the persisted vote
  (`voted_term`, `voted_for`), the epoch, the campaign in memory. Operations: start a
  campaign, answer a vote request, count, activate, announce, discover a primary,
  recover a former primary, the quorum tick of a primary. Hard: everything, with
  crashes between any two writes. Correct when one node is activated per term, with
  a majority of durable votes behind it, and when a campaign ends.
* **Roles and connections** (`services/ha-mesh-service.ts`, `ha-config-service.ts`).
  State: the row of `ha_cluster_config`, its copy in `config.ha`, the connection of a
  replica, the pinned certificate, fences. Operations: hello, redirect, verification,
  adoption of a primary, authority fence, scheduled restart. Correct when nodes
  follow only primaries that exist and epochs do not go back.
* **Changelog replication** (`ha-mesh-service.ts`, `db/repository.ts`). State:
  `replication_changelog`, its high watermark, each replica's cursor, staged
  snapshots, acknowledgements. Operations: record a row, page catch-up, full
  snapshot, apply, acknowledge, prune, wait for majority durability. Correct when a
  replica equals its primary up to its cursor and confirmed rows survive failover.
* **Manual promotion** (`ha-mesh-service.ts`). State: the durable promotion intent,
  the fence, the messages of a handover. Operations: prepare, save the intent,
  promote, tell the bystanders, demote, resume when the target comes back. Hard: a
  crash, a lost answer or a failing statement between any two of them. Correct when
  there is never more than one writable primary, no row is lost, and one node can be
  written to again afterwards.
* **Enrolment and membership** (`ha-config-service.ts`, `ha-tls-service.ts`,
  `routes/ha-cluster-admin-routes.ts`). Join codes, pending and activated members,
  removal. Correct when two disjoint majorities can never be counted.
* **Session relay** (`ha-mesh-service.ts`, `db/repository.ts`, the outbox trigger in
  `db/migrate.ts`). State: `session_relay_outbox`, the watermark the primary keeps per
  origin node, the relay in flight. Operations: commit locally and queue, drain one at
  a time, accept once, reject, reapply after a snapshot, adopt as the new primary.
  Correct when each write is accepted once and in order and a node keeps seeing its
  own sessions.

### The gateway

* **Scheduled changes** (`services/pending-change-service.ts`, appliers in
  `stream-service.ts` and `site-service.ts`, the admin routes). State: rows of
  `pending_changes`, the flag of the running round, the live configuration and the
  listeners. Hard: a round, an apply-now, a cancel, a save and a deletion of one
  entity at once; a crash between applying and recording. Correct when outcomes are
  recorded truthfully and finally and every change is settled.
* **Health checks** (`services/origin-health-service.ts`). State: a runtime record per
  origin, the pool state per site, the stored copies. Operations: tick, check, store,
  refresh after a configuration change, manual check, start. Hard: checks of two
  origins overlap, a refresh replaces the record of a running check. Correct when
  the checks converge to what the origins answer and pool alerts tell the truth.
* **Notifications** (`services/notification-service.ts`). State: events, the outbox,
  attempts. Correct when queued alerts arrive in order or are given up.
* **Load balancing**: selection and quarantine over a list that refreshes replace.
* **Static cache**: byte and entry totals kept by hand, a purge next to a fill.
* **Stream and WebSocket proxies**: connection slots, idle timeouts, two half-closed
  directions, listener reconciliation.
* **HTTP proxy and policies**, **rate, bandwidth and connection limits**: windows and
  counters at their limits, transfer timeouts.
* **Challenges and access sessions**, **administration accounts**, **single
  sign-on**: one-time values, chains of steps, the last-administrator rule.
* **CrowdSec** (`services/crowdsec-service.ts`, `crowdsec-decision-store.ts`). State: the
  store, the flag that asks for a full sync, the poll in flight, the snapshot on disk.
  Hard: the Local API hands out each change once; settings change during a poll.
  Correct when what is enforced is what the Local API has in force.
* **Firewall synchronisation** (`services/firewall-sync-service.ts`). State: the row of a
  provider with the hash of the list applied last. Operations: the round, a manual
  sync, edits, teardown. Correct when the hash tells the truth and the firewall
  follows the rules.
* **Certificates, ACME and the TLS listener**: renewal rounds and coalesced reloads.
* **File logs**, **maintenance**: rotation and retention next to writers.
* **IP rules, bots, managed rulesets**; **monitoring**; **routes**; **user
  interface**: matching, counters, parsing and formatting.

`PROJECT.json` lists these with their sources and state, and the hazards of each at
its line, those no property covers with the reason.

## 2 Plan

1. Done, the cluster: `HaWriteBarrier`, `HaElection`, `HaChangelog`; then `HaPromotion`,
   which takes apart the promotion that is one step in `HaChangelog` and uses what
   `HaWriteBarrier` establishes about writes; then `HaRelay` with its abstract
   specification `RelayChannel`.
2. Done, the gateway: `PendingChanges`; `OriginHealth` composed with `Notifications`;
   `CrowdSec` over `CrowdSecStore`; `FirewallSync`.
3. Done, the proofs of section 6: safety of the election, the handover, the write barrier,
   scheduled changes, firewall synchronisation, health checks with their alerts, and
   CrowdSec with its store, and the relay's refinement of `RelayChannel` with the visibility
   of a node's sessions and the agreement of quiet replicas.
4. Next: an inductive invariant for `HaChangelog` in clean histories of three members.
5. Later: the awaits inside a catch-up (`applyRow` at the end of a connection), the two
   clocks of the quorum fence, membership changes, the static cache, the
   last-administrator rule, the coalesced reload of the TLS listener.

## 3 Modules and code

Common to all modules. A step runs from one `await` to the next, with a row update
and the code that follows it in one step (the database executes one statement
atomically, and the code has no `await` between its result and the assignments that
follow). Comments name the function each action stands for. Data is reduced to what
the properties tell apart. Bounds are constants (`Max...`) used in guards only.

**`HaWriteBarrier`.** `Task` is a chain of asynchronous calls, with the
`AsyncLocalStorage` context it carries (`lease`: none, active, or ended, which a
continuation may still carry), and the operations running under it (`ops`).
`Admit`/`Nest`/`EndNested`/`Finish` are `runPrimaryWrite`'s paths, `Commit` is a
repository write with `assertPrimaryWritable`, `BeginPromotion`, `Drained`,
`DrainTimeout`, `SaveIntent`, `AbortPromotion`, `InterruptPromotion` and
`CompletePromotion` are `promoteNode` and `finalizePromotion`. `FenceAuthority`,
`QuorumChange`, `AdoptDiscoveredPrimary` and `CompleteRecovery` are the other code
that opens and closes fences. `promoteNode` may be called any number of times.

**`HaElection`.** A node has a durable row (`dbRole` ... `dbFenced`, `votedTerm`,
`votedFor`), the pin, a cursor, and the copy in memory (`role`, `primary`, `epoch`,
fences), which differ while a handler waits and between a role change and the
scheduled restart. `Connecting` ... `VerifyConnection` are the replica's connection;
a hello has the two awaits of `handleHello` as `handshake.step`. `StartCampaign`,
`VoteForSelf`, `RequestVotes`, `CountVotes`, `ActivateWinner`, `NotifyPeers` are
`startCampaign`; `phase` is how far it is. A vote request goes through
`ConsiderVote`, `AdoptTerm`, `GrantVote` or `RefuseVote` with a stage per await of
`handleRequestVote`; `PersistVote` is the conditional UPDATE `persistHaVote`.
`Discover`, `HandleAnnouncePrimary` and `RecoverFormerPrimary` end in
`AdoptDiscoveredPrimary`. Restart loads memory from the row. Messages are sets: a
request may be delayed, lost (`RequestFails`, `LoseAnnounce`) or answered when
nobody waits any more. The node that a URL reaches stands for the URL. Timers fire
at any time, so the election timeout, its jitter and the quorum grace are
nondeterministic. A connection breaks without a fault only where the code itself or
the end of the peer explains it; everything else takes one of `MaxFaults`.

**`HaChangelog`.** One level up: messages are left out, and a catch-up with all its pages, a
snapshot and a promotion are single steps. What decides about rows is kept apart: an
election is `StartCampaign`, one `HandleVoteRequest` per voter (the look at the
connection, the comparison of the cursors and the persisted vote) and
`ActivateElectionWinner`; a reconnection is `HandleHello` and, later,
`ProceedAfterKeyVerified` with the catch-up, so that a voter whose handshake is under way
(`syncing`) may still vote, and may take rows from the old primary after its vote, as in the
code, which looks at the connection once (`ha-election-service.ts:212`). `log`, `head`
and `counter` are the changelog table, the
watermark and the auto-increment column, which continues from different values on
SQLite and on the other databases (`BootHead`, `BootCounter`, per-node constant
`Sqlite`). `rows` is what has reached the replicated tables. `Gap` is the condition
under which a replica asks for a snapshot. `ConfirmDurability` is
`waitForMajorityDurability`, with its early return (`NothingToWaitFor`) for a node that is
no longer primary or a cluster below the floor; such rows are `waived`. Fences are
left out: without them a primary commits and is found more often. A row is its number, its
writer and its epoch, so two
rows with one number are told apart. History variables: `reign`, `confirmed`, `waived`,
`unsynced`, `spoiled`, `tainted`.

**`PendingChanges`.** `kind` says whether an entity is a stream or a site, whose
appliers differ (a stream has a listener and is taken back when it cannot start; a
site's row is updated and the TLS listener reloaded). A worker is an admin request or
a call of `applyDuePendingChanges`; `work[w]` holds its position, its operation and
the values it read before its last await. `CheckSlot`, `SaveConfig`, `Activate`,
`ClearFailed`, `InsertChange` are a PUT with a schedule; `FindChange`, `LoadChange`,
`ReadLive`, ..., `DeleteChange` are apply-now and cancel; `StartRound`, `PickRow`,
`RecordApplied`, `Retry`, `EndRound` the round with the `running` flag. The deferred
fields are one value; time is the flag `due`; the `LIMIT 100` of a round is left out.
The TLS listener of a site is modelled only as a reload that may fail. Streams compete for
ports (`stream_bindings`) and a node may stop being writable; both are saves that may fail
at any time, the one that takes a stream back included (`RestoreFails`): its entity is
then `stranded`, with the new row and the old listener, until it is activated again or the
process restarts.

**`HaPromotion`.** `role`, `follows`, `epoch` and `intent` are durable; `live`, `fenced`
and `job` belong to the process. A `job` is `promoteNode` or
`resumePromotionIfNeeded`, at one of its awaits: `BeginPromotion` (the checks, the
barrier, the hint to the bystanders), `Prepare` and `Prepared`/`Failed`
(`waitForPreparePromoteAck`, with `TargetReady` on the target's side), `SaveIntent`,
`SendPromote`, `ReceiveAck`, `NotifyBystanders`, `Demote`. The target receives the
message (`ReceivePromote`), persists (`ApplyPromote`, which may fail and then rejects) and
restarts. `Disconnect`, `Crash` and `Restart` may come between any two; `FencedAtBoot`
is the fence a restarted old primary takes from its intent, `Announce` what makes it
resume. A changelog is its length, because there is one line of writers; that a
write ends before the barrier is passed is `HaWriteBarrier`'s result.

**`RelayChannel` and `HaRelay`.** The abstract specification has three variables, the
undecided ids of each node, the accepted ones in order, and the leader, which submits
nothing and loses its own undecided ids when somebody else takes over (`TakeOver`).
`HaRelay` has the tables of
every node, the outbox, open transactions (outside SQLite an id is taken before the
commit: `BeginWrite`, `CommitWrite`, `RollbackWrite`), the mark of the relay in flight
and its timeout, messages both ways, the snapshot a replica has fetched and not yet
reconciled, and the primary's boot, which adopts its own outbox (`AdoptRow`). The
refinement maps `open` to the outbox without what was accepted, `accepted` to the
history of acceptances and `leader` to the primary; `Ordered` is the set of SQLite nodes.
`strayed` follows tables that missed an overwrite or lost a relay through changes of the
primary: a replica follows what its primary has. Two kinds of writes stand
for all: the insertion of a row of one's own and a patch of one field of a shared user.

**`Notifications`.** `Recorded` is `recordSiteEvent` with its outbox row, `NotRecorded` its
failure or crash between the two, `Pending` the query of `deliverPending` (the oldest
pending row of a site, once it is due), `DeliverOne` a delivery with its retries, `DeliverAgain`
a delivery whose result could not be recorded. `alerting` is the stored setting, which
`Toggle` changes (`updateSiteNotificationPolicy`, or the same columns in `updateSite`) and a
delivery reads again; an event is recorded with the setting in the caller's copy of the site,
which `Recorded` is given. The webhook may answer anything; what
it has received last is `heard`. `OriginHealth` extends the module and calls
`Recorded` from the end of a check.

**`OriginHealth`.** A check is a record with the values `runCheck` read before its awaits
(`was`, `poolWas`) and the generation of the runtime record it works on; `Answer`,
`Store`/`StoreFails` and `Finish` are its three parts. `Advanced` is
`advanceOriginHealthState` with its thresholds, `Aggregate` `aggregateState`,
`StateAfterChange` what a changed origin starts with. An edit is one step and its
refresh three (`ReadSite`, `ReadOrigins`, `Refresh`), because `refreshSite` reads twice before it
applies; a read may fail (`RefreshFails`), and so may the last statement. `copied` is the alert
setting in the runtime's copies of the site, which a refresh or a restart renews and the
notification policy's own route does not (`EditAlerts`). `CheckNow` is a refresh and a list of checks done one after the other. `replica`
chooses between `refreshSite` and the `initialize` that a replica calls.

**`CrowdSecStore`, `CrowdSec`.** A store of one value is the decision that answers
(`top`) and the ones parked behind it. `Inserted`, `Removed`, `Snapshot`, `Delta` (which is
`Dropped` and then `Built`), `Swept`, `Evicted` and `Exported` are the functions of the store,
each loop of the code a fold over the list it goes through; ranks are "ban before captcha,
then the later expiry". A poll has four awaits (`StartPoll`, `Request`, `Apply` or `Adopt`,
`Success`/`Failure`); the timer, a refresh, `applyTimer` and the start of the process begin
one or join the one in flight. `reload` has one await between its assignments and
`ApplyTimer`, and `reloads` counts the calls at that await. The Local API is external: per
source the decisions in force and what changed since the bouncer pulled last.

**`FirewallSync`.** A network is the set of addresses it covers, and the one it is written with:
`Bannable` leaves out a ban that lies within a whitelisted network or is written with a private
address, and lets a range around one pass. `Taken` is what the adapter makes of a list that
was already cut to `max_entries`: networks it has no rules for (IPv6 at OVH and AWS) are dropped,
and so is what finds no free slot, with success. `remote` holds what was taken. One provider. A job is a reconciliation at one of its awaits
(`ReadList`, `Push`/`PushFails`, `Record`, or `Skip`) with the row it read, and an identity, so
that two of them with equal data stay two; the hash of a list stands for the list. `Update` is any edit of switch, target or cap, `Teardown` and `DeleteRow` are
`deleteProvider`. `suspect` remembers that a push failed or overlapped another, that
the target changed, or that a restart came before the result was recorded; it ends
with a push that runs alone.

## 4 Runs

| run | bounds | states | properties |
|---|---|---|---|
| `write_barrier` | 3 tasks, 2 promotions, 2 nested operations, 2 commits | 995 | `LeaseAccounting`, `PromotionExcludesWrites`, `NoLostDrain`, `NoCommitBehindBarrier` |
| `election` | 3 members, 2 campaigns, 1 fault | 1.2 million | `ElectionSafety`, `VoteOnce`, `WinnersHaveMajority`, `PrimariesAreElected`, `WinnerIsDisconnected` |
| `election_liveness` | 3 members, 1 campaign, 1 fault | no symmetry | `CampaignEnds` |
| `promotion` | 3 nodes, 2 rows, 2 promotions, 3 faults | 86,000 | `OneWriter`, `WriterHasAllRows`, `ReplicasCanFindAPrimary`, `PrimaryNeverOutdated`, `WritableAgain` |
| `changelog` | 3 members (one SQLite), 2 rows, 2 elections or promotions, 2 broken connections; histories up to the first tainted state | 2.1 million | `CleanFollowersAgree`, `CleanConfirmedSurvives`, `CleanConfirmedByMajority` |
| `relay` | 2 nodes (one SQLite), 2 relayed writes, 1 write of the primary, 1 fault, 1 change of primary | 214,000 | `ChannelSpec`, `OwnSessionsVisible`, `QuietReplicasAgree`, `RelaysSettle` |
| `pending_changes` | 1 entity, 2 values, 2 requests, 2 callers of the round, 2 attempts, 1 fault | 253,000 | `OutcomesAreTrue`, `OneChangeUnlessRaced`, `StreamsRunTheirRow`, `AppliedIsFinal`, `ChangesSettle` |
| `origin_health` | 2 origins, thresholds 2 and 1, 1 change of an answer, 1 switch of the destination, 1 fault, alerts on or off at the start | 748,000 | `OperatorKnowsThePool`, `HealthConverges`, `OutboxDrains` |
| `origin_config` | 1 origin, thresholds 1 and 1, one timed check at a time next to 1 manual one, 2 edits, 1 fault, primary or replica | 757,000 | `RuntimeFollowsConfig`, `HealthConverges` |
| `crowdsec` | 3 decisions on one value, 2 Local APIs, 2 moments, 2 changes, 2 saves, 1 fault | 581,000 | `HeldDecisionsCurrent`, `StrongestWins`, `DisabledIsEmpty`, `DriftIsCorrected` |
| `firewall_sync` | 4 networks (a host, a range around it, a private and an IPv6 one), 2 that may be whitelisted (host and range), caps 1 and 2, 2 targets with 1 and 2 slots, 2 changes, 1 edit, 1 manual sync, 1 fault | 764,000 | `RowTellsTheFirewall`, `DeletedDropsNothing`, `FirewallFollowsRules` |

The type invariants of `HaWriteBarrier`, `HaElection`, `HaPromotion`, `HaRelay` and
`PendingChanges` are proved (section 6), and `election_liveness` checks that of the election;
those of the other modules say what the variables hold and are no property of a run. The twelfth run, `crowdsec_disabled`, ends
in a counterexample: section 7.

*Why the bounds are enough.* Three is the smallest cluster that can elect (the code
has a floor of three) and the smallest with an outsider of a majority or a bystander of
a promotion; two campaigns give competing candidates in one term, a retry in a later
term, and answers to an old campaign arriving in a new one; one fault separates any two
awaits of the chosen node by a crash. The theorems of section 6 remove all bounds for the
properties they state. Two promotions let a resumed one meet a new one, and three
faults an interrupted handover that is interrupted again on the other side. For the
changelog two rows and two changes of primary are what it takes for a row to be
written, confirmed, lost and overwritten. The properties of that run are about three
members: with five they do not hold (section 7). A history that is `tainted` stays so and
the properties say nothing of the rest, so the run ends it there (`CONSTRAINT Clean`); nor does it
tell waived rows from unconfirmed ones (`VIEW Observed`), which nobody waits for again. For the relay two writes give an order, and
one change of primary lets the writer adopt its own outbox; the invariants of the relay's
proofs were also checked with three nodes and three changes of primary. For scheduled changes one
entity suffices because entities share only the round and, if streams, the ports: a second
row of one entity (`MaxRows` 2) already makes a round with more than one row, and a port
that another stream has taken is a save that fails. Two origins are needed for
overlapping checks that race for the pool; edits need only one, so the two questions
are two runs. Two decisions on one value give parking and promotion, the third a
remedy that ranks lower; two saves let the integration be disabled and enabled again
under one poll. A cap or a slot for one of two admissible bans makes the order
of the list matter, an IPv6 ban before another one uses up a cap of one, and the range is
pushed while the host in it, or a private address in it, is not to be banned.

*Symmetry* is used on members, tasks, configurations and workers, in runs of safety
properties only. *Deadlock* is checked for the write barrier. The other modules may
stop: a cluster whose campaigns and faults are used up, or a service with no request
left, is quiescent, so these say `CHECK_DEADLOCK FALSE`; that nothing gets stuck on
the way is what the liveness properties say.

Some properties leave out histories in which the code does not keep them; the
history variables that mark these are part of the models, and section 7 says what
happens then. `CleanFollowersAgree` and its two companions exclude primaries made by a vote that does
not speak for all rows of its voter (a former primary that has not caught up, a voter that
takes rows of the old primary after its vote) and two primaries with one epoch, and the two
about confirmed rows exclude those for which the code waited for nobody; `OneChangeUnlessRaced` and
`StreamsRunTheirRow` two writers of one entity at once, the latter also a row that could not be
taken back; `OwnSessionsVisible` and
`QuietReplicasAgree` a relay that was overtaken by one with a larger id, or a patch that
came back without itself; `WritableAgain` a handover that ended without a result while
its target stayed connected; `OperatorKnowsThePool` configuration changes, crossed
alerts and alerts that were lost, by a stale copy of the setting too, and it speaks of what
the receiver is left believing, not of how often it is told; `RuntimeFollowsConfig` a
refresh that failed or was overtaken; `HeldDecisionsCurrent` the time between a foreign pull, a change of the
Local API or a store cleared under a delta, and the next snapshot; `DisabledIsEmpty` a poll in flight;
`RowTellsTheFirewall` and `DeletedDropsNothing` a suspect firewall.

Every property has a mutant: a faulty variant of one mapped definition (a vote that
does not remember the candidate, a primary that starts unfenced with an intent, a
watermark that is not looked at, a check that is never released, a result recorded for
a list read later, ...), which TLC must refute. The variants stand next to the
definitions, marked "Faulty variant".

## 5 Fairness

Assumed: continuations run (the event loop serves what is ready), timers fire, a
scheduled restart happens, time passes. Each is a `setInterval`, a `setTimeout` or a
resolved promise in the code. Requests between nodes end, because the code gives
each a timeout: `RequestFails` is fair, as the timeout of a request that is not
answered. Not assumed: that a fault happens, that a dead process comes back, that
an administrator does anything, that a campaign is ever started, or that an applier
ever succeeds. `CampaignEnds` therefore holds with every vote lost and
`ChangesSettle` with an applier that fails every time.

`HaRelay`: weak fairness of the continuations, the drain timer and the reconnect
timer, and strong fairness of `TakeRelay`: the primary's queue serves messages in the
order of their arrival, so one that is sent again and again is taken although a
reconnect withdraws it in between. `HaPromotion`: the steps of a handover, restarts
and announcements of a node that reconnects. `OriginHealth`: ticks, the parts of a check,
refreshes and the delivery timer; an origin may change its answer only a bounded
number of times, and the webhook is not trusted to accept anything, so `OutboxDrains`
holds with every delivery refused. `Tick` is fair per origin: with the code's limit of
ten concurrent checks and origins visited in the order of a map this holds for pools in
which not all slots are taken by slower origins for ever. `CrowdSec`: the poll timer and
continuations, and strong fairness of a full sync, which the code makes periodically
(`full_sync_interval_seconds`). `FirewallSync`: rounds, jobs and the row deletion; failures are
bounded by `MaxFaults`.

## 6 Proofs

Proved with TLAPS for every value of the constants.

**`HaWriteBarrier_proofs`** (assumptions: `TasksFinite`, `BoundsAreNat`). `IInv` is
the type invariant with `LeaseAccounting`, `WaitersAreDraining` (a registered waiter
is still waiting), `NoLostDrain`, and `FenceIsOwned`, which ties the flag
`fencedForPromotion` to the promotions that have closed it. The accounting is needed
because the code decides on a counter and the property speaks of operations:
`ZeroMeansQuiet` leads from one to the other, `AdmitCounts` and `FinishCounts` keep
the counter equal to a cardinality. From `IInv`: `TypeCorrect`, `LeasesAreCounted`,
`PromotionIsExclusive`, `DrainIsWoken` and the action property `BarrierHolds`.

**`HaElection_proofs`** (assumptions: `MembersFinite`, `BoundsAreNat`).
`TypeCorrect` first. Then `BallotInv`: `VoteOnce`, `WinnersHaveMajority` and
`StartsUncounted` (a campaign that has not asked yet has counted nobody). The row
remembers the newest vote, so a vote that `PersistVote` lets through is new
(`VoteIsNew`); counted votes are durable votes of the candidate's own term even when
an answer belongs to an earlier campaign; and two majorities of a finite membership
meet (`MajoritiesMeet`, by cardinalities). So two winners of one term share a voter
that voted for both: `ElectionIsSafe`. Corollaries `VotesAreUnique` and
`MajorityBehindWinner`. `ActivationIsDisconnected`: activation and verification
exclude each other. `PrimariesWonElections`: `NamesInv` follows the name of a
primary through rows, memory, handshakes, announcements and answers; none of them
carries a name that did not win.

**`PendingChanges_proofs`** (assumptions: `DistinctParts`, `RequestsFinite`,
`AttemptsPositive`, `BoundsAreNat`). `IInv` adds to the types: each worker keeps to
its part (`WorkersKeepToTheirPart`), the `running` flag lets one call through at a
time (`OneRound`), and what a round has read is still pending, or gone, until the round
has decided (`TodoIsPending`, `CurrentIsPending`). The last is the heart of it: a
round works on rows read at its start, through any number of awaits, and
`updatePendingChangeStatus` has no condition on the status it overwrites.
`RowsAreCounted` relates the attempts in the rows to the runs of the applier.
`IdsSuffice` only says that the bound on rows does not cut a save short. From `IInv`:
`TypeCorrect`, `OutcomesHold` and the action property `AppliedStays`. Two more invariants
rest on it. `SlotInv`: for an entity no two saves with a schedule have met on, the save
that found the slot free still finds it free when it inserts, although a round, a cancel
or a delete may come between the check, the save and the insertion; hence `OneChange`.
`ListenerInv`: as long as the writers of a stream take turns, `StepInv` says where its row
and its listener are at each await of the one that changes it, restoring after a failed
activation included, unless the entity is `stranded`; hence `StreamsFollowRows`.

**`HaPromotion_proofs`** (assumptions: `MembersFinite`, `BoundsAreNat`,
`NothingDistinct`). At most one writer is not inductive: what must be excluded is a late
activation that makes a second primary. The invariant names one member, the *leader*
(the primary with the newest epoch), and `LeaderInv` says what everybody else knows of
it: an older primary has handed over to it, has its intent and is fenced (`Handed`); a
replica follows it or a member that does (`Following`); what is on its way speaks of its
epoch, or is the activation it sent itself (`Messages`). Every step keeps the leader, but
for one: when the target of the leader's own intent stores the activation it becomes the
leader. By then everybody followed the old one (`Settled`) and the target had all of its
rows (`Barrier`). An intent is withdrawn only while no copy of its activation is left
(`Withdrawable`). From it: `TypeCorrect`, `NeverTwoWriters`, `NoRowLeftBehind`,
`NoReplicaLost`, `NoPrimaryOutdated`, for every number of members.

**`HaRelay_proofs`** (assumptions: `MembersFinite`, `BoundsAreNat`; `QuietAgreement` also
`GoneIsNoRow`, a missing user is told from a row). The refinement of `RelayChannel`: every step of the relay is a step of the channel or leaves it alone
(`RelayImplementsChannel`). `Marks`: watermarks in tables and snapshots are the last relay
of each node among the changelog rows they stand for, so a replica with the whole
changelog has the primary's and a promotion moves none. `History`: the primary's
watermark is the last accepted id. `Numbered`: an id is one write. `Sent`: what is on its
way and beyond the watermark is still in the outbox with, on SQLite, nothing older before
it, or is a patch that was rejected and whose user is gone. `InOrder` (on SQLite what the
watermark has passed was accepted) and `Answered` (an acknowledged relay is behind the
watermark) say that a row leaves the outbox only when it was decided. The proof found two
gaps that two nodes do not show: the abstract specification had to say what becomes of
the writes of a leader that is replaced, and `strayed` had to pass from a primary to its
followers.

The second part of the module proves `SessionsStayVisible`. `Rows`: tables and
snapshots have the sessions of the rows they stand for. `Fresh`: a write accepted after a
node read its snapshot is still in its outbox when the snapshot is reconciled, because
answers wait while a snapshot is under way; being beyond the snapshot's watermark it is
applied again. `Logged` and `Keys`: an accepted id has its row, and the row, the outbox and
every table mean the same write by it. So neither side of
`reapplyPendingSessionRelays`' comparison with the watermark loses a session.

The third part proves `QuietAgreement` (`QuietReplicasAgree`), with `QInv`. The changelog
stands for a set of sessions and one row of the user (`Core`), which the primary has, with
what it has yet to adopt (`PrimaryHolds`). A replica has these sessions but for those of the
rows it has yet to apply (`SessionView`). About the user there are three cases (`UserView`): a
row ahead lacks a patch of the replica, which will then stray (`Doomed`); the last row ahead
that overwrites the user brings the right one (`UserAhead`); or no such row is ahead and the
replica has it (`UserHere`). Whatever else it has is its own and still in its outbox. The
same is said of a snapshot under way as it will be after `reapplyPendingSessionRelays`
(`SnapshotSees`), and nothing of tables older than the oldest row kept. `GoneIsLast`: no row
brings back a deleted user. `Boot`: nobody is connected before the primary has adopted its
outbox, so no replica sees its rows before they are in the changelog. A replica with
nothing ahead and an empty outbox is left with the sessions and the user of the primary;
the watermarks agree by `Marks`.

**`FirewallSync_proofs`** (assumption: `TargetsNamed`; the networks, slots and caps are
arbitrary). The
properties speak of moments of rest. In between, a reconciliation that nothing has crossed
since it read the row still has the row's target and hash (`Alone`), and row and firewall
agree unless a push waits to be recorded or is in doubt (`Agrees`). From it:
`HashTellsTheFirewall` and `NothingLeftBehind`.

**`OriginHealth_proofs`** (assumptions: `ThresholdsPositive`, `OriginsFinite`, `EditsNat`,
`NoRuntimeDistinct`). Refreshes may apply in another order than they read, and fail.
`NewestRead`: what a refresh has read of the site or of the origins is the newest or carries an
older version. `SwitchApplied` and `OriginsApplied`: the runtime has the switch and the
origins of the newest rows once these were applied, unless older ones were applied after
them. `NewestOnItsWay`: the newest rows were applied, or a refresh will bring them, unless one
failed. From it: `ConfigIsApplied`.

`PoolIsAnnounced` (`OperatorKnowsThePool`) rests on a second invariant. `Checks`: types of the
checks under way, and no two in one slot. `Known`, for histories that are not `muddled`: the
runtimes are those of the start (`Unedited`), static origins are not checked
(`StaticUnchecked`), and, while no origin has two checks about to store, `Truthful`:
the stored statuses tell the outages that a restart would find (`Stored`); an alert on its
way to the outbox agrees with the pool (`Alerts`); and what the receiver will know once it
has got everything on its way (`Told`, from the checks about to record, the rows of the
outbox and what was heard) differs from the states of the origins only while a check is
left that saw the pool in the other state and has yet to compare it (`Consistent`,
`RecoverySeen`, `OutageSeen`). That check is the one that raises the alert, however many
others overlap with it. Deliveries keep `Told` because the poller sends the oldest row
(`OutageReceived`, `OutageRetried`, `OutageAppended`). The theorem assumes `Site`: the site has an
origin, the destination subscribes to the two alerts about the pool, and no administrator
checks a static origin; section 7 says what happens otherwise.

**`CrowdSec_proofs`** (assumptions: `ExpiryType`, `BansAreDecisions`, `SourceNonempty`,
`BoundsNat`). First what the store's folds compute for every list: `Least` (a set of natural
numbers has a least element, from the well-foundedness of `<`) gives induction over
the length of a list, with a set in the place of a predicate; from it what `Without`, `Best`,
`Built`, `Dropped`, `Swept` and `Exported` hold afterwards, and that no insertion, removal,
promotion or sweep leaves a decision behind a weaker one. Then `Inv` of the poller: what is
held, together with what the answer on its way will add and remove, is what the Local API
had in force when it was pulled, unless a full sync is due or the poller has `drifted`.
From it: `HeldIsCurrent`, `StrongestIsFound` and `DisabledHoldsNothing`. The proof found a
history that one save does not show, a delta applied to a store that was cleared
in between (section 7).

**Only model-checked**, and why:
* all liveness (`CampaignEnds`, `WritableAgain`, `RelaysSettle`, `ChangesSettle`,
  `HealthConverges`, `OutboxDrains`, `DriftIsCorrected`, `FirewallFollowsRules`): fairness
  and `ENABLED` are out of the prover's reach;
* `HaChangelog` (`CleanFollowersAgree`, `CleanConfirmedSurvives`, `CleanConfirmedByMajority`):
  its properties are about small clusters (section 7) and histories of
  whole changelogs, so a theorem for every membership would be false and one for three
  would need an argument by cases that is not written yet.

Induction over data is done with sets, as above: the library's induction theorems take the
predicate as a parameter, which the backends cannot instantiate. `SelectSeq` stays out of
reach, being defined by recursion; the store filters with a fold instead.
The modules are written without `RECURSIVE` operators, which the prover's SMT backend does
not support.

## 7 Disagreements with the documentation

**Shown by a run.** `crowdsec_disabled`: when the integration is disabled while a poll is
in flight, `applyTimer` clears the store, and the poll then adopts its answer without
looking at the settings again. `lookup` does not look at the switch either, so the
decisions are enforced until they expire. The comment in `crowdsec-service.ts:181`
("Enforcement stops on disable rather than lingering until the decisions expire.") and
the test `crowdsec-service.test.ts:252` say otherwise.

**Contained in a model, met while looking for its properties.** No run is kept for these;
each is a behaviour of the module named.

`HaElection`
* A replica that voted for itself, and whose campaign then went nowhere, keeps its raised
  epoch. It refuses the hello of the healthy primary and reports the newer epoch,
  whereupon the primary sets its durable authority fence. The other replicas stay
  connected to it, so no majority names another primary and automatic recovery never
  ends the fence (`HIGH_AVAILABILITY.md:226`, `:256`).
* The connection is looked at and the cursors are compared before the vote is given; a voter
  whose handshake with the old primary is under way catches up afterwards, and the
  candidate is activated with less data than its voters (`HIGH_AVAILABILITY.md:217`; what
  this does to rows is in `HaChangelog`, below).
* `handleHello` writes the epoch without a condition after an await, over a newer one that
  a vote persisted in between (`:254`).
* Between activation and restart the winner still runs as a replica; an old primary that
  has already adopted it redirects it to itself, and it adopts itself (`:219`).

`HaChangelog`
* `HIGH_AVAILABILITY.md:268` says that "the log-up-to-date check protects rows a majority
  already _has_". It does not when a voter takes rows of the old primary after its vote: with
  three members, p, v and c, a handshake of v with p is under way while v votes for c; v then
  catches up, p confirms a row that p and v hold, and c becomes primary without it. v,
  which is ahead of c, takes c's new rows for rows it already has. Only c's request for p's
  vote stands against this, when it reaches p and fences it before the write is admitted;
  nothing makes it arrive.
* A former primary votes with the cursor it had before it was primary, so it can vote for
  a candidate that lacks a row it had confirmed. `tickReplicaElection` does not
  look at `bootstrapped` either.
* `waitForMajorityDurability` (`ha-mesh-service.ts:1693`) confirms at once, without a majority,
  when the node has lost its role while the write was under way or the cluster is below
  the floor.
* `adoptHaReplicaElectionTerm` and `handleHello` let a fenced primary come to the epoch of a
  winner, so two members that call themselves primary can share an epoch for a while; a
  replica of the old one is then not told apart by its epoch.
* Cursors carry no epoch. With five members a replica outside the electing majority may
  be ahead of the winner: it then takes the winner's new rows for rows it already has,
  and differs from its primary without anybody noticing (`:254`, `:256`).
  `adoptDiscoveredPrimary` (`ha-mesh-service.ts:2180`) asks for a fresh snapshot from a
  former primary only. With three members the votes keep the winner from being behind such a
  replica, in the histories that `changelog` checks.

`HaPromotion`
* A target that cannot persist its role rejects; when that answer meets a timeout or a
  resumed attempt, the intent is kept and nobody is writable until the target announces
  itself again (`:202`: "a target persistence failure leaves the old primary
  authoritative"). A node promoted while quorum-fenced keeps that fence.

`HaRelay`
* On PostgreSQL and MySQL ids are taken before the commit: a row with a smaller id can
  commit after a larger one was accepted and is then dropped as a duplicate.
* Reapplying a patch of a user that was deleted throws: the replica cannot reconcile its
  snapshot and never reconnects; as a new primary it cannot finish its boot.
* A replica skips the echo of its own relay, so a row the primary wrote in between stays
  as the replica had it (`:27`). An acknowledged relay is not yet majority-durable.

`PendingChanges`
* The check for an existing scheduled change and the insertion of the new one are
  separated by the save; two overlapping requests both insert
  (`SCHEDULED_CHANGES.md:23`, `:29`). A cancel does not stop a round that has read the
  row; `saveStream` inserts a stream again that was deleted while its change was applied.
* A stream whose activation failed is taken back by a second save
  (`stream-admin-routes.ts:267`, `stream-service.ts:310`), which can fail too: the node is not
  writable any more, or another stream has taken the port that the first save freed
  (`repository.ts:4087`). The row then names a configuration that does not run.

`OriginHealth`, `Notifications`
* After alerts were switched on by the notification policy's own route
  (`admin-routes.ts:971`), the health manager goes on with its copy of the site
  (`notification-service.ts:254`), and an outage is not announced until something refreshes the
  site (`NOTIFICATIONS.md:12`).
* `refreshSite` changes the pool state without an alert (`NOTIFICATIONS.md:12`); a pool that
  goes from unhealthy through unknown or degraded to healthy never sends
  `pool_recovered`; the alerts of two checks can cross on their way to the outbox.
* Two refreshes can apply an older site row last; a check that ends after its site was
  switched off still writes the pool state; a replica never removes the runtime of a
  deleted origin; `checkNow` checks static origins too (`STATIC_SITES.md:88`). A static origin
  checked in that way can be part of an outage that is announced; after a restart it is
  "disabled" again, the next check makes the pool "unknown", and no alert says that the
  incident is over.

`CrowdSec`
* A poll that ends after the settings named another Local API clears the request for a
  full sync; `refreshNow` during a delta poll is answered by that poll; a connection test
  takes the delta. A lookup answers "nothing" when the expired ban it removes is followed
  by another expired one although a captcha behind them is in force.
* The integration is disabled and enabled again while a delta is on its way:
  `applyTimer` has cleared the store, the delta is applied to the empty one, and `runPoll`
  clears the request for a full sync (`crowdsec-service.ts:302`) that enabling had set and
  whose comment (`:122`) says that it forces the next poll to be a full snapshot. The
  decisions pulled before are missing until the interval of full syncs has passed.

`FirewallSync`
* A manual sync, a teardown and a round may overlap: the firewall can end with the older
  list while the row has the hash of the newer one, which is then skipped for ever, or
  with entries of a provider that is gone. A push that failed half-way followed by a
  list that returns to the previous one is skipped too, and so is the first push after
  an edit that names another firewall; what was pushed to the earlier firewall stays there.
* `FIREWALL_SYNC.md:19` and `:20` say that a private address "never reaches a provider" and
  that whitelisted ones "are never pushed". That holds of bans that lie within such a
  network; a range around one is pushed (`firewall-sync-service.ts:25`, `:46`).
* IPv4-only adapters drop IPv6 bans after the list was cut to `max_entries`, so these take the
  place of older IPv4 bans (`:11`: a full provider evicts the oldest), and what finds no
  slot beside the administrator's own rules is left out; the result counts the whole list
  as applied.
* Creating an enabled provider does not ask for the
  whitelist or acknowledgement that enabling one asks for.

## 8 Not modelled

* **Input and output**: byte pumping, header rewriting, TLS, WebSocket framing, PROXY
  headers, file logs; their order is the runtime's and their data is not decided upon.
* **User interface** (`public/`, `ui/`) and **routes**: about a third of the lines. Browser
  scripts, templates, request parsing and response formatting around the services; the
  routes whose order of calls matters (streams, sites, origins, scheduled changes) are
  modelled where they call a component.
* **SQL**: `db/repository.ts` is mostly one statement per function. The statements that
  decide a race are actions; the rest store and list values. Migrations run once, alone,
  before anything else.
* **Pure matching**: addresses, rules, bots, rulesets, policies of one request: string and
  address work without shared state, within reach of unit tests.
* **External**: ACME, OIDC signatures, mail, the databases, the Local API, firewalls; where
  `src/` relies on them their behaviour is a nondeterministic outcome.
* **Within modelled parts**: the awaits inside a catch-up and its pages, the clocks of the
  quorum fence, enrolment; `removeSite` of the health checks, checks of streams; global
  against site destinations of notifications; scopes, cap and alerts of CrowdSec and
  its AppSec; several firewall providers and the creation of one.

The map therefore covers a small share of the repository's lines and most of the code
whose correctness depends on the order of steps: the cluster, and the background
services that reconcile a stored state with the world outside. Raising the share means
modelling interface and request handling, which have no states a model checker would
tell apart. `PROJECT.json` gives status and reason for every component.

Hazards that are listed in no property and were left out of the list for its length: the
coalesced reload of the TLS listener (`tls-listener-service.ts:138`), totals and purge of the
static cache (`static-cache-service.ts:382`, `:390`), the list a refresh of the load balancer
replaces (`load-balancer-service.ts:55`), the two arrays of the connection tracker
(`stream-connection-tracker.ts:77`), a handler of an old connection
(`ha-mesh-service.ts:2481`) and the election fence read across an await
(`ha-election-service.ts:320`).
