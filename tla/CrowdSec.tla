------------------------------ MODULE CrowdSec ------------------------------
(***************************************************************************)
(* The poller of a CrowdSec Local API: full snapshots and deltas, changes  *)
(* of the settings and refreshes while a poll is in flight, failures, the  *)
(* snapshot on disk and restarts (src/src/services/crowdsec-service.ts).   *)
(*                                                                         *)
(* The Local API is external: it keeps its decisions and, for the bouncer, *)
(* what changed since its last pull.                                       *)
(***************************************************************************)
EXTENDS CrowdSecStore, FiniteSets

CONSTANTS
    Source,             \* Local APIs the settings may name
    MaxTime,            \* bound: the clock
    MaxIssued,          \* bound: decisions issued or withdrawn by the Local APIs
    MaxSaves,           \* bound: changes of the settings
    MaxFaults           \* bound: failed polls, failed writes, restarts and connection tests

ASSUME SourceNonempty == Source # {}
ASSUME BoundsNat == {MaxTime, MaxIssued, MaxSaves, MaxFaults} \subseteq Nat

VARIABLES
    now,
    lapi,               \* per source: active decisions, and the changes since the last pull
    settings,           \* this.settings: enabled, and the source named
    timer,              \* this.timer is set
    reloads,            \* calls of reload between their assignments and applyTimer
    store,              \* crowdSecDecisions
    needsFullSync,
    poll,               \* this.inFlight
    disk,               \* SNAPSHOT_PATH
    drifted,            \* history: decisions of another source, a pull by someone else,
                        \* or decisions cleared under a delta that was already pulled
    lingering,          \* history: a poll was in flight when the integration was disabled
    issued, saves, faults

bounds == <<issued, saves, faults>>
vars == <<now, lapi, settings, timer, reloads, store, needsFullSync, poll, disk, drifted, lingering, bounds>>

Idle == [pc |-> "idle"]
Settings == [on : BOOLEAN, source : Source]

(* runPoll up to its first await                                           *)
Polling == [pc |-> "key", source |-> settings.source]

TypeOK ==
    /\ now \in 0..MaxTime
    /\ lapi \in [Source -> [active : SUBSET Decision, added : SUBSET Decision, deleted : SUBSET Decision]]
    /\ settings \in Settings /\ timer \in BOOLEAN /\ reloads \in 0..MaxSaves
    /\ store \in Store /\ Cardinality(Held(store)) = Len(store.parked) + (IF store.top = NoDecision THEN 0 ELSE 1)
    /\ needsFullSync \in BOOLEAN /\ drifted \in BOOLEAN /\ lingering \in BOOLEAN
    /\ poll = Idle \/ poll.pc \in {"key", "answer", "adopt", "done", "failed"}
    /\ disk \in Seq(Decision)

Init ==
    /\ now = 0
    /\ lapi = [s \in Source |-> [active |-> {}, added |-> {}, deleted |-> {}]]
    /\ settings = [on |-> TRUE, source |-> CHOOSE s \in Source : TRUE]
    /\ timer = TRUE /\ reloads = 0
    /\ store = Empty /\ needsFullSync = TRUE /\ poll = Polling /\ disk = <<>>
    /\ drifted = FALSE /\ lingering = FALSE
    /\ issued = 0 /\ saves = 0 /\ faults = 0

(***************************************************************************)
(* The Local API                                                           *)
(***************************************************************************)

Pulled(s) == [lapi EXCEPT ![s].added = {}, ![s].deleted = {}]

(* A decision is issued ...                                                *)
Issue(s, d) ==
    /\ issued < MaxIssued /\ issued' = issued + 1
    /\ InForce(d, now) /\ d \notin lapi[s].active \union lapi[s].deleted
    /\ lapi' = [lapi EXCEPT ![s].active = @ \union {d}, ![s].added = @ \union {d}]
    /\ UNCHANGED <<now, settings, timer, reloads, store, needsFullSync, poll, disk, drifted, lingering, saves, faults>>

(* ... or withdrawn.                                                       *)
Withdraw(s, d) ==
    /\ issued < MaxIssued /\ issued' = issued + 1
    /\ d \in lapi[s].active
    /\ lapi' = [lapi EXCEPT ![s].active = @ \ {d}, ![s].added = @ \ {d}, ![s].deleted = @ \union {d}]
    /\ UNCHANGED <<now, settings, timer, reloads, store, needsFullSync, poll, disk, drifted, lingering, saves, faults>>

(* Time passes; what lapses is deleted by the Local API as well.           *)
Tick ==
    /\ now < MaxTime /\ now' = now + 1
    /\ lapi' = [s \in Source |->
                  LET gone == {d \in lapi[s].active : ~InForce(d, now')}
                  IN  [active |-> lapi[s].active \ gone, added |-> lapi[s].added \ gone,
                       deleted |-> lapi[s].deleted \union gone]]
    /\ UNCHANGED <<settings, timer, reloads, store, needsFullSync, poll, disk, drifted, lingering, bounds>>

(***************************************************************************)
(* Polls                                                                   *)
(***************************************************************************)

(* poll: the timer's, or the one of refreshNow; one that is in flight is   *)
(* joined.                                                                 *)
StartPoll ==
    /\ poll = Idle /\ settings.on /\ timer
    /\ poll' = Polling
    /\ UNCHANGED <<now, lapi, settings, timer, reloads, store, needsFullSync, disk, drifted, lingering, bounds>>

(* refreshNow                                                              *)
Refresh ==
    /\ needsFullSync' = TRUE
    /\ poll' = IF poll = Idle /\ settings.on THEN Polling ELSE poll
    /\ UNCHANGED <<now, lapi, settings, timer, reloads, store, disk, drifted, lingering, bounds>>

(* Faulty variant: no full sync when its interval has passed.              *)
SyncOnDemand == {needsFullSync}

(* needsFullSync || dueForFullSync; the interval may have passed.          *)
Startup == {needsFullSync, TRUE}

(* After the key is decrypted the kind of poll is chosen and the Local API *)
(* answers.                                                                *)
Request ==
    /\ poll.pc = "key"
    /\ \E startup \in Startup, list \in SetToSeqs(lapi[poll.source].active) :
          \/ /\ startup
             /\ poll' = [pc |-> "answer", source |-> poll.source, startup |-> TRUE, added |-> list, deleted |-> <<>>]
          \/ /\ ~startup
             /\ \E add \in SetToSeqs(lapi[poll.source].added), del \in SetToSeqs(lapi[poll.source].deleted) :
                   poll' = [pc |-> "answer", source |-> poll.source, startup |-> FALSE, added |-> add,
                            deleted |-> del]
    /\ lapi' = Pulled(poll.source)
    /\ drifted' = IF poll'.startup THEN poll.source # settings.source ELSE drifted
    /\ UNCHANGED <<now, settings, timer, reloads, store, needsFullSync, disk, lingering, bounds>>

(* The request fails, before or after the Local API has served it.         *)
RequestFails ==
    /\ poll.pc = "key" /\ faults < MaxFaults /\ faults' = faults + 1
    /\ lapi' \in {lapi, Pulled(poll.source)}
    /\ poll' = [pc |-> "failed"]
    /\ UNCHANGED <<now, settings, timer, reloads, store, needsFullSync, disk, drifted, lingering, issued, saves>>

(* A delta is applied at once; a snapshot is built with pauses in which    *)
(* the rest of the program runs.                                           *)
Apply ==
    /\ poll.pc = "answer"
    /\ \/ /\ poll.startup
          /\ poll' = [pc |-> "adopt", source |-> poll.source, built |-> Snapshot(poll.added, now)]
          /\ UNCHANGED <<store, needsFullSync>>
       \/ /\ ~poll.startup
          /\ store' = Delta(store, poll.added, poll.deleted, now)
          /\ needsFullSync' = FALSE
          /\ poll' = [pc |-> "done", startup |-> FALSE]
    /\ UNCHANGED <<now, lapi, settings, timer, reloads, disk, drifted, lingering, bounds>>

(* adopt; needsFullSync is cleared, even one that was set meanwhile.       *)
Adopt ==
    /\ poll.pc = "adopt"
    /\ store' = poll.built
    /\ needsFullSync' = FALSE
    /\ poll' = [pc |-> "done", startup |-> TRUE]
    /\ UNCHANGED <<now, lapi, settings, timer, reloads, disk, drifted, lingering, bounds>>

(* onSuccess: after a full sync the decisions are written to disk.         *)
Success ==
    /\ poll.pc = "done"
    /\ \/ disk' = (IF poll.startup THEN Exported(store) ELSE disk)
          /\ UNCHANGED faults
       \/ poll.startup /\ faults < MaxFaults /\ faults' = faults + 1 /\ UNCHANGED disk
    /\ poll' = Idle
    /\ UNCHANGED <<now, lapi, settings, timer, reloads, store, needsFullSync, drifted, lingering, issued, saves>>

(* Faulty variant: the sequence of deltas goes on after a failure.         *)
FailureSkipped ==
    /\ poll.pc = "failed"
    /\ poll' = Idle
    /\ UNCHANGED <<now, lapi, settings, timer, reloads, store, needsFullSync, disk, drifted, lingering, bounds>>

(* The catch branch of runPoll                                             *)
Failure ==
    /\ poll.pc = "failed"
    /\ needsFullSync' = TRUE
    /\ poll' = Idle
    /\ UNCHANGED <<now, lapi, settings, timer, reloads, store, disk, drifted, lingering, bounds>>

(***************************************************************************)
(* Settings                                                                *)
(***************************************************************************)

(* saveCrowdSecSettings, and reload up to its await; another one may be at *)
(* that await.                                                             *)
Save(new) ==
    /\ saves < MaxSaves /\ saves' = saves + 1
    /\ settings' = new
    /\ needsFullSync' = TRUE
    /\ reloads' = reloads + 1
    /\ drifted' = (drifted \/ (poll # Idle /\ new.source # settings.source))
    /\ UNCHANGED <<now, lapi, timer, store, poll, disk, lingering, issued, faults>>

(* Without a timer of that interval a poll is started, or joined.          *)
Polled == IF settings.on /\ poll = Idle THEN {Polling} \union (IF timer THEN {Idle} ELSE {}) ELSE {poll}

(* Faulty variant: the decisions stay when the integration is disabled.    *)
TimerOnly ==
    /\ reloads > 0 /\ reloads' = reloads - 1
    /\ timer' = settings.on /\ poll' \in Polled
    /\ lingering' = (~settings.on /\ poll # Idle)
    /\ UNCHANGED <<now, lapi, settings, store, needsFullSync, disk, drifted, bounds>>

(* applyTimer                                                              *)
ApplyTimer ==
    /\ reloads > 0 /\ reloads' = reloads - 1
    /\ timer' = settings.on /\ poll' \in Polled
    /\ store' = IF settings.on THEN store ELSE Empty
    /\ lingering' = (~settings.on /\ poll # Idle)
    /\ drifted' = (drifted \/ (~settings.on /\ poll.pc = "answer" /\ ~poll.startup))
    /\ UNCHANGED <<now, lapi, settings, needsFullSync, disk, bounds>>

(* testConnection pulls a snapshot with the stored key.                    *)
TestConnection(s) ==
    /\ faults < MaxFaults /\ faults' = faults + 1
    /\ lapi' = Pulled(s)
    /\ drifted' = (drifted \/ s = settings.source)
    /\ UNCHANGED <<now, settings, timer, reloads, store, needsFullSync, poll, disk, lingering, issued, saves>>

(***************************************************************************)
(* Lookups, the sweep and restarts                                         *)
(***************************************************************************)

Lookup ==
    /\ store' = Evicted(store, now) /\ store' # store
    /\ UNCHANGED <<now, lapi, settings, timer, reloads, needsFullSync, poll, disk, drifted, lingering, bounds>>

Sweep ==
    /\ store' = Swept(store, now) /\ store' # store
    /\ UNCHANGED <<now, lapi, settings, timer, reloads, needsFullSync, poll, disk, drifted, lingering, bounds>>

(* The process starts again: restoreSnapshot, then polling                 *)
Restart ==
    /\ faults < MaxFaults /\ faults' = faults + 1
    /\ store' = IF settings.on THEN Snapshot(disk, now) ELSE Empty
    /\ needsFullSync' = TRUE /\ reloads' = 0 /\ timer' = settings.on
    /\ poll' = IF settings.on THEN Polling ELSE Idle
    /\ lingering' = FALSE
    /\ UNCHANGED <<now, lapi, settings, disk, drifted, issued, saves>>

PollStep == StartPoll \/ Request \/ RequestFails \/ Apply \/ Adopt \/ Success \/ Failure

Next ==
    \/ \E s \in Source, d \in Decision : Issue(s, d) \/ Withdraw(s, d)
    \/ Tick \/ PollStep \/ Refresh
    \/ \E new \in Settings : Save(new)
    \/ ApplyTimer \/ \E s \in Source : TestConnection(s)
    \/ Lookup \/ Sweep \/ Restart

Spec == Init /\ [][Next]_vars

(* The timer of the polls fires, awaited calls end, and the interval of    *)
(* full syncs passes again and again.                                      *)
Fairness ==
    /\ WF_vars(StartPoll) /\ WF_vars(Request) /\ WF_vars(Apply) /\ WF_vars(Adopt) /\ WF_vars(Success)
    /\ WF_vars(Failure) /\ WF_vars(ApplyTimer)
    /\ SF_vars(Request /\ poll'.startup)

FairSpec == Spec /\ Fairness

(***************************************************************************)
(* Properties                                                              *)
(***************************************************************************)

InForceNow(S) == {d \in S : InForce(d, now)}

(* Between polls, when the Local API has nothing new and the poller is in  *)
(* step with it, exactly the decisions that it has in force are held: no   *)
(* order of deltas, deletions, expiries, sweeps, failures, refreshes and   *)
(* restarts loses one or keeps one (runPoll, applyDelta, remove).  What    *)
(* puts it out of step until the next snapshot: a change of the Local API  *)
(* during a poll, a connection test, which takes the delta, and disabling  *)
(* while a delta is on its way, which is then put into the cleared store   *)
(* and, had the integration been enabled again, ends the full sync that    *)
(* was asked for.                                                          *)
HeldDecisionsCurrent ==
    poll = Idle /\ settings.on /\ timer /\ ~needsFullSync /\ ~drifted
        /\ lapi[settings.source].added = {} /\ lapi[settings.source].deleted = {}
    => InForceNow(Held(store)) = lapi[settings.source].active

(* When a lookup finds a decision, none that is held and in force outranks *)
(* it, whatever was inserted, removed or has lapsed before (insert,        *)
(* remove, live).                                                          *)
StrongestWins ==
    LET found == Found(store, now)
    IN  found # NoDecision => \A d \in InForceNow(Held(store)) \ {found} :
                                 Outranks(d, found) => Outranks(found, d)

(* Once the integration is disabled nothing is enforced any more, through  *)
(* restarts and refreshes too (applyTimer).  A poll that was in flight is  *)
(* the exception: it still puts its decisions in.                          *)
DisabledIsEmpty ==
    ~settings.on /\ reloads = 0 /\ ~lingering => store = Empty

(* The periodic full sync corrects every drift: once the Local API and the *)
(* settings stay as they are, exactly its decisions are enforced in the    *)
(* end (runPoll).                                                          *)
DriftIsCorrected ==
    <>[](settings.on => InForceNow(Held(store)) = lapi[settings.source].active)

(* What the comment in applyTimer and the test say of disabling:           *)
(* "Enforcement stops on disable", "so enforcement stops immediately".     *)
DisableStopsEnforcement ==
    ~settings.on /\ reloads = 0 => store = Empty
=============================================================================
