---------------------------- MODULE OriginHealth ----------------------------
(***************************************************************************)
(* Health checks of the origins of one site: the runtime of each origin,   *)
(* the checks in flight, the pool state made of them, what is stored, and  *)
(* the alerts handed to Notifications                                      *)
(* (src/src/services/origin-health-service.ts).                            *)
(*                                                                         *)
(* Time is left out: a scheduled check may start at any moment and the     *)
(* counters stop at their thresholds, beyond which nothing looks at them.  *)
(* A settings key is the site's switch and the revision of the origin.     *)
(***************************************************************************)
EXTENDS Notifications, FiniteSets, SequencesExt

CONSTANTS
    Origin,             \* the origins that ever belong to the site
    Static,             \* those of them with origin_type "static"
    Roles,              \* of the node: TRUE is a replica
    NoRuntime,
    FailureThreshold, RecoveryThreshold,
    MaxActive,          \* MAX_CONCURRENT_CHECKS
    MaxFlips,           \* bound: changes of what the origins answer
    MaxEdits,           \* bound: changes of the configuration
    MaxManual,          \* bound: checks asked for by an administrator
    MaxFaults           \* bound: failing statements, time-outs and restarts

ASSUME ThresholdsPositive == {FailureThreshold, RecoveryThreshold, MaxActive} \subseteq Nat \ {0}
ASSUME OriginsFinite == IsFiniteSet(Origin) /\ Static \subseteq Origin
ASSUME RolesBoolean == Roles \subseteq BOOLEAN
ASSUME EditsNat == MaxEdits \in Nat

VARIABLES
    replica,            \* the node follows a primary: its configuration is replicated
    up,                 \* the origins that answer with 2xx
    on, onVersion,      \* the site and its health checks are enabled; history: how often that changed
    origins,            \* site_origins: status and revision
    runtime,            \* this.runtime
    pool,               \* this.poolStatuses.get(site)
    saved, savedPool,   \* origin_backend_health_status, origin_health_status
    checks,             \* calls of runCheck
    manual,             \* the origins a checkNow still has to check
    copied,             \* the alert setting in the runtime's copies of the site
    refreshes,          \* refreshes under way and what they have read, by the change they follow
    appliedVersion,     \* history: the newest site row the runtime was made from
    appliedOrigins,     \* history: the newest rows of the origins it was made from
    overtaken,          \* history: the last refresh applied had older rows than one before it
    missed,             \* history: a refresh failed with newer rows to apply, and none has applied them since
    muddled,            \* history: the configuration changed, a step failed or alerts crossed
    flips, edits, asked, faults

config == <<on, onVersion, origins>>
health == <<runtime, pool, saved, savedPool, checks, manual>>
applied == <<copied, appliedVersion, appliedOrigins, overtaken, missed>>
refreshing == <<refreshes, applied>>
bounds == <<flips, edits, asked, faults>>
vars == <<replica, up, config, health, refreshing, muddled, bounds, notification>>

State == {"disabled", "unknown", "degraded", "healthy", "unhealthy"}
None == "none"

OriginRow == [status : {"enabled", "disabled", "absent"}, revision : 0..MaxEdits]
Runtime == [gen : Nat, on : BOOLEAN, status : {"enabled", "disabled"}, revision : 0..MaxEdits,
            state : State, failures : 0..FailureThreshold, successes : 0..RecoveryThreshold,
            running : BOOLEAN, scheduled : BOOLEAN]

NoRows == [o \in Origin |-> [status |-> "absent", revision |-> 0]]
RefreshRecord == [edit : Nat, pc : {"site", "origins", "apply"}, on : BOOLEAN, alerts : BOOLEAN, version : Nat,
                  rows : [Origin -> OriginRow], seen : Nat]

ASSUME NoRuntimeDistinct == NoRuntime \notin Runtime

Slot == 1..(MaxActive + 1)
Check == [slot : Slot, origin : Origin, gen : Nat, by : {"tick", "admin"}, pc : {"fetch", "store", "alert"},
          was : State, now : State, poolWas : State, alert : Alert \union {Silence}]

TypeOK ==
    /\ replica \in BOOLEAN /\ up \subseteq Origin /\ on \in BOOLEAN /\ onVersion \in Nat
    /\ origins \in [Origin -> OriginRow]
    /\ runtime \in [Origin -> Runtime \union {NoRuntime}]
    /\ pool \in State /\ savedPool \in State \union {None} /\ saved \in [Origin -> State \union {None}]
    /\ checks \subseteq Check
    /\ manual \in Seq([origin : Origin, gen : Nat])
    /\ refreshes \subseteq RefreshRecord /\ {copied, overtaken, missed, muddled} \subseteq BOOLEAN
    /\ {appliedVersion, appliedOrigins} \subseteq Nat
    /\ NotificationTypeOK

(***************************************************************************)
(* The states of an origin and of the pool                                 *)
(***************************************************************************)

AtLeast(a, b) == IF a < b THEN a ELSE b

(* advanceOriginHealthState                                                *)
Advanced(r, healthy) ==
    IF healthy
    THEN LET s == AtLeast(r.successes + 1, RecoveryThreshold)
         IN  [r EXCEPT !.failures = 0, !.successes = s,
                       !.state = IF s = RecoveryThreshold THEN "healthy"
                                 ELSE IF @ = "unhealthy" THEN "unhealthy" ELSE "degraded"]
    ELSE LET f == AtLeast(r.failures + 1, FailureThreshold)
         IN  [r EXCEPT !.successes = 0, !.failures = f,
                       !.state = IF f = FailureThreshold \/ @ = "unhealthy" THEN "unhealthy" ELSE "degraded"]

(* aggregateState over the enabled origins of the runtime                  *)
Aggregate(rt, isOn) ==
    LET states == {rt[o].state : o \in {x \in Origin : rt[x] # NoRuntime /\ rt[x].status = "enabled"}}
    IN  CASE ~isOn -> "disabled"
          [] isOn /\ states = {} -> "unhealthy"
          [] isOn /\ "healthy" \in states -> "healthy"
          [] isOn /\ "healthy" \notin states /\ "degraded" \in states -> "degraded"
          [] OTHER -> IF states = {"unhealthy"} THEN "unhealthy" ELSE "unknown"

(* recomputePool with preserveIncident: an incident stays open until an    *)
(* origin is healthy.                                                      *)
Preserved(rt, isOn, previous) ==
    IF isOn /\ previous = "unhealthy" /\ Aggregate(rt, isOn) # "healthy" THEN "unhealthy" ELSE Aggregate(rt, isOn)

(* healthStatusAfterConfigurationChange: an incident survives.             *)
StateAfterChange(enabled, previous) ==
    IF ~enabled THEN "disabled" ELSE IF previous = "unhealthy" THEN "unhealthy" ELSE "unknown"

(* setRuntimeOrigin                                                        *)
Reset(o, row, isOn, previous) ==
    LET enabled == o \notin Static /\ isOn /\ row.status = "enabled"
        existing == runtime[o]
        same == existing # NoRuntime /\ <<existing.on, existing.status, existing.revision>> =
                                        <<isOn, row.status, row.revision>>
    IN  IF same THEN existing
        ELSE [gen |-> IF existing = NoRuntime THEN 0 ELSE existing.gen + 1,
              on |-> isOn, status |-> row.status, revision |-> row.revision,
              state |-> StateAfterChange(enabled, previous),
              failures |-> 0, successes |-> 0, running |-> FALSE, scheduled |-> enabled]

StateOf(r) == IF r = NoRuntime THEN None ELSE r.state

(* Faulty variant: the runtime of a deleted origin is left.                *)
RefreshedInPlace(isOn, rows) ==
    [o \in Origin |-> IF rows[o].status = "absent" THEN runtime[o]
                      ELSE Reset(o, rows[o], isOn, StateOf(runtime[o]))]

(* refreshSite                                                             *)
Refreshed(isOn, rows) ==
    [o \in Origin |-> IF rows[o].status = "absent" THEN NoRuntime
                      ELSE Reset(o, rows[o], isOn, StateOf(runtime[o]))]

(* initialize on a node that is running: nothing is removed, and the       *)
(* stored status stands for the one in memory.                             *)
Reinitialized(isOn, rows) ==
    [o \in Origin |-> IF rows[o].status = "absent" THEN runtime[o]
                      ELSE Reset(o, rows[o], isOn, saved[o])]

Fresh(o) ==
    LET enabled == o \notin Static /\ on /\ origins[o].status = "enabled"
    IN  [gen |-> 0, on |-> on, status |-> origins[o].status, revision |-> origins[o].revision,
         state |-> StateAfterChange(enabled, saved[o]),
         failures |-> 0, successes |-> 0, running |-> FALSE, scheduled |-> enabled]

(* initialize of a new process                                             *)
Initialized == [o \in Origin |-> IF origins[o].status = "absent" THEN NoRuntime ELSE Fresh(o)]

Init ==
    /\ NotificationInit
    /\ replica \in Roles
    /\ up \in SUBSET (Origin \ Static)
    /\ on = TRUE /\ onVersion = 0
    /\ origins = [o \in Origin |-> [status |-> "enabled", revision |-> 0]]
    /\ saved = [o \in Origin |-> None] /\ savedPool = None
    /\ runtime = Initialized
    /\ pool = Aggregate(runtime, TRUE)
    /\ checks = {} /\ manual = <<>> /\ refreshes = {}
    /\ copied = alerting /\ appliedVersion = 0 /\ appliedOrigins = 0 /\ overtaken = FALSE /\ missed = FALSE
    /\ muddled = FALSE
    /\ flips = MaxFlips /\ edits = 0 /\ asked = MaxManual /\ faults = MaxFaults

(***************************************************************************)
(* runCheck                                                                *)
(***************************************************************************)

Taken(o, i) == \E c \in checks : c.origin = o /\ c.slot = i

(* A new call; its slot only tells two calls for one origin apart.         *)
Started(o, by) == [slot |-> CHOOSE i \in Slot : ~Taken(o, i) /\ \A j \in 1..(i - 1) : Taken(o, j),
                   origin |-> o, gen |-> runtime[o].gen, by |-> by, pc |-> "fetch",
                   was |-> "unknown", now |-> "unknown", poolWas |-> "unknown", alert |-> Silence]

(* tick                                                                    *)
Tick(o) ==
    /\ runtime[o] # NoRuntime /\ Cardinality(checks) < MaxActive
    /\ runtime[o].scheduled /\ ~runtime[o].running /\ runtime[o].on /\ runtime[o].status = "enabled"
    /\ runtime' = [runtime EXCEPT ![o].running = TRUE]
    /\ checks' = checks \union {Started(o, "tick")}
    /\ UNCHANGED <<replica, up, config, pool, saved, savedPool, manual, refreshing, muddled, bounds, notification>>

(* The next origin of a checkNow, whether a check of it runs or not; the   *)
(* check of an origin that was replaced since has no effect.               *)
NextManual ==
    /\ manual # <<>> /\ \A c \in checks : c.by # "admin"
    /\ manual' = Tail(manual)
    /\ LET o == Head(manual).origin
       IN  IF runtime[o] # NoRuntime /\ runtime[o].gen = Head(manual).gen
           THEN /\ runtime' = [runtime EXCEPT ![o].running = TRUE]
                /\ checks' = checks \union {Started(o, "admin")}
           ELSE UNCHANGED <<runtime, checks>>
    /\ UNCHANGED <<replica, up, config, pool, saved, savedPool, refreshing, muddled, bounds, notification>>

Current(c) == runtime[c.origin] # NoRuntime /\ runtime[c.origin].gen = c.gen

(* Faulty variant: nothing marks the end of a check.                       *)
StillRunning(c) == runtime

(* The finally branch                                                      *)
Released(c) ==
    IF Current(c) THEN [runtime EXCEPT ![c.origin].running = FALSE, ![c.origin].scheduled = TRUE] ELSE runtime

(* The answer of performCheck arrives, or the request times out.  A static *)
(* origin has no URL to fetch.                                             *)
Answer(c) ==
    /\ c \in checks /\ c.pc = "fetch"
    /\ \E healthy \in BOOLEAN :
          /\ healthy => c.origin \in up
          /\ ~healthy /\ c.origin \in up => faults > 0
          /\ faults' = IF ~healthy /\ c.origin \in up THEN faults - 1 ELSE faults
          /\ IF Current(c)
             THEN /\ runtime' = [runtime EXCEPT ![c.origin] = Advanced(@, healthy)]
                  /\ checks' = (checks \ {c}) \union
                        {[c EXCEPT !.pc = "store", !.was = runtime[c.origin].state, !.now = runtime'[c.origin].state,
                                   !.poolWas = pool]}
             ELSE checks' = checks \ {c} /\ UNCHANGED runtime
    /\ UNCHANGED <<replica, up, config, pool, saved, savedPool, manual, refreshing, muddled, flips, edits, asked,
                   notification>>

(* The event of a transition of the pool or, without one, of the origin    *)
AlertOf(c, new) ==
    CASE c.poolWas # new /\ new = "unhealthy" -> "pool_unhealthy"
      [] c.poolWas = "unhealthy" /\ new = "healthy" -> "pool_recovered"
      [] c.poolWas = new /\ c.was # "unhealthy" /\ c.now = "unhealthy" -> "origin"
      [] c.poolWas = new /\ c.was = "unhealthy" /\ c.now = "healthy" -> "origin"
      [] OTHER -> Silence

(* The values read before are not used any more.                           *)
Alerting(c, a) == [c EXCEPT !.pc = "alert", !.alert = a, !.was = "unknown", !.now = "unknown", !.poolWas = "unknown"]

(* The awaits up to recomputePool (a status that did not change is stored  *)
(* every STATUS_PERSIST_INTERVAL_MS), which takes the site to be as it was *)
(* when the check started (checks start only while it is on), and the      *)
(* transition against the pool state read before them                      *)
Store(c) ==
    /\ c \in checks /\ c.pc = "store"
    /\ \/ saved' = [saved EXCEPT ![c.origin] = c.now]
       \/ c.now = c.was /\ UNCHANGED saved
    /\ pool' = Aggregate(runtime, TRUE)
    /\ savedPool' = IF c.poolWas # pool' THEN pool' ELSE savedPool
    /\ IF AlertOf(c, pool') = Silence /\ c.poolWas = pool'
       THEN checks' = checks \ {c} /\ runtime' = Released(c)
       ELSE /\ checks' = (checks \ {c}) \union {Alerting(c, AlertOf(c, pool'))}
            /\ UNCHANGED runtime
    /\ muddled' = (muddled \/ \E d \in checks \ {c} : IF d.origin = c.origin THEN d.pc # "fetch"
                                                         ELSE d.pc = "alert" /\ pool' # pool)
    /\ UNCHANGED <<replica, up, config, manual, refreshing, bounds, notification>>

(* A statement fails before the pool is recomputed.                        *)
StoreFails(c) ==
    /\ c \in checks /\ c.pc = "store" /\ faults > 0
    /\ faults' = faults - 1
    /\ saved' \in {saved, [saved EXCEPT ![c.origin] = c.now]}
    /\ checks' = checks \ {c}
    /\ runtime' = Released(c)
    /\ muddled' = TRUE
    /\ UNCHANGED <<replica, up, config, pool, savedPool, manual, refreshing, flips, edits, asked, notification>>

(* The pool status and its event are stored, the alert is recorded with    *)
(* the runtime's copy of the site.  The copy in a runtime that was         *)
(* replaced since may say anything.                                        *)
Finish(c) ==
    /\ c \in checks /\ c.pc = "alert"
    /\ \/ \E enabled \in BOOLEAN :
             /\ Current(c) => enabled = copied
             /\ Recorded(c.alert, enabled)
             /\ UNCHANGED faults
       \/ faults > 0 /\ faults' = faults - 1 /\ NotRecorded(c.alert)
    /\ checks' = checks \ {c}
    /\ runtime' = Released(c)
    /\ UNCHANGED <<replica, up, config, pool, saved, savedPool, manual, refreshing, muddled, flips, edits, asked,
                   alerting, heard, toggles>>

(***************************************************************************)
(* Configuration                                                           *)
(***************************************************************************)

Edited == edits < MaxEdits /\ edits' = edits + 1 /\ muddled' = TRUE

(* The request that made the i-th change goes on with refreshSite; on a    *)
(* replica the row arrives and initialize is called.                       *)
RefreshDue(i) ==
    refreshes' = refreshes \union {[edit |-> i, pc |-> "site", on |-> FALSE, alerts |-> FALSE, version |-> 0,
                                    rows |-> NoRows, seen |-> 0]}

(* updateSite turns the site or its checks off or on.                      *)
EditSite ==
    /\ Edited /\ on' = ~on /\ onVersion' = onVersion + 1
    /\ RefreshDue(edits')
    /\ UNCHANGED <<replica, up, origins, health, applied, flips, asked, faults, notification>>

(* updateOrigin or deleteOrigin                                            *)
EditOrigin(o, status) ==
    /\ origins[o].status # "absent" /\ Edited
    /\ origins' = [origins EXCEPT ![o] = [status |-> status, revision |-> edits']]
    /\ saved' = IF status = "absent" /\ ~replica THEN [saved EXCEPT ![o] = None] ELSE saved
    /\ RefreshDue(edits')
    /\ UNCHANGED <<replica, up, on, onVersion, runtime, pool, savedPool, checks, manual, applied,
                   flips, asked, faults, notification>>

(* The alert setting changes.  Its own route leaves the primary's runtime  *)
(* alone (PUT notification-policy), updateSite's refreshes it.             *)
EditAlerts ==
    /\ Toggle
    /\ RefreshDue(MaxEdits + 1 + toggles') \/ (~replica /\ UNCHANGED refreshes)
    /\ UNCHANGED <<replica, up, config, health, applied, muddled, bounds>>

(* The site row is read (refreshes that have read nothing are alike, so it *)
(* may as well be the oldest that goes on) ...                             *)
ReadSite(f) ==
    /\ f \in refreshes /\ f.pc = "site" /\ \A g \in refreshes : g.pc = "site" => f.edit <= g.edit
    /\ refreshes' = (refreshes \ {f}) \union
          {[f EXCEPT !.pc = "origins", !.on = on, !.alerts = alerting, !.version = onVersion]}
    /\ UNCHANGED <<replica, up, config, health, applied, muddled, bounds, notification>>

OriginsVersion == edits - onVersion
Later(a, b) == IF a < b THEN b ELSE a

(* ... then the origins ...                                                *)
ReadOrigins(f) ==
    /\ f \in refreshes /\ f.pc = "origins"
    /\ refreshes' = (refreshes \ {f}) \union {[f EXCEPT !.pc = "apply", !.rows = origins, !.seen = OriginsVersion]}
    /\ UNCHANGED <<replica, up, config, health, applied, muddled, bounds, notification>>

(* ... and both are applied.  An unchanged key keeps the runtime and takes *)
(* the site.  Storing the pool's status is the last statement and may      *)
(* fail.                                                                   *)
Refresh(f) ==
    /\ f \in refreshes /\ f.pc = "apply"
    /\ refreshes' = refreshes \ {f}
    /\ runtime' = IF replica THEN Reinitialized(f.on, f.rows) ELSE Refreshed(f.on, f.rows)
    /\ pool' = Preserved(runtime', f.on, IF replica THEN savedPool ELSE pool)
    /\ \/ savedPool' = (IF replica THEN savedPool ELSE pool') /\ UNCHANGED faults
       \/ ~replica /\ faults > 0 /\ faults' = faults - 1 /\ UNCHANGED savedPool
    /\ copied' = f.alerts
    /\ overtaken' = (f.version < appliedVersion \/ f.seen < appliedOrigins)
    /\ appliedVersion' = Later(f.version, appliedVersion)
    /\ appliedOrigins' = Later(f.seen, appliedOrigins)
    /\ missed' = (missed /\ (f.version < onVersion \/ f.seen < OriginsVersion))
    /\ muddled' = (muddled \/ pool' # pool)
    /\ UNCHANGED <<replica, up, config, saved, checks, manual, flips, edits, asked, notification>>

(* One of the two reads fails, and the request or the replica's rebuild    *)
(* with it; the change stays.                                              *)
RefreshFails(f) ==
    /\ f \in refreshes /\ f.pc # "apply" /\ faults > 0
    /\ faults' = faults - 1
    /\ refreshes' = refreshes \ {f}
    /\ missed' = (missed \/ appliedVersion < onVersion \/ appliedOrigins < OriginsVersion)
    /\ UNCHANGED <<replica, up, config, health, copied, appliedVersion, appliedOrigins, overtaken, muddled,
                   flips, edits, asked, notification>>

(* The runtime is made of the newest rows.                                 *)
NewestApplied ==
    /\ copied' = alerting /\ appliedVersion' = onVersion /\ appliedOrigins' = OriginsVersion
    /\ overtaken' = FALSE /\ missed' = FALSE

Targets(S, rt) == {o \in S : rt[o] # NoRuntime /\ rt[o].status = "enabled"}

(* checkNow, of one origin or of all: refreshSite, in one step here, then  *)
(* the targets one after the other, unless there is none or one is being   *)
(* checked.                                                                *)
CheckNow(S) ==
    /\ asked > 0 /\ asked' = asked - 1 /\ manual = <<>> /\ \A c \in checks : c.by # "admin"
    /\ runtime' = Refreshed(on, origins)
    /\ pool' = Preserved(runtime', on, pool) /\ savedPool' = pool'
    /\ NewestApplied
    /\ muddled' = (muddled \/ pool' # pool)
    /\ IF on /\ Targets(S, runtime') # {} /\ \A o \in Targets(S, runtime') : ~runtime'[o].running
       THEN \E q \in SetToSeqs(Targets(S, runtime')) :
               manual' = [i \in DOMAIN q |-> [origin |-> q[i], gen |-> runtime'[q[i]].gen]]
       ELSE UNCHANGED manual
    /\ UNCHANGED <<replica, up, config, saved, checks, refreshes, flips, edits, faults, notification>>

(***************************************************************************)
(* The environment                                                         *)
(***************************************************************************)

(* An origin stops answering, or answers again.                            *)
Flip(o) ==
    /\ o \notin Static /\ flips > 0 /\ flips' = flips - 1
    /\ up' = IF o \in up THEN up \ {o} ELSE up \union {o}
    /\ UNCHANGED <<replica, config, health, refreshing, muddled, edits, asked, faults, notification>>

(* The process restarts (initialize).                                      *)
Restart ==
    /\ faults > 0 /\ faults' = faults - 1
    /\ runtime' = Initialized
    /\ pool' = Preserved(runtime', on, savedPool)
    /\ checks' = {} /\ manual' = <<>> /\ refreshes' = {}
    /\ NewestApplied
    /\ muddled' = (muddled \/ \E c \in checks : c.pc # "fetch")
    /\ UNCHANGED <<replica, up, config, saved, savedPool, flips, edits, asked, notification>>

Deliver ==
    /\ DeliverOne
    /\ UNCHANGED <<replica, up, config, health, refreshing, muddled, bounds>>

DeliveryFault ==
    /\ faults > 0 /\ faults' = faults - 1
    /\ DeliverAgain
    /\ UNCHANGED <<replica, up, config, health, refreshing, muddled, flips, edits, asked>>

CheckStep(o, i) ==
    \E c \in checks : c.origin = o /\ c.slot = i /\ (Answer(c) \/ Store(c) \/ StoreFails(c) \/ Finish(c))

Next ==
    \/ \E o \in Origin : Tick(o) \/ Flip(o) \/ \E s \in {"enabled", "disabled", "absent"} : EditOrigin(o, s)
    \/ NextManual \/ \E o \in Origin : \E i \in Slot : CheckStep(o, i)
    \/ EditSite \/ EditAlerts \/ \E f \in refreshes : ReadSite(f) \/ ReadOrigins(f) \/ Refresh(f) \/ RefreshFails(f)
    \/ CheckNow(Origin) \/ \E o \in Origin : CheckNow({o})
    \/ Restart \/ Deliver \/ DeliveryFault

Spec == Init /\ [][Next]_vars

(* Timers fire and awaited calls end.  The webhook is not trusted to       *)
(* answer.                                                                 *)
Fairness ==
    /\ \A o \in Origin : WF_vars(Tick(o))
    /\ WF_vars(NextManual) /\ \A o \in Origin : \A i \in Slot : WF_vars(CheckStep(o, i))
    /\ WF_vars(\E f \in refreshes : ReadSite(f) \/ ReadOrigins(f) \/ Refresh(f))
    /\ WF_vars(Deliver)

FairSpec == Spec /\ Fairness

(***************************************************************************)
(* Properties                                                              *)
(***************************************************************************)

(* When no check has its answer and no alert waits, the last alert about   *)
(* the pool that the receiver got is the truth, unless an alert was lost:  *)
(* an outage was announced, its end too, and no newer alert was overtaken  *)
(* by an older one (runCheck's comparison with a pool state it read before *)
(* its awaits, pendingNotificationOutbox).  An alert is lost when it is    *)
(* given up, when a statement fails, when the destination is off, and when *)
(* the runtime's copy of the site still says so, as it does on the primary *)
(* after the notification policy was enabled, until something refreshes    *)
(* the site.  Changes of the configuration change the pool without an      *)
(* alert and are left out, as are alerts of two checks that cross on their *)
(* way to the outbox.  It does not hold of a static origin that a checkNow *)
(* checks: after a restart it is "disabled" again, and an incident it was  *)
(* part of ends without an alert.                                          *)
OperatorKnowsThePool ==
    outbox = <<>> /\ ~lost /\ ~muddled /\ (\A c \in checks : c.pc = "fetch")
        => (heard = "pool_unhealthy" <=> pool = "unhealthy")

(* When every refresh is over, none of them failed before the newest rows  *)
(* were applied and the last one applied was not older than one before it, *)
(* the primary runs exactly the stored origins with their stored settings, *)
(* however refreshes, checks and restarts were interleaved (refreshSite).  *)
RuntimeFollowsConfig ==
    ~replica /\ refreshes = {} /\ ~missed /\ ~overtaken =>
        \A o \in Origin :
            IF origins[o].status = "absent" THEN runtime[o] = NoRuntime
            ELSE /\ runtime[o] # NoRuntime
                 /\ <<runtime[o].on, runtime[o].status, runtime[o].revision>> =
                    <<on, origins[o].status, origins[o].revision>>

Checked(o) == runtime[o] # NoRuntime /\ runtime[o].on /\ runtime[o].status = "enabled" /\ o \notin Static

(* Once the origins stay as they are, every checked origin gets and keeps  *)
(* the state that it deserves, and the pool the one that follows from it:  *)
(* no failing statement, no crossing check and no change of the settings   *)
(* stops the checks of an origin or leaves an incident open for ever       *)
(* (runCheck's finally, recomputePool).                                    *)
HealthConverges ==
    <>[](\A o \in Origin : Checked(o) =>
            /\ runtime[o].state = IF o \in up THEN "healthy" ELSE "unhealthy"
            /\ pool = Aggregate(runtime, TRUE))

(* Every queued alert is delivered or given up in the end, whatever the    *)
(* webhook answers (deliverOne's limit of attempts).                       *)
OutboxDrains == <>[](outbox = <<>>)
=============================================================================
