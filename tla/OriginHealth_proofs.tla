------------------------- MODULE OriginHealth_proofs -------------------------
(***************************************************************************)
(* Proofs about OriginHealth, for every number of origins and every bound. *)
(*                                                                         *)
(* RuntimeFollowsConfig speaks of moments at which no refresh is under     *)
(* way.  In between, what a refresh has read is the newest or carries an   *)
(* older version (NewestRead), the runtime has the switch and the origins  *)
(* of the rows applied last unless older ones overtook them                *)
(* (SwitchApplied, OriginsApplied), and the newest rows were applied or    *)
(* are on their way unless a refresh failed (NewestOnItsWay).              *)
(*                                                                         *)
(* OperatorKnowsThePool speaks of moments at which no check has its answer *)
(* and no alert waits.  In between, what the receiver will know once it    *)
(* has got the alerts on their way (Told) differs from what the origins    *)
(* are only while a check that saw the pool in the other state is about to *)
(* compare it again (Consistent), and the stored statuses tell the outages *)
(* a restart would find (Stored).                                          *)
(***************************************************************************)
EXTENDS OriginHealth, FiniteSetTheorems, WellFoundedInduction, TLAPS

USE DEF config, health, applied, refreshing, bounds

Types ==
    /\ replica \in BOOLEAN /\ on \in BOOLEAN /\ onVersion \in Nat /\ edits \in 0..MaxEdits /\ onVersion <= edits
    /\ appliedVersion \in Nat /\ appliedOrigins \in Nat /\ overtaken \in BOOLEAN /\ missed \in BOOLEAN
    /\ origins \in [Origin -> OriginRow]
    /\ runtime \in [Origin -> Runtime \union {NoRuntime}]
    /\ \A f \in refreshes : f \in [edit : {f.edit}, pc : {"site", "origins", "apply"}, on : BOOLEAN, alerts : {f.alerts},
                                   version : Nat, rows : [Origin -> OriginRow], seen : Nat]

NewestRead ==
    /\ appliedVersion <= onVersion /\ appliedOrigins <= OriginsVersion
    /\ \A f \in refreshes : f.pc # "site" => /\ f.version <= onVersion
                                             /\ f.version = onVersion => f.on = on
    /\ \A f \in refreshes : f.pc = "apply" => /\ f.seen <= OriginsVersion
                                              /\ f.seen = OriginsVersion => f.rows = origins

SwitchApplied ==
    ~replica /\ ~overtaken /\ appliedVersion = onVersion =>
        \A o \in Origin : runtime[o] # NoRuntime => runtime[o].on = on

Applied(o) ==
    IF origins[o].status = "absent" THEN runtime[o] = NoRuntime
    ELSE /\ runtime[o] # NoRuntime
         /\ runtime[o].status = origins[o].status /\ runtime[o].revision = origins[o].revision

OriginsApplied == ~replica /\ ~overtaken /\ appliedOrigins = OriginsVersion => \A o \in Origin : Applied(o)

(* A refresh that has the newest rows or will read them                    *)
Brings(f) == (f.pc = "site" \/ f.version = onVersion) /\ (f.pc # "apply" \/ f.seen = OriginsVersion)

NewestOnItsWay ==
    missed \/ (appliedVersion = onVersion /\ appliedOrigins = OriginsVersion) \/ \E f \in refreshes : Brings(f)

IInv == Types /\ NewestRead /\ SwitchApplied /\ OriginsApplied /\ NewestOnItsWay

(***************************************************************************)
(* What the operators on the runtime keep                                  *)
(***************************************************************************)

LEMMA AdvancedKeeps ==
    ASSUME NEW r \in Runtime, NEW h \in BOOLEAN
    PROVE  /\ Advanced(r, h) \in Runtime
           /\ Advanced(r, h).on = r.on /\ Advanced(r, h).status = r.status /\ Advanced(r, h).revision = r.revision
<1>1. /\ AtLeast(r.successes + 1, RecoveryThreshold) \in 0..RecoveryThreshold
      /\ AtLeast(r.failures + 1, FailureThreshold) \in 0..FailureThreshold
  BY ThresholdsPositive DEF AtLeast, Runtime
<1>2. 0 \in 0..RecoveryThreshold /\ 0 \in 0..FailureThreshold
  BY ThresholdsPositive
<1>3. PICK f \in 0..FailureThreshold, s \in 0..RecoveryThreshold, x \in State :
          Advanced(r, h) = [r EXCEPT !.failures = f, !.successes = s, !.state = x]
  <2>1. CASE h
    <3> DEFINE s == AtLeast(r.successes + 1, RecoveryThreshold)
               x == IF s = RecoveryThreshold THEN "healthy"
                    ELSE IF r.state = "unhealthy" THEN "unhealthy" ELSE "degraded"
    <3>1. Advanced(r, h) = [r EXCEPT !.failures = 0, !.successes = s, !.state = x]
      BY <2>1 DEF Advanced, Runtime
    <3>2. x \in State
      BY DEF State
    <3> QED BY <1>1, <1>2, <3>1, <3>2
  <2>2. CASE ~h
    <3> DEFINE f == AtLeast(r.failures + 1, FailureThreshold)
               x == IF f = FailureThreshold \/ r.state = "unhealthy" THEN "unhealthy" ELSE "degraded"
    <3>1. Advanced(r, h) = [r EXCEPT !.failures = f, !.successes = 0, !.state = x]
      BY <2>2 DEF Advanced, Runtime
    <3>2. x \in State
      BY DEF State
    <3> QED BY <1>1, <1>2, <3>1, <3>2
  <2> QED BY <2>1, <2>2
<1> QED BY <1>3 DEF Runtime

LEMMA StateAfterChangeType ==
    ASSUME NEW e \in BOOLEAN, NEW p
    PROVE  StateAfterChange(e, p) \in State
BY DEF StateAfterChange, State

(* setRuntimeOrigin leaves a runtime with the settings it is given.        *)
LEMMA ResetFollows ==
    ASSUME Types, NEW o \in Origin, NEW row \in OriginRow, NEW isOn \in BOOLEAN, NEW previous, row.status # "absent"
    PROVE  LET r == Reset(o, row, isOn, previous)
           IN  r \in Runtime /\ r.on = isOn /\ r.status = row.status /\ r.revision = row.revision
<1> DEFINE enabled == o \notin Static /\ isOn /\ row.status = "enabled"
           existing == runtime[o]
           same == existing # NoRuntime /\ <<existing.on, existing.status, existing.revision>> =
                                           <<isOn, row.status, row.revision>>
<1>1. /\ row.status \in {"enabled", "disabled"} /\ row.revision \in 0..MaxEdits
      /\ existing \in Runtime \union {NoRuntime}
  BY DEF Types, OriginRow
<1>2. CASE same
  <2>1. Reset(o, row, isOn, previous) = existing
    BY <1>2 DEF Reset
  <2> QED BY <1>1, <1>2, <2>1
<1>3. CASE ~same
  <2> DEFINE g == IF existing = NoRuntime THEN 0 ELSE existing.gen + 1
  <2>1. g \in Nat
    BY <1>1 DEF Runtime
  <2>2. StateAfterChange(enabled, previous) \in State
    BY StateAfterChangeType
  <2>3. Reset(o, row, isOn, previous) =
           [gen |-> g, on |-> isOn, status |-> row.status, revision |-> row.revision,
            state |-> StateAfterChange(enabled, previous),
            failures |-> 0, successes |-> 0, running |-> FALSE, scheduled |-> enabled]
    BY <1>3 DEF Reset
  <2> HIDE DEF g, enabled
  <2>4. enabled \in BOOLEAN
    BY DEF enabled
  <2> QED BY <1>1, <2>1, <2>2, <2>3, <2>4, ThresholdsPositive DEF Runtime
<1> QED BY <1>2, <1>3

LEMMA FreshFollows ==
    ASSUME Types, NEW o \in Origin, origins[o].status # "absent"
    PROVE  /\ Fresh(o) \in Runtime /\ Fresh(o).on = on
           /\ Fresh(o).status = origins[o].status /\ Fresh(o).revision = origins[o].revision
<1> DEFINE enabled == o \notin Static /\ on /\ origins[o].status = "enabled"
<1>1. origins[o].status \in {"enabled", "disabled"} /\ origins[o].revision \in 0..MaxEdits
  BY DEF Types, OriginRow
<1>2. StateAfterChange(enabled, saved[o]) \in State /\ enabled \in BOOLEAN
  BY StateAfterChangeType
<1>3. Fresh(o) = [gen |-> 0, on |-> on, status |-> origins[o].status, revision |-> origins[o].revision,
                  state |-> StateAfterChange(enabled, saved[o]),
                  failures |-> 0, successes |-> 0, running |-> FALSE, scheduled |-> enabled]
  BY DEF Fresh
<1> HIDE DEF enabled
<1> QED BY <1>1, <1>2, <1>3, ThresholdsPositive DEF Runtime, Types

(* A step of a check changes no settings of a runtime.                     *)
Kept == /\ runtime' \in [Origin -> Runtime \union {NoRuntime}]
        /\ \A o \in Origin : /\ runtime'[o] = NoRuntime <=> runtime[o] = NoRuntime
                             /\ runtime[o] # NoRuntime => /\ runtime'[o].on = runtime[o].on
                                                          /\ runtime'[o].status = runtime[o].status
                                                          /\ runtime'[o].revision = runtime[o].revision

LEMMA RunningKeeps ==
    ASSUME Types, NEW o, runtime[o] # NoRuntime, NEW b \in BOOLEAN, NEW s \in BOOLEAN,
           \/ runtime' = [runtime EXCEPT ![o].running = b]
           \/ runtime' = [runtime EXCEPT ![o].running = b, ![o].scheduled = s]
    PROVE  Kept
BY NoRuntimeDistinct DEF Types, Kept, Runtime

LEMMA ReleasedKeeps == ASSUME Types, NEW c, runtime' = Released(c) PROVE Kept
<1>1. CASE Current(c)
  <2>1. runtime' = [runtime EXCEPT ![c.origin].running = FALSE, ![c.origin].scheduled = TRUE]
    BY <1>1 DEF Released
  <2> QED BY <1>1, <2>1, RunningKeeps DEF Current
<1>2. CASE ~Current(c)
  BY <1>2 DEF Released, Types, Kept
<1> QED BY <1>1, <1>2

LEMMA KeptStep ==
    ASSUME IInv, Kept,
           UNCHANGED <<replica, on, onVersion, origins, refreshes, appliedVersion, appliedOrigins, overtaken, missed, edits>>
    PROVE  IInv'
<1>1. Types' BY DEF IInv, Kept, Types
<1>2. NewestRead' BY DEF IInv, NewestRead, OriginsVersion
<1>3. SwitchApplied' BY DEF IInv, Kept, SwitchApplied
<1>4. OriginsApplied' BY DEF IInv, Kept, OriginsApplied, Applied, OriginsVersion
<1>5. NewestOnItsWay' BY DEF IInv, NewestOnItsWay, Brings, OriginsVersion
<1> QED BY <1>1, <1>2, <1>3, <1>4, <1>5 DEF IInv

(* A refresh, a checkNow and a start leave the runtime the rows they were  *)
(* given ask for.                                                          *)
MadeFrom(isOn, rows) ==
    \A o \in Origin :
        /\ runtime'[o] \in Runtime \union {NoRuntime}
        /\ ~replica => IF rows[o].status = "absent" THEN runtime'[o] = NoRuntime
                       ELSE /\ runtime'[o] # NoRuntime
                            /\ runtime'[o].on = isOn /\ runtime'[o].status = rows[o].status
                            /\ runtime'[o].revision = rows[o].revision

LEMMA RefreshedIsMade ==
    ASSUME Types, NEW isOn \in BOOLEAN, NEW rows \in [Origin -> OriginRow],
           \/ runtime' = Refreshed(isOn, rows)
           \/ runtime' = Initialized /\ isOn = on /\ rows = origins
           \/ replica /\ runtime' = Reinitialized(isOn, rows)
    PROVE  MadeFrom(isOn, rows) /\ runtime' = [o \in Origin |-> runtime'[o]]
<1>1. runtime' = [o \in Origin |-> runtime'[o]]
  BY DEF Refreshed, Initialized, Reinitialized
<1>2. \A o \in Origin : rows[o] \in OriginRow OBVIOUS
<1>3. CASE runtime' = Refreshed(isOn, rows)
  BY <1>2, <1>3, ResetFollows, NoRuntimeDistinct DEF Refreshed, MadeFrom
<1>4. CASE runtime' = Initialized /\ isOn = on /\ rows = origins
  BY <1>4, FreshFollows, NoRuntimeDistinct DEF Initialized, MadeFrom
<1>5. CASE replica /\ runtime' = Reinitialized(isOn, rows)
  BY <1>2, <1>5, ResetFollows DEF Reinitialized, MadeFrom, Types
<1> QED BY <1>1, <1>3, <1>4, <1>5

(* What is applied is the newest, or is marked as overtaken by it.         *)
LEMMA MadeStep ==
    ASSUME IInv, NEW isOn \in BOOLEAN, NEW rows, MadeFrom(isOn, rows), runtime' = [o \in Origin |-> runtime'[o]],
           appliedVersion' \in Nat, appliedOrigins' \in Nat, overtaken' \in BOOLEAN, missed' \in BOOLEAN,
           appliedVersion' <= onVersion, appliedOrigins' <= OriginsVersion,
           ~overtaken' /\ appliedVersion' = onVersion => isOn = on,
           ~overtaken' /\ appliedOrigins' = OriginsVersion => rows = origins,
           refreshes' \subseteq refreshes, NewestOnItsWay',
           UNCHANGED <<replica, on, onVersion, origins, edits>>
    PROVE  IInv'
<1>1. runtime' \in [Origin -> Runtime \union {NoRuntime}]
  BY DEF MadeFrom
<1>2. Types'
  BY <1>1 DEF IInv, Types
<1>3. NewestRead'
  BY DEF IInv, NewestRead, OriginsVersion
<1>4. SwitchApplied'
  <2> SUFFICES ASSUME ~replica, ~overtaken', appliedVersion' = onVersion, NEW o \in Origin, runtime'[o] # NoRuntime
               PROVE  runtime'[o].on = on
    BY DEF SwitchApplied
  <2>1. isOn = on OBVIOUS
  <2> QED BY <2>1 DEF MadeFrom
<1>5. OriginsApplied'
  <2> SUFFICES ASSUME ~replica, ~overtaken', appliedOrigins' = OriginsVersion, NEW o \in Origin
               PROVE  Applied(o)'
    BY DEF OriginsApplied, OriginsVersion
  <2>1. rows = origins OBVIOUS
  <2> QED BY <2>1 DEF MadeFrom, Applied
<1> QED BY <1>2, <1>3, <1>4, <1>5 DEF IInv

(***************************************************************************)
(* The steps                                                               *)
(***************************************************************************)

LEMMA InitIInv == ASSUME Init PROVE IInv
<1>1. /\ on = TRUE /\ onVersion = 0 /\ appliedVersion = 0 /\ appliedOrigins = 0 /\ edits = 0 /\ refreshes = {}
      /\ overtaken = FALSE /\ missed = FALSE /\ OriginsVersion = 0 /\ replica \in BOOLEAN
      /\ origins = [o \in Origin |-> [status |-> "enabled", revision |-> 0]]
      /\ runtime = [o \in Origin |-> Fresh(o)]
  BY RolesBoolean DEF Init, Initialized, OriginsVersion
<1>2. ASSUME NEW o \in Origin
      PROVE  /\ Fresh(o) \in Runtime /\ Fresh(o).on = on
             /\ Fresh(o).status = "enabled" /\ Fresh(o).revision = 0
  <2> DEFINE enabled == o \notin Static /\ on /\ origins[o].status = "enabled"
  <2>1. StateAfterChange(enabled, saved[o]) \in State /\ enabled \in BOOLEAN
    BY StateAfterChangeType
  <2>2. Fresh(o) = [gen |-> 0, on |-> on, status |-> "enabled", revision |-> 0,
                    state |-> StateAfterChange(enabled, saved[o]),
                    failures |-> 0, successes |-> 0, running |-> FALSE, scheduled |-> enabled]
    BY <1>1 DEF Fresh
  <2> HIDE DEF enabled
  <2> QED BY <1>1, <2>1, <2>2, ThresholdsPositive, EditsNat DEF Runtime
<1>3. Types
  <2>1. origins \in [Origin -> OriginRow]
    BY <1>1, EditsNat DEF OriginRow
  <2>2. runtime \in [Origin -> Runtime \union {NoRuntime}]
    BY <1>1, <1>2
  <2>3. edits \in 0..MaxEdits /\ onVersion <= edits /\ onVersion \in Nat
    BY <1>1, EditsNat
  <2> QED BY <1>1, <2>1, <2>2, <2>3 DEF Types
<1>4. \A o \in Origin : /\ runtime[o] # NoRuntime /\ runtime[o].on = on /\ runtime[o].status = "enabled"
                        /\ runtime[o].revision = 0 /\ origins[o].status = "enabled" /\ origins[o].revision = 0
  BY <1>1, <1>2, NoRuntimeDistinct
<1>5. NewestRead /\ SwitchApplied /\ OriginsApplied /\ NewestOnItsWay
  <2>1. NewestRead
    BY <1>1 DEF NewestRead
  <2>2. SwitchApplied
    BY <1>4 DEF SwitchApplied
  <2>3. \A o \in Origin : Applied(o)
    BY <1>4 DEF Applied
  <2> QED BY <1>1, <2>1, <2>2, <2>3 DEF OriginsApplied, NewestOnItsWay
<1> QED BY <1>3, <1>5 DEF IInv

LEMMA TickStep == ASSUME IInv, NEW o \in Origin, Tick(o) PROVE IInv'
BY RunningKeeps, KeptStep DEF IInv, Tick

LEMMA NextManualStep == ASSUME IInv, NextManual PROVE IInv'
<1> DEFINE o == Head(manual).origin
<1>1. CASE runtime[o] # NoRuntime /\ runtime[o].gen = Head(manual).gen
  <2>1. runtime' = [runtime EXCEPT ![o].running = TRUE]
    BY <1>1 DEF NextManual
  <2> HIDE DEF o
  <2>2. Kept
    BY <1>1, <2>1, RunningKeeps DEF IInv
  <2> QED BY <2>2, KeptStep DEF NextManual
<1>2. CASE ~(runtime[o] # NoRuntime /\ runtime[o].gen = Head(manual).gen)
  <2>1. runtime' = runtime
    BY <1>2 DEF NextManual
  <2>2. Kept
    BY <2>1 DEF Kept, IInv, Types
  <2> QED BY <2>2, KeptStep DEF NextManual
<1> QED BY <1>1, <1>2

LEMMA AnswerStep == ASSUME IInv, NEW c \in checks, Answer(c) PROVE IInv'
<1>1. PICK h \in BOOLEAN : IF Current(c) THEN runtime' = [runtime EXCEPT ![c.origin] = Advanced(@, h)]
                                         ELSE UNCHANGED runtime
  BY DEF Answer
<1>2. Kept
  <2>1. CASE Current(c)
    <3> DEFINE new == Advanced(runtime[c.origin], h)
    <3>1. runtime' = [runtime EXCEPT ![c.origin] = new]
      BY <1>1, <2>1
    <3>2. c.origin \in Origin => /\ new \in Runtime /\ new.on = runtime[c.origin].on
                                 /\ new.status = runtime[c.origin].status /\ new.revision = runtime[c.origin].revision
      BY <2>1, AdvancedKeeps DEF Current, IInv, Types
    <3> HIDE DEF new
    <3> QED BY <2>1, <3>1, <3>2, NoRuntimeDistinct DEF Current, Kept, IInv, Types
  <2>2. CASE ~Current(c)
    BY <1>1, <2>2 DEF Kept, IInv, Types
  <2> QED BY <2>1, <2>2
<1> QED BY <1>2, KeptStep DEF Answer

LEMMA SettledStep == ASSUME IInv, NEW c \in checks, Store(c) \/ StoreFails(c) \/ Finish(c) PROVE IInv'
<1>1. runtime' = Released(c) \/ runtime' = runtime
  BY DEF Store, StoreFails, Finish
<1>2. Kept
  <2>1. CASE runtime' = runtime
    BY <2>1 DEF Kept, IInv, Types
  <2>2. CASE runtime' = Released(c)
    BY <2>2, ReleasedKeeps DEF IInv
  <2> QED BY <1>1, <2>1, <2>2
<1>3. UNCHANGED <<replica, on, onVersion, origins, refreshes, appliedVersion, appliedOrigins, overtaken, missed, edits>>
  BY DEF Store, StoreFails, Finish
<1> QED BY <1>2, <1>3, KeptStep

LEMMA RefreshDueShape ==
    ASSUME Types, NEW i, RefreshDue(i)
    PROVE  /\ \A f \in refreshes' : f \in [edit : {f.edit}, pc : {"site", "origins", "apply"}, on : BOOLEAN,
                                            alerts : {f.alerts}, version : Nat, rows : [Origin -> OriginRow], seen : Nat]
           /\ \A f \in refreshes' : f.pc # "site" => f \in refreshes
           /\ refreshes \subseteq refreshes' /\ \E f \in refreshes' : f.pc = "site"
<1> DEFINE new == [edit |-> i, pc |-> "site", on |-> FALSE, alerts |-> FALSE, version |-> 0, rows |-> NoRows, seen |-> 0]
<1>1. NoRows \in [Origin -> OriginRow]
  BY EditsNat DEF NoRows, OriginRow
<1>2. /\ new \in [edit : {new.edit}, pc : {"site", "origins", "apply"}, on : BOOLEAN,
                  alerts : {new.alerts}, version : Nat, rows : [Origin -> OriginRow], seen : Nat]
      /\ new.pc = "site"
  BY <1>1
<1>3. refreshes' = refreshes \union {new}
  BY DEF RefreshDue
<1> HIDE DEF new
<1> QED BY <1>2, <1>3 DEF Types

(* After an edit a refresh is due, and the version is one that none of     *)
(* those under way has read.                                               *)
LEMMA EditSiteStep == ASSUME IInv, EditSite PROVE IInv'
<1>1. /\ RefreshDue(edits') /\ edits' = edits + 1 /\ onVersion' = onVersion + 1 /\ on' = ~on /\ edits' \in 0..MaxEdits
      /\ OriginsVersion' = OriginsVersion /\ OriginsVersion \in Nat
      /\ UNCHANGED <<replica, origins, runtime, appliedVersion, appliedOrigins, overtaken, missed>>
  BY EditsNat DEF EditSite, Edited, applied, IInv, Types, OriginsVersion
<1>2. Types'
  BY <1>1, RefreshDueShape DEF IInv, Types
<1>3. NewestRead' /\ appliedVersion' # onVersion'
  BY <1>1, RefreshDueShape DEF IInv, NewestRead, Types
<1>4. SwitchApplied'
  BY <1>3 DEF SwitchApplied
<1>5. OriginsApplied'
  BY <1>1 DEF IInv, OriginsApplied, Applied
<1>6. NewestOnItsWay'
  BY <1>1, RefreshDueShape DEF IInv, NewestOnItsWay, Brings
<1> QED BY <1>2, <1>3, <1>4, <1>5, <1>6 DEF IInv

LEMMA EditOriginStep ==
    ASSUME IInv, NEW o \in Origin, NEW s \in {"enabled", "disabled", "absent"}, EditOrigin(o, s)
    PROVE  IInv'
<1>1. /\ RefreshDue(edits') /\ edits' = edits + 1 /\ edits' \in 0..MaxEdits
      /\ OriginsVersion' = OriginsVersion + 1 /\ OriginsVersion \in Nat
      /\ origins' = [origins EXCEPT ![o] = [status |-> s, revision |-> edits']]
      /\ UNCHANGED <<replica, on, onVersion, runtime, appliedVersion, appliedOrigins, overtaken, missed>>
  BY EditsNat DEF EditOrigin, Edited, applied, IInv, Types, OriginsVersion
<1>2. Types'
  <2>1. origins' \in [Origin -> OriginRow]
    BY <1>1 DEF IInv, Types, OriginRow
  <2> QED BY <1>1, <2>1, RefreshDueShape DEF IInv, Types
<1>3. NewestRead' /\ appliedOrigins' # OriginsVersion'
  BY <1>1, RefreshDueShape DEF IInv, NewestRead, Types
<1>4. SwitchApplied'
  BY <1>1 DEF IInv, SwitchApplied
<1>5. OriginsApplied'
  BY <1>3 DEF OriginsApplied
<1>6. NewestOnItsWay'
  BY <1>1, RefreshDueShape DEF IInv, NewestOnItsWay, Brings
<1> QED BY <1>2, <1>3, <1>4, <1>5, <1>6 DEF IInv

LEMMA EditAlertsStep == ASSUME IInv, EditAlerts PROVE IInv'
<1>1. /\ UNCHANGED <<replica, on, onVersion, origins, edits, runtime, appliedVersion, appliedOrigins, overtaken, missed>>
      /\ OriginsVersion' = OriginsVersion
      /\ refreshes' = refreshes \/ \E i : RefreshDue(i)
  BY DEF EditAlerts, applied, OriginsVersion
<1>2. \A f \in refreshes' : f \in [edit : {f.edit}, pc : {"site", "origins", "apply"}, on : BOOLEAN,
                                    alerts : {f.alerts}, version : Nat, rows : [Origin -> OriginRow], seen : Nat]
  BY <1>1, RefreshDueShape DEF IInv, Types
<1>3. refreshes \subseteq refreshes' /\ \A f \in refreshes' : f.pc # "site" => f \in refreshes
  BY <1>1, RefreshDueShape DEF IInv
<1>4. Types'
  BY <1>1, <1>2 DEF IInv, Types
<1>5. NewestRead'
  BY <1>1, <1>3 DEF IInv, NewestRead
<1>6. SwitchApplied' /\ OriginsApplied'
  BY <1>1 DEF IInv, SwitchApplied, OriginsApplied, Applied
<1>7. NewestOnItsWay'
  BY <1>1, <1>3 DEF IInv, NewestOnItsWay, Brings
<1> QED BY <1>4, <1>5, <1>6, <1>7 DEF IInv

LEMMA ReadStep == ASSUME IInv, NEW f \in refreshes, ReadSite(f) \/ ReadOrigins(f) PROVE IInv'
<1> DEFINE g == IF f.pc = "site" THEN [f EXCEPT !.pc = "origins", !.on = on, !.alerts = alerting, !.version = onVersion]
                ELSE [f EXCEPT !.pc = "apply", !.rows = origins, !.seen = OriginsVersion]
<1>1. /\ f \in [edit : {f.edit}, pc : {"site", "origins", "apply"}, on : BOOLEAN, alerts : {f.alerts},
                version : Nat, rows : [Origin -> OriginRow], seen : Nat]
      /\ OriginsVersion \in Nat /\ onVersion \in Nat /\ on \in BOOLEAN /\ origins \in [Origin -> OriginRow]
  BY DEF IInv, Types, OriginsVersion
<1>2. refreshes' = (refreshes \ {f}) \union {g} /\ f.pc \in {"site", "origins"}
  BY DEF ReadSite, ReadOrigins
<1>3. /\ UNCHANGED <<replica, on, onVersion, origins, edits, runtime, appliedVersion, appliedOrigins, overtaken, missed>>
      /\ OriginsVersion' = OriginsVersion
  BY DEF ReadSite, ReadOrigins, applied, OriginsVersion
<1>4. /\ g \in [edit : {g.edit}, pc : {"site", "origins", "apply"}, on : BOOLEAN, alerts : {g.alerts},
                version : Nat, rows : [Origin -> OriginRow], seen : Nat]
      /\ f.pc = "site" => g.pc = "origins" /\ g.on = on /\ g.version = onVersion
      /\ f.pc = "origins" => /\ g.pc = "apply" /\ g.on = f.on /\ g.version = f.version
                             /\ g.rows = origins /\ g.seen = OriginsVersion
  BY <1>1, <1>2
<1> HIDE DEF g
<1>5. Types'
  BY <1>2, <1>3, <1>4 DEF IInv, Types
<1>6. NewestRead'
  <2>1. g.pc # "site" => g.version <= onVersion /\ (g.version = onVersion => g.on = on)
    BY <1>1, <1>2, <1>4 DEF IInv, NewestRead
  <2>2. g.pc = "apply" => g.seen <= OriginsVersion /\ (g.seen = OriginsVersion => g.rows = origins)
    BY <1>1, <1>2, <1>4
  <2> QED BY <1>2, <1>3, <2>1, <2>2 DEF IInv, NewestRead
<1>7. SwitchApplied' /\ OriginsApplied'
  BY <1>3 DEF IInv, SwitchApplied, OriginsApplied, Applied
<1>8. NewestOnItsWay'
  <2>1. Brings(f) => Brings(g)
    BY <1>2, <1>4 DEF Brings
  <2>2. (\E h \in refreshes : Brings(h)) => \E h \in refreshes' : Brings(h)
    BY <1>2, <2>1
  <2> QED BY <1>3, <2>2 DEF IInv, NewestOnItsWay, Brings
<1> QED BY <1>5, <1>6, <1>7, <1>8 DEF IInv

LEMMA RefreshStep == ASSUME IInv, NEW f \in refreshes, Refresh(f) PROVE IInv'
<1>1. /\ f.on \in BOOLEAN /\ f.rows \in [Origin -> OriginRow] /\ f.version \in Nat /\ f.seen \in Nat
      /\ f.version <= onVersion /\ (f.version = onVersion => f.on = on)
      /\ f.seen <= OriginsVersion /\ (f.seen = OriginsVersion => f.rows = origins)
  BY DEF Refresh, IInv, Types, NewestRead
<1>2. /\ runtime' = Refreshed(f.on, f.rows) \/ (replica /\ runtime' = Reinitialized(f.on, f.rows))
      /\ refreshes' = refreshes \ {f} /\ f.pc = "apply"
      /\ overtaken' = (f.version < appliedVersion \/ f.seen < appliedOrigins)
      /\ appliedVersion' = (IF f.version < appliedVersion THEN appliedVersion ELSE f.version)
      /\ appliedOrigins' = (IF f.seen < appliedOrigins THEN appliedOrigins ELSE f.seen)
      /\ missed' = (missed /\ (f.version < onVersion \/ f.seen < OriginsVersion))
      /\ UNCHANGED <<replica, on, onVersion, origins, edits>> /\ OriginsVersion' = OriginsVersion
  BY DEF Refresh, Later, OriginsVersion, IInv, Types
<1>3. MadeFrom(f.on, f.rows) /\ runtime' = [o \in Origin |-> runtime'[o]]
  BY <1>1, <1>2, RefreshedIsMade DEF IInv
<1>4. /\ appliedVersion \in Nat /\ appliedOrigins \in Nat /\ onVersion \in Nat /\ OriginsVersion \in Nat
      /\ appliedVersion <= onVersion /\ appliedOrigins <= OriginsVersion /\ missed \in BOOLEAN
  BY DEF IInv, Types, NewestRead, OriginsVersion
<1>5. /\ appliedVersion' \in Nat /\ appliedOrigins' \in Nat /\ overtaken' \in BOOLEAN /\ missed' \in BOOLEAN
      /\ appliedVersion' <= onVersion /\ appliedOrigins' <= OriginsVersion
      /\ ~overtaken' => appliedVersion' = f.version /\ appliedOrigins' = f.seen
  BY <1>1, <1>2, <1>4
<1>6. NewestOnItsWay'
  <2> SUFFICES ASSUME ~missed'
               PROVE  \/ appliedVersion' = onVersion /\ appliedOrigins' = OriginsVersion
                      \/ \E g \in refreshes \ {f} : Brings(g)
    BY <1>2 DEF NewestOnItsWay, Brings
  <2>1. CASE f.version = onVersion /\ f.seen = OriginsVersion
    BY <1>1, <1>2, <1>4, <2>1
  <2>2. CASE ~(f.version = onVersion /\ f.seen = OriginsVersion)
    <3>1. ~missed /\ ~Brings(f)
      BY <1>1, <1>2, <1>4, <2>2 DEF Brings
    <3>2. CASE appliedVersion = onVersion /\ appliedOrigins = OriginsVersion
      BY <1>1, <1>2, <1>4, <3>2
    <3>3. CASE \E g \in refreshes : Brings(g)
      BY <3>1, <3>3
    <3> QED BY <3>1, <3>2, <3>3 DEF IInv, NewestOnItsWay
  <2> QED BY <2>1, <2>2
<1>7. refreshes' \subseteq refreshes BY <1>2
<1> QED BY <1>1, <1>2, <1>3, <1>5, <1>6, <1>7, MadeStep

(* A refresh that fails is missed unless the newest rows were applied.     *)
LEMMA RefreshFailsStep == ASSUME IInv, NEW f \in refreshes, RefreshFails(f) PROVE IInv'
<1>1. /\ refreshes' \subseteq refreshes
      /\ missed' = (missed \/ appliedVersion < onVersion \/ appliedOrigins < OriginsVersion)
      /\ UNCHANGED <<replica, on, onVersion, origins, edits, runtime, appliedVersion, appliedOrigins, overtaken>>
      /\ OriginsVersion' = OriginsVersion
  BY DEF RefreshFails, OriginsVersion
<1>2. /\ appliedVersion \in Nat /\ appliedOrigins \in Nat /\ onVersion \in Nat /\ OriginsVersion \in Nat
      /\ appliedVersion <= onVersion /\ appliedOrigins <= OriginsVersion /\ missed \in BOOLEAN
  BY DEF IInv, Types, NewestRead, OriginsVersion
<1>3. Types'
  BY <1>1, <1>2 DEF IInv, Types
<1>4. NewestRead'
  BY <1>1 DEF IInv, NewestRead
<1>5. SwitchApplied' /\ OriginsApplied'
  BY <1>1 DEF IInv, SwitchApplied, OriginsApplied, Applied
<1>6. NewestOnItsWay'
  <2>1. CASE appliedVersion = onVersion /\ appliedOrigins = OriginsVersion
    BY <1>1, <2>1 DEF NewestOnItsWay
  <2>2. CASE ~(appliedVersion = onVersion /\ appliedOrigins = OriginsVersion)
    <3>1. appliedVersion < onVersion \/ appliedOrigins < OriginsVersion
      BY <1>2, <2>2
    <3>2. missed'
      BY <1>1, <3>1
    <3> QED BY <3>2 DEF NewestOnItsWay
  <2> QED BY <2>1, <2>2
<1> QED BY <1>3, <1>4, <1>5, <1>6 DEF IInv

LEMMA NewestStep ==
    ASSUME IInv, NewestApplied, runtime' = Refreshed(on, origins) \/ runtime' = Initialized,
           refreshes' \subseteq refreshes, UNCHANGED <<replica, on, onVersion, origins, edits>>
    PROVE  IInv'
<1>1. on \in BOOLEAN /\ origins \in [Origin -> OriginRow] /\ onVersion \in Nat /\ OriginsVersion \in Nat
  BY DEF IInv, Types, OriginsVersion
<1>2. MadeFrom(on, origins) /\ runtime' = [o \in Origin |-> runtime'[o]]
  BY <1>1, RefreshedIsMade DEF IInv
<1>3. /\ appliedVersion' = onVersion /\ appliedOrigins' = OriginsVersion
      /\ overtaken' = FALSE /\ missed' = FALSE /\ OriginsVersion' = OriginsVersion
  BY DEF NewestApplied, OriginsVersion
<1>4. NewestOnItsWay'
  BY <1>3 DEF NewestOnItsWay
<1>5. overtaken' \in BOOLEAN /\ missed' \in BOOLEAN
  BY <1>3
<1>6. /\ appliedVersion' \in Nat /\ appliedOrigins' \in Nat
      /\ appliedVersion' <= onVersion /\ appliedOrigins' <= OriginsVersion
  BY <1>1, <1>3
<1> QED
  <2> DEFINE isOn == on
             rows == origins
  <2>1. isOn \in BOOLEAN /\ MadeFrom(isOn, rows) /\ isOn = on /\ rows = origins
    BY <1>1, <1>2
  <2> HIDE DEF isOn, rows
  <2> QED BY <1>2, <1>3, <1>4, <1>5, <1>6, <2>1, MadeStep

LEMMA CheckNowStep == ASSUME IInv, NEW S, CheckNow(S) PROVE IInv'
BY NewestStep DEF CheckNow

LEMMA RestartStep == ASSUME IInv, Restart PROVE IInv'
BY NewestStep DEF Restart

LEMMA ElsewhereStep ==
    ASSUME IInv, UNCHANGED <<replica, config, runtime, refreshing, edits>>
    PROVE  IInv'
<1>1. Kept BY DEF IInv, Types, Kept
<1> QED BY <1>1, KeptStep DEF applied

LEMMA NextIInv == ASSUME IInv, [Next]_vars PROVE IInv'
<1>1. CASE UNCHANGED vars \/ Deliver \/ DeliveryFault \/ \E o \in Origin : Flip(o)
  BY <1>1, ElsewhereStep DEF vars, Deliver, DeliveryFault, Flip
<1>2. CASE \E o \in Origin : Tick(o) \/ \E s \in {"enabled", "disabled", "absent"} : EditOrigin(o, s)
  BY <1>2, TickStep, EditOriginStep
<1>3. CASE NextManual \/ \E o \in Origin : \E i \in Slot : CheckStep(o, i)
  BY <1>3, NextManualStep, AnswerStep, SettledStep DEF CheckStep
<1>4. CASE EditSite \/ EditAlerts \/ \E f \in refreshes : ReadSite(f) \/ ReadOrigins(f) \/ Refresh(f) \/ RefreshFails(f)
  BY <1>4, EditSiteStep, EditAlertsStep, ReadStep, RefreshStep, RefreshFailsStep
<1>5. CASE CheckNow(Origin) \/ (\E o \in Origin : CheckNow({o})) \/ Restart
  BY <1>5, CheckNowStep, RestartStep
<1> QED BY <1>1, <1>2, <1>3, <1>4, <1>5 DEF Next

(* The invariant of the refreshes under way                                *)
THEOREM Invariance == Spec => []IInv
BY InitIInv, NextIInv, PTL DEF Spec

(* Once every refreshSite is over, unless an older one was applied last or *)
(* one failed, the runtime has the stored origins and settings, no others. *)
THEOREM ConfigIsApplied == Spec => []RuntimeFollowsConfig
<1>1. IInv => RuntimeFollowsConfig
  <2> SUFFICES ASSUME IInv, ~replica, refreshes = {}, ~missed, ~overtaken, NEW o \in Origin
               PROVE  IF origins[o].status = "absent" THEN runtime[o] = NoRuntime
                      ELSE /\ runtime[o] # NoRuntime
                           /\ <<runtime[o].on, runtime[o].status, runtime[o].revision>> =
                              <<on, origins[o].status, origins[o].revision>>
    BY DEF RuntimeFollowsConfig
  <2>1. appliedVersion = onVersion /\ appliedOrigins = OriginsVersion
    BY DEF IInv, NewestOnItsWay
  <2>2. Applied(o) /\ (runtime[o] # NoRuntime => runtime[o].on = on)
    BY <2>1 DEF IInv, SwitchApplied, OriginsApplied
  <2> QED BY <2>2 DEF Applied
<1> QED BY <1>1, Invariance, PTL

(***************************************************************************)
(* The checks under way                                                    *)
(***************************************************************************)

CheckRecord ==
    [slot : Slot, origin : Origin, gen : Nat, by : {"tick", "admin"}, pc : {"fetch", "store", "alert"},
     was : State, now : State, poolWas : State, alert : {"pool_unhealthy", "pool_recovered", "origin", Silence}]

Target == [origin : Origin, gen : Nat]

(* Two checks of an origin never share a slot: the ticks leave one for the *)
(* administrator's.                                                        *)
Slots ==
    /\ IsFiniteSet(checks) /\ Cardinality(checks) <= MaxActive + 1
    /\ (\A c \in checks : c.by # "admin") => Cardinality(checks) <= MaxActive
    /\ \A c, d \in checks : c.origin = d.origin /\ c.slot = d.slot => c = d

Checks ==
    /\ pool \in State /\ checks \subseteq CheckRecord /\ Slots
    /\ manual \in Seq(Target)

LEMMA AggregateType == ASSUME NEW rt, NEW b PROVE Aggregate(rt, b) \in State
BY DEF Aggregate, State

LEMMA PreservedType == ASSUME NEW rt, NEW b, NEW p PROVE Preserved(rt, b, p) \in State
BY AggregateType DEF Preserved, State

(* A set of natural numbers has a least element.                           *)
LEMMA Least ==
    ASSUME NEW T, T \subseteq Nat, T # {}
    PROVE  \E m \in T : \A k \in T : m <= k
<1> DEFINE R == OpToRel(<, Nat)
<1>1. IsWellFoundedOn(R, Nat) BY NatLessThanWellFounded
<1>2. \A x, y \in Nat : <<y, x>> \in R <=> y < x BY DEF OpToRel
<1> HIDE DEF R
<1>3. PICK x \in T : \A y \in T : ~ (<<y, x>> \in R) BY <1>1, WFMin
<1>4. \A y \in T : ~ (y < x) BY <1>2, <1>3
<1>5. \A y \in T : x <= y BY <1>4
<1> QED BY <1>3, <1>5

(* With a slot to spare, a new check takes a free one.                     *)
LEMMA FreeSlot ==
    ASSUME Checks, Cardinality(checks) <= MaxActive, NEW o, NEW by
    PROVE  Started(o, by).slot \in Slot /\ \A c \in checks : c.origin = o => c.slot # Started(o, by).slot
<1> DEFINE mine == {c \in checks : c.origin = o}
           used == {c.slot : c \in mine}
           free == Slot \ used
<1>1. IsFiniteSet(checks) /\ MaxActive \in Nat /\ checks \subseteq CheckRecord
  BY ThresholdsPositive DEF Checks, Slots
<1>2. IsFiniteSet(used) /\ Cardinality(used) <= Cardinality(checks)
  <2> DEFINE f == [c \in mine |-> c.slot]
  <2>1. f \in Surjection(mine, used) BY DEF Surjection
  <2>2. IsFiniteSet(mine) /\ Cardinality(mine) <= Cardinality(checks) BY <1>1, FS_Subset
  <2> HIDE DEF f, used, mine
  <2>3. IsFiniteSet(used) /\ Cardinality(used) <= Cardinality(mine) BY <2>1, <2>2, FS_Surjection
  <2>4. Cardinality(used) \in Nat /\ Cardinality(mine) \in Nat /\ Cardinality(checks) \in Nat
    BY <1>1, <2>2, <2>3, FS_CardinalityType
  <2> QED BY <2>2, <2>3, <2>4
<1>3. IsFiniteSet(Slot) /\ Cardinality(Slot) = MaxActive + 1
  <2>1. 1 \in Int /\ MaxActive + 1 \in Int BY <1>1
  <2>2. IsFiniteSet(1..(MaxActive + 1)) /\ Cardinality(1..(MaxActive + 1)) = (IF 1 > MaxActive + 1 THEN 0 ELSE (MaxActive + 1) - 1 + 1)
    BY <2>1, FS_Interval
  <2> QED BY <1>1, <2>2 DEF Slot
<1>4. free # {}
  <2> SUFFICES ASSUME free = {} PROVE FALSE OBVIOUS
  <2>1. used \subseteq Slot BY <1>1 DEF CheckRecord
  <2>2. used = Slot BY <2>1
  <2>3. Cardinality(used) \in Nat /\ Cardinality(checks) \in Nat BY <1>1, <1>2, FS_CardinalityType
  <2> HIDE DEF used
  <2> QED BY <1>1, <1>2, <1>3, <2>2, <2>3
<1>5. free \subseteq Nat BY DEF Slot
<1>6. PICK m \in free : \A k \in free : m <= k
  <2> HIDE DEF free
  <2> QED BY <1>4, <1>5, Least
<1> DEFINE P(i) == ~Taken(o, i) /\ \A j \in 1..(i - 1) : Taken(o, j)
<1>7. m \in Slot /\ P(m)
  <2>1. m \in Slot /\ ~Taken(o, m) BY <1>6 DEF Taken
  <2>2. ASSUME NEW j \in 1..(m - 1) PROVE Taken(o, j)
    <3>1. m \in Nat /\ m <= MaxActive + 1 /\ j \in Slot /\ j < m BY <1>1, <2>1 DEF Slot
    <3>2. j \notin free BY <1>6, <3>1, <1>1
    <3> QED BY <3>1, <3>2 DEF Taken
  <2> QED BY <2>1, <2>2
<1>8. Started(o, by).slot = (CHOOSE i \in Slot : P(i)) BY DEF Started
<1>9. (CHOOSE i \in Slot : P(i)) \in Slot /\ P(CHOOSE i \in Slot : P(i))
  <2> HIDE DEF P
  <2> QED BY <1>7
<1> QED BY <1>8, <1>9 DEF Taken

LEMMA CheckStarted ==
    ASSUME IInv, Checks, NEW o \in Origin, runtime[o] # NoRuntime, NEW by \in {"tick", "admin"},
           Cardinality(checks) <= MaxActive, by = "tick" => Cardinality(checks) < MaxActive
    PROVE  /\ Started(o, by) \in CheckRecord /\ Started(o, by).pc = "fetch" /\ Started(o, by).origin = o
           /\ Started(o, by).gen = runtime[o].gen
           /\ Started(o, by) \notin checks
           /\ checks' = checks \union {Started(o, by)} => Slots'
<1> DEFINE s == Started(o, by)
<1>1. s.slot \in Slot /\ \A c \in checks : c.origin = o => c.slot # s.slot BY FreeSlot
<1>2. runtime[o] \in Runtime BY DEF IInv, Types
<1>3. runtime[o].gen \in Nat BY <1>2 DEF Runtime
<1>4. /\ s = [slot |-> s.slot, origin |-> o, gen |-> runtime[o].gen, by |-> by, pc |-> "fetch",
              was |-> "unknown", now |-> "unknown", poolWas |-> "unknown", alert |-> Silence]
      /\ s.pc = "fetch" /\ s.origin = o /\ s.gen = runtime[o].gen /\ s.by = by
  BY DEF Started
<1> HIDE DEF s
<1>5. s \in CheckRecord BY <1>1, <1>3, <1>4 DEF CheckRecord, State
<1>6. s \notin checks BY <1>1, <1>4
<1>7. ASSUME checks' = checks \union {s} PROVE Slots'
  <2>1. IsFiniteSet(checks) /\ Cardinality(checks) \in Nat /\ MaxActive \in Nat
    BY FS_CardinalityType, ThresholdsPositive DEF Checks, Slots
  <2>2. IsFiniteSet(checks') /\ Cardinality(checks') = Cardinality(checks) + 1 BY <1>6, <1>7, <2>1, FS_AddElement
  <2>3. Cardinality(checks') <= MaxActive + 1 BY <2>1, <2>2
  <2>4. (\A c \in checks' : c.by # "admin") => Cardinality(checks') <= MaxActive
    <3> HAVE \A c \in checks' : c.by # "admin"
    <3>1. by = "tick" BY <1>4, <1>7
    <3> QED BY <2>1, <2>2, <3>1
  <2>5. \A c, d \in checks' : c.origin = d.origin /\ c.slot = d.slot => c = d BY <1>1, <1>4, <1>7 DEF Checks, Slots
  <2> QED BY <2>2, <2>3, <2>4, <2>5 DEF Slots
<1> QED BY <1>4, <1>5, <1>6, <1>7 DEF s

LEMMA CheckEnded ==
    ASSUME Slots, NEW c \in checks, checks' = checks \ {c}
    PROVE  Slots'
<1>1. IsFiniteSet(checks) /\ Cardinality(checks) \in Nat /\ MaxActive \in Nat
  BY FS_CardinalityType, ThresholdsPositive DEF Slots
<1>2. IsFiniteSet(checks') /\ Cardinality(checks') = Cardinality(checks) - 1 BY <1>1, FS_RemoveElement
<1>3. Cardinality(checks') <= MaxActive BY <1>1, <1>2 DEF Slots
<1> QED BY <1>1, <1>2, <1>3 DEF Slots

LEMMA CheckGoesOn ==
    ASSUME Slots, NEW c \in checks, NEW d, d.slot = c.slot, d.origin = c.origin, d.by = c.by, checks' = (checks \ {c}) \union {d}
    PROVE  Slots'
<1>1. IsFiniteSet(checks) /\ Cardinality(checks) \in Nat /\ MaxActive \in Nat
  BY FS_CardinalityType, ThresholdsPositive DEF Slots
<1> DEFINE T == checks \ {c}
<1>2. IsFiniteSet(T) /\ Cardinality(T) = Cardinality(checks) - 1 BY <1>1, FS_RemoveElement
<1>3. d \notin T BY DEF Slots
<1>4. checks' = T \union {d} OBVIOUS
<1> HIDE DEF T
<1>5. IsFiniteSet(checks') /\ Cardinality(checks') = Cardinality(checks) 
  <2> DEFINE V == T \union {d}
  <2>1. IsFiniteSet(V) /\ Cardinality(V) = Cardinality(T) + 1 BY <1>2, <1>3, FS_AddElement
  <2>2. checks' = V BY <1>4
  <2> HIDE DEF V
  <2>3. IsFiniteSet(checks') /\ Cardinality(checks') = Cardinality(T) + 1 BY <2>1, <2>2
  <2> QED BY <1>1, <1>2, <2>3
<1>6. (\A e \in checks' : e.by # "admin") => \A e \in checks : e.by # "admin" BY <1>4 DEF T
<1>7. \A e, f \in checks' : e.origin = f.origin /\ e.slot = f.slot => e = f BY DEF Slots
<1> QED BY <1>5, <1>6, <1>7 DEF Slots

(* What a call of runCheck is after its answer, and while it alerts        *)
Judged(c, state) == [c EXCEPT !.pc = "store", !.was = runtime[c.origin].state, !.now = state, !.poolWas = pool]

LEMMA JudgedIs ==
    ASSUME NEW c \in CheckRecord, NEW st \in State, runtime[c.origin].state \in State, pool \in State
    PROVE  /\ Judged(c, st) \in CheckRecord /\ Judged(c, st).slot = c.slot /\ Judged(c, st).by = c.by
           /\ Judged(c, st).origin = c.origin /\ Judged(c, st).gen = c.gen /\ Judged(c, st).pc = "store"
           /\ Judged(c, st).was = runtime[c.origin].state /\ Judged(c, st).now = st /\ Judged(c, st).poolWas = pool
BY DEF Judged, CheckRecord

LEMMA AlertOfType ==
    ASSUME NEW c, NEW new
    PROVE  AlertOf(c, new) \in {"pool_unhealthy", "pool_recovered", "origin", Silence}
BY DEF AlertOf

LEMMA AlertingIs ==
    ASSUME NEW c \in CheckRecord, NEW a \in {"pool_unhealthy", "pool_recovered", "origin", Silence}
    PROVE  /\ Alerting(c, a) \in CheckRecord /\ Alerting(c, a).slot = c.slot /\ Alerting(c, a).by = c.by
           /\ Alerting(c, a).origin = c.origin /\ Alerting(c, a).gen = c.gen /\ Alerting(c, a).pc = "alert"
           /\ Alerting(c, a).alert = a
BY DEF Alerting, CheckRecord, State

LEMMA TickChecks == ASSUME IInv, Checks, NEW o \in Origin, Tick(o) PROVE Checks'
<1>1. runtime[o] # NoRuntime /\ Cardinality(checks) < MaxActive /\ checks' = checks \union {Started(o, "tick")}
      /\ UNCHANGED <<pool, manual>>
  BY DEF Tick
<1>2. Cardinality(checks) \in Nat /\ MaxActive \in Nat BY FS_CardinalityType, ThresholdsPositive DEF Checks, Slots
<1>3. Cardinality(checks) <= MaxActive BY <1>1, <1>2
<1>4. Started(o, "tick") \in CheckRecord /\ Slots' BY <1>1, <1>3, CheckStarted
<1> QED BY <1>1, <1>4 DEF Checks

LEMMA NextManualChecks == ASSUME IInv, Checks, NextManual PROVE Checks'
<1> DEFINE o == Head(manual).origin
<1>1. manual # <<>> /\ (\A c \in checks : c.by # "admin") /\ manual' = Tail(manual) /\ pool' = pool BY DEF NextManual
<1>2. Head(manual) \in Target /\ Tail(manual) \in Seq(Target) BY <1>1 DEF Checks
<1>3. o \in Origin BY <1>2 DEF Target
<1>4. Cardinality(checks) <= MaxActive BY <1>1 DEF Checks, Slots
<1>5. CASE runtime[o] # NoRuntime /\ runtime[o].gen = Head(manual).gen
  <2>1. checks' = checks \union {Started(o, "admin")} BY <1>5 DEF NextManual
  <2> HIDE DEF o
  <2>2. Started(o, "admin") \in CheckRecord /\ Slots' BY <1>3, <1>4, <1>5, <2>1, CheckStarted
  <2> QED BY <1>1, <1>2, <2>1, <2>2 DEF Checks
<1>6. CASE ~(runtime[o] # NoRuntime /\ runtime[o].gen = Head(manual).gen)
  <2>1. checks' = checks BY <1>6 DEF NextManual
  <2> QED BY <1>1, <1>2, <2>1 DEF Checks, Slots
<1> QED BY <1>5, <1>6

(* The answer of a check of a runtime that is still the one                *)
LEMMA AnswerCurrent ==
    ASSUME IInv, Checks, NEW c \in checks, Answer(c), Current(c)
    PROVE  \E h \in BOOLEAN :
               LET new == Advanced(runtime[c.origin], h)
               IN  /\ new \in Runtime
                   /\ runtime' = [runtime EXCEPT ![c.origin] = new]
                   /\ runtime'[c.origin] = new
                   /\ checks' = (checks \ {c}) \union {Judged(c, new.state)}
<1>1. PICK h \in BOOLEAN : /\ runtime' = [runtime EXCEPT ![c.origin] = Advanced(@, h)]
                           /\ checks' = (checks \ {c}) \union
                                 {[c EXCEPT !.pc = "store", !.was = runtime[c.origin].state,
                                            !.now = runtime'[c.origin].state, !.poolWas = pool]}
  BY DEF Answer
<1> DEFINE new == Advanced(runtime[c.origin], h)
<1>2. c.origin \in Origin BY DEF Checks, CheckRecord
<1>3. runtime[c.origin] \in Runtime BY <1>2 DEF Current, IInv, Types
<1>4. new \in Runtime BY <1>3, AdvancedKeeps
<1>5. runtime' = [runtime EXCEPT ![c.origin] = new] BY <1>1
<1>6. runtime'[c.origin] = new
  <2> HIDE DEF new
  <2> QED BY <1>2, <1>5 DEF IInv, Types
<1>7. checks' = (checks \ {c}) \union {Judged(c, new.state)}
  <2>1. checks' = (checks \ {c}) \union {Judged(c, runtime'[c.origin].state)} BY <1>1 DEF Judged
  <2> HIDE DEF new
  <2> QED BY <1>6, <2>1
<1> QED BY <1>4, <1>5, <1>6, <1>7

LEMMA AnswerChecks == ASSUME IInv, Checks, NEW c \in checks, Answer(c) PROVE Checks'
<1>1. c \in CheckRecord /\ c.origin \in Origin /\ UNCHANGED <<pool, manual>> BY DEF Checks, CheckRecord, Answer
<1>2. CASE Current(c)
  <2>1. PICK h \in BOOLEAN : /\ Advanced(runtime[c.origin], h) \in Runtime
                             /\ checks' = (checks \ {c}) \union {Judged(c, Advanced(runtime[c.origin], h).state)}
    BY <1>2, AnswerCurrent
  <2> DEFINE st == Advanced(runtime[c.origin], h).state
             d == Judged(c, st)
  <2>2. st \in State /\ runtime[c.origin].state \in State BY <1>1, <1>2, <2>1 DEF Runtime, Current, IInv, Types
  <2>3. checks' = (checks \ {c}) \union {d} BY <2>1
  <2> HIDE DEF st
  <2>4. d \in CheckRecord /\ d.slot = c.slot /\ d.origin = c.origin /\ d.by = c.by BY <1>1, <2>2, JudgedIs DEF Checks
  <2> HIDE DEF d
  <2>5. Slots' BY <2>3, <2>4, CheckGoesOn DEF Checks
  <2> QED BY <1>1, <2>3, <2>4, <2>5 DEF Checks
<1>3. CASE ~Current(c)
  <2>1. checks' = checks \ {c} BY <1>3 DEF Answer
  <2>2. Slots' BY <2>1, CheckEnded DEF Checks
  <2> QED BY <1>1, <2>1, <2>2 DEF Checks
<1> QED BY <1>2, <1>3

LEMMA StoreChecks == ASSUME IInv, Checks, NEW c \in checks, Store(c) PROVE Checks'
<1>1. c \in CheckRecord /\ pool' = Aggregate(runtime, TRUE) /\ manual' = manual BY DEF Checks, Store
<1>2. pool' \in State BY <1>1, AggregateType
<1>3. CASE AlertOf(c, pool') = Silence /\ c.poolWas = pool'
  <2>1. checks' = checks \ {c} BY <1>3 DEF Store
  <2>2. Slots' BY <2>1, CheckEnded DEF Checks
  <2> QED BY <1>1, <1>2, <2>1, <2>2 DEF Checks
<1>4. CASE ~(AlertOf(c, pool') = Silence /\ c.poolWas = pool')
  <2> DEFINE d == Alerting(c, AlertOf(c, pool'))
  <2>1. checks' = (checks \ {c}) \union {d} BY <1>4 DEF Store
  <2>2. d \in CheckRecord /\ d.slot = c.slot /\ d.origin = c.origin /\ d.by = c.by
    <3> DEFINE a == AlertOf(c, pool')
    <3>1. a \in {"pool_unhealthy", "pool_recovered", "origin", Silence} BY AlertOfType
    <3>2. d = Alerting(c, a) OBVIOUS
    <3> HIDE DEF a, d
    <3> QED BY <1>1, <3>1, <3>2, AlertingIs
  <2> HIDE DEF d
  <2>3. Slots' BY <2>1, <2>2, CheckGoesOn DEF Checks
  <2> QED BY <1>1, <1>2, <2>1, <2>2, <2>3 DEF Checks
<1> QED BY <1>3, <1>4

LEMMA EndChecks == ASSUME IInv, Checks, NEW c \in checks, StoreFails(c) \/ Finish(c) PROVE Checks'
<1>1. checks' = checks \ {c} /\ UNCHANGED <<pool, manual>> BY DEF StoreFails, Finish
<1>2. Slots' BY <1>1, CheckEnded DEF Checks
<1> QED BY <1>1, <1>2 DEF Checks

LEMMA CheckNowChecks == ASSUME IInv, Checks, NEW S \in SUBSET Origin, CheckNow(S) PROVE Checks'
<1>1. checks' = checks /\ pool' \in State BY PreservedType DEF CheckNow
<1>2. manual' \in Seq(Target)
  <2>1. CASE manual' = manual BY <2>1 DEF Checks
  <2>2. CASE manual' # manual
    <3> DEFINE T == Targets(S, runtime')
    <3>1. PICK q \in SetToSeqs(T) : manual' = [i \in DOMAIN q |-> [origin |-> q[i], gen |-> runtime'[q[i]].gen]]
      BY <2>2 DEF CheckNow
    <3>2. T \subseteq Origin /\ \A o \in T : runtime'[o] # NoRuntime BY DEF Targets
    <3>3. IsFiniteSet(T) BY <3>2, OriginsFinite, FS_Subset
    <3>4. MadeFrom(on, origins) BY RefreshedIsMade DEF CheckNow, IInv, Types
    <3>5. \A o \in T : runtime'[o].gen \in Nat BY <3>2, <3>4 DEF MadeFrom, Runtime
    <3> HIDE DEF T
    <3>6. Cardinality(T) \in Nat BY <3>3, FS_CardinalityType
    <3>7. q \in [1..Cardinality(T) -> T] BY DEF SetToSeqs
    <3>8. \A i \in 1..Cardinality(T) : q[i] \in T BY <3>7
    <3>9. \A i \in 1..Cardinality(T) : [origin |-> q[i], gen |-> runtime'[q[i]].gen] \in Target
      BY <3>2, <3>5, <3>8 DEF Target
    <3>10. manual' = [i \in 1..Cardinality(T) |-> [origin |-> q[i], gen |-> runtime'[q[i]].gen]] BY <3>1, <3>7
    <3> QED BY <3>6, <3>9, <3>10
  <2> QED BY <2>1, <2>2
<1> QED BY <1>1, <1>2 DEF Checks, Slots

LEMMA RestartChecks == ASSUME IInv, Checks, Restart PROVE Checks'
<1>1. checks' = {} /\ manual' = <<>> /\ pool' \in State BY PreservedType DEF Restart
<1>2. IsFiniteSet(checks') /\ Cardinality(checks') = 0 BY <1>1, FS_EmptySet
<1>3. Slots' BY <1>1, <1>2, ThresholdsPositive DEF Slots
<1> QED BY <1>1, <1>3 DEF Checks

LEMMA NextChecks == ASSUME IInv, Checks, [Next]_vars PROVE Checks'
<1>1. CASE \/ UNCHANGED vars \/ Deliver \/ DeliveryFault \/ EditSite \/ EditAlerts
           \/ (\E o \in Origin : Flip(o) \/ \E s \in {"enabled", "disabled", "absent"} : EditOrigin(o, s))
           \/ \E f \in refreshes : ReadSite(f) \/ ReadOrigins(f) \/ RefreshFails(f)
  <2>1. UNCHANGED <<pool, checks, manual>>
    BY <1>1 DEF vars, Deliver, DeliveryFault, EditSite, EditAlerts, Flip, EditOrigin, ReadSite, ReadOrigins, RefreshFails
  <2> QED BY <2>1 DEF Checks, Slots
<1>2. CASE \E f \in refreshes : Refresh(f)
  <2>1. UNCHANGED <<checks, manual>> /\ pool' \in State BY <1>2, PreservedType DEF Refresh
  <2> QED BY <2>1 DEF Checks, Slots
<1>3. CASE \E o \in Origin : Tick(o) BY <1>3, TickChecks
<1>4. CASE NextManual \/ \E o \in Origin : \E i \in Slot : CheckStep(o, i)
  BY <1>4, NextManualChecks, AnswerChecks, StoreChecks, EndChecks DEF CheckStep
<1>5. CASE CheckNow(Origin) \/ (\E o \in Origin : CheckNow({o})) \/ Restart
  BY <1>5, CheckNowChecks, RestartChecks
<1> QED BY <1>1, <1>2, <1>3, <1>4, <1>5 DEF Next

LEMMA InitChecks == ASSUME Init PROVE Checks
<1>1. checks = {} /\ manual = <<>> /\ pool \in State BY AggregateType DEF Init
<1>2. IsFiniteSet(checks) /\ Cardinality(checks) = 0 BY <1>1, FS_EmptySet
<1>3. Slots BY <1>1, <1>2, ThresholdsPositive DEF Slots
<1> QED BY <1>1, <1>3 DEF Checks

(***************************************************************************)
(* What the operator knows                                                 *)
(***************************************************************************)

(* The site has an origin, no administrator checks a static one, and the   *)
(* destination subscribes to the alerts about the pool.                    *)
Site ==
    /\ Origin # {} /\ (Static = {} \/ MaxManual = 0)
    /\ PoolAlert = {"pool_unhealthy", "pool_recovered"} /\ PoolAlert \subseteq Subscribed /\ Silence \notin PoolAlert

OutboxRow == [alert : Subscribed, attempts : Nat]

(* The runtime of an origin that was never edited                          *)
Plain(r) == r # NoRuntime /\ r.gen = 0 /\ r.on = TRUE /\ r.status = "enabled" /\ r.revision = 0

Unedited ==
    /\ on = TRUE /\ onVersion = 0 /\ edits = 0
    /\ \A o \in Origin : origins[o].status = "enabled" /\ origins[o].revision = 0 /\ Plain(runtime[o])
    /\ \A c \in checks : c.gen = 0

(* Static origins are not checked.                                         *)
StaticUnchecked ==
    /\ Static = {} \/ (asked = 0 /\ manual = <<>>)
    /\ \A c \in checks : c.origin \notin Static
    /\ \A o \in Static : runtime[o].scheduled = FALSE /\ runtime[o].state = "disabled"

LEMMA AdvancedMore ==
    ASSUME NEW r \in Runtime, NEW h \in BOOLEAN
    PROVE  /\ Advanced(r, h).gen = r.gen /\ Advanced(r, h).state \in {"healthy", "unhealthy", "degraded"}
           /\ r.state = "unhealthy" => Advanced(r, h).state \in {"healthy", "unhealthy"}
<1>1. CASE h BY <1>1 DEF Advanced, Runtime
<1>2. CASE ~h BY <1>2 DEF Advanced, Runtime
<1> QED BY <1>1, <1>2

(* What the steps of a check do to a plain runtime                         *)
LEMMA ReleasedPlain ==
    ASSUME IInv, Unedited, NEW c \in checks, c.origin \in Origin
    PROVE  /\ \A o \in Origin : Plain(Released(c)[o]) /\ Released(c)[o].state = runtime[o].state
           /\ \A o \in Origin \ {c.origin} : Released(c)[o] = runtime[o]
<1>1. runtime \in [Origin -> Runtime \union {NoRuntime}] BY DEF IInv, Types
<1>2. runtime[c.origin] \in Runtime /\ runtime[c.origin].gen = 0 /\ c.gen = 0 BY <1>1 DEF Unedited, Plain
<1>3. Current(c) BY <1>2, NoRuntimeDistinct DEF Current
<1> DEFINE r == [runtime[c.origin] EXCEPT !.running = FALSE, !.scheduled = TRUE]
<1>4. Released(c) = [runtime EXCEPT ![c.origin] = r] BY <1>1, <1>3 DEF Released
<1>5. r \in Runtime /\ r.gen = runtime[c.origin].gen /\ r.on = runtime[c.origin].on /\ r.status = runtime[c.origin].status
      /\ r.revision = runtime[c.origin].revision /\ r.state = runtime[c.origin].state
  BY <1>2 DEF Runtime
<1> HIDE DEF r
<1>6. \A o \in Origin : Released(c)[o] = IF o = c.origin THEN r ELSE runtime[o] BY <1>1, <1>4
<1>7. Plain(r) BY <1>5, NoRuntimeDistinct DEF Unedited, Plain
<1> QED BY <1>5, <1>6, <1>7 DEF Unedited

LEMMA CurrentChecks ==
    ASSUME IInv, Checks, Unedited, NEW c \in checks
    PROVE  c \in CheckRecord /\ c.origin \in Origin /\ Current(c) /\ runtime[c.origin] \in Runtime
<1>1. c \in CheckRecord /\ c.origin \in Origin BY DEF Checks, CheckRecord
<1>2. runtime[c.origin] \in Runtime BY <1>1 DEF IInv, Types, Unedited, Plain
<1> QED BY <1>1, <1>2 DEF Current, Unedited, Plain

LEMMA TickOrderly ==
    ASSUME IInv, Checks, Unedited, StaticUnchecked, NEW o \in Origin, Tick(o)
    PROVE  /\ Unedited' /\ StaticUnchecked'
           /\ \A x \in Origin : runtime'[x].state = runtime[x].state
           /\ \E d : d \notin checks /\ d.pc = "fetch" /\ checks' = checks \union {d}
<1>1. Cardinality(checks) \in Nat /\ MaxActive \in Nat BY FS_CardinalityType, ThresholdsPositive DEF Checks, Slots
<1>2. /\ runtime[o] # NoRuntime /\ Cardinality(checks) < MaxActive /\ runtime[o].scheduled
      /\ runtime' = [runtime EXCEPT ![o].running = TRUE] /\ checks' = checks \union {Started(o, "tick")}
      /\ UNCHANGED <<on, onVersion, edits, origins, asked, manual>>
  BY DEF Tick
<1>3. Cardinality(checks) <= MaxActive BY <1>1, <1>2
<1>4. /\ Started(o, "tick").pc = "fetch" /\ Started(o, "tick").origin = o /\ Started(o, "tick").gen = runtime[o].gen
      /\ Started(o, "tick") \notin checks
  BY <1>2, <1>3, CheckStarted
<1>5. runtime \in [Origin -> Runtime \union {NoRuntime}] /\ runtime[o] \in Runtime BY <1>2 DEF IInv, Types
<1> DEFINE r == [runtime[o] EXCEPT !.running = TRUE]
<1>6. runtime' = [runtime EXCEPT ![o] = r] BY <1>2, <1>5
<1>7. r \in Runtime /\ r.gen = runtime[o].gen /\ r.on = runtime[o].on /\ r.status = runtime[o].status
      /\ r.revision = runtime[o].revision /\ r.state = runtime[o].state /\ r.scheduled = runtime[o].scheduled
  BY <1>5 DEF Runtime
<1> HIDE DEF r
<1>8. \A x \in Origin : runtime'[x] = IF x = o THEN r ELSE runtime[x] BY <1>5, <1>6
<1>9. o \notin Static BY <1>2 DEF StaticUnchecked
<1>10. Plain(r) BY <1>7, NoRuntimeDistinct DEF Unedited, Plain
<1>11. Unedited'
  <2>1. \A c \in checks' : c.gen = 0 BY <1>2, <1>4 DEF Unedited, Plain
  <2>2. \A x \in Origin : Plain(runtime'[x]) BY <1>8, <1>10 DEF Unedited
  <2> QED BY <1>2, <2>1, <2>2 DEF Unedited, Plain
<1>12. StaticUnchecked' BY <1>2, <1>4, <1>8, <1>9, OriginsFinite DEF StaticUnchecked
<1> QED BY <1>2, <1>4, <1>7, <1>8, <1>11, <1>12

LEMMA NextManualOrderly ==
    ASSUME IInv, Checks, Unedited, StaticUnchecked, NextManual
    PROVE  /\ Unedited' /\ StaticUnchecked'
           /\ \A x \in Origin : runtime'[x].state = runtime[x].state
           /\ checks' = checks \/ \E d : d \notin checks /\ d.pc = "fetch" /\ checks' = checks \union {d}
<1> DEFINE o == Head(manual).origin
<1>1. manual # <<>> /\ (\A c \in checks : c.by # "admin") /\ UNCHANGED <<on, onVersion, edits, origins, asked>> BY DEF NextManual
<1>2. Head(manual) \in Target BY <1>1 DEF Checks
<1>3. o \in Origin BY <1>2 DEF Target
<1>4. Static = {} BY <1>1 DEF StaticUnchecked
<1>5. Cardinality(checks) <= MaxActive BY <1>1 DEF Checks, Slots
<1>6. CASE runtime[o] # NoRuntime /\ runtime[o].gen = Head(manual).gen
  <2>1. checks' = checks \union {Started(o, "admin")} /\ runtime' = [runtime EXCEPT ![o].running = TRUE]
    BY <1>6 DEF NextManual
  <2> HIDE DEF o
  <2>2. /\ Started(o, "admin").pc = "fetch" /\ Started(o, "admin").origin = o /\ Started(o, "admin").gen = runtime[o].gen
        /\ Started(o, "admin") \notin checks
    BY <1>3, <1>5, <1>6, CheckStarted
  <2>3. runtime \in [Origin -> Runtime \union {NoRuntime}] /\ runtime[o] \in Runtime BY <1>3, <1>6 DEF IInv, Types
  <2> DEFINE r == [runtime[o] EXCEPT !.running = TRUE]
  <2>4. runtime' = [runtime EXCEPT ![o] = r] BY <2>1, <2>3
  <2>5. r \in Runtime /\ r.gen = runtime[o].gen /\ r.on = runtime[o].on /\ r.status = runtime[o].status
        /\ r.revision = runtime[o].revision /\ r.state = runtime[o].state
    BY <2>3 DEF Runtime
  <2> HIDE DEF r
  <2>6. \A x \in Origin : runtime'[x] = IF x = o THEN r ELSE runtime[x] BY <2>3, <2>4
  <2>7. Plain(r) BY <1>3, <2>5, NoRuntimeDistinct DEF Unedited, Plain
  <2>8. Unedited'
    <3>1. \A c \in checks' : c.gen = 0 BY <1>3, <2>1, <2>2 DEF Unedited, Plain
    <3>2. \A x \in Origin : Plain(runtime'[x]) BY <2>6, <2>7 DEF Unedited
    <3> QED BY <1>1, <3>1, <3>2 DEF Unedited, Plain
  <2>9. StaticUnchecked' BY <1>4 DEF StaticUnchecked
  <2> QED BY <2>1, <2>2, <2>5, <2>6, <2>8, <2>9
<1>7. CASE ~(runtime[o] # NoRuntime /\ runtime[o].gen = Head(manual).gen)
  <2>1. UNCHANGED <<runtime, checks>> BY <1>7 DEF NextManual
  <2>2. Unedited' BY <1>1, <2>1 DEF Unedited, Plain
  <2>3. StaticUnchecked' BY <1>4 DEF StaticUnchecked
  <2> QED BY <2>1, <2>2, <2>3
<1> QED BY <1>6, <1>7

LEMMA AnswerOrderly ==
    ASSUME IInv, Checks, Unedited, StaticUnchecked, NEW c \in checks, Answer(c)
    PROVE  /\ Unedited' /\ StaticUnchecked'
           /\ \A x \in Origin \ {c.origin} : runtime'[x] = runtime[x]
           /\ runtime'[c.origin].state \in {"healthy", "unhealthy", "degraded"}
           /\ runtime[c.origin].state = "unhealthy" => runtime'[c.origin].state \in {"healthy", "unhealthy"}
           /\ checks' = (checks \ {c}) \union {Judged(c, runtime'[c.origin].state)}
<1>1. c \in CheckRecord /\ c.origin \in Origin /\ Current(c) /\ runtime[c.origin] \in Runtime BY CurrentChecks
<1>2. PICK h \in BOOLEAN :
               /\ Advanced(runtime[c.origin], h) \in Runtime
               /\ runtime' = [runtime EXCEPT ![c.origin] = Advanced(runtime[c.origin], h)]
               /\ runtime'[c.origin] = Advanced(runtime[c.origin], h)
               /\ checks' = (checks \ {c}) \union {Judged(c, Advanced(runtime[c.origin], h).state)}
  BY <1>1, AnswerCurrent
<1> DEFINE r == Advanced(runtime[c.origin], h)
<1>3. /\ r.gen = runtime[c.origin].gen /\ r.state \in {"healthy", "unhealthy", "degraded"}
      /\ runtime[c.origin].state = "unhealthy" => r.state \in {"healthy", "unhealthy"}
      /\ r.on = runtime[c.origin].on /\ r.status = runtime[c.origin].status /\ r.revision = runtime[c.origin].revision
  BY <1>1, AdvancedMore, AdvancedKeeps
<1>4. r \in Runtime /\ runtime' = [runtime EXCEPT ![c.origin] = r] /\ runtime'[c.origin] = r
      /\ checks' = (checks \ {c}) \union {Judged(c, r.state)}
  BY <1>2
<1>5. runtime[c.origin].state \in State /\ r.state \in State /\ pool \in State BY <1>1, <1>3 DEF Runtime, Checks, State
<1> HIDE DEF r
<1>6. Judged(c, r.state).gen = c.gen /\ Judged(c, r.state).origin = c.origin BY <1>1, <1>5, JudgedIs
<1>7. UNCHANGED <<on, onVersion, edits, origins, asked, manual>> BY DEF Answer
<1>8. Plain(r) BY <1>1, <1>3, <1>4, NoRuntimeDistinct DEF Unedited, Plain
<1>9. \A x \in Origin : runtime'[x] = IF x = c.origin THEN r ELSE runtime[x] BY <1>4 DEF IInv, Types
<1>10. Unedited' BY <1>4, <1>6, <1>7, <1>8, <1>9 DEF Unedited, Plain
<1>11. StaticUnchecked' BY <1>4, <1>6, <1>7, <1>9, OriginsFinite DEF StaticUnchecked
<1> QED BY <1>3, <1>4, <1>9, <1>10, <1>11

LEMMA EndOrderly ==
    ASSUME IInv, Checks, Unedited, StaticUnchecked, NEW c \in checks,
           runtime' = Released(c) \/ runtime' = runtime,
           \A d \in checks' : d \in checks \/ (d.gen = c.gen /\ d.origin = c.origin),
           UNCHANGED <<on, onVersion, edits, origins, asked, manual>>
    PROVE  Unedited' /\ StaticUnchecked' /\ \A x \in Origin : runtime'[x].state = runtime[x].state
<1>1. c.origin \in Origin /\ c.gen = 0 /\ c.origin \notin Static BY CurrentChecks DEF Unedited, StaticUnchecked
<1>2. CASE runtime' = runtime
  <2>1. Unedited' BY <1>1, <1>2 DEF Unedited, Plain
  <2>2. StaticUnchecked' BY <1>1, <1>2 DEF StaticUnchecked
  <2> QED BY <1>2, <2>1, <2>2
<1>3. CASE runtime' = Released(c)
  <2>1. /\ \A o \in Origin : Plain(runtime'[o]) /\ runtime'[o].state = runtime[o].state
        /\ \A o \in Origin \ {c.origin} : runtime'[o] = runtime[o]
    BY <1>1, <1>3, ReleasedPlain
  <2>2. Unedited' BY <1>1, <2>1 DEF Unedited, Plain
  <2>3. StaticUnchecked' BY <1>1, <2>1, OriginsFinite DEF StaticUnchecked
  <2> QED BY <2>1, <2>2, <2>3
<1> QED BY <1>2, <1>3

LEMMA CheckNowOrderly ==
    ASSUME IInv, Unedited, StaticUnchecked, NEW S, CheckNow(S)
    PROVE  Unedited' /\ StaticUnchecked' /\ runtime' = runtime
<1>1. Static = {} /\ UNCHANGED <<on, onVersion, edits, origins, checks>> BY DEF StaticUnchecked, CheckNow
<1>2. ASSUME NEW o \in Origin PROVE Reset(o, origins[o], on, StateOf(runtime[o])) = runtime[o]
  BY DEF Unedited, Plain, Reset
<1>3. \A o \in Origin : origins[o].status # "absent" BY DEF Unedited
<1>4. Refreshed(on, origins) = [o \in Origin |-> runtime[o]] BY <1>2, <1>3 DEF Refreshed
<1>5. runtime' = runtime BY <1>4 DEF CheckNow, IInv, Types
<1>6. Unedited' BY <1>1, <1>5 DEF Unedited, Plain
<1>7. StaticUnchecked' BY <1>1 DEF StaticUnchecked
<1> QED BY <1>5, <1>6, <1>7

(* A refresh that has read nothing but unedited rows                       *)
LEMMA RefreshOrderly ==
    ASSUME IInv, Unedited, StaticUnchecked, NEW f \in refreshes, Refresh(f)
    PROVE  Unedited' /\ StaticUnchecked' /\ runtime' = runtime
<1>1. UNCHANGED <<on, onVersion, edits, origins, checks, asked, manual>> /\ f.pc = "apply" BY DEF Refresh
<1>2. f.on = on /\ f.rows = origins
  <2>1. f.version <= onVersion /\ f.seen <= OriginsVersion
    BY <1>1 DEF IInv, NewestRead
  <2>4. onVersion = 0 /\ OriginsVersion = 0
    BY DEF Unedited, OriginsVersion
  <2>2. f.version \in Nat /\ f.seen \in Nat BY DEF IInv, Types
  <2>3. f.version = onVersion /\ f.seen = OriginsVersion BY <2>1, <2>2, <2>4
  <2> QED BY <1>1, <2>3 DEF IInv, NewestRead
<1>3. ASSUME NEW o \in Origin, NEW previous PROVE Reset(o, origins[o], on, previous) = runtime[o]
  BY DEF Unedited, Plain, Reset
<1>4. \A o \in Origin : origins[o].status # "absent" BY DEF Unedited
<1>5. Refreshed(on, origins) = [o \in Origin |-> runtime[o]] BY <1>3, <1>4 DEF Refreshed
<1>6. Reinitialized(on, origins) = [o \in Origin |-> runtime[o]] BY <1>3, <1>4 DEF Reinitialized
<1>7. runtime' = runtime BY <1>2, <1>5, <1>6 DEF Refresh, IInv, Types
<1>8. Unedited' BY <1>1, <1>7 DEF Unedited, Plain
<1>9. StaticUnchecked' BY <1>1, <1>7 DEF StaticUnchecked
<1> QED BY <1>7, <1>8, <1>9

LEMMA RestartOrderly ==
    ASSUME IInv, Unedited, StaticUnchecked, Restart
    PROVE  /\ Unedited' /\ StaticUnchecked'
           /\ \A o \in Origin : runtime'[o].state = IF o \in Static THEN "disabled"
                                                    ELSE IF saved[o] = "unhealthy" THEN "unhealthy" ELSE "unknown"
<1>1. UNCHANGED <<on, onVersion, edits, origins, asked>> /\ checks' = {} /\ manual' = <<>> /\ runtime' = Initialized
  BY DEF Restart
<1>2. \A o \in Origin : origins[o].status = "enabled" /\ origins[o].revision = 0 /\ on = TRUE BY DEF Unedited
<1>3. \A o \in Origin : runtime'[o] = Fresh(o) BY <1>1, <1>2 DEF Initialized
<1>4. ASSUME NEW o \in Origin
      PROVE  /\ Fresh(o) \in Runtime /\ Fresh(o).gen = 0 /\ Fresh(o).on = TRUE /\ Fresh(o).status = "enabled"
             /\ Fresh(o).revision = 0 /\ Fresh(o).scheduled = (o \notin Static)
             /\ Fresh(o).state = IF o \in Static THEN "disabled"
                                 ELSE IF saved[o] = "unhealthy" THEN "unhealthy" ELSE "unknown"
  <2>1. Fresh(o) \in Runtime BY <1>2, FreshFollows DEF IInv
  <2> DEFINE enabled == o \notin Static /\ on /\ origins[o].status = "enabled"
  <2>2. enabled <=> o \notin Static BY <1>2
  <2>3. Fresh(o).gen = 0 /\ Fresh(o).on = on /\ Fresh(o).status = origins[o].status /\ Fresh(o).revision = origins[o].revision
        /\ Fresh(o).scheduled = enabled /\ Fresh(o).state = StateAfterChange(enabled, saved[o])
    BY DEF Fresh
  <2>4. enabled = (o \notin Static) BY <2>2
  <2> HIDE DEF enabled
  <2> QED BY <1>2, <2>1, <2>2, <2>3, <2>4 DEF StateAfterChange
<1>5. \A o \in Origin : Plain(runtime'[o]) BY <1>3, <1>4, NoRuntimeDistinct DEF Plain
<1>6. Unedited' BY <1>1, <1>2, <1>5 DEF Unedited, Plain
<1>7. StaticUnchecked'
  <2>1. ASSUME NEW o \in Static PROVE runtime'[o].scheduled = FALSE /\ runtime'[o].state = "disabled"
    <3>1. o \in Origin /\ (o \notin Static) = FALSE BY OriginsFinite
    <3> QED BY <1>3, <1>4, <3>1
  <2> QED BY <1>1, <2>1 DEF StaticUnchecked
<1> QED BY <1>3, <1>4, <1>6, <1>7

(* The last alert about the pool among the rows q, or h if there is none,  *)
(* announces an outage.                                                    *)
OutageIn(q, h) ==
    IF \E i \in 1..Len(q) : q[i].alert \in PoolAlert
    THEN \E i \in 1..Len(q) : q[i].alert = "pool_unhealthy" /\ \A j \in (i + 1)..Len(q) : q[j].alert \notin PoolAlert
    ELSE h = "pool_unhealthy"

LEMMA OutageAppended ==
    ASSUME Site, NEW q \in Seq(OutboxRow), NEW h, NEW r \in OutboxRow
    PROVE  OutageIn(Append(q, r), h) <=>
               IF r.alert \in PoolAlert THEN r.alert = "pool_unhealthy" ELSE OutageIn(q, h)
<1> DEFINE p == Append(q, r)
           n == Len(q)
<1>1. n \in Nat /\ Len(p) = n + 1 /\ p[n + 1] = r /\ \A i \in 1..n : p[i] = q[i] OBVIOUS
<1> HIDE DEF p, n
<1>2. \A i : i \in 1..(n + 1) <=> i \in 1..n \/ i = n + 1 BY <1>1
<1>3. CASE r.alert \in PoolAlert
  <2>1. \E i \in 1..Len(p) : p[i].alert \in PoolAlert BY <1>1, <1>2, <1>3
  <2>2. ASSUME NEW i \in 1..Len(p), \A j \in (i + 1)..Len(p) : p[j].alert \notin PoolAlert PROVE i = n + 1
    <3> SUFFICES ASSUME i # n + 1 PROVE FALSE OBVIOUS
    <3>1. n + 1 \in (i + 1)..Len(p) BY <1>1
    <3> QED BY <1>1, <1>3, <2>2, <3>1
  <2>3. \A j \in ((n + 1) + 1)..Len(p) : FALSE BY <1>1
  <2>4. n + 1 \in 1..Len(p) BY <1>1
  <2>5. OutageIn(p, h) <=> r.alert = "pool_unhealthy" BY <1>1, <2>1, <2>2, <2>3, <2>4 DEF OutageIn
  <2> QED BY <1>3, <2>5 DEF p
<1>4. CASE r.alert \notin PoolAlert
  <2>1. (\E i \in 1..Len(p) : p[i].alert \in PoolAlert) <=> \E i \in 1..n : q[i].alert \in PoolAlert BY <1>1, <1>2, <1>4
  <2>2. "pool_unhealthy" \in PoolAlert BY DEF Site
  <2>3. ASSUME NEW i \in 1..n
        PROVE  (\A j \in (i + 1)..Len(p) : p[j].alert \notin PoolAlert) <=> \A j \in (i + 1)..n : q[j].alert \notin PoolAlert
    <3>1. \A j : j \in (i + 1)..Len(p) <=> j \in (i + 1)..n \/ j = n + 1 BY <1>1
    <3>2. \A j \in (i + 1)..n : p[j] = q[j] BY <1>1
    <3> QED BY <1>1, <1>4, <3>1, <3>2
  <2>4. (\E i \in 1..Len(p) : p[i].alert = "pool_unhealthy" /\ \A j \in (i + 1)..Len(p) : p[j].alert \notin PoolAlert)
        <=> \E i \in 1..n : q[i].alert = "pool_unhealthy" /\ \A j \in (i + 1)..n : q[j].alert \notin PoolAlert
    <3>1. p[n + 1].alert # "pool_unhealthy" BY <1>1, <1>4, <2>2
    <3> QED BY <1>1, <1>2, <2>3, <3>1
  <2>5. OutageIn(p, h) <=> OutageIn(q, h) BY <2>1, <2>4 DEF OutageIn, n
  <2> QED BY <1>4, <2>5 DEF p
<1> QED BY <1>3, <1>4

(* The head of the rows is received, and then goes or stays.               *)
LEMMA OutageReceived ==
    ASSUME Site, NEW q \in Seq(OutboxRow), q # <<>>, NEW p, Len(p) = Len(q) - 1, \A i \in 1..(Len(q) - 1) : p[i] = q[i + 1],
           NEW h, NEW g, g = IF q[1].alert \in PoolAlert THEN q[1].alert ELSE h
    PROVE  (OutageIn(p, g) <=> OutageIn(q, h)) /\ (OutageIn(q, g) <=> OutageIn(q, h))
<1> DEFINE n == Len(q)
<1>1. n \in Nat \ {0} /\ Len(p) = n - 1 /\ \A i \in 1..(n - 1) : p[i] = q[i + 1] OBVIOUS
<1> HIDE DEF n
<1>2. \A i : i \in 1..n <=> i = 1 \/ (i - 1 \in 1..(n - 1) /\ i \in Int) BY <1>1
<1>3. (\E i \in 1..n : q[i].alert \in PoolAlert) <=> q[1].alert \in PoolAlert \/ \E i \in 1..(n - 1) : p[i].alert \in PoolAlert
  <2>1. ASSUME NEW i \in 1..n, q[i].alert \in PoolAlert, q[1].alert \notin PoolAlert PROVE \E k \in 1..(n - 1) : p[k].alert \in PoolAlert
    <3>1. i # 1 /\ i - 1 \in 1..(n - 1) /\ (i - 1) + 1 = i BY <1>1, <2>1
    <3>2. p[i - 1] = q[i] BY <1>1, <3>1
    <3> QED BY <2>1, <3>1, <3>2
  <2>2. \A k \in 1..(n - 1) : k + 1 \in 1..n /\ p[k] = q[k + 1] BY <1>1
  <2>3. 1 \in 1..n BY <1>1
  <2> QED BY <2>1, <2>2, <2>3
<1>4. OutageIn(q, g) <=> OutageIn(q, h)
  <2>1. CASE q[1].alert \in PoolAlert BY <1>3, <2>1 DEF OutageIn, n
  <2>2. CASE q[1].alert \notin PoolAlert
    <3>1. g = h BY <2>2
    <3> QED BY <3>1
  <2> QED BY <2>1, <2>2
<1>5. CASE \E i \in 1..(n - 1) : p[i].alert \in PoolAlert
  <2>1. \A i \in 1..n : (\A j \in (i + 1)..n : q[j].alert \notin PoolAlert) => i # 1
    <3>1. PICK k \in 1..(n - 1) : p[k].alert \in PoolAlert BY <1>5
    <3>2. k + 1 \in (1 + 1)..n /\ q[k + 1].alert \in PoolAlert BY <1>1, <3>1
    <3> QED BY <3>2
  <2>2. ASSUME NEW i \in 1..(n - 1)
        PROVE  (\A j \in (i + 1)..(n - 1) : p[j].alert \notin PoolAlert) <=> \A j \in ((i + 1) + 1)..n : q[j].alert \notin PoolAlert
    <3>1. \A j \in (i + 1)..(n - 1) : j + 1 \in ((i + 1) + 1)..n /\ p[j] = q[j + 1] BY <1>1
    <3>2. \A j \in ((i + 1) + 1)..n : j - 1 \in (i + 1)..(n - 1) /\ p[j - 1] = q[j]
      <4> SUFFICES ASSUME NEW j \in ((i + 1) + 1)..n PROVE j - 1 \in (i + 1)..(n - 1) /\ p[j - 1] = q[j] OBVIOUS
      <4>1. j - 1 \in (i + 1)..(n - 1) /\ j - 1 \in 1..(n - 1) /\ (j - 1) + 1 = j BY <1>1
      <4> QED BY <1>1, <4>1
    <3> QED BY <3>1, <3>2
  <2> DEFINE Q(i) == q[i].alert = "pool_unhealthy" /\ \A j \in (i + 1)..n : q[j].alert \notin PoolAlert
             P(i) == p[i].alert = "pool_unhealthy" /\ \A j \in (i + 1)..(n - 1) : p[j].alert \notin PoolAlert
  <2>3. \A i \in 1..(n - 1) : P(i) <=> Q(i + 1) BY <1>1, <2>2
  <2>4. \A i \in 1..n : Q(i) => i - 1 \in 1..(n - 1) /\ (i - 1) + 1 = i BY <1>1, <2>1
  <2>5. \A i \in 1..(n - 1) : i + 1 \in 1..n BY <1>1
  <2>6. (\E i \in 1..(n - 1) : P(i)) <=> \E i \in 1..n : Q(i)
    <3> HIDE DEF P, Q
    <3>1. ASSUME NEW i \in 1..n, Q(i) PROVE \E k \in 1..(n - 1) : P(k)
      <4>1. i - 1 \in 1..(n - 1) /\ (i - 1) + 1 = i BY <2>4, <3>1
      <4>2. P(i - 1) BY <2>3, <3>1, <4>1
      <4> QED BY <4>1, <4>2
    <3> QED BY <2>3, <2>5, <3>1
  <2>7. OutageIn(p, g) <=> OutageIn(q, h) BY <1>1, <1>3, <1>5, <2>6 DEF OutageIn, n
  <2> QED BY <1>4, <2>7
<1>6. CASE ~\E i \in 1..(n - 1) : p[i].alert \in PoolAlert
  <2>1. OutageIn(p, g) <=> g = "pool_unhealthy" BY <1>1, <1>6 DEF OutageIn
  <2>2. OutageIn(q, h) <=> g = "pool_unhealthy"
    <3>1. CASE q[1].alert \in PoolAlert
      <4>1. \A j \in 2..n : q[j].alert \notin PoolAlert
        <5> SUFFICES ASSUME NEW j \in 2..n PROVE q[j].alert \notin PoolAlert OBVIOUS
        <5>1. j - 1 \in 1..(n - 1) /\ (j - 1) + 1 = j BY <1>1
        <5>2. p[j - 1] = q[j] BY <1>1, <5>1
        <5> QED BY <1>6, <5>1, <5>2
      <4>2. "pool_unhealthy" \in PoolAlert /\ g = q[1].alert BY <3>1 DEF Site
      <4>3. \A i \in 1..n : i = 1 \/ i \in 2..n BY <1>1
      <4>4. 1 \in 1..n BY <1>1
      <4>5. (\E i \in 1..n : q[i].alert = "pool_unhealthy" /\ \A j \in (i + 1)..n : q[j].alert \notin PoolAlert) <=> g = "pool_unhealthy"
        BY <4>1, <4>2, <4>3, <4>4
      <4> QED BY <1>3, <3>1, <4>5 DEF OutageIn, n
    <3>2. CASE q[1].alert \notin PoolAlert BY <1>3, <1>6, <3>2 DEF OutageIn, n
    <3> QED BY <3>1, <3>2
  <2> QED BY <1>4, <2>1, <2>2
<1> QED BY <1>5, <1>6

(* A count of attempts says nothing about the pool.                        *)
LEMMA OutageRetried ==
    ASSUME NEW q \in Seq(OutboxRow), NEW p \in Seq(OutboxRow), NEW h, Len(p) = Len(q),
           \A i \in 1..Len(q) : p[i].alert = q[i].alert
    PROVE  OutageIn(p, h) <=> OutageIn(q, h)
<1>1. \A i \in 1..Len(q) : \A j \in (i + 1)..Len(q) : j \in 1..Len(q) OBVIOUS
<1> QED BY <1>1 DEF OutageIn

LEMMA SettledRows ==
    ASSUME NEW q \in Seq(OutboxRow), q # <<>>, NEW p, p = SubSeq(q, 1, 1 - 1) \o SubSeq(q, 1 + 1, Len(q))
    PROVE  p \in Seq(OutboxRow) /\ Len(p) = Len(q) - 1 /\ \A i \in 1..(Len(q) - 1) : p[i] = q[i + 1]
<1> DEFINE a == SubSeq(q, 1, 0)
           b == SubSeq(q, 2, Len(q))
<1>1. Len(q) \in Nat \ {0} OBVIOUS
<1>2. a \in Seq(OutboxRow) /\ Len(a) = 0 BY <1>1
<1>3. b \in Seq(OutboxRow)
  <2>1. \A i \in 2..Len(q) : q[i] \in OutboxRow BY <1>1
  <2> QED BY <1>1, <2>1
<1>4. Len(b) = Len(q) - 1
  <2>1. CASE Len(q) = 1 BY <2>1
  <2>2. CASE Len(q) > 1 BY <1>1, <2>2
  <2>3. Len(q) = 1 \/ Len(q) > 1
    <3>1. \A n \in Nat \ {0} : n = 1 \/ n > 1 OBVIOUS
    <3> QED BY <1>1, <3>1
  <2> HIDE DEF b
  <2> QED BY <2>1, <2>2, <2>3
<1>5. \A i \in 1..(Len(q) - 1) : b[i] = q[i + 1] BY <1>1
<1>6. p = a \o b
  <2>1. 1 - 1 = 0 /\ 1 + 1 = 2 OBVIOUS
  <2> QED BY <2>1
<1> HIDE DEF a, b
<1>7. p \in Seq(OutboxRow) /\ Len(p) = Len(q) - 1 BY <1>1, <1>2, <1>3, <1>4, <1>6
<1>8. \A i \in 1..(Len(q) - 1) : p[i] = b[i] BY <1>1, <1>2, <1>3, <1>4, <1>6
<1> QED BY <1>5, <1>7, <1>8

(***************************************************************************)
(* The inductive invariant                                                 *)
(***************************************************************************)

Down(s) == s = "unhealthy"

AllDown == \A o \in Origin : Down(runtime[o].state)

OneStore == \A c, d \in checks : c.pc = "store" /\ d.pc = "store" /\ c.origin = d.origin => c = d

(* The stored status of an origin tells an outage as its runtime does, or  *)
(* as it did before the check that is about to store it.                   *)
Stored ==
    /\ \A o \in Origin \ Static :
           (\A c \in checks : c.pc = "store" => c.origin # o) => (Down(saved[o]) <=> Down(runtime[o].state))
    /\ \A c \in checks :
           c.pc = "store" => c.now = runtime[c.origin].state /\ (Down(saved[c.origin]) <=> Down(c.was))

(* An alert about the pool on its way to the outbox tells the truth.       *)
Alerts == \A c \in checks : c.pc = "alert" /\ c.alert \in PoolAlert => (c.alert = "pool_unhealthy" <=> Down(pool))

Out == \E c \in checks : c.pc = "alert" /\ c.alert \in PoolAlert

(* The receiver will know of an outage once it has got what is on its way. *)
Told == IF Out THEN Down(pool) ELSE OutageIn(outbox, heard)

(* A check that is about to compare the pool saw it in the other state.    *)
RecoverySeen == \E e \in checks : e.pc = "store" /\ runtime[e.origin].state = "healthy" /\ Down(e.poolWas)
OutageSeen == \E e \in checks : e.pc = "store" /\ ~Down(e.poolWas)

Consistent ==
    /\ Down(pool) \/ Down(savedPool) \/ (~lost /\ Told) => (Down(pool) /\ AllDown) \/ RecoverySeen
    /\ ~lost /\ ~Told /\ AllDown => OutageSeen

Truthful == Stored /\ Alerts /\ Consistent

Known ==
    /\ outbox \in Seq(OutboxRow) /\ saved \in [Origin -> State \union {None}]
    /\ ~muddled => Unedited /\ StaticUnchecked
    /\ ~muddled /\ OneStore => Truthful

LEMMA AggregateDown ==
    ASSUME Site, NEW rt, \A o \in Origin : rt[o] # NoRuntime /\ rt[o].status = "enabled"
    PROVE  /\ Down(Aggregate(rt, TRUE)) <=> \A o \in Origin : Down(rt[o].state)
           /\ (\E o \in Origin : rt[o].state = "healthy") => Aggregate(rt, TRUE) = "healthy"
           /\ (\A o \in Origin : rt[o].state # "healthy") => Aggregate(rt, TRUE) # "healthy"
<1> DEFINE states == {rt[o].state : o \in {x \in Origin : rt[x] # NoRuntime /\ rt[x].status = "enabled"}}
<1>1. \A s : s \in states <=> \E o \in Origin : rt[o].state = s OBVIOUS
<1>2. Aggregate(rt, TRUE) = CASE states = {} -> "unhealthy"
          [] "healthy" \in states -> "healthy"
          [] "healthy" \notin states /\ "degraded" \in states -> "degraded"
          [] OTHER -> IF states = {"unhealthy"} THEN "unhealthy" ELSE "unknown"
  BY DEF Aggregate
<1> HIDE DEF states
<1>3. PICK o \in Origin : TRUE BY DEF Site
<1>4. states # {} /\ rt[o].state \in states BY <1>1
<1>5. (states = {"unhealthy"}) <=> \A x \in Origin : Down(rt[x].state) BY <1>1, <1>4 DEF Down
<1>6. Down(Aggregate(rt, TRUE)) <=> states = {"unhealthy"} BY <1>2, <1>4 DEF Down
<1> QED BY <1>1, <1>2, <1>4, <1>5, <1>6

(* A step that leaves the states and the checks about to store alone       *)
LEMMA Unmoved ==
    ASSUME Stored, Consistent, \A x \in Origin : runtime'[x].state = runtime[x].state, Checks, Checks',
           UNCHANGED <<pool, saved>>, \A e : e.pc = "store" => (e \in checks' <=> e \in checks),
           ~lost' => ~lost /\ (Told' <=> Told), Down(savedPool') => Down(savedPool) \/ Down(pool)
    PROVE  Stored' /\ Consistent'
<1>1. \A c \in checks : c.origin \in Origin BY DEF Checks, CheckRecord
<1>2. AllDown' <=> AllDown BY DEF AllDown
<1>3. RecoverySeen' <=> RecoverySeen
  <2>1. \A e : (e \in checks' /\ e.pc = "store") <=> (e \in checks /\ e.pc = "store") OBVIOUS
  <2> QED BY <1>1, <2>1 DEF RecoverySeen
<1>4. OutageSeen' <=> OutageSeen
  <2>1. \A e : (e \in checks' /\ e.pc = "store") <=> (e \in checks /\ e.pc = "store") OBVIOUS
  <2> QED BY <2>1 DEF OutageSeen
<1>5. Stored' BY <1>1 DEF Stored
<1> QED BY <1>2, <1>3, <1>4, <1>5 DEF Consistent

LEMMA ToldKept ==
    ASSUME \A e : e.pc = "alert" => (e \in checks' <=> e \in checks), pool' = pool,
           OutageIn(outbox', heard') <=> OutageIn(outbox, heard)
    PROVE  Told' <=> Told
<1>1. Out' <=> Out
  <2>1. \A e : (e \in checks' /\ e.pc = "alert") <=> (e \in checks /\ e.pc = "alert") OBVIOUS
  <2> QED BY <2>1 DEF Out
<1> QED BY <1>1 DEF Told

(* A step that changes none of the states, the pool and the checks that    *)
(* have their answer                                                       *)
LEMMA QuietStep ==
    ASSUME Checks, Checks', Known, outbox' \in Seq(OutboxRow), ~muddled' => ~muddled,
           ~muddled' => /\ Unedited' /\ StaticUnchecked'
                        /\ \A x \in Origin : runtime'[x].state = runtime[x].state
                        /\ pool' = pool,
           \A e : e.pc # "fetch" => (e \in checks' <=> e \in checks),
           saved' = saved, Down(savedPool') /\ ~muddled' => Down(savedPool) \/ Down(pool),
           ~lost' => ~lost /\ (OutageIn(outbox', heard') <=> OutageIn(outbox, heard))
    PROVE  Known'
<1>1. ASSUME ~muddled', OneStore' PROVE Truthful'
  <2>1. \A e : e.pc = "store" \/ e.pc = "alert" => (e \in checks' <=> e \in checks) OBVIOUS
  <2>2. OneStore BY <1>1, <2>1 DEF OneStore
  <2>3. Stored /\ Alerts /\ Consistent BY <1>1, <2>2 DEF Known, Truthful
  <2>4. ~lost' => ~lost /\ (Told' <=> Told)
    <3> HAVE ~lost'
    <3>1. ~lost /\ (OutageIn(outbox', heard') <=> OutageIn(outbox, heard)) /\ pool' = pool BY <1>1
    <3>2. \A e : e.pc = "alert" => (e \in checks' <=> e \in checks) BY <2>1
    <3> QED BY <3>1, <3>2, ToldKept
  <2>5. Stored' /\ Consistent' BY <1>1, <2>1, <2>3, <2>4, Unmoved
  <2>6. Alerts' BY <1>1, <2>1, <2>3 DEF Alerts
  <2> QED BY <2>5, <2>6 DEF Truthful
<1> QED BY <1>1 DEF Known

(***************************************************************************)
(* The steps keep what the operator knows                                  *)
(***************************************************************************)

LEMMA Delivery ==
    ASSUME Site, outbox \in Seq(OutboxRow), DeliverOne \/ DeliverAgain
    PROVE  /\ outbox' \in Seq(OutboxRow)
           /\ ~lost' => ~lost /\ (OutageIn(outbox', heard') <=> OutageIn(outbox, heard))
<1> DEFINE g == IF outbox[1].alert \in PoolAlert THEN outbox[1].alert ELSE heard
           S == SubSeq(outbox, 1, 1 - 1) \o SubSeq(outbox, 1 + 1, Len(outbox))
           R == [outbox EXCEPT ![1].attempts = @ + 1]
<1>1. /\ outbox # <<>>
      /\ \/ outbox' = S /\ lost' = TRUE
         \/ outbox' = S /\ lost' = lost /\ heard' = g
         \/ outbox' = R /\ lost' = lost /\ heard' \in {g, heard}
         \/ outbox' = outbox /\ lost' = lost /\ heard' = g
  BY DEF DeliverOne, DeliverAgain, Pending, Settled, Received, Retried
<1>2. S \in Seq(OutboxRow) /\ Len(S) = Len(outbox) - 1 /\ \A i \in 1..(Len(outbox) - 1) : S[i] = outbox[i + 1]
  BY <1>1, SettledRows
<1>3. R \in Seq(OutboxRow) /\ Len(R) = Len(outbox) /\ \A i \in 1..Len(outbox) : R[i].alert = outbox[i].alert
  <2> DEFINE r == [outbox[1] EXCEPT !.attempts = @ + 1]
  <2>1. 1 \in 1..Len(outbox) /\ outbox[1] \in OutboxRow BY <1>1
  <2>2. r \in OutboxRow /\ r.alert = outbox[1].alert BY <2>1 DEF OutboxRow
  <2>3. R = [outbox EXCEPT ![1] = r] OBVIOUS
  <2> HIDE DEF r, R
  <2> QED BY <2>1, <2>2, <2>3
<1> HIDE DEF S, R
<1>4. (OutageIn(S, g) <=> OutageIn(outbox, heard)) /\ (OutageIn(outbox, g) <=> OutageIn(outbox, heard))
  <2>1. g = IF outbox[1].alert \in PoolAlert THEN outbox[1].alert ELSE heard OBVIOUS
  <2> HIDE DEF g
  <2> QED BY <1>1, <1>2, <2>1, OutageReceived
<1>5. (OutageIn(R, g) <=> OutageIn(outbox, g)) /\ (OutageIn(R, heard) <=> OutageIn(outbox, heard))
  <2> HIDE DEF g
  <2> QED BY <1>3, OutageRetried
<1> HIDE DEF g
<1> QED BY <1>1, <1>2, <1>3, <1>4, <1>5

LEMMA DeliveryKnown == ASSUME Site, Checks, Checks', Known, Deliver \/ DeliveryFault PROVE Known'
<1>1. UNCHANGED <<on, onVersion, edits, origins, runtime, pool, saved, savedPool, checks, manual, muddled, asked>>
  BY DEF Deliver, DeliveryFault
<1>2. outbox \in Seq(OutboxRow) BY DEF Known
<1>3. /\ outbox' \in Seq(OutboxRow)
      /\ ~lost' => ~lost /\ (OutageIn(outbox', heard') <=> OutageIn(outbox, heard))
  BY <1>2, Delivery DEF Deliver, DeliveryFault
<1>4. ~muddled' => Unedited' /\ StaticUnchecked' BY <1>1 DEF Known, Unedited, Plain, StaticUnchecked
<1> QED BY <1>1, <1>3, <1>4, QuietStep

LEMMA TickKnown == ASSUME IInv, Checks, Checks', Known, NEW o \in Origin, Tick(o) PROVE Known'
<1>1. UNCHANGED <<pool, saved, savedPool, muddled, outbox, heard, lost>> BY DEF Tick, notification
<1>2. ~muddled => /\ Unedited' /\ StaticUnchecked'
                  /\ \A x \in Origin : runtime'[x].state = runtime[x].state
  BY TickOrderly DEF Known
<1>3. \A e : e.pc # "fetch" => (e \in checks' <=> e \in checks)
  <2>1. checks' = checks \union {Started(o, "tick")} /\ Started(o, "tick").pc = "fetch" BY DEF Tick, Started
  <2> QED BY <2>1
<1>4. outbox' \in Seq(OutboxRow) BY <1>1 DEF Known
<1> QED BY <1>1, <1>2, <1>3, <1>4, QuietStep

LEMMA NextManualKnown == ASSUME IInv, Checks, Checks', Known, NextManual PROVE Known'
<1>1. UNCHANGED <<pool, saved, savedPool, muddled, outbox, heard, lost>> BY DEF NextManual, notification
<1>2. ~muddled => /\ Unedited' /\ StaticUnchecked'
                  /\ \A x \in Origin : runtime'[x].state = runtime[x].state
  BY NextManualOrderly DEF Known
<1>3. \A e : e.pc # "fetch" => (e \in checks' <=> e \in checks)
  <2> DEFINE s == Started(Head(manual).origin, "admin")
  <2>1. checks' = checks \/ checks' = checks \union {s} BY DEF NextManual
  <2>2. s.pc = "fetch" BY DEF Started
  <2> HIDE DEF s
  <2> QED BY <2>1, <2>2
<1>4. outbox' \in Seq(OutboxRow) BY <1>1 DEF Known
<1> QED BY <1>1, <1>2, <1>3, <1>4, QuietStep

LEMMA CheckNowKnown == ASSUME IInv, Checks, Checks', Known, NEW S, CheckNow(S) PROVE Known'
<1>1. UNCHANGED <<saved, checks, outbox, heard, lost>> /\ savedPool' = pool' /\ (~muddled' => ~muddled /\ pool' = pool)
  BY DEF CheckNow, notification
<1>2. ~muddled => Unedited' /\ StaticUnchecked' /\ runtime' = runtime BY CheckNowOrderly DEF Known
<1>3. outbox' \in Seq(OutboxRow) BY <1>1 DEF Known
<1> QED BY <1>1, <1>2, <1>3, QuietStep

LEMMA ElsewhereKnown ==
    ASSUME Checks, Checks', Known, UNCHANGED <<on, onVersion, edits, origins, runtime, pool, saved, savedPool, checks, manual,
                                               muddled, asked, outbox, heard, lost>>
    PROVE  Known'
<1>1. ~muddled' => Unedited' /\ StaticUnchecked' BY DEF Known, Unedited, Plain, StaticUnchecked
<1>2. outbox' \in Seq(OutboxRow) BY DEF Known
<1> QED BY <1>1, <1>2, QuietStep

(* An edit and a statement that fails                                      *)
LEMMA MuddledKnown ==
    ASSUME Known, muddled', UNCHANGED outbox, saved' \in [Origin -> State \union {None}]
    PROVE  Known'
BY DEF Known

LEMMA EditKnown ==
    ASSUME Checks, Known,
           \/ EditSite
           \/ \E o \in Origin : \E s \in {"enabled", "disabled", "absent"} : EditOrigin(o, s)
           \/ \E c \in checks : StoreFails(c)
    PROVE  Known'
<1>1. saved \in [Origin -> State \union {None}] BY DEF Known
<1>2. CASE EditSite BY <1>1, <1>2, MuddledKnown DEF EditSite, Edited, notification
<1>3. ASSUME NEW o \in Origin, NEW s \in {"enabled", "disabled", "absent"}, EditOrigin(o, s) PROVE Known'
  <2>1. muddled' /\ outbox' = outbox /\ saved' \in {saved, [saved EXCEPT ![o] = None]}
    BY <1>3 DEF EditOrigin, Edited, notification
  <2>2. saved' \in [Origin -> State \union {None}] BY <1>1, <2>1
  <2> QED BY <2>1, <2>2, MuddledKnown
<1>4. ASSUME NEW c \in checks, StoreFails(c) PROVE Known'
  <2>1. muddled' /\ outbox' = outbox /\ saved' \in {saved, [saved EXCEPT ![c.origin] = c.now]}
    BY <1>4 DEF StoreFails, notification
  <2>2. c.now \in State BY DEF Checks, CheckRecord
  <2>3. saved' \in [Origin -> State \union {None}] BY <1>1, <2>1, <2>2
  <2> QED BY <2>1, <2>3, MuddledKnown
<1> QED BY <1>2, <1>3, <1>4

(* The runtime stays as it is; the pool does too, or muddles the alerts.   *)
LEMMA RefreshKnown == ASSUME IInv, Checks, Checks', Known, NEW f \in refreshes, Refresh(f) PROVE Known'
<1>1. /\ UNCHANGED <<saved, checks, outbox, heard, lost>>
      /\ savedPool' = pool' \/ savedPool' = savedPool
      /\ muddled' = (muddled \/ pool' # pool)
  BY DEF Refresh, notification
<1>2. ~muddled => Unedited' /\ StaticUnchecked' /\ runtime' = runtime BY RefreshOrderly DEF Known
<1>3. outbox' \in Seq(OutboxRow) BY <1>1 DEF Known
<1> QED BY <1>1, <1>2, <1>3, QuietStep

(* The answer of a check: nobody else is about to store the origin's       *)
(* status, and the check itself saw the pool as it is.                     *)
LEMMA AnswerKnown == ASSUME IInv, Checks, Checks', Known, NEW c \in checks, Answer(c) PROVE Known'
<1>1. UNCHANGED <<pool, saved, savedPool, muddled, outbox, heard, lost>> /\ c.pc = "fetch" BY DEF Answer, notification
<1>2. CASE muddled BY <1>1, <1>2, MuddledKnown DEF Known
<1>3. CASE ~muddled
  <2>1. Unedited /\ StaticUnchecked BY <1>3 DEF Known
  <2>2. /\ Unedited' /\ StaticUnchecked'
        /\ \A x \in Origin \ {c.origin} : runtime'[x] = runtime[x]
        /\ runtime'[c.origin].state \in {"healthy", "unhealthy", "degraded"}
        /\ runtime[c.origin].state = "unhealthy" => runtime'[c.origin].state \in {"healthy", "unhealthy"}
        /\ checks' = (checks \ {c}) \union {Judged(c, runtime'[c.origin].state)}
    BY <2>1, AnswerOrderly
  <2> DEFINE d == Judged(c, runtime'[c.origin].state)
  <2>3. c \in CheckRecord /\ c.origin \in Origin /\ c.origin \notin Static /\ runtime[c.origin].state \in State
    BY <2>1, CurrentChecks DEF StaticUnchecked, Runtime
  <2>4. /\ d.slot = c.slot /\ d.origin = c.origin /\ d.pc = "store" /\ d.was = runtime[c.origin].state
        /\ d.now = runtime'[c.origin].state /\ d.poolWas = pool
    <3>1. runtime'[c.origin].state \in State /\ pool \in State BY <2>2 DEF State, Checks
    <3> QED BY <2>3, <3>1, JudgedIs
  <2>5. checks' = (checks \ {c}) \union {d} BY <2>2
  <2> HIDE DEF d
  <2>6. ASSUME OneStore' PROVE Truthful'
    <3>1. ASSUME NEW e \in checks, e.pc = "store" PROVE e \in checks' /\ e.origin # c.origin /\ e.origin \in Origin
      <4>1. e \in checks' /\ e # c /\ e.origin \in Origin BY <1>1, <2>5, <3>1 DEF Checks, CheckRecord
      <4>2. ASSUME e.origin = c.origin PROVE FALSE
        <5>1. d \in checks' BY <2>5
        <5>2. e = d BY <2>4, <2>6, <3>1, <4>1, <4>2, <5>1 DEF OneStore
        <5> QED BY <2>4, <4>1, <5>2 DEF Checks, Slots
      <4> QED BY <4>1, <4>2
    <3>2. OneStore BY <2>6, <3>1 DEF OneStore
    <3>3. Stored /\ Alerts /\ Consistent BY <1>3, <3>2 DEF Known, Truthful
    <3>4. \A e \in checks' : e.pc = "store" => e = d \/ (e \in checks /\ e.origin # c.origin) BY <2>5, <3>1
    <3>5. \A e : e.pc = "alert" => (e \in checks' <=> e \in checks) BY <1>1, <2>4, <2>5
    <3>6. Down(saved[c.origin]) <=> Down(runtime[c.origin].state)
      BY <2>3, <3>1, <3>3 DEF Stored
    <3>7. Stored'
      <4>1. ASSUME NEW e \in checks', e.pc = "store"
            PROVE  e.now = runtime'[e.origin].state /\ (Down(saved[e.origin]) <=> Down(e.was))
        <5>1. CASE e = d BY <2>4, <3>6, <5>1
        <5>2. CASE e # d
          <6>1. e \in checks /\ e.origin # c.origin /\ e.origin \in Origin BY <3>1, <3>4, <4>1, <5>2
          <6>2. runtime'[e.origin] = runtime[e.origin] BY <2>2, <6>1
          <6>3. e.now = runtime[e.origin].state /\ (Down(saved[e.origin]) <=> Down(e.was)) BY <3>3, <4>1, <6>1 DEF Stored
          <6> QED BY <6>2, <6>3
        <5> QED BY <5>1, <5>2
      <4>2. ASSUME NEW o \in Origin \ Static, \A e \in checks' : e.pc = "store" => e.origin # o
            PROVE  Down(saved[o]) <=> Down(runtime'[o].state)
        <5>1. o # c.origin BY <2>4, <2>5, <4>2
        <5>2. \A e \in checks : e.pc = "store" => e.origin # o BY <3>1, <4>2
        <5>3. runtime'[o] = runtime[o] BY <2>2, <5>1
        <5> QED BY <3>3, <5>2, <5>3 DEF Stored
      <4> QED BY <1>1, <4>1, <4>2 DEF Stored
    <3>8. Alerts' BY <1>1, <3>3, <3>5 DEF Alerts
    <3>9. Told' <=> Told BY <1>1, <3>5, ToldKept
    <3>10. RecoverySeen => RecoverySeen'
      <4> HAVE RecoverySeen
      <4>1. PICK e \in checks : e.pc = "store" /\ runtime[e.origin].state = "healthy" /\ Down(e.poolWas) BY DEF RecoverySeen
      <4>2. e \in checks' /\ runtime'[e.origin] = runtime[e.origin] BY <2>2, <3>1, <4>1
      <4> QED BY <4>1, <4>2 DEF RecoverySeen
    <3>11. Down(pool) /\ AllDown => AllDown' \/ RecoverySeen'
      <4> HAVE Down(pool) /\ AllDown
      <4>1. runtime'[c.origin].state \in {"healthy", "unhealthy"} BY <2>2, <2>3 DEF AllDown, Down
      <4>2. CASE runtime'[c.origin].state = "unhealthy" BY <2>2, <4>2 DEF AllDown, Down
      <4>3. CASE runtime'[c.origin].state = "healthy" BY <2>4, <2>5, <4>3 DEF RecoverySeen
      <4> QED BY <4>1, <4>2, <4>3
    <3>12. ASSUME ~lost, ~Told, AllDown' PROVE OutageSeen'
      <4>1. CASE AllDown
        <5>1. OutageSeen BY <3>3, <3>12, <4>1 DEF Consistent
        <5> QED BY <3>1, <5>1 DEF OutageSeen
      <4>2. CASE ~AllDown
        <5>1. ~RecoverySeen
          <6> SUFFICES ASSUME RecoverySeen PROVE FALSE OBVIOUS
          <6>1. PICK e \in checks' : e.pc = "store" /\ runtime'[e.origin].state = "healthy" BY <3>10 DEF RecoverySeen
          <6>2. e.origin \in Origin BY <2>3, <2>4, <3>1, <3>4, <6>1
          <6> QED BY <3>12, <6>1, <6>2 DEF AllDown, Down
        <5>2. ~Down(pool) BY <3>3, <4>2, <5>1 DEF Consistent
        <5> QED BY <2>4, <2>5, <5>2 DEF OutageSeen
      <4> QED BY <4>1, <4>2
    <3>13. Consistent' BY <1>1, <3>3, <3>9, <3>10, <3>11, <3>12 DEF Consistent
    <3> QED BY <3>7, <3>8, <3>13 DEF Truthful
  <2> QED BY <1>1, <2>2, <2>6 DEF Known
<1> QED BY <1>2, <1>3

(* What Store leaves                                                       *)
LEMMA StoreShape ==
    ASSUME Checks, saved \in [Origin -> State \union {None}], NEW c \in checks, Store(c)
    PROVE  /\ c.pc = "store" /\ pool' = Aggregate(runtime, TRUE) /\ savedPool' \in {pool', savedPool}
           /\ c.poolWas # pool' => savedPool' = pool'
           /\ saved' \in [Origin -> State \union {None}]
           /\ \A o \in Origin \ {c.origin} : saved'[o] = saved[o]
           /\ saved'[c.origin] = c.now \/ (c.now = c.was /\ saved' = saved)
           /\ runtime' = Released(c) \/ runtime' = runtime
           /\ \/ checks' = checks \ {c} /\ AlertOf(c, pool') = Silence
              \/ checks' = (checks \ {c}) \union {Alerting(c, AlertOf(c, pool'))}
           /\ ~muddled' => ~muddled /\ \A d \in checks \ {c} : IF d.origin = c.origin THEN d.pc = "fetch"
                                                              ELSE d.pc = "alert" => pool' = pool
           /\ UNCHANGED <<on, onVersion, edits, origins, asked, manual, outbox, heard, lost>>
<1>1. c.origin \in Origin /\ c.now \in State BY DEF Checks, CheckRecord
<1>2. /\ saved' \in [Origin -> State \union {None}]
      /\ \A o \in Origin \ {c.origin} : saved'[o] = saved[o]
      /\ saved'[c.origin] = c.now \/ (c.now = c.was /\ saved' = saved)
  <2>1. CASE saved' = [saved EXCEPT ![c.origin] = c.now] BY <1>1, <2>1
  <2>2. CASE c.now = c.was /\ saved' = saved BY <2>2
  <2> QED BY <2>1, <2>2 DEF Store
<1>3. /\ runtime' = Released(c) \/ runtime' = runtime
      /\ \/ checks' = checks \ {c} /\ AlertOf(c, pool') = Silence
         \/ checks' = (checks \ {c}) \union {Alerting(c, AlertOf(c, pool'))}
  BY DEF Store
<1>4. ~muddled' => ~muddled /\ \A d \in checks \ {c} : IF d.origin = c.origin THEN d.pc = "fetch"
                                                              ELSE d.pc = "alert" => pool' = pool
  BY DEF Store
<1> QED BY <1>2, <1>3, <1>4 DEF Store, notification

(* A status is stored and the pool made again: the check that saw the pool *)
(* in the other state is the one that announces it.                        *)
LEMMA StoreKnown == ASSUME Site, IInv, Checks, Checks', Known, NEW c \in checks, Store(c) PROVE Known'
<1>0. saved \in [Origin -> State \union {None}] BY DEF Known
<1>1. /\ c.pc = "store" /\ pool' = Aggregate(runtime, TRUE) /\ savedPool' \in {pool', savedPool}
      /\ c.poolWas # pool' => savedPool' = pool'
      /\ saved' \in [Origin -> State \union {None}]
      /\ \A o \in Origin \ {c.origin} : saved'[o] = saved[o]
      /\ saved'[c.origin] = c.now \/ (c.now = c.was /\ saved' = saved)
      /\ runtime' = Released(c) \/ runtime' = runtime
      /\ \/ checks' = checks \ {c} /\ AlertOf(c, pool') = Silence
         \/ checks' = (checks \ {c}) \union {Alerting(c, AlertOf(c, pool'))}
      /\ ~muddled' => ~muddled /\ \A d \in checks \ {c} : IF d.origin = c.origin THEN d.pc = "fetch"
                                                          ELSE d.pc = "alert" => pool' = pool
      /\ UNCHANGED <<on, onVersion, edits, origins, asked, manual, outbox, heard, lost>>
  BY <1>0, StoreShape
<1>2. CASE muddled' BY <1>1, <1>2, MuddledKnown
<1>3. CASE ~muddled'
  <2>1. Unedited /\ StaticUnchecked BY <1>1, <1>3 DEF Known
  <2> DEFINE a == AlertOf(c, pool')
             k == Alerting(c, a)
  <2>2. c \in CheckRecord /\ c.origin \in Origin /\ c.origin \notin Static BY <2>1, CurrentChecks DEF StaticUnchecked
  <2>3. k.origin = c.origin /\ k.gen = c.gen /\ k.pc = "alert" /\ k.alert = a
    <3>1. a \in {"pool_unhealthy", "pool_recovered", "origin", Silence} BY AlertOfType
    <3> HIDE DEF a
    <3> QED BY <2>2, <3>1, AlertingIs
  <2>4. /\ c.poolWas # pool' /\ pool' = "unhealthy" => a = "pool_unhealthy"
        /\ c.poolWas = "unhealthy" /\ pool' = "healthy" => a = "pool_recovered"
        /\ a \in PoolAlert => (a = "pool_unhealthy" <=> Down(pool'))
    BY DEF AlertOf, Site, Down
  <2>5. (checks' = checks \ {c} /\ a = Silence) \/ checks' = (checks \ {c}) \union {k} BY <1>1
  <2> HIDE DEF a, k
  <2>6. \A d \in checks' : d \in checks \/ (d.gen = c.gen /\ d.origin = c.origin) BY <2>3, <2>5
  <2>7. Unedited' /\ StaticUnchecked' /\ \A x \in Origin : runtime'[x].state = runtime[x].state
    BY <1>1, <2>1, <2>6, EndOrderly
  <2>8. /\ Down(pool') <=> AllDown
        /\ (\E o \in Origin : runtime[o].state = "healthy") => pool' = "healthy"
    <3>1. \A o \in Origin : runtime[o] # NoRuntime /\ runtime[o].status = "enabled" BY <2>1 DEF Unedited, Plain
    <3> QED BY <1>1, <3>1, AggregateDown DEF AllDown
  <2>9. AllDown' <=> AllDown BY <2>7 DEF AllDown
  <2>10. \A d \in checks \ {c} : d.origin = c.origin => d.pc = "fetch" BY <1>1, <1>3
  <2>11. \A d \in checks \ {c} : d \in checks' BY <2>5
  <2>12. \A d \in checks' : d.pc = "store" => d \in checks /\ d # c /\ d.origin # c.origin BY <2>3, <2>5, <2>10
  <2>13. ASSUME OneStore' PROVE Truthful'
    <3>1. OneStore
      <4>1. \A d \in checks : d.pc = "store" => d = c \/ (d.origin # c.origin /\ d \in checks') BY <2>10, <2>11
      <4> QED BY <2>13, <4>1 DEF OneStore
    <3>2. Stored /\ Alerts /\ Consistent BY <1>1, <1>3, <3>1 DEF Known, Truthful
    <3>3. \A d \in checks : d.origin \in Origin BY DEF Checks, CheckRecord
    <3>4. Stored'
      <4>1. ASSUME NEW e \in checks', e.pc = "store"
            PROVE  e.now = runtime'[e.origin].state /\ (Down(saved'[e.origin]) <=> Down(e.was))
        <5>1. e \in checks /\ e.origin # c.origin /\ e.origin \in Origin BY <2>12, <3>3, <4>1
        <5>2. saved'[e.origin] = saved[e.origin] /\ runtime'[e.origin].state = runtime[e.origin].state BY <1>1, <2>7, <5>1
        <5>3. e.now = runtime[e.origin].state /\ (Down(saved[e.origin]) <=> Down(e.was)) BY <3>2, <4>1, <5>1 DEF Stored
        <5> QED BY <5>2, <5>3
      <4>2. ASSUME NEW o \in Origin \ Static, \A e \in checks' : e.pc = "store" => e.origin # o
            PROVE  Down(saved'[o]) <=> Down(runtime'[o].state)
        <5>1. CASE o = c.origin
          <6>1. c.now = runtime[o].state /\ (Down(saved[o]) <=> Down(c.was)) BY <1>1, <3>2, <5>1 DEF Stored
          <6>2. Down(saved'[o]) <=> Down(c.now) BY <1>1, <5>1, <6>1
          <6>3. runtime'[o].state = runtime[o].state BY <2>7
          <6> QED BY <6>1, <6>2, <6>3
        <5>2. CASE o # c.origin
          <6>1. \A e \in checks : e.pc = "store" => e.origin # o BY <2>11, <4>2, <5>2
          <6>2. Down(saved[o]) <=> Down(runtime[o].state) BY <3>2, <6>1 DEF Stored
          <6>3. saved'[o] = saved[o] /\ runtime'[o].state = runtime[o].state BY <1>1, <2>7, <5>2
          <6> QED BY <6>2, <6>3
        <5> QED BY <5>1, <5>2
      <4> QED BY <4>1, <4>2 DEF Stored
    <3>5. Alerts'
      <4> SUFFICES ASSUME NEW e \in checks', e.pc = "alert", e.alert \in PoolAlert
                   PROVE  e.alert = "pool_unhealthy" <=> Down(pool')
        BY DEF Alerts
      <4>1. CASE e = k BY <2>3, <2>4, <4>1
      <4>2. CASE e # k
        <5>1. e \in checks \ {c} BY <2>5, <4>2
        <5>2. pool' = pool BY <1>1, <1>3, <2>10, <5>1
        <5> QED BY <3>2, <5>1, <5>2 DEF Alerts
      <4> QED BY <4>1, <4>2
    <3>6. Out => Out'
      <4> HAVE Out
      <4>1. PICK e \in checks : e.pc = "alert" /\ e.alert \in PoolAlert BY DEF Out
      <4>2. e \in checks' BY <1>1, <2>11, <4>1
      <4> QED BY <4>1, <4>2 DEF Out
    <3>7. a \in PoolAlert => Out'
      <4> HAVE a \in PoolAlert
      <4>1. a # Silence BY DEF Site
      <4> QED BY <2>3, <2>5, <4>1 DEF Out
    <3>8. "pool_unhealthy" \in PoolAlert /\ "pool_recovered" \in PoolAlert BY DEF Site
    <3>9. ~Out' => ~Out /\ (Told' <=> Told) BY <1>1, <3>6 DEF Told
    <3>10. CASE AllDown
      <4>1. Down(pool') /\ AllDown' BY <2>8, <2>9, <3>10
      <4>2. ASSUME ~lost, ~Told' PROVE OutageSeen'
        <5>1. ~Out' BY <4>1, <4>2 DEF Told
        <5>2. Down(c.poolWas) BY <2>4, <3>7, <3>8, <4>1, <5>1 DEF Down
        <5>3. OutageSeen BY <3>2, <3>9, <3>10, <4>2, <5>1 DEF Consistent
        <5>4. PICK e \in checks : e.pc = "store" /\ ~Down(e.poolWas) BY <5>3 DEF OutageSeen
        <5>5. e \in checks' BY <2>11, <5>2, <5>4
        <5> QED BY <5>4, <5>5 DEF OutageSeen
      <4>3. Consistent' BY <1>1, <4>1, <4>2 DEF Consistent
      <4> QED BY <3>4, <3>5, <4>3 DEF Truthful
    <3>11. CASE ~AllDown
      <4>1. ~Down(pool') /\ ~AllDown' BY <2>8, <2>9, <3>11
      <4>2. ASSUME NEW e \in checks, e.pc = "store", runtime[e.origin].state = "healthy", Down(e.poolWas), e # c
            PROVE  RecoverySeen'
        <5>1. e \in checks' /\ runtime'[e.origin].state = "healthy" BY <2>7, <2>11, <3>3, <4>2
        <5> QED BY <4>2, <5>1 DEF RecoverySeen
      <4>3. ASSUME Down(savedPool') PROVE RecoverySeen'
        <5>1. savedPool' = savedPool /\ c.poolWas = pool' BY <1>1, <4>1, <4>3
        <5>2. RecoverySeen BY <3>2, <3>11, <4>3, <5>1 DEF Consistent
        <5>3. ~Down(c.poolWas) BY <4>1, <5>1
        <5> QED BY <4>2, <5>2, <5>3 DEF RecoverySeen
      <4>4. ASSUME ~lost, Told' PROVE RecoverySeen'
        <5>1. ~Out' BY <4>1, <4>4 DEF Told
        <5>2. RecoverySeen BY <3>2, <3>9, <3>11, <4>4, <5>1 DEF Consistent
        <5>3. PICK e \in checks : e.pc = "store" /\ runtime[e.origin].state = "healthy" /\ Down(e.poolWas)
          BY <5>2 DEF RecoverySeen
        <5>4. e # c
          <6> SUFFICES ASSUME e = c PROVE FALSE OBVIOUS
          <6>1. pool' = "healthy" BY <2>2, <2>8, <5>3
          <6>2. a = "pool_recovered" BY <2>4, <5>3, <6>1 DEF Down
          <6> QED BY <3>7, <3>8, <5>1, <6>2
        <5> QED BY <4>2, <5>3, <5>4
      <4>5. Consistent' BY <1>1, <4>1, <4>3, <4>4 DEF Consistent
      <4> QED BY <3>4, <3>5, <4>5 DEF Truthful
    <3> QED BY <3>10, <3>11
  <2> QED BY <1>1, <2>7, <2>13 DEF Known
<1> QED BY <1>2, <1>3

(* The alert is recorded: it told the truth on its way, and tells it now.  *)
LEMMA FinishKnown == ASSUME Site, IInv, Checks, Checks', Known, NEW c \in checks, Finish(c) PROVE Known'
<1>1. /\ c.pc = "alert" /\ ((\E enabled \in BOOLEAN : Recorded(c.alert, enabled)) \/ NotRecorded(c.alert))
      /\ checks' = checks \ {c} /\ runtime' = Released(c)
      /\ UNCHANGED <<on, onVersion, edits, origins, asked, manual, pool, saved, savedPool, muddled, heard>>
  BY DEF Finish
<1> DEFINE r == [alert |-> c.alert, attempts |-> 0]
<1>2. /\ \/ outbox' = outbox /\ (c.alert \in Subscribed => lost')
         \/ c.alert \in Subscribed /\ outbox' = Append(outbox, r)
      /\ ~lost' => ~lost
  BY <1>1 DEF Recorded, NotRecorded
<1>3. outbox \in Seq(OutboxRow) /\ (c.alert \in Subscribed => r \in OutboxRow) /\ r.alert = c.alert BY DEF Known, OutboxRow
<1> HIDE DEF r
<1>4. outbox' \in Seq(OutboxRow) BY <1>2, <1>3
<1>5. CASE muddled BY <1>1, <1>4, <1>5 DEF Known
<1>6. CASE ~muddled
  <2>1. Unedited /\ StaticUnchecked BY <1>6 DEF Known
  <2>2. Unedited' /\ StaticUnchecked' /\ \A x \in Origin : runtime'[x].state = runtime[x].state
    BY <1>1, <2>1, EndOrderly
  <2>3. \A e : e.pc = "store" => (e \in checks' <=> e \in checks) BY <1>1
  <2>4. ASSUME OneStore' PROVE Truthful'
    <3>1. OneStore BY <2>3, <2>4 DEF OneStore
    <3>2. Stored /\ Alerts /\ Consistent BY <1>6, <3>1 DEF Known, Truthful
    <3>3. ASSUME ~lost' PROVE Told' <=> Told
      <4>1. CASE c.alert \in PoolAlert
        <5>1. Out /\ (c.alert = "pool_unhealthy" <=> Down(pool)) BY <1>1, <3>2, <4>1 DEF Out, Alerts
        <5>2. outbox' = Append(outbox, r) /\ r \in OutboxRow BY <1>2, <1>3, <3>3, <4>1 DEF Site
        <5>3. OutageIn(outbox', heard) <=> c.alert = "pool_unhealthy" BY <1>3, <4>1, <5>2, OutageAppended
        <5> QED BY <1>1, <5>1, <5>3 DEF Told
      <4>2. CASE c.alert \notin PoolAlert
        <5>1. Out' <=> Out BY <1>1, <4>2 DEF Out
        <5>2. OutageIn(outbox', heard) <=> OutageIn(outbox, heard)
          <6>1. CASE outbox' = outbox BY <6>1
          <6>2. CASE c.alert \in Subscribed /\ outbox' = Append(outbox, r) BY <1>3, <4>2, <6>2, OutageAppended
          <6> QED BY <1>2, <6>1, <6>2
        <5> QED BY <1>1, <5>1, <5>2 DEF Told
      <4> QED BY <4>1, <4>2
    <3>4. Stored' /\ Consistent' BY <1>1, <1>2, <2>2, <2>3, <3>2, <3>3, Unmoved
    <3>5. Alerts' BY <1>1, <3>2 DEF Alerts
    <3> QED BY <3>4, <3>5 DEF Truthful
  <2> QED BY <1>1, <1>4, <2>2, <2>4 DEF Known
<1> QED BY <1>5, <1>6

(* A restart with no check past its answer: what is stored tells the       *)
(* outages, and the incident of the pool goes on.                          *)
LEMMA RestartKnown == ASSUME Site, IInv, Checks, Known, Restart PROVE Known'
<1>1. /\ checks' = {} /\ pool' = Preserved(runtime', on, savedPool)
      /\ muddled' = (muddled \/ \E c \in checks : c.pc # "fetch")
      /\ UNCHANGED <<saved, savedPool, outbox, heard, lost>>
  BY DEF Restart, notification
<1>2. CASE muddled' BY <1>1, <1>2, MuddledKnown DEF Known
<1>3. CASE ~muddled'
  <2>1. ~muddled /\ \A c \in checks : c.pc = "fetch" BY <1>1, <1>3
  <2>2. Unedited /\ StaticUnchecked /\ Stored /\ Consistent BY <2>1 DEF Known, OneStore, Truthful
  <2>3. /\ Unedited' /\ StaticUnchecked'
        /\ \A o \in Origin : runtime'[o].state = IF o \in Static THEN "disabled"
                                                 ELSE IF saved[o] = "unhealthy" THEN "unhealthy" ELSE "unknown"
    BY <2>2, RestartOrderly
  <2>4. ~Out /\ ~RecoverySeen /\ ~OutageSeen BY <2>1 DEF Out, RecoverySeen, OutageSeen
  <2>5. ~Out' BY <1>1 DEF Out
  <2>6. Told' <=> Told BY <1>1, <2>4, <2>5 DEF Told
  <2>7. \A o \in Origin : Down(runtime'[o].state) <=> Down(runtime[o].state)
    <3>1. ASSUME NEW o \in Origin, o \in Static PROVE Down(runtime'[o].state) <=> Down(runtime[o].state)
      BY <2>2, <2>3, <3>1 DEF StaticUnchecked, Down
    <3>2. ASSUME NEW o \in Origin, o \notin Static PROVE Down(runtime'[o].state) <=> Down(runtime[o].state)
      <4>1. Down(saved[o]) <=> Down(runtime[o].state) BY <2>1, <2>2, <3>2 DEF Stored
      <4> QED BY <2>3, <3>2, <4>1 DEF Down
    <3> QED BY <3>1, <3>2
  <2>8. AllDown' <=> AllDown BY <2>7 DEF AllDown
  <2>9. Down(pool') <=> AllDown' \/ Down(savedPool)
    <3> DEFINE rt == runtime'
    <3>1. \A o \in Origin : rt[o] # NoRuntime /\ rt[o].status = "enabled" BY <2>3 DEF Unedited, Plain
    <3>2. \A o \in Origin : rt[o].state # "healthy" BY <2>3
    <3>3. on = TRUE BY <2>2 DEF Unedited
    <3>4. pool' = Preserved(rt, TRUE, savedPool) BY <1>1, <3>3
    <3>5. AllDown' <=> \A o \in Origin : Down(rt[o].state) BY DEF AllDown
    <3> HIDE DEF rt
    <3>6. (Down(Aggregate(rt, TRUE)) <=> \A o \in Origin : Down(rt[o].state)) /\ Aggregate(rt, TRUE) # "healthy"
      BY <3>1, <3>2, AggregateDown
    <3> QED BY <3>4, <3>5, <3>6 DEF Preserved, Down
  <2>10. Stored'
    <3>1. ASSUME NEW o \in Origin \ Static PROVE Down(saved[o]) <=> Down(runtime'[o].state) BY <2>3 DEF Down
    <3> QED BY <1>1, <3>1 DEF Stored
  <2>11. Alerts' BY <1>1 DEF Alerts
  <2>12. Consistent'
    <3>1. Down(savedPool) => AllDown BY <2>2, <2>4 DEF Consistent
    <3>2. ~lost /\ Told => AllDown BY <2>2, <2>4 DEF Consistent
    <3>3. ~lost /\ ~Told => ~AllDown BY <2>2, <2>4 DEF Consistent
    <3> QED BY <1>1, <2>6, <2>8, <2>9, <3>1, <3>2, <3>3 DEF Consistent
  <2> QED BY <1>1, <2>3, <2>10, <2>11, <2>12 DEF Known, Truthful
<1> QED BY <1>2, <1>3

LEMMA NextKnown == ASSUME Site, IInv, Checks, Checks', Known, [Next]_vars PROVE Known'
<1>1. CASE \/ UNCHANGED vars \/ EditAlerts \/ \E o \in Origin : Flip(o)
           \/ \E f \in refreshes : ReadSite(f) \/ ReadOrigins(f) \/ RefreshFails(f)
  <2>1. UNCHANGED <<on, onVersion, edits, origins, runtime, pool, saved, savedPool, checks, manual, muddled, asked,
                    outbox, heard, lost>>
    BY <1>1 DEF vars, EditAlerts, Toggle, Flip, ReadSite, ReadOrigins, RefreshFails, notification
  <2> QED BY <2>1, ElsewhereKnown
<1>2. CASE Deliver \/ DeliveryFault BY <1>2, DeliveryKnown
<1>3. CASE \/ EditSite
           \/ \E o \in Origin : \E s \in {"enabled", "disabled", "absent"} : EditOrigin(o, s)
  BY <1>3, EditKnown
<1>4. CASE \E o \in Origin : Tick(o) BY <1>4, TickKnown
<1>5. CASE NextManual \/ \E o \in Origin : \E i \in Slot : CheckStep(o, i)
  <2>1. ASSUME NEW c \in checks, Answer(c) \/ Store(c) \/ StoreFails(c) \/ Finish(c) PROVE Known'
    <3>1. CASE Answer(c) BY <3>1, AnswerKnown
    <3>2. CASE Store(c) BY <3>2, StoreKnown
    <3>3. CASE StoreFails(c) BY <3>3, EditKnown
    <3>4. CASE Finish(c) BY <3>4, FinishKnown
    <3> QED BY <2>1, <3>1, <3>2, <3>3, <3>4
  <2> QED BY <1>5, <2>1, NextManualKnown DEF CheckStep
<1>6. CASE \E f \in refreshes : Refresh(f) BY <1>6, RefreshKnown
<1>7. CASE CheckNow(Origin) \/ \E o \in Origin : CheckNow({o}) BY <1>7, CheckNowKnown
<1>8. CASE Restart BY <1>8, RestartKnown
<1> QED BY <1>1, <1>2, <1>3, <1>4, <1>5, <1>6, <1>7, <1>8 DEF Next

LEMMA InitKnown == ASSUME Site, Init PROVE Known
<1>1. /\ on = TRUE /\ onVersion = 0 /\ edits = 0 /\ checks = {} /\ manual = <<>> /\ asked = MaxManual
      /\ origins = [o \in Origin |-> [status |-> "enabled", revision |-> 0]]
      /\ saved = [o \in Origin |-> None] /\ savedPool = None /\ pool = Aggregate(runtime, TRUE)
      /\ outbox = <<>> /\ heard = Silence
  BY DEF Init, NotificationInit
<1>2. runtime = [o \in Origin |-> Fresh(o)] BY <1>1 DEF Init, Initialized
<1>3. IInv BY InitIInv
<1>4. ASSUME NEW o \in Origin
      PROVE  /\ runtime[o] # NoRuntime /\ runtime[o].gen = 0 /\ runtime[o].on = TRUE /\ runtime[o].status = "enabled"
             /\ runtime[o].revision = 0 /\ runtime[o].scheduled = (o \notin Static)
             /\ runtime[o].state = IF o \in Static THEN "disabled" ELSE "unknown"
  <2>1. runtime[o] = Fresh(o) /\ origins[o].status = "enabled" /\ origins[o].revision = 0 /\ saved[o] = None BY <1>1, <1>2
  <2>2. Fresh(o) \in Runtime BY <1>3, <2>1, FreshFollows DEF IInv
  <2> DEFINE enabled == o \notin Static /\ on /\ origins[o].status = "enabled"
  <2>3. enabled = (o \notin Static) /\ (enabled <=> o \notin Static) BY <1>1, <2>1
  <2>4. Fresh(o).gen = 0 /\ Fresh(o).on = on /\ Fresh(o).status = origins[o].status
        /\ Fresh(o).revision = origins[o].revision
        /\ Fresh(o).scheduled = enabled /\ Fresh(o).state = StateAfterChange(enabled, saved[o])
    BY DEF Fresh
  <2> HIDE DEF enabled
  <2>5. runtime[o] # NoRuntime BY <2>1, <2>2, NoRuntimeDistinct
  <2> QED BY <1>1, <2>1, <2>3, <2>4, <2>5 DEF StateAfterChange, None
<1>5. Unedited BY <1>1, <1>4 DEF Unedited, Plain
<1>6. StaticUnchecked
  <2>1. ASSUME NEW o \in Static PROVE runtime[o].scheduled = FALSE /\ runtime[o].state = "disabled"
    <3>1. o \in Origin /\ (o \notin Static) = FALSE BY OriginsFinite
    <3> QED BY <1>4, <3>1
  <2> QED BY <1>1, <2>1 DEF StaticUnchecked, Site
<1>7. ~AllDown /\ ~Down(pool)
  <2>1. ~AllDown BY <1>4 DEF AllDown, Down, Site
  <2>2. Down(pool) <=> AllDown BY <1>1, <1>4, AggregateDown DEF AllDown
  <2> QED BY <2>1, <2>2
<1>8. ~Told
  <2>1. heard # "pool_unhealthy" /\ ~Out BY <1>1 DEF Site, Out
  <2>2. ~\E i \in 1..Len(outbox) : outbox[i].alert \in PoolAlert BY <1>1
  <2> QED BY <2>1, <2>2 DEF Told, OutageIn
<1>9. Stored
  <2>1. \A o \in Origin \ Static : ~Down(saved[o]) /\ ~Down(runtime[o].state) BY <1>1, <1>4 DEF Down, None
  <2> QED BY <1>1, <2>1 DEF Stored
<1>10. Truthful BY <1>1, <1>7, <1>8, <1>9 DEF Truthful, Alerts, Consistent, Down, None
<1> QED BY <1>1, <1>5, <1>6, <1>10 DEF Known

(* The invariant of the alerts under way, for every site with an origin    *)
(* whose static origins no administrator checks                            *)
THEOREM KnownInvariance == ASSUME Site PROVE Spec => [](Checks /\ Known)
<1>1. Init => IInv /\ Checks /\ Known BY InitIInv, InitChecks, InitKnown
<1>2. IInv /\ (Checks /\ Known) /\ [Next]_vars => (Checks /\ Known)'
  <2> SUFFICES ASSUME IInv, Checks, Known, [Next]_vars PROVE Checks' /\ Known' OBVIOUS
  <2>1. Checks' BY NextChecks
  <2> QED BY <2>1, NextKnown
<1> QED BY <1>1, <1>2, Invariance, PTL DEF Spec

(* Once nothing is under way and unless an alert was lost, the last alert  *)
(* about the pool that the receiver got tells whether the pool is down.    *)
THEOREM PoolIsAnnounced == ASSUME Site PROVE Spec => []OperatorKnowsThePool
<1>1. Checks /\ Known => OperatorKnowsThePool
  <2> SUFFICES ASSUME Known, outbox = <<>>, ~lost, ~muddled, \A c \in checks : c.pc = "fetch"
               PROVE  heard = "pool_unhealthy" <=> pool = "unhealthy"
    BY DEF OperatorKnowsThePool
  <2>1. Consistent BY DEF Known, OneStore, Truthful
  <2>2. ~Out /\ ~RecoverySeen /\ ~OutageSeen BY DEF Out, RecoverySeen, OutageSeen
  <2>3. Told <=> heard = "pool_unhealthy"
    <3>1. ~\E i \in 1..Len(outbox) : outbox[i].alert \in PoolAlert OBVIOUS
    <3> QED BY <2>2, <3>1 DEF Told, OutageIn
  <2> QED BY <2>1, <2>2, <2>3 DEF Consistent, Down
<1> QED BY <1>1, KnownInvariance, PTL
=============================================================================
