--------------------------- MODULE PendingChanges ---------------------------
(***************************************************************************)
(* Scheduled changes of streams and sites: saving with a schedule, the     *)
(* background round that applies what is due, apply-now, cancel and        *)
(* deletion, each split at its awaits                                      *)
(* (src/src/services/pending-change-service.ts, the appliers in            *)
(* stream-service.ts and site-service.ts, and the admin routes).           *)
(*                                                                         *)
(* A configuration is the group of fields that a change defers; the other  *)
(* fields are left out.  Time is a flag: a row is due or not yet.  The     *)
(* HTTPS listener of a site is not modelled, only that its reload fails.   *)
(* Streams compete for ports (stream_bindings), here by saves that may     *)
(* fail at any time.                                                       *)
(***************************************************************************)
EXTENDS Integers, FiniteSets

CONSTANTS
    Entity,         \* streams and sites
    Config,         \* configurations of the deferred fields
    Gone,           \* no row in streams or sites, no listener
    Request,        \* admin requests that may be under way at once
    Round,          \* calls of applyDuePendingChanges by the interval timer
    MaxAttempts,    \* config.pendingChanges.maxAttempts
    MaxRows,        \* bound: changes ever scheduled
    MaxRequests,    \* bound: requests ever made
    MaxFaults       \* bound: crashes and failing writes of a status

Worker == Request \union Round
RowId == 1..MaxRows

ASSUME DistinctParts == Gone \notin Config /\ Request \intersect Round = {}
ASSUME RequestsFinite == IsFiniteSet(Request)
ASSUME AttemptsPositive == MaxAttempts \in Nat \ {0}
ASSUME BoundsAreNat == MaxRows \in Nat /\ MaxRequests \in Nat /\ MaxFaults \in Nat

VARIABLES
    kind,       \* entity_type: what each entity is, fixed
    live,       \* streams and sites: the persisted configuration
    listener,   \* streamProxyManager: the configuration a stream runs with
    rows,       \* pending_changes
    nextId,     \* ids (and created_at) increase
    work,       \* what each worker is doing, with the values it has read
    running,    \* a round is under way
    todo,       \* due: the rows of the round that are still to come
    requests,   \* requests still to come
    faults,
    tries,      \* history: runs of the applier by rounds, counted up to MaxAttempts
    done,       \* history: rows whose applier has returned
    raced,      \* history: entities with two scheduled saves at once
    overlapped, \* history: entities with two writers at once
    stranded    \* history: streams whose row could not be taken back and whose listener has not been replaced since

history == <<tries, done, raced, overlapped, stranded>>
round == <<running, todo>>
vars == <<kind, live, listener, rows, nextId, work, round, requests, faults, history>>

Row == [id : RowId, entity : Entity, change : Config,
        status : {"pending", "applied", "failed"}, attempts : 0..MaxAttempts, due : BOOLEAN]

Idle == [pc |-> "idle"]

(* A worker: where it is, for which operation, the entity, the row it      *)
(* read, the configuration it is to save and the one it saw before.        *)
Work == [pc : {"check", "read", "save", "activate", "restore", "clear", "insert",
               "load", "delete", "record", "retry", "drop"},
         op : {"save", "schedule", "apply", "cancel", "remove", "due"},
         entity : Entity, id : RowId \union {0}, attempts : 0..MaxAttempts,
         config : Config, change : Config, seen : Config]

TypeOK ==
    /\ kind \in [Entity -> {"stream", "site"}]
    /\ live \in [Entity -> Config \union {Gone}]
    /\ listener \in [Entity -> Config \union {Gone}]
    /\ rows \subseteq Row
    /\ \A r, s \in rows : r.id = s.id => r = s
    /\ nextId \in 1..(MaxRows + 1)
    /\ work \in [Worker -> Work \union {Idle, [pc |-> "pick"]}]
    /\ running \in BOOLEAN
    /\ todo \subseteq Row
    /\ requests \in Nat /\ faults \in Nat
    /\ tries \in [RowId -> 0..MaxAttempts]
    /\ done \subseteq RowId
    /\ raced \subseteq Entity /\ overlapped \subseteq Entity /\ stranded \subseteq Entity

(* The listeners of the streams; those of sites are not modelled.          *)
ListenersOf(l) == [e \in Entity |-> IF kind[e] = "stream" THEN l[e] ELSE Gone]

Init ==
    /\ kind \in [Entity -> {"stream", "site"}]
    /\ live \in [Entity -> Config]
    /\ listener = ListenersOf(live)
    /\ rows = {} /\ nextId = 1
    /\ work = [w \in Worker |-> Idle]
    /\ running = FALSE /\ todo = {} /\ requests = MaxRequests /\ faults = MaxFaults
    /\ tries = [id \in RowId |-> 0]
    /\ done = {} /\ raced = {} /\ overlapped = {} /\ stranded = {}

Pc(w, pc) == work[w].pc = pc

Becomes(w, pc) == work' = [work EXCEPT ![w].pc = pc]

Ends(w) == work' = [work EXCEPT ![w] = Idle]

(* Where a worker goes when its save, or its applier, has succeeded ...    *)
AfterSuccess(w) ==
    CASE work[w].op = "due" -> Becomes(w, "record")
      [] work[w].op = "apply" -> Becomes(w, "delete")
      [] work[w].op = "schedule" -> Becomes(w, "clear")
      [] OTHER -> Ends(w)

(* ... and when it has thrown.                                             *)
AfterFailure(w) == IF work[w].op = "due" THEN Becomes(w, "retry") ELSE Ends(w)

(* Bookkeeping: w starts to write e next to another writer.                *)
Writing(e) == {w \in Worker : work[w].pc \notin {"idle", "pick"} /\ work[w].entity = e /\ work[w].op # "cancel"}

Overlap(e) == overlapped' = IF Writing(e) = {} THEN overlapped ELSE overlapped \union {e}

Race(e) == raced' = IF \E w \in Writing(e) : work[w].op = "schedule" THEN raced \union {e} ELSE raced

Begin(w, pc, op, e, row, config, change) ==
    work' = [work EXCEPT ![w] =
        [pc |-> pc, op |-> op, entity |-> e, id |-> row.id, attempts |-> row.attempts,
         config |-> config, change |-> change, seen |-> config]]

NoRow == [id |-> 0, attempts |-> 0]

(***************************************************************************)
(* Requests                                                                *)
(***************************************************************************)

Accepts(w) ==
    /\ w \in Request /\ Pc(w, "idle") /\ requests > 0
    /\ requests' = requests - 1

(* PUT without a schedule: the new configuration is saved at once.         *)
SaveNow(w, e, c) ==
    /\ Accepts(w) /\ live[e] # Gone
    /\ work' = [work EXCEPT ![w] =
          [pc |-> "save", op |-> "save", entity |-> e, id |-> 0, attempts |-> 0,
           config |-> c, change |-> c, seen |-> live[e]]]
    /\ Overlap(e)
    /\ UNCHANGED <<kind, live, listener, rows, nextId, round, faults, tries, done, raced, stranded>>

(* Bookkeeping: the saves that may still insert a row.                     *)
Scheduling == {v \in Request : work[v].pc # "idle" /\ work[v].op = "schedule"}

(* PUT with a schedule: the row keeps the configuration read here.         *)
SaveScheduled(w, e, c) ==
    /\ Accepts(w) /\ live[e] \notin {Gone, c}
    /\ nextId + Cardinality(Scheduling) <= MaxRows
    /\ Begin(w, "check", "schedule", e, NoRow, live[e], c)
    /\ Overlap(e) /\ Race(e)
    /\ UNCHANGED <<kind, live, listener, rows, nextId, round, faults, tries, done, stranded>>

(* currentPendingChange: a second schedule is rejected.                    *)
CheckSlot(w) ==
    /\ Pc(w, "check")
    /\ IF \E r \in rows : r.entity = work[w].entity /\ r.status = "pending"
       THEN Ends(w)
       ELSE Becomes(w, "save")
    /\ UNCHANGED <<kind, requests, live, listener, rows, nextId, round, faults, history>>

(* Faulty variant: failed changes are left where they are.                 *)
KeepFailed(w) == Pc(w, "clear") /\ Becomes(w, "insert") /\ UNCHANGED <<kind, requests, live, listener, rows, nextId, round, faults, history>>

(* deleteFailedPendingChangesFor                                           *)
ClearFailed(w) ==
    /\ Pc(w, "clear")
    /\ rows' = {r \in rows : ~(r.entity = work[w].entity /\ r.status = "failed")}
    /\ Becomes(w, "insert")
    /\ UNCHANGED <<kind, requests, live, listener, nextId, round, faults, history>>

(* insertPendingChange, at least MIN_LEAD_MS ahead of its time             *)
InsertChange(w) ==
    /\ Pc(w, "insert")
    /\ rows' = rows \union {[id |-> nextId, entity |-> work[w].entity, change |-> work[w].change,
                             status |-> "pending", attempts |-> 0, due |-> FALSE]}
    /\ nextId' = nextId + 1
    /\ Ends(w)
    /\ UNCHANGED <<kind, requests, live, listener, round, faults, history>>

(* pendingOrFailedChangeFor: the newest change that is not applied.        *)
CurrentChange(e) ==
    LET open == {r \in rows : r.entity = e /\ r.status \in {"pending", "failed"}}
    IN  {r \in open : \A s \in open : s.id <= r.id}

(* The routes apply-now and cancel find the change of an entity.           *)
FindChange(w, op, e) ==
    /\ Accepts(w) /\ op \in {"apply", "cancel"}
    /\ \E r \in CurrentChange(e) : Begin(w, "load", op, e, r, r.change, r.change)
    /\ IF op = "apply" THEN Overlap(e) ELSE UNCHANGED overlapped
    /\ UNCHANGED <<kind, live, listener, rows, nextId, round, faults, tries, done, raced, stranded>>

(* pendingChangeById in applyPendingChangeNow and cancelPendingChange      *)
LoadChange(w) ==
    /\ Pc(w, "load")
    /\ IF \E r \in rows : r.id = work[w].id
       THEN Becomes(w, IF work[w].op = "apply" THEN "read" ELSE "delete")
       ELSE Ends(w)
    /\ UNCHANGED <<kind, requests, live, listener, rows, nextId, round, faults, history>>

(* deletePendingChange, after apply-now or by cancel                       *)
DeleteChange(w) ==
    /\ Pc(w, "delete")
    /\ rows' = {r \in rows : r.id # work[w].id}
    /\ Ends(w)
    /\ UNCHANGED <<kind, requests, live, listener, nextId, round, faults, history>>

(* DELETE: a stream's listener stops first, then its rows go.              *)
RemoveEntity(w, e) ==
    /\ Accepts(w) /\ live[e] # Gone
    /\ Begin(w, "drop", "remove", e, NoRow, live[e], live[e])
    /\ listener' = [listener EXCEPT ![e] = Gone]
    /\ Overlap(e)
    /\ UNCHANGED <<kind, live, rows, nextId, round, faults, tries, done, raced, stranded>>

(* deleteStream, deleteSiteCascade                                         *)
DropEntity(w) ==
    /\ Pc(w, "drop")
    /\ live' = [live EXCEPT ![work[w].entity] = Gone]
    /\ rows' = {r \in rows : r.entity # work[w].entity}
    /\ Ends(w)
    /\ UNCHANGED <<kind, requests, listener, nextId, round, faults, history>>

(***************************************************************************)
(* saveAndActivate, applyPendingStreamChange, applyPendingSiteChange       *)
(***************************************************************************)

(* The applier reads the entity; if it is gone there is nothing to do.     *)
ReadLive(w) ==
    /\ Pc(w, "read")
    /\ IF live[work[w].entity] = Gone
       THEN AfterSuccess(w) /\ done' = done \union {work[w].id}
       ELSE /\ work' = [work EXCEPT ![w].pc = "save", ![w].seen = live[work[w].entity]]
            /\ UNCHANGED done
    /\ UNCHANGED <<kind, requests, live, listener, rows, nextId, round, faults, tries, raced, overlapped, stranded>>

(* saveStream inserts a row that is missing, updateSite does not.          *)
Saved(e, c) == IF kind[e] = "site" /\ live[e] = Gone THEN live ELSE [live EXCEPT ![e] = c]

(* A scheduled save of a site reloads no listener.                         *)
SaveConfig(w) ==
    /\ Pc(w, "save")
    /\ live' = Saved(work[w].entity, work[w].config)
    /\ IF kind[work[w].entity] = "site" /\ work[w].op = "schedule" THEN AfterSuccess(w) ELSE Becomes(w, "activate")
    /\ UNCHANGED <<kind, requests, listener, rows, nextId, round, faults, history>>

(* The port or the host is taken, the certificate does not cover the host, *)
(* or the node may not write at the moment.                                *)
SaveFails(w) ==
    /\ Pc(w, "save")
    /\ AfterFailure(w)
    /\ UNCHANGED <<kind, requests, live, listener, rows, nextId, round, faults, history>>

(* streamProxyManager.apply, or requestTlsReload.  A stream's health check *)
(* is refreshed then, which may throw and leaves row and listener.         *)
Activate(w) ==
    /\ Pc(w, "activate")
    /\ IF kind[work[w].entity] = "stream" THEN listener' = [listener EXCEPT ![work[w].entity] = work[w].config] ELSE UNCHANGED listener
    /\ stranded' = stranded \ {work[w].entity}
    /\ \/ /\ done' = IF work[w].op \in {"due", "apply"} THEN done \union {work[w].id} ELSE done
          /\ AfterSuccess(w)
       \/ kind[work[w].entity] = "stream" /\ AfterFailure(w) /\ UNCHANGED done
    /\ UNCHANGED <<kind, requests, live, rows, nextId, round, faults, tries, raced, overlapped>>

(* The listener of a stream goes back to what it was, if that succeeds.    *)
ActivateFails(w) ==
    /\ Pc(w, "activate")
    /\ IF kind[work[w].entity] = "stream"
       THEN /\ listener' \in {listener, [listener EXCEPT ![work[w].entity] = Gone]}
            /\ Becomes(w, "restore")
       ELSE AfterFailure(w) /\ UNCHANGED listener
    /\ UNCHANGED <<kind, requests, live, rows, nextId, round, faults, history>>

(* Faulty variant: the row keeps what could not be activated.              *)
RestoreNothing(w) == Pc(w, "restore") /\ AfterFailure(w) /\ UNCHANGED <<kind, requests, live, listener, rows, nextId, round, faults, history>>

(* saveStream(live), saveStream(previous)                                  *)
Restore(w) ==
    /\ Pc(w, "restore")
    /\ live' = [live EXCEPT ![work[w].entity] = work[w].seen]
    /\ AfterFailure(w)
    /\ UNCHANGED <<kind, requests, listener, rows, nextId, round, faults, history>>

(* The row cannot be taken back: the node may not write any more, or the   *)
(* port that the save has freed belongs to another stream.                 *)
RestoreFails(w) ==
    /\ Pc(w, "restore")
    /\ stranded' = stranded \union {work[w].entity}
    /\ AfterFailure(w)
    /\ UNCHANGED <<kind, requests, live, listener, rows, nextId, round, faults, tries, done, raced, overlapped>>

(***************************************************************************)
(* applyDuePendingChanges                                                  *)
(***************************************************************************)

DueRows == {r \in rows : r.status = "pending" /\ r.due}

(* Faulty variant: no guard against a round that is still under way.       *)
StartAnyRound(w) ==
    /\ w \in Round /\ Pc(w, "idle") /\ DueRows # {}
    /\ running' = TRUE /\ todo' = DueRows
    /\ Becomes(w, "pick")
    /\ UNCHANGED <<kind, requests, live, listener, rows, nextId, faults, history>>

(* A call while another one is under way returns at once.                  *)
StartRound(w) ==
    /\ w \in Round /\ Pc(w, "idle") /\ ~running /\ DueRows # {}
    /\ running' = TRUE /\ todo' = DueRows
    /\ Becomes(w, "pick")
    /\ UNCHANGED <<kind, requests, live, listener, rows, nextId, faults, history>>

(* The next row of the round, as it was read at the start of the round.    *)
PickRow(w) ==
    /\ Pc(w, "pick")
    /\ \E r \in todo :
          /\ todo' = todo \ {r}
          /\ Begin(w, "read", "due", r.entity, r, r.change, r.change)
          /\ tries' = [tries EXCEPT ![r.id] = IF @ < MaxAttempts THEN @ + 1 ELSE @]
          /\ Overlap(r.entity)
    /\ UNCHANGED <<kind, requests, live, listener, rows, nextId, running, faults, done, raced, stranded>>

EndRound(w) ==
    /\ Pc(w, "pick") /\ todo = {}
    /\ running' = FALSE
    /\ Ends(w)
    /\ UNCHANGED <<kind, requests, live, listener, rows, nextId, todo, faults, history>>

(* updatePendingChangeStatus: a row that is gone stays gone.               *)
UpdateStatus(id, status, attempts, due) ==
    rows' = {IF r.id = id THEN [r EXCEPT !.status = status, !.attempts = attempts, !.due = due] ELSE r : r \in rows}

BackToPick(w) == work' = [work EXCEPT ![w] = [pc |-> "pick"]]

RecordApplied(w) ==
    /\ Pc(w, "record")
    /\ UpdateStatus(work[w].id, "applied", work[w].attempts, TRUE)
    /\ BackToPick(w)
    /\ UNCHANGED <<kind, requests, live, listener, nextId, round, faults, history>>

(* The write of the status fails inside the try block.                     *)
RecordFails(w) ==
    /\ Pc(w, "record") /\ faults > 0
    /\ faults' = faults - 1
    /\ Becomes(w, "retry")
    /\ UNCHANGED <<kind, requests, live, listener, rows, nextId, round, history>>

(* Faulty variant: the failed attempt is not counted.                      *)
AttemptsKept(w) == work[w].attempts

Attempts(w) == work[w].attempts + 1

(* Faulty variant: one attempt too few.                                    *)
GivesUpEarly(w) == Attempts(w) >= MaxAttempts - 1

GivesUp(w) == Attempts(w) >= MaxAttempts

Retry(w) ==
    /\ Pc(w, "retry")
    /\ IF GivesUp(w)
       THEN UpdateStatus(work[w].id, "failed", Attempts(w), TRUE)
       ELSE UpdateStatus(work[w].id, "pending", Attempts(w), FALSE)
    /\ BackToPick(w)
    /\ UNCHANGED <<kind, requests, live, listener, nextId, round, faults, history>>

(* The write of the status fails inside the catch block: the round ends.   *)
RetryFails(w) ==
    /\ Pc(w, "retry") /\ faults > 0
    /\ faults' = faults - 1
    /\ running' = FALSE /\ todo' = {}
    /\ Ends(w)
    /\ UNCHANGED <<kind, requests, live, listener, rows, nextId, history>>

(* apply_at passes.                                                        *)
ComesDue(r) ==
    /\ r.status = "pending" /\ ~r.due
    /\ rows' = (rows \ {r}) \union {[r EXCEPT !.due = TRUE]}
    /\ UNCHANGED <<kind, requests, live, listener, nextId, work, round, faults, history>>

(* The process dies and starts again: the streams start from their rows,   *)
(* those that can.                                                         *)
Crash ==
    /\ faults > 0
    /\ faults' = faults - 1
    /\ work' = [w \in Worker |-> Idle]
    /\ running' = FALSE /\ todo' = {}
    /\ \E up \in SUBSET Entity : listener' = [e \in Entity |-> IF e \in up THEN ListenersOf(live)[e] ELSE Gone]
    /\ stranded' = {}
    /\ UNCHANGED <<kind, requests, live, rows, nextId, tries, done, raced, overlapped>>

WorkStep(w) ==
    \/ CheckSlot(w) \/ ClearFailed(w) \/ InsertChange(w) \/ LoadChange(w) \/ DeleteChange(w) \/ DropEntity(w)
    \/ ReadLive(w) \/ SaveConfig(w) \/ SaveFails(w) \/ Activate(w) \/ ActivateFails(w)
    \/ Restore(w) \/ RestoreFails(w)
    \/ PickRow(w) \/ EndRound(w) \/ RecordApplied(w) \/ RecordFails(w) \/ Retry(w) \/ RetryFails(w)

Next ==
    \/ \E w \in Request, e \in Entity :
          \/ \E c \in Config : SaveNow(w, e, c) \/ SaveScheduled(w, e, c)
          \/ \E op \in {"apply", "cancel"} : FindChange(w, op, e)
          \/ RemoveEntity(w, e)
    \/ \E w \in Worker : WorkStep(w) \/ StartRound(w)
    \/ \E r \in rows : ComesDue(r)
    \/ Crash

Spec == Init /\ [][Next]_vars

(* The event loop serves every continuation, the interval timer fires and  *)
(* time passes.  No request and no fault is fair.                          *)
Fairness ==
    /\ \A w \in Worker : WF_vars(WorkStep(w))
    /\ WF_vars(\E w \in Round : StartRound(w))
    /\ \A id \in RowId : WF_vars(\E r \in rows : r.id = id /\ ComesDue(r))

FairSpec == Spec /\ Fairness

(***************************************************************************)
(* Properties                                                              *)
(***************************************************************************)

(* A change that updatePendingChangeStatus recorded as applied is never    *)
(* pending or failed again: no late failure of another round undoes it.    *)
AppliedIsFinal ==
    [][\A r \in rows, s \in rows' : r.id = s.id /\ r.status = "applied" => s.status = "applied"]_vars

(* applyDuePendingChanges records a change as applied only after its       *)
(* applier has returned, and gives up only after MaxAttempts tries.        *)
OutcomesAreTrue ==
    \A r \in rows :
        /\ r.status = "applied" => r.id \in done
        /\ r.status = "failed" => tries[r.id] >= MaxAttempts

(* There is never more than one change, pending or failed, to look at per  *)
(* site or stream, whatever rounds, apply-now, cancel, deletion and crashes*)
(* do, as long as no two saves with a schedule are under way for one       *)
(* entity: the slot check in updateSite and in the PUT route, with         *)
(* deleteFailedPendingChangesFor.                                          *)
OneChangeUnlessRaced ==
    \A r, s \in rows :
        r.entity = s.entity /\ r.entity \notin raced /\ "applied" \notin {r.status, s.status} => r = s

(* As long as the writers of a stream take turns, a stream that nobody is  *)
(* changing runs with the configuration of its row, or not at all: a       *)
(* change that could not be activated is taken back, by whichever of the   *)
(* route, the round and apply-now made it (saveAndActivate,                *)
(* applyPendingStreamChange).  The save that takes it back may itself      *)
(* fail; only then does the row name what the listener does not run, until *)
(* an activation or a restart starts the listener from it.                 *)
StreamsRunTheirRow ==
    \A e \in Entity \ (overlapped \union stranded) : Writing(e) = {} => listener[e] \in {live[e], Gone}

(* Every scheduled change is settled: applied, given up, or removed.       *)
ChangesSettle ==
    \A id \in RowId :
        (\E r \in rows : r.id = id /\ r.status = "pending") ~> ~(\E r \in rows : r.id = id /\ r.status = "pending")
=============================================================================
