----------------------- MODULE PendingChanges_proofs -----------------------
(***************************************************************************)
(* Proofs about scheduled changes, for any number of entities, requests,   *)
(* rows, attempts and faults.                                              *)
(*                                                                         *)
(* IInv carries the types, truthful outcomes and the finality of an        *)
(* applied change: the flag running lets one round through at a time, and  *)
(* what a round has read is still pending, or gone, when it decides.  Two  *)
(* invariants rest on it: SlotInv, that a save with a schedule which found *)
(* the slot of its entity free still finds it free when it inserts, and    *)
(* ListenerInv, where row and listener of a stream are at each step of the *)
(* one worker that changes it.                                             *)
(***************************************************************************)
EXTENDS PendingChanges, FiniteSetTheorems, TLAPS

Busy(w) == work[w].pc \notin {"idle", "pick"}

RoundPc == {"read", "save", "activate", "restore", "record", "retry"}

RequestPc == {"check", "read", "save", "activate", "restore", "clear", "insert", "load", "delete", "drop"}

(* A call of the interval timer does nothing but the round, and it has     *)
(* counted the attempt it is making; a request is never inside a round.    *)
RoundWorks(w) ==
    Busy(w) =>
        /\ work[w].pc \in RoundPc /\ work[w].op = "due"
        /\ work[w].id \in RowId /\ work[w].id < nextId
        /\ work[w].attempts < MaxAttempts /\ work[w].attempts < tries[work[w].id]
        /\ work[w].pc = "record" => work[w].id \in done

RequestWorks(w) ==
    /\ work[w].pc # "pick"
    /\ Busy(w) =>
        /\ work[w].pc \in RequestPc /\ work[w].op # "due"
        /\ work[w].pc \in {"clear", "insert"} => work[w].op = "schedule"
        /\ work[w].pc = "read" => work[w].op = "apply"
        /\ work[w].op = "apply" => work[w].id \in RowId

WorkersKeepToTheirPart == (\A w \in Round : RoundWorks(w)) /\ (\A w \in Request : RequestWorks(w))

(* The flag running lets one call through at a time.                       *)
OneRound ==
    /\ ~running => todo = {}
    /\ \A v \in Round : work[v].pc # "idle" => running
    /\ \A v, w \in Round : work[v].pc # "idle" /\ work[w].pc # "idle" => v = w

(* What a round has read is still pending, or gone, until it has decided:  *)
(* rows of the round to come, and the row it is working on.                *)
TodoIsPending ==
    \A s \in todo :
        /\ s.id < nextId /\ s.attempts < MaxAttempts /\ s.attempts <= tries[s.id]
        /\ \A t \in todo : s.id = t.id => s = t
        /\ \A r \in rows : r.id = s.id => r.status = "pending"

CurrentIsPending ==
    \A w \in Round : Busy(w) =>
        /\ \A r \in rows : r.id = work[w].id => r.status = "pending"
        /\ \A s \in todo : s.id # work[w].id

RowsAreCounted ==
    \A r \in rows :
        /\ r.id < nextId /\ r.attempts <= tries[r.id]
        /\ r.status = "pending" => r.attempts < MaxAttempts

(* Every save with a schedule still finds an id for its row.               *)
IdsSuffice == nextId + Cardinality(Scheduling) <= MaxRows + 1

RoundInv ==
    /\ WorkersKeepToTheirPart
    /\ OneRound
    /\ TodoIsPending
    /\ CurrentIsPending
    /\ RowsAreCounted
    /\ OutcomesAreTrue

IInv == TypeOK /\ RoundInv /\ IdsSuffice

(***************************************************************************)
(* Steps of a worker                                                       *)
(***************************************************************************)

WorkType == work \in [Worker -> Work \union {Idle, [pc |-> "pick"]}]

LEMMA BusyWork == ASSUME WorkType, NEW w \in Worker, Busy(w) PROVE work[w] \in Work
  BY DEF WorkType, Busy, Idle

LEMMA PcType == ASSUME WorkType, NEW w \in Worker, Pc(w, "pick") \/ Busy(w) PROVE work[w].pc # "idle"
  BY DEF WorkType, Busy, Idle, Pc

(* A busy worker that goes on keeps what it has read; the applier adds the *)
(* configuration it has just seen.                                         *)
Sees(w, pc) == \E c \in Config : work' = [work EXCEPT ![w].pc = pc, ![w].seen = c]

LEMMA BecomesKeeps ==
    ASSUME WorkType, NEW w \in Worker, Busy(w), NEW pc, pc \in RoundPc \union RequestPc,
           Becomes(w, pc) \/ Sees(w, pc)
    PROVE  /\ WorkType'
           /\ work'[w].pc = pc
           /\ work'[w].op = work[w].op /\ work'[w].entity = work[w].entity
           /\ work'[w].id = work[w].id /\ work'[w].attempts = work[w].attempts
           /\ work'[w].config = work[w].config
           /\ Becomes(w, pc) => work'[w].seen = work[w].seen
           /\ \A v \in Worker \ {w} : work'[v] = work[v]
<1>1. work[w] \in Work
  BY BusyWork
<1>2. PICK x \in Work :
         /\ work' = [work EXCEPT ![w] = x]
         /\ x.pc = pc /\ x.op = work[w].op /\ x.entity = work[w].entity
         /\ x.id = work[w].id /\ x.attempts = work[w].attempts /\ x.config = work[w].config
         /\ Becomes(w, pc) => x.seen = work[w].seen
  <2>1. CASE Becomes(w, pc)
    <3> DEFINE x == [work[w] EXCEPT !.pc = pc]
    <3>1. x \in Work /\ x.pc = pc /\ x.op = work[w].op /\ x.entity = work[w].entity
          /\ x.id = work[w].id /\ x.attempts = work[w].attempts
          /\ x.config = work[w].config /\ x.seen = work[w].seen
      BY <1>1 DEF Work, RoundPc, RequestPc
    <3>2. work' = [work EXCEPT ![w] = x]
      BY <2>1 DEF Becomes
    <3> HIDE DEF x
    <3> QED
      BY <3>1, <3>2
  <2>2. CASE Sees(w, pc)
    <3>1. PICK c \in Config : work' = [work EXCEPT ![w].pc = pc, ![w].seen = c]
      BY <2>2 DEF Sees
    <3> DEFINE x == [work[w] EXCEPT !.pc = pc, !.seen = c]
    <3>2. x \in Work /\ x.pc = pc /\ x.op = work[w].op /\ x.entity = work[w].entity
          /\ x.id = work[w].id /\ x.attempts = work[w].attempts /\ x.config = work[w].config
      BY <1>1 DEF Work, RoundPc, RequestPc
    <3>3. work' = [work EXCEPT ![w] = x]
      BY <3>1, <1>1 DEF WorkType
    <3>4. Becomes(w, pc) => x.seen = work[w].seen
      BY <1>1, <3>3 DEF WorkType, Becomes, Work
    <3> HIDE DEF x
    <3> QED
      BY <3>2, <3>3, <3>4
  <2> QED
    BY <2>1, <2>2
<1> QED
  BY <1>2 DEF WorkType

(* A worker that begins, ends or goes back to the round's loop.            *)
LEMMA SetWork ==
    ASSUME WorkType, NEW w \in Worker, NEW x \in Work \union {Idle, [pc |-> "pick"]},
           work' = [work EXCEPT ![w] = x]
    PROVE  WorkType' /\ work'[w] = x /\ \A v \in Worker \ {w} : work'[v] = work[v]
  BY DEF WorkType

LEMMA Shapes == Idle.pc = "idle" /\ [pc |-> "pick"].pc = "pick"
  BY DEF Idle

(* Counting the saves with a schedule.                                     *)
LEMMA SchedulingFinite == IsFiniteSet(Scheduling) /\ Cardinality(Scheduling) \in Nat
<1>1. Scheduling \subseteq Request
  BY DEF Scheduling
<1> QED
  BY <1>1, RequestsFinite, FS_Subset, FS_CardinalityType

LEMMA FewerSchedules ==
    ASSUME IdsSuffice, nextId \in Nat, nextId' = nextId, Scheduling' \subseteq Scheduling
    PROVE  IdsSuffice'
<1>1. Cardinality(Scheduling') <= Cardinality(Scheduling) /\ Cardinality(Scheduling') \in Nat
  BY SchedulingFinite, FS_Subset, FS_CardinalityType
<1>2. Cardinality(Scheduling)' = Cardinality(Scheduling')
  OBVIOUS
<1> QED
  BY <1>1, <1>2, SchedulingFinite, BoundsAreNat DEF IdsSuffice

(* A busy worker goes on to a step of its part; rows may be removed and    *)
(* appliers may have returned, the round itself stays where it is.         *)
LEMMA GoesOn ==
    ASSUME TypeOK, RoundInv, IdsSuffice, NEW w \in Worker, Busy(w), NEW pc, Becomes(w, pc) \/ Sees(w, pc),
           w \in Round => pc \in RoundPc /\ (pc = "record" => work[w].id \in done'),
           w \in Request => /\ pc \in RequestPc
                            /\ pc \in {"clear", "insert"} => work[w].op = "schedule"
                            /\ pc = "read" => work[w].op = "apply",
           rows' \subseteq rows, done \subseteq done', UNCHANGED <<todo, running, nextId, tries>>
    PROVE  WorkType' /\ RoundInv' /\ IdsSuffice'
<1> USE DEF Busy
<1>1. WorkType /\ nextId \in Nat
  BY BoundsAreNat DEF TypeOK, WorkType
<1>2. /\ WorkType'
      /\ work'[w].pc = pc
      /\ work'[w].op = work[w].op /\ work'[w].entity = work[w].entity
      /\ work'[w].id = work[w].id /\ work'[w].attempts = work[w].attempts
      /\ \A v \in Worker \ {w} : work'[v] = work[v]
  BY <1>1, BecomesKeeps DEF Worker
<1>3. pc \notin {"idle", "pick"} /\ work[w].pc \notin {"idle", "pick"}
  BY DEF RoundPc, RequestPc, Worker
<1>4. WorkersKeepToTheirPart'
  BY <1>2, <1>3 DEF RoundInv, WorkersKeepToTheirPart, RoundWorks, RequestWorks, Worker
<1>5. OneRound'
  BY <1>2, <1>3 DEF RoundInv, OneRound, Worker
<1>6. TodoIsPending' /\ RowsAreCounted' /\ OutcomesAreTrue'
  BY DEF RoundInv, TodoIsPending, RowsAreCounted, OutcomesAreTrue
<1>7. CurrentIsPending'
  BY <1>2, <1>3 DEF RoundInv, CurrentIsPending, Worker
<1>8. Scheduling' \subseteq Scheduling
  BY <1>2, <1>3 DEF Scheduling, Worker
<1> QED
  BY <1>1, <1>2, <1>4, <1>5, <1>6, <1>7, <1>8, FewerSchedules DEF RoundInv

(* A request is over.                                                      *)
LEMMA Stops ==
    ASSUME TypeOK, RoundInv, IdsSuffice, NEW w \in Worker, w \notin Round, Ends(w),
           rows' \subseteq rows, done \subseteq done', UNCHANGED <<todo, running, nextId, tries>>
    PROVE  WorkType' /\ RoundInv' /\ IdsSuffice'
<1> USE DEF Busy
<1>1. WorkType /\ nextId \in Nat
  BY BoundsAreNat DEF TypeOK, WorkType
<1>2. WorkType' /\ work'[w] = Idle /\ \A v \in Worker \ {w} : work'[v] = work[v]
  BY <1>1, SetWork DEF Ends
<1>3. work'[w].pc = "idle"
  BY <1>2, Shapes
<1>4. WorkersKeepToTheirPart'
  BY <1>2, <1>3 DEF RoundInv, WorkersKeepToTheirPart, RoundWorks, RequestWorks, Worker
<1>5. OneRound'
  BY <1>2, <1>3 DEF RoundInv, OneRound, Worker
<1>6. TodoIsPending' /\ RowsAreCounted' /\ OutcomesAreTrue'
  BY DEF RoundInv, TodoIsPending, RowsAreCounted, OutcomesAreTrue
<1>7. CurrentIsPending'
  BY <1>2, <1>3 DEF RoundInv, CurrentIsPending, Worker
<1>8. Scheduling' \subseteq Scheduling
  BY <1>2, <1>3 DEF Scheduling, Worker
<1> QED
  BY <1>1, <1>2, <1>4, <1>5, <1>6, <1>7, <1>8, FewerSchedules DEF RoundInv

(* A request begins.                                                       *)
LEMMA Begins ==
    ASSUME TypeOK, RoundInv, NEW w \in Request, NEW x \in Work, work' = [work EXCEPT ![w] = x],
           x.pc \in RequestPc \ {"clear", "insert", "read"}, x.op # "due", x.op = "apply" => x.id \in RowId,
           UNCHANGED <<rows, todo, running, nextId, tries, done>>
    PROVE  WorkType' /\ RoundInv' /\ Scheduling' \subseteq Scheduling \union {w} /\ (x.op # "schedule" => Scheduling' \subseteq Scheduling)
<1> USE DEF Busy
<1>1. WorkType /\ w \in Worker /\ w \notin Round
  BY DistinctParts DEF TypeOK, WorkType, Worker
<1>2. WorkType' /\ work'[w] = x /\ \A v \in Worker \ {w} : work'[v] = work[v]
  BY <1>1, SetWork
<1>3. x.pc \notin {"idle", "pick"}
  BY DEF RequestPc
<1>4. WorkersKeepToTheirPart'
  BY <1>1, <1>2, <1>3 DEF RoundInv, WorkersKeepToTheirPart, RoundWorks, RequestWorks, Worker
<1>5. OneRound'
  BY <1>1, <1>2, <1>3 DEF RoundInv, OneRound, Worker
<1>6. TodoIsPending' /\ RowsAreCounted' /\ OutcomesAreTrue'
  BY DEF RoundInv, TodoIsPending, RowsAreCounted, OutcomesAreTrue
<1>7. CurrentIsPending'
  BY <1>1, <1>2, <1>3 DEF RoundInv, CurrentIsPending, Worker
<1>8. Scheduling' \subseteq Scheduling \union {w} /\ (x.op # "schedule" => Scheduling' \subseteq Scheduling)
  BY <1>2, <1>3 DEF Scheduling, Worker
<1> QED
  BY <1>2, <1>4, <1>5, <1>6, <1>7, <1>8 DEF RoundInv

(***************************************************************************)
(* Each action preserves the invariant                                     *)
(***************************************************************************)

(* The parts of TypeOK other than the workers.                             *)
TablesType ==
    /\ kind \in [Entity -> {"stream", "site"}]
    /\ live \in [Entity -> Config \union {Gone}]
    /\ listener \in [Entity -> Config \union {Gone}]
    /\ rows \subseteq Row
    /\ \A r, s \in rows : r.id = s.id => r = s
    /\ nextId \in 1..(MaxRows + 1)

RoundType == running \in BOOLEAN /\ todo \subseteq Row

CountersType ==
    /\ requests \in Nat /\ faults \in Nat
    /\ tries \in [RowId -> 0..MaxAttempts]
    /\ done \subseteq RowId
    /\ raced \subseteq Entity /\ overlapped \subseteq Entity /\ stranded \subseteq Entity

LEMMA TypeParts == TypeOK <=> TablesType /\ WorkType /\ RoundType /\ CountersType
  BY DEF TypeOK, TablesType, WorkType, RoundType, CountersType

LEMMA Together ==
    ASSUME TablesType', WorkType', RoundType', CountersType', RoundInv', IdsSuffice'
    PROVE  IInv'
  BY DEF IInv, TypeOK, TablesType, WorkType, RoundType, CountersType

LEMMA NextIdNat == TypeOK => nextId \in Nat
  BY BoundsAreNat DEF TypeOK

LEMMA OverlapType ==
    ASSUME NEW e \in Entity
    PROVE  /\ overlapped \subseteq Entity /\ Overlap(e) => overlapped' \subseteq Entity
           /\ raced \subseteq Entity /\ Race(e) => raced' \subseteq Entity
  BY DEF Overlap, Race

(* A request that is accepted changes no table but the listener.           *)
LEMMA AcceptType ==
    ASSUME TypeOK, NEW w \in Request, NEW e \in Entity, Accepts(w),
           listener' = listener \/ listener' = [listener EXCEPT ![e] = Gone],
           overlapped' = overlapped \/ Overlap(e), raced' = raced \/ Race(e),
           UNCHANGED <<kind, live, rows, nextId, round, faults, tries, done, stranded>>
    PROVE  TablesType' /\ RoundType' /\ CountersType'
<1>1. TablesType' /\ RoundType'
  BY TypeParts DEF TablesType, RoundType, round
<1>2. requests' \in Nat
  BY TypeParts DEF CountersType, Accepts
<1> QED
  BY <1>1, <1>2, OverlapType, TypeParts DEF CountersType

(* The record Begin puts together.                                         *)
Started(pc, op, e, id, attempts, config, change, seen) ==
    [pc |-> pc, op |-> op, entity |-> e, id |-> id, attempts |-> attempts,
     config |-> config, change |-> change, seen |-> seen]

LEMMA SaveNowInv == ASSUME IInv, NEW w \in Request, NEW e \in Entity, NEW c \in Config, SaveNow(w, e, c) PROVE IInv'
<1> DEFINE x == Started("save", "save", e, 0, 0, c, c, live[e])
<1>1. x \in Work /\ x.pc = "save" /\ x.op = "save"
  BY AttemptsPositive DEF IInv, TypeOK, SaveNow, Work, Started
<1>2. work' = [work EXCEPT ![w] = x]
  BY DEF SaveNow, Started
<1>3. UNCHANGED <<rows, todo, running, nextId, tries, done>>
  BY DEF SaveNow, round
<1> HIDE DEF x
<1>4. WorkType' /\ RoundInv' /\ Scheduling' \subseteq Scheduling
  BY <1>1, <1>2, <1>3, Begins DEF IInv, RequestPc
<1>5. TablesType' /\ RoundType' /\ CountersType'
  BY AcceptType DEF IInv, SaveNow
<1> QED
  BY <1>3, <1>4, <1>5, Together, FewerSchedules, NextIdNat DEF IInv

LEMMA SaveScheduledInv == ASSUME IInv, NEW w \in Request, NEW e \in Entity, NEW c \in Config, SaveScheduled(w, e, c) PROVE IInv'
<1> DEFINE x == Started("check", "schedule", e, 0, 0, live[e], c, live[e])
<1>1. x \in Work /\ x.pc = "check" /\ x.op = "schedule"
  BY AttemptsPositive DEF IInv, TypeOK, SaveScheduled, Work, Started
<1>2. work' = [work EXCEPT ![w] = x]
  BY DEF SaveScheduled, Started, Begin, NoRow
<1>3. UNCHANGED <<rows, todo, running, nextId, tries, done>>
  BY DEF SaveScheduled, round
<1> HIDE DEF x
<1>4. WorkType' /\ RoundInv' /\ Scheduling' \subseteq Scheduling \union {w}
  BY <1>1, <1>2, <1>3, Begins DEF IInv, RequestPc
<1>5. TablesType' /\ RoundType' /\ CountersType'
  BY AcceptType DEF IInv, SaveScheduled
<1>6. IdsSuffice'
  <2>1. /\ IsFiniteSet(Scheduling \union {w})
        /\ Cardinality(Scheduling \union {w}) \in Nat
        /\ Cardinality(Scheduling \union {w}) <= Cardinality(Scheduling) + 1
    <3>1. w \notin Scheduling
      BY DEF Scheduling, SaveScheduled, Accepts, Pc
    <3> QED
      BY SMTT(20), <3>1, SchedulingFinite, FS_AddElement
  <2>2. Cardinality(Scheduling') <= Cardinality(Scheduling \union {w}) /\ Cardinality(Scheduling') \in Nat
    BY <2>1, <1>4, FS_Subset, FS_CardinalityType
  <2>3. Cardinality(Scheduling)' = Cardinality(Scheduling')
    OBVIOUS
  <2>4. nextId + Cardinality(Scheduling) <= MaxRows /\ nextId \in Nat
    BY BoundsAreNat DEF SaveScheduled, IInv, TypeOK
  <2> QED
    BY <2>1, <2>2, <2>3, <2>4, <1>3, SchedulingFinite, BoundsAreNat DEF IdsSuffice
<1> QED
  BY <1>4, <1>5, <1>6, Together

LEMMA FindChangeInv == ASSUME IInv, NEW w \in Request, NEW e \in Entity, NEW op \in {"apply", "cancel"}, FindChange(w, op, e) PROVE IInv'
<1>1. PICK r \in CurrentChange(e) : Begin(w, "load", op, e, r, r.change, r.change)
  BY DEF FindChange
<1>2. r \in Row
  BY DEF CurrentChange, IInv, TypeOK
<1> DEFINE x == Started("load", op, e, r.id, r.attempts, r.change, r.change, r.change)
<1>3. x \in Work /\ x.pc = "load" /\ x.op = op /\ x.id \in RowId
  BY <1>2 DEF Row, Work, Started
<1>4. work' = [work EXCEPT ![w] = x]
  BY <1>1 DEF Started, Begin
<1>5. UNCHANGED <<rows, todo, running, nextId, tries, done>>
  BY DEF FindChange, round
<1> HIDE DEF x
<1>6. WorkType' /\ RoundInv' /\ Scheduling' \subseteq Scheduling
  BY <1>3, <1>4, <1>5, Begins DEF IInv, RequestPc
<1>7. TablesType' /\ RoundType' /\ CountersType'
  BY AcceptType DEF IInv, FindChange
<1> QED
  BY <1>5, <1>6, <1>7, Together, FewerSchedules, NextIdNat DEF IInv

LEMMA RemoveEntityInv == ASSUME IInv, NEW w \in Request, NEW e \in Entity, RemoveEntity(w, e) PROVE IInv'
<1> DEFINE x == Started("drop", "remove", e, 0, 0, live[e], live[e], live[e])
<1>1. x \in Work /\ x.pc = "drop" /\ x.op = "remove"
  BY AttemptsPositive DEF IInv, TypeOK, RemoveEntity, Work, Started
<1>2. work' = [work EXCEPT ![w] = x]
  BY DEF RemoveEntity, Started, Begin, NoRow
<1>3. UNCHANGED <<rows, todo, running, nextId, tries, done>>
  BY DEF RemoveEntity, round
<1> HIDE DEF x
<1>4. WorkType' /\ RoundInv' /\ Scheduling' \subseteq Scheduling
  BY <1>1, <1>2, <1>3, Begins DEF IInv, RequestPc
<1>5. TablesType' /\ RoundType' /\ CountersType'
  BY AcceptType DEF IInv, RemoveEntity
<1> QED
  BY <1>3, <1>4, <1>5, Together, FewerSchedules, NextIdNat DEF IInv

(* A worker that starts or goes on in one of these steps changes only its  *)
(* own state, the configurations, and what is counted as done.             *)
LEMMA SameTables ==
    ASSUME TypeOK, rows' \subseteq rows, done' \subseteq RowId,
           live' \in [Entity -> Config \union {Gone}], listener' \in [Entity -> Config \union {Gone}],
           faults' \in Nat, stranded' \subseteq Entity, UNCHANGED <<kind, requests, nextId, round, tries, raced, overlapped>>
    PROVE  TablesType' /\ RoundType' /\ CountersType'
  BY DEF TypeOK, TablesType, RoundType, CountersType, round

(* What TypeOK and the part of each worker say of a worker at work.        *)
LEMMA WorkerFacts ==
    ASSUME IInv, NEW w \in Worker, Busy(w)
    PROVE  /\ work[w] \in Work
           /\ work[w].entity \in Entity /\ work[w].config \in Config /\ work[w].seen \in Config
           /\ work[w].change \in Config /\ work[w].id \in RowId \union {0}
           /\ work[w].op \in {"due", "apply"} => work[w].id \in RowId
           /\ w \in Round => w \notin Request /\ work[w].op = "due" /\ work[w].pc \in RoundPc
           /\ w \in Request => w \notin Round /\ work[w].op # "due" /\ work[w].pc \in RequestPc
           /\ w \in Request \/ w \in Round
<1>1. work[w] \in Work
  BY BusyWork DEF IInv, TypeOK, WorkType
<1>2. RoundWorks(w) \/ w \notin Round
  BY DEF IInv, RoundInv, WorkersKeepToTheirPart
<1>3. RequestWorks(w) \/ w \notin Request
  BY DEF IInv, RoundInv, WorkersKeepToTheirPart
<1> QED
  BY <1>1, <1>2, <1>3, DistinctParts DEF Work, RoundWorks, RequestWorks, Worker

(* The worker goes on after a success or a failure of its save or applier. *)
LEMMA AfterSave ==
    ASSUME IInv, NEW w \in Worker, Busy(w),
           (AfterSuccess(w) /\ (work[w].op = "due" => work[w].id \in done')) \/ AfterFailure(w),
           rows' = rows, done \subseteq done', UNCHANGED <<todo, running, nextId, tries>>
    PROVE  WorkType' /\ RoundInv' /\ IdsSuffice'
<1> DEFINE Result == WorkType' /\ RoundInv' /\ IdsSuffice'
<1>1. ASSUME work[w].op # "due", Ends(w) PROVE Result
  BY <1>1, WorkerFacts, Stops DEF IInv
<1>2. ASSUME work[w].op = "due", Becomes(w, "record"), work[w].id \in done' PROVE Result
  BY <1>2, WorkerFacts, GoesOn DEF IInv, RoundPc
<1>3. ASSUME work[w].op = "due", Becomes(w, "retry") PROVE Result
  BY <1>3, WorkerFacts, GoesOn DEF IInv, RoundPc
<1>4. ASSUME work[w].op = "apply", Becomes(w, "delete") PROVE Result
  BY <1>4, WorkerFacts, GoesOn DEF IInv, RequestPc
<1>5. ASSUME work[w].op = "schedule", Becomes(w, "clear") PROVE Result
  BY <1>5, WorkerFacts, GoesOn DEF IInv, RequestPc
<1> HIDE DEF Result
<1>6. Result
  BY <1>1, <1>2, <1>3, <1>4, <1>5 DEF AfterSuccess, AfterFailure
<1> QED
  BY <1>6 DEF Result

(* The steps of a request around its save.                                 *)
LEMMA RouteStepInv ==
    ASSUME IInv, NEW w \in Worker,
           CheckSlot(w) \/ ClearFailed(w) \/ LoadChange(w) \/ DeleteChange(w) \/ DropEntity(w)
    PROVE  IInv'
<1>1. Busy(w) /\ w \notin Round
  <2>1. Busy(w) /\ work[w].pc \notin RoundPc
    BY DEF CheckSlot, ClearFailed, LoadChange, DeleteChange, DropEntity, Pc, Busy, RoundPc
  <2> QED
    BY <2>1, WorkerFacts
<1>2. /\ rows' \subseteq rows /\ live' \in [Entity -> Config \union {Gone}]
      /\ UNCHANGED <<kind, listener, requests, faults, nextId, round, tries, done, raced, overlapped, stranded>>
  BY <1>1, WorkerFacts DEF CheckSlot, ClearFailed, LoadChange, DeleteChange, DropEntity, IInv, TypeOK, history
<1>3. UNCHANGED <<todo, running>>
  BY <1>2 DEF round
<1>4. TablesType' /\ RoundType' /\ CountersType'
  BY <1>2, SameTables DEF IInv, TypeOK
<1>5. CASE Ends(w)
  BY <1>1, <1>2, <1>3, <1>4, <1>5, Stops, Together DEF IInv
<1>6. ASSUME NEW pc \in {"save", "insert", "read", "delete"}, Becomes(w, pc),
             pc = "insert" => work[w].op = "schedule", pc = "read" => work[w].op = "apply"
      PROVE  IInv'
  BY <1>1, <1>2, <1>3, <1>4, <1>6, WorkerFacts, GoesOn, Together DEF IInv, RequestPc
<1>7. ClearFailed(w) => work[w].op = "schedule"
  BY <1>1, WorkerFacts DEF ClearFailed, Pc, IInv, RoundInv, WorkersKeepToTheirPart, RequestWorks
<1> QED
  BY <1>5, <1>6, <1>7 DEF CheckSlot, ClearFailed, LoadChange, DeleteChange, DropEntity

(* The row inserted is new: no round can have read it.                     *)
LEMMA InsertChangeInv == ASSUME IInv, NEW w \in Worker, InsertChange(w) PROVE IInv'
<1> USE DEF Busy
<1>1. Busy(w) /\ w \in Request /\ w \notin Round /\ work[w].op = "schedule"
  <2>1. Busy(w) /\ work[w].pc = "insert" /\ work[w].pc \notin RoundPc
    BY DEF InsertChange, Pc, RoundPc
  <2>2. w \in Request /\ w \notin Round
    BY <2>1, WorkerFacts
  <2> QED
    BY <2>1, <2>2 DEF IInv, RoundInv, WorkersKeepToTheirPart, RequestWorks
<1>2. WorkType' /\ work'[w] = Idle /\ \A v \in Worker \ {w} : work'[v] = work[v]
  BY SetWork DEF InsertChange, Ends, IInv, TypeOK, WorkType
<1>3. work'[w].pc = "idle"
  BY <1>2, Shapes
<1>4. nextId \in RowId /\ IdsSuffice'
  <2>1. w \in Scheduling /\ Scheduling' = Scheduling \ {w}
    BY <1>1, <1>2, <1>3 DEF Scheduling, Worker
  <2>2. Cardinality(Scheduling \ {w}) = Cardinality(Scheduling) - 1 /\ Cardinality(Scheduling \ {w}) \in Nat
    BY <2>1, SchedulingFinite, FS_RemoveElement, FS_CardinalityType
  <2>3. Cardinality(Scheduling)' = Cardinality(Scheduling \ {w})
    BY <2>1
  <2>4. nextId \in 1..(MaxRows + 1) /\ nextId' = nextId + 1 /\ nextId + Cardinality(Scheduling) <= MaxRows + 1
    BY DEF InsertChange, IInv, TypeOK, IdsSuffice
  <2> QED
    BY <2>2, <2>3, <2>4, SchedulingFinite, BoundsAreNat DEF IdsSuffice, RowId
<1> DEFINE new == [id |-> nextId, entity |-> work[w].entity, change |-> work[w].change,
                   status |-> "pending", attempts |-> 0, due |-> FALSE]
<1>5. new \in Row /\ new.id = nextId /\ new.status = "pending" /\ new.attempts = 0
  BY <1>1, <1>4, WorkerFacts, AttemptsPositive DEF Row
<1>6. /\ rows' = rows \union {new} /\ nextId' = nextId + 1
      /\ UNCHANGED <<kind, live, listener, requests, faults, todo, running, tries, done, raced, overlapped, stranded>>
  BY DEF InsertChange, round, history
<1> HIDE DEF new
<1>7. \A r \in rows \union todo : r \in Row /\ r.id \in Nat /\ r.id < nextId /\ r.id # nextId
  BY BoundsAreNat DEF IInv, TypeOK, RoundInv, RowsAreCounted, TodoIsPending, Row, RowId
<1>8. TablesType'
  BY <1>4, <1>5, <1>6, <1>7, BoundsAreNat DEF IInv, TypeOK, TablesType, RowId
<1>9. RoundType' /\ CountersType'
  BY <1>6 DEF IInv, TypeOK, RoundType, CountersType
<1>10. \A r \in rows' : r \in rows \/ r = new
  BY <1>6
<1>11. nextId \in Nat /\ tries \in [RowId -> 0..MaxAttempts] /\ 0 < MaxAttempts /\ MaxAttempts \in Nat
  BY AttemptsPositive, NextIdNat DEF IInv, TypeOK
<1>12. RowsAreCounted'
  BY <1>4, <1>5, <1>6, <1>7, <1>10, <1>11 DEF IInv, RoundInv, RowsAreCounted
<1>13. OutcomesAreTrue'
  BY <1>5, <1>6, <1>10 DEF IInv, RoundInv, OutcomesAreTrue
<1>14. TodoIsPending'
  BY <1>5, <1>6, <1>7, <1>10, <1>11 DEF IInv, RoundInv, TodoIsPending
<1>15. CurrentIsPending'
  BY <1>1, <1>2, <1>5, <1>6, <1>10 DEF IInv, RoundInv, CurrentIsPending, Worker
<1>16. WorkersKeepToTheirPart'
  <2>1. \A v \in Round : RoundWorks(v)'
    <3> SUFFICES ASSUME NEW v \in Round, Busy(v)'
                 PROVE  RoundWorks(v)'
      BY DEF RoundWorks
    <3>1. work'[v] = work[v] /\ RoundWorks(v)
      BY <1>1, <1>2 DEF IInv, RoundInv, WorkersKeepToTheirPart, Worker
    <3>2. work[v].id < nextId' \/ work[v].id \notin RowId \/ ~(work[v].id < nextId)
      BY <1>6, <1>11 DEF RowId
    <3> QED
      BY <3>1, <3>2, <1>6 DEF RoundWorks
  <2>2. \A v \in Request : RequestWorks(v)'
    BY <1>1, <1>2, <1>3 DEF IInv, RoundInv, WorkersKeepToTheirPart, RequestWorks, Worker
  <2> QED
    BY <2>1, <2>2 DEF WorkersKeepToTheirPart
<1>17. OneRound'
  BY <1>1, <1>2, <1>6 DEF IInv, RoundInv, OneRound, Worker
<1> QED
  BY <1>2, <1>4, <1>8, <1>9, <1>12, <1>13, <1>14, <1>15, <1>16, <1>17, Together DEF RoundInv

(* The save and the applier.                                               *)
LEMMA ApplierStepInv ==
    ASSUME IInv, NEW w \in Worker,
           ReadLive(w) \/ SaveConfig(w) \/ SaveFails(w) \/ Activate(w) \/ ActivateFails(w) \/ Restore(w) \/ RestoreFails(w)
    PROVE  IInv'
<1>1. Busy(w) /\ work[w].pc \in {"read", "save", "activate", "restore"}
  BY DEF ReadLive, SaveConfig, SaveFails, Activate, ActivateFails, Restore, RestoreFails, Pc, Busy
<1>2. /\ rows' = rows /\ UNCHANGED <<kind, requests, faults, nextId, round, tries, raced, overlapped>>
      /\ UNCHANGED <<todo, running>>
  BY DEF ReadLive, SaveConfig, SaveFails, Activate, ActivateFails, Restore, RestoreFails, history, round
<1>3. work[w].pc = "read" => work[w].op \in {"due", "apply"}
  BY <1>1, WorkerFacts DEF IInv, RoundInv, WorkersKeepToTheirPart, RequestWorks
<1>4. done \subseteq done' /\ done' \subseteq RowId
  BY <1>1, <1>3, WorkerFacts DEF ReadLive, SaveConfig, SaveFails, Activate, ActivateFails, Restore, RestoreFails, Pc, history, IInv, TypeOK
<1>5. live' \in [Entity -> Config \union {Gone}] /\ listener' \in [Entity -> Config \union {Gone}]
  BY <1>1, WorkerFacts DEF ReadLive, SaveConfig, SaveFails, Activate, ActivateFails, Restore, RestoreFails, Saved, IInv, TypeOK
<1>15. stranded' \subseteq Entity
  BY <1>1, WorkerFacts DEF ReadLive, SaveConfig, SaveFails, Activate, ActivateFails, Restore, RestoreFails, history, IInv, TypeOK
<1>6. TablesType' /\ RoundType' /\ CountersType'
  BY <1>2, <1>4, <1>5, <1>15, SameTables DEF IInv, TypeOK
<1>7. ASSUME (AfterSuccess(w) /\ (work[w].op = "due" => work[w].id \in done')) \/ AfterFailure(w)
      PROVE  IInv'
  BY <1>1, <1>2, <1>4, <1>6, <1>7, AfterSave, Together
<1>8. ASSUME NEW pc \in {"save", "activate", "restore"}, Becomes(w, pc) \/ Sees(w, pc)
      PROVE  IInv'
  BY <1>1, <1>2, <1>4, <1>6, <1>8, WorkerFacts, GoesOn, Together DEF IInv, RoundPc, RequestPc
<1>9. CASE ReadLive(w)
  <2>1. CASE live[work[w].entity] = Gone
    BY <1>7, <1>9, <2>1 DEF ReadLive
  <2>2. CASE live[work[w].entity] # Gone
    <3>1. live[work[w].entity] \in Config
      BY <1>1, <2>2, WorkerFacts DEF IInv, TypeOK
    <3>2. Sees(w, "save")
      BY <1>9, <2>2, <3>1 DEF ReadLive, Sees
    <3> QED
      BY <3>2, <1>8
  <2> QED
    BY <2>1, <2>2
<1>10. CASE SaveConfig(w)
  <2>1. CASE kind[work[w].entity] = "site" /\ work[w].op = "schedule"
    BY <1>7, <1>10, <2>1 DEF SaveConfig
  <2>2. CASE ~(kind[work[w].entity] = "site" /\ work[w].op = "schedule")
    BY <1>8, <1>10, <2>2 DEF SaveConfig
  <2> QED
    BY <2>1, <2>2
<1>11. CASE SaveFails(w)
  BY <1>7, <1>11 DEF SaveFails
<1>12. CASE Activate(w)
  BY <1>7, <1>12 DEF Activate
<1>13. CASE ActivateFails(w)
  BY <1>7, <1>8, <1>13 DEF ActivateFails
<1>14. CASE Restore(w) \/ RestoreFails(w)
  BY <1>7, <1>14 DEF Restore, RestoreFails
<1> QED
  BY <1>9, <1>10, <1>11, <1>12, <1>13, <1>14

(***************************************************************************)
(* The round                                                               *)
(***************************************************************************)

(* What updatePendingChangeStatus does to the table.                       *)
LEMMA StatusWritten ==
    ASSUME rows \subseteq Row, \A r, s \in rows : r.id = s.id => r = s,
           NEW id \in RowId, NEW status \in {"pending", "applied", "failed"}, NEW attempts \in 0..MaxAttempts,
           NEW due \in BOOLEAN, UpdateStatus(id, status, attempts, due)
    PROVE  /\ rows' \subseteq Row
           /\ \A r, s \in rows' : r.id = s.id => r = s
           /\ \A s \in rows' : \E r \in rows :
                 /\ s.id = r.id /\ s.entity = r.entity
                 /\ IF r.id = id THEN s.status = status /\ s.attempts = attempts ELSE s = r
<1> DEFINE f(r) == IF r.id = id THEN [r EXCEPT !.status = status, !.attempts = attempts, !.due = due] ELSE r
<1>1. rows' = {f(r) : r \in rows}
  BY DEF UpdateStatus
<1>2. ASSUME NEW r \in rows
      PROVE  /\ f(r) \in Row /\ f(r).id = r.id
             /\ f(r).entity = r.entity
             /\ IF r.id = id THEN f(r).status = status /\ f(r).attempts = attempts ELSE f(r) = r
  BY DEF Row
<1> HIDE DEF f
<1> QED
  BY <1>1, <1>2

(* Only a call of the interval timer is inside the round.                  *)
LEMMA InRound ==
    ASSUME IInv, NEW w \in Worker, work[w].pc \in {"pick", "record", "retry"}
    PROVE  /\ w \in Round /\ w \notin Request /\ running
           /\ \A v \in Round \ {w} : work[v].pc = "idle"
<1>1. w \in Round /\ w \notin Request
  BY DistinctParts DEF IInv, RoundInv, WorkersKeepToTheirPart, RequestWorks, RequestPc, Busy, Worker
<1> QED
  BY <1>1 DEF IInv, RoundInv, OneRound

(* The call goes back to the loop with the status of its row decided.      *)
LEMMA DecidedInv ==
    ASSUME IInv, NEW w \in Worker, Busy(w), w \in Round, BackToPick(w),
           NEW status \in {"pending", "applied", "failed"}, NEW attempts \in 0..MaxAttempts, NEW due \in BOOLEAN,
           UpdateStatus(work[w].id, status, attempts, due),
           attempts <= tries[work[w].id],
           status = "pending" => attempts < MaxAttempts,
           status = "applied" => work[w].id \in done,
           status = "failed" => tries[work[w].id] >= MaxAttempts,
           UNCHANGED <<kind, requests, live, listener, nextId, round, faults, history>>
    PROVE  IInv'
<1> USE DEF Busy
<1>1. WorkType' /\ work'[w].pc = "pick" /\ \A v \in Worker \ {w} : work'[v] = work[v]
  BY SetWork, Shapes DEF IInv, TypeOK, WorkType, BackToPick
<1>2. /\ rows' \subseteq Row
      /\ \A r, s \in rows' : r.id = s.id => r = s
      /\ \A s \in rows' : \E r \in rows :
            /\ s.id = r.id
            /\ IF r.id = work[w].id THEN s.status = status /\ s.attempts = attempts ELSE s = r
  <2>1. rows \subseteq Row /\ \A r, s \in rows : r.id = s.id => r = s
    BY DEF IInv, TypeOK
  <2>2. work[w].id \in RowId
    BY WorkerFacts
  <2> QED
    BY <2>1, <2>2, StatusWritten
<1>3. UNCHANGED <<kind, requests, live, listener, nextId, todo, running, faults, tries, done, raced, overlapped, stranded>>
  BY DEF round, history
<1>4. TablesType' /\ RoundType' /\ CountersType'
  BY <1>2, <1>3 DEF IInv, TypeOK, TablesType, RoundType, CountersType
<1>5. w \notin Request /\ running /\ work[w].pc # "idle" /\ \A v \in Round \ {w} : work[v].pc = "idle"
  BY WorkerFacts DEF IInv, RoundInv, OneRound
<1>6. WorkersKeepToTheirPart'
  BY <1>1, <1>3, <1>5 DEF IInv, RoundInv, WorkersKeepToTheirPart, RoundWorks, RequestWorks, Worker
<1>7. OneRound'
  BY <1>1, <1>3, <1>5 DEF IInv, RoundInv, OneRound, Worker
<1>8. TodoIsPending'
  BY <1>2, <1>3 DEF IInv, RoundInv, TodoIsPending, CurrentIsPending
<1>9. CurrentIsPending'
  BY <1>1, <1>5 DEF CurrentIsPending, Worker
<1>10. RowsAreCounted'
  BY <1>2, <1>3 DEF IInv, RoundInv, RowsAreCounted
<1>11. OutcomesAreTrue'
  BY <1>2, <1>3 DEF IInv, RoundInv, OutcomesAreTrue
<1>12. Scheduling' \subseteq Scheduling
  BY <1>1, <1>5 DEF Scheduling, Worker
<1> QED
  BY <1>1, <1>3, <1>4, <1>6, <1>7, <1>8, <1>9, <1>10, <1>11, <1>12, FewerSchedules, NextIdNat, Together DEF IInv, RoundInv

LEMMA RecordInv == ASSUME IInv, NEW w \in Worker, RecordApplied(w) \/ Retry(w) PROVE IInv'
<1> USE DEF Busy
<1>1. Busy(w) /\ w \in Round
  BY InRound DEF RecordApplied, Retry, Pc
<1>2. /\ work[w].id \in RowId /\ work[w].attempts \in Nat /\ work[w].attempts < MaxAttempts
      /\ tries[work[w].id] \in Nat /\ work[w].attempts < tries[work[w].id]
      /\ work[w].pc = "record" => work[w].id \in done
  BY <1>1, BusyWork, AttemptsPositive DEF IInv, TypeOK, WorkType, RoundInv, WorkersKeepToTheirPart, RoundWorks, Work
<1>3. CASE RecordApplied(w)
  <2>1. work[w].attempts \in 0..MaxAttempts /\ work[w].attempts <= tries[work[w].id] /\ work[w].id \in done
    BY <1>2, <1>3, AttemptsPositive DEF RecordApplied, Pc
  <2>2. UpdateStatus(work[w].id, "applied", work[w].attempts, TRUE)
    BY <1>3 DEF RecordApplied
  <2>3. BackToPick(w) /\ UNCHANGED <<kind, requests, live, listener, nextId, round, faults, history>>
    BY <1>3 DEF RecordApplied
  <2> QED
    BY <1>1, <2>1, <2>2, <2>3, DecidedInv
<1>4. CASE Retry(w)
  <2>1. Attempts(w) \in 0..MaxAttempts /\ Attempts(w) <= tries[work[w].id]
    BY <1>2, AttemptsPositive DEF Attempts
  <2>2. BackToPick(w) /\ UNCHANGED <<kind, requests, live, listener, nextId, round, faults, history>>
    BY <1>4 DEF Retry
  <2>3. CASE GivesUp(w)
    <3>1. UpdateStatus(work[w].id, "failed", Attempts(w), TRUE)
      BY <1>4, <2>3 DEF Retry
    <3>2. tries[work[w].id] >= MaxAttempts
      BY <1>2, <2>1, <2>3, AttemptsPositive DEF GivesUp
    <3> QED
      BY <1>1, <2>1, <2>2, <3>1, <3>2, DecidedInv
  <2>4. CASE ~GivesUp(w)
    <3>1. UpdateStatus(work[w].id, "pending", Attempts(w), FALSE)
      BY <1>4, <2>4 DEF Retry
    <3>2. Attempts(w) < MaxAttempts
      BY <2>1, <2>4, AttemptsPositive DEF GivesUp
    <3> QED
      BY <1>1, <2>1, <2>2, <3>1, <3>2, DecidedInv
  <2> QED
    BY <2>3, <2>4
<1> QED
  BY <1>3, <1>4

LEMMA RecordFailsInv == ASSUME IInv, NEW w \in Worker, RecordFails(w) PROVE IInv'
<1>1. Busy(w) /\ w \in Round /\ w \notin Request
  BY InRound DEF RecordFails, Pc, Busy
<1>2. /\ faults' \in Nat /\ rows' = rows
      /\ UNCHANGED <<kind, requests, live, listener, nextId, round, todo, running, tries, done, raced, overlapped, stranded>>
  BY DEF RecordFails, IInv, TypeOK, round, history
<1>3. TablesType' /\ RoundType' /\ CountersType'
  BY <1>2, SameTables DEF IInv, TypeOK
<1> QED
  BY <1>1, <1>2, <1>3, GoesOn, Together DEF RecordFails, IInv, RoundPc

(* A call that leaves the round leaves nothing behind.                     *)
LEMMA RoundOver ==
    ASSUME IInv, NEW w \in Worker, (Pc(w, "pick") /\ todo = {}) \/ Pc(w, "retry"),
           Ends(w), ~running', todo' = {}, running' \in BOOLEAN, faults' \in Nat,
           UNCHANGED <<kind, requests, live, listener, rows, nextId, history>>
    PROVE  IInv'
<1> USE DEF Busy
<1>1. w \in Round /\ w \notin Request /\ \A v \in Round \ {w} : work[v].pc = "idle"
  BY InRound DEF Pc
<1>2. WorkType' /\ work'[w].pc = "idle" /\ \A v \in Worker \ {w} : work'[v] = work[v]
  BY SetWork, Shapes DEF IInv, TypeOK, WorkType, Ends
<1>3. UNCHANGED <<tries, done, raced, overlapped, stranded>>
  BY DEF history
<1>4. TablesType' /\ RoundType' /\ CountersType'
  BY <1>3 DEF IInv, TypeOK, TablesType, RoundType, CountersType
<1>5. WorkersKeepToTheirPart'
  BY <1>1, <1>2, <1>3 DEF IInv, RoundInv, WorkersKeepToTheirPart, RoundWorks, RequestWorks, Worker
<1>6. OneRound' /\ TodoIsPending' /\ CurrentIsPending'
  BY <1>1, <1>2 DEF OneRound, TodoIsPending, CurrentIsPending, Worker
<1>7. RowsAreCounted' /\ OutcomesAreTrue'
  BY <1>3 DEF IInv, RoundInv, RowsAreCounted, OutcomesAreTrue
<1>8. Scheduling' \subseteq Scheduling
  BY <1>1, <1>2 DEF Scheduling, Worker
<1> QED
  BY <1>2, <1>4, <1>5, <1>6, <1>7, <1>8, FewerSchedules, NextIdNat, Together DEF IInv, RoundInv

LEMMA EndRoundInv == ASSUME IInv, NEW w \in Worker, EndRound(w) \/ RetryFails(w) PROVE IInv'
<1>1. CASE EndRound(w)
  <2>1. Pc(w, "pick") /\ todo = {} /\ Ends(w) /\ running' = FALSE /\ todo' = {} /\ faults' \in Nat
        /\ UNCHANGED <<kind, requests, live, listener, rows, nextId, history>>
    BY <1>1 DEF EndRound, IInv, TypeOK
  <2> QED
    BY <2>1, RoundOver
<1>2. CASE RetryFails(w)
  <2>1. Pc(w, "retry") /\ Ends(w) /\ running' = FALSE /\ todo' = {} /\ faults' \in Nat
        /\ UNCHANGED <<kind, requests, live, listener, rows, nextId, history>>
    BY <1>2 DEF RetryFails, IInv, TypeOK
  <2> QED
    BY <2>1, RoundOver
<1> QED
  BY <1>1, <1>2

LEMMA StartRoundInv == ASSUME IInv, NEW w \in Worker, StartRound(w) PROVE IInv'
<1> USE DEF Busy
<1>1. w \in Round /\ w \notin Request /\ work[w].pc = "idle" /\ ~running
  BY DistinctParts DEF StartRound, Pc
<1>2. WorkType' /\ work'[w].pc = "pick" /\ \A v \in Worker \ {w} : work'[v] = work[v]
  <2>1. work[w] = Idle
    BY <1>1 DEF IInv, TypeOK, Work
  <2>2. [work[w] EXCEPT !.pc = "pick"] = [pc |-> "pick"]
    BY <2>1 DEF Idle
  <2>3. work' = [work EXCEPT ![w] = [work[w] EXCEPT !.pc = "pick"]]
    BY DEF StartRound, Becomes
  <2>4. work' = [work EXCEPT ![w] = [pc |-> "pick"]]
    BY <2>2, <2>3
  <2> QED
    BY <2>4, SetWork, Shapes DEF IInv, TypeOK, WorkType
<1>3. /\ running' = TRUE /\ todo' = {r \in rows : r.status = "pending" /\ r.due}
      /\ UNCHANGED <<kind, requests, live, listener, rows, nextId, faults, tries, done, raced, overlapped, stranded>>
  BY DEF StartRound, DueRows, history
<1>4. TablesType' /\ RoundType' /\ CountersType'
  BY <1>3 DEF IInv, TypeOK, TablesType, RoundType, CountersType
<1>5. \A v \in Round : v # w => work[v].pc = "idle"
  BY <1>1 DEF IInv, RoundInv, OneRound
<1>6. WorkersKeepToTheirPart'
  BY <1>1, <1>2, <1>3 DEF IInv, RoundInv, WorkersKeepToTheirPart, RoundWorks, RequestWorks, Worker
<1>7. OneRound' /\ CurrentIsPending'
  BY <1>1, <1>2, <1>3, <1>5 DEF OneRound, CurrentIsPending, Worker
<1>8. TodoIsPending' /\ RowsAreCounted' /\ OutcomesAreTrue'
  BY <1>3 DEF IInv, TypeOK, RoundInv, TodoIsPending, RowsAreCounted, OutcomesAreTrue
<1>9. Scheduling' \subseteq Scheduling
  BY <1>1, <1>2 DEF Scheduling, Worker
<1> QED
  BY <1>2, <1>3, <1>4, <1>6, <1>7, <1>8, <1>9, FewerSchedules, NextIdNat, Together DEF IInv, RoundInv

LEMMA PickRowInv == ASSUME IInv, NEW w \in Worker, PickRow(w) PROVE IInv'
<1> USE DEF Busy
<1>1. w \in Round /\ w \notin Request /\ running /\ work[w].pc = "pick" /\ \A v \in Round \ {w} : work[v].pc = "idle"
  BY InRound DEF PickRow, Pc
<1>2. PICK r \in todo :
         /\ todo' = todo \ {r}
         /\ Begin(w, "read", "due", r.entity, r, r.change, r.change)
         /\ tries' = [tries EXCEPT ![r.id] = IF @ < MaxAttempts THEN @ + 1 ELSE @]
         /\ Overlap(r.entity)
  BY DEF PickRow
<1>3. UNCHANGED <<kind, requests, live, listener, rows, nextId, running, faults, done, raced, stranded>>
  BY DEF PickRow
<1>4. /\ r \in Row /\ r.id < nextId /\ r.attempts < MaxAttempts /\ r.attempts <= tries[r.id]
      /\ r.id \in RowId /\ r.attempts \in 0..MaxAttempts /\ r.entity \in Entity /\ r.change \in Config
      /\ \A t \in todo : r.id = t.id => r = t
      /\ \A q \in rows : q.id = r.id => q.status = "pending"
  BY <1>2 DEF IInv, TypeOK, RoundInv, TodoIsPending, Row
<1> DEFINE x == Started("read", "due", r.entity, r.id, r.attempts, r.change, r.change, r.change)
<1>5. x \in Work /\ x.pc = "read" /\ x.op = "due" /\ x.id = r.id /\ x.attempts = r.attempts
  BY <1>4 DEF Work, Started
<1>6. work' = [work EXCEPT ![w] = x]
  BY <1>2 DEF Begin, Started
<1> HIDE DEF x
<1>7. WorkType' /\ work'[w] = x /\ \A v \in Worker \ {w} : work'[v] = work[v]
  BY <1>5, <1>6, SetWork DEF IInv, TypeOK, WorkType
<1>8. /\ tries' \in [RowId -> 0..MaxAttempts] /\ r.attempts < tries'[r.id]
      /\ \A id \in RowId : tries[id] <= tries'[id]
  BY <1>2, <1>4, AttemptsPositive DEF IInv, TypeOK
<1>9. TablesType' /\ RoundType' /\ CountersType'
  BY <1>2, <1>3, <1>4, <1>8, OverlapType DEF IInv, TypeOK, TablesType, RoundType, CountersType
<1>10. WorkersKeepToTheirPart'
  <2>1. RoundWorks(w)'
    BY <1>3, <1>4, <1>5, <1>7, <1>8 DEF RoundWorks, RoundPc
  <2>2. \A v \in Round \ {w} : RoundWorks(v)'
    BY <1>1, <1>7 DEF RoundWorks, Worker
  <2>3. \A v \in Request : RequestWorks(v)'
    BY <1>1, <1>7 DEF IInv, RoundInv, WorkersKeepToTheirPart, RequestWorks, Worker
  <2> QED
    BY <2>1, <2>2, <2>3 DEF WorkersKeepToTheirPart
<1>11. OneRound'
  BY <1>1, <1>3, <1>5, <1>7 DEF OneRound, Worker
<1>12. \A q \in rows \union todo : q.id \in RowId /\ q.attempts \in 0..MaxAttempts /\ tries[q.id] \in 0..MaxAttempts /\ tries'[q.id] \in 0..MaxAttempts
  BY <1>8 DEF IInv, TypeOK, Row
<1>13. \A q \in rows \union todo : q.attempts <= tries[q.id] => q.attempts <= tries'[q.id]
  BY <1>8, <1>12, AttemptsPositive
<1>14. TodoIsPending'
  BY <1>2, <1>3, <1>13 DEF IInv, RoundInv, TodoIsPending
<1>15. CurrentIsPending'
  BY <1>1, <1>2, <1>3, <1>4, <1>5, <1>7 DEF CurrentIsPending, Worker
<1>16. RowsAreCounted'
  BY <1>3, <1>13 DEF IInv, RoundInv, RowsAreCounted
<1>17. OutcomesAreTrue'
  BY <1>3, <1>8, <1>12, AttemptsPositive DEF IInv, RoundInv, OutcomesAreTrue
<1>18. Scheduling' \subseteq Scheduling
  BY <1>1, <1>7 DEF Scheduling, Worker
<1> QED
  BY <1>3, <1>7, <1>9, <1>10, <1>11, <1>14, <1>15, <1>16, <1>17, <1>18, FewerSchedules, NextIdNat, Together DEF IInv, RoundInv

LEMMA ComesDueInv == ASSUME IInv, NEW r \in rows, ComesDue(r) PROVE IInv'
<1> DEFINE d == [r EXCEPT !.due = TRUE]
<1>1. r \in Row /\ d \in Row /\ d.id = r.id /\ d.status = r.status /\ d.attempts = r.attempts
  BY DEF IInv, TypeOK, Row
<1>2. /\ rows' = (rows \ {r}) \union {d}
      /\ UNCHANGED <<kind, requests, live, listener, nextId, work, todo, running, faults, tries, done, raced, overlapped, stranded>>
  BY DEF ComesDue, round, history
<1> HIDE DEF d
<1>3. \A s \in rows' : s \in rows \/ s = d
  BY <1>2
<1>4. TablesType' /\ RoundType' /\ CountersType' /\ WorkType'
  BY <1>1, <1>2 DEF IInv, TypeOK, TablesType, RoundType, CountersType, WorkType
<1>5. WorkersKeepToTheirPart' /\ OneRound'
  BY <1>2 DEF IInv, RoundInv, WorkersKeepToTheirPart, RoundWorks, RequestWorks, OneRound, Busy
<1>6. TodoIsPending' /\ CurrentIsPending'
  BY <1>1, <1>2, <1>3 DEF IInv, RoundInv, TodoIsPending, CurrentIsPending, Busy
<1>7. RowsAreCounted' /\ OutcomesAreTrue'
  BY <1>1, <1>2, <1>3 DEF IInv, RoundInv, RowsAreCounted, OutcomesAreTrue
<1>8. Scheduling' \subseteq Scheduling
  BY <1>2 DEF Scheduling
<1> QED
  BY <1>2, <1>4, <1>5, <1>6, <1>7, <1>8, FewerSchedules, NextIdNat, Together DEF IInv, RoundInv

LEMMA CrashInv == ASSUME IInv, Crash PROVE IInv'
<1> USE DEF Busy
<1>1. /\ work' = [w \in Worker |-> Idle] /\ running' = FALSE /\ todo' = {} /\ faults' \in Nat
      /\ stranded' = {} /\ UNCHANGED <<kind, requests, live, rows, nextId, tries, done, raced, overlapped>>
  BY DEF Crash, IInv, TypeOK, history
<1>2. listener' \in [Entity -> Config \union {Gone}]
  BY DEF Crash, ListenersOf, IInv, TypeOK
<1>3. WorkType' /\ \A w \in Worker : work'[w].pc = "idle"
  BY <1>1, Shapes DEF WorkType
<1>4. TablesType' /\ RoundType' /\ CountersType'
  BY <1>1, <1>2 DEF IInv, TypeOK, TablesType, RoundType, CountersType
<1>5. WorkersKeepToTheirPart' /\ OneRound' /\ TodoIsPending' /\ CurrentIsPending'
  BY <1>1, <1>3 DEF WorkersKeepToTheirPart, RoundWorks, RequestWorks, OneRound, TodoIsPending, CurrentIsPending, Worker
<1>6. RowsAreCounted' /\ OutcomesAreTrue'
  BY <1>1 DEF IInv, RoundInv, RowsAreCounted, OutcomesAreTrue
<1>7. Scheduling' \subseteq Scheduling
  BY <1>3 DEF Scheduling, Worker
<1> QED
  BY <1>1, <1>3, <1>4, <1>5, <1>6, <1>7, FewerSchedules, NextIdNat, Together DEF IInv, RoundInv

LEMMA InitIInv == Init => IInv
<1> SUFFICES ASSUME Init PROVE IInv
  OBVIOUS
<1>1. TypeOK
  <2>1. TablesType
    BY BoundsAreNat DEF Init, TablesType, ListenersOf
  <2>2. WorkType /\ RoundType
    BY DEF Init, WorkType, RoundType
  <2>3. CountersType
    BY BoundsAreNat, AttemptsPositive DEF Init, CountersType
  <2> QED
    BY <2>1, <2>2, <2>3, TypeParts
<1>2. \A w \in Worker : work[w].pc = "idle"
  BY Shapes DEF Init
<1>3. WorkersKeepToTheirPart /\ OneRound /\ TodoIsPending /\ CurrentIsPending /\ RowsAreCounted /\ OutcomesAreTrue
  BY <1>2 DEF Init, WorkersKeepToTheirPart, RoundWorks, RequestWorks, OneRound, TodoIsPending, CurrentIsPending,
              RowsAreCounted, OutcomesAreTrue, Busy, Worker
<1>4. Scheduling = {}
  BY <1>2 DEF Scheduling, Worker
<1>5. IdsSuffice
  BY <1>4, FS_EmptySet, BoundsAreNat DEF Init, IdsSuffice
<1> QED
  BY <1>1, <1>3, <1>5 DEF IInv, RoundInv

LEMMA NextIInv == IInv /\ [Next]_vars => IInv'
<1> SUFFICES ASSUME IInv, [Next]_vars PROVE IInv'
  OBVIOUS
<1>1. CASE UNCHANGED vars
  <2>1. UNCHANGED <<kind, requests, live, listener, rows, nextId, work, todo, running, faults, tries, done, raced, overlapped, stranded>>
    BY <1>1 DEF vars, round, history
  <2>2. TypeOK'
    BY <2>1 DEF IInv, TypeOK
  <2>3. RoundInv'
    BY <2>1 DEF IInv, RoundInv, WorkersKeepToTheirPart, RoundWorks, RequestWorks, OneRound, TodoIsPending,
                CurrentIsPending, RowsAreCounted, OutcomesAreTrue, Busy
  <2>4. Scheduling' \subseteq Scheduling
    BY <2>1 DEF Scheduling
  <2> QED
    BY <2>1, <2>2, <2>3, <2>4, FewerSchedules, NextIdNat DEF IInv
<1>2. ASSUME NEW w \in Request, NEW e \in Entity,
             \/ \E c \in Config : SaveNow(w, e, c) \/ SaveScheduled(w, e, c)
             \/ \E op \in {"apply", "cancel"} : FindChange(w, op, e)
             \/ RemoveEntity(w, e)
      PROVE  IInv'
  BY <1>2, SaveNowInv, SaveScheduledInv, FindChangeInv, RemoveEntityInv
<1>3. ASSUME NEW w \in Worker, WorkStep(w) PROVE IInv'
  BY <1>3, RouteStepInv, InsertChangeInv, ApplierStepInv, PickRowInv, EndRoundInv, RecordInv, RecordFailsInv DEF WorkStep
<1>4. ASSUME NEW w \in Worker, StartRound(w) PROVE IInv'
  BY <1>4, StartRoundInv
<1>5. ASSUME NEW r \in rows, ComesDue(r) PROVE IInv'
  BY <1>5, ComesDueInv
<1>6. CASE Crash
  BY <1>6, CrashInv
<1> QED
  BY <1>1, <1>2, <1>3, <1>4, <1>5, <1>6 DEF Next

(* The inductive invariant holds in every reachable state: calls of        *)
(* applyDuePendingChanges take turns, and what a round has read is still   *)
(* pending, or gone, when the round records its outcome.                   *)
THEOREM Invariance == Spec => []IInv
  BY InitIInv, NextIInv, PTL DEF Spec

(* Rows, listeners, workers and counters keep their types; in particular   *)
(* no row is ever recorded with more attempts than MaxAttempts.            *)
THEOREM TypeCorrect == Spec => []TypeOK
<1>1. IInv => TypeOK
  BY DEF IInv
<1> QED
  BY <1>1, Invariance, PTL

(* applyDuePendingChanges records an outcome only when it has happened: an *)
(* applied change has been applied, a failed one was tried MaxAttempts     *)
(* times, whatever crashes, cancels and failing writes come in between.    *)
THEOREM OutcomesHold == Spec => []OutcomesAreTrue
<1>1. IInv => OutcomesAreTrue
  BY DEF IInv, RoundInv
<1> QED
  BY <1>1, Invariance, PTL

(* updatePendingChangeStatus never takes back an applied change: a round   *)
(* writes only rows that are pending, and ids are not used again.          *)
THEOREM AppliedStays == Spec => AppliedIsFinal
<1>1. IInv /\ IInv' /\ [Next]_vars =>
        [\A r \in rows, s \in rows' : r.id = s.id /\ r.status = "applied" => s.status = "applied"]_vars
  <2> SUFFICES ASSUME IInv, IInv', Next, NEW r \in rows, NEW s \in rows', r.id = s.id, r.status = "applied"
               PROVE  s.status = "applied"
    OBVIOUS
  <2>1. \A q \in rows : q.id = r.id => q = r
    BY DEF IInv, TypeOK
  <2>2. CASE s \in rows
    BY <2>1, <2>2
  <2>3. CASE s \notin rows
    <3>1. ASSUME NEW w \in Worker, InsertChange(w) PROVE FALSE
      <4>1. s.id = nextId
        BY <3>1, <2>3 DEF InsertChange
      <4>2. r.id \in Nat /\ nextId \in Nat /\ r.id < nextId
        BY NextIdNat DEF IInv, TypeOK, Row, RowId, RoundInv, RowsAreCounted
      <4> QED
        BY <4>1, <4>2
    <3>2. ASSUME NEW w \in Worker, RecordApplied(w) \/ Retry(w) PROVE FALSE
      <4>1. w \in Round /\ Busy(w)
        BY <3>2, InRound DEF RecordApplied, Retry, Pc, Busy
      <4>2. r.id # work[w].id
        BY <4>1 DEF IInv, RoundInv, CurrentIsPending
      <4>3. PICK status, attempts, due : UpdateStatus(work[w].id, status, attempts, due)
        BY <3>2 DEF RecordApplied, Retry
      <4>4. PICK q \in rows : s = IF q.id = work[w].id THEN [q EXCEPT !.status = status, !.attempts = attempts, !.due = due] ELSE q
        BY <4>3 DEF UpdateStatus
      <4>5. q.id = work[w].id
        BY <4>4, <2>3
      <4>6. s.id = q.id
        BY <4>4, <4>5 DEF IInv, TypeOK, Row
      <4> QED
        BY <4>2, <4>5, <4>6
    <3>3. ASSUME NEW q \in rows, ComesDue(q) PROVE FALSE
      <4>1. s = [q EXCEPT !.due = TRUE] /\ q \in Row /\ q.status = "pending"
        BY <3>3, <2>3 DEF ComesDue, IInv, TypeOK
      <4>2. s.id = q.id
        BY <4>1 DEF Row
      <4> QED
        BY <4>1, <4>2, <2>1
    <3> QED
      BY ZenonT(60), <2>3, <3>1, <3>2, <3>3 DEF Next, WorkStep, SaveNow, SaveScheduled, FindChange, RemoveEntity, CheckSlot, ClearFailed,
            LoadChange, DeleteChange, DropEntity, ReadLive, SaveConfig, SaveFails, Activate, ActivateFails, Restore, RestoreFails,
            StartRound, PickRow, EndRound, RecordFails, RetryFails, Crash
  <2> QED
    BY <2>2, <2>3
<1> QED
  BY <1>1, Invariance, PTL DEF Spec, AppliedIsFinal

(***************************************************************************)
(* One change per entity                                                   *)
(***************************************************************************)

(* w is saving e with a schedule.                                          *)
SchedulingFor(w, e) == w \in Scheduling /\ work[w].entity = e

(* The slot of e: until two saves with a schedule meet, at most one is     *)
(* under way; once it has found the slot free no pending change appears,   *)
(* and once it has cleared the failed changes none is left to insert next  *)
(* to.                                                                     *)
SlotInv(e) ==
    e \notin raced =>
        /\ \A v, w \in Request : SchedulingFor(v, e) /\ SchedulingFor(w, e) => v = w
        /\ \A r, s \in rows : r.entity = e /\ s.entity = e /\ "applied" \notin {r.status, s.status} => r = s
        /\ \A w \in Request : SchedulingFor(w, e) =>
              \A r \in rows : r.entity = e =>
                  /\ work[w].pc # "check" => r.status # "pending"
                  /\ work[w].pc = "insert" => r.status # "failed"

(* No save with a schedule begins, passes its check or clears the slot,    *)
(* and an open change comes from an open one: from a pending one, if it is *)
(* pending.                                                                *)
LEMMA SlotKept ==
    ASSUME IInv, IInv', NEW e \in Entity, SlotInv(e), raced \subseteq raced',
           \A v \in Request : SchedulingFor(v, e)' =>
               /\ SchedulingFor(v, e)
               /\ work[v].pc = "check" => work'[v].pc = "check"
               /\ work'[v].pc = "insert" => work[v].pc = "insert",
           \A s \in rows' : s.status # "applied" =>
               \E r \in rows : r.id = s.id /\ r.entity = s.entity /\ r.status \in {"pending", s.status}
    PROVE  SlotInv(e)'
<1> SUFFICES ASSUME e \notin raced' PROVE SlotInv(e)'
  BY DEF SlotInv
<1>1. \A v, w \in Request : SchedulingFor(v, e)' /\ SchedulingFor(w, e)' => v = w
  BY DEF SlotInv
<1>2. ASSUME NEW r \in rows', NEW s \in rows', r.entity = e, s.entity = e, "applied" \notin {r.status, s.status}
      PROVE  r = s
  <2>1. PICK q \in rows : q.id = r.id /\ q.entity = e /\ q.status \in {"pending", r.status}
    BY <1>2
  <2>2. PICK t \in rows : t.id = s.id /\ t.entity = e /\ t.status \in {"pending", s.status}
    BY <1>2
  <2>3. q = t
    BY <1>2, <2>1, <2>2 DEF SlotInv
  <2> QED
    BY <2>1, <2>2, <2>3 DEF IInv, TypeOK
<1>3. ASSUME NEW w \in Request, SchedulingFor(w, e)', NEW s \in rows', s.entity = e
      PROVE  /\ work'[w].pc # "check" => s.status # "pending"
             /\ work'[w].pc = "insert" => s.status # "failed"
  <2>1. CASE s.status = "applied"
    BY <2>1
  <2>2. CASE s.status # "applied"
    <3>1. PICK r \in rows : r.entity = e /\ r.status \in {"pending", s.status}
      BY <1>3, <2>2
    <3> QED
      BY <1>3, <3>1 DEF SlotInv
  <2> QED
    BY <2>1, <2>2
<1> QED
  BY <1>1, <1>2, <1>3 DEF SlotInv

(* A step that leaves the requests alone, or in which one of them, not at  *)
(* its check, goes on other than to the insertion, or stops.               *)
LEMMA SlotGoesOn ==
    ASSUME IInv, IInv', NEW w \in Worker, \A v \in Worker \ {w} : work'[v] = work[v],
           w \in Request => \/ work'[w].pc = "idle" \/ work'[w].op # "schedule"
                            \/ /\ Busy(w) /\ work'[w].op = work[w].op /\ work'[w].entity = work[w].entity
                               /\ work[w].pc # "check" /\ work'[w].pc # "insert",
           raced' = raced, rows' \subseteq rows,
           NEW e \in Entity, SlotInv(e)
    PROVE  SlotInv(e)'
<1>1. \A v \in Request : SchedulingFor(v, e)' =>
         /\ SchedulingFor(v, e)
         /\ work[v].pc = "check" => work'[v].pc = "check"
         /\ work'[v].pc = "insert" => work[v].pc = "insert"
  BY DEF SchedulingFor, Scheduling, Worker, Busy
<1> QED
  BY <1>1, SlotKept

LEMMA SaveScheduledSlot ==
    ASSUME IInv, IInv', NEW w \in Request, NEW f \in Entity, NEW c \in Config, SaveScheduled(w, f, c),
           NEW e \in Entity, SlotInv(e)
    PROVE  SlotInv(e)'
<1> DEFINE x == Started("check", "schedule", f, 0, 0, live[f], c, live[f])
<1>1. x.pc = "check" /\ x.op = "schedule" /\ x.entity = f
  BY DEF Started
<1>2. work'[w] = x /\ (\A v \in Worker \ {w} : work'[v] = work[v]) /\ rows' = rows
  BY DEF SaveScheduled, Started, Begin, NoRow, IInv, TypeOK, Worker
<1>3. raced' = IF \E v \in Writing(f) : work[v].op = "schedule" THEN raced \union {f} ELSE raced
  BY DEF SaveScheduled, Race
<1> HIDE DEF x
<1>4. CASE e # f
  <2>1. \A v \in Request : SchedulingFor(v, e)' => SchedulingFor(v, e) /\ work'[v].pc = work[v].pc
    BY <1>1, <1>2, <1>4 DEF SchedulingFor, Scheduling, Worker
  <2> QED
    BY <1>2, <1>3, <1>4, <2>1, SlotKept DEF IInv, TypeOK
<1>5. CASE e = f
  <2>1. SUFFICES ASSUME e \notin raced' PROVE SlotInv(e)'
    BY DEF SlotInv
  <2>2. e \notin raced /\ \A v \in Request : ~SchedulingFor(v, e)
    BY <1>3, <1>5, <2>1, WorkerFacts DEF SchedulingFor, Scheduling, Writing, Worker, Busy, IInv, RoundInv, WorkersKeepToTheirPart, RequestWorks
  <2>3. \A v \in Request : SchedulingFor(v, e)' => v = w /\ work'[v].pc = "check"
    BY <1>1, <1>2, <2>2 DEF SchedulingFor, Scheduling, Worker
  <2> QED
    BY <1>2, <2>2, <2>3 DEF SlotInv
<1> QED
  BY <1>4, <1>5

(* The save that finds the slot free, clears it, or fills it.              *)
LEMMA SlotSteps ==
    ASSUME IInv, IInv', NEW w \in Worker, CheckSlot(w) \/ ClearFailed(w) \/ InsertChange(w),
           NEW e \in Entity, SlotInv(e)
    PROVE  SlotInv(e)'
<1> DEFINE f == work[w].entity
<1>1. /\ Busy(w) /\ w \in Request /\ work[w] \in Work /\ f \in Entity /\ raced' = raced
      /\ work[w].pc \in {"clear", "insert"} => work[w].op = "schedule"
  <2>1. Busy(w) /\ work[w].pc \notin RoundPc
    BY DEF CheckSlot, ClearFailed, InsertChange, Pc, Busy, RoundPc
  <2>2. raced' = raced
    BY DEF CheckSlot, ClearFailed, InsertChange, history
  <2> QED
    BY <2>1, <2>2, WorkerFacts DEF IInv, RoundInv, WorkersKeepToTheirPart, RequestWorks
<1>2. ASSUME Ends(w) PROVE work'[w].pc = "idle" /\ \A v \in Worker \ {w} : work'[v] = work[v]
  BY <1>2, SetWork, Shapes DEF Ends, IInv, TypeOK, WorkType
<1>3. ASSUME NEW pc \in {"save", "insert"}, Becomes(w, pc)
      PROVE  /\ work'[w].pc = pc /\ work'[w].op = work[w].op /\ work'[w].entity = f
             /\ \A v \in Worker \ {w} : work'[v] = work[v]
  BY <1>1, <1>3, BecomesKeeps DEF IInv, TypeOK, WorkType, RequestPc
<1> HIDE DEF f
<1>4. CASE CheckSlot(w)
  <2>1. rows' = rows
    BY <1>4 DEF CheckSlot
  <2>2. CASE Ends(w)
    BY <1>1, <1>2, <2>1, <2>2, SlotGoesOn
  <2>3. CASE Becomes(w, "save") /\ ~\E r \in rows : r.entity = f /\ r.status = "pending"
    <3>1. \A v \in Request : SchedulingFor(v, e)' =>
             SchedulingFor(v, e) /\ (v # w => work'[v].pc = work[v].pc) /\ (v = w => e = f /\ work'[v].pc = "save")
      BY <1>1, <1>3, <2>3 DEF SchedulingFor, Scheduling, Worker, Busy, f
    <3> QED
      BY <1>1, <2>1, <2>3, <3>1 DEF SlotInv
  <2> QED
    BY <1>4, <2>2, <2>3 DEF CheckSlot, f
<1>5. CASE ClearFailed(w)
  <2>1. rows' = {r \in rows : ~(r.entity = f /\ r.status = "failed")} /\ Becomes(w, "insert") /\ work[w].pc = "clear"
    BY <1>5 DEF ClearFailed, Pc, f
  <2>2. \A v \in Request : SchedulingFor(v, e)' =>
           SchedulingFor(v, e) /\ (v # w => work'[v].pc = work[v].pc) /\ (v = w => e = f)
    BY <1>1, <1>3, <2>1 DEF SchedulingFor, Scheduling, Worker, Busy, f
  <2> QED
    BY <1>1, <2>1, <2>2 DEF SlotInv
<1>6. CASE InsertChange(w)
  <2> DEFINE n == [id |-> nextId, entity |-> f, change |-> work[w].change,
                   status |-> "pending", attempts |-> 0, due |-> FALSE]
  <2>1. rows' = rows \union {n} /\ Ends(w) /\ work[w].pc = "insert" /\ n.entity = f
    BY <1>6 DEF InsertChange, Pc, f
  <2> HIDE DEF n
  <2>2. \A v \in Request : SchedulingFor(v, e)' => SchedulingFor(v, e) /\ v # w /\ work'[v].pc = work[v].pc
    BY <1>2, <2>1 DEF SchedulingFor, Scheduling, Worker
  <2>3. SchedulingFor(w, f)
    BY <1>1, <2>1 DEF SchedulingFor, Scheduling, f
  <2>4. \A r \in rows : r.status \in {"pending", "applied", "failed"}
    BY DEF IInv, TypeOK, Row
  <2> QED
    BY <1>1, <2>1, <2>2, <2>3, <2>4 DEF SlotInv
<1> QED
  BY <1>4, <1>5, <1>6

(* Where the applier and the routes send a worker.                         *)
LEMMA Moves ==
    ASSUME IInv, NEW w \in Worker, Busy(w),
           \/ Ends(w) \/ BackToPick(w) \/ Sees(w, "save")
           \/ \E pc \in {"read", "save", "activate", "restore", "clear", "delete", "record", "retry"} : Becomes(w, pc)
    PROVE  /\ \A v \in Worker \ {w} : work'[v] = work[v]
           /\ \/ work'[w].pc \in {"idle", "pick"}
              \/ /\ work'[w].pc \notin {"idle", "pick", "check", "insert"}
                 /\ work'[w].op = work[w].op /\ work'[w].entity = work[w].entity
<1>1. WorkType
  BY DEF IInv, TypeOK, WorkType
<1>2. CASE Ends(w) \/ BackToPick(w)
  BY <1>1, <1>2, SetWork, Shapes DEF Ends, BackToPick
<1>3. ASSUME NEW pc \in {"read", "save", "activate", "restore", "clear", "delete", "record", "retry"},
             Becomes(w, pc) \/ Sees(w, pc)
      PROVE  /\ \A v \in Worker \ {w} : work'[v] = work[v]
             /\ work'[w].pc = pc /\ work'[w].op = work[w].op /\ work'[w].entity = work[w].entity
  BY <1>1, <1>3, BecomesKeeps DEF RoundPc, RequestPc
<1> QED
  BY <1>2, <1>3

LEMMA AfterMoves ==
    ASSUME NEW w, AfterSuccess(w) \/ AfterFailure(w)
    PROVE  Ends(w) \/ \E pc \in {"clear", "delete", "record", "retry"} : Becomes(w, pc)
  BY DEF AfterSuccess, AfterFailure

LEMMA ApplierMoves ==
    ASSUME IInv, NEW w \in Worker,
           \/ LoadChange(w) \/ DeleteChange(w) \/ DropEntity(w) \/ RecordFails(w)
           \/ ReadLive(w) \/ SaveConfig(w) \/ SaveFails(w) \/ Activate(w) \/ ActivateFails(w) \/ Restore(w) \/ RestoreFails(w)
    PROVE  /\ Busy(w) /\ work[w].pc # "check" /\ rows' \subseteq rows /\ raced' = raced
           /\ \/ Ends(w) \/ Sees(w, "save")
              \/ \E pc \in {"read", "save", "activate", "restore", "clear", "delete", "record", "retry"} : Becomes(w, pc)
<1>1. Busy(w) /\ work[w].pc # "check" /\ rows' \subseteq rows /\ raced' = raced
  BY DEF LoadChange, DeleteChange, DropEntity, RecordFails, ReadLive, SaveConfig, SaveFails, Activate, ActivateFails,
         Restore, RestoreFails, Pc, Busy, history
<1>2. CASE ReadLive(w)
  <2>1. CASE live[work[w].entity] = Gone
    BY <1>1, <1>2, <2>1, AfterMoves DEF ReadLive
  <2>2. CASE live[work[w].entity] # Gone
    <3>1. live[work[w].entity] \in Config
      BY <1>1, <2>2, WorkerFacts DEF IInv, TypeOK
    <3> QED
      BY <1>1, <1>2, <2>2, <3>1 DEF ReadLive, Sees
  <2> QED
    BY <1>1, <2>1, <2>2
<1>3. CASE SaveConfig(w) \/ SaveFails(w) \/ Activate(w) \/ ActivateFails(w) \/ Restore(w) \/ RestoreFails(w)
  BY <1>1, <1>3, AfterMoves DEF SaveConfig, SaveFails, Activate, ActivateFails, Restore, RestoreFails
<1>4. CASE LoadChange(w) \/ DeleteChange(w) \/ DropEntity(w) \/ RecordFails(w)
  BY <1>1, <1>4 DEF LoadChange, DeleteChange, DropEntity, RecordFails
<1> QED
  BY <1>1, <1>2, <1>3, <1>4

(* A round writes the status of a row that is pending, or gone.            *)
LEMMA RecordSlot ==
    ASSUME IInv, IInv', NEW w \in Worker, RecordApplied(w) \/ Retry(w), NEW e \in Entity, SlotInv(e)
    PROVE  SlotInv(e)'
<1>1. Busy(w) /\ w \in Round /\ w \notin Request
  BY InRound DEF RecordApplied, Retry, Pc, Busy
<1>2. /\ work[w].id \in RowId /\ work[w].attempts \in 0..MaxAttempts /\ Attempts(w) \in 0..MaxAttempts
      /\ \A r \in rows : r.id = work[w].id => r.status = "pending"
  BY <1>1, BusyWork, AttemptsPositive DEF IInv, TypeOK, WorkType, RoundInv, WorkersKeepToTheirPart, RoundWorks, Work,
     CurrentIsPending, Attempts
<1>3. PICK status \in {"pending", "applied", "failed"}, attempts \in 0..MaxAttempts, due \in BOOLEAN :
         UpdateStatus(work[w].id, status, attempts, due)
  BY <1>2 DEF RecordApplied, Retry
<1>4. \A s \in rows' : \E r \in rows :
         /\ s.id = r.id /\ s.entity = r.entity
         /\ IF r.id = work[w].id THEN s.status = status /\ s.attempts = attempts ELSE s = r
  BY <1>2, <1>3, StatusWritten DEF IInv, TypeOK
<1>5. raced' = raced /\ \A v \in Worker \ {w} : work'[v] = work[v]
  BY <1>1, Moves DEF RecordApplied, Retry, history
<1>6. \A v \in Request : SchedulingFor(v, e)' => SchedulingFor(v, e) /\ work'[v].pc = work[v].pc
  BY <1>1, <1>5 DEF SchedulingFor, Scheduling, Worker
<1> QED
  BY <1>2, <1>4, <1>5, <1>6, SlotKept

LEMMA NextSlot == ASSUME IInv, IInv', [Next]_vars, NEW e \in Entity, SlotInv(e) PROVE SlotInv(e)'
<1>1. CASE UNCHANGED vars
  BY <1>1 DEF vars, history, SlotInv, SchedulingFor, Scheduling
<1>2. ASSUME NEW w \in Request, NEW f \in Entity,
             \/ \E c \in Config : SaveNow(w, f, c)
             \/ \E op \in {"apply", "cancel"} : FindChange(w, op, f)
             \/ RemoveEntity(w, f)
      PROVE  SlotInv(e)'
  <2> DEFINE BeginsOther == \E x : work' = [work EXCEPT ![w] = x] /\ x.op # "schedule"
  <2>1. BeginsOther
    <3>1. ASSUME NEW c \in Config, SaveNow(w, f, c) PROVE BeginsOther
      <4> DEFINE x == Started("save", "save", f, 0, 0, c, c, live[f])
      <4>1. work' = [work EXCEPT ![w] = x] /\ x.op = "save"
        BY <3>1 DEF SaveNow, Started
      <4> QED
        BY <4>1
    <3>2. ASSUME NEW op \in {"apply", "cancel"}, FindChange(w, op, f) PROVE BeginsOther
      <4>1. PICK r \in CurrentChange(f) : Begin(w, "load", op, f, r, r.change, r.change)
        BY <3>2 DEF FindChange
      <4> DEFINE x == Started("load", op, f, r.id, r.attempts, r.change, r.change, r.change)
      <4>2. work' = [work EXCEPT ![w] = x] /\ x.op = op
        BY <4>1 DEF Begin, Started
      <4> QED
        BY <4>2
    <3>3. ASSUME RemoveEntity(w, f) PROVE BeginsOther
      <4> DEFINE x == Started("drop", "remove", f, 0, 0, live[f], live[f], live[f])
      <4>1. work' = [work EXCEPT ![w] = x] /\ x.op = "remove"
        BY <3>3 DEF RemoveEntity, Begin, NoRow, Started
      <4> QED
        BY <4>1
    <3> QED
      BY <1>2, <3>1, <3>2, <3>3
  <2>2. raced' = raced /\ rows' = rows /\ w \in Worker
    BY <1>2 DEF SaveNow, FindChange, RemoveEntity, Worker
  <2>3. work'[w].op # "schedule" /\ \A v \in Worker \ {w} : work'[v] = work[v]
    BY <2>1, <2>2 DEF IInv, TypeOK
  <2> QED
    BY <2>2, <2>3, SlotGoesOn
<1>3. ASSUME NEW w \in Worker,
             \/ LoadChange(w) \/ DeleteChange(w) \/ DropEntity(w) \/ RecordFails(w)
             \/ ReadLive(w) \/ SaveConfig(w) \/ SaveFails(w) \/ Activate(w) \/ ActivateFails(w) \/ Restore(w) \/ RestoreFails(w)
      PROVE  SlotInv(e)'
  <2>1. /\ Busy(w) /\ work[w].pc # "check" /\ rows' \subseteq rows /\ raced' = raced
        /\ \A v \in Worker \ {w} : work'[v] = work[v]
        /\ \/ work'[w].pc \in {"idle", "pick"}
           \/ /\ work'[w].pc \notin {"idle", "pick", "check", "insert"}
              /\ work'[w].op = work[w].op /\ work'[w].entity = work[w].entity
    BY <1>3, ApplierMoves, Moves
  <2>2. w \in Request => work'[w].pc # "pick"
    BY DEF IInv, RoundInv, WorkersKeepToTheirPart, RequestWorks
  <2> QED
    BY <2>1, <2>2, SlotGoesOn
<1>4. ASSUME NEW w \in Worker, StartRound(w) \/ PickRow(w) \/ EndRound(w) \/ RetryFails(w) PROVE SlotInv(e)'
  <2>1. w \notin Request
    BY <1>4, InRound, DistinctParts DEF StartRound, PickRow, EndRound, RetryFails, Pc
  <2>2. rows' = rows /\ raced' = raced /\ \A v \in Worker \ {w} : work'[v] = work[v]
    BY <1>4 DEF StartRound, PickRow, EndRound, RetryFails, Begin, Becomes, Ends, history, IInv, TypeOK
  <2> QED
    BY <2>1, <2>2, SlotGoesOn
<1>5. ASSUME NEW r \in rows, ComesDue(r) PROVE SlotInv(e)'
  <2>1. \A s \in rows' : \E q \in rows : q.id = s.id /\ q.entity = s.entity /\ q.status = s.status
    BY <1>5 DEF ComesDue, IInv, TypeOK, Row
  <2>2. \A v \in Request : SchedulingFor(v, e)' => SchedulingFor(v, e) /\ work'[v].pc = work[v].pc
    BY <1>5 DEF ComesDue, SchedulingFor, Scheduling
  <2> QED
    BY <1>5, <2>1, <2>2, SlotKept DEF ComesDue, history
<1>6. CASE Crash
  <2>1. \A v \in Request : ~SchedulingFor(v, e)'
    BY <1>6, Shapes DEF Crash, SchedulingFor, Scheduling, Worker
  <2> QED
    BY <1>6, <2>1, SlotKept DEF Crash, history
<1> QED
  BY <1>1, <1>2, <1>3, <1>4, <1>5, <1>6, SaveScheduledSlot, SlotSteps, RecordSlot DEF Next, WorkStep

(* There is one open change per site or stream, for any number of          *)
(* entities and requests, until two saves with a schedule meet: the check  *)
(* of updateSite and the PUT route stays true over the awaits that follow  *)
(* it, because a round never reopens a change.                             *)
THEOREM OneChange == Spec => []OneChangeUnlessRaced
<1> DEFINE Slots == \A e \in Entity : SlotInv(e)
<1>1. Init => Slots
  BY DEF Init, SlotInv, SchedulingFor, Scheduling, Worker, Idle
<1>2. IInv /\ IInv' /\ Slots /\ [Next]_vars => Slots'
  BY NextSlot
<1>3. IInv /\ Slots => OneChangeUnlessRaced
  BY DEF IInv, TypeOK, Row, SlotInv, OneChangeUnlessRaced
<1> QED
  BY <1>1, <1>2, <1>3, Invariance, PTL DEF Spec

(***************************************************************************)
(* A stream runs with its row                                              *)
(***************************************************************************)

(* The listener of a stream is what its row says, or would be had its row  *)
(* been taken back.                                                        *)
Follows(e, c) == e \in stranded \/ listener[e] \in {c, Gone}
FollowsNext(e, c) == e \in stranded' \/ listener'[e] \in {c, Gone}

(* Row and listener of the stream that w is changing: until the save both  *)
(* are what w saw; between the save and the end of the activation, or its  *)
(* restoration, the listener is still the one that w saw.                  *)
StepInv(w) ==
    LET e == work[w].entity
    IN  /\ work[w].pc \in {"check", "save"} => work[w].seen = live[e]
        /\ work[w].pc \in {"activate", "restore"} => Follows(e, work[w].seen) /\ live[e] = work[w].config
        /\ work[w].pc = "drop" => listener[e] = Gone
        /\ work[w].pc \notin {"activate", "restore", "drop"} => Follows(e, live[e])

(* Sites have no listener of their own; the writers of a stream take turns *)
(* until two of them meet.                                                 *)
ListenerInv(e) ==
    /\ kind[e] = "site" => listener[e] = Gone
    /\ kind[e] = "stream" /\ e \notin overlapped =>
        /\ \A v, w \in Writing(e) : v = w
        /\ \A w \in Writing(e) : StepInv(w)
        /\ Writing(e) = {} => Follows(e, live[e])

Listeners == \A e \in Entity : ListenerInv(e)

(* The writer w of f goes on, or is done.                                  *)
LEMMA WriterSteps ==
    ASSUME IInv, Listeners, NEW w \in Worker, Busy(w), work[w].op # "cancel", NEW f \in Entity, f = work[w].entity,
           \A v \in Worker \ {w} : work'[v] = work[v],
           work'[w].pc \in {"idle", "pick"} \/ (work'[w].op = work[w].op /\ work'[w].entity = f),
           \A e \in Entity \ {f} : live'[e] = live[e] /\ listener'[e] = listener[e] /\ (e \in stranded' <=> e \in stranded),
           kind[f] = "site" => listener'[f] = Gone,
           kind[f] = "stream" /\ StepInv(w) =>
               IF work'[w].pc \in {"idle", "pick"} THEN FollowsNext(f, live'[f]) ELSE StepInv(w)',
           UNCHANGED <<kind, overlapped>>
    PROVE  Listeners'
<1> SUFFICES ASSUME NEW e \in Entity PROVE ListenerInv(e)'
  BY DEF Listeners
<1>1. ListenerInv(e)
  BY DEF Listeners
<1>2. CASE e # f
  <2>1. Writing(e)' = Writing(e) /\ w \notin Writing(e)
    BY <1>2 DEF Writing
  <2>2. \A v \in Writing(e) : work'[v] = work[v] /\ work[v].entity = e
    BY <2>1 DEF Writing
  <2> QED
    BY <1>1, <1>2, <2>1, <2>2 DEF ListenerInv, StepInv, Follows
<1>3. CASE e = f
  <2>1. SUFFICES ASSUME kind[f] = "stream", f \notin overlapped
                 PROVE  /\ \A u, v \in Writing(f)' : u = v
                        /\ \A v \in Writing(f)' : StepInv(v)'
                        /\ Writing(f)' = {} => FollowsNext(f, live'[f])
    BY <1>3 DEF ListenerInv, Follows, FollowsNext
  <2>2. w \in Writing(f) /\ Writing(f) = {w} /\ StepInv(w)
    BY <1>1, <1>3, <2>1 DEF ListenerInv, Writing, Busy
  <2>3. Writing(f)' = IF work'[w].pc \in {"idle", "pick"} THEN {} ELSE {w}
    BY <2>2 DEF Writing, Busy
  <2> QED
    BY <2>1, <2>2, <2>3
<1> QED
  BY <1>2, <1>3

(* w becomes a writer of f.                                                *)
LEMMA WriterBegins ==
    ASSUME IInv, Listeners, NEW w \in Worker, ~Busy(w), NEW f \in Entity, Overlap(f),
           \A v \in Worker \ {w} : work'[v] = work[v],
           work'[w].pc \notin {"idle", "pick"}, work'[w].entity = f, work'[w].op # "cancel",
           \A e \in Entity \ {f} : listener'[e] = listener[e],
           kind[f] = "site" => listener'[f] = Gone,
           kind[f] = "stream" /\ Follows(f, live[f]) => StepInv(w)',
           UNCHANGED <<kind, live, stranded>>
    PROVE  Listeners'
<1> SUFFICES ASSUME NEW e \in Entity PROVE ListenerInv(e)'
  BY DEF Listeners
<1>1. ListenerInv(e)
  BY DEF Listeners
<1>2. CASE e # f
  <2>1. Writing(e)' = Writing(e) /\ w \notin Writing(e)
    BY <1>2 DEF Writing, Busy
  <2>2. \A v \in Writing(e) : work'[v] = work[v] /\ work[v].entity = e
    BY <2>1 DEF Writing
  <2>3. e \notin overlapped' => e \notin overlapped
    BY DEF Overlap
  <2> QED
    BY <1>1, <1>2, <2>1, <2>2, <2>3 DEF ListenerInv, StepInv, Follows
<1>3. CASE e = f
  <2>1. SUFFICES ASSUME kind[f] = "stream", f \notin overlapped'
                 PROVE  /\ \A u, v \in Writing(f)' : u = v
                        /\ \A v \in Writing(f)' : StepInv(v)'
                        /\ Writing(f)' # {}
    BY <1>3 DEF ListenerInv, Follows, FollowsNext
  <2>2. Writing(f) = {} /\ f \notin overlapped
    BY <2>1 DEF Overlap
  <2>3. Writing(f)' = {w}
    BY <2>2 DEF Writing
  <2> QED
    BY <1>1, <1>3, <2>1, <2>2, <2>3 DEF ListenerInv, Follows
<1> QED
  BY <1>2, <1>3

(* A step of a worker that writes no entity.                               *)
LEMMA NoWriterSteps ==
    ASSUME IInv, Listeners, NEW w \in Worker,
           work[w].pc \in {"idle", "pick"} \/ work[w].op = "cancel",
           work'[w].pc \in {"idle", "pick"} \/ work'[w].op = "cancel",
           \A v \in Worker \ {w} : work'[v] = work[v],
           UNCHANGED <<kind, live, listener, overlapped, stranded>>
    PROVE  Listeners'
<1> SUFFICES ASSUME NEW e \in Entity PROVE ListenerInv(e)'
  BY DEF Listeners
<1>1. Writing(e)' = Writing(e) /\ \A v \in Writing(e) : work'[v] = work[v]
  BY DEF Writing
<1>2. ListenerInv(e)
  BY DEF Listeners
<1> QED
  BY <1>1, <1>2 DEF ListenerInv, StepInv, Follows

(* A cancelling request only loads and deletes its change.                 *)
Cancels == \A w \in Worker : Busy(w) /\ work[w].op = "cancel" => work[w].pc \in {"load", "delete"}

LEMMA NextCancels == ASSUME IInv, Cancels, [Next]_vars PROVE Cancels'
<1> USE DEF Cancels, Busy
<1>1. CASE UNCHANGED vars
  BY <1>1 DEF vars
<1>2. ASSUME NEW w \in Worker, \A v \in Worker \ {w} : work'[v] = work[v],
             \/ work'[w].pc \in {"idle", "pick", "load", "delete"} \/ work'[w].op # "cancel"
      PROVE  Cancels'
  BY <1>2
<1>3. ASSUME NEW w \in Worker, NEW x, work' = [work EXCEPT ![w] = x],
             x.pc \in {"idle", "pick", "load", "delete"} \/ x.op # "cancel"
      PROVE  Cancels'
  BY <1>2, <1>3 DEF IInv, TypeOK
<1>4. ASSUME NEW w \in Worker, Ends(w) \/ BackToPick(w) PROVE Cancels'
  BY <1>3, <1>4, Shapes DEF Ends, BackToPick
<1>5. ASSUME NEW w \in Worker, Busy(w), NEW pc \in RoundPc \union RequestPc, Becomes(w, pc) \/ Sees(w, pc),
             pc = "delete" \/ work[w].pc \notin {"load", "delete"}
      PROVE  Cancels'
  <2>1. work'[w].pc = pc /\ work'[w].op = work[w].op /\ \A v \in Worker \ {w} : work'[v] = work[v]
    BY <1>5, BecomesKeeps DEF IInv, TypeOK, WorkType
  <2>2. work[w].op = "cancel" => work[w].pc \in {"load", "delete"}
    BY <1>5
  <2> QED
    BY <1>2, <1>5, <2>1, <2>2
<1>6. ASSUME NEW w \in Request, NEW f \in Entity,
             \/ \E c \in Config : SaveNow(w, f, c) \/ SaveScheduled(w, f, c)
             \/ RemoveEntity(w, f)
      PROVE  Cancels'
  <2>1. w \in Worker
    BY DEF Worker
  <2>2. ASSUME NEW c \in Config, SaveNow(w, f, c) PROVE Cancels'
    <3> DEFINE x == Started("save", "save", f, 0, 0, c, c, live[f])
    <3>1. work' = [work EXCEPT ![w] = x] /\ x.op = "save"
      BY <2>2 DEF SaveNow, Started
    <3> QED
      BY <1>3, <2>1, <3>1
  <2>3. ASSUME NEW c \in Config, SaveScheduled(w, f, c) PROVE Cancels'
    <3> DEFINE x == Started("check", "schedule", f, 0, 0, live[f], c, live[f])
    <3>1. work' = [work EXCEPT ![w] = x] /\ x.op = "schedule"
      BY <2>3 DEF SaveScheduled, Begin, NoRow, Started
    <3> QED
      BY <1>3, <2>1, <3>1
  <2>4. ASSUME RemoveEntity(w, f) PROVE Cancels'
    <3> DEFINE x == Started("drop", "remove", f, 0, 0, live[f], live[f], live[f])
    <3>1. work' = [work EXCEPT ![w] = x] /\ x.op = "remove"
      BY <2>4 DEF RemoveEntity, Begin, NoRow, Started
    <3> QED
      BY <1>3, <2>1, <3>1
  <2> QED
    BY <1>6, <2>2, <2>3, <2>4
<1>7. ASSUME NEW w \in Request, NEW f \in Entity, NEW op \in {"apply", "cancel"}, FindChange(w, op, f) PROVE Cancels'
  <2>1. PICK r \in CurrentChange(f) : Begin(w, "load", op, f, r, r.change, r.change)
    BY <1>7 DEF FindChange
  <2> DEFINE x == Started("load", op, f, r.id, r.attempts, r.change, r.change, r.change)
  <2>2. work' = [work EXCEPT ![w] = x] /\ x.pc = "load" /\ w \in Worker
    BY <2>1 DEF Begin, Started, Worker
  <2> QED
    BY <1>3, <2>2
<1>8. ASSUME NEW w \in Worker, ReadLive(w) \/ SaveConfig(w) \/ SaveFails(w) \/ Activate(w) \/ ActivateFails(w) \/ Restore(w) \/ RestoreFails(w)
      PROVE  Cancels'
  <2>1. Busy(w) /\ work[w].pc \notin {"load", "delete"}
    BY <1>8 DEF ReadLive, SaveConfig, SaveFails, Activate, ActivateFails, Restore, RestoreFails, Pc
  <2>2. \/ Ends(w) \/ Sees(w, "save")
        \/ \E pc \in {"read", "save", "activate", "restore", "clear", "delete", "record", "retry"} : Becomes(w, pc)
    BY <1>8, ApplierMoves, AfterMoves DEF SaveFails
  <2> QED
    BY <1>4, <1>5, <2>1, <2>2 DEF RoundPc, RequestPc
<1>9. ASSUME NEW w \in Worker, LoadChange(w) PROVE Cancels'
  <2>1. Ends(w) \/ Becomes(w, "delete") \/ (work[w].op = "apply" /\ Becomes(w, "read"))
    BY <1>9 DEF LoadChange
  <2>2. ASSUME work[w].op = "apply", Becomes(w, "read") PROVE Cancels'
    <3>1. work'[w].op = "apply" /\ \A v \in Worker \ {w} : work'[v] = work[v]
      BY <1>9, <2>2, BecomesKeeps DEF IInv, TypeOK, WorkType, RequestPc, LoadChange, Pc
    <3> QED
      BY <1>2, <3>1
  <2> QED
    BY <1>4, <1>5, <1>9, <2>1, <2>2 DEF LoadChange, Pc, RequestPc
<1>10. ASSUME NEW w \in Worker,
              \/ CheckSlot(w) \/ ClearFailed(w) \/ InsertChange(w) \/ DeleteChange(w) \/ DropEntity(w)
              \/ EndRound(w) \/ RecordApplied(w) \/ RecordFails(w) \/ Retry(w) \/ RetryFails(w)
       PROVE  Cancels'
  <2>1. \/ Ends(w) \/ BackToPick(w)
        \/ Busy(w) /\ work[w].pc \notin {"load", "delete"} /\ \E pc \in {"save", "insert", "retry"} : Becomes(w, pc)
    BY <1>10 DEF CheckSlot, ClearFailed, InsertChange, DeleteChange, DropEntity, EndRound, RecordApplied, RecordFails,
                 Retry, RetryFails, Pc
  <2> QED
    BY <1>4, <1>5, <2>1 DEF RequestPc, RoundPc
<1>11. ASSUME NEW w \in Worker, PickRow(w) PROVE Cancels'
  <2>1. PICK r \in todo : Begin(w, "read", "due", r.entity, r, r.change, r.change)
    BY <1>11 DEF PickRow
  <2> DEFINE x == Started("read", "due", r.entity, r.id, r.attempts, r.change, r.change, r.change)
  <2>2. work' = [work EXCEPT ![w] = x] /\ x.op = "due"
    BY <2>1 DEF Begin, Started
  <2> QED
    BY <1>3, <2>2
<1>12. ASSUME NEW w \in Worker, StartRound(w) PROVE Cancels'
  <2>1. work'[w].pc = "pick" /\ \A v \in Worker \ {w} : work'[v] = work[v]
    BY <1>12 DEF StartRound, Becomes, Pc, Idle, IInv, TypeOK, Work
  <2> QED
    BY <1>2, <2>1
<1>13. ASSUME NEW r \in rows, ComesDue(r) PROVE Cancels'
  BY <1>13 DEF ComesDue
<1>14. CASE Crash
  BY <1>14, Shapes DEF Crash
<1> QED
  BY <1>1, <1>6, <1>7, <1>8, <1>9, <1>10, <1>11, <1>12, <1>13, <1>14 DEF Next, WorkStep

(* Admin requests that are accepted.                                       *)
LEMMA AcceptListeners ==
    ASSUME IInv, Listeners, NEW w \in Request, NEW f \in Entity,
           \/ \E c \in Config : SaveNow(w, f, c) \/ SaveScheduled(w, f, c)
           \/ \E op \in {"apply", "cancel"} : FindChange(w, op, f)
           \/ RemoveEntity(w, f)
    PROVE  Listeners'
<1>1. w \in Worker /\ ~Busy(w) /\ work[w].pc = "idle"
  BY DEF SaveNow, SaveScheduled, FindChange, RemoveEntity, Accepts, Pc, Busy, Worker
<1>2. ASSUME NEW x, work' = [work EXCEPT ![w] = x]
      PROVE  work'[w] = x /\ \A v \in Worker \ {w} : work'[v] = work[v]
  BY <1>1, <1>2 DEF IInv, TypeOK
<1>3. kind[f] = "site" => listener[f] = Gone
  BY DEF Listeners, ListenerInv
<1>4. ASSUME NEW c \in Config, SaveNow(w, f, c) PROVE Listeners'
  <2> DEFINE x == Started("save", "save", f, 0, 0, c, c, live[f])
  <2>1. x.pc = "save" /\ x.op = "save" /\ x.entity = f /\ x.seen = live[f]
    BY DEF Started
  <2>2. work' = [work EXCEPT ![w] = x] /\ Overlap(f) /\ UNCHANGED <<kind, live, listener, stranded>>
    BY <1>4 DEF SaveNow, Started
  <2> HIDE DEF x
  <2>3. Follows(f, live[f]) => StepInv(w)'
    BY ZenonT(40), <1>2, <2>1, <2>2 DEF StepInv, Follows
  <2> QED
    BY <1>1, <1>2, <1>3, <2>1, <2>2, <2>3, WriterBegins
<1>5. ASSUME NEW c \in Config, SaveScheduled(w, f, c) PROVE Listeners'
  <2> DEFINE x == Started("check", "schedule", f, 0, 0, live[f], c, live[f])
  <2>1. x.pc = "check" /\ x.op = "schedule" /\ x.entity = f /\ x.seen = live[f]
    BY DEF Started
  <2>2. work' = [work EXCEPT ![w] = x] /\ Overlap(f) /\ UNCHANGED <<kind, live, listener, stranded>>
    BY <1>5 DEF SaveScheduled, Begin, NoRow, Started
  <2> HIDE DEF x
  <2>3. Follows(f, live[f]) => StepInv(w)'
    BY ZenonT(40), <1>2, <2>1, <2>2 DEF StepInv, Follows
  <2> QED
    BY <1>1, <1>2, <1>3, <2>1, <2>2, <2>3, WriterBegins
<1>6. ASSUME NEW op \in {"apply", "cancel"}, FindChange(w, op, f) PROVE Listeners'
  <2>1. PICK r \in CurrentChange(f) : Begin(w, "load", op, f, r, r.change, r.change)
    BY <1>6 DEF FindChange
  <2> DEFINE x == Started("load", op, f, r.id, r.attempts, r.change, r.change, r.change)
  <2>2. x.pc = "load" /\ x.op = op /\ x.entity = f
    BY DEF Started
  <2>3. work' = [work EXCEPT ![w] = x] /\ UNCHANGED <<kind, live, listener, stranded>>
    BY <1>6, <2>1 DEF FindChange, Begin, Started
  <2> HIDE DEF x
  <2>6. work'[w].pc = "load" /\ work'[w].entity = f
    BY <1>2, <2>2, <2>3
  <2>4. CASE op = "apply"
    <3>1. Follows(f, live[f]) => StepInv(w)'
      BY <2>3, <2>6 DEF StepInv, Follows
    <3>2. Overlap(f)
      BY <1>6, <2>4 DEF FindChange
    <3> QED
      BY <1>1, <1>2, <1>3, <2>2, <2>3, <2>4, <3>1, <3>2, WriterBegins
  <2>5. CASE op = "cancel"
    <3>1. overlapped' = overlapped
      BY <1>6, <2>5 DEF FindChange
    <3> QED
      BY <1>1, <1>2, <2>2, <2>3, <2>5, <3>1, NoWriterSteps
  <2> QED
    BY <2>4, <2>5
<1>7. ASSUME RemoveEntity(w, f) PROVE Listeners'
  <2> DEFINE x == Started("drop", "remove", f, 0, 0, live[f], live[f], live[f])
  <2>1. x.pc = "drop" /\ x.op = "remove" /\ x.entity = f
    BY DEF Started
  <2>2. work' = [work EXCEPT ![w] = x] /\ Overlap(f) /\ UNCHANGED <<kind, live, stranded>>
    BY <1>7 DEF RemoveEntity, Begin, NoRow, Started
  <2>3. listener'[f] = Gone /\ \A e \in Entity \ {f} : listener'[e] = listener[e]
    BY <1>7 DEF RemoveEntity, IInv, TypeOK
  <2> HIDE DEF x
  <2>4. StepInv(w)'
    BY <1>2, <2>1, <2>2, <2>3 DEF StepInv, Follows
  <2> QED
    BY <1>1, <1>2, <2>1, <2>2, <2>3, <2>4, WriterBegins
<1> QED
  BY <1>4, <1>5, <1>6, <1>7

(* The steps around the save change neither row nor listener, except that  *)
(* of the deletion, whose listener has stopped.                            *)
LEMMA RouteListeners ==
    ASSUME IInv, Listeners, Cancels, NEW w \in Worker,
           \/ CheckSlot(w) \/ ClearFailed(w) \/ InsertChange(w) \/ LoadChange(w) \/ DeleteChange(w) \/ DropEntity(w)
           \/ SaveFails(w) \/ RecordApplied(w) \/ RecordFails(w) \/ Retry(w) \/ RetryFails(w)
    PROVE  Listeners'
<1> DEFINE f == work[w].entity
<1>1. /\ Busy(w) /\ work[w].pc \in {"check", "clear", "insert", "load", "delete", "drop", "save", "record", "retry"}
      /\ UNCHANGED <<kind, listener, overlapped, stranded>>
  BY DEF CheckSlot, ClearFailed, InsertChange, LoadChange, DeleteChange, DropEntity, SaveFails, RecordApplied, RecordFails,
         Retry, RetryFails, Pc, Busy, history
<1>2. f \in Entity /\ work[w] \in Work
  BY <1>1, WorkerFacts
<1>3. /\ \A v \in Worker \ {w} : work'[v] = work[v]
      /\ \/ work'[w].pc \in {"idle", "pick"}
         \/ /\ \/ work'[w].pc \in {"insert", "read", "delete", "retry"}
               \/ work[w].pc = "check" /\ work'[w].pc = "save" /\ work'[w].seen = work[w].seen
            /\ work'[w].op = work[w].op /\ work'[w].entity = f
  <2>1. WorkType
    BY DEF IInv, TypeOK, WorkType
  <2>2. \/ Ends(w) \/ BackToPick(w) \/ Becomes(w, "insert") \/ Becomes(w, "read") \/ Becomes(w, "delete")
        \/ Becomes(w, "retry") \/ (work[w].pc = "check" /\ Becomes(w, "save"))
    BY DEF CheckSlot, ClearFailed, InsertChange, LoadChange, DeleteChange, DropEntity, SaveFails, RecordApplied,
           RecordFails, Retry, RetryFails, AfterFailure, Pc
  <2>3. CASE Ends(w) \/ BackToPick(w)
    BY <2>1, <2>3, SetWork, Shapes DEF Ends, BackToPick
  <2>4. ASSUME NEW pc \in {"insert", "read", "delete", "retry", "save"}, Becomes(w, pc)
        PROVE  /\ work'[w].pc = pc /\ work'[w].op = work[w].op /\ work'[w].entity = f
               /\ work'[w].seen = work[w].seen
               /\ \A v \in Worker \ {w} : work'[v] = work[v]
    BY <1>1, <2>1, <2>4, BecomesKeeps DEF RequestPc, RoundPc
  <2> QED
    BY <2>2, <2>3, <2>4
<1>4. /\ \A e \in Entity \ {f} : live'[e] = live[e]
      /\ work[w].pc # "drop" => live' = live
      /\ work[w].pc = "drop" => work'[w].pc = "idle"
  BY <1>2, Shapes DEF CheckSlot, ClearFailed, InsertChange, LoadChange, DeleteChange, DropEntity, SaveFails, RecordApplied,
         RecordFails, Retry, RetryFails, Pc, Ends, IInv, TypeOK
<1>5. kind[f] = "site" => listener[f] = Gone
  BY <1>2 DEF Listeners, ListenerInv
<1>6. CASE work[w].op = "cancel"
  <2>1. work[w].pc # "drop"
    BY <1>1, <1>6 DEF Cancels
  <2> QED
    BY <1>1, <1>3, <1>4, <1>6, <2>1, NoWriterSteps
<1>7. CASE work[w].op # "cancel"
  <2>1. StepInv(w) => IF work'[w].pc \in {"idle", "pick"} THEN FollowsNext(f, live'[f]) ELSE StepInv(w)'
    BY <1>1, <1>3, <1>4 DEF StepInv, Follows, FollowsNext
  <2> QED
    BY <1>1, <1>2, <1>3, <1>4, <1>5, <1>7, <2>1, WriterSteps
<1> QED
  BY <1>6, <1>7

(* The save and the applier: the listener follows the row, or the row goes *)
(* back to the listener.                                                   *)
LEMMA ApplierListeners ==
    ASSUME IInv, Listeners, Cancels, NEW w \in Worker,
           ReadLive(w) \/ SaveConfig(w) \/ Activate(w) \/ ActivateFails(w) \/ Restore(w) \/ RestoreFails(w)
    PROVE  Listeners'
<1> DEFINE f == work[w].entity
<1>1. Busy(w) /\ work[w].pc \in {"read", "save", "activate", "restore"} /\ UNCHANGED <<kind, overlapped>>
  BY DEF ReadLive, SaveConfig, Activate, ActivateFails, Restore, RestoreFails, Pc, Busy, history
<1>2. f \in Entity /\ work[w] \in Work /\ work[w].op # "cancel" /\ kind[f] \in {"stream", "site"}
  BY <1>1, WorkerFacts DEF Cancels, IInv, TypeOK
<1>3. kind[f] = "site" => listener[f] = Gone
  BY <1>2 DEF Listeners, ListenerInv
<1>4. /\ \A v \in Worker \ {w} : work'[v] = work[v]
      /\ \/ work'[w].pc \in {"idle", "pick"}
         \/ work'[w].op = work[w].op /\ work'[w].entity = f
  BY <1>1, ApplierMoves, Moves
<1>5. ASSUME NEW pc \in {"activate", "restore"}, Becomes(w, pc)
      PROVE  work'[w].pc = pc /\ work'[w].entity = f /\ work'[w].seen = work[w].seen /\ work'[w].config = work[w].config
  BY <1>1, <1>5, BecomesKeeps DEF IInv, TypeOK, WorkType, RoundPc
<1>6. ASSUME AfterSuccess(w) \/ AfterFailure(w), FollowsNext(f, live'[f])
      PROVE  IF work'[w].pc \in {"idle", "pick"} THEN FollowsNext(f, live'[f]) ELSE StepInv(w)'
  <2>1. Ends(w) \/ \E pc \in {"clear", "delete", "record", "retry"} : Becomes(w, pc)
    BY <1>6, AfterMoves
  <2>2. CASE Ends(w)
    BY <1>6, <2>2, SetWork, Shapes DEF Ends, IInv, TypeOK, WorkType
  <2>3. ASSUME NEW pc \in {"clear", "delete", "record", "retry"}, Becomes(w, pc)
        PROVE  work'[w].pc = pc /\ work'[w].entity = f
    BY <1>1, <2>3, BecomesKeeps DEF IInv, TypeOK, WorkType, RoundPc, RequestPc
  <2> QED
    BY <1>6, <2>1, <2>2, <2>3 DEF StepInv, Follows, FollowsNext
<1> DEFINE Kept == IF work'[w].pc \in {"idle", "pick"} THEN FollowsNext(f, live'[f]) ELSE StepInv(w)'
<1>7. /\ \A e \in Entity \ {f} : live'[e] = live[e] /\ listener'[e] = listener[e] /\ (e \in stranded' <=> e \in stranded)
      /\ kind[f] = "site" => listener'[f] = Gone
  <2>1. \A e \in Entity \ {f} : live'[e] = live[e]
    BY <1>2 DEF ReadLive, SaveConfig, Activate, ActivateFails, Restore, RestoreFails, Saved, IInv, TypeOK
  <2>2. \A e \in Entity \ {f} : listener'[e] = listener[e]
    BY <1>2 DEF ReadLive, SaveConfig, Activate, ActivateFails, Restore, RestoreFails, IInv, TypeOK
  <2>3. kind[f] = "site" => listener' = listener
    BY DEF ReadLive, SaveConfig, Activate, ActivateFails, Restore, RestoreFails
  <2>4. \A e \in Entity \ {f} : e \in stranded' <=> e \in stranded
    BY DEF ReadLive, SaveConfig, Activate, ActivateFails, Restore, RestoreFails, history
  <2> QED
    BY <1>3, <2>1, <2>2, <2>3, <2>4
<1>8. ASSUME kind[f] = "stream", StepInv(w) PROVE Kept
  <2>1. CASE ReadLive(w)
    <3>1. work[w].pc = "read" /\ UNCHANGED <<live, listener, stranded>> /\ Follows(f, live[f])
      BY <1>8, <2>1 DEF ReadLive, Pc, StepInv, history
    <3>2. CASE live[f] = Gone
      BY <1>6, <2>1, <3>1, <3>2 DEF ReadLive, Follows, FollowsNext
    <3>3. CASE live[f] # Gone
      <4>1. work' = [work EXCEPT ![w].pc = "save", ![w].seen = live[f]]
        BY <2>1, <3>3 DEF ReadLive
      <4>2. work'[w].pc = "save" /\ work'[w].entity = f /\ work'[w].seen = live[f]
        BY <1>2, <4>1 DEF IInv, TypeOK, Work
      <4> QED
        BY <3>1, <4>2 DEF StepInv, Follows
    <3> QED
      BY <3>2, <3>3
  <2>2. CASE SaveConfig(w)
    <3>1. work[w].pc = "save" /\ UNCHANGED <<listener, stranded>> /\ Follows(f, work[w].seen) /\ live'[f] = work[w].config
      BY <1>2, <1>8, <2>2 DEF SaveConfig, Saved, Pc, StepInv, IInv, TypeOK, history
    <3>2. Becomes(w, "activate")
      BY <1>8, <2>2 DEF SaveConfig
    <3> QED
      BY <1>5, <3>1, <3>2 DEF StepInv, Follows
  <2>3. CASE Activate(w)
    <3>1. listener'[f] = work[w].config /\ live'[f] = work[w].config /\ (AfterSuccess(w) \/ AfterFailure(w))
      BY <1>2, <1>8, <2>3 DEF Activate, Pc, StepInv, Follows, FollowsNext, IInv, TypeOK
    <3> QED
      BY <1>6, <3>1 DEF FollowsNext
  <2>4. CASE ActivateFails(w)
    <3>1. FollowsNext(f, work[w].seen) /\ live'[f] = work[w].config /\ Becomes(w, "restore")
      BY <1>2, <1>5, <1>8, <2>4 DEF ActivateFails, Pc, StepInv, Follows, FollowsNext, IInv, TypeOK, history
    <3> QED
      BY <1>5, <3>1 DEF StepInv, Follows, FollowsNext
  <2>5. CASE Restore(w)
    <3>1. live'[f] = work[w].seen /\ UNCHANGED <<listener, stranded>> /\ Follows(f, work[w].seen) /\ AfterFailure(w)
      BY <1>2, <1>8, <2>5 DEF Restore, Pc, StepInv, IInv, TypeOK, history
    <3> QED
      BY <1>6, <3>1 DEF Follows, FollowsNext
  <2>6. CASE RestoreFails(w)
    <3>1. f \in stranded' /\ AfterFailure(w)
      BY <2>6 DEF RestoreFails
    <3> QED
      BY <1>6, <3>1 DEF Follows, FollowsNext
  <2> QED
    BY <2>1, <2>2, <2>3, <2>4, <2>5, <2>6
<1> QED
  BY <1>1, <1>2, <1>4, <1>7, <1>8, WriterSteps

LEMMA PickRowListeners == ASSUME IInv, Listeners, NEW w \in Worker, PickRow(w) PROVE Listeners'
<1>1. PICK r \in todo : Begin(w, "read", "due", r.entity, r, r.change, r.change) /\ Overlap(r.entity)
  BY DEF PickRow
<1>2. r.entity \in Entity /\ ~Busy(w) /\ UNCHANGED <<kind, live, listener, stranded>>
  BY <1>1 DEF PickRow, Pc, Busy, IInv, TypeOK, Row
<1> DEFINE x == Started("read", "due", r.entity, r.id, r.attempts, r.change, r.change, r.change)
<1>3. x.pc = "read" /\ x.op = "due" /\ x.entity = r.entity
  BY DEF Started
<1>4. work'[w] = x /\ \A v \in Worker \ {w} : work'[v] = work[v]
  BY <1>1 DEF Begin, Started, IInv, TypeOK
<1> HIDE DEF x
<1>5. Follows(r.entity, live[r.entity]) => StepInv(w)'
  BY <1>2, <1>3, <1>4 DEF StepInv, Follows
<1>6. kind[r.entity] = "site" => listener[r.entity] = Gone
  BY <1>2 DEF Listeners, ListenerInv
<1> QED
  BY <1>1, <1>2, <1>3, <1>4, <1>5, <1>6, WriterBegins

LEMMA NextListeners == ASSUME IInv, Listeners, Cancels, [Next]_vars PROVE Listeners'
<1>1. CASE UNCHANGED vars
  BY <1>1 DEF vars, history, Listeners, ListenerInv, StepInv, Follows, Writing
<1>2. ASSUME NEW w \in Worker, StartRound(w) \/ EndRound(w) PROVE Listeners'
  <2>1. work[w].pc \in {"idle", "pick"} /\ UNCHANGED <<kind, live, listener, overlapped, stranded>>
    BY <1>2 DEF StartRound, EndRound, Pc, history
  <2>2. work'[w].pc \in {"idle", "pick"} /\ \A v \in Worker \ {w} : work'[v] = work[v]
    BY <1>2, Shapes DEF StartRound, EndRound, Becomes, Ends, Pc, Idle, IInv, TypeOK, Work
  <2> QED
    BY <2>1, <2>2, NoWriterSteps
<1>3. ASSUME NEW r \in rows, ComesDue(r) PROVE Listeners'
  BY <1>3 DEF ComesDue, history, Listeners, ListenerInv, StepInv, Follows, Writing
<1>4. CASE Crash
  <2>1. \A e \in Entity : Writing(e)' = {}
    BY <1>4, Shapes DEF Crash, Writing
  <2>2. UNCHANGED <<kind, live, overlapped>>
    BY <1>4 DEF Crash, history
  <2>3. \A e \in Entity : IF kind[e] = "stream" THEN listener'[e] \in {live[e], Gone} ELSE listener'[e] = Gone
    BY <1>4 DEF Crash, ListenersOf
  <2> QED
    BY <2>1, <2>2, <2>3 DEF Listeners, ListenerInv, Follows
<1> QED
  BY <1>1, <1>2, <1>3, <1>4, AcceptListeners, RouteListeners, ApplierListeners, PickRowListeners DEF Next, WorkStep

(* As long as its writers take turns, a stream that nobody changes runs    *)
(* with its row or not at all, whatever saves and activations fail, but    *)
(* for a failing save that was to take a change back, for any number of    *)
(* streams, requests and crashes.                                          *)
THEOREM StreamsFollowRows == Spec => []StreamsRunTheirRow
<1> DEFINE Inv == Listeners /\ Cancels
<1>1. Init => Inv
  BY Shapes DEF Init, Listeners, ListenerInv, Follows, ListenersOf, Writing, Cancels, Busy
<1>2. IInv /\ Inv /\ [Next]_vars => Inv'
  BY NextListeners, NextCancels
<1>3. IInv /\ Inv => StreamsRunTheirRow
  BY DEF IInv, TypeOK, Listeners, ListenerInv, Follows, StreamsRunTheirRow
<1> QED
  BY <1>1, <1>2, <1>3, Invariance, PTL DEF Spec

=============================================================================
