------------------------- MODULE FirewallSync_proofs -------------------------
(***************************************************************************)
(* Proofs about FirewallSync, for every set of networks and of firewalls   *)
(* and every bound.                                                        *)
(*                                                                         *)
(* RowTellsTheFirewall and DeletedDropsNothing speak of moments at which   *)
(* nothing is under way.  Their invariant says what holds in between: a    *)
(* reconciliation that has had the provider for itself since it read the   *)
(* row still holds the row's own target and hash (Alone), and the row and  *)
(* the firewall agree unless a push has yet to be recorded (Agrees).       *)
(***************************************************************************)
EXTENDS FirewallSync, TLAPS

USE DEF bounds

(* The records and functions the variables hold.  What a list contains     *)
(* does not matter here, so its type is left open.                         *)
Shape ==
    /\ row \in [exists : BOOLEAN, enabled : BOOLEAN, target : Target, max : {row.max}, hash : {row.hash}]
    /\ remote = [t \in Target |-> remote[t]]
    /\ \A j \in jobs : /\ j \in [by : {"round", "admin"}, id : {j.id}, pc : {"list", "push", "record"},
                                 row : {j.row}, list : {j.list}, alone : BOOLEAN]
                       /\ j.row.target \in Target
    /\ deleting \in Target \union {NoTarget} /\ suspect \in BOOLEAN

(* A reconciliation nothing has crossed: what it read of the row is still  *)
(* there, and what it pushed too.                                          *)
Alone(j) ==
    /\ jobs = {j} /\ deleting = NoTarget
    /\ row.exists /\ j.row.target = row.target /\ j.row.hash = row.hash
    /\ j.pc = "record" => remote[row.target] = Taken(row.target, j.list)

(* No push is waiting to be recorded and none is in doubt.                 *)
Quiet == ~suspect /\ \A j \in jobs : j.pc # "record"

Agrees ==
    /\ deleting # NoTarget => row.exists
    /\ Quiet /\ row.exists /\ deleting = NoTarget /\ row.hash # NoHash => remote[row.target] = Taken(row.target, row.hash)
    /\ Quiet /\ (deleting # NoTarget \/ ~row.exists) => remote[row.target] = {}

IInv == Shape /\ (\A j \in jobs : j.alone => Alone(j)) /\ Agrees

LEMMA InitIInv == ASSUME Init PROVE IInv
<1>1. (CHOOSE t \in Target : TRUE) \in Target
  BY TargetsNamed
<1> QED BY <1>1 DEF Init, IInv, Shape, Agrees, Quiet

(* An overlap is marked on every reconciliation under way.                 *)
LEMMA CrossedJobs ==
    ASSUME Shape
    PROVE  /\ \A k \in Crossed(jobs) :
                 /\ k \in [by : {"round", "admin"}, id : {k.id}, pc : {"list", "push", "record"},
                           row : {k.row}, list : {k.list}, alone : {FALSE}]
                 /\ \E j \in jobs : k.pc = j.pc /\ k.row = j.row /\ k.list = j.list
           /\ \A j \in jobs : \E k \in Crossed(jobs) : k.pc = j.pc
<1>1. ASSUME NEW j \in jobs
      PROVE  /\ [j EXCEPT !.alone = FALSE] \in
                    [by : {"round", "admin"}, id : {j.id}, pc : {j.pc}, row : {j.row}, list : {j.list}, alone : {FALSE}]
             /\ j.pc \in {"list", "push", "record"}
  BY DEF Shape
<1>2. ASSUME NEW k \in Crossed(jobs)
      PROVE  /\ k \in [by : {"round", "admin"}, id : {k.id}, pc : {"list", "push", "record"},
                       row : {k.row}, list : {k.list}, alone : {FALSE}]
             /\ \E j \in jobs : k.pc = j.pc /\ k.row = j.row /\ k.list = j.list
  <2>1. PICK j \in jobs : k = [j EXCEPT !.alone = FALSE]
    BY DEF Crossed
  <2> QED BY <1>1, <2>1
<1>3. \A j \in jobs : \E k \in Crossed(jobs) : k.pc = j.pc
  BY <1>1 DEF Crossed
<1> QED BY <1>2, <1>3

LEMMA RulesStep ==
    ASSUME IInv, UNCHANGED <<row, remote, jobs, deleting, suspect>>
    PROVE  IInv'
BY DEF IInv, Shape, Alone, Agrees, Quiet

(* The new reconciliation is alone only if nothing else is under way.      *)
LEMMA StartStep ==
    ASSUME IInv, NEW by \in {"round", "admin"}, NEW id, row.exists,
           jobs' = Crossed(jobs) \union {NewJob(by, id)},
           UNCHANGED <<row, remote, deleting, suspect>>
    PROVE  IInv'
<1> DEFINE new == NewJob(by, id)
<1>1. /\ new.by = by /\ new.pc = "list" /\ new.row = row
      /\ new.alone = (jobs = {} /\ deleting = NoTarget)
      /\ new \in [by : {"round", "admin"}, id : {new.id}, pc : {"list", "push", "record"},
                  row : {new.row}, list : {new.list}, alone : BOOLEAN]
  BY DEF NewJob
<1> HIDE DEF new
<1>2. Shape'
  <2>1. \A k \in Crossed(jobs) :
           /\ k \in [by : {"round", "admin"}, id : {k.id}, pc : {"list", "push", "record"},
                     row : {k.row}, list : {k.list}, alone : {FALSE}]
           /\ \E j \in jobs : k.row = j.row
    BY CrossedJobs DEF IInv
  <2>2. \A k \in Crossed(jobs) : k.row.target \in Target
    BY <2>1 DEF IInv, Shape
  <2> QED BY <1>1, <2>1, <2>2 DEF IInv, Shape, new
<1>3. \A j \in jobs' : j.alone => Alone(j)'
  <2>1. \A j \in jobs' : j.alone => j = new /\ jobs = {} /\ deleting = NoTarget
    BY <1>1, CrossedJobs DEF IInv, new
  <2>2. jobs = {} => jobs' = {new}
    BY DEF Crossed, new
  <2> QED BY <1>1, <2>1, <2>2 DEF Alone
<1>4. Quiet' => Quiet
  BY CrossedJobs DEF IInv, Quiet
<1>5. Agrees'
  BY <1>4 DEF IInv, Agrees
<1> QED BY <1>2, <1>3, <1>5 DEF IInv

LEMMA ReadListStep == ASSUME IInv, NEW j \in jobs, ReadList(j) PROVE IInv'
<1> DEFINE k == [j EXCEPT !.pc = "push", !.list = Capped(Aggregated, j.row.max)]
<1>1. /\ jobs' = (jobs \ {j}) \union {k} /\ j.pc = "list"
      /\ UNCHANGED <<row, remote, deleting, suspect>>
  BY DEF ReadList
<1>2. /\ k.pc = "push" /\ k.row = j.row /\ k.alone = j.alone
      /\ k \in [by : {"round", "admin"}, id : {k.id}, pc : {"list", "push", "record"},
                row : {k.row}, list : {k.list}, alone : BOOLEAN]
  BY DEF IInv, Shape
<1> HIDE DEF k
<1>3. Shape'
  BY <1>1, <1>2 DEF IInv, Shape
<1>4. \A i \in jobs' : i.alone => Alone(i)'
  BY <1>1, <1>2 DEF IInv, Alone
<1>5. Agrees'
  BY <1>1, <1>2 DEF IInv, Agrees, Quiet
<1> QED BY <1>3, <1>4, <1>5 DEF IInv

LEMMA SkipStep == ASSUME IInv, NEW j \in jobs, Skip(j) PROVE IInv'
<1>1. Shape'
  BY DEF Skip, Recorded, IInv, Shape
<1>2. \A i \in jobs' : i.alone => Alone(i)'
  BY DEF Skip, IInv, Alone
<1>3. CASE j.alone
  <2>1. row' = row /\ suspect' = suspect /\ jobs = {j} /\ j.pc = "push"
    BY <1>3 DEF Skip, Recorded, IInv, Shape, Alone
  <2>2. Agrees'
    BY <2>1 DEF Skip, IInv, Agrees, Quiet
  <2> QED BY <1>1, <1>2, <2>2 DEF IInv
<1>4. CASE ~j.alone
  <2>1. Agrees'
    BY <1>4 DEF Skip, Recorded, IInv, Shape, Agrees, Quiet
  <2> QED BY <1>1, <1>2, <2>1 DEF IInv
<1> QED BY <1>3, <1>4

LEMMA PushStep == ASSUME IInv, NEW j \in jobs, Push(j) PROVE IInv'
<1> DEFINE k == [j EXCEPT !.pc = "record"]
<1>1. /\ jobs' = (jobs \ {j}) \union {k}
      /\ remote' = [remote EXCEPT ![j.row.target] = Taken(j.row.target, j.list)]
      /\ UNCHANGED <<row, deleting, suspect>>
  BY DEF Push, Advanced
<1>2. /\ k.pc = "record" /\ k.row = j.row /\ k.list = j.list /\ k.alone = j.alone
      /\ k \in [by : {"round", "admin"}, id : {k.id}, pc : {"list", "push", "record"},
                row : {k.row}, list : {k.list}, alone : BOOLEAN]
  BY DEF IInv, Shape
<1> HIDE DEF k
<1>3. Shape'
  BY <1>1, <1>2 DEF IInv, Shape
<1>4. \A i \in jobs' : i.alone => Alone(i)'
  BY <1>1, <1>2 DEF IInv, Alone, Shape
<1>5. Agrees'
  BY <1>1, <1>2 DEF IInv, Agrees, Quiet
<1> QED BY <1>3, <1>4, <1>5 DEF IInv

LEMMA PushFailsStep == ASSUME IInv, NEW j \in jobs, PushFails(j) PROVE IInv'
<1>1. Shape'
  BY DEF PushFails, Recorded, IInv, Shape
<1>2. \A i \in jobs' : i.alone => Alone(i)'
  BY DEF PushFails, IInv, Alone
<1>3. Agrees'
  BY DEF PushFails, Recorded, IInv, Shape, Agrees, Quiet
<1> QED BY <1>1, <1>2, <1>3 DEF IInv

LEMMA RecordStep == ASSUME IInv, NEW j \in jobs, Record(j) PROVE IInv'
<1>1. Shape'
  BY DEF Record, Recorded, IInv, Shape
<1>2. \A i \in jobs' : i.alone => Alone(i)'
  BY DEF Record, IInv, Alone
<1>3. CASE j.alone
  <2>1. row.exists /\ deleting = NoTarget /\ remote[row.target] = Taken(row.target, j.list)
    BY <1>3 DEF Record, IInv, Alone
  <2>2. row' = [row EXCEPT !.hash = j.list] /\ row'.exists /\ row'.target = row.target /\ row'.hash = j.list
    BY <2>1 DEF Record, Recorded, IInv, Shape
  <2>3. Agrees'
    BY <2>1, <2>2 DEF Record, Agrees
  <2> QED BY <1>1, <1>2, <2>3 DEF IInv
<1>4. CASE ~j.alone
  <2>1. Agrees'
    BY <1>4 DEF Record, Recorded, IInv, Shape, Agrees, Quiet
  <2> QED BY <1>1, <1>2, <2>1 DEF IInv
<1> QED BY <1>3, <1>4

LEMMA UpdateStep == ASSUME IInv, NEW e \in BOOLEAN, NEW t \in Target, NEW m \in Caps, Update(e, t, m) PROVE IInv'
<1>1. /\ row'.exists = row.exists /\ row'.target = t /\ row'.hash = row.hash
      /\ row' \in [exists : BOOLEAN, enabled : BOOLEAN, target : Target, max : {row'.max}, hash : {row'.hash}]
  BY DEF Update, IInv, Shape
<1>2. UNCHANGED <<remote, deleting>> /\ suspect' = (suspect \/ t # row.target)
  BY DEF Update
<1>3. CASE t = row.target
  <2>1. jobs' = jobs /\ row'.target = row.target
    BY <1>1, <1>3 DEF Update
  <2>2. Shape'
    BY <1>1, <1>2, <2>1 DEF IInv, Shape
  <2>3. \A j \in jobs' : j.alone => Alone(j)'
    BY <1>1, <1>2, <2>1 DEF IInv, Alone
  <2>4. Agrees'
    BY <1>1, <1>2, <2>1 DEF IInv, Shape, Agrees, Quiet
  <2> QED BY <2>2, <2>3, <2>4 DEF IInv
<1>4. CASE t # row.target
  <2>1. jobs' = Crossed(jobs) /\ suspect' = TRUE
    BY <1>2, <1>4 DEF Update
  <2>2. /\ \A k \in jobs' : /\ k \in [by : {"round", "admin"}, id : {k.id}, pc : {"list", "push", "record"},
                                      row : {k.row}, list : {k.list}, alone : {FALSE}]
                             /\ \E j \in jobs : k.row = j.row
        /\ \A j \in jobs : j.row.target \in Target
    BY <2>1, CrossedJobs DEF IInv, Shape
  <2>3. Shape'
    BY <1>1, <1>2, <2>1, <2>2 DEF IInv, Shape
  <2>4. \A j \in jobs' : ~j.alone
    BY <2>2
  <2>5. Agrees'
    BY <1>1, <1>2, <2>1 DEF IInv, Agrees, Quiet
  <2> QED BY <2>3, <2>4, <2>5 DEF IInv
<1> QED BY <1>3, <1>4

LEMMA TeardownStep == ASSUME IInv, Teardown PROVE IInv'
<1>1. Shape'
  BY CrossedJobs DEF Teardown, IInv, Shape
<1>2. \A j \in jobs' : j.alone => Alone(j)'
  BY CrossedJobs DEF Teardown, IInv
<1>3. Agrees'
  BY TargetsNamed DEF Teardown, IInv, Shape, Agrees, Quiet
<1> QED BY <1>1, <1>2, <1>3 DEF IInv

LEMMA DeleteRowStep == ASSUME IInv, DeleteRow PROVE IInv'
<1>1. Shape'
  BY DEF DeleteRow, IInv, Shape
<1>2. \A j \in jobs' : j.alone => Alone(j)'
  BY DEF DeleteRow, IInv, Alone
<1>3. Agrees'
  BY DEF DeleteRow, IInv, Shape, Agrees, Quiet
<1> QED BY <1>1, <1>2, <1>3 DEF IInv

LEMMA RestartStep == ASSUME IInv, Restart PROVE IInv'
BY DEF Restart, IInv, Shape, Agrees, Quiet

LEMMA NextIInv == ASSUME IInv, [Next]_vars PROVE IInv'
<1>1. CASE UNCHANGED vars \/ (\E c \in Ruled : ChangeRule(c)) \/ \E c \in Trusted : ChangeWhitelist(c)
  BY <1>1, RulesStep DEF vars, ChangeRule, ChangeWhitelist
<1>2. CASE StartRound \/ StartManual
  BY <1>2, StartStep DEF StartRound, StartManual
<1>3. CASE \E by \in {"round", "admin"} : JobStep(by)
  BY <1>3, ReadListStep, SkipStep, PushStep, PushFailsStep, RecordStep DEF JobStep
<1>4. CASE \E e \in BOOLEAN, t \in Target, m \in Caps : Update(e, t, m)
  BY <1>4, UpdateStep
<1>5. CASE Teardown \/ DeleteRow \/ Restart
  BY <1>5, TeardownStep, DeleteRowStep, RestartStep
<1> QED BY <1>1, <1>2, <1>3, <1>4, <1>5 DEF Next

(* The row and the firewall agree, also while reconciliations overlap.     *)
THEOREM Invariance == Spec => []IInv
BY InitIInv, NextIInv, PTL DEF Spec

(* A round that reconcileProvider ends early, because the hash in the row  *)
(* is that of the list, leaves a firewall that drops just this list.       *)
THEOREM HashTellsTheFirewall == Spec => []RowTellsTheFirewall
<1>1. IInv => RowTellsTheFirewall
  BY DEF IInv, Agrees, Quiet, InStep, RowTellsTheFirewall
<1> QED BY <1>1, Invariance, PTL

(* deleteProvider leaves nothing behind on a firewall it could reach.      *)
THEOREM NothingLeftBehind == Spec => []DeletedDropsNothing
<1>1. IInv => DeletedDropsNothing
  BY DEF IInv, Agrees, Quiet, InStep, DeletedDropsNothing
<1> QED BY <1>1, Invariance, PTL
=============================================================================
