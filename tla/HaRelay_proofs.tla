-------------------------- MODULE HaRelay_proofs --------------------------
(***************************************************************************)
(* Proofs about the session relay: it implements RelayChannel, a node      *)
(* keeps sight of its own sessions, and quiet replicas have the tables of  *)
(* the primary.                                                            *)
(*                                                                         *)
(* The argument is about watermarks.  Tables and snapshots carry, for each *)
(* node, the id of its last relay among the changelog rows they stand for  *)
(* (Marks); so a replica that has the whole changelog has the primary's    *)
(* watermarks, and no change of the primary moves them.  The primary's     *)
(* watermark of a node is the last of its writes that was accepted         *)
(* (History).  Whatever is on its way to the primary and beyond that       *)
(* watermark is still in the outbox, with nothing older waiting before it  *)
(* (Sent), or is a patch rejected before: so a relay is accepted in its    *)
(* turn, and once.  Only the rows of SQLite are committed in the order of  *)
(* their ids (InOrder): elsewhere an acknowledgement may remove a row that *)
(* was never accepted.                                                     *)
(***************************************************************************)
EXTENDS HaRelay, TLAPS

(* Row k of the changelog g is a relay of m.                               *)
RelayAt(g, k, m) == g[k].type = "relay" /\ g[k].by = m

(* v is the highest id of the relays of m in the rows of g up to k, 0 if   *)
(* there is none.                                                          *)
MarkAt(g, v, m, k) ==
    /\ \A i \in 1..k : RelayAt(g, i, m) => g[i].write.id <= v
    /\ v = 0 \/ \E i \in 1..k : RelayAt(g, i, m) /\ g[i].write.id = v

(* The relays of a node stand in the changelog in the order of their ids.  *)
Ordered(g) ==
    \A m \in Node : \A i, j \in 1..Len(g) :
        RelayAt(g, i, m) /\ RelayAt(g, j, m) /\ i < j => g[i].write.id < g[j].write.id

(* The watermarks say how far tables and snapshots have come.              *)
Marks ==
    /\ Ordered(log)
    /\ \A m \in Node : MarkAt(log, db[primary].wm[m], m, Len(log))
    /\ \A n \in Replicas : bootstrapped[n] => \A m \in Node : MarkAt(log, db[n].wm[m], m, cursor[n])
    /\ snap[primary] = NoSnapshot
    /\ \A n \in Node : Busy(n) => \A m \in Node : MarkAt(log, snap[n].tables.wm[m], m, snap[n].seq)

Mark(n) == db[primary].wm[n]

(* The primary's watermark of n is the last relay of n that was accepted.  *)
History(n) ==
    /\ Mark(n) = IF accepted[n] = <<>> THEN 0 ELSE accepted[n][Len(accepted[n])]
    /\ \A k \in DOMAIN accepted[n] : accepted[n][k] <= Mark(n)
    /\ Mark(n) <= nextId[n]

(* Relays of n on their way to the primary.                                *)
Transit(n) ==
    drains[n] \union Range(toPrimary[n])
        \union (IF handling # NoRelay /\ handling.by = n THEN {handling.write} ELSE {})

Known(n) == outbox[n] \union open[n] \union Transit(n)

(* An id is one write, and that of an open transaction is new.             *)
Numbered(n) ==
    /\ \A w \in Known(n) : w.id <= nextId[n]
    /\ \A u, w \in Known(n) : u.id = w.id => u = w
    /\ open[n] \intersect (outbox[n] \union Transit(n)) = {}
    /\ \A w \in open[n] : w.id \notin Range(accepted[n])
    /\ n \in Sqlite \union {primary} => open[n] = {}

(* It is the turn of i: no row of an SQLite node that waits is older.      *)
Turn(n, i) == n \in Sqlite => \A v \in outbox[n] : v.id > Mark(n) => i <= v.id

(* What passes the watermark is a row of the outbox whose turn it is, or a *)
(* rejected patch of a user who is gone.                                   *)
Sent(n) ==
    \A w \in Transit(n) : w.id > Mark(n) =>
        IF w \in outbox[n] THEN Turn(n, w.id) ELSE w.op = "patch" /\ db[primary].user = Gone

(* An SQLite node commits in order: what the watermark has passed was      *)
(* accepted.                                                               *)
InOrder(n) ==
    n \in Sqlite => \A v \in outbox[n] : v.id <= Mark(n) => v.id \in Range(accepted[n])

(* An acknowledged relay is behind the watermark; a rejected one is that   *)
(* of a user who is gone, and its turn has come.                           *)
Answered(n) ==
    \A a \in Range(toReplica[n]) :
        /\ a.type = "relay_ack" => a.id <= Mark(n)
        /\ a.type = "relay_reject" =>
              /\ db[primary].user = Gone /\ a.id <= nextId[n]
              /\ \A w \in Known(n) : w.id = a.id => w.op = "patch" /\ w \notin open[n]
              /\ (\E w \in outbox[n] : w.id = a.id) => Turn(n, a.id)

RelayInv(n) == History(n) /\ Numbered(n) /\ Sent(n) /\ InOrder(n) /\ Answered(n)

TypeInv ==
    /\ TypeOK
    /\ \A n \in Node : nextId[n] + writes <= MaxWrites

IInv == TypeInv /\ Marks /\ \A n \in Node : RelayInv(n)
LEMMA AppliedType ==
    ASSUME NEW d \in Tables, NEW m \in Node, NEW w \in Write, Applicable(d, w)
    PROVE  Applied(d, m, w) \in Tables /\ Applied(d, m, w).wm = d.wm
<1>1. <<m, w.id>> \in Key /\ w.op \in RelayOp
  BY DEF Key, Write
<1>2. CASE w.op = "insert"
  BY <1>1, <1>2 DEF Applied, Tables
<1>3. CASE w.op = "patch"
  BY <1>1, <1>3 DEF Applied, Applicable, Tables
<1> QED BY <1>1, <1>2, <1>3 DEF RelayOp

(* applyChangelogRow moves the watermark of the node whose relay it is.    *)
LEMMA AfterRowType ==
    ASSUME NEW n \in Node, NEW d \in Tables, NEW e \in Event
    PROVE  /\ AfterRow(n, d, e) \in Tables
           /\ AfterRow(n, d, e).wm = IF e.type = "relay" THEN [d.wm EXCEPT ![e.by] = e.write.id] ELSE d.wm
<1>1. CASE e.type = "user"
  BY <1>1 DEF AfterRow, Tables, Event
<1>2. CASE e.type = "relay"
  <2>1. e.by \in Node /\ e.write \in Write /\ e.write.id \in Nat /\ e.row \in (SUBSET Key) \union {Gone}
    BY <1>2, BoundsAreNat DEF Event, Write, Id
  <2>2. CASE e.by = n
    BY <1>2, <2>1, <2>2 DEF AfterRow, Tables
  <2>3. CASE e.by # n /\ e.write.op = "insert"
    <3>1. AfterRow(n, d, e) = [Applied(d, e.by, e.write) EXCEPT !.wm[e.by] = e.write.id]
      BY <1>2, <2>3 DEF AfterRow
    <3>2. Applied(d, e.by, e.write) \in Tables /\ Applied(d, e.by, e.write).wm = d.wm
      BY <2>1, <2>3, AppliedType DEF Applicable
    <3> QED BY <1>2, <2>1, <3>1, <3>2 DEF Tables
  <2>4. CASE e.by # n /\ e.write.op # "insert"
    <3>1. AfterRow(n, d, e) = [d EXCEPT !.user = e.row, !.wm = [d.wm EXCEPT ![e.by] = e.write.id]]
      BY <1>2, <2>1, <2>4 DEF AfterRow, Tables
    <3>2. [d.wm EXCEPT ![e.by] = e.write.id] \in [Node -> Nat]
      BY <2>1 DEF Tables
    <3> QED BY <1>2, <2>1, <3>1, <3>2 DEF Tables
  <2> QED BY <2>2, <2>3, <2>4
<1> QED BY <1>1, <1>2 DEF Event

LEMMA ReappliedType ==
    ASSUME TypeOK, NEW n \in Node, NEW d \in Tables
    PROVE  Reapplied(n, d) \in Tables /\ Reapplied(n, d).wm = d.wm
<1>1. \A w \in NotIn(n, d) : <<n, w.id>> \in Key
  BY DEF NotIn, TypeOK, Key, Write
<1> DEFINE S == d.sessions \union {<<n, w.id>> : w \in {w \in NotIn(n, d) : w.op = "insert"}}
           U == IF d.user = Gone THEN Gone
                ELSE d.user \union {<<n, w.id>> : w \in {w \in NotIn(n, d) : w.op = "patch"}}
<1>2. Reapplied(n, d) = [d EXCEPT !.sessions = S, !.user = U]
  BY DEF Reapplied, Tables
<1>3. S \in SUBSET Key /\ U \in (SUBSET Key) \union {Gone}
  BY <1>1 DEF Tables
<1> HIDE DEF S, U
<1> QED BY <1>2, <1>3 DEF Tables

LEMMA ClosedType ==
    ASSUME TypeOK, NEW n \in Node, Closed(n)
    PROVE  /\ conn' \in [Node -> {"down", "syncing", "connected"}] /\ conn'[primary] = "down"
           /\ inFlight' \in [Node -> 0..MaxWrites] /\ late' \in [Node -> BOOLEAN]
           /\ toPrimary' \in [Node -> Seq(Write)]
           /\ toReplica' \in [Node -> Seq([type : {"relay_ack", "relay_reject"}, id : Id])]
           /\ handling' \in [by : Node, write : Write, live : BOOLEAN] \union {NoRelay}
<1>1. conn' \in [Node -> {"down", "syncing", "connected"}] /\ conn'[primary] = "down"
  BY DEF TypeOK, Closed
<1>2. inFlight' \in [Node -> 0..MaxWrites] /\ late' \in [Node -> BOOLEAN]
  <2>1. 0 \in 0..MaxWrites
    BY BoundsAreNat
  <2> QED BY <2>1 DEF TypeOK, Closed
<1>3. toPrimary' \in [Node -> Seq(Write)]
  BY DEF TypeOK, Closed
<1>4. toReplica' \in [Node -> Seq([type : {"relay_ack", "relay_reject"}, id : Id])]
  <2> DEFINE A == [type : {"relay_ack", "relay_reject"}, id : Id]
  <2>1. toReplica \in [Node -> Seq(A)]
    BY DEF TypeOK
  <2> HIDE DEF A
  <2>2. toReplica' \in [Node -> Seq(A)]
    BY <2>1 DEF Closed
  <2> QED BY <2>2 DEF A
<1>5. handling' \in [by : Node, write : Write, live : BOOLEAN] \union {NoRelay}
  BY DEF TypeOK, Closed
<1> QED BY <1>1, <1>2, <1>3, <1>4, <1>5

(* The relay a primary accepts becomes the last row of the changelog.      *)
LEMMA AcceptType ==
    ASSUME TypeOK, NEW p \in Node, NEW m \in Node, NEW w \in Write, Applicable(db[p], w), AcceptRelay(p,
             m, w)
    PROVE  /\ db' \in [Node -> Tables] /\ log' \in Seq(Event) /\ Len(log') = Len(log) + 1
           /\ accepted' \in [Node -> Seq(Id)]
           /\ \A q \in Node \ {p} : db'[q] = db[q]
           /\ db'[p].wm = [db[p].wm EXCEPT ![m] = w.id]
           /\ db[p].user = Gone => db'[p].user = Gone
           /\ \E e \in Event : log' = Append(log, e) /\ e.type = "relay" /\ e.by = m /\ e.write = w
           /\ accepted' = [accepted EXCEPT ![m] = Append(@, w.id)]
<1> DEFINE a == Applied(db[p], m, w)
           d == [a EXCEPT !.wm[m] = w.id]
           e == [type |-> "relay", by |-> m, write |-> w, row |-> d.user]
<1>1. a \in Tables /\ a.wm = db[p].wm /\ db[p] \in Tables /\ w.id \in Id /\ w.id \in Nat
  <2>1. db[p] \in Tables
    BY DEF TypeOK
  <2>2. w.id \in Id /\ w.id \in Nat
    BY BoundsAreNat DEF Write, Id
  <2> QED BY <2>1, <2>2, AppliedType
<1>2. d \in Tables /\ d.wm = [db[p].wm EXCEPT ![m] = w.id] /\ d.user = a.user
  BY <1>1 DEF Tables
<1>3. e \in Event
  BY <1>2 DEF Event, Tables
<1>4. db' = [db EXCEPT ![p] = d] /\ log' = Append(log, e)
  BY DEF AcceptRelay
<1>5. db[p].user = Gone => a.user = db[p].user
  BY <1>1 DEF Applied, Applicable, Tables, Write, RelayOp
<1>6. accepted' \in [Node -> Seq(Id)]
  BY <1>1 DEF AcceptRelay, TypeOK
<1>7. accepted' = [accepted EXCEPT ![m] = Append(@, w.id)]
  BY DEF AcceptRelay
<1>8. e.type = "relay" /\ e.by = m /\ e.write = w
  OBVIOUS
<1>9. db' \in [Node -> Tables] /\ db'[p] = d /\ \A q \in Node \ {p} : db'[q] = db[q]
  BY <1>2, <1>4 DEF TypeOK
<1> HIDE DEF a, d, e
<1>10. log' \in Seq(Event) /\ Len(log') = Len(log) + 1
  BY <1>3, <1>4 DEF TypeOK
<1> QED BY <1>2, <1>3, <1>4, <1>5, <1>6, <1>7, <1>8, <1>9, <1>10

(* The type invariant by parts.                                            *)
LEMMA TypeParts ==
    ASSUME TypeInv
    PROVE  /\ primary \in Node /\ db \in [Node -> Tables]
           /\ log \in Seq(Event) /\ Len(log) \in Nat /\ cursor \in [Node -> 0..Len(log)]
           /\ bootstrapped \in [Node -> BOOLEAN]
           /\ nextId \in [Node -> 0..MaxWrites] /\ writes \in Nat
           /\ \A n \in Node : nextId[n] + writes <= MaxWrites
           /\ open \in [Node -> SUBSET Write] /\ outbox \in [Node -> SUBSET Write]
           /\ drains \in [Node -> SUBSET Write] /\ inFlight \in [Node -> 0..MaxWrites]
           /\ late \in [Node -> BOOLEAN] /\ faults \in Nat
           /\ accepted \in [Node -> Seq(Id)] /\ strayed \subseteq Node
BY DEF TypeInv, TypeOK

(* What was within the changelog is within a longer one.                   *)
LEMMA LongerLog ==
    ASSUME TypeInv, Len(log) \in Nat, Len(log') \in Nat, Len(log') >= Len(log), log' \in Seq(Event),
           db' \in [Node -> Tables], accepted' \in [Node -> Seq(Id)], outbox' \in [Node -> SUBSET Write],
           toReplica' \in [Node -> Seq([type : {"relay_ack", "relay_reject"}, id : Id])],
           handling' \in [by : Node, write : Write, live : BOOLEAN] \union {NoRelay},
           adminWrites' \in Nat, faults' \in Nat, strayed' \subseteq Node,
           UNCHANGED <<primary, booting, base, cursor, bootstrapped, nextId, open, conn, snap, drains,
                       inFlight,
                       late, toPrimary, writes, promotions>>
    PROVE  TypeInv'
<1>1. base' \in 0..Len(log') /\ cursor' \in [Node -> 0..Len(log')]
  <2>1. base \in 0..Len(log) /\ cursor \in [Node -> 0..Len(log)]
    BY DEF TypeInv, TypeOK
  <2> QED BY <2>1
<1>2. snap' \in [Node -> [tables : Tables, seq : 0..Len(log')] \union {NoSnapshot}]
  <2> SUFFICES ASSUME NEW n \in Node, snap[n] # NoSnapshot
               PROVE  snap[n] \in [tables : Tables, seq : 0..Len(log')]
    BY DEF TypeInv, TypeOK
  <2>1. snap[n] \in [tables : Tables, seq : 0..Len(log)]
    BY DEF TypeInv, TypeOK
  <2> QED BY <2>1
<1> QED BY <1>1, <1>2 DEF TypeInv, TypeOK

LEMMA TypeInit == ASSUME Init PROVE TypeInv
<1>1. MaxWrites \in Nat /\ MaxAdmin \in Nat /\ MaxFaults \in Nat /\ MaxPromotions \in Nat
  BY BoundsAreNat
<1>2. db \in [Node -> Tables]
  BY DEF Init, Tables
<1>3. log \in Seq(Event) /\ Len(log) = 0
  BY DEF Init
<1>4. toReplica \in [Node -> Seq([type : {"relay_ack", "relay_reject"}, id : Id])]
        /\ toPrimary \in [Node -> Seq(Write)]
  BY DEF Init
<1>5. accepted \in [Node -> Seq(Id)]
  BY DEF Init
<1>6. snap \in [Node -> [tables : Tables, seq : 0..Len(log)] \union {NoSnapshot}]
  BY DEF Init
<1>7. /\ base \in 0..Len(log) /\ cursor \in [Node -> 0..Len(log)] /\ nextId \in [Node -> 0..MaxWrites]
      /\ inFlight \in [Node -> 0..MaxWrites] /\ \A n \in Node : nextId[n] + writes <= MaxWrites
  BY <1>1, <1>3 DEF Init
<1> QED BY <1>1, <1>2, <1>3, <1>4, <1>5, <1>6, <1>7, MembersFinite DEF Init, TypeInv, TypeOK

LEMMA TypeNext == ASSUME TypeInv, [Next]_vars PROVE TypeInv'
<1>1. MaxWrites \in Nat
  BY BoundsAreNat
<1>a. primary \in Node /\ db \in [Node -> Tables]
  BY TypeParts
<1>b. log \in Seq(Event) /\ Len(log) \in Nat /\ cursor \in [Node -> 0..Len(log)]
        /\ bootstrapped \in [Node -> BOOLEAN]
  BY TypeParts
<1>c. nextId \in [Node -> 0..MaxWrites] /\ writes \in Nat /\ \A n \in Node : nextId[n] + writes <= MaxWrites
  BY TypeParts
<1>d. open \in [Node -> SUBSET Write] /\ outbox \in [Node -> SUBSET Write]
        /\ drains \in [Node -> SUBSET Write]
  BY TypeParts
<1>e. inFlight \in [Node -> 0..MaxWrites] /\ late \in [Node -> BOOLEAN]
  BY TypeParts
<1>f. faults \in Nat /\ accepted \in [Node -> Seq(Id)] /\ strayed \subseteq Node
  BY TypeParts
<1>2. ASSUME NEW n \in Node, NEW op \in RelayOp, WriteSerially(n, op) PROVE TypeInv'
  <2>1. NextWrite(n, op) \in Write /\ writes' \in Nat /\ nextId' \in [Node -> 0..MaxWrites]
        /\ \A m \in Node : nextId'[m] + writes' <= MaxWrites
    BY <1>1, <1>2, <1>c DEF WriteSerially, TakeId, NextWrite, Write, Id
  <2>2. outbox' \in [Node -> SUBSET Write] /\ db' \in [Node -> Tables]
    BY <1>2, <1>a, <1>d, <2>1, AppliedType DEF WriteSerially, Commit
  <2> QED BY <1>2, <2>1, <2>2 DEF TypeInv, WriteSerially, TypeOK, channel, history
<1>3. ASSUME NEW n \in Node, NEW op \in RelayOp, BeginWrite(n, op) PROVE TypeInv'
  <2>1. NextWrite(n, op) \in Write /\ writes' \in Nat /\ nextId' \in [Node -> 0..MaxWrites]
        /\ \A m \in Node : nextId'[m] + writes' <= MaxWrites
    BY <1>1, <1>3, <1>c DEF BeginWrite, TakeId, NextWrite, Write, Id
  <2>2. open' \in [Node -> SUBSET Write]
    BY <1>3, <1>d, <2>1 DEF BeginWrite
  <2> QED BY <1>3, <2>1, <2>2 DEF TypeInv, BeginWrite, TypeOK, tables, channel, history
<1>4. ASSUME NEW n \in Node, CommitWrite(n) PROVE TypeInv'
  <2>1. outbox' \in [Node -> SUBSET Write] /\ db' \in [Node -> Tables] /\ open' \in [Node -> SUBSET Write]
    BY <1>4, <1>a, <1>d, AppliedType DEF CommitWrite, Commit
  <2> QED BY <1>4, <2>1 DEF TypeInv, CommitWrite, TypeOK, channel, bounds, history
<1>5. ASSUME NEW n \in Node, RollbackWrite(n) PROVE TypeInv'
  <2>1. open' \in [Node -> SUBSET Write]
    BY <1>5, <1>d DEF RollbackWrite
  <2> QED BY <1>5, <2>1 DEF TypeInv, RollbackWrite, TypeOK, tables, channel, bounds, history
<1>6. ASSUME NEW n \in Node, Connect(n) \/ BecomeConnected(n) PROVE TypeInv'
  <2>1. conn' \in [Node -> {"down", "syncing", "connected"}] /\ conn'[primary] = "down"
    BY <1>6 DEF TypeInv, Connect, BecomeConnected, TypeOK
  <2>2. UNCHANGED <<primary, booting, tables, queue, snap, channel, toReplica, handling, bounds, history>>
    BY <1>6 DEF Connect, BecomeConnected
  <2> QED BY <2>1, <2>2 DEF TypeInv, TypeOK, tables, queue, channel, bounds, history
<1>7. ASSUME NEW n \in Node, FetchSnapshot(n) PROVE TypeInv'
  <2>1. [tables |-> db[primary], seq |-> Len(log)] \in [tables : Tables, seq : 0..Len(log)]
    BY DEF TypeInv, TypeOK
  <2> DEFINE S == [tables : Tables, seq : 0..Len(log)] \union {NoSnapshot}
  <2>2. snap \in [Node -> S] /\ UNCHANGED log
    BY <1>7 DEF TypeInv, TypeOK, FetchSnapshot, tables
  <2>3. snap' = [snap EXCEPT ![n] = [tables |-> db[primary], seq |-> Len(log)]]
    BY <1>7 DEF FetchSnapshot
  <2>4. snap' \in [Node -> S]
    BY <2>1, <2>2, <2>3
  <2> QED BY <1>7, <2>4 DEF TypeInv, FetchSnapshot, TypeOK, tables, queue, channel, bounds, history
<1>8. ASSUME NEW n \in Node, ReconcileSnapshot(n) PROVE TypeInv'
  <2>1. snap[n].tables \in Tables /\ snap[n].seq \in 0..Len(log)
    BY <1>8 DEF TypeInv, ReconcileSnapshot, Busy, TypeOK
  <2>2. snap' \in [Node -> [tables : Tables, seq : 0..Len(log)] \union {NoSnapshot}]
    BY <1>8 DEF TypeInv, ReconcileSnapshot, TypeOK
  <2>3. CASE Closed(n) /\ UNCHANGED <<db, cursor, bootstrapped, strayed>>
    BY <1>8, <2>2, <2>3, ClosedType DEF TypeInv, ReconcileSnapshot, TypeOK, queue, bounds
  <2>4. CASE /\ db' = [db EXCEPT ![n] = Reapplied(n, snap[n].tables)]
             /\ cursor' = [cursor EXCEPT ![n] = snap[n].seq]
             /\ bootstrapped' = [bootstrapped EXCEPT ![n] = TRUE]
             /\ strayed' = strayed \ {n}
             /\ UNCHANGED <<conn, inFlight, late, toPrimary, toReplica, handling>>
    <3>1. db' \in [Node -> Tables]
      BY <2>1, <2>4, ReappliedType DEF TypeInv, TypeOK
    <3>2. cursor' \in [Node -> 0..Len(log)] /\ bootstrapped' \in [Node -> BOOLEAN]
            /\ strayed' \subseteq Node
      BY <2>1, <2>4 DEF TypeInv, TypeOK
    <3> QED BY <1>8, <2>2, <2>4, <3>1, <3>2 DEF TypeInv, ReconcileSnapshot, TypeOK, queue, bounds
  <2> QED BY <1>8, <2>3, <2>4 DEF ReconcileSnapshot
<1>9. ASSUME NEW n \in Node, ApplyRow(n) PROVE TypeInv'
  <2>1. cursor[n] + 1 \in 1..Len(log) /\ log[cursor[n] + 1] \in Event
    BY <1>9, <1>b DEF ApplyRow
  <2>2. db' \in [Node -> Tables]
    BY <1>9, <1>a, <2>1, AfterRowType DEF ApplyRow
  <2>3. cursor' \in [Node -> 0..Len(log)] /\ strayed' \subseteq Node
    BY <1>9, <1>b, <1>f, <2>1 DEF ApplyRow
  <2> QED BY <1>9, <2>2, <2>3 DEF TypeInv, ApplyRow, TypeOK, queue, channel, bounds
<1>10. ASSUME NEW n \in Node, DrainRead(n) \/ DrainDropped(n) PROVE TypeInv'
  <2>1. drains' \in [Node -> SUBSET Write]
    <3>1. CASE DrainRead(n)
      BY <3>1, <1>d DEF DrainRead
    <3>2. CASE DrainDropped(n)
      BY <3>2, <1>d DEF DrainDropped
    <3> QED BY <1>10, <3>1, <3>2
  <2>2. UNCHANGED <<primary, booting, tables, queue, conn, snap, inFlight, late, toPrimary, toReplica,
                    handling, bounds, history>>
    BY <1>10 DEF DrainRead, DrainDropped
  <2> QED BY <2>1, <2>2 DEF TypeInv, TypeOK, tables, queue, bounds, history
<1>11. ASSUME NEW n \in Node, DrainSend(n) PROVE TypeInv'
  <2>1. PICK w \in drains[n] :
            /\ drains' = [drains EXCEPT ![n] = @ \ {w}]
            /\ inFlight' = [inFlight EXCEPT ![n] = w.id]
            /\ late' = [late EXCEPT ![n] = FALSE]
            /\ toPrimary' = IF conn[n] = "connected" THEN [toPrimary EXCEPT ![n] = Append(@,
                 w)] ELSE toPrimary
    BY <1>11 DEF DrainSend
  <2>2. w \in Write /\ w.id \in 0..MaxWrites
    <3>1. w \in Write
      BY <1>d
    <3> QED BY <1>1, <3>1 DEF Write, Id
  <2>3. drains' \in [Node -> SUBSET Write] /\ late' \in [Node -> BOOLEAN]
    BY <2>1 DEF TypeInv, TypeOK
  <2>4. inFlight' \in [Node -> 0..MaxWrites]
    BY <2>1, <2>2 DEF TypeInv, TypeOK
  <2>5. toPrimary' \in [Node -> Seq(Write)]
    <3>1. toPrimary \in [Node -> Seq(Write)] /\ Append(toPrimary[n], w) \in Seq(Write)
      BY <2>2 DEF TypeInv, TypeOK
    <3> QED BY <2>1, <3>1
  <2> QED BY <1>11, <2>3, <2>4, <2>5 DEF TypeInv, DrainSend, TypeOK, tables, queue, bounds, history
<1>12. ASSUME NEW n \in Node, AckTimeout(n) PROVE TypeInv'
  BY <1>12 DEF TypeInv, AckTimeout, TypeOK, tables, queue, bounds, history
<1>13. ASSUME NEW n \in Node, HandleAck(n) PROVE TypeInv'
  <2> DEFINE A == [type : {"relay_ack", "relay_reject"}, id : Id]
  <2>1. toReplica \in [Node -> Seq(A)] /\ toReplica[n] # <<>>
          /\ toReplica' = [toReplica EXCEPT ![n] = Tail(@)]
    BY <1>13 DEF TypeInv, HandleAck, TypeOK
  <2> HIDE DEF A
  <2>2. toReplica' \in [Node -> Seq(A)]
    BY <2>1
  <2> DEFINE id == Head(toReplica[n]).id
             mine == inFlight[n] = id
  <2>3. \/ /\ outbox' = [outbox EXCEPT ![n] = Without(n, id)]
           /\ inFlight' = [inFlight EXCEPT ![n] = IF mine THEN 0 ELSE @]
           /\ late' = [late EXCEPT ![n] = IF mine THEN FALSE ELSE @]
           /\ strayed' = IF id \in Range(accepted[n]) THEN strayed ELSE strayed \union {n}
           /\ UNCHANGED faults
        \/ /\ faults > 0 /\ faults' = faults - 1
           /\ late' = [late EXCEPT ![n] = inFlight[n] # 0]
           /\ UNCHANGED <<outbox, inFlight, strayed>>
    BY <1>13 DEF HandleAck
  <2>4. Without(n, id) \subseteq outbox[n] /\ mine \in BOOLEAN /\ (inFlight[n] # 0) \in BOOLEAN
    BY DEF Without
  <2> HIDE DEF id, mine
  <2>5. outbox' \in [Node -> SUBSET Write]
    BY <2>3, <2>4, <1>d
  <2>6. inFlight' \in [Node -> 0..MaxWrites]
    <3>1. (IF mine THEN 0 ELSE inFlight[n]) \in 0..MaxWrites
      BY <1>1, <1>e
    <3> QED BY <1>e, <2>3, <3>1
  <2>7. late' \in [Node -> BOOLEAN]
    BY <1>e, <2>3
  <2>10. faults' \in Nat
    <3>1. UNCHANGED faults \/ (faults > 0 /\ faults' = faults - 1)
      BY <2>3
    <3> QED BY <1>f, <3>1
  <2>8. strayed' \subseteq Node /\ faults' \in Nat
    BY <1>f, <2>3, <2>10
  <2>9. UNCHANGED <<primary, booting, tables, nextId, open, conn, snap, drains, toPrimary, handling,
                    writes, adminWrites, promotions, accepted>>
    BY <1>13 DEF HandleAck
  <2> QED BY <2>2, <2>5, <2>6, <2>7, <2>8, <2>9 DEF TypeInv, TypeOK, tables, A
<1>14. ASSUME NEW n \in Node, HandleReject(n) PROVE TypeInv'
  <2>1. bootstrapped' \in [Node -> BOOLEAN] /\ faults' \in Nat
    BY <1>14, <1>b, <1>f DEF HandleReject
  <2>2. outbox' \in [Node -> SUBSET Write]
    <3>1. Without(n, Head(toReplica[n]).id) \subseteq outbox[n]
      BY DEF Without
    <3> QED BY <1>14, <1>d, <3>1 DEF HandleReject
  <2> QED BY <1>14, <2>1, <2>2, ClosedType DEF TypeInv, HandleReject, TypeOK, history
<1>15. ASSUME NEW n \in Node, TakeRelay(n) PROVE TypeInv'
  <2>1. toPrimary' \in [Node -> Seq(Write)] /\ Head(toPrimary[n]) \in Write
    <3>1. toPrimary \in [Node -> Seq(Write)]
      BY DEF TypeInv, TypeOK
    <3> QED BY <1>15, <3>1 DEF TakeRelay
  <2>2. handling' \in [by : Node, write : Write, live : BOOLEAN]
    BY <1>15, <2>1 DEF TakeRelay
  <2> QED BY <1>15, <2>1, <2>2 DEF TypeInv, TakeRelay, TypeOK, tables, queue, bounds, history
<1>16. ASSUME NEW n \in Node, Disconnect(n) PROVE TypeInv'
  <2>1. faults' \in Nat
    BY <1>16 DEF TypeInv, Disconnect, TypeOK
  <2> QED BY <1>16, <2>1, ClosedType DEF TypeInv, Disconnect, TypeOK, tables, queue, history
<1>17. ASSUME NEW n \in Node, RestartReplica(n) PROVE TypeInv'
  <2>1. faults' \in Nat /\ open' \in [Node -> SUBSET Write] /\ drains' \in [Node -> SUBSET Write]
    BY <1>17, <1>d, <1>f DEF RestartReplica
  <2>2. snap' \in [Node -> [tables : Tables, seq : 0..Len(log)] \union {NoSnapshot}]
    BY <1>17 DEF TypeInv, RestartReplica, TypeOK
  <2> QED BY <1>17, <2>1, <2>2, ClosedType DEF TypeInv, RestartReplica, TypeOK, tables, history
<1>18. ASSUME NEW n \in Node, Promote(n) PROVE TypeInv'
  <2>1. promotions' \in Nat /\ base' \in 0..Len(log) /\ bootstrapped' \in [Node -> BOOLEAN]
          /\ strayed' \subseteq Node
    BY <1>18 DEF TypeInv, Promote, TypeOK
  <2>2. outbox' \in [Node -> SUBSET Write]
    BY <1>18 DEF TypeInv, Promote, TypeOK
  <2>3. snap' \in [Node -> [tables : Tables, seq : 0..Len(log)] \union {NoSnapshot}]
    BY <1>18 DEF Promote
  <2>4. inFlight' \in [Node -> 0..MaxWrites] /\ late' \in [Node -> BOOLEAN]
          /\ toPrimary' \in [Node -> Seq(Write)]
    BY <1>1, <1>18 DEF Promote
  <2>5. toReplica' \in [Node -> Seq([type : {"relay_ack", "relay_reject"}, id : Id])]
    BY <1>18 DEF Promote
  <2> QED BY <1>18, <2>1, <2>2, <2>3, <2>4, <2>5 DEF TypeInv, Promote, TypeOK
<1>19. CASE HandleRelay
  <2> DEFINE R == [by : Node, write : Write, live : BOOLEAN]
             A == [type : {"relay_ack", "relay_reject"}, id : Id]
  <2>1. handling \in R /\ handling.by \in Node /\ handling.write \in Write /\ handling.write.id \in Id
    BY <1>19 DEF TypeInv, HandleRelay, TypeOK, Write
  <2>2. ASSUME NEW t \in {"relay_ack", "relay_reject"}, Answer(t) PROVE toReplica' \in [Node -> Seq(A)]
    <3>1. [type |-> t, id |-> handling.write.id] \in A /\ toReplica \in [Node -> Seq(A)]
      BY <2>1 DEF TypeInv, TypeOK
    <3> HIDE DEF A
    <3> QED BY <2>1, <2>2, <3>1 DEF Answer
  <2>3. toReplica' \in [Node -> Seq(A)]
    BY <1>19, <2>2 DEF HandleRelay
  <2>4. UNCHANGED <<db, log, accepted>> \/
        (db' \in [Node -> Tables] /\ log' \in Seq(Event) /\ Len(log') = Len(log) + 1
          /\ accepted' \in [Node -> Seq(Id)])
    <3>1. CASE AcceptRelay(primary, handling.by, handling.write) /\ Applicable(db[primary], handling.write)
      <4>1. primary \in Node /\ TypeOK
        BY DEF TypeInv, TypeOK
      <4> QED BY <2>1, <3>1, <4>1, AcceptType
    <3> QED BY <1>19, <3>1 DEF HandleRelay
  <2>5. UNCHANGED <<primary, booting, base, cursor, bootstrapped, queue, conn, snap, channel, bounds,
                    strayed>> /\ handling' = NoRelay
    BY <1>19 DEF HandleRelay
  <2> HIDE DEF R
  <2>7. /\ adminWrites' \in Nat /\ faults' \in Nat /\ strayed' \subseteq Node
             /\ outbox' \in [Node -> SUBSET Write]
        /\ UNCHANGED <<primary, booting, base, cursor, bootstrapped, nextId, open, conn, snap, drains,
                       inFlight,
                       late, toPrimary, writes, promotions>>
    BY <2>5 DEF TypeInv, TypeOK, queue, channel, bounds
  <2>6. /\ db' \in [Node -> Tables] /\ log' \in Seq(Event) /\ accepted' \in [Node -> Seq(Id)]
        /\ Len(log) \in Nat /\ Len(log') \in Nat /\ Len(log') >= Len(log)
    BY <1>a, <1>b, <1>f, <2>4
  <2> QED BY <2>3, <2>5, <2>6, <2>7, LongerLog DEF A
<1>20. CASE RelayPostponed
  <2>1. faults' \in Nat /\ handling' = NoRelay
    BY <1>20 DEF TypeInv, RelayPostponed, TypeOK
  <2> QED BY <1>20, <2>1 DEF TypeInv, RelayPostponed, TypeOK, tables, queue, channel, history
<1>21. ASSUME NEW row \in (SUBSET Key) \union {Gone}, AdminWrite(row) PROVE TypeInv'
  <2>1. adminWrites' \in Nat
    BY <1>21 DEF TypeInv, AdminWrite, TypeOK
  <2>2. primary \in Node /\ db[primary] \in Tables
    BY DEF TypeInv, TypeOK
  <2>3. db' \in [Node -> Tables]
    <3>1. [db[primary] EXCEPT !.user = row] \in Tables
      BY <2>2 DEF Tables
    <3>2. db' = [db EXCEPT ![primary] = [db[primary] EXCEPT !.user = row]]
      BY <1>21, <2>2 DEF TypeInv, AdminWrite, TypeOK
    <3> QED BY <3>1, <3>2 DEF TypeInv, TypeOK
  <2>4. log' \in Seq(Event) /\ Len(log) \in Nat /\ Len(log') \in Nat /\ Len(log') >= Len(log)
    <3>1. [type |-> "user", row |-> row] \in Event
      BY DEF Event
    <3> QED BY <1>21, <3>1 DEF TypeInv, AdminWrite, TypeOK
  <2>5. UNCHANGED <<primary, booting, base, cursor, bootstrapped, queue, conn, snap, channel, toReplica,
                    handling, writes, faults, promotions, history>>
    BY <1>21 DEF AdminWrite
  <2>6. toReplica' \in [Node -> Seq([type : {"relay_ack", "relay_reject"}, id : Id])]
          /\ accepted' \in [Node -> Seq(Id)]
        /\ handling' \in [by : Node, write : Write, live : BOOLEAN] \union {NoRelay}
             /\ strayed' \subseteq Node
    BY <2>5 DEF TypeInv, TypeOK, history
  <2> QED BY <2>1, <2>3, <2>4, <2>5, <2>6, LongerLog DEF TypeInv, queue, channel, history, TypeOK
<1>22. CASE Prune
  <2>1. base' \in 0..Len(log') /\ faults' \in Nat
    BY <1>22 DEF TypeInv, TypeOK, Prune
  <2>2. UNCHANGED <<primary, booting, db, log, cursor, bootstrapped, queue, conn, snap, channel, toReplica,
                    handling, writes, adminWrites, promotions, history>>
    BY <1>22 DEF Prune
  <2> QED BY <2>1, <2>2 DEF TypeInv, TypeOK, queue, channel, history
<1>23. CASE AdoptRow
  <2>1. PICK w \in outbox[primary] :
            /\ IF Seen(primary, primary, w) THEN UNCHANGED <<db, log, accepted>>
               ELSE Applicable(db[primary], w) /\ AcceptRelay(primary, primary, w)
            /\ strayed' \in {strayed, Node}
            /\ \/ outbox' = [outbox EXCEPT ![primary] = @ \ {w}] /\ UNCHANGED faults
               \/ faults > 0 /\ faults' = faults - 1 /\ UNCHANGED outbox
    BY <1>23 DEF AdoptRow
  <2>2. primary \in Node /\ w \in Write /\ TypeOK
    BY DEF TypeInv, TypeOK
  <2>3. UNCHANGED <<db, log, accepted>> \/
        (db' \in [Node -> Tables] /\ log' \in Seq(Event) /\ Len(log') = Len(log) + 1
          /\ accepted' \in [Node -> Seq(Id)])
    BY <2>1, <2>2, AcceptType
  <2>4. /\ db' \in [Node -> Tables] /\ log' \in Seq(Event) /\ accepted' \in [Node -> Seq(Id)]
        /\ Len(log) \in Nat /\ Len(log') \in Nat /\ Len(log') >= Len(log)
    BY <1>a, <1>b, <1>f, <2>3
  <2>9. outbox' \in [Node -> SUBSET Write]
    BY <1>a, <1>d, <2>1
  <2>10. faults' \in Nat
    BY <1>f, <2>1
  <2>5. outbox' \in [Node -> SUBSET Write] /\ faults' \in Nat /\ strayed' \subseteq Node
    BY <1>f, <2>1, <2>9, <2>10
  <2>6. UNCHANGED <<primary, booting, base, cursor, bootstrapped, nextId, open, conn, snap, channel,
                    toReplica,
                    handling, writes, adminWrites, promotions>>
    BY <1>23 DEF AdoptRow
  <2>7. /\ toReplica' \in [Node -> Seq([type : {"relay_ack", "relay_reject"}, id : Id])]
        /\ handling' \in [by : Node, write : Write, live : BOOLEAN] \union {NoRelay}
    BY <2>6 DEF TypeInv, TypeOK
  <2>8. adminWrites' \in Nat /\ UNCHANGED <<drains, inFlight, late, toPrimary>>
    BY <2>6 DEF TypeInv, TypeOK, channel
  <2> QED BY <2>4, <2>5, <2>6, <2>7, <2>8, LongerLog
<1>24. CASE FinishBoot
  BY <1>24 DEF TypeInv, FinishBoot, TypeOK, tables, queue, channel, bounds, history
<1>25. CASE UNCHANGED vars
  BY <1>25 DEF TypeInv, vars, TypeOK, tables, queue, channel, bounds, history
<1>26. Gone \in (SUBSET Key) \union {Gone} /\ db[primary].user \in (SUBSET Key) \union {Gone}
  <2>1. db[primary] \in Tables
    BY <1>a
  <2> QED BY <2>1 DEF Tables
<1>27. ASSUME NEW n \in Node, ReplicaStep(n) PROVE TypeInv'
  BY <1>6, <1>7, <1>8, <1>9, <1>10, <1>11, <1>12, <1>13, <1>14, <1>27 DEF ReplicaStep
<1> QED
  BY <1>2, <1>3, <1>4, <1>5, <1>15, <1>16, <1>17, <1>18, <1>19, <1>20, <1>21, <1>22, <1>23, <1>24, <1>25,
       <1>26,
     <1>27 DEF Next


(***************************************************************************)
(* The watermarks                                                          *)
(***************************************************************************)

LEMMA RelayRow ==
    ASSUME NEW g \in Seq(Event), NEW i \in 1..Len(g), NEW m \in Node, RelayAt(g, i, m)
    PROVE  g[i].write.id \in Nat
<1>1. g[i] \in Event
  OBVIOUS
<1>2. g[i].write \in Write
  BY <1>1 DEF RelayAt, Event
<1> QED BY <1>2, BoundsAreNat DEF Write, Id

(* A row at the end leaves the others where they are.                      *)
LEMMA Appended ==
    ASSUME NEW g \in Seq(Event), NEW e \in Event
    PROVE  /\ Append(g, e) \in Seq(Event) /\ Len(Append(g, e)) = Len(g) + 1
           /\ Append(g, e)[Len(g) + 1] = e
           /\ \A i \in 1..Len(g) : Append(g, e)[i] = g[i]
OBVIOUS

LEMMA MarkStays ==
    ASSUME NEW g \in Seq(Event), NEW e \in Event, NEW k \in 0..Len(g), NEW m \in Node, NEW v \in Nat,
           MarkAt(g, v, m, k)
    PROVE  MarkAt(Append(g, e), v, m, k)
<1>1. \A i \in 1..k : Append(g, e)[i] = g[i]
  BY Appended
<1> QED BY <1>1 DEF MarkAt, RelayAt

LEMMA MarkUnique ==
    ASSUME NEW g \in Seq(Event), NEW k \in 0..Len(g), NEW m \in Node, NEW u \in Nat, NEW v \in Nat,
           MarkAt(g, u, m, k), MarkAt(g, v, m, k)
    PROVE  u = v
<1>1. \A i \in 1..k : i \in 1..Len(g)
  OBVIOUS
<1>2. \A i \in 1..k : RelayAt(g, i, m) => g[i].write.id \in Nat
  BY <1>1, RelayRow
<1> QED BY <1>2 DEF MarkAt

(* One row further the watermark is the id of that row, or what it was.    *)
LEMMA MarkNext ==
    ASSUME NEW g \in Seq(Event), NEW k \in Nat, k + 1 <= Len(g), NEW m \in Node, NEW v \in Nat,
           Ordered(g), MarkAt(g, v, m, k)
    PROVE  MarkAt(g, IF RelayAt(g, k + 1, m) THEN g[k + 1].write.id ELSE v, m, k + 1)
<1>1. \A i \in 1..(k + 1) : i \in 1..Len(g) /\ (i \in 1..k \/ i = k + 1)
  OBVIOUS
<1>2. \A i \in 1..(k + 1) : RelayAt(g, i, m) => g[i].write.id \in Nat
  BY <1>1, RelayRow
<1>3. CASE RelayAt(g, k + 1, m)
  <2>1. \A i \in 1..k : RelayAt(g, i, m) => g[i].write.id < g[k + 1].write.id
    <3> SUFFICES ASSUME NEW i \in 1..k, RelayAt(g, i, m) PROVE g[i].write.id < g[k + 1].write.id
      OBVIOUS
    <3>1. i \in 1..Len(g) /\ k + 1 \in 1..Len(g) /\ i < k + 1
      OBVIOUS
    <3> QED BY <1>3, <3>1 DEF Ordered
  <2>2. \A i \in 1..(k + 1) : RelayAt(g, i, m) => g[i].write.id <= g[k + 1].write.id
    BY <1>1, <1>2, <1>3, <2>1
  <2>3. k + 1 \in 1..(k + 1)
    OBVIOUS
  <2> QED BY <1>3, <2>2, <2>3 DEF MarkAt
<1>4. CASE ~RelayAt(g, k + 1, m)
  <2>1. \A i \in 1..(k + 1) : RelayAt(g, i, m) => i \in 1..k
    BY <1>1, <1>4
  <2>2. \A i \in 1..k : i \in 1..(k + 1)
    OBVIOUS
  <2> QED BY <1>4, <2>1, <2>2 DEF MarkAt
<1> QED BY <1>3, <1>4

(* A row that is no relay, or one beyond the watermark, keeps the order.   *)
LEMMA OrderStays ==
    ASSUME NEW g \in Seq(Event), NEW e \in Event, Ordered(g), NEW wm \in [Node -> Nat],
           \A m \in Node : MarkAt(g, wm[m], m, Len(g)),
           \A m \in Node : e.type = "relay" /\ e.by = m => e.write.id > wm[m]
    PROVE  Ordered(Append(g, e))
<1> DEFINE h == Append(g, e)
<1>1. Len(h) = Len(g) + 1 /\ h[Len(g) + 1] = e /\ Len(g) \in Nat /\ \A i \in 1..Len(g) : h[i] = g[i]
  BY Appended
<1> HIDE DEF h
<1>2. SUFFICES ASSUME NEW m \in Node, NEW i \in 1..Len(h), NEW j \in 1..Len(h),
                      RelayAt(h, i, m), RelayAt(h, j, m), i < j
               PROVE  h[i].write.id < h[j].write.id
  BY DEF Ordered, h
<1>3. i \in 1..Len(g) /\ h[i] = g[i] /\ RelayAt(g, i, m)
  BY <1>1, <1>2 DEF RelayAt
<1>4. CASE j \in 1..Len(g)
  <2>1. h[j] = g[j] /\ RelayAt(g, j, m)
    BY <1>1, <1>2, <1>4 DEF RelayAt
  <2> QED BY <1>2, <1>3, <1>4, <2>1 DEF Ordered
<1>5. CASE j = Len(g) + 1
  <2>1. h[j] = e /\ e.write.id > wm[m]
    BY <1>1, <1>2, <1>5 DEF RelayAt
  <2>2. g[i].write.id <= wm[m] /\ g[i].write.id \in Nat
    BY <1>3, RelayRow DEF MarkAt
  <2>3. e.write \in Write
    BY <1>2, <2>1 DEF RelayAt, Event
  <2>4. e.write.id \in Nat
    BY <2>3, BoundsAreNat DEF Write, Id
  <2> QED BY <1>3, <2>1, <2>2, <2>4
<1> QED BY <1>1, <1>4, <1>5

(* Steps that leave the changelog and the watermarks alone.                *)
LEMMA MarksKept ==
    ASSUME Marks, UNCHANGED <<primary, log, cursor>>,
           \A n \in Node : db'[n].wm = db[n].wm,
           \A n \in Node : bootstrapped'[n] => bootstrapped[n],
           \A n \in Node : snap'[n] \in {snap[n], NoSnapshot},
           primary \in Node
    PROVE  Marks'
<1>1. Ordered(log)' /\ snap'[primary'] = NoSnapshot
  BY DEF Marks, Ordered
<1>2. ASSUME NEW m \in Node PROVE MarkAt(log', db'[primary'].wm[m], m, Len(log'))
  BY <1>2 DEF Marks
<1>3. ASSUME NEW n \in Replicas', bootstrapped'[n], NEW m \in Node
      PROVE  MarkAt(log', db'[n].wm[m], m, cursor'[n])
  BY <1>3 DEF Marks, Replicas
<1>4. ASSUME NEW n \in Node, Busy(n)', NEW m \in Node
      PROVE  MarkAt(log', snap'[n].tables.wm[m], m, snap'[n].seq)
  BY <1>4 DEF Marks, Busy
<1> QED BY <1>1, <1>2, <1>3, <1>4 DEF Marks

LEMMA MarkTypes ==
    ASSUME TypeInv
    PROVE  /\ log \in Seq(Event) /\ Len(log) \in Nat /\ primary \in Node /\ conn[primary] = "down"
           /\ \A n \in Node : db[n] \in Tables /\ db[n].wm \in [Node -> Nat] /\ cursor[n] \in 0..Len(log)
           /\ \A n, m \in Node : db[n].wm[m] \in Nat
           /\ \A n \in Node : Busy(n) =>
                /\ snap[n].tables \in Tables /\ snap[n].tables.wm \in [Node -> Nat]
                /\ snap[n].seq \in 0..Len(log)
<1>1. log \in Seq(Event) /\ Len(log) \in Nat /\ primary \in Node /\ conn[primary] = "down"
  BY DEF TypeInv, TypeOK
<1>2. ASSUME NEW n \in Node
      PROVE  db[n] \in Tables /\ db[n].wm \in [Node -> Nat] /\ cursor[n] \in 0..Len(log)
  BY DEF TypeInv, TypeOK, Tables
<1>3. ASSUME NEW n \in Node, Busy(n)
      PROVE  snap[n].tables \in Tables /\ snap[n].tables.wm \in [Node -> Nat] /\ snap[n].seq \in 0..Len(log)
  <2>1. snap[n] \in [tables : Tables, seq : 0..Len(log)]
    BY <1>3 DEF TypeInv, TypeOK, Busy
  <2> QED BY <2>1 DEF Tables
<1> QED BY <1>1, <1>2, <1>3

(* A write of the primary, its own or a relay it has not seen.             *)
LEMMA MarksAppend ==
    ASSUME TypeInv, Marks, NEW e \in Event, log' = Append(log, e),
           UNCHANGED <<primary, cursor, bootstrapped, snap>>,
           \A n \in Node \ {primary} : db'[n].wm = db[n].wm,
           e.type = "relay" => e.write.id > db[primary].wm[e.by],
           db'[primary].wm = IF e.type = "relay" THEN [db[primary].wm EXCEPT ![e.by] = e.write.id]
                                                 ELSE db[primary].wm
    PROVE  Marks'
<1>1. /\ log \in Seq(Event) /\ Len(log) \in Nat /\ primary \in Node
      /\ \A n \in Node : db[n].wm \in [Node -> Nat] /\ cursor[n] \in 0..Len(log)
      /\ \A n, m \in Node : db[n].wm[m] \in Nat
      /\ \A n \in Node : Busy(n) => snap[n].tables.wm \in [Node -> Nat] /\ snap[n].seq \in 0..Len(log)
  BY MarkTypes
<1>2. Ordered(log')
  BY <1>1, OrderStays DEF Marks
<1>3. log' \in Seq(Event) /\ Len(log') = Len(log) + 1 /\ log'[Len(log) + 1] = e
  BY <1>1, Appended
<1>4. ASSUME NEW m \in Node PROVE MarkAt(log', db'[primary].wm[m], m, Len(log'))
  <2>1. MarkAt(log', db[primary].wm[m], m, Len(log))
    <3>1. MarkAt(log, db[primary].wm[m], m, Len(log)) /\ db[primary].wm[m] \in Nat
            /\ Len(log) \in 0..Len(log)
      BY <1>1 DEF Marks
    <3> QED BY <1>1, <3>1, MarkStays
  <2>2. MarkAt(log', IF RelayAt(log', Len(log) + 1, m) THEN log'[Len(log) + 1].write.id
                     ELSE db[primary].wm[m], m, Len(log) + 1)
    <3>1. db[primary].wm[m] \in Nat /\ Len(log) + 1 <= Len(log')
      BY <1>1, <1>3
    <3> QED BY <1>1, <1>2, <1>3, <2>1, <3>1, MarkNext
  <2>3. RelayAt(log', Len(log) + 1, m) <=> e.type = "relay" /\ e.by = m
    BY <1>3 DEF RelayAt
  <2>4. db'[primary].wm[m] = IF e.type = "relay" /\ e.by = m THEN e.write.id ELSE db[primary].wm[m]
    BY <1>1
  <2> QED BY <1>3, <2>2, <2>3, <2>4
<1>5. ASSUME NEW n \in Replicas, bootstrapped[n], NEW m \in Node
      PROVE  MarkAt(log', db'[n].wm[m], m, cursor[n])
  <2>1. n \in Node \ {primary} /\ MarkAt(log, db[n].wm[m], m, cursor[n])
    BY <1>5 DEF Marks, Replicas
  <2> QED BY <1>1, <2>1, MarkStays
<1>6. ASSUME NEW n \in Node, Busy(n), NEW m \in Node
      PROVE  MarkAt(log', snap[n].tables.wm[m], m, snap[n].seq)
  <2>1. MarkAt(log, snap[n].tables.wm[m], m, snap[n].seq)
    BY <1>6 DEF Marks
  <2>2. snap[n].tables.wm[m] \in Nat
    BY <1>1, <1>6
  <2> QED BY <1>1, <1>6, <2>1, <2>2, MarkStays
<1> QED BY <1>2, <1>4, <1>5, <1>6 DEF Marks, Replicas, Busy, Ordered

(* A replica takes the next row.                                           *)
LEMMA MarksApply ==
    ASSUME TypeInv, Marks, NEW n \in Node, ApplyRow(n)
    PROVE  Marks' /\ n # primary
<1> DEFINE e == log[cursor[n] + 1]
<1>1. /\ log \in Seq(Event) /\ Len(log) \in Nat /\ primary \in Node /\ conn[primary] = "down"
      /\ \A q \in Node : db[q] \in Tables /\ db[q].wm \in [Node -> Nat] /\ cursor[q] \in 0..Len(log)
  BY MarkTypes
<1>2. conn[n] # "down" /\ bootstrapped[n] /\ cursor[n] + 1 <= Len(log) /\ cursor[n] < Len(log)
  BY <1>1 DEF ApplyRow, NeedsSnapshot
<1>3. e \in Event /\ cursor[n] \in Nat
  BY <1>1, <1>2
<1>4. n # primary /\ n \in Replicas
  BY <1>1, <1>2 DEF Replicas
<1>5. db' = [db EXCEPT ![n] = AfterRow(n, @, e)] /\ cursor' = [cursor EXCEPT ![n] = @ + 1]
      /\ UNCHANGED <<primary, log, bootstrapped, snap>>
  BY DEF ApplyRow
<1> HIDE DEF e
<1>6. db'[n].wm = IF e.type = "relay" THEN [db[n].wm EXCEPT ![e.by] = e.write.id] ELSE db[n].wm
  <2>1. AfterRow(n, db[n],
          e).wm = IF e.type = "relay" THEN [db[n].wm EXCEPT ![e.by] = e.write.id] ELSE db[n].wm
    BY <1>1, <1>3, AfterRowType
  <2>2. db'[n] = AfterRow(n, db[n], e)
    BY <1>5 DEF TypeInv, TypeOK
  <2> QED BY <2>1, <2>2
<1>7. /\ \A q \in Node \ {n} : db'[q] = db[q] /\ cursor'[q] = cursor[q]
      /\ cursor'[n] = cursor[n] + 1
  BY <1>5 DEF TypeInv, TypeOK
<1>8. ASSUME NEW m \in Node PROVE MarkAt(log, db'[n].wm[m], m, cursor'[n])
  <2>1. MarkAt(log, db[n].wm[m], m, cursor[n]) /\ Ordered(log) /\ db[n].wm[m] \in Nat
    BY <1>1, <1>2, <1>4 DEF Marks
  <2>2. MarkAt(log, IF RelayAt(log, cursor[n] + 1, m) THEN log[cursor[n] + 1].write.id
                    ELSE db[n].wm[m], m, cursor[n] + 1)
    BY <1>1, <1>2, <1>3, <2>1, MarkNext
  <2>3. db'[n].wm[m] = IF RelayAt(log, cursor[n] + 1, m) THEN log[cursor[n] + 1].write.id ELSE db[n].wm[m]
    BY <1>1, <1>6 DEF RelayAt, e
  <2> QED BY <1>7, <2>2, <2>3
<1>9. ASSUME NEW q \in Replicas, bootstrapped[q], NEW m \in Node
      PROVE  MarkAt(log, db'[q].wm[m], m, cursor'[q])
  <2>1. CASE q = n
    BY <1>8, <2>1
  <2>2. CASE q # n
    BY <1>7, <1>9, <2>2 DEF Marks, Replicas
  <2> QED BY <2>1, <2>2
<1>10. \A m \in Node : MarkAt(log, db'[primary].wm[m], m, Len(log))
  BY <1>1, <1>4, <1>7 DEF Marks
<1> QED BY <1>4, <1>5, <1>9, <1>10 DEF Marks, Replicas, Busy, Ordered

LEMMA MarksFetch ==
    ASSUME TypeInv, Marks, NEW n \in Node, FetchSnapshot(n)
    PROVE  Marks'
<1>1. primary \in Node /\ n # primary /\ UNCHANGED <<primary, db, log, cursor, bootstrapped>>
  BY MarkTypes DEF FetchSnapshot, tables
<1>2. /\ \A q \in Node \ {n} : snap'[q] = snap[q]
      /\ snap'[n] = [tables |-> db[primary], seq |-> Len(log)]
  BY DEF FetchSnapshot, TypeInv, TypeOK
<1>3. ASSUME NEW q \in Node, Busy(q)', NEW m \in Node
      PROVE  MarkAt(log, snap'[q].tables.wm[m], m, snap'[q].seq)
  <2>1. CASE q = n
    BY <1>2, <2>1 DEF Marks
  <2>2. CASE q # n
    BY <1>2, <1>3, <2>2 DEF Marks, Busy
  <2> QED BY <2>1, <2>2
<1> QED BY <1>1, <1>2, <1>3 DEF Marks, Replicas, Ordered

LEMMA MarksReconcile ==
    ASSUME TypeInv, Marks, NEW n \in Node, ReconcileSnapshot(n)
    PROVE  Marks' /\ n # primary
<1> DEFINE d == snap[n].tables
<1>1. primary \in Node /\ n # primary /\ n \in Replicas /\ Busy(n) /\ d \in Tables
  BY MarkTypes DEF ReconcileSnapshot, Marks, Busy, Replicas
<1>2. UNCHANGED <<primary, log>> /\ snap' = [snap EXCEPT ![n] = NoSnapshot]
  BY DEF ReconcileSnapshot
<1>3. \A q \in Node : snap'[q] \in {snap[q], NoSnapshot}
  BY <1>2 DEF TypeInv, TypeOK
<1>4. CASE UNCHANGED <<db, cursor, bootstrapped>>
  BY <1>1, <1>2, <1>3, <1>4, MarksKept
<1>5. CASE /\ db' = [db EXCEPT ![n] = Reapplied(n, d)]
           /\ cursor' = [cursor EXCEPT ![n] = snap[n].seq]
           /\ bootstrapped' = [bootstrapped EXCEPT ![n] = TRUE]
  <2>1. Reapplied(n, d).wm = d.wm
    BY <1>1, ReappliedType DEF TypeInv
  <2> HIDE DEF d
  <2>2. /\ \A q \in Node \ {n} : db'[q] = db[q] /\ cursor'[q] = cursor[q]
             /\ bootstrapped'[q] = bootstrapped[q]
        /\ db'[n].wm = d.wm /\ cursor'[n] = snap[n].seq
    BY <1>5, <2>1 DEF TypeInv, TypeOK
  <2>3. ASSUME NEW q \in Replicas, bootstrapped'[q], NEW m \in Node
        PROVE  MarkAt(log, db'[q].wm[m], m, cursor'[q])
    <3>1. CASE q = n
      BY <1>1, <2>2, <3>1 DEF Marks, d
    <3>2. CASE q # n
      BY <2>2, <2>3, <3>2 DEF Marks, Replicas
    <3> QED BY <3>1, <3>2
  <2>4. db'[primary] = db[primary]
    BY <1>1, <2>2
  <2> QED BY <1>1, <1>2, <1>3, <2>3, <2>4 DEF Marks, Replicas, Busy, Ordered
<1> QED BY <1>4, <1>5 DEF ReconcileSnapshot

LEMMA MarksPromote ==
    ASSUME TypeInv, Marks, NEW n \in Node, Promote(n)
    PROVE  Marks' /\ \A m \in Node : Mark(m)' = Mark(m)
<1>1. /\ log \in Seq(Event) /\ Len(log) \in Nat /\ primary \in Node
      /\ \A q, m \in Node : db[q].wm[m] \in Nat
  BY MarkTypes
<1>2. /\ n # primary /\ bootstrapped[n] /\ cursor[n] = Len(log) /\ primary' = n
      /\ bootstrapped' = [bootstrapped EXCEPT ![primary] = FALSE]
      /\ snap' = [m \in Node |-> NoSnapshot] /\ UNCHANGED <<db, log, cursor>>
  BY DEF Promote
<1>3. \A m \in Node : MarkAt(log, db[n].wm[m], m, Len(log))
  BY <1>2 DEF Marks, Replicas
<1>4. \A m \in Node : db[n].wm[m] = db[primary].wm[m]
  BY <1>1, <1>3, MarkUnique DEF Marks
<1>5. bootstrapped' [primary] = FALSE /\ \A q \in Node \ {primary} : bootstrapped'[q] = bootstrapped[q]
  BY <1>1, <1>2 DEF TypeInv, TypeOK
<1> QED BY <1>2, <1>3, <1>4, <1>5 DEF Marks, Replicas, Busy, Ordered, Mark

(***************************************************************************)
(* The relays of a node                                                    *)
(***************************************************************************)

LEMMA RelayTypes ==
    ASSUME TypeInv, NEW n \in Node
    PROVE  /\ primary \in Node /\ Mark(n) \in Nat /\ nextId[n] \in Nat /\ accepted[n] \in Seq(Id)
           /\ outbox[n] \subseteq Write /\ open[n] \subseteq Write /\ Transit(n) \subseteq Write
           /\ Known(n) \subseteq Write
           /\ \A w \in Known(n) : w.id \in Nat /\ w.op \in RelayOp
           /\ \A a \in Range(toReplica[n]) : a.id \in Nat /\ a.type \in {"relay_ack", "relay_reject"}
<1>1. primary \in Node /\ Mark(n) \in Nat
  BY MarkTypes DEF Mark
<1>2. nextId[n] \in Nat /\ accepted[n] \in Seq(Id) /\ outbox[n] \subseteq Write /\ open[n] \subseteq Write
  <2>1. MaxWrites \in Nat
    BY BoundsAreNat
  <2>2. /\ nextId \in [Node -> 0..MaxWrites] /\ accepted \in [Node -> Seq(Id)]
        /\ outbox \in [Node -> SUBSET Write] /\ open \in [Node -> SUBSET Write]
    BY TypeParts
  <2> QED BY <2>1, <2>2
<1>3. Transit(n) \subseteq Write
  <2>1. drains[n] \subseteq Write
    BY DEF TypeInv, TypeOK
  <2>2. Range(toPrimary[n]) \subseteq Write
    <3>1. toPrimary[n] \in Seq(Write)
      BY DEF TypeInv, TypeOK
    <3> QED BY <3>1 DEF Range
  <2>3. handling # NoRelay => handling.write \in Write
    BY DEF TypeInv, TypeOK
  <2> QED BY <2>1, <2>2, <2>3 DEF Transit
<1>4. Known(n) \subseteq Write
  BY <1>2, <1>3 DEF Known
<1>5. \A w \in Write : w.id \in Nat /\ w.op \in RelayOp
  BY BoundsAreNat DEF Write, Id
<1>6. \A a \in Range(toReplica[n]) : a.id \in Nat /\ a.type \in {"relay_ack", "relay_reject"}
  <2> DEFINE A == [type : {"relay_ack", "relay_reject"}, id : Id]
  <2>1. toReplica[n] \in Seq(A)
    BY DEF TypeInv, TypeOK
  <2>2. \A a \in A : a.id \in Nat /\ a.type \in {"relay_ack", "relay_reject"}
    BY BoundsAreNat DEF Id
  <2> HIDE DEF A
  <2> QED BY <2>1, <2>2 DEF Range
<1> QED BY <1>1, <1>2, <1>3, <1>4, <1>5, <1>6

(* Nothing is added to the writes, relays and answers of n, and only rows  *)
(* of the outbox that were settled are removed.                            *)
LEMMA KeepRelays ==
    ASSUME TypeInv, NEW n \in Node, RelayInv(n),
           UNCHANGED primary, Mark(n)' = Mark(n), nextId'[n] = nextId[n], accepted'[n] = accepted[n],
           db[primary].user = Gone => db'[primary].user = Gone,
           open'[n] \subseteq open[n], Transit(n)' \subseteq Transit(n),
           Range(toReplica'[n]) \subseteq Range(toReplica[n]),
           outbox'[n] \subseteq outbox[n],
           \A w \in outbox[n] \ outbox'[n] : w.id <= Mark(n) \/ (w.op = "patch" /\ db[primary].user = Gone)
    PROVE  RelayInv(n)'
<1>1. /\ Mark(n) \in Nat /\ nextId[n] \in Nat /\ \A w \in Known(n) : w.id \in Nat
      /\ \A a \in Range(toReplica[n]) : a.id \in Nat
  BY RelayTypes
<1>2. Known(n)' \subseteq Known(n)
  BY DEF Known
<1>3. History(n) /\ Numbered(n) /\ Sent(n) /\ InOrder(n) /\ Answered(n)
  BY DEF RelayInv
<1>4. History(n)'
  BY <1>3 DEF History
<1>5. Numbered(n)'
  BY <1>2, <1>3 DEF Numbered
<1>6. \A i \in Nat : Turn(n, i) => Turn(n, i)'
  BY DEF Turn
<1>7. Sent(n)'
  <2> SUFFICES ASSUME NEW w \in Transit(n)', w.id > Mark(n)
               PROVE  IF w \in outbox'[n] THEN Turn(n, w.id)' ELSE w.op = "patch"
                        /\ db'[primary].user = Gone
    BY DEF Sent
  <2>1. w \in Transit(n) /\ w.id \in Nat
    BY <1>1 DEF Known
  <2>2. IF w \in outbox[n] THEN Turn(n, w.id) ELSE w.op = "patch" /\ db[primary].user = Gone
    BY <1>3, <2>1 DEF Sent
  <2>3. CASE w \in outbox'[n]
    BY <1>6, <2>1, <2>2, <2>3
  <2>4. CASE w \in outbox[n] /\ w \notin outbox'[n]
    BY <1>1, <2>1, <2>4
  <2>5. CASE w \notin outbox[n]
    BY <2>2, <2>5
  <2> QED BY <2>3, <2>4, <2>5
<1>8. InOrder(n)'
  BY <1>3 DEF InOrder
<1>9. Answered(n)'
  <2> SUFFICES ASSUME NEW a \in Range(toReplica'[n])
               PROVE  /\ a.type = "relay_ack" => a.id <= Mark(n)
                      /\ a.type = "relay_reject" =>
                            /\ db'[primary].user = Gone /\ a.id <= nextId[n]
                            /\ \A w \in Known(n)' : w.id = a.id => w.op = "patch" /\ w \notin open'[n]
                            /\ (\E w \in outbox'[n] : w.id = a.id) => Turn(n, a.id)'
    BY DEF Answered
  <2>1. a \in Range(toReplica[n]) /\ a.id \in Nat
    BY <1>1
  <2> QED BY <1>2, <1>3, <1>6, <2>1 DEF Answered
<1> QED BY <1>4, <1>5, <1>7, <1>8, <1>9 DEF RelayInv

(* The same node for node.                                                 *)
LEMMA SameRelays ==
    ASSUME TypeInv, NEW n \in Node, RelayInv(n),
           UNCHANGED primary, Mark(n)' = Mark(n), nextId'[n] = nextId[n], accepted'[n] = accepted[n],
           db[primary].user = Gone => db'[primary].user = Gone,
           open'[n] = open[n], drains'[n] = drains[n], toPrimary'[n] = toPrimary[n],
           handling' = handling \/ handling' = NoRelay,
           toReplica'[n] = toReplica[n], outbox'[n] = outbox[n]
    PROVE  RelayInv(n)'
<1>1. Transit(n)' \subseteq Transit(n)
  BY DEF Transit
<1> QED BY <1>1, KeepRelays

(* SQLite: a write is committed with the next id.                          *)
LEMMA SerialRelays ==
    ASSUME TypeInv, NEW n \in Node, RelayInv(n), n \in Sqlite, NEW w \in Write, w.id = nextId[n] + 1,
           UNCHANGED <<primary, accepted, open, drains, toPrimary, toReplica, handling>>,
                       Mark(n)' = Mark(n),
           db'[primary] = db[primary], nextId'[n] = nextId[n] + 1, outbox'[n] = outbox[n] \union {w}
    PROVE  RelayInv(n)'
<1>1. /\ Mark(n) \in Nat /\ nextId[n] \in Nat /\ \A v \in Known(n) : v.id \in Nat
      /\ \A a \in Range(toReplica[n]) : a.id \in Nat
  BY RelayTypes
<1>2. Transit(n)' = Transit(n) /\ Known(n)' = Known(n) \union {w}
  BY DEF Transit, Known
<1>3. History(n) /\ Numbered(n) /\ Sent(n) /\ InOrder(n) /\ Answered(n)
  BY DEF RelayInv
<1>4. History(n)'
  BY <1>1, <1>3 DEF History
<1>5. \A v \in Known(n) : v.id <= nextId[n]
  BY <1>3 DEF Numbered
<1>6. Numbered(n)'
  <2>1. open[n] = {}
    BY <1>3 DEF Numbered
  <2> QED BY <1>1, <1>2, <1>3, <1>5, <2>1 DEF Numbered
<1>7. \A i \in Nat : i <= nextId[n] /\ Turn(n, i) => Turn(n, i)'
  BY <1>1 DEF Turn
<1>8. Sent(n)'
  <2> SUFFICES ASSUME NEW v \in Transit(n), v.id > Mark(n)
               PROVE  IF v \in outbox'[n] THEN Turn(n, v.id)' ELSE v.op = "patch"
                        /\ db'[primary].user = Gone
    BY <1>2 DEF Sent
  <2>1. v \in Known(n) /\ v.id \in Nat /\ v.id <= nextId[n] /\ v # w
    BY <1>1, <1>5 DEF Known
  <2>2. IF v \in outbox[n] THEN Turn(n, v.id) ELSE v.op = "patch" /\ db[primary].user = Gone
    BY <1>3 DEF Sent
  <2> QED BY <1>7, <2>1, <2>2
<1>9. InOrder(n)'
  <2>1. w.id > Mark(n)
    BY <1>1, <1>3 DEF History
  <2> QED BY <1>1, <1>3, <2>1 DEF InOrder
<1>10. Answered(n)'
  <2> SUFFICES ASSUME NEW a \in Range(toReplica[n])
               PROVE  /\ a.type = "relay_ack" => a.id <= Mark(n)
                      /\ a.type = "relay_reject" =>
                            /\ db[primary].user = Gone /\ a.id <= nextId[n] + 1
                            /\ \A v \in Known(n)' : v.id = a.id => v.op = "patch" /\ v \notin open'[n]
                            /\ (\E v \in outbox'[n] : v.id = a.id) => Turn(n, a.id)'
    BY DEF Answered
  <2>1. a.id \in Nat
    BY <1>1
  <2> QED BY <1>1, <1>2, <1>3, <1>7, <2>1 DEF Answered
<1> QED BY <1>4, <1>6, <1>8, <1>9, <1>10 DEF RelayInv

(* Other databases: a transaction takes the next id ...                    *)
LEMMA BeginRelays ==
    ASSUME TypeInv, NEW n \in Node, RelayInv(n), n \notin Sqlite, n # primary,
           NEW w \in Write, w.id = nextId[n] + 1,
           UNCHANGED <<primary, accepted, outbox, drains, toPrimary, toReplica, handling, db>>,
           nextId'[n] = nextId[n] + 1, open'[n] = open[n] \union {w}
    PROVE  RelayInv(n)'
<1>1. /\ Mark(n) \in Nat /\ nextId[n] \in Nat /\ \A v \in Known(n) : v.id \in Nat
      /\ \A a \in Range(toReplica[n]) : a.id \in Nat
  BY RelayTypes
<1>2. Transit(n)' = Transit(n) /\ Known(n)' = Known(n) \union {w} /\ Mark(n)' = Mark(n)
  BY DEF Transit, Known, Mark
<1>3. History(n) /\ Numbered(n) /\ Sent(n) /\ InOrder(n) /\ Answered(n)
  BY DEF RelayInv
<1>4. History(n)'
  BY <1>1, <1>2, <1>3 DEF History
<1>5. \A v \in Known(n) : v.id <= nextId[n] /\ v # w
  BY <1>1, <1>3 DEF Numbered
<1>6. Numbered(n)'
  <2>1. w.id \notin Range(accepted[n])
    <3> SUFFICES ASSUME NEW k \in DOMAIN accepted[n], accepted[n][k] = w.id PROVE FALSE
      BY DEF Range
    <3> QED BY <1>1, <1>3 DEF History
  <2>2. w \notin outbox[n] \union Transit(n)
    BY <1>5 DEF Known
  <2>3. /\ open[n] \intersect (outbox[n] \union Transit(n)) = {}
        /\ \A v \in open[n] : v.id \notin Range(accepted[n])
        /\ \A u, v \in Known(n) : u.id = v.id => u = v
    BY <1>3 DEF Numbered
  <2>4. \A v \in Known(n)' : v.id <= nextId'[n]
    BY <1>1, <1>2, <1>5
  <2>5. \A u, v \in Known(n)' : u.id = v.id => u = v
    BY <1>1, <1>2, <1>5, <2>3
  <2> QED BY <1>2, <2>1, <2>2, <2>3, <2>4, <2>5 DEF Numbered
<1>7. Sent(n)' /\ InOrder(n)'
  BY <1>2, <1>3 DEF Sent, InOrder, Turn
<1>8. Answered(n)'
  <2> SUFFICES ASSUME NEW a \in Range(toReplica[n])
               PROVE  /\ a.type = "relay_ack" => a.id <= Mark(n)
                      /\ a.type = "relay_reject" =>
                            /\ db[primary].user = Gone /\ a.id <= nextId[n] + 1
                            /\ \A v \in Known(n)' : v.id = a.id => v.op = "patch" /\ v \notin open'[n]
                            /\ (\E v \in outbox'[n] : v.id = a.id) => Turn(n, a.id)'
    BY <1>2 DEF Answered
  <2>1. a.id \in Nat
    BY <1>1
  <2> QED BY <1>1, <1>2, <1>3, <1>5, <2>1 DEF Answered, Turn
<1> QED BY <1>4, <1>6, <1>7, <1>8 DEF RelayInv

(* ... and commits.                                                        *)
LEMMA CommitRelays ==
    ASSUME TypeInv, NEW n \in Node, RelayInv(n), NEW w \in open[n],
           UNCHANGED <<primary, accepted, nextId, drains, toPrimary, toReplica, handling>>,
           db'[primary] = db[primary], Mark(n)' = Mark(n),
           outbox'[n] = outbox[n] \union {w}, open'[n] = open[n] \ {w}
    PROVE  RelayInv(n)' /\ n \notin Sqlite /\ n # primary
<1>1. Transit(n)' = Transit(n) /\ Known(n)' = Known(n)
  BY DEF Transit, Known
<1>2. History(n) /\ Numbered(n) /\ Sent(n) /\ InOrder(n) /\ Answered(n)
  BY DEF RelayInv
<1>3. n \notin Sqlite /\ n # primary /\ w \notin Transit(n)
  BY <1>2 DEF Numbered
<1>4. History(n)'
  BY <1>2 DEF History
<1>5. Numbered(n)'
  BY <1>1, <1>2 DEF Numbered
<1>6. Sent(n)' /\ InOrder(n)'
  BY <1>1, <1>2, <1>3 DEF Sent, InOrder, Turn
<1>7. Answered(n)'
  BY <1>1, <1>2, <1>3 DEF Answered, Turn
<1> QED BY <1>3, <1>4, <1>5, <1>6, <1>7 DEF RelayInv

(* A drain reads the first row.                                            *)
LEMMA DrainRelays ==
    ASSUME TypeInv, NEW n \in Node, RelayInv(n), NEW w \in outbox[n], FirstRow(n, w),
           UNCHANGED <<primary, accepted, nextId, outbox, open, db, toPrimary, toReplica, handling>>,
           drains'[n] = drains[n] \union {w}
    PROVE  RelayInv(n)'
<1>1. Transit(n)' = Transit(n) \union {w} /\ Known(n)' = Known(n) /\ Mark(n)' = Mark(n)
  BY DEF Transit, Known, Mark
<1>2. History(n) /\ Numbered(n) /\ Sent(n) /\ InOrder(n) /\ Answered(n)
  BY DEF RelayInv
<1>3. History(n)' /\ InOrder(n)'
  BY <1>1, <1>2 DEF History, InOrder
<1>4. Numbered(n)'
  BY <1>1, <1>2 DEF Numbered
<1>5. Turn(n, w.id)
  BY DEF Turn, FirstRow
<1>6. Sent(n)'
  BY <1>1, <1>2, <1>5 DEF Sent, Turn
<1>7. Answered(n)'
  BY <1>1, <1>2 DEF Answered, Turn
<1> QED BY <1>3, <1>4, <1>6, <1>7 DEF RelayInv

(* The primary accepts a relay whose turn it is.                           *)
LEMMA AcceptedRelays ==
    ASSUME TypeInv, NEW n \in Node, RelayInv(n), NEW w \in outbox[n], Turn(n, w.id), w.id > Mark(n),
           UNCHANGED <<primary, nextId, open>>, Mark(n)' = w.id,
           accepted'[n] = Append(accepted[n], w.id),
           db[primary].user = Gone => db'[primary].user = Gone,
           Transit(n)' \subseteq Transit(n),
           \A a \in Range(toReplica'[n]) : a \in Range(toReplica[n])
             \/ a = [type |-> "relay_ack", id |-> w.id],
           outbox'[n] \in {outbox[n], outbox[n] \ {w}}
    PROVE  RelayInv(n)'
<1>1. /\ Mark(n) \in Nat /\ nextId[n] \in Nat /\ accepted[n] \in Seq(Id) /\ \A v \in Known(n) : v.id \in Nat
      /\ \A a \in Range(toReplica[n]) : a.id \in Nat
  BY RelayTypes
<1>2. Known(n)' \subseteq Known(n) /\ w \in Known(n) /\ w.id \in Nat
  BY <1>1 DEF Known
<1>3. History(n) /\ Numbered(n) /\ Sent(n) /\ InOrder(n) /\ Answered(n)
  BY DEF RelayInv
<1>4. w.id \in Id
  BY RelayTypes DEF Write
<1>5. /\ accepted'[n] # <<>> /\ Len(accepted'[n]) = Len(accepted[n]) + 1
      /\ accepted'[n][Len(accepted'[n])] = w.id
      /\ \A k \in DOMAIN accepted'[n] :
            accepted'[n][k] = w.id \/ (k \in DOMAIN accepted[n] /\ accepted'[n][k] = accepted[n][k])
      /\ \A k \in DOMAIN accepted[n] : k \in DOMAIN accepted'[n] /\ accepted'[n][k] = accepted[n][k]
      /\ Len(accepted'[n]) \in DOMAIN accepted'[n]
  BY <1>1, <1>4
<1>6. Range(accepted'[n]) = Range(accepted[n]) \union {w.id}
  BY <1>5 DEF Range
<1>7. w.id <= nextId[n]
  BY <1>2, <1>3 DEF Numbered
<1>8. History(n)'
  <2>1. \A k \in DOMAIN accepted'[n] : accepted'[n][k] <= w.id
    <3> SUFFICES ASSUME NEW k \in DOMAIN accepted[n] PROVE accepted[n][k] <= w.id
      BY <1>2, <1>5
    <3>1. accepted[n][k] \in Nat
      BY <1>1, BoundsAreNat DEF Id
    <3>2. accepted[n][k] <= Mark(n)
      BY <1>3 DEF History
    <3> QED BY <1>1, <1>2, <3>1, <3>2
  <2> QED BY <1>5, <1>7, <2>1 DEF History
<1>9. Numbered(n)'
  <2>1. \A u \in open[n] : u.id # w.id
    BY <1>2, <1>3 DEF Numbered, Known
  <2> QED BY <1>2, <1>3, <1>6, <2>1 DEF Numbered
<1>10. \A i \in Nat : Turn(n, i) => Turn(n, i)'
  <2>1. \A v \in outbox'[n] : v \in outbox[n] /\ v.id \in Nat
    BY <1>1 DEF Known
  <2> QED BY <1>1, <1>2, <2>1 DEF Turn
<1>11. Sent(n)'
  <2> SUFFICES ASSUME NEW u \in Transit(n), u.id > w.id
               PROVE  IF u \in outbox'[n] THEN Turn(n, u.id)' ELSE u.op = "patch"
                        /\ db'[primary].user = Gone
    BY DEF Sent
  <2>1. u \in Known(n) /\ u.id \in Nat /\ u # w /\ u.id > Mark(n)
    BY <1>1, <1>2 DEF Known
  <2>2. IF u \in outbox[n] THEN Turn(n, u.id) ELSE u.op = "patch" /\ db[primary].user = Gone
    BY <1>3, <2>1 DEF Sent
  <2>3. u \in outbox[n] <=> u \in outbox'[n]
    BY <2>1
  <2> QED BY <1>10, <2>1, <2>2, <2>3
<1>12. InOrder(n)'
  <2> SUFFICES ASSUME n \in Sqlite, NEW v \in outbox[n], v.id <= w.id PROVE v.id \in Range(accepted'[n])
    BY DEF InOrder
  <2>1. v.id \in Nat
    BY <1>1 DEF Known
  <2>2. CASE v.id <= Mark(n)
    BY <1>3, <1>6, <2>2 DEF InOrder
  <2>3. CASE v.id > Mark(n)
    BY <1>2, <1>6, <2>1, <2>3 DEF Turn
  <2> QED BY <1>1, <2>1, <2>2, <2>3
<1>13. Answered(n)'
  <2> SUFFICES ASSUME NEW a \in Range(toReplica'[n])
               PROVE  /\ a.type = "relay_ack" => a.id <= w.id
                      /\ a.type = "relay_reject" =>
                            /\ db'[primary].user = Gone /\ a.id <= nextId[n]
                            /\ \A v \in Known(n)' : v.id = a.id => v.op = "patch" /\ v \notin open[n]
                            /\ (\E v \in outbox'[n] : v.id = a.id) => Turn(n, a.id)'
    BY DEF Answered
  <2>1. CASE a \in Range(toReplica[n])
    <3>1. a.id \in Nat
      BY <1>1, <2>1
    <3> QED BY <1>1, <1>2, <1>3, <1>10, <2>1, <3>1 DEF Answered
  <2>2. CASE a = [type |-> "relay_ack", id |-> w.id]
    BY <1>2, <2>2
  <2> QED BY <2>1, <2>2
<1> QED BY <1>8, <1>9, <1>11, <1>12, <1>13 DEF RelayInv

(* The primary answers a relay it has seen, or cannot apply.               *)
LEMMA AnsweredRelays ==
    ASSUME TypeInv, NEW n \in Node, RelayInv(n), NEW w \in Transit(n), NEW a,
           a.id = w.id,
           \/ a.type = "relay_ack" /\ w.id <= Mark(n)
           \/ a.type = "relay_reject" /\ w.id > Mark(n) /\ w.op = "patch" /\ db[primary].user = Gone,
           UNCHANGED <<primary, nextId, open, outbox, accepted, db>>,
           Transit(n)' \subseteq Transit(n),
           \A b \in Range(toReplica'[n]) : b \in Range(toReplica[n]) \/ b = a
    PROVE  RelayInv(n)'
<1>1. Known(n)' \subseteq Known(n) /\ Mark(n)' = Mark(n) /\ w \in Known(n)
  BY DEF Known, Mark
<1>2. History(n) /\ Numbered(n) /\ Sent(n) /\ InOrder(n) /\ Answered(n)
  BY DEF RelayInv
<1>3. History(n)' /\ InOrder(n)'
  BY <1>1, <1>2 DEF History, InOrder
<1>4. Numbered(n)'
  BY <1>1, <1>2 DEF Numbered
<1>5. Sent(n)'
  BY <1>1, <1>2 DEF Sent, Turn
<1>6. ASSUME a.type = "relay_reject"
      PROVE  /\ a.id <= nextId[n]
             /\ \A v \in Known(n) : v.id = a.id => v.op = "patch" /\ v \notin open[n]
             /\ (\E v \in outbox[n] : v.id = a.id) => Turn(n, a.id)
  <2>1. w.id <= nextId[n] /\ \A v \in Known(n) : v.id = a.id => v = w
    BY <1>1, <1>2 DEF Numbered
  <2>2. w.op = "patch" /\ w \notin open[n]
    BY <1>2, <1>6 DEF Numbered
  <2>3. w \in outbox[n] => Turn(n, w.id)
    BY <1>2, <1>6 DEF Sent
  <2>4. \A v \in outbox[n] : v \in Known(n)
    BY DEF Known
  <2> QED BY <2>1, <2>2, <2>3, <2>4
<1>7. Answered(n)'
  <2> SUFFICES ASSUME NEW b \in Range(toReplica'[n])
               PROVE  /\ b.type = "relay_ack" => b.id <= Mark(n)
                      /\ b.type = "relay_reject" =>
                            /\ db[primary].user = Gone /\ b.id <= nextId[n]
                            /\ \A v \in Known(n)' : v.id = b.id => v.op = "patch" /\ v \notin open[n]
                            /\ (\E v \in outbox[n] : v.id = b.id) => Turn(n, b.id)'
    BY <1>1 DEF Answered
  <2>1. CASE b \in Range(toReplica[n])
    BY <1>1, <1>2, <2>1 DEF Answered, Turn
  <2>2. CASE b = a
    BY <1>1, <1>6, <2>2 DEF Turn
  <2> QED BY <2>1, <2>2
<1> QED BY <1>3, <1>4, <1>5, <1>7 DEF RelayInv

(* A change of the primary breaks every connection and transaction.        *)
LEMMA PromotedRelays ==
    ASSUME TypeInv, NEW n \in Node, RelayInv(n), Mark(n)' = Mark(n), UNCHANGED <<nextId, accepted>>,
           outbox'[n] \subseteq outbox[n], open'[n] = {}, Transit(n)' = {}, toReplica'[n] = <<>>
    PROVE  RelayInv(n)'
<1>1. Known(n)' \subseteq Known(n)
  BY DEF Known
<1>2. History(n) /\ Numbered(n) /\ InOrder(n)
  BY DEF RelayInv
<1>3. History(n)' /\ InOrder(n)' /\ Sent(n)'
  BY <1>2 DEF History, InOrder, Sent
<1>4. Numbered(n)'
  BY <1>1, <1>2 DEF Numbered
<1>5. Answered(n)'
  BY DEF Answered, Range
<1> QED BY <1>3, <1>4, <1>5 DEF RelayInv

(***************************************************************************)
(* Every step keeps the invariant                                          *)
(***************************************************************************)

LEMMA Domains ==
    ASSUME TypeInv
    PROVE  /\ DOMAIN db = Node /\ DOMAIN outbox = Node /\ DOMAIN open = Node /\ DOMAIN drains = Node
           /\ DOMAIN nextId = Node /\ DOMAIN accepted = Node /\ DOMAIN toPrimary = Node
           /\ DOMAIN toReplica = Node /\ DOMAIN snap = Node /\ DOMAIN bootstrapped = Node
BY DEF TypeInv, TypeOK

(* Steps about connections, snapshots and the primary's own writes.        *)
LEMMA QuietStep ==
    ASSUME TypeInv, \A m \in Node : RelayInv(m),
           UNCHANGED <<primary, nextId, accepted, open, outbox, drains, toPrimary, toReplica>>,
           handling' = handling \/ handling' = NoRelay,
           db'[primary].wm = db[primary].wm,
           db[primary].user = Gone => db'[primary].user = Gone
    PROVE  \A m \in Node : RelayInv(m)'
<1>1. SUFFICES ASSUME NEW m \in Node PROVE RelayInv(m)'
  OBVIOUS
<1>2. Mark(m)' = Mark(m)
  BY DEF Mark
<1> QED BY <1>2, SameRelays

(* A connection that closes takes its messages with it.                    *)
LEMMA ClosedTransit ==
    ASSUME TypeInv, NEW n \in Node, Closed(n), \A m \in Node : drains'[m] \subseteq drains[m],
             NEW m \in Node
    PROVE  Transit(m)' \subseteq Transit(m) /\ Range(toReplica'[m]) \subseteq Range(toReplica[m])
<1>1. Range(<<>>) = {}
  BY DEF Range
<1>2. toPrimary'[m] \in {toPrimary[m], <<>>} /\ toReplica'[m] \in {toReplica[m], <<>>}
  BY Domains DEF Closed
<1>3. handling' # NoRelay => handling # NoRelay /\ handling'.by = handling.by
        /\ handling'.write = handling.write
  <2>1. handling # NoRelay => handling \in [by : Node, write : Write, live : BOOLEAN]
    BY DEF TypeInv, TypeOK
  <2> QED BY <2>1 DEF Closed
<1> QED BY <1>1, <1>2, <1>3 DEF Transit

LEMMA ClosedStep ==
    ASSUME TypeInv, \A m \in Node : RelayInv(m), NEW n \in Node, Closed(n),
           UNCHANGED <<primary, nextId, accepted>>, db'[primary] = db[primary],
           \A m \in Node : drains'[m] \subseteq drains[m] /\ open'[m] \subseteq open[m],
           \A m \in Node : outbox'[m] \subseteq outbox[m],
           \A m \in Node : \A w \in outbox[m] \ outbox'[m] : w.op = "patch" /\ db[primary].user = Gone
    PROVE  \A m \in Node : RelayInv(m)'
<1>1. SUFFICES ASSUME NEW m \in Node PROVE RelayInv(m)'
  OBVIOUS
<1>2. Mark(m)' = Mark(m)
  BY DEF Mark
<1>3. Transit(m)' \subseteq Transit(m) /\ Range(toReplica'[m]) \subseteq Range(toReplica[m])
  BY ClosedTransit
<1> QED BY <1>2, <1>3, KeepRelays

LEMMA NextWriteType ==
    ASSUME TypeInv, NEW n \in Node, NEW op \in RelayOp, writes > 0
    PROVE  NextWrite(n, op) \in Write /\ NextWrite(n, op).id = nextId[n] + 1
<1>1. MaxWrites \in Nat /\ nextId[n] \in 0..MaxWrites /\ writes \in Nat /\ nextId[n] + writes <= MaxWrites
  BY TypeParts, BoundsAreNat
<1> QED BY <1>1 DEF NextWrite, Write, Id

LEMMA SerialStep ==
    ASSUME IInv, NEW n \in Node, NEW op \in RelayOp, WriteSerially(n, op)
    PROVE  Marks' /\ \A m \in Node : RelayInv(m)'
<1> DEFINE w == NextWrite(n, op)
<1>1. TypeInv /\ Marks /\ (\A m \in Node : RelayInv(m)) /\ primary \in Node /\ n # primary /\ n \in Sqlite
  BY MarkTypes DEF IInv, WriteSerially, Replicas
<1>2. /\ nextId' = [nextId EXCEPT ![n] = @ + 1] /\ writes > 0 /\ Applicable(db[n], w)
      /\ outbox' = [outbox EXCEPT ![n] = @ \union {w}] /\ db' = [db EXCEPT ![n] = Applied(@, n, w)]
      /\ UNCHANGED <<primary, accepted, open, drains, toPrimary, toReplica, handling, log, cursor,
                     bootstrapped, snap>>
  BY DEF WriteSerially, TakeId, Commit, channel, history
<1>3. w \in Write /\ w.id = nextId[n] + 1
  BY <1>1, <1>2, NextWriteType
<1> HIDE DEF w
<1>4. db'[n].wm = db[n].wm /\ \A m \in Node \ {n} : db'[m] = db[m]
  <2>1. db[n] \in Tables
    BY <1>1, MarkTypes
  <2>2. Applied(db[n], n, w).wm = db[n].wm
    BY <1>2, <1>3, <2>1, AppliedType
  <2> QED BY <1>1, <1>2, <2>2, Domains
<1>5. Marks'
  BY <1>1, <1>2, <1>4, MarksKept
<1>6. ASSUME NEW m \in Node PROVE RelayInv(m)'
  <2>1. Mark(m)' = Mark(m) /\ db'[primary] = db[primary] /\ RelayInv(m)
    BY <1>1, <1>2, <1>4 DEF Mark
  <2>2. CASE m = n
    <3>1. nextId'[n] = nextId[n] + 1 /\ outbox'[n] = outbox[n] \union {w}
      BY <1>1, <1>2, Domains
    <3> QED BY <1>1, <1>2, <1>3, <2>1, <2>2, <3>1, SerialRelays
  <2>3. CASE m # n
    <3>1. nextId'[m] = nextId[m] /\ outbox'[m] = outbox[m]
      BY <1>1, <1>2, <2>3, Domains
    <3> QED BY <1>1, <1>2, <2>1, <3>1, SameRelays
  <2> QED BY <2>2, <2>3
<1> QED BY <1>5, <1>6

LEMMA BeginStep ==
    ASSUME IInv, NEW n \in Node, NEW op \in RelayOp, BeginWrite(n, op)
    PROVE  Marks' /\ \A m \in Node : RelayInv(m)'
<1> DEFINE w == NextWrite(n, op)
<1>1. TypeInv /\ Marks /\ (\A m \in Node : RelayInv(m)) /\ primary \in Node /\ n # primary
        /\ n \notin Sqlite
  BY MarkTypes DEF IInv, BeginWrite, Replicas
<1>2. /\ nextId' = [nextId EXCEPT ![n] = @ + 1] /\ writes > 0
      /\ open' = [open EXCEPT ![n] = @ \union {w}]
      /\ UNCHANGED <<primary, accepted, outbox, drains, toPrimary, toReplica, handling, db, log, cursor,
                     bootstrapped,
                     snap>>
  BY DEF BeginWrite, TakeId, channel, history, tables
<1>3. w \in Write /\ w.id = nextId[n] + 1
  BY <1>1, <1>2, NextWriteType
<1> HIDE DEF w
<1>5. Marks'
  BY <1>1, <1>2, MarksKept
<1>6. ASSUME NEW m \in Node PROVE RelayInv(m)'
  <2>1. Mark(m)' = Mark(m) /\ RelayInv(m)
    BY <1>1, <1>2 DEF Mark
  <2>2. CASE m = n
    <3>1. nextId'[n] = nextId[n] + 1 /\ open'[n] = open[n] \union {w}
      BY <1>1, <1>2, Domains
    <3> QED BY <1>1, <1>2, <1>3, <2>1, <2>2, <3>1, BeginRelays
  <2>3. CASE m # n
    <3>1. nextId'[m] = nextId[m] /\ open'[m] = open[m]
      BY <1>1, <1>2, <2>3, Domains
    <3> QED BY <1>1, <1>2, <2>1, <3>1, SameRelays
  <2> QED BY <2>2, <2>3
<1> QED BY <1>5, <1>6

LEMMA CommitStep ==
    ASSUME IInv, NEW n \in Node, NEW w \in open[n], Commit(n, w), open' = [open EXCEPT ![n] = @ \ {w}],
           UNCHANGED <<primary, nextId, accepted, drains, toPrimary, toReplica, handling, log, cursor,
                       bootstrapped,
                       snap>>
    PROVE  Marks' /\ \A m \in Node : RelayInv(m)'
<1>1. TypeInv /\ Marks /\ (\A m \in Node : RelayInv(m)) /\ primary \in Node
  BY MarkTypes DEF IInv
<1>2. outbox' = [outbox EXCEPT ![n] = @ \union {w}] /\ db' = [db EXCEPT ![n] = Applied(@, n, w)]
      /\ Applicable(db[n], w)
  BY DEF Commit
<1>3. w \in Write /\ n # primary
  <2>1. Numbered(n)
    BY <1>1 DEF RelayInv
  <2> QED BY <1>1, <2>1, TypeParts DEF Numbered
<1>4. db'[n].wm = db[n].wm /\ \A m \in Node \ {n} : db'[m] = db[m]
  <2>1. db[n] \in Tables
    BY <1>1, MarkTypes
  <2>2. Applied(db[n], n, w).wm = db[n].wm
    BY <1>2, <1>3, <2>1, AppliedType
  <2> QED BY <1>1, <1>2, <2>2, Domains
<1>5. Marks'
  BY <1>1, <1>2, <1>4, MarksKept
<1>6. ASSUME NEW m \in Node PROVE RelayInv(m)'
  <2>1. Mark(m)' = Mark(m) /\ db'[primary] = db[primary] /\ RelayInv(m)
    BY <1>1, <1>3, <1>4 DEF Mark
  <2>2. CASE m = n
    <3>1. outbox'[n] = outbox[n] \union {w} /\ open'[n] = open[n] \ {w}
      BY <1>1, <1>2, Domains
    <3> QED BY <1>1, <2>1, <2>2, <3>1, CommitRelays
  <2>3. CASE m # n
    <3>1. open'[m] = open[m] /\ outbox'[m] = outbox[m]
      BY <1>1, <1>2, <2>3, Domains
    <3> QED BY <1>1, <2>1, <3>1, SameRelays
  <2> QED BY <2>2, <2>3
<1> QED BY <1>5, <1>6

LEMMA RollbackStep ==
    ASSUME IInv, NEW n \in Node, RollbackWrite(n)
    PROVE  Marks' /\ \A m \in Node : RelayInv(m)'
<1>1. TypeInv /\ Marks /\ (\A m \in Node : RelayInv(m)) /\ primary \in Node
  BY MarkTypes DEF IInv
<1>2. UNCHANGED <<primary, accepted, nextId, outbox, drains, toPrimary, toReplica, handling, db, log,
                  cursor,
                  bootstrapped, snap>>
  BY DEF RollbackWrite, tables, channel, history
<1>3. \A m \in Node : open'[m] \subseteq open[m]
  BY <1>1, Domains DEF RollbackWrite
<1>4. Marks'
  BY <1>1, <1>2, MarksKept
<1>5. ASSUME NEW m \in Node PROVE RelayInv(m)'
  <2>1. Mark(m)' = Mark(m) /\ Transit(m)' = Transit(m) /\ RelayInv(m)
    BY <1>1, <1>2 DEF Mark, Transit
  <2> QED BY <1>1, <1>2, <1>3, <2>1, KeepRelays
<1> QED BY <1>4, <1>5

LEMMA DrainReadStep ==
    ASSUME IInv, NEW n \in Node, DrainRead(n)
    PROVE  Marks' /\ \A m \in Node : RelayInv(m)'
<1>1. TypeInv /\ Marks /\ (\A m \in Node : RelayInv(m)) /\ primary \in Node
  BY MarkTypes DEF IInv
<1>2. UNCHANGED <<primary, accepted, nextId, outbox, open, toPrimary, toReplica, handling, db, log, cursor,
                  bootstrapped, snap>>
  BY DEF DrainRead, tables, queue, history
<1>3. PICK w \in outbox[n] : FirstRow(n, w) /\ drains' = [drains EXCEPT ![n] = @ \union {w}]
  BY DEF DrainRead
<1>4. Marks'
  BY <1>1, <1>2, MarksKept
<1>5. ASSUME NEW m \in Node PROVE RelayInv(m)'
  <2>1. CASE m = n
    <3>1. drains'[n] = drains[n] \union {w}
      BY <1>1, <1>3, Domains
    <3> QED BY <1>1, <1>2, <1>3, <2>1, <3>1, DrainRelays
  <2>2. CASE m # n
    <3>1. drains'[m] = drains[m] /\ Mark(m)' = Mark(m)
      BY <1>1, <1>2, <1>3, <2>2, Domains DEF Mark
    <3> QED BY <1>1, <1>2, <3>1, SameRelays
  <2> QED BY <2>1, <2>2
<1> QED BY <1>4, <1>5

LEMMA Ranges ==
    ASSUME NEW S, NEW s \in Seq(S), NEW x \in S
    PROVE  /\ Range(Append(s, x)) = Range(s) \union {x}
           /\ s # <<>> => Head(s) \in Range(s) /\ Range(Tail(s)) \subseteq Range(s)
<1>1. Range(Append(s, x)) = Range(s) \union {x}
  <2>1. /\ \A k \in DOMAIN Append(s, x) : Append(s, x)[k] = x \/ (k \in DOMAIN s /\ Append(s, x)[k] = s[k])
        /\ \A k \in DOMAIN s : k \in DOMAIN Append(s, x) /\ Append(s, x)[k] = s[k]
        /\ Len(s) + 1 \in DOMAIN Append(s, x) /\ Append(s, x)[Len(s) + 1] = x
    OBVIOUS
  <2> QED BY <2>1 DEF Range
<1>2. ASSUME s # <<>> PROVE Head(s) \in Range(s) /\ Range(Tail(s)) \subseteq Range(s)
  <2>1. 1 \in DOMAIN s /\ Head(s) = s[1]
    BY <1>2
  <2>2. \A k \in DOMAIN Tail(s) : k + 1 \in DOMAIN s /\ Tail(s)[k] = s[k + 1]
    BY <1>2
  <2> QED BY <2>1, <2>2 DEF Range
<1> QED BY <1>1, <1>2

(* Sending, and dropping, what was read.                                   *)
LEMMA DrainTransit ==
    ASSUME TypeInv, NEW n \in Node, DrainSend(n) \/ DrainDropped(n), NEW m \in Node
    PROVE  Transit(m)' \subseteq Transit(m)
<1>1. UNCHANGED handling
  BY DEF DrainSend, DrainDropped
<1>2. PICK w \in drains[n] :
          /\ drains' = [drains EXCEPT ![n] = @ \ {w}]
          /\ toPrimary' \in {toPrimary, [toPrimary EXCEPT ![n] = Append(@, w)]}
  BY DEF DrainSend, DrainDropped
<1>3. CASE m = n
  <2>1. toPrimary[n] \in Seq(Write) /\ w \in Write
    BY DEF TypeInv, TypeOK
  <2>2. toPrimary'[n] \in {toPrimary[n], Append(toPrimary[n], w)} /\ drains'[n] = drains[n] \ {w}
    BY <1>2, Domains
  <2>3. Range(toPrimary'[n]) \subseteq Range(toPrimary[n]) \union {w}
    <3>1. Range(Append(toPrimary[n], w)) = Range(toPrimary[n]) \union {w}
      BY <2>1, Ranges
    <3> QED BY <2>2, <3>1
  <2> QED BY <1>1, <1>2, <1>3, <2>2, <2>3 DEF Transit
<1>4. CASE m # n
  BY <1>1, <1>2, <1>4, Domains DEF Transit
<1> QED BY <1>3, <1>4

LEMMA TakeTransit ==
    ASSUME TypeInv, NEW n \in Node, TakeRelay(n), NEW m \in Node
    PROVE  Transit(m)' \subseteq Transit(m)
<1>1. /\ handling = NoRelay /\ toPrimary[n] # <<>> /\ toPrimary' = [toPrimary EXCEPT ![n] = Tail(@)]
      /\ handling' = [by |-> n, write |-> Head(toPrimary[n]), live |-> TRUE] /\ UNCHANGED drains
  BY DEF TakeRelay
<1>2. CASE m = n
  <2>1. toPrimary[n] \in Seq(Write)
    BY DEF TypeInv, TypeOK
  <2>2. toPrimary'[n] = Tail(toPrimary[n]) /\ Head(toPrimary[n]) \in Write
    BY <1>1, <2>1, Domains
  <2>3. Range(toPrimary'[n]) \subseteq Range(toPrimary[n]) /\ Head(toPrimary[n]) \in Range(toPrimary[n])
    BY <1>1, <2>1, <2>2, Ranges
  <2> QED BY <1>1, <1>2, <2>3 DEF Transit
<1>3. CASE m # n
  BY <1>1, <1>3, Domains DEF Transit
<1> QED BY <1>2, <1>3

LEMMA DrainEndStep ==
    ASSUME IInv, NEW n \in Node, DrainSend(n) \/ DrainDropped(n) \/ TakeRelay(n)
    PROVE  Marks' /\ \A m \in Node : RelayInv(m)'
<1>1. TypeInv /\ Marks /\ (\A m \in Node : RelayInv(m)) /\ primary \in Node
  BY MarkTypes DEF IInv
<1>2. UNCHANGED <<primary, accepted, nextId, outbox, open, toReplica, db, log, cursor, bootstrapped, snap>>
  BY DEF DrainSend, DrainDropped, TakeRelay, tables, queue, history
<1>3. Marks'
  BY <1>1, <1>2, MarksKept
<1>4. ASSUME NEW m \in Node PROVE RelayInv(m)'
  <2>1. Transit(m)' \subseteq Transit(m)
    BY <1>1, DrainTransit, TakeTransit
  <2>2. Mark(m)' = Mark(m) /\ RelayInv(m)
    BY <1>1, <1>2 DEF Mark
  <2> QED BY <1>1, <1>2, <2>1, <2>2, KeepRelays
<1> QED BY <1>3, <1>4

(* What an acknowledgement or a rejection tells.                           *)
LEMMA HeadAnswer ==
    ASSUME IInv, NEW n \in Node, toReplica[n] # <<>>
    PROVE  LET a == Head(toReplica[n])
           IN  /\ a.id \in Nat
               /\ a.type = "relay_ack" => a.id <= Mark(n)
               /\ a.type = "relay_reject" =>
                     /\ db[primary].user = Gone /\ \A w \in outbox[n] : w.id = a.id => w.op = "patch"
                     /\ (\E w \in outbox[n] : w.id = a.id) => Turn(n, a.id)
<1> DEFINE A == [type : {"relay_ack", "relay_reject"}, id : Id]
<1>1. TypeInv /\ toReplica[n] \in Seq(A) /\ Answered(n)
  BY DEF IInv, RelayInv, TypeInv, TypeOK
<1> HIDE DEF A
<1>2. Head(toReplica[n]) \in A
  BY <1>1
<1>3. Head(toReplica[n]) \in Range(toReplica[n])
  BY <1>1, <1>2, Ranges
<1>4. Head(toReplica[n]).id \in Nat
  BY <1>1, <1>3, RelayTypes
<1> QED BY <1>1, <1>3, <1>4 DEF Answered, Known

LEMMA AckStep ==
    ASSUME IInv, NEW n \in Node, HandleAck(n)
    PROVE  Marks' /\ \A m \in Node : RelayInv(m)'
<1>1. TypeInv /\ Marks /\ (\A m \in Node : RelayInv(m)) /\ primary \in Node
  BY MarkTypes DEF IInv
<1>2. UNCHANGED <<primary, accepted, nextId, open, drains, toPrimary, handling, db, log, cursor,
                  bootstrapped, snap>>
  BY DEF HandleAck, tables
<1> DEFINE id == Head(toReplica[n]).id
<1>3. /\ toReplica[n] # <<>> /\ Head(toReplica[n]).type = "relay_ack"
      /\ toReplica' = [toReplica EXCEPT ![n] = Tail(@)]
      /\ outbox' \in {outbox, [outbox EXCEPT ![n] = Without(n, id)]}
  BY DEF HandleAck
<1>4. id <= Mark(n)
  BY <1>3, HeadAnswer
<1> HIDE DEF id
<1>5. Marks'
  BY <1>1, <1>2, MarksKept
<1>6. ASSUME NEW m \in Node PROVE RelayInv(m)'
  <2>1. Mark(m)' = Mark(m) /\ RelayInv(m) /\ Transit(m)' = Transit(m)
    BY <1>1, <1>2 DEF Mark, Transit
  <2>2. CASE m = n
    <3>1. outbox'[n] \in {outbox[n], Without(n, id)} /\ toReplica'[n] = Tail(toReplica[n])
      BY <1>1, <1>3, Domains
    <3>2. outbox'[n] \subseteq outbox[n] /\ \A w \in outbox[n] \ outbox'[n] : w.id <= Mark(n)
      BY <1>4, <3>1 DEF Without
    <3>3. Range(toReplica'[n]) \subseteq Range(toReplica[n])
      <4> DEFINE A == [type : {"relay_ack", "relay_reject"}, id : Id]
      <4>1. toReplica[n] \in Seq(A)
        BY <1>1 DEF TypeInv, TypeOK
      <4> HIDE DEF A
      <4>2. Head(toReplica[n]) \in A
        BY <1>3, <4>1
      <4> QED BY <1>3, <3>1, <4>1, <4>2, Ranges
    <3> QED BY <1>1, <1>2, <2>1, <2>2, <3>2, <3>3, KeepRelays
  <2>3. CASE m # n
    <3>1. outbox'[m] = outbox[m] /\ toReplica'[m] = toReplica[m]
      BY <1>1, <1>3, <2>3, Domains
    <3> QED BY <1>1, <1>2, <2>1, <3>1, SameRelays
  <2> QED BY <2>2, <2>3
<1> QED BY <1>5, <1>6

LEMMA RejectStep ==
    ASSUME IInv, NEW n \in Node, HandleReject(n)
    PROVE  Marks' /\ \A m \in Node : RelayInv(m)'
<1>1. TypeInv /\ Marks /\ (\A m \in Node : RelayInv(m)) /\ primary \in Node
  BY MarkTypes DEF IInv
<1>2. Closed(n) /\ UNCHANGED <<primary, accepted, nextId, open, drains, db, log, cursor, snap>>
  BY DEF HandleReject, history
<1> DEFINE id == Head(toReplica[n]).id
<1>3. /\ toReplica[n] # <<>> /\ Head(toReplica[n]).type = "relay_reject"
      /\ bootstrapped' = [bootstrapped EXCEPT ![n] = FALSE]
      /\ outbox' \in {outbox, [outbox EXCEPT ![n] = Without(n, id)]}
  BY DEF HandleReject
<1>4. db[primary].user = Gone /\ \A w \in outbox[n] : w.id = id => w.op = "patch"
  BY <1>3, HeadAnswer
<1> HIDE DEF id
<1>5. \A m \in Node : outbox'[m] = outbox[m] \/ (m = n /\ outbox'[m] = Without(n, id))
  BY <1>1, <1>3, Domains
<1>6. \A m \in Node : outbox'[m] \subseteq outbox[m] /\ \A w \in outbox[m] \ outbox'[m] : w.op = "patch"
  BY <1>4, <1>5 DEF Without
<1>7. \A m \in Node : bootstrapped'[m] => bootstrapped[m]
  BY <1>1, <1>3, Domains
<1>8. Marks'
  BY <1>1, <1>2, <1>7, MarksKept
<1> QED BY <1>1, <1>2, <1>4, <1>6, <1>8, ClosedStep

LEMMA DisconnectStep ==
    ASSUME IInv, NEW n \in Node, Disconnect(n) \/ RestartReplica(n)
    PROVE  Marks' /\ \A m \in Node : RelayInv(m)'
<1>1. TypeInv /\ Marks /\ (\A m \in Node : RelayInv(m)) /\ primary \in Node
  BY MarkTypes DEF IInv
<1>2. Closed(n) /\ UNCHANGED <<primary, accepted, nextId, outbox, db, log, cursor, bootstrapped>>
  BY DEF Disconnect, RestartReplica, history, tables, queue
<1>3. \A m \in Node : /\ drains'[m] \subseteq drains[m] /\ open'[m] \subseteq open[m]
                      /\ snap'[m] \in {snap[m], NoSnapshot}
  <2>1. CASE Disconnect(n)
    BY <2>1 DEF Disconnect, queue
  <2>2. CASE RestartReplica(n)
    BY <1>1, <2>2, Domains DEF RestartReplica
  <2> QED BY <2>1, <2>2
<1>4. Marks'
  BY <1>1, <1>2, <1>3, MarksKept
<1> QED BY <1>1, <1>2, <1>3, <1>4, ClosedStep

LEMMA ReconcileStep ==
    ASSUME IInv, NEW n \in Node, ReconcileSnapshot(n)
    PROVE  Marks' /\ \A m \in Node : RelayInv(m)'
<1>1. TypeInv /\ Marks /\ (\A m \in Node : RelayInv(m)) /\ primary \in Node
  BY MarkTypes DEF IInv
<1>2. UNCHANGED <<primary, accepted, nextId, outbox, open, drains>>
  BY DEF ReconcileSnapshot, queue
<1>3. Marks' /\ n # primary
  BY <1>1, MarksReconcile
<1>4. CASE Closed(n) /\ UNCHANGED db
  BY <1>1, <1>2, <1>3, <1>4, ClosedStep
<1>5. CASE db' = [db EXCEPT ![n] = Reapplied(n, snap[n].tables)] /\ UNCHANGED <<toPrimary, toReplica,
             handling>>
  <2>1. db'[primary] = db[primary]
    BY <1>1, <1>3, <1>5, Domains
  <2> QED BY <1>1, <1>2, <1>3, <1>5, <2>1, QuietStep
<1> QED BY <1>4, <1>5 DEF ReconcileSnapshot

LEMMA ReplicaQuietStep ==
    ASSUME IInv, NEW n \in Node,
           Connect(n) \/ BecomeConnected(n) \/ FetchSnapshot(n) \/ ApplyRow(n) \/ AckTimeout(n)
    PROVE  Marks' /\ \A m \in Node : RelayInv(m)'
<1>1. TypeInv /\ Marks /\ (\A m \in Node : RelayInv(m)) /\ primary \in Node
  BY MarkTypes DEF IInv
<1>2. UNCHANGED <<primary, nextId, accepted, open, outbox, drains, toPrimary, toReplica, handling>>
  BY DEF Connect, BecomeConnected, FetchSnapshot, ApplyRow, AckTimeout, tables, queue, channel, history
<1>3. CASE ApplyRow(n)
  <2>1. Marks' /\ n # primary
    BY <1>1, <1>3, MarksApply
  <2>2. db'[primary] = db[primary]
    BY <1>1, <1>3, <2>1, Domains DEF ApplyRow
  <2> QED BY <1>1, <1>2, <2>1, <2>2, QuietStep
<1>4. CASE FetchSnapshot(n)
  <2>1. Marks' /\ UNCHANGED db
    BY <1>1, <1>4, MarksFetch DEF FetchSnapshot, tables
  <2> QED BY <1>1, <1>2, <2>1, QuietStep
<1>5. CASE Connect(n) \/ BecomeConnected(n) \/ AckTimeout(n)
  <2>1. UNCHANGED <<db, log, cursor, bootstrapped, snap>>
    BY <1>5 DEF Connect, BecomeConnected, AckTimeout, tables
  <2>2. Marks'
    BY <1>1, <1>2, <2>1, MarksKept
  <2> QED BY <1>1, <1>2, <2>1, <2>2, QuietStep
<1> QED BY <1>3, <1>4, <1>5

(* The primary has a new row; the relay it belongs to, if any, was next.   *)
LEMMA PrimaryQuietStep ==
    ASSUME IInv, RelayPostponed \/ Prune \/ FinishBoot \/ UNCHANGED vars
    PROVE  Marks' /\ \A m \in Node : RelayInv(m)'
<1>1. TypeInv /\ Marks /\ (\A m \in Node : RelayInv(m)) /\ primary \in Node
  BY MarkTypes DEF IInv
<1>2. UNCHANGED <<primary, nextId, accepted, open, outbox, drains, toPrimary, toReplica, db, log, cursor,
                  bootstrapped,
                  snap>>
  BY DEF RelayPostponed, Prune, FinishBoot, vars, tables, queue, channel, history
<1>3. handling' = handling \/ handling' = NoRelay
  BY DEF RelayPostponed, Prune, FinishBoot, vars
<1>4. Marks'
  BY <1>1, <1>2, MarksKept
<1> QED BY <1>1, <1>2, <1>3, <1>4, QuietStep

LEMMA AdminStep ==
    ASSUME IInv, NEW row \in (SUBSET Key) \union {Gone}, AdminWrite(row)
    PROVE  Marks' /\ \A m \in Node : RelayInv(m)'
<1>1. TypeInv /\ Marks /\ (\A m \in Node : RelayInv(m)) /\ primary \in Node /\ db[primary] \in Tables
  BY MarkTypes DEF IInv
<1> DEFINE e == [type |-> "user", row |-> row]
<1>2. /\ UNCHANGED <<primary, nextId, accepted, open, outbox, drains, toPrimary, toReplica, handling,
                     cursor,
                     bootstrapped, snap>>
      /\ log' = Append(log, e) /\ db[primary].user # Gone /\ db' = [db EXCEPT ![primary].user = row]
  BY DEF AdminWrite, queue, channel, history
<1>3. e \in Event /\ e.type # "relay"
  BY DEF Event
<1> HIDE DEF e
<1>4. db'[primary].wm = db[primary].wm /\ \A m \in Node \ {primary} : db'[m] = db[m]
  <2>1. \A m \in Node \ {primary} : db'[m] = db[m]
    BY <1>1, <1>2, Domains
  <2>2. db'[primary] = [db[primary] EXCEPT !.user = row]
    BY <1>1, <1>2, Domains
  <2> QED BY <1>1, <2>1, <2>2 DEF Tables
<1>5. Marks'
  BY <1>1, <1>2, <1>3, <1>4, MarksAppend
<1> QED BY <1>1, <1>2, <1>4, <1>5, QuietStep

LEMMA PromoteStep ==
    ASSUME IInv, NEW n \in Node, Promote(n)
    PROVE  Marks' /\ \A m \in Node : RelayInv(m)'
<1>1. TypeInv /\ Marks /\ (\A m \in Node : RelayInv(m)) /\ primary \in Node
  BY MarkTypes DEF IInv
<1>2. Marks' /\ \A m \in Node : Mark(m)' = Mark(m)
  BY <1>1, MarksPromote
<1>3. /\ UNCHANGED <<nextId, accepted, handling>> /\ handling = NoRelay
      /\ outbox' = [outbox EXCEPT ![primary] = {}] /\ open' = [m \in Node |-> {}]
      /\ drains' = [m \in Node |-> {}] /\ toPrimary' = [m \in Node |-> <<>>]
           /\ toReplica' = [m \in Node |-> <<>>]
  BY DEF Promote
<1>4. ASSUME NEW m \in Node PROVE RelayInv(m)'
  <2>1. outbox'[m] \subseteq outbox[m] /\ open'[m] = {} /\ toReplica'[m] = <<>>
    BY <1>1, <1>3, Domains
  <2>2. Transit(m)' = {}
    BY <1>3 DEF Transit, Range
  <2> QED BY <1>1, <1>2, <1>3, <2>1, <2>2, PromotedRelays
<1> QED BY <1>2, <1>4

(* A relay the primary has not seen moves its watermark.                   *)
LEMMA AcceptStep ==
    ASSUME IInv, NEW m \in Node, NEW w \in Write, w.id > Mark(m), Applicable(db[primary], w),
           AcceptRelay(primary, m, w), UNCHANGED <<primary, cursor, bootstrapped, snap>>
    PROVE  /\ Marks' /\ Mark(m)' = w.id /\ \A q \in Node \ {m} : Mark(q)' = Mark(q)
           /\ db[primary].user = Gone => db'[primary].user = Gone
           /\ accepted' = [accepted EXCEPT ![m] = Append(@, w.id)]
           /\ accepted'[m] = Append(accepted[m], w.id) /\ \A q \in Node \ {m} : accepted'[q] = accepted[q]
<1>1. TypeInv /\ TypeOK /\ Marks /\ primary \in Node /\ db[primary].wm \in [Node -> Nat]
  BY MarkTypes DEF IInv, TypeInv
<1>2. /\ \A q \in Node \ {primary} : db'[q] = db[q]
      /\ db'[primary].wm = [db[primary].wm EXCEPT ![m] = w.id]
      /\ db[primary].user = Gone => db'[primary].user = Gone
      /\ \E e \in Event : log' = Append(log, e) /\ e.type = "relay" /\ e.by = m /\ e.write = w
      /\ accepted' = [accepted EXCEPT ![m] = Append(@, w.id)]
  BY <1>1, AcceptType
<1>3. PICK e \in Event : log' = Append(log, e) /\ e.type = "relay" /\ e.by = m /\ e.write = w
  BY <1>2
<1>4. Marks'
  BY <1>1, <1>2, <1>3, MarksAppend DEF Mark
<1>5. Mark(m)' = w.id /\ \A q \in Node \ {m} : Mark(q)' = Mark(q)
  BY <1>1, <1>2 DEF Mark
<1> QED BY <1>1, <1>2, <1>4, <1>5, Domains

(* A relay the primary has not seen and can apply waits in the outbox, and *)
(* it is its turn.                                                         *)
LEMMA HandledIsNext ==
    ASSUME IInv, handling # NoRelay, handling.write.id > Mark(handling.by),
           Applicable(db[primary], handling.write)
    PROVE  handling.write \in outbox[handling.by] /\ Turn(handling.by, handling.write.id)
<1>1. handling.by \in Node
  BY DEF IInv, TypeInv, TypeOK
<1>2. handling.write \in Transit(handling.by)
  BY DEF Transit
<1>3. Sent(handling.by)
  BY <1>1 DEF IInv, RelayInv
<1> QED BY <1>2, <1>3 DEF Sent, Applicable

LEMMA HandleStep ==
    ASSUME IInv, HandleRelay
    PROVE  Marks' /\ \A m \in Node : RelayInv(m)'
<1>1. TypeInv /\ Marks /\ (\A m \in Node : RelayInv(m)) /\ primary \in Node
  BY MarkTypes DEF IInv
<1>2. /\ handling # NoRelay /\ handling' = NoRelay
      /\ UNCHANGED <<primary, cursor, bootstrapped, nextId, outbox, open, drains, toPrimary, snap>>
  BY DEF HandleRelay, queue, channel
<1>a. PICK n \in Node, w \in Write : n = handling.by /\ w = handling.write
  BY <1>1, <1>2 DEF TypeInv, TypeOK
<1>3. w \in Transit(n) /\ w.id \in Nat /\ Mark(n) \in Nat
  <2>1. w \in Transit(n)
    BY <1>2, <1>a DEF Transit
  <2> QED BY <1>1, <2>1, RelayTypes DEF Known
<1>4. \A m \in Node : Transit(m)' \subseteq Transit(m)
  BY <1>2 DEF Transit
<1>5. ASSUME NEW t \in {"relay_ack", "relay_reject"}, Answer(t)
      PROVE  /\ \A m \in Node \ {n} : toReplica'[m] = toReplica[m]
             /\ \A a \in Range(toReplica'[n]) : a \in Range(toReplica[n]) \/ a = [type |-> t, id |-> w.id]
  <2> DEFINE A == [type : {"relay_ack", "relay_reject"}, id : Id]
             b == [type |-> t, id |-> w.id]
  <2>1. toReplica[n] \in Seq(A) /\ b \in A
    BY <1>1, <1>3 DEF TypeInv, TypeOK, Write
  <2>2. toReplica' \in {toReplica, [toReplica EXCEPT ![n] = Append(@, b)]}
    BY <1>5, <1>a DEF Answer
  <2> HIDE DEF A, b
  <2>3. Range(Append(toReplica[n], b)) = Range(toReplica[n]) \union {b}
    BY <2>1, Ranges
  <2>4. toReplica'[n] \in {toReplica[n], Append(toReplica[n], b)}
          /\ \A m \in Node \ {n} : toReplica'[m] = toReplica[m]
    BY <1>1, <1>3, <2>2, Domains
  <2> QED BY <2>3, <2>4 DEF b
<1>6. CASE /\ w.id <= Mark(n) /\ Answer("relay_ack") /\ UNCHANGED <<db, log, accepted>>
  <2>1. Marks'
    BY <1>1, <1>2, <1>6, MarksKept
  <2>2. ASSUME NEW m \in Node PROVE RelayInv(m)'
    <3>1. CASE m = n
      <4> DEFINE a == [type |-> "relay_ack", id |-> w.id]
      <4>1. a.type = "relay_ack" /\ a.id = w.id
              /\ \A b \in Range(toReplica'[n]) : b \in Range(toReplica[n]) \/ b = a
        BY <1>5, <1>6
      <4> HIDE DEF a
      <4> QED BY <1>1, <1>2, <1>3, <1>4, <1>6, <3>1, <4>1, AnsweredRelays
    <3>2. CASE m # n
      <4>1. Mark(m)' = Mark(m) /\ toReplica'[m] = toReplica[m]
        BY <1>2, <1>5, <1>6, <3>2 DEF Mark
      <4> QED BY <1>1, <1>2, <1>6, <4>1, SameRelays
    <3> QED BY <3>1, <3>2
  <2> QED BY <2>1, <2>2
<1>7. CASE /\ w.id > Mark(n) /\ ~Applicable(db[primary], w) /\ Answer("relay_reject") /\ UNCHANGED <<db,
                log, accepted>>
  <2>1. Marks'
    BY <1>1, <1>2, <1>7, MarksKept
  <2>2. ASSUME NEW m \in Node PROVE RelayInv(m)'
    <3>1. CASE m = n
      <4> DEFINE a == [type |-> "relay_reject", id |-> w.id]
      <4>1. a.type = "relay_reject" /\ a.id = w.id
            /\ \A b \in Range(toReplica'[n]) : b \in Range(toReplica[n]) \/ b = a
        BY <1>5, <1>7
      <4>2. w.op = "patch" /\ db[primary].user = Gone
        BY <1>7 DEF Applicable
      <4> HIDE DEF a
      <4> QED BY <1>1, <1>2, <1>3, <1>4, <1>7, <3>1, <4>1, <4>2, AnsweredRelays
    <3>2. CASE m # n
      <4>1. Mark(m)' = Mark(m) /\ toReplica'[m] = toReplica[m]
        BY <1>2, <1>5, <1>7, <3>2 DEF Mark
      <4> QED BY <1>1, <1>2, <1>7, <4>1, SameRelays
    <3> QED BY <3>1, <3>2
  <2> QED BY <2>1, <2>2
<1>8. CASE /\ w.id > Mark(n) /\ Applicable(db[primary], w) /\ AcceptRelay(primary, n, w)
                /\ Answer("relay_ack")
  <2>1. /\ Marks' /\ Mark(n)' = w.id /\ \A q \in Node \ {n} : Mark(q)' = Mark(q)
        /\ db[primary].user = Gone => db'[primary].user = Gone
        /\ accepted'[n] = Append(accepted[n], w.id) /\ \A q \in Node \ {n} : accepted'[q] = accepted[q]
    BY <1>2, <1>3, <1>8, AcceptStep
  <2>2. w \in outbox[n] /\ Turn(n, w.id)
    BY <1>2, <1>8, <1>a, HandledIsNext
  <2>3. ASSUME NEW m \in Node PROVE RelayInv(m)'
    <3>1. CASE m = n
      <4>1. \A a \in Range(toReplica'[n]) : a \in Range(toReplica[n])
              \/ a = [type |-> "relay_ack", id |-> w.id]
        BY <1>5, <1>8
      <4> QED BY <1>1, <1>2, <1>3, <1>4, <1>8, <2>1, <2>2, <3>1, <4>1, AcceptedRelays
    <3>2. CASE m # n
      <4>1. toReplica'[m] = toReplica[m]
        BY <1>5, <1>8, <3>2
      <4> QED BY <1>1, <1>2, <2>1, <3>2, <4>1, SameRelays
    <3> QED BY <3>1, <3>2
  <2> QED BY <2>1, <2>3
<1>9. Seen(primary, n, w) <=> w.id <= Mark(n)
  BY DEF Seen, Mark
<1> QED BY <1>3, <1>6, <1>7, <1>8, <1>9, <1>a DEF HandleRelay

(* The first row of a booting primary that it has not seen is next.        *)
LEMMA AdoptStep ==
    ASSUME IInv, AdoptRow
    PROVE  Marks' /\ \A m \in Node : RelayInv(m)'
<1>1. TypeInv /\ Marks /\ (\A m \in Node : RelayInv(m)) /\ primary \in Node
  BY MarkTypes DEF IInv
<1>2. UNCHANGED <<primary, cursor, bootstrapped, nextId, open, snap, drains, toPrimary, toReplica,
                  handling>>
  BY DEF AdoptRow, channel
<1>3. PICK w \in outbox[primary] :
          /\ FirstRow(primary, w)
          /\ IF Seen(primary, primary, w) THEN UNCHANGED <<db, log, accepted>>
             ELSE Applicable(db[primary], w) /\ AcceptRelay(primary, primary, w)
          /\ outbox' \in {outbox, [outbox EXCEPT ![primary] = @ \ {w}]}
  BY DEF AdoptRow
<1>4. w \in Write /\ w.id \in Nat /\ Mark(primary) \in Nat /\ Turn(primary, w.id)
  <2>1. w \in Write /\ w.id \in Nat /\ Mark(primary) \in Nat
    BY <1>1, RelayTypes DEF Known
  <2> QED BY <1>3, <2>1 DEF FirstRow, Turn
<1>5. outbox'[primary] \in {outbox[primary], outbox[primary] \ {w}}
        /\ \A m \in Node \ {primary} : outbox'[m] = outbox[m]
  BY <1>1, <1>3, Domains
<1>6. \A m \in Node : Transit(m)' = Transit(m)
  BY <1>2 DEF Transit
<1>7. CASE w.id <= Mark(primary) /\ UNCHANGED <<db, log, accepted>>
  <2>1. Marks'
    BY <1>1, <1>2, <1>7, MarksKept
  <2>2. ASSUME NEW m \in Node PROVE RelayInv(m)'
    <3>1. Mark(m)' = Mark(m)
      BY <1>2, <1>7 DEF Mark
    <3>2. outbox'[m] \subseteq outbox[m] /\ \A v \in outbox[m] \ outbox'[m] : v.id <= Mark(m)
      BY <1>5, <1>7
    <3> QED BY <1>1, <1>2, <1>6, <1>7, <3>1, <3>2, KeepRelays
  <2> QED BY <2>1, <2>2
<1>8. CASE w.id > Mark(primary) /\ Applicable(db[primary], w) /\ AcceptRelay(primary, primary, w)
  <2>1. /\ Marks' /\ Mark(primary)' = w.id /\ \A q \in Node \ {primary} : Mark(q)' = Mark(q)
        /\ db[primary].user = Gone => db'[primary].user = Gone
        /\ accepted'[primary] = Append(accepted[primary], w.id)
        /\ \A q \in Node \ {primary} : accepted'[q] = accepted[q]
    BY <1>1, <1>2, <1>4, <1>8, AcceptStep
  <2>2. ASSUME NEW m \in Node PROVE RelayInv(m)'
    <3>1. CASE m = primary
      BY <1>1, <1>2, <1>4, <1>5, <1>6, <1>8, <2>1, <3>1, AcceptedRelays
    <3>2. CASE m # primary
      BY <1>1, <1>2, <1>5, <2>1, <3>2, SameRelays
    <3> QED BY <3>1, <3>2
  <2> QED BY <2>1, <2>2
<1>9. Seen(primary, primary, w) <=> w.id <= Mark(primary)
  BY DEF Seen, Mark
<1> QED BY <1>3, <1>4, <1>7, <1>8, <1>9

(* The invariant holds at first and is kept by every step.                 *)
LEMMA InvInit == ASSUME Init PROVE IInv
<1>1. TypeInv
  BY TypeInit
<1>2. /\ db = [n \in Node |-> [sessions |-> {}, user |-> {}, wm |-> [m \in Node |-> 0]]]
      /\ log = <<>> /\ snap = [n \in Node |-> NoSnapshot] /\ cursor = [n \in Node |-> 0] /\ primary \in Node
  BY MembersFinite DEF Init
<1>3. \A n, m \in Node : db[n].wm[m] = 0
  BY <1>2
<1>4. \A m \in Node : MarkAt(log, 0, m, 0) /\ Len(log) = 0
  BY <1>2 DEF MarkAt
<1>5. Marks
  BY <1>2, <1>3, <1>4 DEF Marks, Replicas, Busy, Ordered
<1>6. ASSUME NEW n \in Node PROVE RelayInv(n)
  <2>1. /\ accepted[n] = <<>> /\ nextId[n] = 0 /\ outbox[n] = {} /\ open[n] = {} /\ drains[n] = {}
        /\ toPrimary[n] = <<>> /\ toReplica[n] = <<>> /\ handling = NoRelay
    BY DEF Init
  <2>2. Transit(n) = {} /\ Known(n) = {} /\ Range(toReplica[n]) = {} /\ Mark(n) = 0
    BY <1>2, <1>3, <2>1 DEF Transit, Known, Range, Mark
  <2> QED BY <2>1, <2>2 DEF RelayInv, History, Numbered, Sent, InOrder, Answered
<1> QED BY <1>1, <1>5, <1>6 DEF IInv

LEMMA InvNext == ASSUME IInv, [Next]_vars PROVE IInv'
<1>1. TypeInv'
  BY TypeNext DEF IInv
<1> DEFINE Goal == Marks' /\ \A m \in Node : RelayInv(m)'
<1>2. ASSUME NEW n \in Node, CommitWrite(n) PROVE Goal
  <2>1. PICK w \in open[n] : Commit(n, w) /\ open' = [open EXCEPT ![n] = @ \ {w}]
    BY <1>2 DEF CommitWrite
  <2>2. UNCHANGED <<primary, nextId, accepted, drains, toPrimary, toReplica, handling, log, cursor,
                    bootstrapped, snap>>
    BY <1>2 DEF CommitWrite, channel, history
  <2> QED BY <2>1, <2>2, CommitStep
<1>3. ASSUME NEW n \in Node, ReplicaStep(n) PROVE Goal
  <2> HIDE DEF Goal
  <2>1. ASSUME Connect(n) \/ BecomeConnected(n) \/ FetchSnapshot(n) \/ ApplyRow(n) \/ AckTimeout(n) PROVE Goal
    BY <2>1, ReplicaQuietStep DEF Goal
  <2>2. ASSUME DrainSend(n) \/ DrainDropped(n) PROVE Goal
    BY <2>2, DrainEndStep DEF Goal
  <2>3. ASSUME DrainRead(n) PROVE Goal
    BY <2>3, DrainReadStep DEF Goal
  <2>4. ASSUME ReconcileSnapshot(n) PROVE Goal
    BY <2>4, ReconcileStep DEF Goal
  <2>5. ASSUME HandleAck(n) PROVE Goal
    BY <2>5, AckStep DEF Goal
  <2>6. ASSUME HandleReject(n) PROVE Goal
    BY <2>6, RejectStep DEF Goal
  <2> QED BY <1>3, <2>1, <2>2, <2>3, <2>4, <2>5, <2>6 DEF ReplicaStep
<1>4. ASSUME NEW n \in Node, NEW op \in RelayOp, WriteSerially(n, op) \/ BeginWrite(n, op) PROVE Goal
  BY <1>4, SerialStep, BeginStep
<1>5. ASSUME NEW n \in Node, RollbackWrite(n) \/ TakeRelay(n) \/ Promote(n) PROVE Goal
  BY <1>5, RollbackStep, DrainEndStep, PromoteStep
<1>6. ASSUME NEW n \in Node, Disconnect(n) \/ RestartReplica(n) PROVE Goal
  BY <1>6, DisconnectStep
<1>7. ASSUME AdminWrite(Gone) \/ AdminWrite(db[primary].user) PROVE Goal
  <2>1. db[primary] \in Tables
    BY MarkTypes DEF IInv
  <2>2. db[primary].user \in (SUBSET Key) \union {Gone} /\ Gone \in (SUBSET Key) \union {Gone}
    BY <2>1 DEF Tables
  <2> QED BY <1>7, <2>2, AdminStep
<1>8. ASSUME RelayPostponed \/ Prune \/ FinishBoot \/ UNCHANGED vars PROVE Goal
  BY <1>8, PrimaryQuietStep
<1>9. ASSUME HandleRelay \/ AdoptRow PROVE Goal
  BY <1>9, HandleStep, AdoptStep
<1> HIDE DEF Goal
<1>10. Goal
  BY <1>2, <1>3, <1>4, <1>5, <1>6, <1>7, <1>8, <1>9 DEF Next
<1> QED BY <1>1, <1>10 DEF IInv, Goal

(***************************************************************************)
(* The relay implements RelayChannel                                       *)
(***************************************************************************)

(* The writes of n that wait for a decision: open in RelayChannel.         *)
Pending(n) == {w.id : w \in outbox[n]} \ Range(accepted[n])

(* No decision: nothing RelayChannel speaks of changes.                    *)
LEMMA NoDecision ==
    ASSUME UNCHANGED <<primary, accepted>>, \A m \in Node : Pending(m)' = Pending(m)
    PROVE  UNCHANGED Channel!vars
BY DEF Channel!vars, Pending

LEMMA LastIsMark ==
    ASSUME IInv, NEW n \in Node
    PROVE  Channel!Last(n) = Mark(n)
<1>1. History(n)
  BY DEF IInv, RelayInv
<1> QED BY <1>1 DEF History, Channel!Last

(* The waiting rows of n: an id is one row; on SQLite none of them is      *)
(* behind the watermark, and elsewhere none is at it.                      *)
LEMMA PendingRows ==
    ASSUME IInv, NEW n \in Node
    PROVE  /\ Pending(n) \subseteq Id /\ Mark(n) \in Nat /\ Pending(n) \intersect Range(accepted[n]) = {}
           /\ \A i \in Pending(n) : \E w \in outbox[n] : w.id = i
           /\ \A i \in Pending(n) : i <= nextId[n] /\ i # Mark(n)
           /\ n \in Sqlite => \A i \in Pending(n) : i > Mark(n)
           /\ \A i \in Nat : i > Mark(n) => i \notin Range(accepted[n])
           /\ \A i \in Nat : n \in Sqlite /\ Turn(n, i) => \A j \in Pending(n) : i <= j
<1>1. TypeInv /\ History(n) /\ Numbered(n) /\ InOrder(n)
  BY DEF IInv, RelayInv
<1>2. /\ Mark(n) \in Nat /\ accepted[n] \in Seq(Id) /\ outbox[n] \subseteq Write
      /\ \A w \in outbox[n] : w.id \in Nat
  BY <1>1, RelayTypes DEF Known
<1>3. \A w \in outbox[n] : w.id \in Id /\ w.id # 0
  BY <1>2, BoundsAreNat DEF Write, Id
<1>4. \A i \in Range(accepted[n]) : i \in Nat /\ i <= Mark(n)
  <2> SUFFICES ASSUME NEW k \in DOMAIN accepted[n] PROVE accepted[n][k] \in Nat /\ accepted[n][k] <= Mark(n)
    BY DEF Range
  <2>1. accepted[n][k] \in Nat
    BY <1>2, BoundsAreNat DEF Id
  <2> QED BY <1>1, <2>1 DEF History
<1>5. Mark(n) = 0 \/ Mark(n) \in Range(accepted[n])
  <2>1. CASE accepted[n] = <<>>
    BY <1>1, <2>1 DEF History
  <2>2. CASE accepted[n] # <<>>
    <3>1. Len(accepted[n]) \in DOMAIN accepted[n]
      BY <1>2, <2>2
    <3> QED BY <1>1, <2>2, <3>1 DEF History, Range
  <2> QED BY <2>1, <2>2
<1>6. \A i \in Pending(n) : i <= nextId[n] /\ i # Mark(n)
  BY <1>1, <1>3, <1>5 DEF Pending, Numbered, Known
<1>7. n \in Sqlite => \A i \in Pending(n) : i > Mark(n)
  BY <1>1, <1>2 DEF Pending, InOrder
<1>8. \A i \in Nat : n \in Sqlite /\ Turn(n, i) => \A j \in Pending(n) : i <= j
  BY <1>7 DEF Turn, Pending
<1> QED BY <1>2, <1>3, <1>4, <1>6, <1>7, <1>8 DEF Pending

LEMMA SubmitRefines ==
    ASSUME IInv, NEW n \in Node, n # primary, NEW w \in Write, w.id \notin Pending(n),
           w.id \notin Range(accepted[n]),
           n \in Sqlite => w.id > nextId[n],
           UNCHANGED <<primary, accepted>>, outbox' = [outbox EXCEPT ![n] = @ \union {w}]
    PROVE  Channel!Next
<1>1. \A m \in Node : outbox'[m] = IF m = n THEN outbox[n] \union {w} ELSE outbox[m]
  BY Domains DEF IInv
<1>2. \A m \in Node : Pending(m)' = IF m = n THEN Pending(n) \union {w.id} ELSE Pending(m)
  BY <1>1 DEF Pending
<1>3. w.id \in Id /\ w.id \in Nat /\ nextId[n] \in Nat /\ Mark(n) \in Nat /\ Mark(n) <= nextId[n]
  <2>1. TypeInv /\ History(n)
    BY DEF IInv, RelayInv
  <2> QED BY <2>1, RelayTypes, BoundsAreNat DEF Write, Id, History
<1>4. Pending(n) \subseteq Id /\ \A j \in Pending(n) : j \in Nat /\ j <= nextId[n]
  BY PendingRows, BoundsAreNat DEF Id
<1>5. n \in Sqlite => w.id > Channel!Last(n) /\ \A j \in Pending(n) : w.id > j
  BY <1>3, <1>4, LastIsMark
<1>6. \A k \in DOMAIN accepted[n] : accepted[n][k] # w.id
  BY DEF Range
<1>7. [m \in Node |-> Pending(m)]' = [[m \in Node |-> Pending(m)] EXCEPT ![n] = @ \union {w.id}]
  BY <1>2
<1>8. Channel!Submit(n)
  BY <1>3, <1>5, <1>6, <1>7 DEF Channel!Submit, Pending
<1> QED BY <1>8 DEF Channel!Next

(* A decision about the waiting write i: it is accepted ...                *)
LEMMA AcceptRefines ==
    ASSUME IInv, NEW n \in Node, NEW w \in outbox[n], Turn(n, w.id), w.id > Mark(n),
           UNCHANGED primary, accepted' = [accepted EXCEPT ![n] = Append(@, w.id)],
           outbox' \in {outbox, [outbox EXCEPT ![n] = @ \ {w}]}
    PROVE  Channel!Next
<1>1. /\ TypeInv /\ Numbered(n) /\ accepted[n] \in Seq(Id) /\ w \in Write /\ w.id \in Id /\ w.id \in Nat
      /\ \A v \in outbox[n] : v.id = w.id => v = w
  <2>1. TypeInv /\ Numbered(n)
    BY DEF IInv, RelayInv
  <2>2. accepted[n] \in Seq(Id) /\ w \in Write
    BY <2>1, RelayTypes
  <2> QED BY <2>1, <2>2, BoundsAreNat DEF Numbered, Known, Write, Id
<1>2. w.id \in Pending(n)
  BY <1>1, PendingRows DEF Pending
<1>3. Range(Append(accepted[n], w.id)) = Range(accepted[n]) \union {w.id}
  BY <1>1, Ranges
<1>4. /\ \A m \in Node \ {n} : accepted'[m] = accepted[m] /\ outbox'[m] = outbox[m]
      /\ Range(accepted'[n]) = Range(accepted[n]) \union {w.id}
      /\ outbox'[n] \in {outbox[n], outbox[n] \ {w}}
  BY <1>1, <1>3, Domains
<1>5. \A m \in Node : Pending(m)' = IF m = n THEN Pending(n) \ {w.id} ELSE Pending(m)
  BY <1>1, <1>4 DEF Pending
<1>6. w.id > Channel!Last(n) /\ (n \in Sqlite => \A j \in Pending(n) : w.id <= j)
  BY <1>1, LastIsMark, PendingRows
<1>7. [m \in Node |-> Pending(m)]' = [[m \in Node |-> Pending(m)] EXCEPT ![n] = @ \ {w.id}]
  BY <1>5
<1>8. Channel!Accept(n)
  BY <1>1, <1>2, <1>6, <1>7 DEF Channel!Accept, Channel!IsNext, Pending
<1> QED BY <1>8 DEF Channel!Next

(* ... or removed: refused in its turn, or passed over.                    *)
LEMMA RemoveRefines ==
    ASSUME IInv, NEW n \in Node, NEW i \in Nat,
           i > Mark(n) /\ (\E v \in outbox[n] : v.id = i) => n # primary /\ Turn(n, i),
           UNCHANGED <<primary, accepted>>, outbox' = [outbox EXCEPT ![n] = Without(n, i)]
    PROVE  [Channel!Next]_Channel!vars
<1>1. \A m \in Node : outbox'[m] = IF m = n THEN Without(n, i) ELSE outbox[m]
  BY Domains DEF IInv
<1>2. \A m \in Node : Pending(m)' = IF m = n THEN Pending(n) \ {i} ELSE Pending(m)
  <2>1. {w.id : w \in Without(n, i)} = {w.id : w \in outbox[n]} \ {i}
    BY DEF Without
  <2>2. outbox'[n] = Without(n, i) /\ \A m \in Node \ {n} : outbox'[m] = outbox[m]
    BY <1>1
  <2>3. Pending(n)' = Pending(n) \ {i}
    BY <2>1, <2>2 DEF Pending
  <2>4. \A m \in Node \ {n} : Pending(m)' = Pending(m)
    BY <2>2 DEF Pending
  <2> QED BY <2>3, <2>4
<1>3. CASE i \notin Pending(n)
  BY <1>2, <1>3, NoDecision
<1>4. [m \in Node |-> Pending(m)]' = [[m \in Node |-> Pending(m)] EXCEPT ![n] = @ \ {i}]
  BY <1>2
<1>5. CASE i \in Pending(n) /\ i > Mark(n)
  <2>1. n # primary /\ Turn(n, i)
    BY <1>5, PendingRows
  <2>2. i > Channel!Last(n) /\ (n \in Sqlite => \A j \in Pending(n) : i <= j) /\ i \in Id
    BY <1>5, <2>1, LastIsMark, PendingRows
  <2>3. Channel!Refuse(n)
    BY <1>4, <1>5, <2>1, <2>2 DEF Channel!Refuse, Channel!IsNext, Pending
  <2> QED BY <2>3 DEF Channel!Next
<1>6. CASE i \in Pending(n) /\ i <= Mark(n)
  <2>1. n \notin Sqlite /\ i < Channel!Last(n)
    BY <1>6, LastIsMark, PendingRows
  <2>2. Channel!Discard(n)
    BY <1>4, <1>6, <2>1 DEF Channel!Discard, Pending
  <2> QED BY <2>2 DEF Channel!Next
<1>7. Mark(n) \in Nat
  BY PendingRows
<1> QED BY <1>3, <1>5, <1>6, <1>7

(* Every step of the relay is a step of RelayChannel or changes nothing    *)
(* RelayChannel speaks of.                                                 *)
LEMMA StepRefines == ASSUME IInv, [Next]_vars PROVE [Channel!Next]_Channel!vars
<1> DEFINE Goal == [Channel!Next]_Channel!vars
<1>0. TypeInv /\ primary \in Node /\ \A n \in Node : Numbered(n) /\ History(n)
  BY MarkTypes DEF IInv, RelayInv
<1>1. ASSUME UNCHANGED <<primary, accepted, outbox>> PROVE Goal
  BY <1>1, NoDecision DEF Pending
<1> HIDE DEF Goal
<1>2. ASSUME NEW n \in Node, NEW op \in RelayOp, WriteSerially(n, op) PROVE Goal
  <2> DEFINE w == NextWrite(n, op)
  <2>1. /\ writes > 0 /\ n # primary /\ n \in Sqlite /\ outbox' = [outbox EXCEPT ![n] = @ \union {w}]
        /\ UNCHANGED <<primary, accepted>>
    BY <1>2 DEF WriteSerially, TakeId, Commit, Replicas, history
  <2>2. w \in Write /\ w.id = nextId[n] + 1
    BY <1>0, <2>1, NextWriteType
  <2> HIDE DEF w
  <2>3. nextId[n] \in Nat /\ Mark(n) \in Nat /\ Mark(n) <= nextId[n]
    BY <1>0, RelayTypes DEF History
  <2>4. w.id > nextId[n] /\ w.id \notin Range(accepted[n])
    BY <2>2, <2>3, PendingRows
  <2>5. w.id \notin Pending(n)
    <3>1. \A j \in Pending(n) : j <= nextId[n]
      BY PendingRows
    <3> QED BY <2>2, <2>3, <3>1
  <2>6. Channel!Next
    BY <2>1, <2>2, <2>4, <2>5, SubmitRefines
  <2> QED BY <2>6 DEF Goal
<1>3. ASSUME NEW n \in Node, CommitWrite(n) PROVE Goal
  <2>1. PICK w \in open[n] : Commit(n, w)
    BY <1>3 DEF CommitWrite
  <2>2. /\ outbox' = [outbox EXCEPT ![n] = @ \union {w}] /\ UNCHANGED <<primary, accepted>>
    BY <1>3, <2>1 DEF Commit, CommitWrite, history
  <2>3. w \in Write /\ n # primary /\ n \notin Sqlite /\ w.id \notin Range(accepted[n])
    BY <1>0, RelayTypes DEF Numbered
  <2>4. w.id \notin Pending(n)
    BY <1>0 DEF Pending, Numbered, Known
  <2>5. Channel!Next
    BY <2>2, <2>3, <2>4, SubmitRefines
  <2> QED BY <2>5 DEF Goal
<1>4. ASSUME NEW n \in Node, HandleAck(n) \/ HandleReject(n) PROVE Goal
  <2>1. /\ toReplica[n] # <<>> /\ n # primary /\ UNCHANGED <<primary, accepted>>
        /\ outbox' = outbox \/ outbox' = [outbox EXCEPT ![n] = Without(n, Head(toReplica[n]).id)]
    BY <1>0, <1>4, MarkTypes DEF HandleAck, HandleReject, history
  <2>2. PICK i \in Nat : i = Head(toReplica[n]).id
    BY <2>1, HeadAnswer
  <2>3. Head(toReplica[n]).type \in {"relay_ack", "relay_reject"}
    BY <1>4 DEF HandleAck, HandleReject
  <2>4. ASSUME i > Mark(n), \E v \in outbox[n] : v.id = i PROVE Turn(n, i)
    <3>1. Mark(n) \in Nat
      BY PendingRows
    <3>2. Head(toReplica[n]).type # "relay_ack"
      BY <2>1, <2>2, <2>4, <3>1, HeadAnswer
    <3> QED BY <2>1, <2>2, <2>3, <2>4, <3>2, HeadAnswer
  <2>5. CASE outbox' = [outbox EXCEPT ![n] = Without(n, i)]
    BY <2>1, <2>4, <2>5, RemoveRefines DEF Goal
  <2> QED BY <1>1, <2>1, <2>2, <2>5
<1>5. ASSUME HandleRelay PROVE Goal
  <2>1. /\ handling # NoRelay /\ UNCHANGED <<primary, outbox>>
    BY <1>5 DEF HandleRelay, queue
  <2>2. PICK n \in Node, w \in Write : n = handling.by /\ w = handling.write
    BY <1>0, <2>1 DEF TypeInv, TypeOK
  <2>3. CASE ~Seen(primary, n, w) /\ Applicable(db[primary], w) /\ AcceptRelay(primary, n, w)
    <3>1. w.id \in Nat /\ Mark(n) \in Nat
      BY PendingRows, BoundsAreNat DEF Write, Id
    <3>2. w.id > Mark(n)
      BY <2>3, <3>1 DEF Seen, Mark
    <3>3. w \in outbox[n] /\ Turn(n, w.id)
      BY <2>1, <2>2, <2>3, <3>2, HandledIsNext
    <3>4. accepted' = [accepted EXCEPT ![n] = Append(@, w.id)]
      BY <2>3 DEF AcceptRelay
    <3>5. Channel!Next
      BY <2>1, <3>2, <3>3, <3>4, AcceptRefines
    <3> QED BY <3>5 DEF Goal
  <2>4. CASE UNCHANGED accepted
    BY <1>1, <2>1, <2>4
  <2> QED BY <1>5, <2>2, <2>3, <2>4 DEF HandleRelay
<1>6. ASSUME AdoptRow PROVE Goal
  <2>1. PICK w \in outbox[primary] :
            /\ FirstRow(primary, w)
            /\ IF Seen(primary, primary, w) THEN UNCHANGED <<db, log, accepted>>
               ELSE Applicable(db[primary], w) /\ AcceptRelay(primary, primary, w)
            /\ outbox' \in {outbox, [outbox EXCEPT ![primary] = @ \ {w}]}
    BY <1>6 DEF AdoptRow
  <2>2. UNCHANGED primary /\ w.id \in Nat /\ Mark(primary) \in Nat /\ Turn(primary, w.id)
    <3>1. w.id \in Nat /\ Mark(primary) \in Nat
      BY <1>0, RelayTypes DEF Known
    <3> QED BY <1>6, <2>1, <3>1 DEF AdoptRow, FirstRow, Turn
  <2>3. CASE ~Seen(primary, primary, w)
    <3>1. w.id > Mark(primary) /\ accepted' = [accepted EXCEPT ![primary] = Append(@, w.id)]
      BY <2>1, <2>2, <2>3 DEF Seen, Mark, AcceptRelay
    <3>2. Channel!Next
      BY <1>0, <2>1, <2>2, <3>1, AcceptRefines
    <3> QED BY <3>2 DEF Goal
  <2>4. CASE Seen(primary, primary, w) /\ outbox' # outbox
    <3>1. w.id <= Mark(primary) /\ UNCHANGED accepted
      BY <2>1, <2>4 DEF Seen, Mark
    <3>2. outbox[primary] \ {w} = Without(primary, w.id)
      BY <1>0 DEF Without, Numbered, Known
    <3>3. outbox' = [outbox EXCEPT ![primary] = Without(primary, w.id)]
      BY <2>1, <2>4, <3>2
    <3>4. ~(w.id > Mark(primary))
      BY <2>2, <3>1
    <3> QED BY <1>0, <2>2, <3>1, <3>3, <3>4, RemoveRefines DEF Goal
  <2>5. CASE Seen(primary, primary, w) /\ outbox' = outbox
    BY <1>1, <2>1, <2>2, <2>5
  <2> QED BY <2>3, <2>4, <2>5
<1>7. ASSUME NEW n \in Node, Promote(n) PROVE Goal
  <2>1. /\ n # primary /\ primary' = n /\ UNCHANGED accepted
        /\ outbox' = [outbox EXCEPT ![primary] = {}]
    BY <1>7 DEF Promote
  <2>2. outbox'[primary] = {} /\ \A m \in Node \ {primary} : outbox'[m] = outbox[m]
    BY <1>0, <2>1, Domains
  <2>3. \A m \in Node : Pending(m)' = IF m = primary THEN {} ELSE Pending(m)
    BY <2>1, <2>2 DEF Pending
  <2>4. [m \in Node |-> Pending(m)]' = [[m \in Node |-> Pending(m)] EXCEPT ![primary] = {}]
    BY <2>3
  <2>5. Channel!TakeOver(n)
    BY <2>1, <2>4 DEF Channel!TakeOver, Pending
  <2> QED BY <2>5 DEF Channel!Next, Goal
<1>8. ASSUME NEW n \in Node, \/ Connect(n) \/ FetchSnapshot(n) \/ ReconcileSnapshot(n) \/ ApplyRow(n)
                             \/ BecomeConnected(n) \/ DrainRead(n) \/ DrainSend(n) \/ DrainDropped(n) \/ AckTimeout(n)
      PROVE  Goal
  <2>1. UNCHANGED <<primary, accepted, outbox>>
    BY <1>8 DEF Connect, FetchSnapshot, ReconcileSnapshot, ApplyRow, BecomeConnected, DrainRead, DrainSend,
                DrainDropped, AckTimeout, queue, history
  <2> QED BY <1>1, <2>1
<1>9. ASSUME NEW n \in Node, \/ \E op \in RelayOp : BeginWrite(n, op)
                             \/ RollbackWrite(n) \/ TakeRelay(n) \/ Disconnect(n) \/ RestartReplica(n)
      PROVE  Goal
  <2>1. UNCHANGED <<primary, accepted, outbox>>
    BY <1>9 DEF BeginWrite, RollbackWrite, TakeRelay, Disconnect, RestartReplica, queue, history
  <2> QED BY <1>1, <2>1
<1>10. ASSUME RelayPostponed \/ (\E row \in {Gone,
                db[primary].user} : AdminWrite(row)) \/ Prune \/ FinishBoot
              \/ UNCHANGED vars
       PROVE  Goal
  <2>1. UNCHANGED <<primary, accepted, outbox>>
    BY <1>10 DEF RelayPostponed, AdminWrite, Prune, FinishBoot, vars, queue, history
  <2> QED BY <1>1, <2>1
<1>11. ASSUME NEW n \in Node, ReplicaStep(n) PROVE Goal
  BY <1>4, <1>8, <1>11 DEF ReplicaStep
<1>12. Goal
  BY <1>2, <1>3, <1>5, <1>6, <1>7, <1>9, <1>10, <1>11 DEF Next
<1> QED BY <1>12 DEF Goal

(***************************************************************************)
(* Theorems                                                                *)
(***************************************************************************)

(* The inductive invariant holds in every behaviour of the relay.          *)
THEOREM Invariance == Spec => []IInv
<1>1. Init => IInv
  BY InvInit
<1>2. IInv /\ [Next]_vars => IInv'
  BY InvNext
<1> QED BY <1>1, <1>2, PTL DEF Spec

(* Tables, changelog, cursors, outboxes, messages and the relay that is    *)
(* handled keep their types, for every membership and mix of databases.    *)
THEOREM TypeCorrect == Spec => []TypeOK
<1>1. IInv => TypeOK
  BY DEF IInv, TypeInv
<1> QED BY <1>1, Invariance, PTL

(* The relay implements RelayChannel: drains that overlap, answers that    *)
(* are lost or late, reconnections, snapshots, restarts and changes of the *)
(* primary included, the cluster accepts the writes of a node once and in  *)
(* the order of their ids, and on SQLite refuses one only in its turn      *)
(* (applyReplicatedSessionRelay, adoptPendingSessionRelaysAsPrimary).      *)
THEOREM RelayImplementsChannel == Spec => ChannelSpec
<1>1. Init => Channel!Init
  <2> SUFFICES ASSUME Init PROVE Channel!Init
    OBVIOUS
  <2>1. primary \in Node /\ accepted = [n \in Node |-> <<>>] /\ outbox = [n \in Node |-> {}]
    BY MembersFinite DEF Init
  <2>2. \A n \in Node : Pending(n) = {}
    BY <2>1 DEF Pending
  <2> QED BY <2>1, <2>2 DEF Channel!Init, Pending
<1>2. IInv /\ [Next]_vars => [Channel!Next]_Channel!vars
  BY StepRefines
<1> QED BY <1>1, <1>2, Invariance, PTL DEF Spec, ChannelSpec, Channel!Spec

(***************************************************************************)
(* A node keeps sight of its own sessions.                                 *)
(*                                                                         *)
(* A snapshot is reconciled with the outbox as it is by then.  Tables and  *)
(* snapshots have the sessions of the changelog rows they stand for (Rows).*)
(* A row accepted after the snapshot was read is still in the outbox       *)
(* (Fresh), since the acknowledgements behind it wait, and is beyond the   *)
(* watermark of the snapshot, so it is applied again.  A write that waits  *)
(* and is behind that watermark was accepted or overtaken; an accepted one *)
(* has a row (Logged), and the row is that very write (Keys).              *)
(***************************************************************************)

(* S has the sessions of m in the rows of g up to k.                       *)
HasRows(g, S, m, k) ==
    \A i \in 1..k : RelayAt(g, i, m) /\ g[i].write.op = "insert" => <<m, g[i].write.id>> \in S

(* Tables and snapshots have the sessions of the rows they stand for.      *)
Rows ==
    /\ \A m \in Node : HasRows(log, db[primary].sessions, m, Len(log))
    /\ \A n \in Replicas : bootstrapped[n] => \A m \in Node : HasRows(log, db[n].sessions, m, cursor[n])
    /\ \A n \in Node : Busy(n) => \A m \in Node : HasRows(log, snap[n].tables.sessions, m, snap[n].seq)

(* The changelog has the accepted writes of n and no others.               *)
Logged(n) ==
    /\ \A k \in 1..Len(log) : RelayAt(log, k, n) => log[k].write.id \in Range(accepted[n])
    /\ \A i \in Range(accepted[n]) : \E k \in 1..Len(log) : RelayAt(log, k, n) /\ log[k].write.id = i

(* n has its sessions, those in the changelog and those that wait.         *)
Waiting(n) ==
    \A w \in outbox[n] : w.op = "insert" /\ ~Overtaken(n, w) => <<n, w.id>> \in db[n].sessions

(* What is accepted after n has read a snapshot stays in its outbox until  *)
(* the snapshot is reconciled.                                             *)
Fresh(n) ==
    Busy(n) => \A k \in 1..Len(log) : k > snap[n].seq /\ RelayAt(log, k, n) => log[k].write \in outbox[n]

OwnInv(n) == HasRows(log, db[n].sessions, n, Len(log)) /\ Logged(n) /\ Waiting(n) /\ Fresh(n)

(* All the writes of n there are; an id is one of them.                    *)
Made(n) == Known(n) \union {log[k].write : k \in {k \in 1..Len(log) : RelayAt(log, k, n)}}

OneWrite(n) ==
    /\ \A w \in Made(n) : w.id <= nextId[n]
    /\ \A u, w \in Made(n) : u.id = w.id => u = w

(* Somebody has a session i of m; it was a session that m made.            *)
Somewhere(m, i) ==
    \/ \E q \in Node : <<m, i>> \in db[q].sessions
    \/ \E q \in Node : Busy(q) /\ <<m, i>> \in snap[q].tables.sessions

IsSession(m, i) == i <= nextId[m] /\ \A w \in Made(m) : w.id = i => w.op = "insert"

Keys ==
    /\ \A n \in Node : OneWrite(n)
    /\ \A m \in Node : \A i \in Id : Somewhere(m, i) => IsSession(m, i)

SInv == Rows /\ Keys /\ \A n \in Node : OwnInv(n)

(***************************************************************************)
(* The sessions in the tables                                              *)
(***************************************************************************)

LEMMA AppliedSessions ==
    ASSUME NEW d \in Tables, NEW m \in Node, NEW w \in Write
    PROVE  Applied(d, m, w).sessions = d.sessions \union (IF w.op = "insert" THEN {<<m, w.id>>} ELSE {})
<1>1. CASE w.op = "insert"
  BY <1>1 DEF Applied, Tables
<1>2. CASE w.op # "insert"
  BY <1>2 DEF Applied, Tables
<1> QED BY <1>1, <1>2

(* applyChangelogRow: a session of another node is inserted.               *)
LEMMA AfterRowSessions ==
    ASSUME NEW n \in Node, NEW d \in Tables, NEW e \in Event
    PROVE  AfterRow(n, d, e).sessions =
              d.sessions \union (IF e.type = "relay" /\ e.by # n /\ e.write.op = "insert"
                                 THEN {<<e.by, e.write.id>>} ELSE {})
<1>1. CASE e.type = "user"
  BY <1>1 DEF AfterRow, Tables
<1>2. CASE e.type = "relay"
  <2>1. e.by \in Node /\ e.write \in Write
    BY <1>2 DEF Event
  <2>2. CASE e.by = n
    BY <1>2, <2>2 DEF AfterRow, Tables
  <2>3. CASE e.by # n /\ e.write.op = "insert"
    <3>1. AfterRow(n, d, e) = [Applied(d, e.by, e.write) EXCEPT !.wm[e.by] = e.write.id]
      BY <1>2, <2>3 DEF AfterRow
    <3>2. Applied(d, e.by, e.write) \in Tables
      BY <2>1, <2>3, AppliedType DEF Applicable
    <3>3. AfterRow(n, d, e).sessions = Applied(d, e.by, e.write).sessions
      BY <3>1, <3>2 DEF Tables
    <3> QED BY <1>2, <2>1, <2>3, <3>3, AppliedSessions
  <2>4. CASE e.by # n /\ e.write.op # "insert"
    BY <1>2, <2>4 DEF AfterRow, Tables
  <2> QED BY <2>2, <2>3, <2>4
<1> QED BY <1>1, <1>2 DEF Event

(* reapplyPendingSessionRelays: the sessions that are not in the snapshot. *)
LEMMA ReappliedSessions ==
    ASSUME NEW n \in Node, NEW d \in Tables
    PROVE  Reapplied(n, d).sessions =
              d.sessions \union {<<n, w.id>> : w \in {w \in NotIn(n, d) : w.op = "insert"}}
<1> DEFINE S == d.sessions \union {<<n, w.id>> : w \in {w \in NotIn(n, d) : w.op = "insert"}}
           U == IF d.user = Gone THEN Gone
                ELSE d.user \union {<<n, w.id>> : w \in {w \in NotIn(n, d) : w.op = "patch"}}
<1>1. Reapplied(n, d) = [d EXCEPT !.sessions = S, !.user = U]
  BY DEF Reapplied, Tables
<1> HIDE DEF S, U
<1>2. Reapplied(n, d).sessions = S
  BY <1>1 DEF Tables
<1> QED BY <1>2 DEF S

LEMMA AcceptSessions ==
    ASSUME TypeInv, NEW m \in Node, NEW w \in Write, Applicable(db[primary], w), AcceptRelay(primary, m, w)
    PROVE  /\ db'[primary].sessions = db[primary].sessions \union (IF w.op = "insert" THEN {<<m, w.id>>} ELSE {})
           /\ \A q \in Node \ {primary} : db'[q] = db[q]
<1>1. primary \in Node /\ db[primary] \in Tables
  BY MarkTypes
<1> DEFINE a == Applied(db[primary], m, w)
           d == [a EXCEPT !.wm[m] = w.id]
<1>2. a \in Tables /\ a.sessions = db[primary].sessions \union (IF w.op = "insert" THEN {<<m, w.id>>} ELSE {})
  BY <1>1, AppliedType, AppliedSessions
<1>3. db' = [db EXCEPT ![primary] = d]
  BY DEF AcceptRelay
<1>4. d.sessions = a.sessions
  BY <1>2 DEF Tables
<1> HIDE DEF a, d
<1> QED BY <1>1, <1>2, <1>3, <1>4, Domains

(***************************************************************************)
(* Keys: no two writes of a node have the same id                          *)
(***************************************************************************)

LEMMA MadeTypes ==
    ASSUME TypeInv, NEW n \in Node
    PROVE  Made(n) \subseteq Write /\ nextId[n] \in Nat /\ \A w \in Made(n) : w.id \in Nat /\ w.id \in Id
<1>1. Known(n) \subseteq Write /\ nextId[n] \in Nat
  BY RelayTypes
<1>2. \A k \in 1..Len(log) : RelayAt(log, k, n) => log[k].write \in Write
  <2> SUFFICES ASSUME NEW k \in 1..Len(log), RelayAt(log, k, n) PROVE log[k].write \in Write
    OBVIOUS
  <2>1. log[k] \in Event
    BY MarkTypes
  <2> QED BY <2>1 DEF RelayAt, Event
<1>3. Made(n) \subseteq Write
  BY <1>1, <1>2 DEF Made
<1>4. \A w \in Write : w.id \in Nat /\ w.id \in Id
  BY BoundsAreNat DEF Write, Id
<1> QED BY <1>1, <1>3, <1>4

(* A new write has a new id, and a new session is somebody's write.        *)
LEMMA KeysKept ==
    ASSUME TypeInv, Keys,
           \A m \in Node : nextId'[m] \in Nat /\ nextId'[m] >= nextId[m],
           \A m \in Node : \A w \in Made(m)' :
                w \in Made(m) \/ (w.id \in Nat /\ w.id > nextId[m] /\ w.id <= nextId'[m]),
           \A m \in Node : \A u, w \in Made(m)' : u \in Made(m) \/ w \in Made(m) \/ u = w,
           \A m \in Node : \A i \in Id : Somewhere(m, i)' =>
                Somewhere(m, i) \/ \E w \in Made(m)' : w.id = i /\ w.op = "insert"
    PROVE  Keys'
<1>1. ASSUME NEW m \in Node PROVE OneWrite(m)'
  <2>1. nextId[m] \in Nat /\ nextId'[m] \in Nat /\ (\A w \in Made(m) : w.id \in Nat) /\ \A w \in Made(m)' : w.id \in Nat
    BY MadeTypes
  <2>2. OneWrite(m)
    BY DEF Keys
  <2>3. \A w \in Made(m)' : w.id <= nextId'[m]
    BY <2>1, <2>2 DEF OneWrite
  <2>4. ASSUME NEW u \in Made(m)', NEW w \in Made(m)', u.id = w.id PROVE u = w
    <3>1. CASE u \in Made(m) /\ w \in Made(m)
      BY <2>2, <2>4, <3>1 DEF OneWrite
    <3>2. CASE u \in Made(m) /\ w \notin Made(m)
      BY <2>1, <2>2, <2>4, <3>2 DEF OneWrite
    <3>3. CASE u \notin Made(m) /\ w \in Made(m)
      BY <2>1, <2>2, <2>4, <3>3 DEF OneWrite
    <3> QED BY <3>1, <3>2, <3>3
  <2> QED BY <2>3, <2>4 DEF OneWrite
<1>2. ASSUME NEW m \in Node, NEW i \in Id, Somewhere(m, i)' PROVE IsSession(m, i)'
  <2>1. nextId[m] \in Nat /\ nextId'[m] \in Nat /\ i \in Nat /\ \A w \in Made(m)' : w.id \in Nat
    BY MadeTypes, BoundsAreNat DEF Id
  <2>2. CASE Somewhere(m, i)
    <3>1. IsSession(m, i)
      BY <2>2 DEF Keys
    <3> QED BY <2>1, <3>1 DEF IsSession
  <2>3. CASE \E w \in Made(m)' : w.id = i /\ w.op = "insert"
    BY <1>1, <2>3 DEF OneWrite, IsSession
  <2> QED BY <1>2, <2>2, <2>3
<1> QED BY <1>1, <1>2 DEF Keys

(* Steps that make no write.                                               *)
LEMMA KeysSame ==
    ASSUME TypeInv, Keys, UNCHANGED nextId,
           \A m \in Node : Made(m)' \subseteq Made(m),
           \A m \in Node : \A i \in Id : Somewhere(m, i)' =>
                Somewhere(m, i) \/ \E w \in Made(m)' : w.id = i /\ w.op = "insert"
    PROVE  Keys'
<1>1. \A m \in Node : nextId[m] \in Nat
  BY MadeTypes
<1> QED BY <1>1, KeysKept

(***************************************************************************)
(* Rows                                                                    *)
(***************************************************************************)

LEMMA RowsKept ==
    ASSUME TypeInv, Rows, UNCHANGED <<primary, log, cursor>>,
           \A n \in Node : db[n].sessions \subseteq db'[n].sessions,
           \A n \in Node : bootstrapped'[n] => bootstrapped[n],
           \A n \in Node : snap'[n] \in {snap[n], NoSnapshot}
    PROVE  Rows'
<1>1. primary \in Node
  BY MarkTypes
<1>2. ASSUME NEW m \in Node PROVE HasRows(log', db'[primary'].sessions, m, Len(log'))
  BY <1>1, <1>2 DEF Rows, HasRows
<1>3. ASSUME NEW n \in Replicas', bootstrapped'[n], NEW m \in Node
      PROVE  HasRows(log', db'[n].sessions, m, cursor'[n])
  BY <1>3 DEF Rows, Replicas, HasRows
<1>4. ASSUME NEW n \in Node, Busy(n)', NEW m \in Node
      PROVE  HasRows(log', snap'[n].tables.sessions, m, snap'[n].seq)
  BY <1>4 DEF Rows, Busy
<1> QED BY <1>2, <1>3, <1>4 DEF Rows

(* The primary appends a row and has its session.                          *)
LEMMA RowsAppend ==
    ASSUME TypeInv, Rows, NEW e \in Event, log' = Append(log, e),
           UNCHANGED <<primary, cursor, bootstrapped, snap>>,
           \A n \in Node : db[n].sessions \subseteq db'[n].sessions,
           e.type = "relay" /\ e.write.op = "insert" => <<e.by, e.write.id>> \in db'[primary].sessions
    PROVE  Rows'
<1>1. /\ log \in Seq(Event) /\ Len(log) \in Nat /\ primary \in Node
      /\ \A n \in Node : cursor[n] \in 0..Len(log) /\ (Busy(n) => snap[n].seq \in 0..Len(log))
  BY MarkTypes
<1>2. /\ Len(log') = Len(log) + 1 /\ log'[Len(log) + 1] = e
      /\ \A i \in 1..Len(log) : log'[i] = log[i]
  BY <1>1, Appended
<1>3. ASSUME NEW k \in 0..Len(log), NEW m \in Node, NEW S, NEW T, S \subseteq T, HasRows(log, S, m, k)
      PROVE  HasRows(log', T, m, k)
  <2>1. \A i \in 1..k : i \in 1..Len(log)
    BY <1>1
  <2> QED BY <1>2, <1>3, <2>1 DEF HasRows, RelayAt
<1>4. ASSUME NEW m \in Node PROVE HasRows(log', db'[primary].sessions, m, Len(log'))
  <2>1. HasRows(log', db'[primary].sessions, m, Len(log))
    <3>1. HasRows(log, db[primary].sessions, m, Len(log)) /\ Len(log) \in 0..Len(log)
      BY <1>1 DEF Rows
    <3> QED BY <1>1, <1>3, <3>1
  <2>2. \A i \in 1..Len(log') : i \in 1..Len(log) \/ i = Len(log) + 1
    BY <1>1, <1>2
  <2> QED BY <1>2, <2>1, <2>2 DEF HasRows, RelayAt
<1>5. ASSUME NEW n \in Replicas, bootstrapped[n], NEW m \in Node
      PROVE  HasRows(log', db'[n].sessions, m, cursor[n])
  <2>1. HasRows(log, db[n].sessions, m, cursor[n]) /\ n \in Node
    BY <1>5 DEF Rows, Replicas
  <2> QED BY <1>1, <1>3, <2>1
<1>6. ASSUME NEW n \in Node, Busy(n), NEW m \in Node
      PROVE  HasRows(log', snap[n].tables.sessions, m, snap[n].seq)
  <2>1. HasRows(log, snap[n].tables.sessions, m, snap[n].seq)
    BY <1>6 DEF Rows
  <2> QED BY <1>1, <1>3, <1>6, <2>1
<1> QED BY <1>4, <1>5, <1>6 DEF Rows, Replicas, Busy

LEMMA RowsFetch ==
    ASSUME TypeInv, Rows, NEW n \in Node, FetchSnapshot(n)
    PROVE  Rows'
<1>1. UNCHANGED <<primary, db, log, cursor, bootstrapped>>
  BY DEF FetchSnapshot, tables
<1>2. /\ \A q \in Node \ {n} : snap'[q] = snap[q]
      /\ snap'[n] = [tables |-> db[primary], seq |-> Len(log)]
  BY Domains DEF FetchSnapshot
<1>3. ASSUME NEW q \in Node, Busy(q)', NEW m \in Node
      PROVE  HasRows(log, snap'[q].tables.sessions, m, snap'[q].seq)
  <2>1. CASE q = n
    BY <1>2, <2>1 DEF Rows
  <2>2. CASE q # n
    BY <1>2, <1>3, <2>2 DEF Rows, Busy
  <2> QED BY <2>1, <2>2
<1> QED BY <1>1, <1>3 DEF Rows, Replicas

LEMMA RowsApply ==
    ASSUME TypeInv, Marks, Rows, NEW n \in Node, ApplyRow(n), HasRows(log, db[n].sessions, n, Len(log))
    PROVE  /\ Rows' /\ n # primary /\ \A q \in Node \ {n} : db'[q] = db[q]
           /\ db[n].sessions \subseteq db'[n].sessions
           /\ \A s \in db'[n].sessions : s \in db[n].sessions \/
                \E k \in 1..Len(log) : \E m \in Node :
                    RelayAt(log, k, m) /\ log[k].write.op = "insert" /\ s = <<m, log[k].write.id>>
<1> DEFINE e == log[cursor[n] + 1]
<1>1. /\ log \in Seq(Event) /\ Len(log) \in Nat /\ primary \in Node
      /\ \A q \in Node : db[q] \in Tables /\ cursor[q] \in 0..Len(log)
  BY MarkTypes
<1>2. n # primary
  BY MarksApply
<1>3. bootstrapped[n] /\ cursor[n] + 1 \in 1..Len(log) /\ cursor[n] \in Nat
  BY <1>1 DEF ApplyRow, NeedsSnapshot
<1>4. /\ db' = [db EXCEPT ![n] = AfterRow(n, @, e)] /\ cursor' = [cursor EXCEPT ![n] = @ + 1]
      /\ UNCHANGED <<primary, log, bootstrapped, snap>>
  BY DEF ApplyRow
<1>5. e \in Event
  BY <1>1, <1>3
<1>6. /\ db'[n] = AfterRow(n, db[n], e) /\ cursor'[n] = cursor[n] + 1
      /\ \A q \in Node \ {n} : db'[q] = db[q] /\ cursor'[q] = cursor[q]
  BY <1>4 DEF TypeInv, TypeOK
<1>7. db'[n].sessions = db[n].sessions \union (IF e.type = "relay" /\ e.by # n /\ e.write.op = "insert"
                                              THEN {<<e.by, e.write.id>>} ELSE {})
  <2> HIDE DEF e
  <2> QED BY <1>1, <1>5, <1>6, AfterRowSessions
<1>8. ASSUME NEW m \in Node PROVE HasRows(log, db'[n].sessions, m, cursor[n] + 1)
  <2>1. HasRows(log, db[n].sessions, m, cursor[n])
    BY <1>2, <1>3 DEF Rows, Replicas
  <2>2. \A i \in 1..(cursor[n] + 1) : i \in 1..cursor[n] \/ i = cursor[n] + 1
    BY <1>3
  <2>3. ASSUME RelayAt(log, cursor[n] + 1, m), e.write.op = "insert" PROVE <<m, e.write.id>> \in db'[n].sessions
    <3>1. CASE m = n
      BY <1>3, <1>7, <2>3, <3>1 DEF HasRows
    <3>2. CASE m # n
      BY <1>7, <2>3, <3>2 DEF RelayAt
    <3> QED BY <3>1, <3>2
  <2> QED BY <1>7, <2>1, <2>2, <2>3 DEF HasRows
<1>9. ASSUME NEW q \in Replicas, bootstrapped[q], NEW m \in Node
      PROVE  HasRows(log, db'[q].sessions, m, cursor'[q])
  <2>1. CASE q = n
    BY <1>6, <1>8, <2>1
  <2>2. CASE q # n
    BY <1>6, <1>9, <2>2 DEF Rows, Replicas
  <2> QED BY <2>1, <2>2
<1>10. \A m \in Node : HasRows(log, db'[primary].sessions, m, Len(log))
  BY <1>1, <1>2, <1>6 DEF Rows
<1>11. Rows'
  BY <1>4, <1>9, <1>10 DEF Rows, Replicas, Busy
<1>12. \A s \in db'[n].sessions : s \in db[n].sessions \/
                \E k \in 1..Len(log) : \E m \in Node :
                    RelayAt(log, k, m) /\ log[k].write.op = "insert" /\ s = <<m, log[k].write.id>>
  <2>1. e.type = "relay" => e.by \in Node
    BY <1>5 DEF Event
  <2> QED BY <1>3, <1>7, <2>1 DEF RelayAt
<1> QED BY <1>2, <1>6, <1>7, <1>11, <1>12

LEMMA RowsReconcile ==
    ASSUME TypeInv, Rows, NEW n \in Node, n # primary, Busy(n), UNCHANGED <<primary, log>>,
           snap' = [snap EXCEPT ![n] = NoSnapshot],
           db' = [db EXCEPT ![n] = Reapplied(n, snap[n].tables)],
           cursor' = [cursor EXCEPT ![n] = snap[n].seq],
           bootstrapped' = [bootstrapped EXCEPT ![n] = TRUE]
    PROVE  Rows'
<1> DEFINE d == snap[n].tables
<1>1. primary \in Node /\ d \in Tables
  BY MarkTypes
<1>2. d.sessions \subseteq Reapplied(n, d).sessions
  BY <1>1, ReappliedSessions
<1> HIDE DEF d
<1>3. /\ db'[n] = Reapplied(n, d) /\ cursor'[n] = snap[n].seq /\ snap'[n] = NoSnapshot
      /\ \A q \in Node \ {n} : /\ db'[q] = db[q] /\ cursor'[q] = cursor[q] /\ snap'[q] = snap[q]
                               /\ bootstrapped'[q] = bootstrapped[q]
  BY DEF TypeInv, TypeOK, d
<1>4. ASSUME NEW q \in Replicas, bootstrapped'[q], NEW m \in Node
      PROVE  HasRows(log, db'[q].sessions, m, cursor'[q])
  <2>1. CASE q = n
    <3>1. HasRows(log, d.sessions, m, snap[n].seq)
      BY DEF Rows, d
    <3> QED BY <1>2, <1>3, <2>1, <3>1 DEF HasRows
  <2>2. CASE q # n
    BY <1>3, <1>4, <2>2 DEF Rows, Replicas
  <2> QED BY <2>1, <2>2
<1>5. \A m \in Node : HasRows(log, db'[primary].sessions, m, Len(log))
  BY <1>1, <1>3 DEF Rows
<1>6. \A q \in Node : Busy(q)' => Busy(q) /\ snap'[q] = snap[q]
  BY <1>3 DEF Busy
<1> QED BY <1>4, <1>5, <1>6 DEF Rows, Replicas

LEMMA RowsPromote ==
    ASSUME TypeInv, Rows, NEW n \in Node, Promote(n)
    PROVE  Rows'
<1>1. /\ n # primary /\ bootstrapped[n] /\ cursor[n] = Len(log) /\ primary' = n
      /\ bootstrapped' = [bootstrapped EXCEPT ![primary] = FALSE]
      /\ snap' = [m \in Node |-> NoSnapshot] /\ UNCHANGED <<db, log, cursor>>
  BY DEF Promote
<1>2. \A m \in Node : HasRows(log, db[n].sessions, m, Len(log))
  BY <1>1 DEF Rows, Replicas
<1>3. primary \in Node
  BY MarkTypes
<1>4. ~bootstrapped'[primary] /\ \A q \in Node \ {primary} : bootstrapped'[q] = bootstrapped[q]
  BY <1>1, <1>3, Domains
<1> QED BY <1>1, <1>2, <1>4 DEF Rows, Replicas, Busy

(***************************************************************************)
(* A node's own sessions                                                   *)
(***************************************************************************)

(* Sessions are added, and a write that waits has its session.             *)
LEMMA OwnKept ==
    ASSUME NEW n \in Node, OwnInv(n), UNCHANGED <<log, accepted>>,
           db[n].sessions \subseteq db'[n].sessions,
           \A w \in outbox'[n] \ outbox[n] : w.op = "insert" => <<n, w.id>> \in db'[n].sessions,
           Busy(n)' => (outbox[n] \subseteq outbox'[n] /\ Busy(n) /\ snap'[n] = snap[n]) \/ snap'[n].seq = Len(log)
    PROVE  OwnInv(n)'
<1>1. HasRows(log, db[n].sessions, n, Len(log)) /\ Logged(n) /\ Waiting(n) /\ Fresh(n)
  BY DEF OwnInv
<1>2. HasRows(log, db'[n].sessions, n, Len(log))
  BY <1>1 DEF HasRows
<1>3. Waiting(n)'
  <2>1. \A w : Overtaken(n, w)' <=> Overtaken(n, w)
    BY DEF Overtaken
  <2> QED BY <1>1, <2>1 DEF Waiting
<1>4. Fresh(n)'
  BY <1>1 DEF Fresh
<1> QED BY <1>1, <1>2, <1>3, <1>4 DEF OwnInv, Logged

(* A row of another node, or of the primary itself, is appended.           *)
LEMMA OwnOther ==
    ASSUME TypeInv, NEW n \in Node, OwnInv(n), NEW e \in Event, log' = Append(log, e),
           ~(e.type = "relay" /\ e.by = n), UNCHANGED snap,
           accepted'[n] = accepted[n], outbox'[n] = outbox[n], db[n].sessions \subseteq db'[n].sessions
    PROVE  OwnInv(n)'
<1>1. /\ log \in Seq(Event) /\ Len(log) \in Nat
      /\ Len(log') = Len(log) + 1 /\ log'[Len(log) + 1] = e /\ \A i \in 1..Len(log) : log'[i] = log[i]
  BY MarkTypes, Appended
<1>2. \A k \in 1..Len(log') : RelayAt(log', k, n) => k \in 1..Len(log) /\ RelayAt(log, k, n) /\ log'[k] = log[k]
  <2> SUFFICES ASSUME NEW k \in 1..Len(log'), RelayAt(log', k, n)
               PROVE  k \in 1..Len(log) /\ RelayAt(log, k, n) /\ log'[k] = log[k]
    OBVIOUS
  <2>1. k \in 1..Len(log) \/ k = Len(log) + 1
    BY <1>1
  <2> QED BY <1>1, <2>1 DEF RelayAt
<1>3. \A k \in 1..Len(log) : k \in 1..Len(log') /\ (RelayAt(log, k, n) => RelayAt(log', k, n))
  BY <1>1 DEF RelayAt
<1>4. HasRows(log', db'[n].sessions, n, Len(log'))
  BY <1>2 DEF OwnInv, HasRows
<1>5. Logged(n)'
  BY <1>1, <1>2, <1>3 DEF OwnInv, Logged
<1>6. Waiting(n)'
  BY DEF OwnInv, Waiting, Overtaken
<1>7. Fresh(n)'
  BY <1>2 DEF OwnInv, Fresh, Busy
<1> QED BY <1>4, <1>5, <1>6, <1>7 DEF OwnInv

(* A relay of n that no accepted one is beyond is accepted.                *)
LEMMA OwnAccepted ==
    ASSUME TypeInv, NEW n \in Node, OwnInv(n), OneWrite(n), NEW w \in outbox[n],
           \A i \in Range(accepted[n]) : i < w.id,
           NEW e \in Event, log' = Append(log, e), e.type = "relay", e.by = n, e.write = w, UNCHANGED snap,
           accepted'[n] = Append(accepted[n], w.id), db[n].sessions \subseteq db'[n].sessions,
           outbox'[n] \subseteq outbox[n], Busy(n) => outbox'[n] = outbox[n]
    PROVE  OwnInv(n)'
<1>1. /\ log \in Seq(Event) /\ Len(log) \in Nat
      /\ Len(log') = Len(log) + 1 /\ log'[Len(log) + 1] = e /\ \A i \in 1..Len(log) : log'[i] = log[i]
  BY MarkTypes, Appended
<1>2. /\ HasRows(log, db[n].sessions, n, Len(log)) /\ Logged(n) /\ Waiting(n) /\ Fresh(n)
      /\ outbox[n] \subseteq Made(n)
  BY DEF OwnInv, Made, Known
<1>3. Range(accepted'[n]) = Range(accepted[n]) \union {w.id}
  <2>1. accepted[n] \in Seq(Id) /\ w.id \in Id
    BY RelayTypes DEF Write
  <2> QED BY <2>1, Ranges
<1>4. \A v \in outbox[n] : v.id \in Nat
  BY <1>2, MadeTypes
<1>5. \A i \in Range(accepted[n]) : i \in Nat
  <2>1. accepted[n] \in Seq(Id) /\ \A i \in Id : i \in Nat
    BY RelayTypes, BoundsAreNat DEF Id
  <2> QED BY <2>1 DEF Range
<1>6. w.op = "insert" => <<n, w.id>> \in db[n].sessions
  BY <1>2, <1>4, <1>5 DEF Waiting, Overtaken
<1>7. \A k \in 1..Len(log') : \/ k \in 1..Len(log) /\ log'[k] = log[k] /\ (RelayAt(log', k, n) <=> RelayAt(log, k, n))
                              \/ k = Len(log) + 1 /\ log'[k].write = w
  BY <1>1 DEF RelayAt
<1>8. HasRows(log', db'[n].sessions, n, Len(log'))
  BY <1>2, <1>6, <1>7 DEF HasRows
<1>9. Logged(n)'
  <2>1. \A k \in 1..Len(log') : RelayAt(log', k, n) => log'[k].write.id \in Range(accepted'[n])
    BY <1>2, <1>3, <1>7 DEF Logged
  <2>2. ASSUME NEW i \in Range(accepted'[n])
        PROVE  \E k \in 1..Len(log') : RelayAt(log', k, n) /\ log'[k].write.id = i
    <3>1. CASE i = w.id
      <4>1. Len(log) + 1 \in 1..Len(log') /\ RelayAt(log', Len(log) + 1, n)
        BY <1>1 DEF RelayAt
      <4> QED BY <1>1, <3>1, <4>1
    <3>2. CASE i \in Range(accepted[n])
      <4>1. PICK k \in 1..Len(log) : RelayAt(log, k, n) /\ log[k].write.id = i
        BY <1>2, <3>2 DEF Logged
      <4>2. k \in 1..Len(log') /\ log'[k] = log[k]
        BY <1>1
      <4> QED BY <4>1, <4>2 DEF RelayAt
    <3> QED BY <1>3, <2>2, <3>1, <3>2
  <2> QED BY <2>1, <2>2 DEF Logged
<1>10. Waiting(n)'
  <2> SUFFICES ASSUME NEW v \in outbox'[n], v.op = "insert", ~Overtaken(n, v)'
               PROVE  <<n, v.id>> \in db'[n].sessions
    BY DEF Waiting
  <2>1. v \in outbox[n]
    OBVIOUS
  <2>2. CASE v.id = w.id
    BY <1>6, <2>2, <2>1, <1>2 DEF OneWrite
  <2>3. CASE v.id # w.id
    <3>1. ~Overtaken(n, v)
      BY <1>3, <2>3 DEF Overtaken
    <3> QED BY <1>2, <2>1, <3>1 DEF Waiting
  <2> QED BY <2>2, <2>3
<1>11. Fresh(n)'
  BY <1>2, <1>7 DEF Fresh, Busy
<1> QED BY <1>8, <1>9, <1>10, <1>11 DEF OwnInv

(* The rows after a snapshot are beyond its watermark.                     *)
LEMMA BeyondSnapshot ==
    ASSUME TypeInv, Marks, NEW n \in Node, Busy(n), NEW k \in 1..Len(log), RelayAt(log, k, n), k > snap[n].seq
    PROVE  log[k].write.id > snap[n].tables.wm[n]
<1>1. /\ log \in Seq(Event) /\ Len(log) \in Nat /\ snap[n].seq \in 0..Len(log)
      /\ snap[n].tables.wm \in [Node -> Nat]
  BY MarkTypes
<1>2. Ordered(log) /\ MarkAt(log, snap[n].tables.wm[n], n, snap[n].seq)
  BY DEF Marks
<1>3. log[k].write.id \in Nat /\ log[k].write.id > 0
  <2>1. log[k] \in Event
    BY <1>1
  <2>2. log[k].write \in Write
    BY <2>1 DEF RelayAt, Event
  <2> QED BY <2>2, BoundsAreNat DEF Write, Id
<1>4. CASE snap[n].tables.wm[n] = 0
  BY <1>3, <1>4
<1>5. ASSUME NEW i \in 1..snap[n].seq, RelayAt(log, i, n), log[i].write.id = snap[n].tables.wm[n]
      PROVE  log[k].write.id > snap[n].tables.wm[n]
  <2>1. i \in 1..Len(log) /\ i < k /\ log[i].write.id < log[k].write.id
    BY <1>1, <1>2, <1>5 DEF Ordered
  <2> QED BY <1>3, <1>5, <1>1, <2>1
<1> QED BY <1>2, <1>4, <1>5 DEF MarkAt

(* A snapshot and what waits in the outbox have the sessions of the node.  *)
LEMMA OwnReconcile ==
    ASSUME TypeInv, Marks, Rows, NEW n \in Node, OwnInv(n), OneWrite(n), Busy(n),
           UNCHANGED <<log, accepted, outbox>>, snap'[n] = NoSnapshot, db'[n] = Reapplied(n, snap[n].tables)
    PROVE  OwnInv(n)'
<1> DEFINE d == snap[n].tables
           q == snap[n].seq
<1>1. /\ Len(log) \in Nat /\ d \in Tables /\ d.wm \in [Node -> Nat] /\ q \in 0..Len(log)
  BY MarkTypes
<1>2. db'[n].sessions = d.sessions \union {<<n, w.id>> : w \in {w \in NotIn(n, d) : w.op = "insert"}}
  BY <1>1, ReappliedSessions
<1>3. HasRows(log, d.sessions, n, q) /\ MarkAt(log, d.wm[n], n, q)
  BY DEF Rows, Marks
<1>4. \A k \in 1..Len(log) : k > q /\ RelayAt(log, k, n) => log[k].write.id > d.wm[n]
  BY BeyondSnapshot
<1> HIDE DEF d, q
<1>5. \A k \in 1..Len(log) : k > q /\ RelayAt(log, k, n) => log[k].write \in outbox[n]
  BY DEF OwnInv, Fresh, q
<1>6. ASSUME NEW k \in 1..Len(log), RelayAt(log, k, n), log[k].write.op = "insert"
      PROVE  <<n, log[k].write.id>> \in db'[n].sessions
  <2>1. CASE k > q
    BY <1>2, <1>4, <1>5, <1>6, <2>1 DEF NotIn
  <2>2. CASE ~(k > q)
    <3>1. k \in 1..q
      BY <1>1, <2>2
    <3> QED BY <1>2, <1>3, <1>6, <3>1 DEF HasRows
  <2> QED BY <2>1, <2>2
<1>7. ASSUME NEW w \in outbox[n], w.op = "insert", ~Overtaken(n, w) PROVE <<n, w.id>> \in db'[n].sessions
  <2>1. w \in Made(n) /\ w.id \in Nat /\ w.id > 0 /\ d.wm[n] \in Nat
    <3>1. w \in Made(n) /\ d.wm[n] \in Nat
      BY <1>1 DEF Made, Known
    <3> QED BY <3>1, MadeTypes, BoundsAreNat DEF Id
  <2>2. CASE w.id > d.wm[n]
    BY <1>2, <1>7, <2>2 DEF NotIn
  <2>3. CASE w.id <= d.wm[n]
    <3>1. PICK i \in 1..q : RelayAt(log, i, n) /\ log[i].write.id = d.wm[n]
      BY <1>3, <2>1, <2>3 DEF MarkAt
    <3>2. d.wm[n] \in Range(accepted[n])
      BY <1>1, <3>1 DEF OwnInv, Logged
    <3>3. w.id \in Range(accepted[n])
      BY <1>7, <2>1, <2>3, <3>2 DEF Overtaken
    <3>4. PICK k \in 1..Len(log) : RelayAt(log, k, n) /\ log[k].write.id = w.id
      BY <3>3 DEF OwnInv, Logged
    <3>5. log[k].write = w
      BY <2>1, <3>4 DEF OneWrite, Made
    <3> QED BY <1>6, <1>7, <3>4, <3>5
  <2> QED BY <2>1, <2>2, <2>3
<1>8. HasRows(log, db'[n].sessions, n, Len(log))
  BY <1>6 DEF HasRows
<1>9. Waiting(n)'
  BY <1>7 DEF Waiting, Overtaken
<1> QED BY <1>8, <1>9 DEF OwnInv, Logged, Fresh, Busy

(***************************************************************************)
(* The steps                                                               *)
(***************************************************************************)

(* Steps that leave the tables alone and make no write.                    *)
LEMMA QuietSessions ==
    ASSUME TypeInv, SInv, UNCHANGED <<primary, db, log, cursor, nextId, accepted>>,
           \A m \in Node : outbox'[m] \subseteq outbox[m] /\ Known(m)' \subseteq Known(m),
           \A m \in Node : bootstrapped'[m] => bootstrapped[m],
           \A m \in Node : snap'[m] \in {snap[m], NoSnapshot},
           \A m \in Node : Busy(m)' => outbox'[m] = outbox[m]
    PROVE  SInv'
<1>1. Rows'
  BY RowsKept DEF SInv
<1>2. \A m \in Node : OwnInv(m)'
  <2> SUFFICES ASSUME NEW m \in Node PROVE OwnInv(m)'
    OBVIOUS
  <2>1. Busy(m)' => (outbox[m] \subseteq outbox'[m] /\ Busy(m) /\ snap'[m] = snap[m])
    BY DEF Busy
  <2> QED BY <2>1, OwnKept DEF SInv
<1>3. Keys'
  <2>1. \A m \in Node : Made(m)' \subseteq Made(m)
    BY DEF Made
  <2>2. \A m \in Node : \A i \in Id : Somewhere(m, i)' => Somewhere(m, i)
    BY DEF Somewhere, Busy
  <2> QED BY <2>1, <2>2, KeysSame DEF SInv
<1> QED BY <1>1, <1>2, <1>3 DEF SInv

LEMMA ReplicaQuietSessions ==
    ASSUME IInv, SInv, NEW n \in Node,
           Connect(n) \/ BecomeConnected(n) \/ AckTimeout(n) \/ RollbackWrite(n)
             \/ DrainRead(n) \/ DrainSend(n) \/ DrainDropped(n) \/ TakeRelay(n)
    PROVE  SInv'
<1>1. TypeInv
  BY DEF IInv
<1>2. UNCHANGED <<primary, db, log, cursor, nextId, accepted, outbox, bootstrapped, snap>>
  BY DEF Connect, BecomeConnected, AckTimeout, RollbackWrite, DrainRead, DrainSend, DrainDropped, TakeRelay,
         tables, queue, history
<1>3. ASSUME NEW m \in Node PROVE Known(m)' \subseteq Known(m)
  <2>1. CASE Connect(n) \/ BecomeConnected(n) \/ AckTimeout(n)
    BY <2>1 DEF Connect, BecomeConnected, AckTimeout, queue, channel, Known, Transit
  <2>2. CASE RollbackWrite(n)
    <3>1. open'[m] \subseteq open[m] /\ UNCHANGED <<drains, toPrimary, handling>>
      BY <1>1, <2>2, Domains DEF RollbackWrite, channel
    <3> QED BY <1>2, <3>1 DEF Known, Transit
  <2>3. CASE DrainRead(n)
    <3>1. drains'[m] \subseteq drains[m] \union outbox[m] /\ UNCHANGED <<open, toPrimary, handling>>
      BY <1>1, <2>3, Domains DEF DrainRead, queue
    <3> QED BY <1>2, <3>1 DEF Known, Transit
  <2>4. CASE DrainSend(n) \/ DrainDropped(n) \/ TakeRelay(n)
    <3>1. Transit(m)' \subseteq Transit(m)
      BY <1>1, <2>4, DrainTransit, TakeTransit
    <3>2. UNCHANGED open
      BY <2>4 DEF DrainSend, DrainDropped, TakeRelay, queue
    <3> QED BY <1>2, <3>1, <3>2 DEF Known
  <2> QED BY <2>1, <2>2, <2>3, <2>4
<1> QED BY <1>1, <1>2, <1>3, QuietSessions

LEMMA PrimaryQuietSessions ==
    ASSUME IInv, SInv, RelayPostponed \/ Prune \/ FinishBoot \/ UNCHANGED vars
    PROVE  SInv'
<1>1. TypeInv
  BY DEF IInv
<1>2. UNCHANGED <<primary, db, log, cursor, nextId, accepted, outbox, open, drains, toPrimary, bootstrapped, snap>>
  BY DEF RelayPostponed, Prune, FinishBoot, vars, tables, queue, channel, history
<1>3. handling' = handling \/ handling' = NoRelay
  BY DEF RelayPostponed, Prune, FinishBoot, vars
<1>4. \A m \in Node : Known(m)' \subseteq Known(m)
  BY <1>2, <1>3 DEF Known, Transit
<1> QED BY <1>1, <1>2, <1>4, QuietSessions

(* The connection of n is closed, with or without a restart.               *)
LEMMA ClosedSessions ==
    ASSUME TypeInv, SInv, NEW n \in Node, Closed(n), UNCHANGED <<primary, db, log, cursor, nextId, accepted>>,
           \A m \in Node : drains'[m] \subseteq drains[m] /\ open'[m] \subseteq open[m],
           \A m \in Node : outbox'[m] \subseteq outbox[m],
           \A m \in Node : bootstrapped'[m] => bootstrapped[m],
           \A m \in Node : snap'[m] \in {snap[m], NoSnapshot},
           \A m \in Node : Busy(m)' => outbox'[m] = outbox[m]
    PROVE  SInv'
<1>1. \A m \in Node : Known(m)' \subseteq Known(m)
  <2> SUFFICES ASSUME NEW m \in Node PROVE Known(m)' \subseteq Known(m)
    OBVIOUS
  <2>1. Transit(m)' \subseteq Transit(m)
    BY ClosedTransit
  <2> QED BY <2>1 DEF Known
<1> QED BY <1>1, QuietSessions

LEMMA AnswerSessions ==
    ASSUME IInv, SInv, NEW n \in Node, HandleAck(n) \/ HandleReject(n)
    PROVE  SInv'
<1>1. TypeInv
  BY DEF IInv
<1>2. /\ ~Busy(n) /\ UNCHANGED <<primary, db, log, cursor, nextId, accepted, open, drains, snap>>
      /\ outbox' \in {outbox, [outbox EXCEPT ![n] = Without(n, Head(toReplica[n]).id)]}
      /\ bootstrapped' \in {bootstrapped, [bootstrapped EXCEPT ![n] = FALSE]}
  BY DEF HandleAck, HandleReject, tables, history
<1>3. /\ \A m \in Node : outbox'[m] \subseteq outbox[m] /\ (m # n => outbox'[m] = outbox[m])
      /\ \A m \in Node : bootstrapped'[m] => bootstrapped[m]
  BY <1>1, <1>2, Domains DEF Without
<1>4. \A m \in Node : Busy(m)' => outbox'[m] = outbox[m]
  BY <1>2, <1>3 DEF Busy
<1>5. CASE HandleAck(n)
  <2>1. \A m \in Node : Known(m)' \subseteq Known(m)
    BY <1>2, <1>3, <1>5 DEF HandleAck, Known, Transit
  <2> QED BY <1>1, <1>2, <1>3, <1>4, <2>1, QuietSessions
<1>6. CASE HandleReject(n)
  <2>1. Closed(n)
    BY <1>6 DEF HandleReject
  <2> QED BY <1>1, <1>2, <1>3, <1>4, <2>1, ClosedSessions
<1> QED BY <1>5, <1>6

LEMMA DisconnectSessions ==
    ASSUME IInv, SInv, NEW n \in Node, Disconnect(n) \/ RestartReplica(n)
    PROVE  SInv'
<1>1. TypeInv
  BY DEF IInv
<1>2. Closed(n) /\ UNCHANGED <<primary, accepted, nextId, outbox, db, log, cursor, bootstrapped>>
  BY DEF Disconnect, RestartReplica, history, tables, queue
<1>3. \A m \in Node : /\ drains'[m] \subseteq drains[m] /\ open'[m] \subseteq open[m]
                      /\ snap'[m] \in {snap[m], NoSnapshot}
  <2>1. CASE Disconnect(n)
    BY <2>1 DEF Disconnect, queue
  <2>2. CASE RestartReplica(n)
    BY <1>1, <2>2, Domains DEF RestartReplica
  <2> QED BY <2>1, <2>2
<1> QED BY <1>1, <1>2, <1>3, ClosedSessions

LEMMA FetchSessions ==
    ASSUME IInv, SInv, NEW n \in Node, FetchSnapshot(n)
    PROVE  SInv'
<1>1. TypeInv /\ primary \in Node
  BY MarkTypes DEF IInv
<1>2. UNCHANGED <<primary, db, log, cursor, nextId, accepted, outbox, open, drains, toPrimary, handling>>
  BY DEF FetchSnapshot, tables, queue, channel, history
<1>3. /\ \A m \in Node \ {n} : snap'[m] = snap[m]
      /\ snap'[n] = [tables |-> db[primary], seq |-> Len(log)]
  BY <1>1, Domains DEF FetchSnapshot
<1>4. Rows'
  BY <1>1, RowsFetch DEF SInv
<1>5. \A m \in Node : OwnInv(m)'
  <2> SUFFICES ASSUME NEW m \in Node PROVE OwnInv(m)'
    OBVIOUS
  <2>1. Busy(m)' => (Busy(m) /\ snap'[m] = snap[m]) \/ snap'[m].seq = Len(log)
    BY <1>3 DEF Busy
  <2> QED BY <1>2, <2>1, OwnKept DEF SInv
<1>6. Keys'
  <2>1. \A m \in Node : Made(m)' \subseteq Made(m)
    BY <1>2 DEF Made, Known, Transit
  <2>2. \A m \in Node : \A i \in Id : Somewhere(m, i)' => Somewhere(m, i)
    BY <1>1, <1>2, <1>3 DEF Somewhere, Busy
  <2> QED BY <1>1, <1>2, <2>1, <2>2, KeysSame DEF SInv
<1> QED BY <1>4, <1>5, <1>6 DEF SInv

LEMMA ApplySessions ==
    ASSUME IInv, SInv, NEW n \in Node, ApplyRow(n)
    PROVE  SInv'
<1>1. TypeInv /\ Marks /\ Rows /\ HasRows(log, db[n].sessions, n, Len(log))
  BY DEF IInv, SInv, OwnInv
<1>2. UNCHANGED <<primary, log, nextId, accepted, outbox, open, drains, toPrimary, handling, snap>>
  BY DEF ApplyRow, queue, channel
<1>3. /\ Rows' /\ \A m \in Node : db[m].sessions \subseteq db'[m].sessions
      /\ \A m \in Node \ {n} : db'[m] = db[m]
      /\ \A s \in db'[n].sessions : s \in db[n].sessions \/
                \E k \in 1..Len(log) : \E m \in Node :
                    RelayAt(log, k, m) /\ log[k].write.op = "insert" /\ s = <<m, log[k].write.id>>
  BY <1>1, RowsApply
<1>4. \A m \in Node : OwnInv(m)'
  <2> SUFFICES ASSUME NEW m \in Node PROVE OwnInv(m)'
    OBVIOUS
  <2>1. Busy(m)' => Busy(m)
    BY <1>2 DEF Busy
  <2> QED BY <1>2, <1>3, <2>1, OwnKept DEF SInv
<1>5. Keys'
  <2>1. \A m \in Node : Made(m)' = Made(m)
    BY <1>2 DEF Made, Known, Transit
  <2>2. ASSUME NEW m \in Node, NEW i \in Id, Somewhere(m, i)'
        PROVE  Somewhere(m, i) \/ \E w \in Made(m)' : w.id = i /\ w.op = "insert"
    <3>1. ASSUME <<m, i>> \in db'[n].sessions, <<m, i>> \notin db[n].sessions
          PROVE  \E w \in Made(m) : w.id = i /\ w.op = "insert"
      BY <1>3, <3>1 DEF Made
    <3> QED BY <1>2, <1>3, <2>1, <2>2, <3>1 DEF Somewhere, Busy
  <2> QED BY <1>1, <1>2, <2>1, <2>2, KeysSame DEF SInv
<1> QED BY <1>3, <1>4, <1>5 DEF SInv

LEMMA ReconcileSessions ==
    ASSUME IInv, SInv, NEW n \in Node, ReconcileSnapshot(n)
    PROVE  SInv'
<1> DEFINE d == snap[n].tables
<1>1. TypeInv /\ Marks /\ Rows /\ OneWrite(n) /\ OwnInv(n) /\ Busy(n) /\ d \in Tables
  BY MarkTypes DEF IInv, SInv, Keys, ReconcileSnapshot
<1>2. n # primary
  BY <1>1, MarksReconcile
<1>3. UNCHANGED <<primary, log, nextId, accepted, outbox, open, drains>> /\ snap' = [snap EXCEPT ![n] = NoSnapshot]
  BY DEF ReconcileSnapshot, queue
<1>4. snap'[n] = NoSnapshot /\ \A m \in Node \ {n} : snap'[m] = snap[m]
  BY <1>1, <1>3, Domains
<1>5. CASE Closed(n) /\ UNCHANGED <<db, cursor, bootstrapped>>
  BY <1>1, <1>3, <1>4, <1>5, ClosedSessions
<1>6. CASE /\ db' = [db EXCEPT ![n] = Reapplied(n, d)] /\ cursor' = [cursor EXCEPT ![n] = snap[n].seq]
           /\ bootstrapped' = [bootstrapped EXCEPT ![n] = TRUE] /\ UNCHANGED <<toPrimary, handling>>
  <2>1. Rows'
    BY <1>1, <1>2, <1>3, <1>6, RowsReconcile
  <2>2. db'[n] = Reapplied(n, d) /\ \A m \in Node \ {n} : db'[m] = db[m]
    BY <1>1, <1>6, Domains
  <2>3. OwnInv(n)'
    BY <1>1, <1>3, <1>4, <2>2, OwnReconcile
  <2>4. ASSUME NEW m \in Node \ {n} PROVE OwnInv(m)'
    <3>1. Busy(m)' => Busy(m)
      BY <1>4 DEF Busy
    <3> QED BY <1>3, <1>4, <2>2, <3>1, OwnKept DEF SInv
  <2>5. Keys'
    <3>1. \A m \in Node : Made(m)' = Made(m)
      BY <1>3, <1>6 DEF Made, Known, Transit
    <3>2. Reapplied(n, d).sessions = d.sessions \union {<<n, w.id>> : w \in {w \in NotIn(n, d) : w.op = "insert"}}
      BY <1>1, ReappliedSessions
    <3>3. ASSUME NEW m \in Node, NEW i \in Id, Somewhere(m, i)'
          PROVE  Somewhere(m, i) \/ \E w \in Made(m)' : w.id = i /\ w.op = "insert"
      <4>1. ASSUME <<m, i>> \in db'[n].sessions
            PROVE  <<m, i>> \in d.sessions \/ \E w \in Made(m) : w.id = i /\ w.op = "insert"
        BY <2>2, <3>2, <4>1 DEF NotIn, Made, Known
      <4> QED BY <1>1, <1>4, <2>2, <3>1, <3>3, <4>1 DEF Somewhere, Busy
    <3> QED BY <1>1, <1>3, <3>1, <3>3, KeysSame DEF SInv
  <2> QED BY <2>1, <2>3, <2>4, <2>5 DEF SInv
<1> QED BY <1>5, <1>6 DEF ReconcileSnapshot

(* A row of the changelog that the node itself knew is no new write.       *)
LEMMA MadeAppend ==
    ASSUME TypeInv, NEW m \in Node, NEW e \in Event, log' = Append(log, e), Known(m)' \subseteq Known(m),
           e.type = "relay" /\ e.by = m => e.write \in Known(m)
    PROVE  Made(m)' \subseteq Made(m)
<1>1. /\ log \in Seq(Event) /\ Len(log) \in Nat
      /\ Len(log') = Len(log) + 1 /\ log'[Len(log) + 1] = e /\ \A i \in 1..Len(log) : log'[i] = log[i]
  BY MarkTypes, Appended
<1>2. ASSUME NEW k \in 1..Len(log'), RelayAt(log', k, m) PROVE log'[k].write \in Made(m)
  <2>1. CASE k \in 1..Len(log)
    BY <1>1, <1>2, <2>1 DEF Made, RelayAt
  <2>2. CASE k = Len(log) + 1
    BY <1>1, <1>2, <2>2 DEF Made, RelayAt
  <2> QED BY <1>1, <2>1, <2>2
<1> QED BY <1>2 DEF Made

LEMMA AdminSessions ==
    ASSUME IInv, SInv, NEW row \in (SUBSET Key) \union {Gone}, AdminWrite(row)
    PROVE  SInv'
<1> DEFINE e == [type |-> "user", row |-> row]
<1>1. TypeInv /\ primary \in Node /\ db[primary] \in Tables
  BY MarkTypes DEF IInv
<1>2. /\ UNCHANGED <<primary, cursor, bootstrapped, nextId, accepted, outbox, open, drains, toPrimary, handling, snap>>
      /\ log' = Append(log, e) /\ db' = [db EXCEPT ![primary].user = row]
  BY DEF AdminWrite, queue, channel, history
<1>3. e \in Event /\ e.type # "relay"
  BY DEF Event
<1> HIDE DEF e
<1>4. \A m \in Node : db'[m].sessions = db[m].sessions
  <2>1. db'[primary] = [db[primary] EXCEPT !.user = row] /\ \A m \in Node \ {primary} : db'[m] = db[m]
    BY <1>1, <1>2, Domains
  <2> QED BY <1>1, <2>1 DEF Tables
<1>5. Rows'
  BY <1>1, <1>2, <1>3, <1>4, RowsAppend DEF SInv
<1>6. \A m \in Node : OwnInv(m)'
  BY <1>1, <1>2, <1>3, <1>4, OwnOther DEF SInv
<1>7. Keys'
  <2>1. \A m \in Node : Known(m)' = Known(m)
    BY <1>2 DEF Known, Transit
  <2>2. \A m \in Node : Made(m)' \subseteq Made(m)
    BY <1>1, <1>2, <1>3, <2>1, MadeAppend
  <2>3. \A m \in Node : \A i \in Id : Somewhere(m, i)' => Somewhere(m, i)
    BY <1>2, <1>4 DEF Somewhere, Busy
  <2> QED BY <1>1, <1>2, <2>2, <2>3, KeysSame DEF SInv
<1> QED BY <1>5, <1>6, <1>7 DEF SInv

LEMMA AcceptEvent ==
    ASSUME TypeOK, primary \in Node, NEW m \in Node, NEW w \in Write, Applicable(db[primary], w),
           AcceptRelay(primary, m, w)
    PROVE  \E e \in Event : log' = Append(log, e) /\ e.type = "relay" /\ e.by = m /\ e.write = w
<1>1. /\ \A q \in Node \ {primary} : db'[q] = db[q]
      /\ db'[primary].wm = [db[primary].wm EXCEPT ![m] = w.id]
      /\ db[primary].user = Gone => db'[primary].user = Gone
      /\ \E e \in Event : log' = Append(log, e) /\ e.type = "relay" /\ e.by = m /\ e.write = w
      /\ accepted' = [accepted EXCEPT ![m] = Append(@, w.id)]
  BY AcceptType
<1> QED BY <1>1

(* The next relay of n is accepted, from a message or from the outbox.     *)
LEMMA AcceptedSessions ==
    ASSUME IInv, SInv, NEW n \in Node, NEW w \in outbox[n], w.id > Mark(n), Applicable(db[primary], w),
           AcceptRelay(primary, n, w), UNCHANGED <<primary, cursor, bootstrapped, snap, nextId, open>>,
           \A m \in Node : Transit(m)' \subseteq Transit(m),
           outbox'[n] \subseteq outbox[n], Busy(n) => outbox'[n] = outbox[n],
           \A m \in Node \ {n} : outbox'[m] = outbox[m]
    PROVE  SInv'
<1>1. TypeInv /\ TypeOK /\ primary \in Node /\ w \in Write /\ History(n) /\ OwnInv(n) /\ OneWrite(n)
  BY MarkTypes, RelayTypes DEF IInv, TypeInv, RelayInv, SInv, Keys
<1>2. PICK e \in Event : log' = Append(log, e) /\ e.type = "relay" /\ e.by = n /\ e.write = w
  BY <1>1, AcceptEvent
<1>3. accepted'[n] = Append(accepted[n], w.id) /\ \A m \in Node \ {n} : accepted'[m] = accepted[m]
  BY <1>1, AcceptStep
<1>4. /\ db'[primary].sessions = db[primary].sessions \union (IF w.op = "insert" THEN {<<n, w.id>>} ELSE {})
      /\ \A m \in Node \ {primary} : db'[m] = db[m]
  BY <1>1, AcceptSessions
<1>5. \A m \in Node : db[m].sessions \subseteq db'[m].sessions
  BY <1>4
<1>6. \A i \in Range(accepted[n]) : i < w.id
  <2>1. \A k \in DOMAIN accepted[n] : accepted[n][k] <= Mark(n) /\ accepted[n][k] \in Nat
    <3>1. accepted[n] \in Seq(Id) /\ \A i \in Id : i \in Nat
      BY <1>1, RelayTypes, BoundsAreNat DEF Id
    <3> QED BY <1>1, <3>1 DEF History
  <2>2. w.id \in Nat /\ Mark(n) \in Nat
    BY <1>1, RelayTypes DEF Known
  <2> QED BY <2>1, <2>2 DEF Range
<1>7. Rows'
  BY <1>1, <1>2, <1>4, <1>5, RowsAppend DEF SInv
<1>8. OwnInv(n)'
  BY <1>1, <1>2, <1>3, <1>5, <1>6, OwnAccepted
<1>9. \A m \in Node \ {n} : OwnInv(m)'
  BY <1>1, <1>2, <1>3, <1>5, OwnOther DEF SInv
<1>10. Keys'
  <2>1. \A m \in Node : Known(m)' \subseteq Known(m)
    BY DEF Known
  <2>2. \A m \in Node : Made(m)' \subseteq Made(m)
    <3> SUFFICES ASSUME NEW m \in Node PROVE Made(m)' \subseteq Made(m)
      OBVIOUS
    <3>1. e.type = "relay" /\ e.by = m => e.write \in Known(m)
      BY <1>2 DEF Known
    <3> QED BY <1>1, <1>2, <2>1, <3>1, MadeAppend
  <2>3. w \in Made(n)'
    <3>1. log \in Seq(Event) /\ Len(log') = Len(log) + 1 /\ log'[Len(log) + 1] = e /\ Len(log) \in Nat
      BY <1>1, <1>2, MarkTypes, Appended
    <3>2. Len(log) + 1 \in 1..Len(log') /\ RelayAt(log', Len(log) + 1, n) /\ log'[Len(log) + 1].write = w
      BY <1>2, <3>1 DEF RelayAt
    <3> QED BY <3>2 DEF Made
  <2>4. \A m \in Node : \A i \in Id : Somewhere(m, i)' =>
            Somewhere(m, i) \/ \E u \in Made(m)' : u.id = i /\ u.op = "insert"
    BY <1>1, <1>4, <2>3 DEF Somewhere, Busy
  <2> QED BY <1>1, <2>2, <2>4, KeysSame DEF SInv
<1> QED BY <1>7, <1>8, <1>9, <1>10 DEF SInv

LEMMA HandleSessions ==
    ASSUME IInv, SInv, HandleRelay
    PROVE  SInv'
<1>1. TypeInv
  BY DEF IInv
<1>2. /\ handling # NoRelay /\ handling' = NoRelay
      /\ UNCHANGED <<primary, cursor, bootstrapped, nextId, outbox, open, drains, toPrimary, snap>>
  BY DEF HandleRelay, queue, channel
<1>3. PICK n \in Node, w \in Write : n = handling.by /\ w = handling.write
  BY <1>1, <1>2 DEF TypeInv, TypeOK
<1>4. \A m \in Node : Transit(m)' \subseteq Transit(m)
  BY <1>2 DEF Transit
<1>5. CASE UNCHANGED <<db, log, accepted>>
  <2>1. \A m \in Node : Known(m)' \subseteq Known(m)
    BY <1>2, <1>4 DEF Known
  <2> QED BY <1>1, <1>2, <1>5, <2>1, QuietSessions
<1>6. CASE ~Seen(primary, n, w) /\ Applicable(db[primary], w) /\ AcceptRelay(primary, n, w)
  <2>1. w.id > Mark(n)
    <3>1. w.id \in Nat /\ Mark(n) \in Nat
      BY <1>1, RelayTypes, BoundsAreNat DEF Write, Id
    <3> QED BY <1>6, <3>1 DEF Seen, Mark
  <2>2. w \in outbox[n]
    BY <1>2, <1>3, <1>6, <2>1, HandledIsNext
  <2> QED BY <1>2, <1>4, <1>6, <2>1, <2>2, AcceptedSessions
<1> QED BY <1>3, <1>5, <1>6 DEF HandleRelay

LEMMA AdoptSessions ==
    ASSUME IInv, SInv, AdoptRow
    PROVE  SInv'
<1>1. TypeInv /\ primary \in Node /\ ~Busy(primary)
  BY MarkTypes DEF IInv, Marks, Busy
<1>2. UNCHANGED <<primary, cursor, bootstrapped, nextId, open, snap, drains, toPrimary, handling>>
  BY DEF AdoptRow, channel
<1>3. PICK w \in outbox[primary] :
          /\ IF Seen(primary, primary, w) THEN UNCHANGED <<db, log, accepted>>
             ELSE Applicable(db[primary], w) /\ AcceptRelay(primary, primary, w)
          /\ outbox' \in {outbox, [outbox EXCEPT ![primary] = @ \ {w}]}
  BY DEF AdoptRow
<1>4. outbox'[primary] \subseteq outbox[primary] /\ \A m \in Node \ {primary} : outbox'[m] = outbox[m]
  BY <1>1, <1>3, Domains
<1>5. \A m \in Node : Transit(m)' = Transit(m)
  BY <1>2 DEF Transit
<1>6. CASE UNCHANGED <<db, log, accepted>>
  <2>1. \A m \in Node : Known(m)' \subseteq Known(m) /\ outbox'[m] \subseteq outbox[m]
    BY <1>2, <1>4, <1>5 DEF Known
  <2>2. \A m \in Node : Busy(m)' => outbox'[m] = outbox[m]
    BY <1>1, <1>2, <1>4 DEF Busy
  <2> QED BY <1>1, <1>2, <1>6, <2>1, <2>2, QuietSessions
<1>7. CASE ~Seen(primary, primary, w) /\ Applicable(db[primary], w) /\ AcceptRelay(primary, primary, w)
  <2>1. w.id > Mark(primary)
    <3>1. w.id \in Nat /\ Mark(primary) \in Nat
      BY <1>1, RelayTypes DEF Known
    <3> QED BY <1>7, <3>1 DEF Seen, Mark
  <2> QED BY <1>1, <1>2, <1>4, <1>5, <1>7, <2>1, AcceptedSessions
<1> QED BY <1>3, <1>6, <1>7

LEMMA PromoteSessions ==
    ASSUME IInv, SInv, NEW n \in Node, Promote(n)
    PROVE  SInv'
<1>1. TypeInv
  BY DEF IInv
<1>2. /\ UNCHANGED <<db, log, cursor, nextId, accepted, handling>> /\ handling = NoRelay
      /\ outbox' = [outbox EXCEPT ![primary] = {}] /\ open' = [m \in Node |-> {}]
      /\ drains' = [m \in Node |-> {}] /\ toPrimary' = [m \in Node |-> <<>>]
      /\ snap' = [m \in Node |-> NoSnapshot]
  BY DEF Promote
<1>3. \A m \in Node : outbox'[m] \subseteq outbox[m] /\ ~Busy(m)'
  BY <1>1, <1>2, Domains DEF Busy
<1>4. Rows'
  BY <1>1, RowsPromote DEF SInv
<1>5. \A m \in Node : OwnInv(m)'
  BY <1>2, <1>3, OwnKept DEF SInv
<1>6. Keys'
  <2>1. \A m \in Node : Transit(m)' = {}
    BY <1>2 DEF Transit, Range
  <2>2. \A m \in Node : Made(m)' \subseteq Made(m)
    BY <1>2, <1>3, <2>1 DEF Made, Known
  <2>3. \A m \in Node : \A i \in Id : Somewhere(m, i)' => Somewhere(m, i)
    BY <1>2, <1>3 DEF Somewhere
  <2> QED BY <1>1, <1>2, <2>2, <2>3, KeysSame DEF SInv
<1> QED BY <1>4, <1>5, <1>6 DEF SInv

(* A write of n is committed and n has its session.                        *)
LEMMA CommitSessions ==
    ASSUME TypeInv, SInv, NEW n \in Node, NEW w \in Write, Commit(n, w),
           UNCHANGED <<primary, log, cursor, bootstrapped, snap, accepted>>
    PROVE  /\ Rows' /\ \A m \in Node : OwnInv(m)'
           /\ \A m \in Node : \A i \in Id : Somewhere(m, i)' =>
                Somewhere(m, i) \/ \E u \in Made(m)' : u.id = i /\ u.op = "insert"
<1>1. /\ Applicable(db[n], w) /\ outbox' = [outbox EXCEPT ![n] = @ \union {w}]
      /\ db' = [db EXCEPT ![n] = Applied(@, n, w)]
  BY DEF Commit
<1>2. /\ db'[n].sessions = db[n].sessions \union (IF w.op = "insert" THEN {<<n, w.id>>} ELSE {})
      /\ \A m \in Node \ {n} : db'[m] = db[m]
  <2>1. db[n] \in Tables
    BY MarkTypes
  <2>2. db'[n] = Applied(db[n], n, w) /\ \A m \in Node \ {n} : db'[m] = db[m]
    BY <1>1, Domains
  <2> QED BY <2>1, <2>2, AppliedSessions
<1>3. outbox'[n] = outbox[n] \union {w} /\ \A m \in Node \ {n} : outbox'[m] = outbox[m]
  BY <1>1, Domains
<1>4. \A m \in Node : db[m].sessions \subseteq db'[m].sessions
  BY <1>2
<1>5. Rows'
  BY <1>4, RowsKept DEF SInv
<1>6. ASSUME NEW m \in Node PROVE OwnInv(m)'
  <2>1. Busy(m)' => outbox[m] \subseteq outbox'[m] /\ Busy(m)
    BY <1>3 DEF Busy
  <2>2. \A v \in outbox'[m] \ outbox[m] : v.op = "insert" => <<m, v.id>> \in db'[m].sessions
    BY <1>2, <1>3
  <2> QED BY <1>4, <2>1, <2>2, OwnKept DEF SInv
<1>7. w \in Made(n)'
  BY <1>3 DEF Made, Known
<1>8. \A m \in Node : \A i \in Id : Somewhere(m, i)' =>
            Somewhere(m, i) \/ \E u \in Made(m)' : u.id = i /\ u.op = "insert"
  BY <1>2, <1>7 DEF Somewhere, Busy
<1> QED BY <1>5, <1>6, <1>8

(* The write that n begins has an id that no other has had.                *)
LEMMA NewWrite ==
    ASSUME TypeInv, Keys, NEW n \in Node, NEW op \in RelayOp, TakeId(n), UNCHANGED log,
           \A m \in Node \ {n} : Known(m)' \subseteq Known(m),
           Known(n)' \subseteq Known(n) \union {NextWrite(n, op)},
           \A m \in Node : \A i \in Id : Somewhere(m, i)' =>
                Somewhere(m, i) \/ \E u \in Made(m)' : u.id = i /\ u.op = "insert"
    PROVE  Keys'
<1> DEFINE w == NextWrite(n, op)
<1>1. w \in Write /\ w.id = nextId[n] + 1
  BY NextWriteType DEF TakeId
<1>2. \A m \in Node : nextId[m] \in Nat
  BY MadeTypes
<1>3. nextId'[n] = nextId[n] + 1 /\ \A m \in Node \ {n} : nextId'[m] = nextId[m]
  BY Domains DEF TakeId
<1> HIDE DEF w
<1>4. Made(n)' \subseteq Made(n) \union {w} /\ \A m \in Node \ {n} : Made(m)' \subseteq Made(m)
  BY DEF Made, w
<1>5. \A m \in Node : nextId'[m] \in Nat /\ nextId'[m] >= nextId[m]
  BY <1>2, <1>3
<1>6. \A m \in Node : \A u \in Made(m)' :
          u \in Made(m) \/ (u.id \in Nat /\ u.id > nextId[m] /\ u.id <= nextId'[m])
  BY <1>1, <1>2, <1>3, <1>4
<1>7. \A m \in Node : \A u, v \in Made(m)' : u \in Made(m) \/ v \in Made(m) \/ u = v
  BY <1>4
<1> QED BY <1>5, <1>6, <1>7, KeysKept

LEMMA WriteSessions ==
    ASSUME IInv, SInv, NEW n \in Node, NEW op \in RelayOp, WriteSerially(n, op) \/ BeginWrite(n, op)
    PROVE  SInv'
<1> DEFINE w == NextWrite(n, op)
<1>1. TypeInv /\ Keys
  BY DEF IInv, SInv
<1>2. TakeId(n) /\ UNCHANGED <<primary, log, cursor, bootstrapped, snap, accepted, drains, toPrimary, handling>>
  BY DEF WriteSerially, BeginWrite, tables, channel, history
<1>3. w \in Write
  BY <1>1, <1>2, NextWriteType DEF TakeId
<1> HIDE DEF w
<1>4. CASE WriteSerially(n, op)
  <2>1. Commit(n, w) /\ UNCHANGED open
    BY <1>4 DEF WriteSerially, w
  <2>2. \A m \in Node : outbox'[m] = IF m = n THEN outbox[m] \union {w} ELSE outbox[m]
    BY <1>1, <2>1, Domains DEF Commit
  <2>3. /\ Known(n)' \subseteq Known(n) \union {w} /\ \A m \in Node \ {n} : Known(m)' \subseteq Known(m)
    BY <1>2, <2>1, <2>2 DEF Known, Transit
  <2>4. /\ Rows' /\ \A m \in Node : OwnInv(m)'
        /\ \A m \in Node : \A i \in Id : Somewhere(m, i)' =>
                Somewhere(m, i) \/ \E u \in Made(m)' : u.id = i /\ u.op = "insert"
    BY <1>1, <1>2, <1>3, <2>1, CommitSessions
  <2>5. Keys'
    BY <1>1, <1>2, <2>3, <2>4, NewWrite DEF w
  <2> QED BY <2>4, <2>5 DEF SInv
<1>5. CASE BeginWrite(n, op)
  <2>1. UNCHANGED <<db, outbox>> /\ open' = [open EXCEPT ![n] = @ \union {w}]
    BY <1>5 DEF BeginWrite, tables, w
  <2>2. \A m \in Node : open'[m] = IF m = n THEN open[m] \union {w} ELSE open[m]
    BY <1>1, <2>1, Domains
  <2>3. /\ Known(n)' \subseteq Known(n) \union {w} /\ \A m \in Node \ {n} : Known(m)' \subseteq Known(m)
    BY <1>2, <2>1, <2>2 DEF Known, Transit
  <2>4. \A m \in Node : \A i \in Id : Somewhere(m, i)' => Somewhere(m, i)
    BY <1>2, <2>1 DEF Somewhere, Busy
  <2>5. Keys'
    BY <1>1, <1>2, <2>3, <2>4, NewWrite DEF w
  <2>6. Rows'
    BY <1>1, <1>2, <2>1, RowsKept DEF SInv
  <2>7. \A m \in Node : OwnInv(m)'
    <3>1. \A m \in Node : Busy(m)' => Busy(m)
      BY <1>2 DEF Busy
    <3> QED BY <1>2, <2>1, <3>1, OwnKept DEF SInv
  <2> QED BY <2>5, <2>6, <2>7 DEF SInv
<1> QED BY <1>4, <1>5

LEMMA CommitWriteSessions ==
    ASSUME IInv, SInv, NEW n \in Node, CommitWrite(n)
    PROVE  SInv'
<1>1. TypeInv /\ Keys
  BY DEF IInv, SInv
<1>2. UNCHANGED <<primary, log, cursor, bootstrapped, snap, nextId, accepted, drains, toPrimary, handling>>
  BY DEF CommitWrite, channel, history
<1>3. PICK w \in open[n] : Commit(n, w) /\ open' = [open EXCEPT ![n] = @ \ {w}]
  BY DEF CommitWrite
<1>4. w \in Write
  BY <1>1, RelayTypes
<1>5. \A m \in Node : /\ outbox'[m] = IF m = n THEN outbox[m] \union {w} ELSE outbox[m]
                      /\ open'[m] \subseteq open[m]
  BY <1>1, <1>3, Domains DEF Commit
<1>6. \A m \in Node : Made(m)' \subseteq Made(m)
  <2>1. \A m \in Node : Known(m)' \subseteq Known(m)
    BY <1>2, <1>3, <1>5 DEF Known, Transit
  <2> QED BY <1>2, <2>1 DEF Made
<1>7. /\ Rows' /\ \A m \in Node : OwnInv(m)'
      /\ \A m \in Node : \A i \in Id : Somewhere(m, i)' =>
              Somewhere(m, i) \/ \E u \in Made(m)' : u.id = i /\ u.op = "insert"
  BY <1>1, <1>2, <1>3, <1>4, CommitSessions
<1>8. Keys'
  BY <1>1, <1>2, <1>6, <1>7, KeysSame
<1> QED BY <1>7, <1>8 DEF SInv

LEMMA SInit == ASSUME Init PROVE SInv
<1>1. /\ db = [n \in Node |-> [sessions |-> {}, user |-> {}, wm |-> [m \in Node |-> 0]]]
      /\ log = <<>> /\ snap = [n \in Node |-> NoSnapshot] /\ cursor = [n \in Node |-> 0]
      /\ accepted = [n \in Node |-> <<>>] /\ primary \in Node
  BY MembersFinite DEF Init
<1>2. Len(log) = 0 /\ \A k \in 1..Len(log) : FALSE
  BY <1>1
<1>3. \A n \in Node : db[n].sessions = {} /\ cursor[n] = 0 /\ ~Busy(n) /\ Range(accepted[n]) = {}
  BY <1>1 DEF Busy, Range
<1>4. \A n \in Node : Known(n) = {} /\ outbox[n] = {}
  <2> SUFFICES ASSUME NEW n \in Node PROVE Known(n) = {} /\ outbox[n] = {}
    OBVIOUS
  <2>1. outbox[n] = {} /\ open[n] = {} /\ drains[n] = {} /\ toPrimary[n] = <<>> /\ handling = NoRelay
    BY DEF Init
  <2> QED BY <2>1 DEF Known, Transit, Range
<1>5. \A n \in Node : Made(n) = {}
  BY <1>2, <1>4 DEF Made
<1>6. Rows
  BY <1>1, <1>2, <1>3 DEF Rows, HasRows, Replicas
<1>7. Keys
  BY <1>3, <1>5 DEF Keys, OneWrite, Somewhere
<1>8. \A n \in Node : OwnInv(n)
  BY <1>2, <1>3, <1>4 DEF OwnInv, HasRows, Logged, Waiting, Fresh
<1> QED BY <1>6, <1>7, <1>8 DEF SInv

LEMMA SNext == ASSUME IInv, SInv, [Next]_vars PROVE SInv'
<1> DEFINE Goal == SInv'
<1> HIDE DEF Goal
<1>1. ASSUME NEW n \in Node, ReplicaStep(n) PROVE Goal
  <2>1. ASSUME \/ Connect(n) \/ BecomeConnected(n) \/ AckTimeout(n) \/ DrainRead(n) \/ DrainSend(n)
               \/ DrainDropped(n)
        PROVE  Goal
    BY <2>1, ReplicaQuietSessions DEF Goal
  <2>2. ASSUME HandleAck(n) \/ HandleReject(n) PROVE Goal
    BY <2>2, AnswerSessions DEF Goal
  <2>3. ASSUME FetchSnapshot(n) PROVE Goal
    BY <2>3, FetchSessions DEF Goal
  <2>4. ASSUME ReconcileSnapshot(n) PROVE Goal
    BY <2>4, ReconcileSessions DEF Goal
  <2>5. ASSUME ApplyRow(n) PROVE Goal
    BY <2>5, ApplySessions DEF Goal
  <2> QED BY <1>1, <2>1, <2>2, <2>3, <2>4, <2>5 DEF ReplicaStep
<1>2. ASSUME NEW n \in Node, NEW op \in RelayOp, WriteSerially(n, op) \/ BeginWrite(n, op) PROVE Goal
  BY <1>2, WriteSessions DEF Goal
<1>3. ASSUME NEW n \in Node, RollbackWrite(n) \/ TakeRelay(n) PROVE Goal
  BY <1>3, ReplicaQuietSessions DEF Goal
<1>4. ASSUME NEW n \in Node, CommitWrite(n) PROVE Goal
  BY <1>4, CommitWriteSessions DEF Goal
<1>5. ASSUME NEW n \in Node, Disconnect(n) \/ RestartReplica(n) PROVE Goal
  BY <1>5, DisconnectSessions DEF Goal
<1>6. ASSUME NEW n \in Node, Promote(n) PROVE Goal
  BY <1>6, PromoteSessions DEF Goal
<1>7. ASSUME AdminWrite(Gone) \/ AdminWrite(db[primary].user) PROVE Goal
  <2>1. db[primary] \in Tables
    BY MarkTypes DEF IInv
  <2>2. db[primary].user \in (SUBSET Key) \union {Gone} /\ Gone \in (SUBSET Key) \union {Gone}
    BY <2>1 DEF Tables
  <2> QED BY <1>7, <2>2, AdminSessions DEF Goal
<1>8. ASSUME RelayPostponed \/ Prune \/ FinishBoot \/ UNCHANGED vars PROVE Goal
  BY <1>8, PrimaryQuietSessions DEF Goal
<1>9. ASSUME HandleRelay \/ AdoptRow PROVE Goal
  BY <1>9, HandleSessions, AdoptSessions DEF Goal
<1>10. Goal
  BY <1>1, <1>2, <1>3, <1>4, <1>5, <1>6, <1>7, <1>8, <1>9 DEF Next
<1> QED BY <1>10 DEF Goal

(***************************************************************************)
(* The theorem                                                             *)
(***************************************************************************)

LEMMA SeesItsSessions == ASSUME IInv, SInv PROVE OwnSessionsVisible
<1>1. TypeInv /\ primary \in Node /\ db[primary] \in Tables
  BY MarkTypes DEF IInv
<1>2. SUFFICES ASSUME NEW n \in Replicas
               PROVE  /\ \A w \in outbox[n] : w.op = "insert" /\ ~Overtaken(n, w) => <<n, w.id>> \in db[n].sessions
                      /\ \A s \in db[primary].sessions :
                            s[1] = n /\ s[2] \in Range(accepted[n]) => s \in db[n].sessions
  BY DEF OwnSessionsVisible
<1>3. n \in Node /\ HasRows(log, db[n].sessions, n, Len(log)) /\ Logged(n) /\ Waiting(n)
  BY DEF SInv, OwnInv, Replicas
<1>4. ASSUME NEW s \in db[primary].sessions, s[1] = n, s[2] \in Range(accepted[n]) PROVE s \in db[n].sessions
  <2>1. s = <<n, s[2]>> /\ s[2] \in Id
    BY <1>1, <1>4 DEF Tables, Key
  <2>2. PICK k \in 1..Len(log) : RelayAt(log, k, n) /\ log[k].write.id = s[2]
    BY <1>3, <1>4 DEF Logged
  <2>3. IsSession(n, s[2])
    <3>1. Somewhere(n, s[2])
      BY <1>1, <2>1 DEF Somewhere
    <3> QED BY <1>3, <2>1, <3>1 DEF SInv, Keys
  <2>4. log[k].write.op = "insert"
    BY <2>2, <2>3 DEF IsSession, Made
  <2> QED BY <1>3, <2>1, <2>2, <2>4 DEF HasRows
<1> QED BY <1>3, <1>4 DEF Waiting

(* A replica never loses sight of a session it has made: while the write   *)
(* waits in its outbox and after the cluster has accepted it, whatever     *)
(* snapshots, echoes, restarts and changes of the primary come in between  *)
(* (reapplyPendingSessionRelays, applyChangelogRow).                       *)
THEOREM SessionsStayVisible == Spec => []OwnSessionsVisible
<1>1. Init => SInv
  BY SInit
<1>2. IInv /\ SInv /\ [Next]_vars => SInv'
  BY SNext
<1>3. IInv /\ SInv => OwnSessionsVisible
  BY SeesItsSessions
<1> QED BY <1>1, <1>2, <1>3, Invariance, PTL DEF Spec

(***************************************************************************)
(* Quiet replicas                                                          *)
(*                                                                         *)
(* The changelog stands for a set of sessions C and a user D.  A replica   *)
(* that has not strayed has C but for the sessions of rows it has yet to   *)
(* apply, and comes to D with the last row that overwrites the user, or is *)
(* there; what else it has are writes of its own that were not accepted.   *)
(* A patch of its own that a row ahead does not have dooms it to stray     *)
(* when it applies that row.  A snapshot is looked at as it will be once   *)
(* it is reconciled with the outbox.  Nobody brings back a user that is    *)
(* gone (GoneIsLast), and the primary has adopted its own outbox before    *)
(* anybody connects (Boot).  With nothing ahead and nothing waiting, what  *)
(* is left is C, D and, by Marks, the watermarks of the primary.           *)
(***************************************************************************)

(* The keys of the writes W of n with the operation op.                    *)
KeysOf(n, W, op) == {<<n, w.id>> : w \in {w \in W : w.op = op}}

(* The row e brings the user as a whole; it does so to n.                  *)
RowEvent(e) == e.type = "user" \/ e.write.op = "patch"
Brings(n, e) == e.type = "user" \/ (e.by # n /\ e.write.op = "patch")

(* The row e is the session c.                                             *)
Inserts(e, c) == e.type = "relay" /\ e.write.op = "insert" /\ c = <<e.by, e.write.id>>

(* The rows after k that overwrite the user of n, and the last of them.    *)
Ahead(g, n, k) == {j \in (k + 1)..Len(g) : Brings(n, g[j])}
LastIs(g, n, k, D) == \E j \in Ahead(g, n, k) : (\A i \in Ahead(g, n, k) : i <= j) /\ g[j].row = D

(* The user u has a patch of n and the row has not.                        *)
Misses(n, u, row) == u # Gone /\ row # Gone /\ \E key \in u \ row : key[1] = n
Doomed(g, n, u, k) == \E j \in Ahead(g, n, k) : Misses(n, u, g[j].row)

(* n has every session of C that no row brings, and those it has yet to    *)
(* send; any other session it has was not accepted so far.                 *)
SessionView(g, n, S, k, W, A, C) ==
    /\ \A c \in C : c \in S \/ \E j \in (k + 1)..Len(g) : g[j].by # n /\ Inserts(g[j], c)
    /\ KeysOf(n, W, "insert") \subseteq S
    /\ S \subseteq C \union KeysOf(n, A, "insert")

(* The last row that overwrites the user of n is D.                        *)
UserAhead(g, n, u, k, W, D) ==
    /\ LastIs(g, n, k, D) /\ u # Gone
    /\ KeysOf(n, W, "patch") \subseteq u

(* No such row is left: n has D, and of its own what was not accepted.     *)
UserHere(g, n, u, k, W, A, D) ==
    /\ Ahead(g, n, k) = {}
    /\ D = Gone => u = Gone
    /\ D # Gone =>
          /\ u # Gone /\ D \subseteq u /\ KeysOf(n, W, "patch") \subseteq u
          /\ u \subseteq D \union KeysOf(n, A, "patch")

(* A row ahead will make n stray, or n comes to D, or it is there.         *)
UserView(g, n, u, k, W, A, D) ==
    Doomed(g, n, u, k) \/ UserAhead(g, n, u, k, W, D) \/ UserHere(g, n, u, k, W, A, D)

(* Tables d of n at row k, with W to be sent and A not accepted, when C    *)
(* are the sessions and D is the user that the changelog stands for.       *)
View(g, n, d, k, W, A, C, D) ==
    SessionView(g, n, d.sessions, k, W, A, C) /\ UserView(g, n, d.user, k, W, A, D)

(* A row of the user, or none.                                             *)
UserRow == (SUBSET Key) \union {Gone}

(***************************************************************************)
(* Views                                                                   *)
(***************************************************************************)

(* More writes have more keys.                                             *)
LEMMA KeysGrow ==
    ASSUME NEW n, NEW V, NEW W, NEW op, V \subseteq W
    PROVE  KeysOf(n, V, op) \subseteq KeysOf(n, W, op)
BY DEF KeysOf

(* Sending less and waiting for more does not matter to a view.            *)
LEMMA ViewLess ==
    ASSUME NEW g, NEW n, NEW d, NEW k, NEW W, NEW A, NEW C, NEW D, NEW W2, NEW A2,
           View(g, n, d, k, W, A, C, D), W2 \subseteq W, A \subseteq A2
    PROVE  View(g, n, d, k, W2, A2, C, D)
<1>1. \A op : KeysOf(n, W2, op) \subseteq KeysOf(n, W, op) /\ KeysOf(n, A, op) \subseteq KeysOf(n, A2, op)
  BY KeysGrow
<1>2. SessionView(g, n, d.sessions, k, W2, A2, C)
  BY <1>1 DEF View, SessionView
<1>3. UserView(g, n, d.user, k, W2, A2, D)
  BY <1>1 DEF View, UserView, UserAhead, UserHere
<1> QED BY <1>2, <1>3 DEF View

(* The tables d and the writes X of n.                                     *)
With(n, d, X) ==
    [d EXCEPT
        !.sessions = @ \union {<<n, w.id>> : w \in {w \in X : w.op = "insert"}},
        !.user = IF @ = Gone THEN Gone ELSE @ \union {<<n, w.id>> : w \in {w \in X : w.op = "patch"}}]

(* What is in the tables d with the writes X.                              *)
LEMMA WithParts ==
    ASSUME NEW n \in Node, NEW d \in Tables, NEW X \in SUBSET Write
    PROVE  /\ With(n, d, X).sessions = d.sessions \union KeysOf(n, X, "insert")
           /\ d.user = Gone => With(n, d, X).user = Gone
           /\ d.user # Gone => With(n, d, X).user = d.user \union KeysOf(n, X, "patch")
           /\ With(n, d, X) \in Tables
<1> DEFINE S == d.sessions \union KeysOf(n, X, "insert")
           U == IF d.user = Gone THEN Gone ELSE d.user \union KeysOf(n, X, "patch")
<1>1. With(n, d, X) = [d EXCEPT !.sessions = S, !.user = U]
  BY DEF With, KeysOf, Tables
<1>2. \A op : KeysOf(n, X, op) \subseteq Key
  BY DEF KeysOf, Key, Write
<1>3. S \in SUBSET Key /\ U \in (SUBSET Key) \union {Gone}
  BY <1>2 DEF Tables
<1> HIDE DEF S, U
<1>4. /\ With(n, d, X).sessions = S /\ With(n, d, X).user = U /\ With(n, d, X) \in Tables
  BY <1>1, <1>3 DEF Tables
<1> QED BY <1>4 DEF S, U

(* n commits the writes Z, or applies them again to a snapshot.            *)
LEMMA ViewWrite ==
    ASSUME NEW g, NEW n \in Node, NEW d \in Tables, NEW k, NEW W, NEW A, NEW C, NEW D \in UserRow,
           NEW Z \in SUBSET Write, View(g, n, d, k, W, A, C, D)
    PROVE  View(g, n, With(n, d, Z), k, W \union Z, A \union Z, C, D)
<1> DEFINE d2 == With(n, d, Z)
           W2 == W \union Z
           A2 == A \union Z
<1>0. /\ d2.sessions = d.sessions \union KeysOf(n, Z, "insert")
      /\ d.user = Gone => d2.user = Gone
      /\ d.user # Gone => d2.user = d.user \union KeysOf(n, Z, "patch")
  BY WithParts
<1> HIDE DEF d2
<1>1. \A op : KeysOf(n, W2, op) \subseteq KeysOf(n, W, op) \union KeysOf(n, Z, op)
           /\ KeysOf(n, A, op) \union KeysOf(n, Z, op) \subseteq KeysOf(n, A2, op)
  BY DEF KeysOf
<1> HIDE DEF W2, A2
<1>2. SessionView(g, n, d2.sessions, k, W2, A2, C)
  BY <1>0, <1>1 DEF View, SessionView
<1>3. d.user # Gone => d2.user # Gone /\ d.user \subseteq d2.user
  <2>1. d.user \in (SUBSET Key) \union {Gone}
    BY DEF Tables
  <2>2. KeysOf(n, Z, "patch") \subseteq Key
    BY DEF KeysOf, Key, Write
  <2> QED BY <1>0, <2>1, <2>2, GoneIsNoRow
<1>4. UserView(g, n, d2.user, k, W2, A2, D)
  <2>1. CASE Doomed(g, n, d.user, k)
    BY <1>3, <2>1 DEF Doomed, Misses, UserView
  <2>2. CASE UserAhead(g, n, d.user, k, W, D)
    BY <1>0, <1>1, <1>3, <2>2 DEF UserAhead, UserView
  <2>3. CASE UserHere(g, n, d.user, k, W, A, D)
    BY <1>0, <1>1, <1>3, <2>3 DEF UserHere, UserView
  <2> QED BY <2>1, <2>2, <2>3 DEF View, UserView
<1> QED BY <1>2, <1>4 DEF View, d2, W2, A2

(* A view is about sessions and the user only.                             *)
LEMMA SameView ==
    ASSUME NEW g, NEW n, NEW d, NEW k, NEW W, NEW A, NEW C, NEW D, NEW d2,
           View(g, n, d, k, W, A, C, D), d2.sessions = d.sessions, d2.user = d.user
    PROVE  View(g, n, d2, k, W, A, C, D)
BY DEF View

(* The rows ahead when a row is written at the end.                        *)
LEMMA AheadAppend ==
    ASSUME NEW g \in Seq(Event), NEW e \in Event, NEW k \in 0..Len(g), NEW n
    PROVE  /\ Ahead(Append(g, e), n, k) = Ahead(g, n, k) \union (IF Brings(n, e) THEN {Len(g) + 1} ELSE {})
           /\ \A j \in Ahead(g, n, k) : j \in 1..Len(g) /\ Append(g, e)[j] = g[j]
           /\ \A j \in (k + 1)..Len(g) : j \in (k + 1)..Len(Append(g, e)) /\ Append(g, e)[j] = g[j]
           /\ Len(g) + 1 \in (k + 1)..Len(Append(g, e)) /\ Append(g, e)[Len(g) + 1] = e
<1> DEFINE h == Append(g, e)
<1>1. /\ Len(h) = Len(g) + 1 /\ h[Len(g) + 1] = e
      /\ \A i \in 1..Len(g) : h[i] = g[i]
  BY Appended
<1> HIDE DEF h
<1>2. Len(g) \in Nat /\ k \in Nat /\ k <= Len(g)
  OBVIOUS
<1>3. \A j \in (k + 1)..Len(g) : j \in 1..Len(g) /\ j \in (k + 1)..Len(h) /\ h[j] = g[j]
  BY <1>1, <1>2
<1>4. /\ \A j \in (k + 1)..Len(h) : j \in (k + 1)..Len(g) \/ j = Len(g) + 1
      /\ Len(g) + 1 \in (k + 1)..Len(h)
  BY <1>1, <1>2
<1>5. Ahead(h, n, k) = Ahead(g, n, k) \union (IF Brings(n, e) THEN {Len(g) + 1} ELSE {})
  BY <1>1, <1>3, <1>4 DEF Ahead
<1> QED BY <1>1, <1>3, <1>4, <1>5 DEF h, Ahead

(* A row at the end that does not overwrite the user of n.                 *)
LEMMA AheadKept ==
    ASSUME NEW g \in Seq(Event), NEW e \in Event, NEW k \in 0..Len(g), NEW n, ~Brings(n, e)
    PROVE  /\ Ahead(Append(g, e), n, k) = Ahead(g, n, k)
           /\ \A D : LastIs(Append(g, e), n, k, D) <=> LastIs(g, n, k, D)
           /\ \A u : Doomed(Append(g, e), n, u, k) <=> Doomed(g, n, u, k)
<1> DEFINE h == Append(g, e)
<1>0. /\ Ahead(h, n, k) = Ahead(g, n, k) \union (IF Brings(n, e) THEN {Len(g) + 1} ELSE {})
      /\ \A j \in Ahead(g, n, k) : h[j] = g[j]
  BY AheadAppend
<1>1. Ahead(h, n, k) = Ahead(g, n, k) /\ \A j \in Ahead(g, n, k) : h[j] = g[j]
  BY <1>0
<1> HIDE DEF h
<1> QED BY <1>1 DEF LastIs, Doomed, h

(* A session of m is accepted: n has it, or will see it.                   *)
LEMMA ViewSession ==
    ASSUME NEW g \in Seq(Event), NEW e \in Event, NEW k \in 0..Len(g), NEW n \in Node, NEW d,
           NEW W, NEW A, NEW C, NEW D, NEW W2, NEW A2,
           View(g, n, d, k, W, A, C, D), W2 \subseteq W,
           e.type = "relay", e.write.op = "insert",
           e.by = n => e.write \in W,
           \A v \in A : v \in A2 \/ (e.by = n /\ v = e.write)
    PROVE  View(Append(g, e), n, d, k, W2, A2, C \union {<<e.by, e.write.id>>}, D)
<1> DEFINE h == Append(g, e)
           key == <<e.by, e.write.id>>
<1>1. /\ \A op : KeysOf(n, W2, op) \subseteq KeysOf(n, W, op)
      /\ KeysOf(n, A, "patch") \subseteq KeysOf(n, A2, "patch")
      /\ KeysOf(n, A, "insert") \subseteq KeysOf(n, A2, "insert") \union {key}
  BY DEF KeysOf
<1>2. /\ Ahead(h, n, k) = Ahead(g, n, k)
      /\ LastIs(h, n, k, D) <=> LastIs(g, n, k, D)
      /\ Doomed(h, n, d.user, k) <=> Doomed(g, n, d.user, k)
  BY AheadKept DEF Brings
<1>3. /\ \A j \in (k + 1)..Len(g) : j \in (k + 1)..Len(h) /\ h[j] = g[j]
      /\ Len(g) + 1 \in (k + 1)..Len(h) /\ h[Len(g) + 1] = e
  BY AheadAppend
<1>4. e.by = n => key \in KeysOf(n, W, "insert")
  BY DEF KeysOf
<1> HIDE DEF h, key
<1>5. Inserts(e, key)
  BY DEF Inserts, key
<1>6. SessionView(h, n, d.sessions, k, W2, A2, C \union {key})
  <2>1. ASSUME NEW c \in C \union {key}
        PROVE  c \in d.sessions \/ \E j \in (k + 1)..Len(h) : h[j].by # n /\ Inserts(h[j], c)
    <3>1. CASE c \in C
      BY <1>3, <3>1 DEF View, SessionView
    <3>2. CASE c = key /\ e.by = n
      BY <1>4, <3>2 DEF View, SessionView
    <3>3. CASE c = key /\ e.by # n
      BY <1>3, <1>5, <3>3
    <3> QED BY <2>1, <3>1, <3>2, <3>3
  <2> QED BY <1>1, <2>1 DEF View, SessionView
<1>7. UserView(h, n, d.user, k, W2, A2, D)
  BY <1>1, <1>2 DEF View, UserView, UserAhead, UserHere
<1> QED BY <1>6, <1>7 DEF View, h, key

(* A patch of n itself is accepted: n has it, unless a row without it is   *)
(* ahead.                                                                  *)
LEMMA ViewOwnPatch ==
    ASSUME NEW g \in Seq(Event), NEW e \in Event, NEW k \in 0..Len(g), NEW n \in Node, NEW d,
           NEW W, NEW A, NEW C, NEW D, View(g, n, d, k, W, A, C, D),
           e.type = "relay", e.write.op = "patch", e.by = n, e.write \in W,
           D # Gone, e.row # Gone, e.row = D \union {<<n, e.write.id>>}
    PROVE  View(Append(g, e), n, d, k, W, A \ {e.write}, C, e.row)
<1> DEFINE h == Append(g, e)
           A2 == A \ {e.write}
           key == <<n, e.write.id>>
<1>1. /\ KeysOf(n, A, "insert") \subseteq KeysOf(n, A2, "insert")
      /\ KeysOf(n, A, "patch") \subseteq KeysOf(n, A2, "patch") \union {key}
      /\ key \in KeysOf(n, W, "patch")
  BY DEF KeysOf
<1>2. /\ Ahead(h, n, k) = Ahead(g, n, k)
      /\ LastIs(h, n, k, e.row) <=> LastIs(g, n, k, e.row)
      /\ Doomed(h, n, d.user, k) <=> Doomed(g, n, d.user, k)
  BY AheadKept DEF Brings
<1>3. \A j \in (k + 1)..Len(g) : j \in (k + 1)..Len(h) /\ h[j] = g[j]
  BY AheadAppend
<1>a. key[1] = n
  OBVIOUS
<1> HIDE DEF h, key, A2
<1>4. SessionView(h, n, d.sessions, k, W, A2, C)
  BY <1>1, <1>3 DEF View, SessionView
<1>5. UserView(h, n, d.user, k, W, A2, e.row)
  <2>1. CASE Doomed(g, n, d.user, k)
    BY <1>2, <2>1 DEF UserView
  <2>2. CASE UserAhead(g, n, d.user, k, W, D)
    <3>1. PICK j \in Ahead(g, n, k) : (\A i \in Ahead(g, n, k) : i <= j) /\ g[j].row = D
      BY <2>2 DEF UserAhead, LastIs
    <3>2. key \in d.user /\ d.user # Gone
      BY <1>1, <2>2 DEF UserAhead
    <3>3. CASE key \in D
      <4>1. e.row = D
        BY <3>3 DEF key
      <4> QED BY <1>1, <1>2, <2>2, <4>1 DEF UserAhead, UserView
    <3>4. CASE key \notin D
      BY <1>2, <1>a, <3>1, <3>2, <3>4 DEF Doomed, Misses, UserView
    <3> QED BY <3>3, <3>4
  <2>3. CASE UserHere(g, n, d.user, k, W, A, D)
    <3>1. e.row = D \union {key}
      BY DEF key
    <3> QED BY <1>1, <1>2, <2>3, <3>1 DEF UserHere, UserView
  <2> QED BY <2>1, <2>2, <2>3 DEF View, UserView
<1> QED BY <1>4, <1>5 DEF View, h, A2

(* A row is written that will overwrite the user of n.                     *)
LEMMA ViewBrought ==
    ASSUME NEW g \in Seq(Event), NEW e \in Event, NEW k \in 0..Len(g), NEW n \in Node, NEW d,
           NEW W, NEW A, NEW C, NEW D, NEW W2, NEW A2,
           View(g, n, d, k, W, A, C, D), W2 \subseteq W, A \subseteq A2,
           Brings(n, e), D # Gone
    PROVE  View(Append(g, e), n, d, k, W2, A2, C, e.row)
<1> DEFINE h == Append(g, e)
<1>1. \A op : KeysOf(n, W2, op) \subseteq KeysOf(n, W, op) /\ KeysOf(n, A, op) \subseteq KeysOf(n, A2, op)
  BY KeysGrow
<1>2. /\ \A j \in (k + 1)..Len(g) : j \in (k + 1)..Len(h) /\ h[j] = g[j]
      /\ Len(g) + 1 \in (k + 1)..Len(h) /\ h[Len(g) + 1] = e
      /\ Ahead(h, n, k) = Ahead(g, n, k) \union {Len(g) + 1}
      /\ \A j \in Ahead(g, n, k) : j \in 1..Len(g) /\ h[j] = g[j]
  BY AheadAppend
<1> HIDE DEF h
<1>3. SessionView(h, n, d.sessions, k, W2, A2, C)
  BY <1>1, <1>2 DEF View, SessionView
<1>4. LastIs(h, n, k, e.row)
  <2>1. \A i \in Ahead(h, n, k) : i <= Len(g) + 1
    BY <1>2
  <2> QED BY <1>2, <2>1 DEF LastIs
<1>5. Doomed(g, n, d.user, k) => Doomed(h, n, d.user, k)
  BY <1>2 DEF Doomed
<1>6. UserView(h, n, d.user, k, W2, A2, e.row)
  BY <1>1, <1>4, <1>5 DEF View, UserView, UserAhead, UserHere
<1> QED BY <1>3, <1>6 DEF View, h

(* A row replaces the user, unless n has made the patch itself.            *)
LEMMA AfterRowUser ==
    ASSUME NEW n \in Node, NEW d \in Tables, NEW e \in Event
    PROVE  AfterRow(n, d, e).user = IF Brings(n, e) THEN e.row ELSE d.user
<1>1. CASE e.type = "user"
  BY <1>1 DEF AfterRow, Tables, Brings
<1>2. CASE e.type = "relay"
  <2>1. e.by \in Node /\ e.write \in Write /\ e.write.op \in RelayOp
    BY <1>2 DEF Event, Write
  <2>2. CASE e.by = n
    BY <1>2, <2>2 DEF AfterRow, Tables, Brings
  <2>3. CASE e.by # n /\ e.write.op = "insert"
    <3>1. AfterRow(n, d, e) = [Applied(d, e.by, e.write) EXCEPT !.wm[e.by] = e.write.id]
      BY <1>2, <2>3 DEF AfterRow
    <3>2. Applied(d, e.by, e.write) \in Tables
      BY <2>1, <2>3, AppliedType DEF Applicable
    <3>3. AfterRow(n, d, e).user = Applied(d, e.by, e.write).user
      BY <3>1, <3>2 DEF Tables
    <3>4. Applied(d, e.by, e.write).user = d.user
      BY <2>3 DEF Applied, Tables
    <3> QED BY <1>2, <2>3, <3>3, <3>4 DEF Brings
  <2>4. CASE e.by # n /\ e.write.op = "patch"
    BY <1>2, <2>4 DEF AfterRow, Tables, Brings
  <2> QED BY <2>1, <2>2, <2>3, <2>4 DEF RelayOp
<1> QED BY <1>1, <1>2 DEF Event

(* n applies the next row and does not stray.                              *)
LEMMA ViewApply ==
    ASSUME NEW g \in Seq(Event), NEW k \in Nat, k + 1 <= Len(g), NEW n \in Node, NEW d \in Tables,
           NEW W, NEW A, NEW C, NEW D, NEW e, e = g[k + 1],
           View(g, n, d, k, W, A, C, D),
           ~(Brings(n, e) /\ Misses(n, d.user, e.row)),
           RowEvent(e) /\ e.row = Gone => \A j \in (k + 2)..Len(g) : ~RowEvent(g[j]),
           e.type = "relay" /\ e.write.op = "insert" => <<e.by, e.write.id>> \in C
    PROVE  View(g, n, AfterRow(n, d, e), k + 1, W, A, C, D)
<1>1. e \in Event /\ Len(g) \in Nat
  OBVIOUS
<1> DEFINE d2 == AfterRow(n, d, e)
<1>2. /\ d2.sessions = d.sessions \union (IF e.type = "relay" /\ e.by # n /\ e.write.op = "insert"
                                          THEN {<<e.by, e.write.id>>} ELSE {})
      /\ d2.user = IF Brings(n, e) THEN e.row ELSE d.user
  BY <1>1, AfterRowSessions, AfterRowUser
<1> HIDE DEF d2
<1>3. /\ \A j \in (k + 1)..Len(g) : j = k + 1 \/ j \in (k + 2)..Len(g)
      /\ \A j \in (k + 2)..Len(g) : j \in (k + 1)..Len(g) /\ j # k + 1
      /\ k + 1 \in (k + 1)..Len(g)
  BY <1>1
<1>a. k + 1 + 1 = k + 2
  OBVIOUS
<1>4. Ahead(g, n, k + 1) = Ahead(g, n, k) \ {k + 1}
  BY <1>3, <1>a DEF Ahead
<1>5. SessionView(g, n, d2.sessions, k + 1, W, A, C)
  <2>1. ASSUME NEW c \in C
        PROVE  c \in d2.sessions \/ \E j \in (k + 1 + 1)..Len(g) : g[j].by # n /\ Inserts(g[j], c)
    <3>1. CASE c \in d.sessions
      BY <1>2, <3>1
    <3>2. CASE \E j \in (k + 1)..Len(g) : g[j].by # n /\ Inserts(g[j], c)
      <4>1. PICK j \in (k + 1)..Len(g) : g[j].by # n /\ Inserts(g[j], c)
        BY <3>2
      <4>2. CASE j = k + 1
        BY <1>2, <4>1, <4>2 DEF Inserts
      <4>3. CASE j \in (k + 2)..Len(g)
        BY <1>a, <4>1, <4>3
      <4> QED BY <1>3, <4>1, <4>2, <4>3
    <3> QED BY <3>1, <3>2 DEF View, SessionView
  <2>2. d.sessions \subseteq d2.sessions /\ d2.sessions \subseteq d.sessions \union C
    BY <1>2
  <2> QED BY <2>1, <2>2 DEF View, SessionView
<1>6. CASE ~Brings(n, e)
  <2>1. k + 1 \notin Ahead(g, n, k)
    BY <1>6 DEF Ahead
  <2>2. Ahead(g, n, k + 1) = Ahead(g, n, k) /\ d2.user = d.user
    BY <1>2, <1>4, <1>6, <2>1
  <2>3. UserView(g, n, d2.user, k + 1, W, A, D)
    BY <2>2 DEF View, UserView, UserAhead, UserHere, LastIs, Doomed
  <2> QED BY <1>5, <2>3 DEF View, d2
<1>7. CASE Brings(n, e)
  <2>1. k + 1 \in Ahead(g, n, k) /\ d2.user = e.row /\ ~Misses(n, d.user, e.row) /\ RowEvent(e)
    BY <1>2, <1>3, <1>7 DEF Ahead, Brings, RowEvent
  <2>2. \A j \in Ahead(g, n, k + 1) : e.row # Gone /\ j \in Ahead(g, n, k)
    <3>1. \A j \in Ahead(g, n, k + 1) : j \in (k + 2)..Len(g) /\ RowEvent(g[j])
      BY <1>a DEF Ahead, Brings, RowEvent
    <3> QED BY <1>4, <2>1, <3>1
  <2>3. \A key : d.user # Gone /\ e.row # Gone /\ key \in d.user /\ key[1] = n => key \in e.row
    BY <2>1 DEF Misses
  <2>4. \A key \in KeysOf(n, W, "patch") : key[1] = n
    BY DEF KeysOf
  <2>5. CASE Doomed(g, n, d.user, k)
    <3>1. PICK j \in Ahead(g, n, k) : Misses(n, d.user, g[j].row)
      BY <2>5 DEF Doomed
    <3>2. j \in Ahead(g, n, k + 1)
      BY <1>4, <2>1, <3>1
    <3>3. Misses(n, e.row, g[j].row)
      BY <2>2, <2>3, <3>1, <3>2 DEF Misses
    <3> QED BY <1>5, <2>1, <3>2, <3>3 DEF Doomed, UserView, View, d2
  <2>6. CASE UserAhead(g, n, d.user, k, W, D)
    <3>1. PICK j \in Ahead(g, n, k) : (\A i \in Ahead(g, n, k) : i <= j) /\ g[j].row = D
      BY <2>6 DEF UserAhead, LastIs
    <3>2. e.row # Gone => KeysOf(n, W, "patch") \subseteq e.row
      BY <2>3, <2>4, <2>6 DEF UserAhead
    <3>3. CASE j = k + 1
      <4>1. Ahead(g, n, k + 1) = {}
        <5>1. \A i \in Ahead(g, n, k + 1) : i \in (k + 2)..Len(g) /\ i <= k + 1
          BY <1>a, <2>2, <3>1, <3>3 DEF Ahead
        <5> QED BY <5>1
      <4>2. UserHere(g, n, e.row, k + 1, W, A, D)
        BY <3>1, <3>2, <3>3, <4>1 DEF UserHere
      <4> QED BY <1>5, <2>1, <4>2 DEF UserView, View, d2
    <3>4. CASE j # k + 1
      <4>1. j \in Ahead(g, n, k + 1) /\ e.row # Gone
        BY <1>4, <2>2, <3>1, <3>4
      <4>2. UserAhead(g, n, e.row, k + 1, W, D)
        BY <2>2, <3>1, <3>2, <4>1 DEF UserAhead, LastIs
      <4> QED BY <1>5, <2>1, <4>2 DEF UserView, View, d2
    <3> QED BY <3>3, <3>4
  <2>7. ~UserHere(g, n, d.user, k, W, A, D)
    BY <2>1 DEF UserHere
  <2> QED BY <2>5, <2>6, <2>7 DEF View, UserView
<1> QED BY <1>6, <1>7

(***************************************************************************)
(* The invariant                                                           *)
(***************************************************************************)

(* The rows of n that the primary has not passed, and those that were not  *)
(* accepted.                                                               *)
Unsent(n) == {w \in outbox[n] : w.id > Mark(n)}
Unaccepted(n) == {w \in outbox[n] : w.id \notin Range(accepted[n])}

(* Tables d of n at row k, if the rows after k are still there.            *)
Sees(n, d, k, C, D) == k >= base => View(log, n, d, k, Unsent(n), Unaccepted(n), C, D)

(* The sessions of the rows that are still there are in C.                 *)
HoldsLogged(C) ==
    \A j \in (base + 1)..Len(log) :
        log[j].type = "relay" /\ log[j].write.op = "insert" => <<log[j].by, log[j].write.id>> \in C

(* The primary has C and D, and of its own what it has yet to adopt.       *)
PrimaryHolds(C, D) ==
    /\ C \subseteq db[primary].sessions
    /\ db[primary].sessions \subseteq C \union KeysOf(primary, Unaccepted(primary), "insert")
    /\ D = Gone => db[primary].user = Gone
    /\ D # Gone =>
          /\ db[primary].user # Gone /\ D \subseteq db[primary].user
          /\ db[primary].user \subseteq D \union KeysOf(primary, Unaccepted(primary), "patch")

(* A replica that has not strayed has C and D but for what is ahead ...    *)
ReplicaSees(n, C, D) ==
    n # primary /\ n \notin strayed /\ bootstrapped[n] => Sees(n, db[n], cursor[n], C, D)

(* ... and so will a snapshot once it is reconciled.                       *)
SnapshotSees(n, C, D) ==
    Busy(n) => Sees(n, Reapplied(n, snap[n].tables), snap[n].seq, C, D)

(* C and D are what the changelog stands for.                              *)
Core(C, D) ==
    /\ HoldsLogged(C) /\ PrimaryHolds(C, D)
    /\ \A n \in Node : ReplicaSees(n, C, D) /\ SnapshotSees(n, C, D)

(* After the row in which a user is gone no row brings one.                *)
GoneIsLast ==
    \A j \in (base + 1)..Len(log) : RowEvent(log[j]) /\ log[j].row = Gone =>
        /\ db[primary].user = Gone
        /\ \A i \in (j + 1)..Len(log) : ~RowEvent(log[i])

(* Nobody is connected to a primary that boots, and when it has booted     *)
(* nothing waits in its own outbox.                                        *)
Boot ==
    /\ booting =>
          /\ handling = NoRelay
          /\ \A m \in Node : conn[m] = "down" /\ ~Busy(m) /\ toPrimary[m] = <<>>
    /\ ~booting => outbox[primary] = {}
    /\ \A m \in Node : conn[m] = "connected" => bootstrapped[m]

(* There are such C and D.                                                 *)
Views == GoneIsLast /\ \E C \in SUBSET Key, D \in UserRow : Core(C, D)

(* The inductive invariant.                                                *)
QInv == Boot /\ Views

(* From a later start there is less.                                       *)
LEMMA RangeFrom ==
    ASSUME NEW a \in Nat, NEW b \in Nat, NEW l \in Nat, a <= b
    PROVE  \A j \in (b + 1)..l : j \in (a + 1)..l
OBVIOUS

(* Types of what the views speak of.                                       *)
LEMMA ViewTypes ==
    ASSUME TypeInv
    PROVE  /\ base \in Nat /\ base <= Len(log) /\ log \in Seq(Event) /\ Len(log) \in Nat
           /\ \A n \in Node : cursor[n] \in 0..Len(log)
           /\ \A n \in Node : Busy(n) => snap[n].seq \in 0..Len(log)
<1>1. base \in 0..Len(log)
  BY DEF TypeInv, TypeOK
<1> QED BY <1>1, MarkTypes

(* Without a new row GoneIsLast stays.                                     *)
LEMMA GoneKept ==
    ASSUME TypeInv, GoneIsLast, UNCHANGED log, base' \in {base, Len(log)},
           base' = Len(log) \/ db'[primary'].user = db[primary].user
    PROVE  GoneIsLast'
<1>1. base \in Nat /\ Len(log) \in Nat
  BY ViewTypes
<1>2. CASE base' = Len(log)
  <2>1. \A j \in (Len(log) + 1)..Len(log) : FALSE
    BY <1>1
  <2> QED BY <1>2, <2>1 DEF GoneIsLast
<1>3. CASE base' = base /\ db'[primary'].user = db[primary].user
  BY <1>3 DEF GoneIsLast
<1> QED BY <1>2, <1>3

(* Nothing is added to the tables, the changelog or an outbox.             *)
LEMMA CoreKept ==
    ASSUME TypeInv, NEW C, NEW D, Core(C, D), UNCHANGED <<primary, db, log, cursor, accepted>>,
           base' \in {base, Len(log)},
           strayed \subseteq strayed',
           \A m \in Node : outbox'[m] \subseteq outbox[m],
           \A m \in Node : bootstrapped'[m] => bootstrapped[m],
           \A m \in Node : snap'[m] \in {snap[m], NoSnapshot},
           \A m \in Node : Busy(m)' \/ m = primary => outbox'[m] = outbox[m],
           \A m \in Node : m \in strayed' \/ ~bootstrapped'[m] \/ Unaccepted(m) \subseteq Unaccepted(m)'
    PROVE  Core(C, D)'
<1>1. base \in Nat /\ Len(log) \in Nat /\ base' \in Nat /\ base <= base' /\ primary \in Node
  BY ViewTypes, MarkTypes
<1>2. HoldsLogged(C)'
  <2>1. \A j \in (base' + 1)..Len(log) : j \in (base + 1)..Len(log)
    BY <1>1, RangeFrom
  <2> QED BY <2>1 DEF Core, HoldsLogged
<1>3. PrimaryHolds(C, D)'
  <2>1. Unaccepted(primary)' = Unaccepted(primary)
    BY <1>1 DEF Unaccepted
  <2> QED BY <2>1 DEF Core, PrimaryHolds
<1>4. ASSUME NEW n \in Node PROVE Unsent(n)' \subseteq Unsent(n)
  BY DEF Unsent, Mark
<1>5. ASSUME NEW n \in Node PROVE ReplicaSees(n, C, D)'
  <2> SUFFICES ASSUME n # primary, n \notin strayed', bootstrapped'[n], cursor[n] >= base'
               PROVE  View(log, n, db[n], cursor[n], Unsent(n)', Unaccepted(n)', C, D)
    BY DEF ReplicaSees, Sees
  <2>1. cursor[n] >= base
    BY <1>1, ViewTypes
  <2>2. View(log, n, db[n], cursor[n], Unsent(n), Unaccepted(n), C, D)
    BY <2>1 DEF Core, ReplicaSees, Sees
  <2> QED BY <1>4, <2>2, ViewLess
<1>6. ASSUME NEW n \in Node PROVE SnapshotSees(n, C, D)'
  <2> SUFFICES ASSUME Busy(n)', snap'[n].seq >= base'
               PROVE  View(log, n, Reapplied(n, snap[n].tables)', snap'[n].seq, Unsent(n)', Unaccepted(n)', C, D)
    BY DEF SnapshotSees, Sees
  <2>1. Busy(n) /\ snap'[n] = snap[n] /\ outbox'[n] = outbox[n]
    BY DEF Busy
  <2>2. /\ Reapplied(n, snap[n].tables)' = Reapplied(n, snap[n].tables)
        /\ Unaccepted(n)' = Unaccepted(n)
    BY <2>1 DEF Reapplied, NotIn, Unaccepted
  <2>3. snap[n].seq >= base
    BY <1>1, <2>1, ViewTypes
  <2>4. View(log, n, Reapplied(n, snap[n].tables), snap[n].seq, Unsent(n), Unaccepted(n), C, D)
    BY <2>1, <2>3 DEF Core, SnapshotSees, Sees
  <2> QED BY <1>4, <2>1, <2>2, <2>4, ViewLess
<1> QED BY <1>2, <1>3, <1>5, <1>6 DEF Core

(***************************************************************************)
(* Boot                                                                    *)
(***************************************************************************)

(* Nothing is connected, read, sent or handled that was not before.        *)
LEMMA BootKept ==
    ASSUME TypeInv, Boot, UNCHANGED <<primary, booting>>,
           outbox'[primary] \subseteq outbox[primary],
           handling' \in {handling, NoRelay} \/ ~booting,
           \A m \in Node : conn'[m] \in {conn[m], "down"} /\ (bootstrapped'[m] = bootstrapped[m] \/ conn'[m] = "down"),
           \A m \in Node : ~booting \/ (snap'[m] \in {snap[m], NoSnapshot} /\ toPrimary'[m] \in {toPrimary[m], <<>>})
    PROVE  Boot'
<1>1. booting' => handling' = NoRelay /\ \A m \in Node : conn'[m] = "down" /\ ~Busy(m)' /\ toPrimary'[m] = <<>>
  BY DEF Boot, Busy
<1>2. ~booting' => outbox'[primary'] = {}
  BY DEF Boot
<1>3. \A m \in Node : conn'[m] = "connected" => bootstrapped'[m]
  BY DEF Boot
<1> QED BY <1>1, <1>2, <1>3 DEF Boot

(* A connection ends.                                                      *)
LEMMA ClosedBoot ==
    ASSUME TypeInv, Boot, NEW n \in Node, Closed(n), UNCHANGED <<primary, booting>>,
           outbox'[primary] \subseteq outbox[primary],
           \A m \in Node : m # n => bootstrapped'[m] = bootstrapped[m],
           \A m \in Node : snap'[m] \in {snap[m], NoSnapshot}
    PROVE  Boot'
<1>1. /\ conn' = [conn EXCEPT ![n] = "down"] /\ toPrimary' = [toPrimary EXCEPT ![n] = <<>>]
      /\ handling # NoRelay \/ handling' = handling
  BY DEF Closed
<1>2. DOMAIN conn = Node /\ DOMAIN toPrimary = Node
  BY DEF TypeInv, TypeOK
<1>3. /\ \A m \in Node : conn'[m] = IF m = n THEN "down" ELSE conn[m]
      /\ \A m \in Node : toPrimary'[m] \in {toPrimary[m], <<>>}
  BY <1>1, <1>2
<1>4. handling' = handling \/ ~booting
  BY <1>1 DEF Boot
<1> QED BY <1>3, <1>4, BootKept

(* Every step keeps Boot.                                                  *)
LEMMA BootNext ==
    ASSUME IInv, Boot, [Next]_vars
    PROVE  Boot'
<1>1. TypeInv /\ primary \in Node /\ open[primary] = {} /\ conn[primary] = "down" /\ ~Busy(primary)
  <2>1. TypeInv /\ primary \in Node /\ conn[primary] = "down" /\ ~Busy(primary)
    BY MarkTypes DEF IInv, Marks, Busy
  <2>2. open[primary] = {}
    BY <2>1 DEF IInv, RelayInv, Numbered
  <2> QED BY <2>1, <2>2
<1>2. /\ DOMAIN conn = Node /\ DOMAIN outbox = Node /\ DOMAIN snap = Node /\ DOMAIN toPrimary = Node
      /\ DOMAIN bootstrapped = Node
  BY <1>1 DEF TypeInv, TypeOK
<1> DEFINE Goal == Boot'
<1> HIDE DEF Goal
<1>3. ASSUME NEW n \in Node, NEW op \in RelayOp, WriteSerially(n, op) \/ BeginWrite(n, op) PROVE Goal
  <2>1. UNCHANGED <<primary, booting, conn, snap, bootstrapped, toPrimary, handling>> /\ n # primary
    BY <1>3 DEF WriteSerially, BeginWrite, tables, channel, Replicas
  <2>2. outbox'[primary] = outbox[primary]
    BY <1>1, <1>2, <1>3, <2>1 DEF WriteSerially, BeginWrite, Commit
  <2> QED BY <1>1, <2>1, <2>2, BootKept DEF Goal
<1>4. ASSUME NEW n \in Node, CommitWrite(n) \/ RollbackWrite(n) PROVE Goal
  <2>1. UNCHANGED <<primary, booting, conn, snap, bootstrapped, toPrimary, handling>> /\ n # primary
    BY <1>1, <1>4 DEF CommitWrite, RollbackWrite, tables, channel
  <2>2. outbox'[primary] = outbox[primary]
    BY <1>1, <1>2, <1>4, <2>1 DEF CommitWrite, RollbackWrite, Commit
  <2> QED BY <1>1, <2>1, <2>2, BootKept DEF Goal
<1>5. ASSUME NEW n \in Node, Connect(n) \/ BecomeConnected(n) PROVE Goal
  <2>1. /\ UNCHANGED <<primary, booting, snap, bootstrapped, toPrimary, handling, outbox>>
        /\ ~booting /\ \A m \in Node \ {n} : conn'[m] = conn[m]
        /\ conn'[n] = "connected" => bootstrapped[n]
    BY <1>2, <1>5 DEF Connect, BecomeConnected, tables, queue, channel, Boot, NeedsSnapshot
  <2> QED BY <1>1, <2>1 DEF Boot, Goal
<1>6. ASSUME NEW n \in Node, FetchSnapshot(n) \/ TakeRelay(n) \/ DrainSend(n) PROVE Goal
  <2>1. UNCHANGED <<primary, booting, conn, bootstrapped, outbox>>
    BY <1>6 DEF FetchSnapshot, TakeRelay, DrainSend, tables, queue
  <2>2. ~booting
    BY <1>6 DEF FetchSnapshot, TakeRelay, DrainSend, Boot
  <2> QED BY <1>1, <2>1, <2>2, BootKept DEF Goal
<1>7. ASSUME NEW n \in Node, AckTimeout(n) \/ DrainRead(n) \/ DrainDropped(n) PROVE Goal
  <2>1. UNCHANGED <<primary, booting, conn, snap, bootstrapped, toPrimary, handling, outbox>>
    BY <1>7 DEF AckTimeout, DrainRead, DrainDropped, tables, queue
  <2> QED BY <1>1, <2>1, BootKept DEF Goal
<1>8. ASSUME NEW n \in Node, ReconcileSnapshot(n) PROVE Goal
  <2>1. UNCHANGED <<primary, booting, outbox>> /\ Busy(n) /\ snap' = [snap EXCEPT ![n] = NoSnapshot]
    BY <1>8 DEF ReconcileSnapshot, queue
  <2>2. CASE Closed(n) /\ UNCHANGED bootstrapped
    BY <1>1, <1>2, <2>1, <2>2, ClosedBoot DEF Goal
  <2>3. CASE UNCHANGED <<conn, toPrimary, handling>> /\ bootstrapped' = [bootstrapped EXCEPT ![n] = TRUE]
    <3>1. \A m \in Node : bootstrapped'[m] = bootstrapped[m] \/ bootstrapped'[m]
      BY <1>2, <2>3
    <3>2. ~booting
      BY <2>1 DEF Boot
    <3> QED BY <2>1, <2>3, <3>1, <3>2 DEF Boot, Goal
  <2> QED BY <1>8, <2>2, <2>3 DEF ReconcileSnapshot
<1>9. ASSUME NEW n \in Node, ApplyRow(n) PROVE Goal
  <2>1. UNCHANGED <<primary, booting, conn, snap, bootstrapped, toPrimary, handling, outbox>>
    BY <1>9 DEF ApplyRow, queue, channel
  <2> QED BY <1>1, <2>1, BootKept DEF Goal
<1>10. ASSUME NEW n \in Node, HandleAck(n) \/ HandleReject(n) PROVE Goal
  <2>1. UNCHANGED <<primary, booting, snap>> /\ outbox'[primary] = outbox[primary]
    <3>1. n # primary
      BY <1>1, <1>10 DEF HandleAck, HandleReject
    <3> QED BY <1>1, <1>2, <1>10, <3>1 DEF HandleAck, HandleReject
  <2>2. CASE HandleAck(n)
    <3>1. UNCHANGED <<conn, bootstrapped, toPrimary, handling>>
      BY <2>2 DEF HandleAck, tables
    <3> QED BY <1>1, <2>1, <3>1, BootKept DEF Goal
  <2>3. CASE HandleReject(n)
    <3>1. Closed(n) /\ \A m \in Node : m # n => bootstrapped'[m] = bootstrapped[m]
      BY <1>2, <2>3 DEF HandleReject
    <3> QED BY <1>1, <2>1, <3>1, ClosedBoot DEF Goal
  <2> QED BY <1>10, <2>2, <2>3
<1>11. ASSUME NEW n \in Node, Disconnect(n) \/ RestartReplica(n) PROVE Goal
  <2>1. Closed(n) /\ UNCHANGED <<primary, booting, outbox, bootstrapped>>
    BY <1>11 DEF Disconnect, RestartReplica, tables, queue
  <2>2. \A m \in Node : snap'[m] \in {snap[m], NoSnapshot}
    BY <1>2, <1>11 DEF Disconnect, RestartReplica
  <2> QED BY <1>1, <2>1, <2>2, ClosedBoot DEF Goal
<1>12. ASSUME NEW n \in Node, Promote(n) PROVE Goal
  <2>1. /\ booting' /\ handling' = NoRelay
        /\ \A m \in Node : conn'[m] = "down" /\ snap'[m] = NoSnapshot /\ toPrimary'[m] = <<>>
    BY <1>12 DEF Promote
  <2> QED BY <2>1 DEF Boot, Busy, Goal
<1>13. ASSUME HandleRelay \/ RelayPostponed PROVE Goal
  <2>1. UNCHANGED <<primary, booting, conn, snap, bootstrapped, toPrimary, outbox>> /\ handling' = NoRelay
    BY <1>13 DEF HandleRelay, RelayPostponed, tables, queue, channel
  <2> QED BY <1>1, <2>1, BootKept DEF Goal
<1>14. ASSUME AdminWrite(Gone) \/ AdminWrite(db[primary].user) \/ Prune \/ UNCHANGED vars PROVE Goal
  <2>1. UNCHANGED <<primary, booting, conn, snap, bootstrapped, toPrimary, outbox, handling>>
    BY <1>14 DEF AdminWrite, Prune, vars, tables, queue, channel
  <2> QED BY <1>1, <2>1, BootKept DEF Goal
<1>15. ASSUME AdoptRow PROVE Goal
  <2>1. UNCHANGED <<primary, booting, conn, snap, bootstrapped, toPrimary, handling>>
    BY <1>15 DEF AdoptRow, channel
  <2>2. outbox'[primary] \subseteq outbox[primary]
    BY <1>1, <1>2, <1>15 DEF AdoptRow
  <2> QED BY <1>1, <2>1, <2>2, BootKept DEF Goal
<1>16. ASSUME FinishBoot PROVE Goal
  <2>1. UNCHANGED <<primary, conn, bootstrapped, outbox>> /\ ~booting' /\ outbox[primary] = {}
    BY <1>16 DEF FinishBoot, tables, queue
  <2> QED BY <2>1 DEF Boot, Goal
<1>17. Goal
  BY <1>3, <1>4, <1>5, <1>6, <1>7, <1>8, <1>9, <1>10, <1>11, <1>12, <1>13, <1>14, <1>15, <1>16
     DEF Next, ReplicaStep
<1> QED BY <1>17 DEF Goal

(***************************************************************************)
(* Steps that write no row                                                 *)
(***************************************************************************)

(* Nothing is added to the tables, the changelog or an outbox.             *)
LEMMA ViewsKept ==
    ASSUME TypeInv, Views, UNCHANGED <<primary, db, log, cursor, accepted>>,
           base' \in {base, Len(log)},
           strayed \subseteq strayed',
           \A m \in Node : outbox'[m] \subseteq outbox[m],
           \A m \in Node : bootstrapped'[m] => bootstrapped[m],
           \A m \in Node : snap'[m] \in {snap[m], NoSnapshot},
           \A m \in Node : Busy(m)' \/ m = primary => outbox'[m] = outbox[m],
           \A m \in Node : m \in strayed' \/ ~bootstrapped'[m] \/ Unaccepted(m) \subseteq Unaccepted(m)'
    PROVE  Views'
<1>1. GoneIsLast'
  BY GoneKept DEF Views
<1>2. PICK C \in SUBSET Key, D \in UserRow : Core(C, D)
  BY DEF Views
<1>3. Core(C, D)'
  BY <1>2, CoreKept
<1> QED BY <1>1, <1>3 DEF Views

(* Steps of a replica that touch neither tables nor outbox.                *)
LEMMA ReplicaQuietViews ==
    ASSUME TypeInv, Views, NEW n \in Node,
           \/ Connect(n) \/ BecomeConnected(n) \/ AckTimeout(n) \/ RollbackWrite(n) \/ DrainRead(n)
           \/ DrainSend(n) \/ DrainDropped(n) \/ TakeRelay(n) \/ \E op \in RelayOp : BeginWrite(n, op)
    PROVE  Views'
<1>1. UNCHANGED <<primary, db, log, base, cursor, accepted, strayed, outbox, bootstrapped, snap>>
  BY DEF Connect, BecomeConnected, AckTimeout, RollbackWrite, DrainRead, DrainSend, DrainDropped, TakeRelay,
         BeginWrite, tables, queue, history
<1>2. \A m \in Node : Unaccepted(m)' = Unaccepted(m)
  BY <1>1 DEF Unaccepted
<1> QED BY <1>1, <1>2, ViewsKept

(* Steps of the primary that write no row.                                 *)
LEMMA PrimaryQuietViews ==
    ASSUME TypeInv, Views, RelayPostponed \/ Prune \/ FinishBoot \/ UNCHANGED vars
    PROVE  Views'
<1>1. /\ UNCHANGED <<primary, db, log, cursor, accepted, strayed, outbox, bootstrapped, snap>>
      /\ base' \in {base, Len(log)}
  BY DEF RelayPostponed, Prune, FinishBoot, vars, tables, queue, history
<1>2. \A m \in Node : Unaccepted(m)' = Unaccepted(m)
  BY <1>1 DEF Unaccepted
<1> QED BY <1>1, <1>2, ViewsKept

(* A snapshot under way is dropped with its connection.                    *)
LEMMA DisconnectViews ==
    ASSUME TypeInv, Views, NEW n \in Node, Disconnect(n) \/ RestartReplica(n)
    PROVE  Views'
<1>1. UNCHANGED <<primary, db, log, base, cursor, accepted, strayed, outbox, bootstrapped>>
  BY DEF Disconnect, RestartReplica, tables, queue, history
<1>2. \A m \in Node : snap'[m] \in {snap[m], NoSnapshot}
  BY Domains DEF Disconnect, RestartReplica
<1>3. \A m \in Node : Unaccepted(m)' = Unaccepted(m)
  BY <1>1 DEF Unaccepted
<1> QED BY <1>1, <1>2, <1>3, ViewsKept

(* An acknowledged row was accepted, or its node strays; a rejected one    *)
(* makes its node ask for a snapshot.                                      *)
LEMMA AnswerViews ==
    ASSUME TypeInv, Views, NEW n \in Node, HandleAck(n) \/ HandleReject(n)
    PROVE  Views'
<1>1. /\ UNCHANGED <<primary, db, log, base, cursor, accepted, snap>> /\ ~Busy(n) /\ n # primary
      /\ outbox' \in {outbox, [outbox EXCEPT ![n] = Without(n, Head(toReplica[n]).id)]}
  BY MarkTypes DEF HandleAck, HandleReject, tables, history
<1>2. /\ \A m \in Node : outbox'[m] \subseteq outbox[m]
      /\ \A m \in Node \ {n} : outbox'[m] = outbox[m] /\ Unaccepted(m)' = Unaccepted(m)
      /\ outbox'[n] \in {outbox[n], Without(n, Head(toReplica[n]).id)}
  BY <1>1, Domains DEF Without, Unaccepted
<1>3. \A m \in Node : Busy(m)' \/ m = primary => outbox'[m] = outbox[m]
  BY <1>1, <1>2 DEF Busy
<1>4. CASE HandleAck(n)
  <2>1. UNCHANGED bootstrapped /\ strayed \subseteq strayed'
    BY <1>4 DEF HandleAck, tables
  <2>2. n \in strayed' \/ Unaccepted(n) \subseteq Unaccepted(n)'
    <3>1. CASE UNCHANGED outbox
      BY <1>1, <3>1 DEF Unaccepted
    <3>2. CASE /\ outbox' = [outbox EXCEPT ![n] = Without(n, Head(toReplica[n]).id)]
               /\ strayed' = IF Head(toReplica[n]).id \in Range(accepted[n]) THEN strayed ELSE strayed \union {n}
      <4>1. outbox'[n] = Without(n, Head(toReplica[n]).id)
        BY <3>2, Domains
      <4> QED BY <1>1, <3>2, <4>1 DEF Without, Unaccepted
    <3> QED BY <1>4, <3>1, <3>2 DEF HandleAck
  <2> QED BY <1>1, <1>2, <1>3, <2>1, <2>2, ViewsKept
<1>5. CASE HandleReject(n)
  <2>1. UNCHANGED strayed /\ ~bootstrapped'[n] /\ \A m \in Node : bootstrapped'[m] => bootstrapped[m]
    BY <1>5, Domains DEF HandleReject, history
  <2> QED BY <1>1, <1>2, <1>3, <2>1, ViewsKept
<1> QED BY <1>4, <1>5

(***************************************************************************)
(* A write of a replica                                                    *)
(***************************************************************************)

(* What a write leaves in the tables.                                      *)
LEMMA AppliedUser ==
    ASSUME NEW d \in Tables, NEW m \in Node, NEW w \in Write, Applicable(d, w)
    PROVE  /\ Applied(d, m, w).sessions = d.sessions \union KeysOf(m, {w}, "insert")
           /\ d.user = Gone => Applied(d, m, w).user = Gone
           /\ d.user # Gone => Applied(d, m, w).user = d.user \union KeysOf(m, {w}, "patch")
<1>1. w.op \in RelayOp
  BY DEF Write
<1>2. CASE w.op = "insert"
  <2>1. KeysOf(m, {w}, "insert") = {<<m, w.id>>} /\ KeysOf(m, {w}, "patch") = {}
    BY <1>2 DEF KeysOf
  <2>2. d.user # Gone => d.user \union {} = d.user
    BY DEF Tables
  <2> QED BY <1>2, <2>1, <2>2 DEF Applied, Tables
<1>3. CASE w.op = "patch"
  <2>1. KeysOf(m, {w}, "patch") = {<<m, w.id>>} /\ KeysOf(m, {w}, "insert") = {} /\ d.user # Gone
    BY <1>3 DEF KeysOf, Applicable
  <2>2. d.sessions \union {} = d.sessions
    BY DEF Tables
  <2> QED BY <1>3, <2>1, <2>2 DEF Applied, Tables
<1> QED BY <1>1, <1>2, <1>3 DEF RelayOp

(* Watermarks grow along the changelog.                                    *)
LEMMA MarkBelow ==
    ASSUME NEW g \in Seq(Event), NEW k \in 0..Len(g), NEW l \in 0..Len(g), k <= l, NEW m \in Node,
           NEW u \in Nat, NEW v \in Nat, MarkAt(g, u, m, k), MarkAt(g, v, m, l)
    PROVE  u <= v
<1>1. \A i \in 1..k : i \in 1..l
  OBVIOUS
<1> QED BY <1>1 DEF MarkAt

(* n commits a write: it has the row, and the row waits.                   *)
LEMMA CommitViews ==
    ASSUME TypeInv, Marks, Views, NEW n \in Node, n # primary, NEW w \in Write, Commit(n, w),
           w.id \notin Range(accepted[n]),
           UNCHANGED <<primary, log, base, cursor, bootstrapped, snap, accepted, strayed>>
    PROVE  Views'
<1>1. /\ primary \in Node /\ log \in Seq(Event) /\ Len(log) \in Nat /\ db[n] \in Tables /\ outbox[n] \subseteq Write
      /\ \A m \in Node : Mark(m) \in Nat
  BY MarkTypes, RelayTypes
<1>2. /\ Applicable(db[n], w) /\ db'[n] = Applied(db[n], n, w) /\ \A m \in Node \ {n} : db'[m] = db[m]
      /\ outbox'[n] = outbox[n] \union {w} /\ \A m \in Node \ {n} : outbox'[m] = outbox[m]
  BY Domains DEF Commit
<1>3. /\ db'[primary] = db[primary] /\ \A m \in Node : Mark(m)' = Mark(m)
      /\ \A m \in Node \ {n} : Unsent(m)' = Unsent(m) /\ Unaccepted(m)' = Unaccepted(m)
      /\ Unsent(n)' \subseteq Unsent(n) \union {w} /\ (~(w.id > Mark(n)) => Unsent(n)' \subseteq Unsent(n))
      /\ Unaccepted(n)' = Unaccepted(n) \union {w}
  <2>1. db'[primary] = db[primary] /\ \A m \in Node : Mark(m)' = Mark(m)
    BY <1>1, <1>2 DEF Mark
  <2> QED BY <1>2, <2>1 DEF Unsent, Unaccepted
<1>4. GoneIsLast'
  BY <1>3, GoneKept DEF Views
<1>5. PICK C \in SUBSET Key, D \in UserRow : Core(C, D)
  BY DEF Views
<1>6. HoldsLogged(C)' /\ PrimaryHolds(C, D)'
  <2>1. Unaccepted(primary)' = Unaccepted(primary)
    BY <1>1, <1>3
  <2> QED BY <1>3, <1>5, <2>1 DEF Core, HoldsLogged, PrimaryHolds
<1>7. ASSUME NEW m \in Node, m # n PROVE ReplicaSees(m, C, D)' /\ SnapshotSees(m, C, D)'
  <2>1. db'[m] = db[m] /\ Unsent(m)' = Unsent(m) /\ Unaccepted(m)' = Unaccepted(m) /\ outbox'[m] = outbox[m]
    BY <1>2, <1>3, <1>7
  <2>2. Reapplied(m, snap[m].tables)' = Reapplied(m, snap[m].tables)
    BY <2>1 DEF Reapplied, NotIn
  <2>3. ReplicaSees(m, C, D) /\ SnapshotSees(m, C, D)
    BY <1>5, <1>7 DEF Core
  <2> QED BY <2>1, <2>2, <2>3 DEF ReplicaSees, SnapshotSees, Sees, Busy
<1>8. ReplicaSees(n, C, D)'
  <2> SUFFICES ASSUME n \notin strayed, bootstrapped[n], cursor[n] >= base
               PROVE  View(log, n, db'[n], cursor[n], Unsent(n)', Unaccepted(n)', C, D)
    BY DEF ReplicaSees, Sees
  <2>1. View(log, n, db[n], cursor[n], Unsent(n), Unaccepted(n), C, D)
    BY <1>5 DEF Core, ReplicaSees, Sees
  <2> DEFINE d == With(n, db[n], {w})
  <2>2. db'[n].sessions = d.sessions /\ db'[n].user = d.user
    <3>1. db'[n] = Applied(db[n], n, w) /\ db[n] \in Tables /\ Applicable(db[n], w)
      BY <1>1, <1>2
    <3>2. /\ Applied(db[n], n, w).sessions = db[n].sessions \union KeysOf(n, {w}, "insert")
          /\ db[n].user = Gone => Applied(db[n], n, w).user = Gone
          /\ db[n].user # Gone => Applied(db[n], n, w).user = db[n].user \union KeysOf(n, {w}, "patch")
      <4>1. db[n] \in Tables /\ Applicable(db[n], w)
        BY <3>1
      <4> QED BY ONLY <4>1, n \in Node, w \in Write, AppliedUser
    <3>3. /\ d.sessions = db[n].sessions \union KeysOf(n, {w}, "insert")
          /\ db[n].user = Gone => d.user = Gone
          /\ db[n].user # Gone => d.user = db[n].user \union KeysOf(n, {w}, "patch")
      BY <1>1, WithParts
    <3> HIDE DEF d
    <3> QED BY <3>1, <3>2, <3>3
  <2>3. Unsent(n)' \subseteq Unsent(n) \union {w} /\ Unaccepted(n) \union {w} \subseteq Unaccepted(n)'
    BY <1>3
  <2>4. View(log, n, d, cursor[n], Unsent(n) \union {w}, Unaccepted(n) \union {w}, C, D)
    BY <1>1, <2>1, ViewWrite
  <2> HIDE DEF d
  <2>5. View(log, n, db'[n], cursor[n], Unsent(n) \union {w}, Unaccepted(n) \union {w}, C, D)
    BY <2>2, <2>4, SameView
  <2> QED BY <2>3, <2>5, ViewLess
<1>9. SnapshotSees(n, C, D)'
  <2> DEFINE t == snap[n].tables
             Z == IF w.id > t.wm[n] THEN {w} ELSE {}
  <2> SUFFICES ASSUME Busy(n), snap[n].seq >= base
               PROVE  View(log, n, Reapplied(n, snap[n].tables)', snap[n].seq, Unsent(n)', Unaccepted(n)', C, D)
    BY DEF SnapshotSees, Sees, Busy
  <2>1. View(log, n, Reapplied(n, t), snap[n].seq, Unsent(n), Unaccepted(n), C, D)
    BY <1>5 DEF Core, SnapshotSees, Sees
  <2>2. t \in Tables /\ t.wm[n] \in Nat /\ snap[n].seq \in 0..Len(log) /\ Z \in SUBSET Write
    BY MarkTypes DEF Busy
  <2>3. w.id \in Nat
    BY BoundsAreNat DEF Write, Id
  <2>4. t.wm[n] <= Mark(n)
    <3>1. MarkAt(log, t.wm[n], n, snap[n].seq) /\ MarkAt(log, Mark(n), n, Len(log))
      BY DEF Marks, Mark
    <3>2. snap[n].seq <= Len(log) /\ Len(log) \in 0..Len(log)
      BY <1>1, <2>2
    <3> HIDE DEF t
    <3> QED BY <1>1, <2>2, <3>1, <3>2, MarkBelow
  <2>5. /\ Reapplied(n, t) = With(n, t, NotIn(n, t))
        /\ Reapplied(n, t)' = With(n, t, NotIn(n, t) \union Z)
    <3>1. NotIn(n, t)' = NotIn(n, t) \union Z
      BY <1>2 DEF NotIn
    <3>2. Reapplied(n, t)' = With(n, t, NotIn(n, t)')
      BY DEF Reapplied, With
    <3> QED BY <3>1, <3>2 DEF Reapplied, With
  <2>6. NotIn(n, t) \in SUBSET Write /\ NotIn(n, t) \union Z \in SUBSET Write
    BY <1>1 DEF NotIn
  <2>7. Unsent(n)' \subseteq Unsent(n) \union Z /\ Unaccepted(n) \union Z \subseteq Unaccepted(n)'
    BY <1>1, <1>3, <2>2, <2>3, <2>4
  <2> DEFINE N == NotIn(n, t)
             d1 == With(n, t, N)
             d2 == With(n, t, N \union Z)
             d3 == With(n, d1, Z)
  <2> HIDE DEF t, Z, N
  <2>8. /\ d1.sessions = t.sessions \union KeysOf(n, N, "insert")
        /\ t.user = Gone => d1.user = Gone
        /\ t.user # Gone => d1.user = t.user \union KeysOf(n, N, "patch")
        /\ d1 \in Tables
    BY <2>2, <2>6, WithParts DEF N
  <2>9. /\ d2.sessions = t.sessions \union KeysOf(n, N \union Z, "insert")
        /\ t.user = Gone => d2.user = Gone
        /\ t.user # Gone => d2.user = t.user \union KeysOf(n, N \union Z, "patch")
    BY <2>2, <2>6, WithParts DEF N
  <2>a. View(log, n, d1, snap[n].seq, Unsent(n), Unaccepted(n), C, D)
    BY <2>1, <2>5 DEF N
  <2> HIDE DEF d1, d2
  <2>10. /\ d3.sessions = d1.sessions \union KeysOf(n, Z, "insert")
         /\ d1.user = Gone => d3.user = Gone
         /\ d1.user # Gone => d3.user = d1.user \union KeysOf(n, Z, "patch")
    BY <2>2, <2>8, WithParts
  <2>11. View(log, n, d3, snap[n].seq, Unsent(n) \union Z, Unaccepted(n) \union Z, C, D)
    BY <2>2, <2>8, <2>a, ViewWrite
  <2> HIDE DEF d3
  <2>12. d2.sessions = d3.sessions /\ d2.user = d3.user
    <3>1. \A op : KeysOf(n, N \union Z, op) = KeysOf(n, N, op) \union KeysOf(n, Z, op)
      BY DEF KeysOf
    <3>2. t.user # Gone => d1.user # Gone
      <4>1. t.user \in (SUBSET Key) \union {Gone}
        BY <2>2 DEF Tables
      <4>2. KeysOf(n, N, "patch") \subseteq Key
        BY <2>6 DEF KeysOf, Key, Write, N
      <4> QED BY <2>8, <4>1, <4>2, GoneIsNoRow
    <3> QED BY <2>8, <2>9, <2>10, <3>1, <3>2
  <2>b. View(log, n, d2, snap[n].seq, Unsent(n) \union Z, Unaccepted(n) \union Z, C, D)
    BY <2>11, <2>12, SameView
  <2>13. View(log, n, d2, snap[n].seq, Unsent(n)', Unaccepted(n)', C, D)
    BY <2>7, <2>b, ViewLess
  <2> QED BY <2>5, <2>13 DEF d2, t, N
<1>10. Core(C, D)'
  BY <1>6, <1>7, <1>8, <1>9 DEF Core
<1> QED BY <1>4, <1>10 DEF Views

(* n commits a write in one step, or one it has begun.                     *)
LEMMA WriteViews ==
    ASSUME IInv, Views, NEW n \in Node, CommitWrite(n) \/ \E op \in RelayOp : WriteSerially(n, op)
    PROVE  Views'
<1>1. TypeInv /\ Marks /\ RelayInv(n) /\ primary \in Node
  BY MarkTypes DEF IInv
<1>2. UNCHANGED <<primary, log, base, cursor, bootstrapped, snap, accepted, strayed>>
  BY DEF CommitWrite, WriteSerially, history
<1>3. CASE CommitWrite(n)
  <2>1. PICK w \in open[n] : Commit(n, w)
    BY <1>3 DEF CommitWrite
  <2>2. w \in Write /\ w.id \notin Range(accepted[n]) /\ n # primary
    BY <1>1, <2>1, RelayTypes DEF RelayInv, Numbered
  <2> QED BY <1>1, <1>2, <2>1, <2>2, CommitViews
<1>4. CASE \E op \in RelayOp : WriteSerially(n, op)
  <2>1. PICK op \in RelayOp : WriteSerially(n, op)
    BY <1>4
  <2>2. n # primary /\ TakeId(n) /\ Commit(n, NextWrite(n, op))
    BY <2>1 DEF WriteSerially, Replicas
  <2>3. NextWrite(n, op) \in Write /\ NextWrite(n, op).id = nextId[n] + 1
    BY <1>1, <2>2, NextWriteType DEF TakeId
  <2>4. nextId[n] + 1 \notin Range(accepted[n])
    <3>1. accepted[n] \in Seq(Id) /\ nextId[n] \in Nat /\ Mark(n) \in Nat
      BY <1>1, RelayTypes
    <3>2. \A k \in DOMAIN accepted[n] : accepted[n][k] <= Mark(n) /\ Mark(n) <= nextId[n] /\ accepted[n][k] \in Nat
      BY <1>1, <3>1, BoundsAreNat DEF RelayInv, History, Id
    <3> QED BY <3>1, <3>2 DEF Range
  <2> QED BY <1>1, <1>2, <2>2, <2>3, <2>4, CommitViews
<1> QED BY <1>3, <1>4

(***************************************************************************)
(* Snapshots and changelog rows                                            *)
(***************************************************************************)

(* What is beyond the primary's watermark was not accepted.                *)
LEMMA UnsentUnaccepted ==
    ASSUME TypeInv, NEW n \in Node, History(n)
    PROVE  Unsent(n) \subseteq Unaccepted(n)
<1>1. accepted[n] \in Seq(Id) /\ Mark(n) \in Nat /\ \A w \in outbox[n] : w.id \in Nat
  BY RelayTypes DEF Known
<1>2. \A k \in DOMAIN accepted[n] : accepted[n][k] <= Mark(n) /\ accepted[n][k] \in Nat
  BY <1>1, BoundsAreNat DEF History, Id
<1> QED BY <1>1, <1>2 DEF Unsent, Unaccepted, Range

(* With nothing of its own to adopt the primary has just C and D.          *)
LEMMA PrimaryHasAll ==
    ASSUME NEW C \in SUBSET Key, NEW D \in UserRow, Core(C, D), outbox[primary] = {}
    PROVE  db[primary].sessions = C /\ db[primary].user = D
<1>1. Unaccepted(primary) = {}
  BY DEF Unaccepted
<1>2. \A op : KeysOf(primary, Unaccepted(primary), op) = {}
  BY <1>1 DEF KeysOf
<1> QED BY <1>2 DEF Core, PrimaryHolds, UserRow

(* The tables at the end of the changelog stand for all of it.             *)
LEMMA ViewWhole ==
    ASSUME NEW g \in Seq(Event), NEW n, NEW d
    PROVE  View(g, n, d, Len(g), {}, {}, d.sessions, d.user)
<1>1. Len(g) \in Nat /\ \A j \in (Len(g) + 1)..Len(g) : FALSE
  OBVIOUS
<1>2. \A op : KeysOf(n, {}, op) = {}
  BY DEF KeysOf
<1>3. Ahead(g, n, Len(g)) = {}
  BY <1>1 DEF Ahead
<1> QED BY <1>2, <1>3 DEF View, SessionView, UserView, UserHere

(* n reads the tables of the primary; what it has yet to send is added.    *)
LEMMA FetchViews ==
    ASSUME IInv, QInv, NEW n \in Node, FetchSnapshot(n)
    PROVE  Views'
<1>1. TypeInv /\ Marks /\ History(n) /\ primary \in Node /\ db[primary] \in Tables /\ log \in Seq(Event)
      /\ outbox[n] \subseteq Write
  BY MarkTypes, RelayTypes DEF IInv, RelayInv
<1>2. /\ UNCHANGED <<primary, db, log, base, cursor, accepted, strayed, outbox, bootstrapped>>
      /\ snap'[n] = [tables |-> db[primary], seq |-> Len(log)]
      /\ \A m \in Node \ {n} : snap'[m] = snap[m]
  BY <1>1, Domains DEF FetchSnapshot, tables, queue, history
<1>3. outbox[primary] = {}
  BY DEF FetchSnapshot, QInv, Boot
<1>4. GoneIsLast'
  BY <1>1, <1>2, GoneKept DEF QInv, Views
<1>5. PICK C \in SUBSET Key, D \in UserRow : Core(C, D)
  BY DEF QInv, Views
<1>6. \A m \in Node : Unsent(m)' = Unsent(m) /\ Unaccepted(m)' = Unaccepted(m)
  BY <1>2 DEF Unsent, Unaccepted, Mark
<1>7. HoldsLogged(C)' /\ PrimaryHolds(C, D)' /\ \A m \in Node : ReplicaSees(m, C, D)'
  BY <1>1, <1>2, <1>5, <1>6 DEF Core, HoldsLogged, PrimaryHolds, ReplicaSees, Sees
<1>8. ASSUME NEW m \in Node, m # n PROVE SnapshotSees(m, C, D)'
  <2>1. snap'[m] = snap[m] /\ outbox'[m] = outbox[m] /\ SnapshotSees(m, C, D)
    BY <1>2, <1>5, <1>8 DEF Core
  <2>2. Reapplied(m, snap[m].tables)' = Reapplied(m, snap[m].tables)
    BY <2>1 DEF Reapplied, NotIn
  <2> QED BY <1>2, <1>6, <2>1, <2>2 DEF SnapshotSees, Sees, Busy
<1>9. SnapshotSees(n, C, D)'
  <2> DEFINE d == db[primary]
             U == Unsent(n)
  <2>1. snap'[n].tables = d /\ snap'[n].seq = Len(log)
    BY <1>2
  <2>2. Reapplied(n, snap[n].tables)' = With(n, d, U)
    <3>1. NotIn(n, snap[n].tables)' = U
      BY <1>2, <2>1 DEF NotIn, Unsent, Mark
    <3>2. Reapplied(n, snap[n].tables)' = With(n, snap'[n].tables, NotIn(n, snap[n].tables)')
      BY DEF Reapplied, With
    <3> QED BY <2>1, <3>1, <3>2
  <2>3. d \in Tables /\ U \in SUBSET Write /\ d.sessions = C /\ d.user = D
    BY <1>1, <1>3, <1>5, PrimaryHasAll DEF Unsent
  <2>4. U \subseteq Unaccepted(n)
    BY <1>1, UnsentUnaccepted
  <2> HIDE DEF d, U
  <2>5. View(log, n, d, Len(log), {}, {}, C, D)
    BY <1>1, <2>3, ViewWhole
  <2>6. View(log, n, With(n, d, U), Len(log), {} \union U, {} \union U, C, D)
    BY <2>3, <2>5, ViewWrite
  <2>7. View(log, n, With(n, d, U), Len(log), U, Unaccepted(n), C, D)
    BY <2>4, <2>6, ViewLess
  <2>8. View(log', n, Reapplied(n, snap[n].tables)', snap'[n].seq, Unsent(n)', Unaccepted(n)', C, D)
    BY <1>2, <1>6, <2>1, <2>2, <2>7 DEF U
  <2> QED BY <2>8 DEF SnapshotSees, Sees
<1>10. Core(C, D)'
  BY <1>7, <1>8, <1>9 DEF Core
<1> QED BY <1>4, <1>10 DEF Views

(* A snapshot becomes the tables of n.                                     *)
LEMMA ReconcileViews ==
    ASSUME IInv, Views, NEW n \in Node, ReconcileSnapshot(n)
    PROVE  Views'
<1>1. TypeInv /\ primary \in Node /\ n # primary
  BY MarkTypes DEF IInv, Marks, ReconcileSnapshot, Busy
<1>2. /\ UNCHANGED <<primary, log, base, accepted, outbox>> /\ Busy(n)
      /\ snap'[n] = NoSnapshot /\ \A m \in Node \ {n} : snap'[m] = snap[m]
  BY <1>1, Domains DEF ReconcileSnapshot, queue
<1>3. CASE UNCHANGED <<db, cursor, bootstrapped, strayed>>
  <2>1. \A m \in Node : Unaccepted(m)' = Unaccepted(m) /\ snap'[m] \in {snap[m], NoSnapshot}
    BY <1>2 DEF Unaccepted
  <2> QED BY <1>1, <1>2, <1>3, <2>1, ViewsKept
<1>4. CASE /\ db' = [db EXCEPT ![n] = Reapplied(n, snap[n].tables)]
           /\ cursor' = [cursor EXCEPT ![n] = snap[n].seq]
           /\ bootstrapped' = [bootstrapped EXCEPT ![n] = TRUE]
           /\ strayed' = strayed \ {n}
  <2>1. /\ db'[n] = Reapplied(n, snap[n].tables) /\ cursor'[n] = snap[n].seq
        /\ \A m \in Node \ {n} : /\ db'[m] = db[m] /\ cursor'[m] = cursor[m] /\ bootstrapped'[m] = bootstrapped[m]
                                 /\ (m \in strayed' <=> m \in strayed)
    <3>1. DOMAIN cursor = Node
      BY <1>1 DEF TypeInv, TypeOK
    <3> QED BY <1>1, <1>4, <3>1, Domains
  <2>2. db'[primary] = db[primary]
    BY <1>1, <2>1
  <2>3. \A m \in Node : Unsent(m)' = Unsent(m) /\ Unaccepted(m)' = Unaccepted(m)
    BY <1>2, <2>2 DEF Unsent, Unaccepted, Mark
  <2>4. GoneIsLast'
    BY <1>1, <1>2, <2>2, GoneKept DEF Views
  <2>5. PICK C \in SUBSET Key, D \in UserRow : Core(C, D)
    BY DEF Views
  <2>6. HoldsLogged(C)' /\ PrimaryHolds(C, D)'
    BY <1>1, <1>2, <2>2, <2>3, <2>5 DEF Core, HoldsLogged, PrimaryHolds
  <2>7. ASSUME NEW m \in Node, m # n PROVE ReplicaSees(m, C, D)' /\ SnapshotSees(m, C, D)'
    <3>1. Reapplied(m, snap[m].tables)' = Reapplied(m, snap[m].tables) /\ snap'[m] = snap[m]
      BY <1>2, <2>7 DEF Reapplied, NotIn
    <3>2. ReplicaSees(m, C, D) /\ SnapshotSees(m, C, D)
      BY <2>5, <2>7 DEF Core
    <3>3. ReplicaSees(m, C, D)'
      BY <1>2, <2>1, <2>3, <2>7, <3>2 DEF ReplicaSees, Sees
    <3>4. SnapshotSees(m, C, D)'
      BY <1>2, <2>3, <2>7, <3>1, <3>2 DEF SnapshotSees, Sees, Busy
    <3> QED BY <3>3, <3>4
  <2>8. ReplicaSees(n, C, D)' /\ SnapshotSees(n, C, D)'
    <3>1. SnapshotSees(n, C, D)
      BY <2>5 DEF Core
    <3> QED BY <1>2, <2>1, <2>3, <3>1 DEF ReplicaSees, SnapshotSees, Sees, Busy
  <2>9. Core(C, D)'
    BY <2>6, <2>7, <2>8 DEF Core
  <2> QED BY <2>4, <2>9 DEF Views
<1> QED BY <1>3, <1>4 DEF ReconcileSnapshot

(* n applies a row, and strays if a patch of its own is overwritten.       *)
LEMMA ApplyViews ==
    ASSUME IInv, Views, NEW n \in Node, ApplyRow(n)
    PROVE  Views'
<1> DEFINE k == cursor[n]
           e == log[k + 1]
<1>1. /\ TypeInv /\ primary \in Node /\ n # primary /\ db[n] \in Tables /\ log \in Seq(Event)
      /\ Len(log) \in Nat /\ base \in Nat
      /\ k \in Nat /\ k + 1 <= Len(log) /\ k >= base
  <2>1. TypeInv /\ n # primary /\ k < Len(log) /\ ~(k < base)
    BY MarkTypes DEF IInv, ApplyRow, NeedsSnapshot
  <2>2. k \in 0..Len(log) /\ base \in Nat /\ Len(log) \in Nat
    BY <2>1, ViewTypes
  <2> QED BY <2>1, <2>2, MarkTypes
<1>2. /\ UNCHANGED <<primary, log, base, accepted, outbox, bootstrapped, snap>> /\ ~Busy(n) /\ bootstrapped[n]
      /\ db'[n] = AfterRow(n, db[n], e) /\ cursor'[n] = k + 1
      /\ \A m \in Node \ {n} : db'[m] = db[m] /\ cursor'[m] = cursor[m]
      /\ strayed' = IF Overwrites(n, e) THEN strayed \union {n} ELSE strayed
  <2>1. DOMAIN cursor = Node
    BY <1>1 DEF TypeInv, TypeOK
  <2> QED BY <1>1, <2>1, Domains DEF ApplyRow, queue, NeedsSnapshot
<1>3. db'[primary] = db[primary]
  BY <1>1, <1>2
<1>4. \A m \in Node : Unsent(m)' = Unsent(m) /\ Unaccepted(m)' = Unaccepted(m)
  BY <1>2, <1>3 DEF Unsent, Unaccepted, Mark
<1>5. GoneIsLast'
  BY <1>1, <1>2, <1>3, GoneKept DEF Views
<1>6. PICK C \in SUBSET Key, D \in UserRow : Core(C, D)
  BY DEF Views
<1>7. HoldsLogged(C)' /\ PrimaryHolds(C, D)'
  BY <1>1, <1>2, <1>3, <1>4, <1>6 DEF Core, HoldsLogged, PrimaryHolds
<1>8. ASSUME NEW m \in Node, m # n PROVE ReplicaSees(m, C, D)'
  BY <1>2, <1>4, <1>6, <1>8 DEF Core, ReplicaSees, Sees
<1>9. ASSUME NEW m \in Node PROVE SnapshotSees(m, C, D)'
  <2>1. Reapplied(m, snap[m].tables)' = Reapplied(m, snap[m].tables)
    BY <1>2 DEF Reapplied, NotIn
  <2> QED BY <1>2, <1>4, <1>6, <2>1 DEF Core, SnapshotSees, Sees, Busy
<1>10. ReplicaSees(n, C, D)'
  <2> SUFFICES ASSUME n \notin strayed' PROVE View(log, n, AfterRow(n, db[n], e), k + 1, Unsent(n), Unaccepted(n), C, D)
    BY <1>2, <1>4 DEF ReplicaSees, Sees
  <2>1. View(log, n, db[n], k, Unsent(n), Unaccepted(n), C, D)
    BY <1>1, <1>2, <1>6 DEF Core, ReplicaSees, Sees
  <2>2. ~(Brings(n, e) /\ Misses(n, db[n].user, e.row))
    BY <1>2 DEF Overwrites, Brings, Misses
  <2>3. k + 1 \in (base + 1)..Len(log)
    BY <1>1
  <2>4. RowEvent(e) /\ e.row = Gone => \A j \in (k + 2)..Len(log) : ~RowEvent(log[j])
    <3>1. k + 1 + 1 = k + 2
      BY <1>1
    <3> QED BY <2>3, <3>1 DEF Views, GoneIsLast
  <2>5. e.type = "relay" /\ e.write.op = "insert" => <<e.by, e.write.id>> \in C
    BY <1>6, <2>3 DEF Core, HoldsLogged
  <2>6. e = log[k + 1]
    OBVIOUS
  <2> HIDE DEF k, e
  <2> QED BY <1>1, <2>1, <2>2, <2>4, <2>5, <2>6, ViewApply
<1>11. Core(C, D)'
  BY <1>7, <1>8, <1>9, <1>10 DEF Core
<1> QED BY <1>5, <1>11 DEF Views

(***************************************************************************)
(* The primary writes a row                                                *)
(***************************************************************************)

(* The row e is written at the end and leaves C2 and D2.                   *)
LEMMA ViewsAppend ==
    ASSUME TypeInv, NEW e \in Event, log' = Append(log, e), NEW C2 \in SUBSET Key, NEW D2 \in UserRow,
           UNCHANGED <<primary, base, cursor, bootstrapped, snap, strayed>>,
           \A m \in Node \ {primary} : db'[m] = db[m],
           \A m \in Node : Busy(m) => outbox'[m] = outbox[m],
           GoneIsLast, PrimaryHolds(C2, D2)', HoldsLogged(C2),
           e.type = "relay" /\ e.write.op = "insert" => <<e.by, e.write.id>> \in C2,
           IF RowEvent(e) THEN db[primary].user # Gone /\ db'[primary].user = e.row
                          ELSE db'[primary].user = db[primary].user,
           \A m \in Node \ {primary} : \A d, k :
              /\ k \in 0..Len(log)
              /\ \/ m \notin strayed /\ bootstrapped[m] /\ d = db[m] /\ k = cursor[m] /\ k >= base
                 \/ Busy(m) /\ d = Reapplied(m, snap[m].tables) /\ k = snap[m].seq /\ k >= base
              => View(log', m, d, k, Unsent(m)', Unaccepted(m)', C2, D2),
           ~Busy(primary)
    PROVE  Views'
<1>1. /\ log \in Seq(Event) /\ Len(log) \in Nat /\ base \in Nat
      /\ \A n \in Node : cursor[n] \in 0..Len(log) /\ (Busy(n) => snap[n].seq \in 0..Len(log))
  BY ViewTypes
<1>2. /\ Len(log') = Len(log) + 1 /\ log'[Len(log) + 1] = e
      /\ \A i \in 1..Len(log) : log'[i] = log[i]
  BY <1>1, Appended
<1>3. \A j \in (base + 1)..Len(log') :
          (j \in (base + 1)..Len(log) /\ j \in 1..Len(log) /\ log'[j] = log[j]) \/ (j = Len(log) + 1 /\ log'[j] = e)
  BY <1>1, <1>2
<1>4. HoldsLogged(C2)'
  BY <1>3 DEF HoldsLogged
<1>5. GoneIsLast'
  <2> SUFFICES ASSUME NEW j \in (base + 1)..Len(log'), RowEvent(log'[j]), log'[j].row = Gone
               PROVE  /\ db'[primary].user = Gone
                      /\ \A i \in (j + 1)..Len(log') : ~RowEvent(log'[i])
    BY DEF GoneIsLast
  <2>1. CASE j = Len(log) + 1
    <3>1. \A i \in (j + 1)..Len(log') : FALSE
      BY <1>1, <1>2, <2>1
    <3> QED BY <1>2, <2>1, <3>1
  <2>2. CASE j \in (base + 1)..Len(log) /\ log'[j] = log[j]
    <3>1. db[primary].user = Gone /\ \A i \in (j + 1)..Len(log) : ~RowEvent(log[i])
      BY <2>2 DEF GoneIsLast
    <3>2. ~RowEvent(e) /\ db'[primary].user = Gone
      BY <3>1
    <3>3. \A i \in (j + 1)..Len(log') : i = Len(log) + 1 \/ (i \in (j + 1)..Len(log) /\ i \in 1..Len(log))
      BY <1>1, <1>2, <2>2
    <3> QED BY <1>2, <3>1, <3>2, <3>3
  <2> QED BY <1>3, <2>1, <2>2
<1>6. ASSUME NEW m \in Node PROVE ReplicaSees(m, C2, D2)'
  BY <1>1 DEF ReplicaSees, Sees
<1>7. ASSUME NEW m \in Node PROVE SnapshotSees(m, C2, D2)'
  <2> SUFFICES ASSUME Busy(m), snap[m].seq >= base
               PROVE  View(log', m, Reapplied(m, snap[m].tables)', snap[m].seq, Unsent(m)', Unaccepted(m)', C2, D2)
    BY DEF SnapshotSees, Sees, Busy
  <2>1. Reapplied(m, snap[m].tables)' = Reapplied(m, snap[m].tables)
    BY DEF Reapplied, NotIn
  <2>2. m # primary /\ snap[m].seq \in 0..Len(log)
    BY <1>1
  <2> QED BY <2>1, <2>2
<1>8. Core(C2, D2)'
  BY <1>4, <1>6, <1>7 DEF Core
<1> QED BY <1>5, <1>8 DEF Views

(* The primary saves the user or deletes it.                               *)
LEMMA AdminViews ==
    ASSUME IInv, QInv, NEW row \in UserRow, AdminWrite(row)
    PROVE  Views'
<1> DEFINE e == [type |-> "user", row |-> row]
<1>1. TypeInv /\ primary \in Node /\ db[primary] \in Tables /\ ~Busy(primary) /\ log \in Seq(Event)
  BY MarkTypes DEF IInv, Marks, Busy
<1>2. /\ UNCHANGED <<primary, base, cursor, bootstrapped, snap, strayed, accepted, outbox>>
      /\ log' = Append(log, e) /\ db' = [db EXCEPT ![primary].user = row]
      /\ ~booting /\ db[primary].user # Gone
  BY DEF AdminWrite, queue, history
<1>3. e \in Event /\ e.type = "user" /\ e.row = row
  BY DEF Event, UserRow
<1> HIDE DEF e
<1>4. /\ db'[primary].sessions = db[primary].sessions /\ db'[primary].user = row
      /\ db'[primary].wm = db[primary].wm /\ \A m \in Node \ {primary} : db'[m] = db[m]
  <2>1. db'[primary] = [db[primary] EXCEPT !.user = row] /\ \A m \in Node \ {primary} : db'[m] = db[m]
    BY <1>1, <1>2, Domains
  <2> QED BY <1>1, <2>1 DEF Tables
<1>5. outbox[primary] = {}
  BY <1>2 DEF QInv, Boot
<1>6. PICK C \in SUBSET Key, D \in UserRow : Core(C, D)
  BY DEF QInv, Views
<1>7. db[primary].sessions = C /\ db[primary].user = D /\ D # Gone
  BY <1>2, <1>5, <1>6, PrimaryHasAll
<1>8. \A m \in Node : Unsent(m)' = Unsent(m) /\ Unaccepted(m)' = Unaccepted(m)
  BY <1>2, <1>4 DEF Unsent, Unaccepted, Mark
<1>9. PrimaryHolds(C, row)'
  BY <1>2, <1>4, <1>7 DEF PrimaryHolds
<1>10. ASSUME NEW m \in Node \ {primary}, NEW d, NEW k \in 0..Len(log),
              \/ m \notin strayed /\ bootstrapped[m] /\ d = db[m] /\ k = cursor[m] /\ k >= base
              \/ Busy(m) /\ d = Reapplied(m, snap[m].tables) /\ k = snap[m].seq /\ k >= base
       PROVE  View(log', m, d, k, Unsent(m)', Unaccepted(m)', C, row)
  <2>1. View(log, m, d, k, Unsent(m), Unaccepted(m), C, D)
    BY <1>6, <1>10 DEF Core, ReplicaSees, SnapshotSees, Sees
  <2>2. Brings(m, e)
    BY <1>3 DEF Brings
  <2>3. View(Append(log, e), m, d, k, Unsent(m), Unaccepted(m), C, e.row)
    BY <1>1, <1>3, <1>7, <2>1, <2>2, ViewBrought
  <2> QED BY <1>2, <1>3, <1>8, <2>3
<1>11. RowEvent(e) /\ GoneIsLast /\ HoldsLogged(C)
  BY <1>3, <1>6 DEF RowEvent, QInv, Views, Core
<1> QED BY <1>1, <1>2, <1>3, <1>4, <1>9, <1>10, <1>11, ViewsAppend

(* A relay w of m becomes the last row, with the user that it leaves.      *)
Records(m, w) ==
    \E e \in Event : /\ log' = Append(log, e) /\ e.type = "relay" /\ e.by = m /\ e.write = w
                     /\ e.row = db'[primary].user

(* The row of an accepted relay has the user it left.                      *)
LEMMA AcceptParts ==
    ASSUME TypeInv, NEW m \in Node, NEW w \in Write, Applicable(db[primary], w), AcceptRelay(primary, m, w)
    PROVE  /\ Records(m, w)
           /\ db'[primary].sessions = db[primary].sessions \union KeysOf(m, {w}, "insert")
           /\ db[primary].user = Gone => db'[primary].user = Gone
           /\ db[primary].user # Gone => db'[primary].user = db[primary].user \union KeysOf(m, {w}, "patch")
           /\ db'[primary].user \in UserRow
<1> DEFINE a == Applied(db[primary], m, w)
           d == [a EXCEPT !.wm[m] = w.id]
           e == [type |-> "relay", by |-> m, write |-> w, row |-> d.user]
<1>1. primary \in Node /\ db[primary] \in Tables
  BY MarkTypes
<1>2. a \in Tables
  BY <1>1, AppliedType
<1>3. /\ a.sessions = db[primary].sessions \union KeysOf(m, {w}, "insert")
      /\ db[primary].user = Gone => a.user = Gone
      /\ db[primary].user # Gone => a.user = db[primary].user \union KeysOf(m, {w}, "patch")
  BY <1>1, AppliedUser
<1>4. db' = [db EXCEPT ![primary] = d] /\ log' = Append(log, e)
  BY DEF AcceptRelay
<1> HIDE DEF a
<1>5. d.sessions = a.sessions /\ d.user = a.user /\ a.user \in UserRow
  BY <1>2 DEF Tables, UserRow
<1> HIDE DEF d
<1>6. db'[primary] = d
  BY <1>1, <1>4, Domains
<1>7. e \in Event /\ e.type = "relay" /\ e.by = m /\ e.write = w /\ e.row = d.user
  BY <1>5 DEF Event, UserRow
<1> HIDE DEF e
<1>8. Records(m, w)
  BY <1>4, <1>6, <1>7 DEF Records
<1> QED BY <1>3, <1>5, <1>6, <1>8

(* A waiting row of m is accepted, from a message or from its own outbox.  *)
LEMMA AcceptViews ==
    ASSUME IInv, Views, NEW m \in Node, NEW w \in outbox[m], w.id > Mark(m), Applicable(db[primary], w),
           AcceptRelay(primary, m, w), UNCHANGED <<primary, base, cursor, bootstrapped, snap, strayed>>,
           m = primary \/ outbox[primary] = {},
           outbox'[m] \in {outbox[m], outbox[m] \ {w}}, Busy(m) => outbox'[m] = outbox[m],
           \A q \in Node \ {m} : outbox'[q] = outbox[q]
    PROVE  Views'
<1>1. /\ TypeInv /\ primary \in Node /\ db[primary] \in Tables /\ ~Busy(primary) /\ log \in Seq(Event)
      /\ w \in Write /\ w.id \in Nat /\ w.op \in RelayOp /\ Numbered(m) /\ GoneIsLast
      /\ accepted[m] \in Seq(Id) /\ w.id \in Id /\ \A q \in Node : Mark(q) \in Nat
      /\ \A v \in outbox[m] : v.id \in Nat
  <2>1. /\ TypeInv /\ primary \in Node /\ db[primary] \in Tables /\ ~Busy(primary) /\ log \in Seq(Event)
        /\ Numbered(m) /\ GoneIsLast
    BY MarkTypes DEF IInv, Marks, Busy, RelayInv, Views
  <2>2. /\ w \in Write /\ w.id \in Nat /\ w.op \in RelayOp /\ accepted[m] \in Seq(Id)
        /\ \A q \in Node : Mark(q) \in Nat
        /\ \A v \in outbox[m] : v.id \in Nat
    BY <2>1, RelayTypes DEF Known
  <2>3. w.id \in Id
    BY <2>2 DEF Write
  <2> QED BY <2>1, <2>2, <2>3
<1>2. PICK e \in Event : /\ log' = Append(log, e) /\ e.type = "relay" /\ e.by = m /\ e.write = w
                        /\ e.row = db'[primary].user
  <2>1. TypeInv /\ w \in Write
    BY <1>1
  <2>2. Records(m, w)
    BY <2>1, AcceptParts
  <2> QED BY <2>2 DEF Records
<1>3. /\ db'[primary].sessions = db[primary].sessions \union KeysOf(m, {w}, "insert")
      /\ db[primary].user = Gone => db'[primary].user = Gone
      /\ db[primary].user # Gone => db'[primary].user = db[primary].user \union KeysOf(m, {w}, "patch")
      /\ db'[primary].user \in UserRow
  BY <1>1, AcceptParts
<1>4. /\ Mark(m)' = w.id /\ \A q \in Node \ {m} : Mark(q)' = Mark(q)
      /\ accepted'[m] = Append(accepted[m], w.id) /\ \A q \in Node \ {m} : accepted'[q] = accepted[q]
  BY <1>1, AcceptStep
<1>5. \A q \in Node \ {primary} : db'[q] = db[q]
  BY <1>1, AcceptSessions
<1>6. PICK C \in SUBSET Key, D \in UserRow : Core(C, D)
  BY DEF Views
<1>7. \A q \in Node : Unsent(q)' \subseteq Unsent(q)
  <2>1. ASSUME NEW q \in Node, q # m PROVE Unsent(q)' \subseteq Unsent(q)
    BY <1>4, <2>1 DEF Unsent
  <2>2. Unsent(m)' \subseteq Unsent(m)
    BY <1>1, <1>4 DEF Unsent
  <2> QED BY <2>1, <2>2
<1>8. /\ \A q \in Node \ {m} : Unaccepted(q)' = Unaccepted(q)
      /\ \A v \in Unaccepted(m) : v \in Unaccepted(m)' \/ v = w
      /\ \A v \in Unaccepted(m)' : v \in Unaccepted(m)
  <2>1. \A q \in Node \ {m} : Unaccepted(q)' = Unaccepted(q)
    BY <1>4 DEF Unaccepted
  <2>2. Range(accepted'[m]) = Range(accepted[m]) \union {w.id}
    BY <1>1, <1>4, Ranges
  <2>3. \A v \in outbox[m] : v.id = w.id => v = w
    BY <1>1 DEF Numbered, Known
  <2>4. \A v \in outbox[m] : v \in outbox'[m] \/ v = w
    OBVIOUS
  <2>5. outbox'[m] \subseteq outbox[m]
    OBVIOUS
  <2> QED BY <2>1, <2>2, <2>3, <2>4, <2>5 DEF Unaccepted
<1>9. w \in Unsent(m)
  BY DEF Unsent
<1>10. \A q \in Node \ {primary} : Busy(q) => outbox'[q] = outbox[q]
  OBVIOUS
<1>11. HoldsLogged(C) /\ PrimaryHolds(C, D)
  BY <1>6 DEF Core
<1> DEFINE Stands(q, d, k) ==
             \/ q \notin strayed /\ bootstrapped[q] /\ d = db[q] /\ k = cursor[q] /\ k >= base
             \/ Busy(q) /\ d = Reapplied(q, snap[q].tables) /\ k = snap[q].seq /\ k >= base
<1>12. ASSUME NEW q \in Node \ {primary}, NEW d, NEW k, Stands(q, d, k)
       PROVE  View(log, q, d, k, Unsent(q), Unaccepted(q), C, D)
  BY <1>6, <1>12 DEF Core, ReplicaSees, SnapshotSees, Sees
<1> HIDE DEF Stands
<1>13. CASE w.op = "insert"
  <2> DEFINE key == <<m, w.id>>
             C2 == C \union {key}
  <2>1. key \in Key /\ KeysOf(m, {w}, "insert") = {key} /\ KeysOf(m, {w}, "patch") = {}
    BY <1>1, <1>13 DEF KeysOf, Key
  <2>2. db'[primary].sessions = db[primary].sessions \union {key} /\ db'[primary].user = db[primary].user
    <3>1. db[primary].user # Gone => db[primary].user \union {} = db[primary].user
      BY <1>1 DEF Tables
    <3> QED BY <1>3, <2>1, <3>1
  <2>3. /\ KeysOf(primary, Unaccepted(primary), "insert") \subseteq
               KeysOf(primary, Unaccepted(primary)', "insert") \union {key}
        /\ KeysOf(primary, Unaccepted(primary), "patch") \subseteq KeysOf(primary, Unaccepted(primary)', "patch")
    <3>1. \A v \in Unaccepted(primary) : v \in Unaccepted(primary)' \/ (v = w /\ m = primary)
      BY <1>1, <1>8
    <3> QED BY <1>13, <3>1 DEF KeysOf
  <2>4. PrimaryHolds(C2, D)'
    BY <1>11, <2>2, <2>3 DEF PrimaryHolds
  <2>5. ASSUME NEW q \in Node \ {primary}, NEW d, NEW k \in 0..Len(log), Stands(q, d, k)
        PROVE  View(log', q, d, k, Unsent(q)', Unaccepted(q)', C2, D)
    <3>1. View(log, q, d, k, Unsent(q), Unaccepted(q), C, D)
      BY <1>12, <2>5
    <3>2. Unsent(q)' \subseteq Unsent(q) /\ (m = q => w \in Unsent(q))
      BY <1>7, <1>9
    <3>3. \A v \in Unaccepted(q) : v \in Unaccepted(q)' \/ (m = q /\ v = w)
      BY <1>8
    <3> DEFINE W == Unsent(q)
               A == Unaccepted(q)
               W2 == Unsent(q)'
               A2 == Unaccepted(q)'
    <3>4. /\ log \in Seq(Event) /\ e.type = "relay" /\ e.write.op = "insert" /\ (e.by = q => e.write \in W)
          /\ \A v \in A : v \in A2 \/ (e.by = q /\ v = e.write)
      BY <1>1, <1>2, <1>13, <3>2, <3>3
    <3>5. View(log, q, d, k, W, A, C, D) /\ W2 \subseteq W
      BY <3>1, <3>2
    <3> HIDE DEF W, A, W2, A2
    <3>6. View(Append(log, e), q, d, k, W2, A2, C \union {<<e.by, e.write.id>>}, D)
      BY <3>4, <3>5, ViewSession
    <3> QED BY <1>2, <3>6 DEF W2, A2
  <2>6. ~RowEvent(e) /\ HoldsLogged(C2) /\ <<e.by, e.write.id>> \in C2 /\ C2 \in SUBSET Key
    BY <1>2, <1>11, <1>13, <2>1 DEF RowEvent, HoldsLogged
  <2> HIDE DEF C2
  <2> QED BY <1>1, <1>2, <1>5, <1>10, <2>2, <2>4, <2>5, <2>6, ViewsAppend DEF Stands
<1>14. CASE w.op = "patch"
  <2> DEFINE key == <<m, w.id>>
  <2>a. PICK D2 \in UserRow : D2 = db'[primary].user
    BY <1>3
  <2>1. KeysOf(m, {w}, "insert") = {} /\ KeysOf(m, {w}, "patch") = {key} /\ key \in Key
    BY <1>1, <1>14 DEF KeysOf, Key
  <2>2. /\ db[primary].user # Gone /\ D # Gone /\ D2 = db[primary].user \union {key} /\ D2 # Gone
        /\ db'[primary].sessions = db[primary].sessions
    <3>1. db[primary].user # Gone /\ db[primary].sessions \union {} = db[primary].sessions
      BY <1>1, <1>14 DEF Applicable, Tables
    <3>2. D # Gone
      BY <1>11, <3>1 DEF PrimaryHolds
    <3>3. D2 = db[primary].user \union {key}
      BY <1>3, <2>1, <2>a, <3>1
    <3>4. D2 # Gone
      <4>1. db[primary].user \in SUBSET Key
        BY <1>1, <3>1 DEF Tables
      <4>2. db[primary].user \union {key} \in SUBSET Key
        BY <2>1, <4>1
      <4> QED BY <3>3, <4>2, GoneIsNoRow
    <3> QED BY <1>3, <2>1, <3>1, <3>2, <3>3, <3>4
  <2>3. PrimaryHolds(C, D2)'
    <3>1. \A v \in Unaccepted(primary) : v \in Unaccepted(primary)' \/ (v = w /\ m = primary)
      BY <1>1, <1>8
    <3>2. KeysOf(primary, Unaccepted(primary), "insert") \subseteq KeysOf(primary, Unaccepted(primary)', "insert")
      BY <1>14, <3>1 DEF KeysOf
    <3> QED BY <1>11, <2>2, <2>a, <3>2 DEF PrimaryHolds
  <2>4. m # primary => D2 = D \union {key}
    BY <1>6, <2>2, PrimaryHasAll
  <2>5. ASSUME NEW q \in Node \ {primary}, NEW d, NEW k \in 0..Len(log), Stands(q, d, k)
        PROVE  View(log', q, d, k, Unsent(q)', Unaccepted(q)', C, D2)
    <3>1. View(log, q, d, k, Unsent(q), Unaccepted(q), C, D) /\ Unsent(q)' \subseteq Unsent(q)
      BY <1>7, <1>12, <2>5
    <3>a. e.row = D2
      BY <1>2, <2>a
    <3>2. CASE q = m
      <4>1. Unaccepted(q) \ {e.write} \subseteq Unaccepted(q)'
        BY <1>2, <1>8, <3>2
      <4>2. e.by = q /\ e.write \in Unsent(q) /\ e.write.op = "patch" /\ e.row = D \union {<<q, e.write.id>>}
        BY <1>2, <1>9, <1>14, <2>4, <3>2, <3>a
      <4>3. log \in Seq(Event) /\ q \in Node /\ e.type = "relay" /\ e.row # Gone /\ D # Gone
        BY <1>1, <1>2, <2>2, <3>a
      <4>4. View(Append(log, e), q, d, k, Unsent(q), Unaccepted(q) \ {e.write}, C, e.row)
        BY <3>1, <4>2, <4>3, ViewOwnPatch
      <4>5. View(Append(log, e), q, d, k, Unsent(q)', Unaccepted(q)', C, e.row)
        BY <3>1, <4>1, <4>4, ViewLess
      <4> QED BY <1>2, <3>a, <4>5
    <3>3. CASE q # m
      <4>1. Brings(q, e) /\ Unaccepted(q) \subseteq Unaccepted(q)'
        BY <1>2, <1>8, <1>14, <3>3 DEF Brings
      <4>2. View(Append(log, e), q, d, k, Unsent(q)', Unaccepted(q)', C, e.row)
        BY <1>1, <2>2, <3>1, <4>1, ViewBrought
      <4> QED BY <1>2, <3>a, <4>2
    <3> QED BY <3>2, <3>3
  <2>6. RowEvent(e) /\ D2 \in UserRow /\ db'[primary].user = e.row
    BY <1>2, <1>14, <2>a DEF RowEvent
  <2>7. ~(e.type = "relay" /\ e.write.op = "insert")
    BY <1>2, <1>14
  <2> QED BY <1>1, <1>2, <1>5, <1>10, <1>11, <2>2, <2>3, <2>5, <2>6, <2>7, ViewsAppend DEF Stands
<1> QED BY <1>1, <1>13, <1>14 DEF RelayOp

(* The primary handles a relay: duplicate, rejected or accepted.           *)
LEMMA HandleViews ==
    ASSUME IInv, QInv, HandleRelay
    PROVE  Views'
<1>1. TypeInv /\ Views
  BY DEF IInv, QInv
<1>2. /\ handling # NoRelay
      /\ UNCHANGED <<primary, base, cursor, bootstrapped, outbox, snap, strayed>>
  BY DEF HandleRelay, queue
<1>3. PICK n \in Node, w \in Write : n = handling.by /\ w = handling.write
  BY <1>1, <1>2 DEF TypeInv, TypeOK
<1>4. outbox[primary] = {}
  BY <1>2 DEF QInv, Boot
<1>5. CASE UNCHANGED <<db, log, accepted>>
  <2>1. \A m \in Node : Unaccepted(m)' = Unaccepted(m)
    BY <1>2, <1>5 DEF Unaccepted
  <2> QED BY <1>1, <1>2, <1>5, <2>1, ViewsKept
<1>6. CASE ~Seen(primary, n, w) /\ Applicable(db[primary], w) /\ AcceptRelay(primary, n, w)
  <2>1. w.id > Mark(n)
    <3>1. w.id \in Nat /\ Mark(n) \in Nat
      BY <1>1, RelayTypes, BoundsAreNat DEF Write, Id
    <3> QED BY <1>6, <3>1 DEF Seen, Mark
  <2>2. w \in outbox[n]
    BY <1>2, <1>3, <1>6, <2>1, HandledIsNext
  <2> QED BY <1>1, <1>2, <1>4, <1>6, <2>1, <2>2, AcceptViews
<1> QED BY <1>3, <1>5, <1>6 DEF HandleRelay

(* Every node strays: the tables of the primary are the ones to have.      *)
LEMMA ViewsAnew ==
    ASSUME NEW C \in SUBSET Key, NEW D \in UserRow, C = db'[primary'].sessions, D = db'[primary'].user,
           GoneIsLast', HoldsLogged(C)', \A m \in Node : m \in strayed' /\ ~Busy(m)'
    PROVE  Views'
<1>1. PrimaryHolds(C, D)'
  BY DEF PrimaryHolds
<1>2. \A m \in Node : ReplicaSees(m, C, D)' /\ SnapshotSees(m, C, D)'
  BY DEF ReplicaSees, SnapshotSees
<1>3. Core(C, D)'
  BY <1>1, <1>2 DEF Core
<1> QED BY <1>3 DEF Views

(* A booting primary adopts a row, or drops one that was passed over.      *)
LEMMA AdoptViews ==
    ASSUME IInv, QInv, AdoptRow
    PROVE  Views'
<1>1. /\ TypeInv /\ Views /\ primary \in Node /\ db[primary] \in Tables
      /\ \A m \in Node : ~Busy(m)
  BY MarkTypes DEF IInv, QInv, Boot, AdoptRow
<1>2. UNCHANGED <<primary, base, cursor, bootstrapped, snap>>
  BY DEF AdoptRow
<1>3. PICK w \in outbox[primary] :
          /\ IF Seen(primary, primary, w) THEN UNCHANGED <<db, log, accepted>>
             ELSE Applicable(db[primary], w) /\ AcceptRelay(primary, primary, w)
          /\ strayed' = IF w.id \in Range(accepted'[primary]) THEN strayed ELSE Node
          /\ outbox' \in {outbox, [outbox EXCEPT ![primary] = @ \ {w}]}
  BY DEF AdoptRow
<1>4. /\ outbox'[primary] \in {outbox[primary], outbox[primary] \ {w}}
      /\ \A m \in Node \ {primary} : outbox'[m] = outbox[m]
  BY <1>1, <1>3, Domains
<1>5. \A m \in Node : ~Busy(m)'
  BY <1>1, <1>2 DEF Busy
<1>6. PICK C \in SUBSET Key, D \in UserRow : Core(C, D)
  BY <1>1 DEF Views
<1>7. CASE UNCHANGED <<db, log, accepted>> /\ w.id \in Range(accepted[primary])
  <2>1. UNCHANGED strayed
    BY <1>3, <1>7
  <2>2. \A m \in Node : Unaccepted(m)' = Unaccepted(m)
    BY <1>4, <1>7 DEF Unaccepted
  <2>3. \A m \in Node : Unsent(m)' \subseteq Unsent(m)
    BY <1>2, <1>4, <1>7 DEF Unsent, Mark
  <2>4. GoneIsLast'
    BY <1>1, <1>2, <1>7, GoneKept DEF Views
  <2>5. HoldsLogged(C)' /\ PrimaryHolds(C, D)'
    BY <1>1, <1>2, <1>6, <1>7, <2>2 DEF Core, HoldsLogged, PrimaryHolds
  <2>6. ASSUME NEW m \in Node PROVE ReplicaSees(m, C, D)'
    <3> SUFFICES ASSUME m # primary, m \notin strayed, bootstrapped[m], cursor[m] >= base
                 PROVE  View(log, m, db[m], cursor[m], Unsent(m)', Unaccepted(m)', C, D)
      BY <1>2, <1>7, <2>1 DEF ReplicaSees, Sees
    <3>1. View(log, m, db[m], cursor[m], Unsent(m), Unaccepted(m), C, D)
      BY <1>6 DEF Core, ReplicaSees, Sees
    <3> QED BY <2>2, <2>3, <3>1, ViewLess
  <2>7. Core(C, D)'
    BY <1>5, <2>5, <2>6 DEF Core, SnapshotSees
  <2> QED BY <2>4, <2>7 DEF Views
<1>8. CASE UNCHANGED <<db, log, accepted>> /\ w.id \notin Range(accepted[primary])
  <2>1. strayed' = Node
    BY <1>3, <1>8
  <2>2. GoneIsLast'
    BY <1>1, <1>2, <1>8, GoneKept DEF Views
  <2>3. PICK C2 \in SUBSET Key, D2 \in UserRow : C2 = db[primary].sessions /\ D2 = db[primary].user
    BY <1>1 DEF Tables, UserRow
  <2>4. HoldsLogged(C2)'
    BY <1>2, <1>6, <1>8, <2>3 DEF Core, HoldsLogged, PrimaryHolds
  <2> QED BY <1>2, <1>5, <1>8, <2>1, <2>2, <2>3, <2>4, ViewsAnew
<1>9. CASE ~Seen(primary, primary, w) /\ Applicable(db[primary], w) /\ AcceptRelay(primary, primary, w)
  <2>1. w \in Write /\ w.id > Mark(primary) /\ accepted[primary] \in Seq(Id) /\ w.id \in Id
    <3>1. w \in Write /\ w.id \in Nat /\ Mark(primary) \in Nat /\ accepted[primary] \in Seq(Id)
      BY <1>1, RelayTypes DEF Known
    <3> QED BY <1>9, <3>1 DEF Seen, Mark, Write
  <2>2. accepted'[primary] = Append(accepted[primary], w.id)
    BY <1>1, <1>2, <1>9, <2>1, AcceptStep
  <2>3. Range(accepted'[primary]) = Range(accepted[primary]) \union {w.id}
    BY <2>1, <2>2, Ranges
  <2>4. UNCHANGED strayed
    BY <1>3, <2>3
  <2> QED BY <1>1, <1>2, <1>4, <1>9, <2>1, <2>4, AcceptViews
<1> QED BY <1>3, <1>7, <1>8, <1>9

(* The new primary has the whole changelog: it holds C and D, unless it    *)
(* has strayed and everybody with it.                                      *)
LEMMA PromoteViews ==
    ASSUME IInv, Views, NEW n \in Node, Promote(n)
    PROVE  Views'
<1>1. /\ TypeInv /\ Marks /\ primary \in Node /\ db[n] \in Tables /\ Len(log) \in Nat /\ log \in Seq(Event)
      /\ base \in Nat /\ base <= Len(log)
  BY MarkTypes, ViewTypes DEF IInv
<1>2. /\ UNCHANGED <<db, log, cursor, accepted>> /\ base' = Len(log) /\ primary' = n /\ n # primary
      /\ bootstrapped[n] /\ cursor[n] = Len(log)
      /\ strayed' = IF n \in strayed THEN Node ELSE strayed
      /\ ~bootstrapped'[primary] /\ \A m \in Node \ {primary} : bootstrapped'[m] = bootstrapped[m]
      /\ outbox'[primary] = {} /\ \A m \in Node \ {primary} : outbox'[m] = outbox[m]
      /\ \A m \in Node : ~Busy(m)'
  BY <1>1, Domains DEF Promote, Busy
<1>3. \A m \in Node : Mark(m)' = Mark(m)
  BY <1>1, MarksPromote
<1>4. GoneIsLast'
  BY <1>1, <1>2, GoneKept DEF Views
<1>5. \A c : HoldsLogged(c)'
  <2>1. \A j \in (Len(log) + 1)..Len(log) : FALSE
    BY <1>1
  <2> QED BY <1>2, <2>1 DEF HoldsLogged
<1>6. CASE n \in strayed
  <2>1. PICK C2 \in SUBSET Key, D2 \in UserRow : C2 = db[n].sessions /\ D2 = db[n].user
    BY <1>1 DEF Tables, UserRow
  <2>2. HoldsLogged(C2)'
    BY <1>5
  <2> QED BY <1>2, <1>4, <1>6, <2>1, <2>2, ViewsAnew
<1>7. CASE n \notin strayed
  <2>1. PICK C \in SUBSET Key, D \in UserRow : Core(C, D)
    BY DEF Views
  <2>2. /\ \A m \in Node \ {primary} : Unaccepted(m)' = Unaccepted(m)
        /\ \A m \in Node \ {primary} : Unsent(m)' = Unsent(m)
    BY <1>2, <1>3 DEF Unaccepted, Unsent
  <2>3. View(log, n, db[n], Len(log), Unsent(n), Unaccepted(n), C, D)
    BY <1>1, <1>2, <1>7, <2>1 DEF Core, ReplicaSees, Sees
  <2>4. PrimaryHolds(C, D)'
    <3>1. Len(log) \in Nat /\ \A j \in (Len(log) + 1)..Len(log) : FALSE
      BY <1>1
    <3>2. Ahead(log, n, Len(log)) = {}
      BY <3>1 DEF Ahead
    <3>3. C \subseteq db[n].sessions /\ db[n].sessions \subseteq C \union KeysOf(n, Unaccepted(n), "insert")
      BY <2>3, <3>1 DEF View, SessionView
    <3>4. UserHere(log, n, db[n].user, Len(log), Unsent(n), Unaccepted(n), D)
      BY <2>3, <3>2 DEF View, UserView, UserAhead, LastIs, Doomed
    <3>5. Unaccepted(n)' = Unaccepted(n)
      BY <1>2, <2>2
    <3> QED BY <1>2, <3>3, <3>4, <3>5 DEF PrimaryHolds, UserHere
  <2>5. ASSUME NEW m \in Node PROVE ReplicaSees(m, C, D)'
    <3> SUFFICES ASSUME m # primary, m # n, m \notin strayed, bootstrapped[m], cursor[m] >= Len(log)
                 PROVE  View(log, m, db[m], cursor[m], Unsent(m)', Unaccepted(m)', C, D)
      BY <1>2, <1>7 DEF ReplicaSees, Sees
    <3>1. cursor[m] >= base
      BY <1>1, ViewTypes
    <3>2. View(log, m, db[m], cursor[m], Unsent(m), Unaccepted(m), C, D)
      BY <2>1, <3>1 DEF Core, ReplicaSees, Sees
    <3> QED BY <2>2, <3>2
  <2>6. HoldsLogged(C)'
    BY <1>5
  <2>7. Core(C, D)'
    BY <1>2, <2>4, <2>5, <2>6 DEF Core, SnapshotSees
  <2> QED BY <1>4, <2>7 DEF Views
<1> QED BY <1>6, <1>7

(***************************************************************************)
(* The theorem                                                             *)
(***************************************************************************)

(* The initial state.                                                      *)
LEMMA QInit == ASSUME Init PROVE QInv
<1>1. /\ db = [n \in Node |-> [sessions |-> {}, user |-> {}, wm |-> [m \in Node |-> 0]]]
      /\ log = <<>> /\ base = 0 /\ snap = [n \in Node |-> NoSnapshot] /\ cursor = [n \in Node |-> 0]
      /\ outbox = [n \in Node |-> {}] /\ primary \in Node
      /\ ~booting /\ conn = [n \in Node |-> "down"]
  BY MembersFinite DEF Init
<1>2. Boot
  BY <1>1 DEF Boot
<1>3. Len(log) = 0 /\ log \in Seq(Event) /\ \A j \in (base + 1)..Len(log) : FALSE
  BY <1>1
<1>4. GoneIsLast /\ HoldsLogged({})
  BY <1>3 DEF GoneIsLast, HoldsLogged
<1>5. ASSUME NEW n \in Node
      PROVE  /\ db[n].sessions = {} /\ db[n].user = {} /\ ~Busy(n) /\ cursor[n] = 0
             /\ Unsent(n) = {} /\ Unaccepted(n) = {}
  BY <1>1 DEF Busy, Unsent, Unaccepted
<1>6. {} \in SUBSET Key /\ {} \in UserRow /\ {} # Gone
  BY GoneIsNoRow DEF UserRow
<1>7. PrimaryHolds({}, {})
  BY <1>1, <1>5, <1>6 DEF PrimaryHolds
<1>8. ASSUME NEW n \in Node PROVE ReplicaSees(n, {}, {}) /\ SnapshotSees(n, {}, {})
  <2>1. View(log, n, db[n], Len(log), {}, {}, db[n].sessions, db[n].user)
    BY <1>3, ViewWhole
  <2>2. View(log, n, db[n], cursor[n], Unsent(n), Unaccepted(n), {}, {})
    BY <1>3, <1>5, <2>1
  <2> QED BY <1>5, <2>2 DEF ReplicaSees, SnapshotSees, Sees
<1>9. Core({}, {})
  BY <1>4, <1>7, <1>8 DEF Core
<1> QED BY <1>2, <1>4, <1>6, <1>9 DEF QInv, Views

(* Every step keeps the invariant.                                         *)
LEMMA QNext == ASSUME IInv, QInv, [Next]_vars PROVE QInv'
<1>1. TypeInv /\ Boot /\ Views
  BY DEF IInv, QInv
<1>2. Boot'
  BY <1>1, BootNext
<1> DEFINE Goal == Views'
<1> HIDE DEF Goal
<1>3. ASSUME NEW n \in Node, ReplicaStep(n) PROVE Goal
  <2>1. ASSUME \/ Connect(n) \/ BecomeConnected(n) \/ AckTimeout(n) \/ DrainRead(n) \/ DrainSend(n)
               \/ DrainDropped(n)
        PROVE  Goal
    BY <1>1, <2>1, ReplicaQuietViews DEF Goal
  <2>2. ASSUME HandleAck(n) \/ HandleReject(n) PROVE Goal
    BY <1>1, <2>2, AnswerViews DEF Goal
  <2>3. ASSUME FetchSnapshot(n) PROVE Goal
    BY <2>3, FetchViews DEF Goal
  <2>4. ASSUME ReconcileSnapshot(n) PROVE Goal
    BY <1>1, <2>4, ReconcileViews DEF Goal
  <2>5. ASSUME ApplyRow(n) PROVE Goal
    BY <1>1, <2>5, ApplyViews DEF Goal
  <2> QED BY <1>3, <2>1, <2>2, <2>3, <2>4, <2>5 DEF ReplicaStep
<1>4. ASSUME NEW n \in Node, NEW op \in RelayOp, WriteSerially(n, op) \/ BeginWrite(n, op) PROVE Goal
  BY <1>1, <1>4, WriteViews, ReplicaQuietViews DEF Goal
<1>5. ASSUME NEW n \in Node, CommitWrite(n) PROVE Goal
  BY <1>1, <1>5, WriteViews DEF Goal
<1>6. ASSUME NEW n \in Node, RollbackWrite(n) \/ TakeRelay(n) PROVE Goal
  BY <1>1, <1>6, ReplicaQuietViews DEF Goal
<1>7. ASSUME NEW n \in Node, Disconnect(n) \/ RestartReplica(n) PROVE Goal
  BY <1>1, <1>7, DisconnectViews DEF Goal
<1>8. ASSUME NEW n \in Node, Promote(n) PROVE Goal
  BY <1>1, <1>8, PromoteViews DEF Goal
<1>9. ASSUME AdminWrite(Gone) \/ AdminWrite(db[primary].user) PROVE Goal
  <2>1. db[primary] \in Tables
    BY MarkTypes DEF IInv
  <2>2. db[primary].user \in UserRow /\ Gone \in UserRow
    BY <2>1 DEF Tables, UserRow
  <2> QED BY <1>9, <2>2, AdminViews DEF Goal
<1>10. ASSUME RelayPostponed \/ Prune \/ FinishBoot \/ UNCHANGED vars PROVE Goal
  BY <1>1, <1>10, PrimaryQuietViews DEF Goal
<1>11. ASSUME HandleRelay \/ AdoptRow PROVE Goal
  BY <1>11, HandleViews, AdoptViews DEF Goal
<1>12. Goal
  BY <1>3, <1>4, <1>5, <1>6, <1>7, <1>8, <1>9, <1>10, <1>11 DEF Next
<1> QED BY <1>2, <1>12 DEF QInv, Goal

(* Tables with the same sessions, the same user row and the same           *)
(* watermarks are the same.                                                *)
LEMMA SameTables ==
    ASSUME NEW s \in Tables, NEW t \in Tables,
           s.sessions = t.sessions, s.user = t.user, s.wm = t.wm
    PROVE  s = t
<1>1. s = [sessions |-> s.sessions, user |-> s.user, wm |-> s.wm]
  BY DEF Tables
<1>2. t = [sessions |-> t.sessions, user |-> t.user, wm |-> t.wm]
  BY DEF Tables
<1>3. [sessions |-> s.sessions, user |-> s.user, wm |-> s.wm]
        = [sessions |-> t.sessions, user |-> t.user, wm |-> t.wm]
  OBVIOUS
<1> QED BY <1>1, <1>2, <1>3, Zenon

(* A replica with nothing under way has the tables of the primary.         *)
LEMMA QuietAgrees == ASSUME IInv, QInv PROVE QuietReplicasAgree
<1> SUFFICES ASSUME NEW n \in Node, Quiet(n), n \notin strayed PROVE db[n] = db[primary]
  BY DEF QuietReplicasAgree
<1>1. /\ TypeInv /\ Marks /\ primary \in Node /\ db[n] \in Tables /\ db[primary] \in Tables
      /\ log \in Seq(Event) /\ Len(log) \in Nat /\ base \in Nat /\ base <= Len(log)
  BY MarkTypes, ViewTypes DEF IInv
<1>2. n # primary /\ conn[n] = "connected" /\ cursor[n] = Len(log) /\ outbox[n] = {}
  BY DEF Quiet
<1>3. bootstrapped[n] /\ outbox[primary] = {}
  BY <1>2 DEF QInv, Boot
<1>4. PICK C \in SUBSET Key, D \in UserRow : Core(C, D)
  BY DEF QInv, Views
<1>5. db[primary].sessions = C /\ db[primary].user = D
  BY <1>3, <1>4, PrimaryHasAll
<1>6. View(log, n, db[n], Len(log), Unsent(n), Unaccepted(n), C, D)
  BY <1>1, <1>2, <1>3, <1>4 DEF Core, ReplicaSees, Sees
<1>7. \A op : KeysOf(n, Unaccepted(n), op) = {}
  BY <1>2 DEF KeysOf, Unaccepted
<1>8. db[n].sessions = C /\ db[n].user = D
  <2>1. \A j \in (Len(log) + 1)..Len(log) : FALSE
    BY <1>1
  <2>2. Ahead(log, n, Len(log)) = {}
    BY <2>1 DEF Ahead
  <2>3. db[n].sessions = C
    BY <1>6, <1>7, <2>1 DEF View, SessionView
  <2>4. UserHere(log, n, db[n].user, Len(log), Unsent(n), Unaccepted(n), D)
    BY <1>6, <2>2 DEF View, UserView, UserAhead, LastIs, Doomed
  <2> QED BY <1>7, <2>3, <2>4 DEF UserHere
<1>9. db[n].wm = db[primary].wm
  <2>1. ASSUME NEW m \in Node PROVE db[n].wm[m] = db[primary].wm[m]
    <3>1. MarkAt(log, db[n].wm[m], m, Len(log)) /\ MarkAt(log, db[primary].wm[m], m, Len(log))
      BY <1>1, <1>2, <1>3 DEF Marks, Replicas
    <3>2. db[n].wm[m] \in Nat /\ db[primary].wm[m] \in Nat /\ Len(log) \in 0..Len(log)
      BY <1>1, MarkTypes
    <3> QED BY <1>1, <3>1, <3>2, MarkUnique
  <2> QED BY <1>1, <2>1 DEF Tables
<1> QED BY <1>1, <1>5, <1>8, <1>9, SameTables

(* A replica with nothing under way has the tables of its primary, unless  *)
(* a row of the user came back without a patch it had made or a relay of   *)
(* its own was passed over (applyChangelogRow, reapplyPendingSessionRelays,*)
(* adoptPendingSessionRelaysAsPrimary).                                    *)
THEOREM QuietAgreement == Spec => []QuietReplicasAgree
<1>1. Init => QInv
  BY QInit
<1>2. IInv /\ QInv /\ [Next]_vars => QInv'
  BY QNext
<1>3. IInv /\ QInv => QuietReplicasAgree
  BY QuietAgrees
<1> QED BY <1>1, <1>2, <1>3, Invariance, PTL DEF Spec
=============================================================================
