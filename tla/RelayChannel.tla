---------------------------- MODULE RelayChannel ----------------------------
(***************************************************************************)
(* What the session relay promises (docs/HIGH_AVAILABILITY.md, "sends one  *)
(* queued event at a time in increasing outbox-id order"): the cluster     *)
(* accepts the writes of each node in the order of their ids, none of them *)
(* twice.  A node in Ordered commits its writes in the order of their ids: *)
(* of these each write is accepted or refused, when its turn has come.     *)
(* On the other nodes a write may be committed after one with a larger id  *)
(* was accepted, and is then discarded.  The leader has no writes of this  *)
(* kind but those it made before it became the leader; what it has not     *)
(* accepted of these is lost when somebody else takes over.  HaRelay       *)
(* implements this.                                                        *)
(***************************************************************************)
EXTENDS Naturals, Sequences

CONSTANTS Node, Ordered, Id

VARIABLES
    leader,    \* the node that decides
    open,      \* ids of committed writes the cluster has not decided on, by node
    accepted   \* ids of the writes the cluster has accepted, in that order, by node

vars == <<leader, open, accepted>>

Init ==
    /\ leader \in Node
    /\ open = [n \in Node |-> {}]
    /\ accepted = [n \in Node |-> <<>>]

Last(n) == IF accepted[n] = <<>> THEN 0 ELSE accepted[n][Len(accepted[n])]

Submit(n) ==
    \E i \in Id \ open[n] :
        /\ n # leader
        /\ n \in Ordered => i > Last(n) /\ \A j \in open[n] : i > j
        /\ \A k \in DOMAIN accepted[n] : accepted[n][k] # i
        /\ open' = [open EXCEPT ![n] = @ \union {i}]
        /\ UNCHANGED <<leader, accepted>>

(* It is the turn of write i.                                              *)
IsNext(n, i) ==
    /\ i \in open[n] /\ i > Last(n)
    /\ n \in Ordered => \A j \in open[n] : i <= j

Accept(n) ==
    \E i \in Id :
        /\ IsNext(n, i)
        /\ open' = [open EXCEPT ![n] = @ \ {i}]
        /\ accepted' = [accepted EXCEPT ![n] = Append(@, i)]
        /\ UNCHANGED leader

Refuse(n) ==
    \E i \in Id :
        /\ n # leader /\ IsNext(n, i)
        /\ open' = [open EXCEPT ![n] = @ \ {i}]
        /\ UNCHANGED <<leader, accepted>>

Discard(n) ==
    \E i \in open[n] :
        /\ n \notin Ordered /\ i < Last(n)
        /\ open' = [open EXCEPT ![n] = @ \ {i}]
        /\ UNCHANGED <<leader, accepted>>

TakeOver(n) ==
    /\ n # leader
    /\ leader' = n
    /\ open' = [open EXCEPT ![leader] = {}]
    /\ UNCHANGED accepted

Next == \E n \in Node : Submit(n) \/ Accept(n) \/ Refuse(n) \/ Discard(n) \/ TakeOver(n)

Spec == Init /\ [][Next]_vars
=============================================================================
