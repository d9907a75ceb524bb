--------------------------- MODULE CrowdSecStore ----------------------------
(***************************************************************************)
(* What CrowdSecDecisionStore keeps for one address, range, country or AS: *)
(* the decision in force and those parked behind it                        *)
(* (src/src/services/crowdsec-decision-store.ts).                          *)
(*                                                                         *)
(* The maps of the code are keyed by such a value and independent of each  *)
(* other, so one value is modelled.  A decision is known by its id, and    *)
(* its remediation and its deadline come with it.                          *)
(***************************************************************************)
EXTENDS Integers, SequencesExt

CONSTANTS
    Decision,           \* decisions on the value, by id
    Ban,                \* those of them with remediation "ban"; the others are "captcha"
    Expiry,             \* their deadlines
    Never,              \* the deadline of a decision without a usable duration
    NoDecision

ASSUME ExpiryType == Expiry \in [Decision -> Nat \union {Never}] /\ Never \notin Nat
ASSUME BansAreDecisions == Ban \subseteq Decision /\ NoDecision \notin Decision

Empty == [top |-> NoDecision, parked |-> <<>>]

Store == [top : Decision \union {NoDecision}, parked : Seq(Decision)]

InForce(d, now) == IF Expiry[d] = Never THEN TRUE ELSE Expiry[d] > now

Later(c, i) == IF Expiry[c] = Never THEN TRUE ELSE IF Expiry[i] = Never THEN FALSE ELSE Expiry[c] > Expiry[i]

(* A ban outranks a captcha, then the later deadline wins.                 *)
Outranks(c, i) == IF (c \in Ban) # (i \in Ban) THEN c \in Ban ELSE Later(c, i)

(* parked.filter: a fold, which can be reasoned about, unlike SelectSeq    *)
Without(parked, d) == FoldLeft(LAMBDA kept, e : IF e = d THEN kept ELSE Append(kept, e), <<>>, parked)

(* Faulty variant: what comes last is in force.                            *)
InsertedLast(st, d) ==
    IF st.top \in {NoDecision, d} THEN [st EXCEPT !.top = d]
    ELSE [top |-> d, parked |-> Append(Without(st.parked, d), st.top)]

(* insert                                                                  *)
Inserted(st, d) ==
    IF st.top \in {NoDecision, d} THEN [st EXCEPT !.top = d]
    ELSE LET rest == Without(st.parked, d)
         IN  IF Outranks(d, st.top) THEN [top |-> d, parked |-> Append(rest, st.top)]
             ELSE [st EXCEPT !.parked = Append(rest, d)]

Best(parked) == FoldLeft(LAMBDA best, c : IF Outranks(c, best) THEN c ELSE best, Head(parked), parked)

(* remove: the strongest parked decision takes the place.                  *)
Removed(st, d) ==
    IF st.top # d THEN [st EXCEPT !.parked = Without(@, d)]
    ELSE IF st.parked = <<>> THEN Empty
    ELSE [top |-> Best(st.parked), parked |-> Without(st.parked, Best(st.parked))]

Held(st) == ({st.top} \ {NoDecision}) \union ToSet(st.parked)

(* export                                                                  *)
Exported(st) == (IF st.top = NoDecision THEN <<>> ELSE <<st.top>>) \o st.parked

(* materialize drops what has lapsed, insert takes the rest in order.      *)
Built(st, list, now) == FoldLeft(LAMBDA s, d : IF InForce(d, now) THEN Inserted(s, d) ELSE s, st, list)

(* applySnapshot: into new maps, which are swapped in afterwards           *)
Snapshot(list, now) == Built(Empty, list, now)

(* applyDelta: removals first                                              *)
Dropped(st, deleted) == FoldLeft(Removed, st, deleted)
Delta(st, added, deleted, now) == Built(Dropped(st, deleted), added, now)

(* sweepExpired: what has lapsed by now of all that is held                *)
Swept(st, now) == FoldLeft(LAMBDA s, d : IF InForce(d, now) THEN s ELSE Removed(s, d), st, Exported(st))

(* live: a lapsed decision is evicted, the next one promoted.              *)
Evicted(st, now) == IF st.top = NoDecision THEN st ELSE IF InForce(st.top, now) THEN st ELSE Removed(st, st.top)

(* lookup                                                                  *)
Found(st, now) ==
    LET top == Evicted(st, now).top
    IN  IF top = NoDecision THEN NoDecision ELSE IF InForce(top, now) THEN top ELSE NoDecision
=============================================================================
