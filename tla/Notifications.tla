--------------------------- MODULE Notifications ---------------------------
(***************************************************************************)
(* The notification outbox of one destination: events become rows, a       *)
(* poller sends the oldest pending row and retries it with a backoff until *)
(* it is delivered or has failed for good                                  *)
(* (src/src/services/notification-service.ts).                             *)
(*                                                                         *)
(* A row leaves the model when it is settled.  created_at is taken to      *)
(* order the rows, a backoff takes any time, and a round of the poller is  *)
(* one delivery, since nothing else changes a row and workerRunning keeps  *)
(* a second round out.                                                     *)
(***************************************************************************)
EXTENDS Integers, Sequences

CONSTANTS
    PoolAlert,      \* the events that say whether the destination's pool is up
    OtherAlert,     \* any other event
    Silence,        \* no event
    Subscribed,     \* the events the destination wants
    Enabled,        \* what the destination's setting may be at the start
    MaxAttempts,    \* MAX_ALERT_ATTEMPTS
    MaxToggles      \* bound: changes of the destination's settings

ASSUME AttemptsPositive == MaxAttempts \in Nat \ {0} /\ MaxToggles \in Nat
ASSUME EnabledBoolean == Enabled \subseteq BOOLEAN

VARIABLES
    alerting,       \* the stored setting: the destination is enabled and has a URL
    outbox,         \* pending rows of notification_outbox, in their order
    heard,          \* the last pool alert the receiver got
    lost,           \* history: an alert was dropped or given up
    toggles

notification == <<alerting, outbox, heard, lost, toggles>>

Alert == PoolAlert \union OtherAlert

Row == [alert : Subscribed, attempts : 0..(MaxAttempts - 1)]

NotificationTypeOK ==
    /\ alerting \in BOOLEAN /\ lost \in BOOLEAN /\ toggles \in 0..MaxToggles
    /\ outbox \in Seq(Row)
    /\ heard \in PoolAlert \union {Silence}

NotificationInit ==
    /\ alerting \in Enabled /\ outbox = <<>>
    /\ heard = Silence /\ lost = FALSE /\ toggles = MaxToggles

(* recordSiteEvent, queueSiteDelivery, insertOutbox; Silence is no event.  *)
(* Whether the destination is enabled is what the caller's copy of the     *)
(* site says, not the stored setting.                                      *)
Recorded(a, enabled) ==
    /\ outbox' = IF a \in Subscribed /\ enabled THEN Append(outbox, [alert |-> a, attempts |-> 0]) ELSE outbox
    /\ lost' = (lost \/ (a \in Subscribed /\ ~enabled))

(* The insertion of the event or of its outbox row fails.                  *)
NotRecorded(a) ==
    /\ UNCHANGED outbox
    /\ lost' = (lost \/ a \in Subscribed)

(* updateSiteNotificationPolicy, or the same columns in updateSite         *)
Toggle ==
    /\ toggles > 0 /\ toggles' = toggles - 1
    /\ alerting' = ~alerting
    /\ UNCHANGED <<outbox, heard, lost>>

(* Faulty variant: any pending row, a newer one too.                       *)
AnyPending(i) == i \in DOMAIN outbox

(* pendingNotificationOutbox: the oldest pending row of the destination    *)
Pending(i) == i = 1 /\ outbox # <<>>

Received(a) == heard' = IF a \in PoolAlert THEN a ELSE heard

Settled(i) == outbox' = SubSeq(outbox, 1, i - 1) \o SubSeq(outbox, i + 1, Len(outbox))

(* Faulty variant: at the limit the count starts again.                    *)
RetriedForever(i) ==
    /\ outbox' = [outbox EXCEPT ![i].attempts = IF @ + 1 >= MaxAttempts THEN 0 ELSE @ + 1]
    /\ UNCHANGED lost

(* The catch branch of deliverOne: terminal, or pending with a delay       *)
Retried(i) ==
    IF outbox[i].attempts + 1 >= MaxAttempts
    THEN Settled(i) /\ lost' = TRUE
    ELSE outbox' = [outbox EXCEPT ![i].attempts = @ + 1] /\ UNCHANGED lost

(* deliverPending and deliverOne.  resolveTarget reads the settings again. *)
DeliverOne ==
    /\ \E i \in DOMAIN outbox :
          /\ Pending(i)
          /\ \/ ~alerting /\ Settled(i) /\ lost' = TRUE /\ UNCHANGED heard
             \/ alerting /\ Received(outbox[i].alert) /\ Settled(i) /\ UNCHANGED lost
             \/ alerting /\ Retried(i) /\ UNCHANGED heard
    /\ UNCHANGED <<alerting, toggles>>

(* The webhook took the alert and the update of the row failed: once, so   *)
(* that the catch branch counts it as a failure, or twice.                 *)
DeliverAgain ==
    /\ alerting
    /\ \E i \in DOMAIN outbox :
          Pending(i) /\ Received(outbox[i].alert) /\ (Retried(i) \/ UNCHANGED <<outbox, lost>>)
    /\ UNCHANGED <<alerting, toggles>>
=============================================================================
