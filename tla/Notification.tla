----------------------------- MODULE Notification -----------------------------
(***************************************************************************)
(* notification-service: one consumer with prefetch(1) that turns lifecycle*)
(* messages into rows of deletion_notifications, one row per request.  A   *)
(* message leaves the queue when it is acknowledged, so one that was stored*)
(* and not acknowledged is stored again after a restart.                   *)
(***************************************************************************)
EXTENDS Naturals, Sequences, DeletionTypes

CONSTANTS
  Requests,     \* deletion requests
  Faults        \* "crash": the service may die; "throw": Postgres refuses

VARIABLES
  lifecycle,    \* the queue erasegraph.deletion-notifications
  notified,     \* deletion_notifications.notification_type
  npc           \* the consumer's position

NotificationTypeOK ==
  /\ notified \in [Requests -> {NoRow, "DELETION_COMPLETE", "DELETION_FAILED"}]
  /\ npc \in {"idle", "stored"}

NotificationInit ==
  /\ notified = [q \in Requests |-> NoRow]
  /\ npc = "idle"

\* Mutant: every lifecycle message is stored as a completion.
StoreNotification_OneType ==
  /\ npc = "idle"
  /\ lifecycle # <<>>
  /\ notified' = [notified EXCEPT ![Head(lifecycle).req] = "DELETION_COMPLETE"]
  /\ npc' = "stored"
  /\ UNCHANGED lifecycle

\* INSERT ... ON CONFLICT (request_id) DO UPDATE.  DeletionCompleted carries
\* COMPLETED and PARTIAL_COMPLETED alike.
StoreNotification ==
  /\ npc = "idle"
  /\ lifecycle # <<>>
  /\ LET m == Head(lifecycle)
     IN notified' = [notified EXCEPT ![m.req] =
          IF m.status = "FAILED" THEN "DELETION_FAILED" ELSE "DELETION_COMPLETE"]
  /\ npc' = "stored"
  /\ UNCHANGED lifecycle

AckLifecycle ==
  /\ npc = "stored"
  /\ lifecycle' = Tail(lifecycle)
  /\ npc' = "idle"
  /\ UNCHANGED notified

\* The query rejects: nack without requeue.
NotificationThrows ==
  /\ "throw" \in Faults
  /\ npc = "idle"
  /\ lifecycle # <<>>
  /\ lifecycle' = Tail(lifecycle)
  /\ UNCHANGED <<notified, npc>>

CrashNotification ==
  /\ "crash" \in Faults
  /\ npc = "stored"
  /\ npc' = "idle"
  /\ UNCHANGED <<lifecycle, notified>>

NotificationRun == StoreNotification \/ AckLifecycle

NotificationStep == NotificationRun \/ NotificationThrows \/ CrashNotification
=============================================================================
