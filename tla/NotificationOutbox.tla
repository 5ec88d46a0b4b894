--------------------------- MODULE NotificationOutbox ---------------------------
(***************************************************************************)
(* The outbox of order mail: OrderNotificationLog rows, the callbacks and  *)
(* managers that put them into the queue and the Celery tasks that deliver *)
(* them.  Only claim_for_sending locks the row; everyone else reads it,    *)
(* works on that copy and saves the status column later, one autocommitted *)
(* statement at a time.                                                    *)
(*                                                                         *)
(* A notice is one idempotency key: order, event and recipient type.  A    *)
(* job is one attempt to get it delivered: first the web process that      *)
(* records and publishes it, then the task it has published, which retries *)
(* under the same id.  The mail server and the broker are external.        *)
(***************************************************************************)
EXTENDS Naturals, FiniteSets

CONSTANTS
    Notices,      \* idempotency keys
    Addressed,    \* the notices that have a recipient
    Jobs,         \* enqueued deliveries considered
    MaxRetries,   \* EMAIL_TASK_MAX_RETRIES
    MaxLost,      \* bound: accepted mails taken for failures, per notice
    MaxCrashes    \* bound: processes that die, per notice

ASSUME OutboxAssumption ==
    /\ Addressed \subseteq Notices
    /\ IsFiniteSet(Jobs)
    /\ MaxRetries \in Nat /\ MaxLost \in Nat /\ MaxCrashes \in Nat

CONSTANT None
ASSUME NoneAssumption == None \notin Notices

VARIABLES
    forStaff,    \* the notices of a new order to the staff; never changes
    row,         \* row[n]: OrderNotificationLog.status, "none" before it exists
    job,         \* job[j]: how far the delivery j has come
    mail,        \* mail[n]: how often the mail server has accepted n
    lost,        \* lost[n]: how often it did, but the task took it for a failure
    overwritten, \* overwritten[n]: stale copies saved over a claimed or sent row
    died         \* died[n]: how many processes died while they handled n

vars == <<forStaff, row, job, mail, lost, overwritten, died>>

-----------------------------------------------------------------------------
Status == {"none", "pending", "sending", "sent", "failed"}
Steps == {"idle", "record", "mark", "publish", "queued", "claim",
          "claimed", "accepted", "transient", "permanent", "done"}

Job == [step : Steps, notice : Notices \cup {None}, copy : Status,
        retries : 0..MaxRetries]
NoJob == [step |-> "idle", notice |-> None, copy |-> "none", retries |-> 0]

(* From the claim until the task writes down what came of it.              *)
Sending == {"claimed", "accepted", "transient", "permanent"}

Goto(j, step) == job' = [job EXCEPT ![j].step = step]

(* save() of a copy that was read earlier.                                 *)
Save(n, status) ==
    /\ row' = [row EXCEPT ![n] = status]
    /\ overwritten' = [overwritten EXCEPT ![n] =
                         IF row[n] \in {"sending", "sent"} THEN @ + 1 ELSE @]

-----------------------------------------------------------------------------
(* The web process.                                                        *)

(* An order was placed, cancelled, made ready or paid, and that is         *)
(* committed: the on_commit callback is due.  Most events can happen more  *)
(* than once.  A manager's resend starts here too if the order has no row. *)
Schedule(j, n) ==
    /\ job[j].step = "idle"
    /\ job' = [job EXCEPT ![j].step = "record", ![j].notice = n]
    /\ UNCHANGED <<forStaff, row, mail, lost, overwritten, died>>

(* get_or_create_outbox rests on the unique idempotency key: of two         *)
(* processes that find no row, one inserts it and the other reads it.      *)
GetOrCreate(n) == IF row[n] = "none" THEN "pending" ELSE row[n]

(* What comes of the row: sent before, nobody to write to, or to be queued.*)
Enqueue(j) ==
    LET n == job[j].notice
        found == GetOrCreate(n) IN
    /\ job[j].step = "record"
    /\ row' = [row EXCEPT ![n] = IF n \in Addressed \/ found = "sent" THEN found
                                                                     ELSE "failed"]
    /\ job' = [job EXCEPT ![j].copy = found,
                          ![j].step = IF n \in Addressed /\ found # "sent"
                                      THEN "mark" ELSE "done"]
    /\ UNCHANGED <<forStaff, mail, lost, overwritten, died>>

(* enqueue, for the address of the order, and enqueue_staff_created, for   *)
(* the recipients that the settings name.                                  *)
Record(j) == job[j].notice \notin forStaff /\ Enqueue(j)
RecordStaff(j) == job[j].notice \in forStaff /\ Enqueue(j)

(* enqueue_manual_resend: a failed notice of the order (the code takes the *)
(* latest).  The others are refused: sent, queued or being sent.  Nobody   *)
(* resends a notice for the staff.                                         *)
Resend(j, n) ==
    /\ job[j].step = "idle"
    /\ n \notin forStaff /\ row[n] = "failed"
    /\ job' = [job EXCEPT ![j].step = "mark", ![j].notice = n, ![j].copy = "failed"]
    /\ UNCHANGED <<forStaff, row, mail, lost, overwritten, died>>

(* _enqueue_log: mark_pending, unless the copy says somebody is sending.   *)
MarkPending(j) ==
    /\ job[j].step = "mark"
    /\ \/ job[j].copy = "sending" /\ UNCHANGED <<row, overwritten>>
       \/ job[j].copy # "sending" /\ Save(job[j].notice, "pending")
    /\ Goto(j, "publish")
    /\ UNCHANGED <<forStaff, mail, lost, died>>

(* task.delay, which may fail.                                             *)
Publish(j) ==
    /\ job[j].step = "publish"
    /\ \/ Goto(j, "queued") /\ UNCHANGED <<row, overwritten>>
       \/ Goto(j, "done") /\ Save(job[j].notice, "failed")
    /\ UNCHANGED <<forStaff, mail, lost, died>>

-----------------------------------------------------------------------------
(* The task.                                                               *)

(* It loads the row.                                                       *)
Load(j) ==
    LET n == job[j].notice IN
    /\ job[j].step = "queued"
    /\ \/ row[n] = "sent" /\ Goto(j, "done")
       \/ row[n] # "sent" /\ n \in Addressed /\ Goto(j, "claim")
    /\ UNCHANGED <<forStaff, row, mail, lost, overwritten, died>>

(* A notice without recipients fails before any claim.                     *)
NoRecipients(j) ==
    LET n == job[j].notice IN
    /\ job[j].step = "queued"
    /\ row[n] # "sent" /\ n \notin Addressed
    /\ row' = [row EXCEPT ![n] = "failed"]
    /\ Goto(j, "done")
    /\ UNCHANGED <<forStaff, mail, lost, overwritten, died>>

(* send_order_notification: a manager may resend what has no recipients,   *)
(* and send_staff_new_order_notification: nothing else publishes one.      *)
Start(j) == job[j].notice \notin forStaff /\ (Load(j) \/ NoRecipients(j))
StartStaff(j) == job[j].notice \in forStaff /\ Load(j)

(* Fault: a notice that is being sent may be claimed again.                *)
ClaimableUnlessSent(n) == row[n] # "sent"
Claimable(n) == row[n] \notin {"sent", "sending"}

(* claim_for_sending, under the lock of the row.                           *)
Claim(j) ==
    LET n == job[j].notice IN
    /\ job[j].step = "claim"
    /\ \/ ~Claimable(n) /\ Goto(j, "done") /\ UNCHANGED row
       \/ /\ Claimable(n)
          /\ row' = [row EXCEPT ![n] = "sending"]
          /\ Goto(j, "claimed")
    /\ UNCHANGED <<forStaff, mail, lost, overwritten, died>>

(* send_mail: accepted, or refused for now or for good.  An accepted mail  *)
(* counts as refused if the answer does not arrive or mark_sent fails.     *)
Smtp(j) ==
    LET n == job[j].notice IN
    /\ job[j].step = "claimed"
    /\ \/ /\ Goto(j, "accepted")
          /\ mail' = [mail EXCEPT ![n] = @ + 1]
          /\ UNCHANGED lost
       \/ /\ \E step \in {"transient", "permanent"} : Goto(j, step)
          /\ UNCHANGED <<mail, lost>>
       \/ /\ lost[n] < MaxLost
          /\ Goto(j, "transient")
          /\ mail' = [mail EXCEPT ![n] = @ + 1]
          /\ lost' = [lost EXCEPT ![n] = @ + 1]
    /\ UNCHANGED <<forStaff, row, overwritten, died>>

(* What mark_sent and mark_failed leave in the row.                        *)
(* Fault: only a permanent refusal is written down, a retry is not.        *)
OnlyPermanent(step) ==
    CASE step = "accepted" -> "sent" [] step = "permanent" -> "failed" [] OTHER -> "sending"
(* Fault: every end of a delivery is written down as sent.                 *)
AlwaysSent(step) == "sent"
Outcome(step) == IF step = "accepted" THEN "sent" ELSE "failed"

(* NotificationDeliveryError is retried by Celery, nothing else is.        *)
(* Fault: without a limit.                                                 *)
RetriedForEver(j) == job[j].step = "transient"
Retried(j) == job[j].step = "transient" /\ job[j].retries < MaxRetries

Finish(j) ==
    /\ job[j].step \in Sending \ {"claimed"}
    /\ row' = [row EXCEPT ![job[j].notice] = Outcome(job[j].step)]
    /\ job' = [job EXCEPT ![j].step = IF Retried(j) THEN "queued" ELSE "done",
                          ![j].retries = IF Retried(j) THEN @ + 1 ELSE @]
    /\ UNCHANGED <<forStaff, mail, lost, overwritten, died>>

(* The process dies, or the database does not answer it.  The task is      *)
(* acknowledged before it runs: a message in the queue is safe, one that   *)
(* is being worked on is gone.                                             *)
Crash(j) ==
    /\ job[j].step \notin {"idle", "queued", "done"}
    /\ died[job[j].notice] < MaxCrashes
    /\ Goto(j, "done")
    /\ died' = [died EXCEPT ![job[j].notice] = @ + 1]
    /\ UNCHANGED <<forStaff, row, mail, lost, overwritten>>

-----------------------------------------------------------------------------
Zero == [n \in Notices |-> 0]

Init ==
    /\ forStaff \in SUBSET Notices
    /\ row = [n \in Notices |-> "none"]
    /\ job = [j \in Jobs |-> NoJob]
    /\ mail = Zero /\ lost = Zero /\ overwritten = Zero /\ died = Zero

Work(j) ==
    \/ Record(j) \/ RecordStaff(j) \/ MarkPending(j) \/ Publish(j)
    \/ Start(j) \/ StartStaff(j) \/ Claim(j) \/ Smtp(j) \/ Finish(j)

Next ==
    \E j \in Jobs :
        \/ \E n \in Notices : Schedule(j, n) \/ Resend(j, n)
        \/ Work(j)
        \/ Crash(j)

Spec == Init /\ [][Next]_vars

(* A process that runs goes on, and the workers of the queue "email" take  *)
(* every message.                                                          *)
FairSpec == Spec /\ \A j \in Jobs : WF_vars(Work(j))

-----------------------------------------------------------------------------
(* Properties.                                                             *)

(* Rows, jobs and counters have their types.                               *)
TypeOK ==
    /\ forStaff \subseteq Notices
    /\ row \in [Notices -> Status]
    /\ job \in [Jobs -> Job]
    /\ \A j \in Jobs : job[j].step # "idle" => job[j].notice \in Notices
    /\ {mail, lost, overwritten, died} \subseteq [Notices -> Nat]

(* The dashboard never says "sent" of a notice that no mail server has     *)
(* accepted.                                                               *)
SentMeansMailed == \A n \in Notices : row[n] = "sent" => mail[n] > 0

(* A row that says "sending" has a task that is at it, or its task has     *)
(* died: nobody else leaves a row in the one status that neither a task    *)
(* nor a manager may take up again.                                        *)
SendingHasOwner ==
    \A n \in Notices : row[n] = "sending" =>
        \/ \E j \in Jobs : job[j].notice = n /\ job[j].step \in Sending
        \/ died[n] > 0

(* However many callbacks, managers and retries are at work, each mail     *)
(* after the first one has a cause: an answer that was lost or a stale     *)
(* copy saved over the work of another job.                                *)
MailsAccountedFor ==
    \A n \in Notices : mail[n] <= 1 + lost[n] + overwritten[n]

(* Unless a process dies, every notice that waits is delivered or ends up  *)
(* as a failure that a manager can see and resend.                         *)
EveryNoticeSettles ==
    \A n \in Notices :
        row[n] \in {"pending", "sending"} ~> row[n] \in {"sent", "failed"} \/ died[n] > 0

(* README.md, "Persistent Notification Outbox": the manual retry of a      *)
(* failed notice does not duplicate a notification already delivered.      *)
RetryDuplicatesNothing ==
    [][ \A j \in Jobs :
          /\ job[j].copy = "failed"
          /\ job[j].step = "claimed" /\ job'[j].step = "accepted"
          => mail[job[j].notice] = 0 ]_vars
===============================================================================
