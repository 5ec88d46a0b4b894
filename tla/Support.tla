-------------------------------- MODULE Support ---------------------------------
(***************************************************************************)
(* A support request and the mail that tells the staff of it: the form,    *)
(* SupportNotificationService.enqueue, the deliveries of the Celery task   *)
(* with their retries, and the admin's form.  Every writer updates the two *)
(* columns email_sent and email_error, none looks at what they hold.       *)
(***************************************************************************)
EXTENDS Naturals

CONSTANTS
    SupportTasks,     \* deliveries of the task: a publication may be repeated
    SupportRetries,   \* EMAIL_TASK_MAX_RETRIES
    SupportCrashMax,  \* bound: processes that die
    SupportEditMax    \* bound: forms of the admin

ASSUME SupportAssumption ==
    SupportRetries \in Nat /\ SupportCrashMax \in Nat /\ SupportEditMax \in Nat

VARIABLES
    supRow,      \* the row: is it there, email_sent, email_error
    supTask,     \* supTask[k]: how far the delivery has come, its retries
    supView,     \* what the view of the form has still to do
    supAdmin,    \* the admin's form: the flag of its page, the error it has loaded
    supMailed,   \* history: has a mail server accepted the mail?
    supStale,    \* history: has the admin saved over a newer outcome?
    supCrashed, supEdits   \* history: how many processes died, how many forms were saved

supVars == <<supRow, supTask, supView, supAdmin, supMailed, supStale, supCrashed, supEdits>>
supHistory == <<supMailed, supStale, supCrashed, supEdits>>

-----------------------------------------------------------------------------
SupRow == [there : BOOLEAN, sent : BOOLEAN, error : BOOLEAN]
SupSteps == {"idle", "queued", "send", "failure", "success", "done"}
SupTaskAt(k, step) == supTask[k].step = step
SupTaskTo(k, step) == supTask' = [supTask EXCEPT ![k].step = step]

(* _set_support_request_delivery_success and _failure: an UPDATE each.     *)
SupWrite(sent, error) ==
    supRow' = IF supRow.there THEN [supRow EXCEPT !.sent = sent, !.error = error] ELSE supRow

(* form_valid: the row is committed before anything is published.          *)
SupSubmit ==
    /\ supView = "new"
    /\ supRow' = [there |-> TRUE, sent |-> FALSE, error |-> FALSE]
    /\ supView' = "publish"
    /\ UNCHANGED <<supTask, supAdmin, supHistory>>

(* enqueue: the broker takes the task, more than once if its answer gets   *)
(* lost; an error, after or instead of that, is left for SupRefused.       *)
SupPublish(k) ==
    /\ supView = "publish" /\ SupTaskAt(k, "idle")
    /\ SupTaskTo(k, "queued")
    /\ supView' \in {"publish", "refused", "done"}
    /\ UNCHANGED <<supRow, supAdmin, supHistory>>
SupUnreachable ==
    /\ supView = "publish"
    /\ supView' = "refused"
    /\ UNCHANGED <<supRow, supTask, supAdmin, supHistory>>
SupRefused ==
    /\ supView = "refused"
    /\ SupWrite(FALSE, TRUE)
    /\ supView' = "done"
    /\ UNCHANGED <<supTask, supAdmin, supHistory>>

SupViewCrash ==
    /\ supView \in {"publish", "refused"} /\ supCrashed < SupportCrashMax
    /\ supView' = "done" /\ supCrashed' = supCrashed + 1
    /\ UNCHANGED <<supRow, supTask, supAdmin, supMailed, supStale, supEdits>>

-----------------------------------------------------------------------------
(* The task starts: no sender or no recipients is a failure; a request     *)
(* that has been deleted is skipped.                                       *)
SupStart(k) ==
    /\ SupTaskAt(k, "queued")
    /\ \/ SupTaskTo(k, "failure")
       \/ SupTaskTo(k, IF supRow.there THEN "send" ELSE "done")
    /\ UNCHANGED <<supRow, supView, supAdmin, supHistory>>

(* Fault: autoretry counts the first attempt as none.                      *)
SupMayRetryOnceMore(k) == supTask[k].retries <= SupportRetries
SupMayRetry(k) == supTask[k].retries < SupportRetries

(* send_mail answers, or an error comes with the mail accepted or not.  A  *)
(* transient error is raised to be retried, the last one and a permanent   *)
(* one are a failure.                                                      *)
(* Fault: the last error is raised as well.                                *)
SupSendRaising(k) ==
    /\ SupTaskAt(k, "send")
    /\ \/ supMailed' = TRUE /\ SupTaskTo(k, "success")
       \/ supMailed' \in {supMailed, TRUE} /\ SupMayRetry(k)
          /\ supTask' = [supTask EXCEPT ![k] = [step |-> "queued", retries |-> @.retries + 1]]
       \/ supMailed' \in {supMailed, TRUE} /\ ~SupMayRetry(k) /\ SupTaskTo(k, "done")
    /\ UNCHANGED <<supRow, supView, supAdmin, supStale, supCrashed, supEdits>>
SupSend(k) ==
    /\ SupTaskAt(k, "send")
    /\ \/ supMailed' = TRUE /\ SupTaskTo(k, "success")
       \/ /\ supMailed' \in {supMailed, TRUE} /\ SupMayRetry(k)
          /\ supTask' = [supTask EXCEPT ![k] = [step |-> "queued", retries |-> @.retries + 1]]
       \/ supMailed' \in {supMailed, TRUE} /\ SupTaskTo(k, "failure")
    /\ UNCHANGED <<supRow, supView, supAdmin, supStale, supCrashed, supEdits>>

SupRecord(k) ==
    /\ supTask[k].step \in {"success", "failure"}
    /\ SupWrite(SupTaskAt(k, "success"), SupTaskAt(k, "failure"))
    /\ SupTaskTo(k, "done")
    /\ UNCHANGED <<supView, supAdmin, supHistory>>

(* The worker dies; the task has been acknowledged when it was received.   *)
SupCrash(k) ==
    /\ supTask[k].step \notin {"idle", "queued", "done"} /\ supCrashed < SupportCrashMax
    /\ SupTaskTo(k, "done")
    /\ supCrashed' = supCrashed + 1
    /\ UNCHANGED <<supRow, supView, supAdmin, supMailed, supStale, supEdits>>

-----------------------------------------------------------------------------
(* The admin's form: email_sent comes back as the page showed it,          *)
(* email_error as the POST has loaded it, and both are saved.              *)
SupOpenForm ==
    /\ supRow.there /\ supAdmin.step = "idle" /\ supEdits < SupportEditMax
    /\ supAdmin' = [step |-> "open", sent |-> supRow.sent, error |-> FALSE]
    /\ UNCHANGED <<supRow, supTask, supView, supHistory>>
SupPostForm ==
    /\ supAdmin.step = "open"
    /\ supAdmin' = IF supRow.there THEN [supAdmin EXCEPT !.step = "save", !.error = supRow.error]
                   ELSE [step |-> "idle", sent |-> FALSE, error |-> FALSE]
    /\ UNCHANGED <<supRow, supTask, supView, supHistory>>
SupSaveForm ==
    /\ supAdmin.step = "save"
    /\ supRow' = [there |-> TRUE, sent |-> supAdmin.sent, error |-> supAdmin.error]
    /\ supStale' = (supStale \/ supRow # supRow')
    /\ supEdits' = supEdits + 1
    /\ supAdmin' = [step |-> "idle", sent |-> FALSE, error |-> FALSE]
    /\ UNCHANGED <<supTask, supView, supMailed, supCrashed>>
SupDelete ==
    /\ supRow.there /\ supView = "done"
    /\ supRow' = [there |-> FALSE, sent |-> FALSE, error |-> FALSE]
    /\ UNCHANGED <<supTask, supView, supAdmin, supHistory>>

-----------------------------------------------------------------------------
SupInit ==
    /\ supRow = [there |-> FALSE, sent |-> FALSE, error |-> FALSE]
    /\ supTask = [k \in SupportTasks |-> [step |-> "idle", retries |-> 0]]
    /\ supView = "new"
    /\ supAdmin = [step |-> "idle", sent |-> FALSE, error |-> FALSE]
    /\ supMailed = FALSE /\ supStale = FALSE /\ supCrashed = 0 /\ supEdits = 0

SupNext ==
    \/ SupSubmit \/ SupUnreachable \/ SupRefused \/ SupViewCrash
    \/ \E k \in SupportTasks :
         SupPublish(k) \/ SupStart(k) \/ SupSend(k) \/ SupRecord(k) \/ SupCrash(k)
    \/ SupOpenForm \/ SupPostForm \/ SupSaveForm \/ SupDelete

SupSpec == SupInit /\ [][SupNext]_supVars

-----------------------------------------------------------------------------
SupTypeOK ==
    /\ supRow \in SupRow
    /\ supTask \in [SupportTasks -> [step : SupSteps, retries : 0..SupportRetries]]
    /\ supView \in {"new", "publish", "refused", "done"}
    /\ supAdmin \in [step : {"idle", "open", "save"}, sent : BOOLEAN, error : BOOLEAN]
    /\ supMailed \in BOOLEAN /\ supStale \in BOOLEAN
    /\ supCrashed \in 0..SupportCrashMax /\ supEdits \in 0..SupportEditMax

SupQuiet ==
    /\ supView = "done"
    /\ \A k \in SupportTasks : supTask[k].step \in {"idle", "done"}

(* A request never gets lost in silence: when everything has run, the row  *)
(* says that the mail went out or that it did not, whatever failed on the  *)
(* way, unless a worker died or the admin saved over the outcome; and it   *)
(* never says "sent" of a mail no server has accepted.                     *)
SupportOutcomeTold ==
    /\ supRow.sent => supMailed
    /\ SupQuiet /\ supRow.there /\ supCrashed = 0 /\ ~supStale => supRow.sent \/ supRow.error
===============================================================================
