------------------------------ MODULE GuestLinks -------------------------------
(***************************************************************************)
(* The links by which a guest manages an order: GuestOrderAccessToken-     *)
(* Service, the "created" mail that carries a link, and the guest's pages. *)
(* One guest order.                                                        *)
(*                                                                         *)
(* Every writer of tokens holds the row of the order for one short         *)
(* transaction, so it is one step.  The processes that enqueue the mail,   *)
(* the mail tasks and the pages read first and act later.  A job follows   *)
(* one enqueued delivery as in NotificationOutbox, with what that module   *)
(* leaves out: who builds the content, and when it is stored in the row.   *)
(*                                                                         *)
(* Tokens are numbers, in the order of their creation; 0 is no token.      *)
(***************************************************************************)
EXTENDS Naturals, FiniteSets

CONSTANTS
    GuestTokenMax,    \* bound: tokens ever created for the order
    GuestJobs,        \* deliveries of the "created" mail
    GuestRequests,    \* requests of the guest's pages
    GuestCrashMax     \* bound: processes that die

GuestTokens == 1..GuestTokenMax

ASSUME GuestAssumption == GuestTokenMax \in Nat /\ GuestCrashMax \in Nat

VARIABLES
    guestOwner,     \* Order.user: "guest" is NULL, "account" is not
    guestLegacy,    \* the token whose raw value is Order.guest_manage_token
    guestToken,     \* guestToken[t]: the row of t
    guestExpired,   \* tokens past expires_at
    guestNotice,    \* the OrderNotificationLog row of the "created" mail
    guestJob,       \* guestJob[j]: how far the delivery has come
    guestRequest,   \* guestRequest[r]: how far the request has come
    guestMailed,    \* history: tokens whose link a mail server has accepted
    guestRotated,   \* history: tokens that an explicit rotation found active
    guestRebuilt,   \* history: contents saved over another content
    guestCrashed    \* history: how many processes died

guestRows == <<guestOwner, guestLegacy>>
guestTokens == <<guestToken, guestExpired>>
guestHistory == <<guestMailed, guestRotated, guestRebuilt, guestCrashed>>
guestVars == <<guestRows, guestTokens, guestNotice, guestJob, guestRequest, guestHistory>>

-----------------------------------------------------------------------------
GuestLinkOrNone == GuestTokens \cup {0}
GuestNotices == [status : {"none", "pending", "sending", "sent", "failed"},
                 built : BOOLEAN, link : GuestLinkOrNone]

(* web: it is the enqueuing process still, not the task; owner: Order.user *)
(* and copy: the status of the notice, as it has loaded them.              *)
GuestJobSteps == {"idle", "record", "build", "snapshot", "mark", "publish", "queued",
                  "claim", "send", "done"}
GuestJob == [step : GuestJobSteps, web : BOOLEAN, owner : {"guest", "account"},
             copy : {"none", "pending", "sending", "failed"}, link : GuestLinkOrNone]
GuestIdle == [step |-> "idle", web |-> TRUE, owner |-> "guest", copy |-> "none", link |-> 0]
GuestTask == [GuestIdle EXCEPT !.step = "queued", !.web = FALSE]

GuestRequestSteps == {"new", "token_read", "order_read", "served", "done"}
GuestReq == [step : GuestRequestSteps, token : GuestLinkOrNone]
GuestNewReq == [step |-> "new", token |-> 0]

GuestUnused == {t \in GuestTokens : guestToken[t] = "none"}
GuestValid == {t \in GuestTokens : guestToken[t] = "active" /\ t \notin guestExpired}
GuestIsLatest(t) == t \in GuestValid /\ \A u \in GuestValid : u <= t
GuestIsNext(t) == t \in GuestUnused /\ \A u \in GuestUnused : t <= u

GuestJobAt(j, step) == guestJob[j].step = step
GuestJobTo(j, step) == guestJob' = [guestJob EXCEPT ![j].step = step]
GuestJobDone(j) == guestJob' = [guestJob EXCEPT ![j] = [GuestIdle EXCEPT !.step = "done"]]

-----------------------------------------------------------------------------
(* The service.                                                            *)

(* issue_token_for_email, under the lock of the order: the latest valid    *)
(* token if its raw value is the order's legacy one, or one token more.    *)
(* What it returns is t.                                                   *)
(* Fault: mail rotates the link.                                           *)
GuestIssueRotating(t) ==
    /\ guestOwner = "guest" /\ GuestIsNext(t)
    /\ guestToken' = [u \in GuestTokens |-> IF u = t THEN "active"
                        ELSE IF guestToken[u] = "active" THEN "revoked" ELSE guestToken[u]]
GuestIssue(t) ==
    /\ guestOwner = "guest"
    /\ \/ guestLegacy = t /\ GuestIsLatest(t) /\ UNCHANGED guestToken
       \/ /\ ~(\E u \in GuestTokens : guestLegacy = u /\ GuestIsLatest(u))
          /\ GuestIsNext(t)
          /\ guestToken' = [guestToken EXCEPT ![t] = "active"]

(* get_or_create_active_token_for_order: no new token while one is valid.  *)
(* No view calls it or the rotation yet.                                   *)
GuestGetOrCreate(t) ==
    /\ guestOwner = "guest"
    /\ GuestValid = {} /\ GuestIsNext(t)
    /\ guestToken' = [guestToken EXCEPT ![t] = "active"]
    /\ UNCHANGED <<guestRows, guestExpired, guestNotice, guestJob, guestRequest, guestHistory>>

(* rotate_token_for_order: all unrevoked tokens are revoked, t is created. *)
GuestRotate(t) ==
    /\ guestOwner = "guest" /\ GuestIsNext(t)
    /\ guestToken' = [u \in GuestTokens |-> IF u = t THEN "active"
                        ELSE IF guestToken[u] = "active" THEN "revoked" ELSE guestToken[u]]
    /\ guestRotated' = guestRotated \cup {u \in GuestTokens : guestToken[u] = "active"}
    /\ UNCHANGED <<guestRows, guestExpired, guestNotice, guestJob, guestRequest,
                   guestMailed, guestRebuilt, guestCrashed>>

(* The admin gives the order to an account: save() drops the legacy token. *)
GuestClaimOrder ==
    /\ guestOwner = "guest"
    /\ guestOwner' = "account" /\ guestLegacy' = 0
    /\ UNCHANGED <<guestTokens, guestNotice, guestJob, guestRequest, guestHistory>>

GuestExpires(t) ==
    /\ guestToken[t] # "none" /\ t \notin guestExpired
    /\ guestExpired' = guestExpired \cup {t}
    /\ UNCHANGED <<guestRows, guestToken, guestNotice, guestJob, guestRequest, guestHistory>>

-----------------------------------------------------------------------------
(* The mail.                                                               *)

(* save() of a copy read earlier: the status alone, not the content.       *)
GuestSave(status) == guestNotice' = [guestNotice EXCEPT !.status = status]

(* The callback of the checkout, or a manager's resend that finds no row.  *)
GuestSchedule(j) ==
    /\ GuestJobAt(j, "idle") /\ guestNotice.status = "none"
    /\ GuestJobTo(j, "record")
    /\ UNCHANGED <<guestRows, guestTokens, guestNotice, guestRequest, guestHistory>>

(* enqueue loads the order and gets or creates the row.                    *)
GuestRecord(j) ==
    LET found == IF guestNotice.status = "none" THEN "pending" ELSE guestNotice.status IN
    /\ GuestJobAt(j, "record")
    /\ guestNotice' = [guestNotice EXCEPT !.status = found]
    /\ \/ found = "sent" /\ GuestJobDone(j)
       \/ /\ found # "sent"
          /\ guestJob' = [guestJob EXCEPT ![j].owner = guestOwner, ![j].copy = found,
                            ![j].step = IF guestNotice.built THEN "mark" ELSE "build"]
    /\ UNCHANGED <<guestRows, guestTokens, guestRequest, guestHistory>>

(* enqueue_manual_resend of a notice that has failed.                      *)
GuestResend(j) ==
    /\ GuestJobAt(j, "idle") /\ guestNotice.status = "failed"
    /\ guestJob' = [guestJob EXCEPT ![j].step = "mark", ![j].copy = "failed"]
    /\ UNCHANGED <<guestRows, guestTokens, guestNotice, guestRequest, guestHistory>>

(* _build_order_notification_base_lines: the page of an account's order,   *)
(* or a link for a guest; an order that an account has got since it was    *)
(* loaded is a ValueError, which fails the notice.                         *)
GuestBuild(j) ==
    /\ GuestJobAt(j, "build")
    /\ \/ /\ guestJob[j].owner = "account"
          /\ GuestJobTo(j, "snapshot") /\ UNCHANGED <<guestNotice, guestToken>>
       \/ /\ guestJob[j].owner = "guest"
          /\ \E t \in GuestTokens :
               /\ GuestIssue(t)
               /\ guestJob' = [guestJob EXCEPT ![j].step = "snapshot", ![j].link = t]
          /\ UNCHANGED guestNotice
       \/ /\ guestJob[j].owner = "guest" /\ guestOwner = "account"
          /\ GuestSave("failed") /\ GuestJobDone(j) /\ UNCHANGED guestToken
    /\ UNCHANGED <<guestRows, guestExpired, guestRequest, guestMailed, guestRotated,
                   guestRebuilt, guestCrashed>>

(* update_snapshot: what was built is kept for the task and its retries.   *)
(* Fault: only the recipients are kept.                                    *)
GuestSnapshotLost(j) ==
    /\ GuestJobAt(j, "snapshot") /\ GuestJobTo(j, IF guestJob[j].web THEN "mark" ELSE "send")
    /\ UNCHANGED <<guestRows, guestTokens, guestNotice, guestRequest, guestHistory>>
GuestSnapshot(j) ==
    /\ GuestJobAt(j, "snapshot")
    /\ guestNotice' = [guestNotice EXCEPT !.built = TRUE, !.link = guestJob[j].link]
    /\ guestRebuilt' = guestRebuilt + (IF guestNotice.built THEN 1 ELSE 0)
    /\ GuestJobTo(j, IF guestJob[j].web THEN "mark" ELSE "send")
    /\ UNCHANGED <<guestRows, guestTokens, guestRequest, guestMailed, guestRotated,
                   guestCrashed>>

(* _enqueue_log: mark_pending, unless the copy says somebody is sending... *)
GuestMark(j) ==
    /\ GuestJobAt(j, "mark")
    /\ IF guestJob[j].copy = "sending" THEN UNCHANGED guestNotice
       ELSE GuestSave("pending")
    /\ GuestJobTo(j, "publish")
    /\ UNCHANGED <<guestRows, guestTokens, guestRequest, guestMailed, guestRotated,
                   guestRebuilt, guestCrashed>>

(* ...and the task is published, or that fails.                            *)
GuestPublish(j) ==
    /\ GuestJobAt(j, "publish")
    /\ \/ /\ guestJob' = [guestJob EXCEPT ![j] = GuestTask]
          /\ UNCHANGED guestNotice
       \/ GuestJobDone(j) /\ GuestSave("failed")
    /\ UNCHANGED <<guestRows, guestTokens, guestRequest, guestMailed, guestRotated,
                   guestRebuilt, guestCrashed>>

(* _resolve_customer_outbox: the task loads the row and its order.         *)
GuestLoad(j) ==
    /\ GuestJobAt(j, "queued")
    /\ \/ guestNotice.status = "sent" /\ GuestJobDone(j)
       \/ /\ guestNotice.status # "sent"
          /\ guestJob' = [guestJob EXCEPT ![j].step = "claim", ![j].owner = guestOwner]
    /\ UNCHANGED <<guestRows, guestTokens, guestNotice, guestRequest, guestHistory>>

(* claim_for_sending returns the row as it is then; content it lacks is    *)
(* built now.                                                              *)
GuestClaimNotice(j) ==
    /\ GuestJobAt(j, "claim")
    /\ \/ /\ guestNotice.status \in {"sent", "sending"}
          /\ GuestJobDone(j) /\ UNCHANGED guestNotice
       \/ /\ guestNotice.status \notin {"sent", "sending"}
          /\ guestNotice' = [guestNotice EXCEPT !.status = "sending"]
          /\ guestJob' = [guestJob EXCEPT ![j].link = guestNotice.link,
                            ![j].step = IF guestNotice.built THEN "send" ELSE "build"]
    /\ UNCHANGED <<guestRows, guestTokens, guestRequest, guestHistory>>

(* send_mail: accepted, with or without an answer, or refused; a failure   *)
(* is retried with the same arguments or given up.                         *)
GuestSend(j) ==
    LET delivered == IF guestJob[j].link = 0 THEN guestMailed
                     ELSE guestMailed \cup {guestJob[j].link} IN
    /\ GuestJobAt(j, "send")
    /\ \/ /\ guestNotice' = [guestNotice EXCEPT !.status = "sent"]
          /\ guestMailed' = delivered
          /\ GuestJobDone(j)
       \/ /\ guestNotice' = [guestNotice EXCEPT !.status = "failed"]
          /\ guestMailed' \in {guestMailed, delivered}
          /\ guestJob' = [guestJob EXCEPT ![j] = GuestTask] \/ GuestJobDone(j)
    /\ UNCHANGED <<guestRows, guestTokens, guestRequest, guestRotated, guestRebuilt, guestCrashed>>

GuestCrash(j) ==
    /\ guestJob[j].step \notin {"idle", "queued", "done"} /\ guestCrashed < GuestCrashMax
    /\ GuestJobDone(j)
    /\ guestCrashed' = guestCrashed + 1
    /\ UNCHANGED <<guestRows, guestTokens, guestNotice, guestRequest, guestMailed,
                   guestRotated, guestRebuilt>>

-----------------------------------------------------------------------------
(* The guest's pages.                                                      *)
GuestReqAt(r, step) == guestRequest[r].step = step
GuestReqTo(r, step) == guestRequest' = [guestRequest EXCEPT ![r].step = step]

(* get_order_by_raw_token: the row of the token and the owner of its order *)
(* are looked at...                                                        *)
GuestOpen(r, t) ==
    /\ GuestReqAt(r, "new") /\ guestToken[t] # "none"
    /\ guestRequest' = [guestRequest EXCEPT ![r] =
         [step |-> IF t \in GuestValid /\ guestOwner = "guest" THEN "token_read" ELSE "done",
          token |-> t]]
    /\ UNCHANGED <<guestRows, guestTokens, guestNotice, guestJob, guestHistory>>

(* ...the order is read again, as a guest's...                             *)
GuestReadOrder(r) ==
    /\ GuestReqAt(r, "token_read")
    /\ GuestReqTo(r, IF guestOwner = "guest" THEN "order_read" ELSE "done")
    /\ UNCHANGED <<guestRows, guestTokens, guestNotice, guestJob, guestHistory>>

(* ...and last_used_at is written if the token has not been revoked since. *)
(* Fault: whatever has happened to the token since.                        *)
GuestTouchAnyway(r) ==
    /\ GuestReqAt(r, "order_read") /\ GuestReqTo(r, "served")
    /\ UNCHANGED <<guestRows, guestTokens, guestNotice, guestJob, guestHistory>>
GuestTouch(r) ==
    /\ GuestReqAt(r, "order_read")
    /\ GuestReqTo(r, IF guestToken[guestRequest[r].token] = "active" THEN "served" ELSE "done")
    /\ UNCHANGED <<guestRows, guestTokens, guestNotice, guestJob, guestHistory>>

(* The view shows the order or hands it to OrderCancellationService, which *)
(* looks at the order again, under its lock, but no more at the token.     *)
GuestServe(r) ==
    /\ GuestReqAt(r, "served")
    /\ GuestReqTo(r, "done")
    /\ UNCHANGED <<guestRows, guestTokens, guestNotice, guestJob, guestHistory>>

-----------------------------------------------------------------------------
(* A new order without a token, or one of the time when its raw token was  *)
(* kept in the order.                                                      *)
GuestInit ==
    /\ guestOwner = "guest"
    /\ guestLegacy \in {0} \cup (GuestTokens \cap {1})
    /\ guestToken = [t \in GuestTokens |-> IF t = guestLegacy THEN "active" ELSE "none"]
    /\ guestExpired = {}
    /\ guestNotice = [status |-> "none", built |-> FALSE, link |-> 0]
    /\ guestJob = [j \in GuestJobs |-> GuestIdle]
    /\ guestRequest = [r \in GuestRequests |-> GuestNewReq]
    /\ guestMailed = {} /\ guestRotated = {}
    /\ guestRebuilt = 0 /\ guestCrashed = 0

GuestJobStep(j) ==
    \/ GuestSchedule(j) \/ GuestRecord(j) \/ GuestResend(j) \/ GuestBuild(j)
    \/ GuestSnapshot(j) \/ GuestMark(j) \/ GuestPublish(j) \/ GuestLoad(j)
    \/ GuestClaimNotice(j) \/ GuestSend(j) \/ GuestCrash(j)
GuestRequestStep(r) == GuestReadOrder(r) \/ GuestTouch(r) \/ GuestServe(r)

GuestNext ==
    \/ \E t \in GuestTokens : GuestGetOrCreate(t) \/ GuestRotate(t) \/ GuestExpires(t)
    \/ \E j \in GuestJobs : GuestJobStep(j)
    \/ \E r \in GuestRequests :
         \/ \E t \in GuestTokens : GuestOpen(r, t)
         \/ GuestRequestStep(r)
    \/ GuestClaimOrder

GuestSpec == GuestInit /\ [][GuestNext]_guestVars

-----------------------------------------------------------------------------
GuestTypeOK ==
    /\ guestOwner \in {"guest", "account"} /\ guestLegacy \in GuestLinkOrNone
    /\ guestToken \in [GuestTokens -> {"none", "active", "revoked"}]
    /\ guestExpired \subseteq GuestTokens
    /\ guestNotice \in GuestNotices
    /\ guestJob \in [GuestJobs -> GuestJob] /\ guestRequest \in [GuestRequests -> GuestReq]
    /\ guestMailed \subseteq GuestTokens /\ guestRotated \subseteq GuestTokens
    /\ guestRebuilt \in Nat /\ guestCrashed \in Nat

(* issue_token_for_email: "notification retries cannot invalidate a        *)
(* previously delivered link".  A link in a customer's mailbox dies by age *)
(* or by an explicit rotation, never by another mail.                      *)
GuestMailedLinkWorks ==
    \A t \in guestMailed : guestToken[t] = "active" \/ t \in guestRotated

(* All mails of the notice carry one link, however many jobs and retries   *)
(* send it, however often stale copies reopen it and the server's answer   *)
(* gets lost: each link more has two processes behind it that built the    *)
(* content at the same time, of which the later one overwrote it.          *)
GuestOneLinkPerNotice ==
    Cardinality(guestMailed) <= 1 + guestRebuilt

(* A page that has read the token before a rotation is not served after it.*)
GuestRotationShutsOut ==
    [][\A r \in GuestRequests :
         guestRequest'[r].step = "served" => \/ guestRequest[r].step = "served"
                                             \/ guestRequest[r].token \notin guestRotated
      ]_guestVars
===============================================================================
