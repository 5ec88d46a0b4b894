------------------------------ MODULE PaymentSync ------------------------------
(***************************************************************************)
(* The payments of one order and Order.payment_status, at the grain of     *)
(* statements and row locks: the services that lock the order first and    *)
(* synchronise through PaymentWorkflowService, and the admin's forms,      *)
(* which write a payment first and leave the rest to the signals.          *)
(* OrderStock has the services as whole transactions; the admin is only    *)
(* here.                                                                   *)
(*                                                                         *)
(* READ COMMITTED: payRow and payOrder are what is committed; own is what  *)
(* an open transaction has written, and the row locks it holds with that.  *)
(* Requests are numbered in the order they arrive.  Statuses that no rule  *)
(* tells from "pending" (failed, requires_action) are left out.            *)
(***************************************************************************)
EXTENDS Naturals, FiniteSets

CONSTANTS
    PayRows,      \* primary keys of payments of the order
    PayRequests   \* requests

ASSUME PayAssumption ==
    /\ PayRows \subseteq Nat \ {0} /\ IsFiniteSet(PayRows)
    /\ PayRequests \subseteq Nat \ {0} /\ IsFiniteSet(PayRequests)

VARIABLES
    payOrder,    \* Order.status as far as it matters, Order.payment_status
    payRow,      \* payRow[p]: the payment p
    payClock,    \* the time of the latest updated_at
    payRequest   \* payRequest[r]: how far r has come

payVars == <<payOrder, payRow, payClock, payRequest>>

-----------------------------------------------------------------------------
PayStatuses == {"pending", "succeeded", "cancelled", "refunded"}
PayRowType == [there : BOOLEAN, manual : BOOLEAN, status : PayStatuses, at : Nat]
PayNoRow == [there |-> FALSE, manual |-> FALSE, status |-> "pending", at |-> 0]
PayOrderType == [cancelled : BOOLEAN, payment : PayStatuses]

PayServices == {"cancel", "update"}
PayForms == {"add", "change", "delete"}
PaySteps == {"new", "lock_order", "choose", "lock_row", "lock_rows", "commit",
             "stamp", "write", "sync", "put", "done"}

(* copy: the order as the request has loaded it; row, to: the payment and  *)
(* what it is to become; own: what it has written, for the rows it locks.  *)
PayReq == [step : PaySteps, kind : PayServices \cup PayForms \cup {"none"},
           copy : PayOrderType, row : PayRows \cup {0}, to : PayRowType,
           locks : SUBSET PayRows, own : [PayRows -> PayRowType]]
PayNew == [step |-> "new", kind |-> "none",
           copy |-> [cancelled |-> FALSE, payment |-> "pending"], row |-> 0, to |-> PayNoRow,
           locks |-> {}, own |-> [p \in PayRows |-> PayNoRow]]

PayAt(r, step) == payRequest[r].step = step
PayIs(r, step, kinds) == PayAt(r, step) /\ payRequest[r].kind \in kinds
PaySet(r, req) == payRequest' = [payRequest EXCEPT ![r] = req]
PayArrives(r) == PayAt(r, "new") /\ \A q \in PayRequests : q < r => ~PayAt(q, "new")

(* The rows as r sees them.                                                *)
PayView(r) == [p \in PayRows |-> IF p \in payRequest[r].locks THEN payRequest[r].own[p]
                                 ELSE payRow[p]]
PayOwns(r, p, row) == [payRequest[r] EXCEPT !.locks = @ \cup {p}, !.own[p] = row]

(* COMMIT, or ROLLBACK, ends the request and its locks.                    *)
PayEnd(r) == PaySet(r, [PayNew EXCEPT !.step = "done"])
PayCommit(r, row) == payOrder' = row /\ payRow' = PayView(r) /\ PayEnd(r)

PayRowFree(r, p) == \A q \in PayRequests \ {r} : p \notin payRequest[q].locks
(* SELECT FOR UPDATE of the order by a service; and the share of it that   *)
(* a payment inserted, and not committed yet, holds through its key.       *)
PayLocksOrder(r) == payRequest[r].step \in {"choose", "lock_row", "lock_rows", "commit"}
PaySharesOrder(r) ==
    /\ payRequest[r].kind \in PayForms
    /\ \E p \in payRequest[r].locks : payRequest[r].own[p].there /\ ~payRow[p].there
PayOrderFree(r) == \A q \in PayRequests \ {r} : ~PayLocksOrder(q)

-----------------------------------------------------------------------------
(* resolve_order_payment_status, of the rows it reads.                     *)
PayLatest(rows, p) ==
    /\ rows[p].there
    /\ \A q \in PayRows : rows[q].there =>
         \/ rows[q].at < rows[p].at
         \/ rows[q].at = rows[p].at /\ q <= p
PayResolved(rows) ==
    LET has == {rows[p].status : p \in {q \in PayRows : rows[q].there}} IN
    CASE has = {} -> "pending"
      [] "refunded" \in has -> "refunded"
      [] "refunded" \notin has /\ "succeeded" \in has -> "succeeded"
      [] OTHER -> rows[CHOOSE p \in PayRows : PayLatest(rows, p)].status

(* sync_order_payment_status: an order that is cancelled, as far as the    *)
(* caller's copy knows, keeps "cancelled".                                 *)
(* Fault: the payments alone decide.                                       *)
PayResolvedOnly(order, rows) == PayResolved(rows)
PaySynced(order, rows) == IF order.cancelled THEN "cancelled" ELSE PayResolved(rows)

-----------------------------------------------------------------------------
(* OrderCancellationService and ManualPaymentUpdateService.                *)
PayAsk(r, kind, status) ==
    /\ PayArrives(r)
    /\ PaySet(r, [PayNew EXCEPT !.step = "lock_order", !.kind = kind, !.to.status = status])
    /\ UNCHANGED <<payOrder, payRow, payClock>>

PayMayCancel == payOrder.payment \notin {"succeeded", "refunded"}
PayMayUpdate(status) ==
    /\ ~(payOrder.cancelled /\ status = "succeeded")
    /\ status = "refunded" =>
         \/ payOrder.payment = "succeeded"
         \/ \E p \in PayRows : payRow[p].there /\ payRow[p].status = "succeeded"

(* An order that is cancelled already skips the checks of a cancellation;  *)
(* the checks on its status and fulfillment are left open.                 *)
PayLockOrder(r) ==
    LET req == payRequest[r]
        goes == IF req.kind = "cancel" THEN (payOrder.cancelled \/ PayMayCancel)
                ELSE PayMayUpdate(req.to.status) IN
    /\ PayAt(r, "lock_order")
    /\ PayOrderFree(r) /\ \A q \in PayRequests : ~PaySharesOrder(q)
    /\ \/ /\ goes
          /\ PaySet(r, [req EXCEPT !.copy = payOrder,
                          !.step = IF req.kind = "cancel" THEN "lock_rows" ELSE "choose"])
       \/ /\ goes => req.kind = "cancel" /\ ~payOrder.cancelled
          /\ PayEnd(r)
    /\ UNCHANGED <<payOrder, payRow, payClock>>

(* _cancel_manual_payments: the manual rows, in the order of their keys;   *)
(* one that is cancelled already is left alone (paid_at is not modelled).  *)
PayToCancel(r) == {p \in PayRows \ payRequest[r].locks : payRow[p].there /\ payRow[p].manual}
PayLockRows(r) ==
    /\ PayAt(r, "lock_rows")
    /\ \E p \in PayToCancel(r) :
         /\ \A q \in PayToCancel(r) : p <= q
         /\ PayRowFree(r, p)
         /\ PaySet(r, PayOwns(r, p, payRow[p]))
    /\ UNCHANGED <<payOrder, payRow, payClock>>
PayRowsLocked(r) ==
    /\ PayAt(r, "lock_rows") /\ PayToCancel(r) = {}
    /\ payClock' = payClock + 1
    /\ PaySet(r, [payRequest[r] EXCEPT !.step = "commit",
         !.own = [p \in PayRows |->
                    IF p \notin payRequest[r].locks \/ @[p].status = "cancelled" THEN @[p]
                    ELSE [@[p] EXCEPT !.status = "cancelled", !.at = payClock']]])
    /\ UNCHANGED <<payOrder, payRow>>

(* The latest manual payment is chosen, then waited for; if it is gone by  *)
(* then, the next.                                                         *)
PayManual == [p \in PayRows |-> IF payRow[p].manual THEN payRow[p] ELSE PayNoRow]
PayUnused(r) ==
    {p \in PayRows : ~payRow[p].there /\ \A q \in PayRequests : payRequest[q].row # p}
PayChoose(r) ==
    /\ PayAt(r, "choose")
    /\ \E p \in PayRows :
         /\ \/ PayLatest(PayManual, p)
            \/ (\A q \in PayRows : ~PayManual[q].there) /\ p \in PayUnused(r)
         /\ PaySet(r, [payRequest[r] EXCEPT !.step = "lock_row", !.row = p,
                                            !.to.there = PayManual[p].there])
    /\ UNCHANGED <<payOrder, payRow, payClock>>
PayLockRow(r) ==
    LET p == payRequest[r].row
        lost == payRequest[r].to.there /\ ~PayManual[p].there IN
    /\ PayAt(r, "lock_row") /\ PayRowFree(r, p)
    /\ \/ /\ lost
          /\ PaySet(r, [payRequest[r] EXCEPT !.step = "choose", !.row = 0])
          /\ UNCHANGED payClock
       \/ /\ ~lost
          /\ payClock' = payClock + 1
          /\ PaySet(r, [PayOwns(r, p, [there |-> TRUE, manual |-> TRUE, at |-> payClock',
                                       status |-> payRequest[r].to.status])
                          EXCEPT !.step = "commit"])
    /\ UNCHANGED <<payOrder, payRow>>

(* A cancellation writes the order, unless it found it cancelled; a manual *)
(* update synchronises the order it has locked.                            *)
PayServiceEnds(r) ==
    LET req == payRequest[r] IN
    /\ PayAt(r, "commit")
    /\ PayCommit(r, IF req.kind = "update"
                    THEN [payOrder EXCEPT !.payment = PaySynced(req.copy, PayView(r))]
                    ELSE IF req.copy.cancelled THEN payOrder
                    ELSE [cancelled |-> TRUE, payment |-> "cancelled"])
    /\ UNCHANGED payClock

-----------------------------------------------------------------------------
(* The admin's forms: the request loads the payment and, to validate or    *)
(* to show it, the order.  Provider and status come from the form.         *)
PayPost(r, kind, p, manual, status) ==
    /\ PayArrives(r)
    /\ IF kind = "add" THEN p \in PayUnused(r) ELSE payRow[p].there
    /\ PaySet(r, [PayNew EXCEPT !.step = "stamp", !.kind = kind, !.copy = payOrder,
                    !.row = p, !.to = IF kind = "delete" THEN PayNoRow
                                      ELSE [there |-> TRUE, manual |-> manual,
                                            status |-> status, at |-> 0]])
    /\ UNCHANGED <<payOrder, payRow, payClock>>

(* save() takes the time before it waits for the row.                      *)
PayStamp(r) ==
    /\ PayAt(r, "stamp")
    /\ payClock' = payClock + 1
    /\ PaySet(r, [payRequest[r] EXCEPT !.step = "write",
                    !.to.at = IF payRequest[r].kind = "delete" THEN 0 ELSE payClock'])
    /\ UNCHANGED <<payOrder, payRow>>

(* A row deleted meanwhile is inserted again; an insert waits for whoever  *)
(* locks the order its key refers to.                                      *)
PayWrite(r) ==
    LET req == payRequest[r] IN
    /\ PayAt(r, "write") /\ PayRowFree(r, req.row)
    /\ req.to.there /\ ~payRow[req.row].there => PayOrderFree(r)
    /\ PaySet(r, [PayOwns(r, req.row, req.to) EXCEPT !.step = "sync"])
    /\ UNCHANGED <<payOrder, payRow, payClock>>

(* The signal: the order is written if its copy has another status.        *)
PaySync(r) ==
    LET req == payRequest[r]
        status == PaySynced(req.copy, PayView(r)) IN
    /\ PayAt(r, "sync")
    /\ \/ /\ status = req.copy.payment
          /\ PayCommit(r, payOrder)
       \/ /\ status # req.copy.payment
          /\ PaySet(r, [req EXCEPT !.step = "put", !.to.status = status])
          /\ UNCHANGED <<payOrder, payRow>>
    /\ UNCHANGED payClock
PayPut(r) ==
    /\ PayAt(r, "put") /\ PayOrderFree(r)
    /\ PayCommit(r, [payOrder EXCEPT !.payment = payRequest[r].to.status])
    /\ UNCHANGED payClock

-----------------------------------------------------------------------------
(* A service has the order and waits for a payment, a form has the payment *)
(* and waits for the order: PostgreSQL aborts one, which is a server error.*)
PayBlocks(s, f) ==
    /\ PayLocksOrder(s)
    /\ \/ PayAt(f, "put")
       \/ PayAt(f, "write") /\ payRequest[f].to.there /\ ~payRow[payRequest[f].row].there
    /\ \E p \in payRequest[f].locks :
         \/ PayAt(s, "lock_row") /\ payRequest[s].row = p
         \/ PayAt(s, "lock_rows") /\ p \in PayToCancel(s) /\ \A q \in PayToCancel(s) : p <= q
PayVictim(r) ==
    /\ \E q \in PayRequests : PayBlocks(r, q) \/ PayBlocks(q, r)
    /\ PayEnd(r)
    /\ UNCHANGED <<payOrder, payRow, payClock>>

-----------------------------------------------------------------------------
(* An order as the checkout leaves it, one paid since, one cancelled.      *)
PayInit ==
    \E p \in PayRows, status \in {"pending", "succeeded", "cancelled"} :
        /\ payOrder = [cancelled |-> status = "cancelled", payment |-> status]
        /\ payRow = [q \in PayRows |-> IF q = p THEN [there |-> TRUE, manual |-> TRUE,
                                                      status |-> status, at |-> 0]
                                       ELSE PayNoRow]
        /\ payClock = 0
        /\ payRequest = [r \in PayRequests |-> PayNew]

PayStep(r) ==
    \/ PayLockOrder(r) \/ PayLockRows(r) \/ PayRowsLocked(r) \/ PayChoose(r)
    \/ PayLockRow(r) \/ PayServiceEnds(r) \/ PayStamp(r) \/ PayWrite(r)
    \/ PaySync(r) \/ PayPut(r) \/ PayVictim(r)

PayNext ==
    \E r \in PayRequests :
        \/ \E kind \in PayServices, status \in PayStatuses :
             (kind = "cancel" => status = "cancelled") /\ PayAsk(r, kind, status)
        \/ \E kind \in PayForms, p \in PayRows, manual \in BOOLEAN, status \in PayStatuses :
             PayPost(r, kind, p, manual, status)
        \/ PayStep(r)

PaySpec == PayInit /\ [][PayNext]_payVars

-----------------------------------------------------------------------------
PayTypeOK ==
    /\ payOrder \in PayOrderType /\ payRow \in [PayRows -> PayRowType]
    /\ payClock \in Nat /\ payRequest \in [PayRequests -> PayReq]

(* "A cancelled order must not come back to life by a late direct save of  *)
(* a Payment" (PaymentStatusSyncService): whatever is paid, refunded,      *)
(* edited or deleted after a cancellation, the order goes on to say        *)
(* "cancelled", unless a form had loaded the order before that.            *)
PayCancelledStays ==
    [][payOrder.cancelled /\ payOrder.payment = "cancelled" /\ payOrder'.payment # "cancelled" =>
         \E r \in PayRequests : /\ PayIs(r, "put", PayForms) /\ PayAt(r, "done")'
                                /\ ~payRequest[r].copy.cancelled]_payVars
===============================================================================
