------------------------------ MODULE OrderStock ------------------------------
(***************************************************************************)
(* Orders, their manual payment and the stock they reserve, at the grain   *)
(* of one request: every handler runs inside transaction.atomic() with the *)
(* order row and the variant rows locked by SELECT ... FOR UPDATE, so each *)
(* one is a single action here.  The staff warehouse handlers, which take  *)
(* no lock, are atomic in this module too: it is the behaviour the shop    *)
(* promises, and WarehouseStock shows what interleaving does to it.        *)
(*                                                                         *)
(* An order line that lost its variant (on_delete=SET_NULL) is a line of   *)
(* quantity 0: every stock operation skips it.  Primary keys grow with     *)
(* time, so the order of Orders is also the order of confirmed_at.         *)
(***************************************************************************)
EXTENDS Naturals, FiniteSets

CONSTANTS
    Orders,        \* primary keys of the orders that may be placed
    Variants,      \* primary keys of product variants
    Groups,        \* the sets of variants a product or a category row owns
    MaxStock,      \* bound: largest physical quantity staff enter
    MaxQtyPerSku,  \* CHECKOUT_MAX_QTY_PER_SKU
    BatchSize,     \* ORDER_AUTO_CANCEL_BATCH_SIZE
    MaxCrashes     \* bound: worker crashes considered

ASSUME ConstantsAssumption ==
    /\ IsFiniteSet(Orders) /\ Orders \subseteq Nat
    /\ Groups \subseteq SUBSET Variants
    /\ MaxStock \in Nat
    /\ MaxQtyPerSku \in Nat \ {0}
    /\ BatchSize \in Nat \ {0}
    /\ MaxCrashes \in Nat

VARIABLES
    order,     \* order[o]: the Order row, status "none" before checkout
    lines,     \* lines[o][v]: OrderItem.quantity
    payment,   \* payment[o]: the manual Payment row of the order
    catalog,   \* variants that have a row
    quantity,  \* ProductVariant.quantity
    reserved,  \* ProductVariant.reserved_quantity
    age,       \* age[o]: how far the pickup retention of o has run
    sweep,     \* orders the auto-cancel task has selected and not yet handled
    crashes    \* worker crashes so far

orderVars == <<order, lines, payment>>
stockVars == <<catalog, quantity, reserved>>
taskVars  == <<age, sweep, crashes>>
vars == <<order, lines, payment, catalog, quantity, reserved, age, sweep, crashes>>

-----------------------------------------------------------------------------
(* Status vocabularies. "none" is an order that has not been placed.       *)

Status == {"none", "draft", "placed", "awaiting_payment", "paid", "processing",
           "shipped", "delivered", "cancelled", "refunded"}
PaymentStatus == {"none", "pending", "requires_action", "succeeded", "failed",
                  "cancelled", "refunded"}
FulfillmentStatus == {"none", "new", "reserved", "packing", "shipped",
                      "delivered", "returned", "cancelled"}

OrderRow == [status : Status, fulfillment_status : FulfillmentStatus,
             payment_status : PaymentStatus, paid_at : BOOLEAN]
PaymentRow == [status : PaymentStatus, paid_at : BOOLEAN]

Unplaced == [status |-> "none", fulfillment_status |-> "none",
             payment_status |-> "none", paid_at |-> FALSE]
NoPayment == [status |-> "none", paid_at |-> FALSE]

Placed(o) == order[o].status # "none"

(* OrderStatusPolicy: the orders that still hold a reservation.            *)
RESERVE_TERMINAL_ORDER_STATUSES == {"cancelled", "delivered", "refunded"}
RESERVE_TERMINAL_FULFILLMENT_STATUSES == {"cancelled", "delivered", "returned"}

ReserveRelevant(o) ==
    /\ Placed(o)
    /\ order[o].status \notin RESERVE_TERMINAL_ORDER_STATUSES
    /\ order[o].fulfillment_status \notin RESERVE_TERMINAL_FULFILLMENT_STATUSES

(* The five staff-facing keys derived from the two status columns.         *)
StatusKey(o) ==
    CASE \/ order[o].status = "cancelled"
         \/ order[o].fulfillment_status = "cancelled"             -> "cancelled"
      [] order[o].fulfillment_status = "delivered"                -> "issued"
      [] order[o].fulfillment_status = "reserved"                 -> "ready"
      [] order[o].fulfillment_status \in {"packing", "shipped"}   -> "processing"
      [] OTHER                                                    -> "new"

FINAL_STATUS_KEYS == {"issued", "cancelled"}

STATUS_TRANSITIONS(key) ==
    CASE key = "new"        -> {"new", "processing", "ready", "cancelled"}
      [] key = "processing" -> {"processing", "ready", "cancelled"}
      [] key = "ready"      -> {"ready", "processing", "issued", "cancelled"}
      [] key = "issued"     -> {"issued"}
      [] key = "cancelled"  -> {"cancelled"}

-----------------------------------------------------------------------------
(* Stock of one variant.                                                   *)

Available(v) == quantity[v] - reserved[v]   \* reserved <= quantity, see TypeOK

(* Fault: stock is reserved without looking at what is left.               *)
UncheckedReserve(v, n) == v \in catalog
CanReserve(v, n) == v \in catalog /\ quantity[v] >= reserved[v] + n

(* release_variant_reservation: a shortage is logged and clamped at zero.  *)
(* Fault: cancelling forgets the reservation.                              *)
ReleasedNothing(v, n) == reserved[v]
Released(v, n) == IF n <= reserved[v] THEN reserved[v] - n ELSE 0

(* issue_variant: refused unless both columns cover the line.              *)
CanIssueVariant(v, n) == n <= quantity[v] /\ n <= reserved[v]

-----------------------------------------------------------------------------
(* Checkout.                                                               *)

CartLines == [Variants -> 0..(MaxQtyPerSku + 1)]

(* The cart lines that become order lines: the variant row still exists,   *)
(* its product is on sale and something is available.  The rest is dropped *)
(* from the cart.                                                          *)
Processable(cart, on_sale) ==
    {v \in Variants : /\ cart[v] > 0
                      /\ v \in catalog \cap on_sale
                      /\ Available(v) > 0}

(* create_order_from_cart: a line above the SKU limit or above what is     *)
(* available fails the whole checkout; otherwise order, lines, manual      *)
(* payment and reservations are written together.                          *)
PlaceOrder(o, cart, on_sale) ==
    /\ ~Placed(o)
    /\ \A p \in Orders : p < o => Placed(p)
    /\ Processable(cart, on_sale) # {}
    /\ \A v \in Processable(cart, on_sale) :
          cart[v] <= MaxQtyPerSku /\ CanReserve(v, cart[v])
    /\ order' = [order EXCEPT ![o] =
                   [status |-> "placed", fulfillment_status |-> "new",
                    payment_status |-> "pending", paid_at |-> FALSE]]
    /\ lines' = [lines EXCEPT ![o] =
                   [v \in Variants |->
                      IF v \in Processable(cart, on_sale) THEN cart[v] ELSE 0]]
    /\ payment' = [payment EXCEPT ![o] = [status |-> "pending", paid_at |-> FALSE]]
    /\ reserved' = [v \in Variants |->
                      IF v \in Processable(cart, on_sale)
                      THEN reserved[v] + cart[v] ELSE reserved[v]]
    /\ UNCHANGED <<catalog, quantity, age, sweep, crashes>>

-----------------------------------------------------------------------------
(* Cancellation.                                                           *)

CANCELLABLE_ORDER_STATUSES == {"placed", "awaiting_payment", "processing"}
CANCELLABLE_FULFILLMENT_STATUSES == {"new", "reserved"}
NON_CANCELLABLE_PAYMENT_STATUSES == {"succeeded", "refunded"}

(* Fault: only the money decides what may still be cancelled.              *)
CancellableUnlessPaid(o) ==
    /\ Placed(o)
    /\ order[o].payment_status \notin NON_CANCELLABLE_PAYMENT_STATUSES

CanBeCancelled(o) ==
    /\ order[o].status \in CANCELLABLE_ORDER_STATUSES
    /\ order[o].fulfillment_status \in CANCELLABLE_FULFILLMENT_STATUSES
    /\ order[o].payment_status \notin NON_CANCELLABLE_PAYMENT_STATUSES

(* _cancel_manual_payments: also what a repeated cancellation runs.        *)
CancelledPayments(o) ==
    [payment EXCEPT ![o] = [status |-> "cancelled", paid_at |-> FALSE]]

CancelOrder(o) ==
    \/ /\ order[o].status = "cancelled"            \* idempotent second call
       /\ payment' = CancelledPayments(o)
       /\ UNCHANGED <<order, lines, stockVars>>
    \/ /\ CanBeCancelled(o)
       /\ order' = [order EXCEPT ![o].status = "cancelled",
                                 ![o].fulfillment_status = "cancelled",
                                 ![o].payment_status = "cancelled"]
       /\ payment' = CancelledPayments(o)
       /\ reserved' = [v \in Variants |->
                         IF lines[o][v] > 0 THEN Released(v, lines[o][v])
                                            ELSE reserved[v]]
       /\ UNCHANGED <<lines, catalog, quantity>>

CustomerCancel(o) == CancelOrder(o) /\ UNCHANGED taskVars

-----------------------------------------------------------------------------
(* Staff dashboard: order status.                                          *)

MayMove(o, next) ==
    /\ Placed(o)
    /\ StatusKey(o) \notin FINAL_STATUS_KEYS
    /\ next \in STATUS_TRANSITIONS(StatusKey(o))
    /\ next # StatusKey(o)

StaffCancel(o) ==
    /\ MayMove(o, "cancelled")
    /\ CancelOrder(o)
    /\ UNCHANGED taskVars

(* apply_status: the columns behind the two keys staff can move an open    *)
(* order to.                                                               *)
(* Fault: packing starts without taking the order out of "placed".         *)
PackedOnly(key) ==
    [status |-> IF key = "processing" THEN "placed" ELSE "processing",
     fulfillment_status |-> IF key = "processing" THEN "packing" ELSE "reserved"]
Columns(key) ==
    [status |-> "processing",
     fulfillment_status |-> IF key = "processing" THEN "packing" ELSE "reserved"]

StaffPrepare(o, next) ==
    /\ next \in {"processing", "ready"}
    /\ MayMove(o, next)
    /\ order' = [order EXCEPT
                   ![o].status = Columns(next).status,
                   ![o].fulfillment_status = Columns(next).fulfillment_status]
    /\ UNCHANGED <<lines, payment, stockVars, taskVars>>

CanBeIssued(o) ==
    /\ order[o].status = "processing"
    /\ order[o].fulfillment_status = "reserved"
    /\ order[o].payment_status = "succeeded"

(* The status flow asks for the money before the issue service does.       *)
StaffIssue(o) ==
    /\ MayMove(o, "issued")
    /\ order[o].payment_status = "succeeded"
    /\ CanBeIssued(o)
    /\ \A v \in Variants : CanIssueVariant(v, lines[o][v])
    /\ quantity' = [v \in Variants |-> quantity[v] - lines[o][v]]
    /\ reserved' = [v \in Variants |-> reserved[v] - lines[o][v]]
    /\ order' = [order EXCEPT ![o].status = "delivered",
                              ![o].fulfillment_status = "delivered"]
    /\ UNCHANGED <<lines, payment, catalog, taskVars>>

-----------------------------------------------------------------------------
(* Staff dashboard: manual payment.                                        *)

ALLOWED_PAYMENT_STATUSES == {"pending", "succeeded", "failed", "cancelled", "refunded"}

(* Fault: paid_at survives a failed payment.                               *)
ResetOnlyOnCancel == {"cancelled"}
RESET_PAID_AT_STATUSES == {"pending", "failed", "cancelled"}

(* Fault: money taken back does not reach an order that was paid.          *)
SyncedUnlessPaid(o, row) ==
    IF order[o].status = "cancelled" THEN "cancelled"
    ELSE IF order[o].payment_status = "succeeded" THEN "succeeded" ELSE row.status

(* resolve/sync_order_payment_status for an order with one payment row:    *)
(* a cancelled order stays cancelled whatever its payment says.            *)
SyncedPaymentStatus(o, row) ==
    IF order[o].status = "cancelled" THEN "cancelled" ELSE row.status

(* Fault: a cancelled order can still be marked as paid.                   *)
UpdatableEvenIfCancelled(o, next) ==
    /\ Placed(o)
    /\ next = "refunded" => "succeeded" \in {payment[o].status, order[o].payment_status}

CanUpdatePayment(o, next) ==
    /\ Placed(o)
    /\ ~(order[o].status = "cancelled" /\ next = "succeeded")
    /\ next = "refunded" => "succeeded" \in {payment[o].status, order[o].payment_status}

PaidAt(next, paid_at) ==
    next = "succeeded" \/ (paid_at /\ next \notin RESET_PAID_AT_STATUSES)

UpdatePayment(o, next) ==
    LET row == [status |-> next, paid_at |-> PaidAt(next, payment[o].paid_at)] IN
    /\ CanUpdatePayment(o, next)
    /\ payment' = [payment EXCEPT ![o] = row]
    /\ order' = [order EXCEPT ![o].payment_status = SyncedPaymentStatus(o, row),
                              ![o].paid_at = PaidAt(next, order[o].paid_at)]
    /\ UNCHANGED <<lines, stockVars, taskVars>>

-----------------------------------------------------------------------------
(* Expiry: the beat task selects a batch without locks, then cancels the   *)
(* orders one transaction at a time.                                       *)

Ages == {"fresh", "past_cutoff", "expired"}
AgeRank(a) == CASE a = "fresh" -> 0 [] a = "past_cutoff" -> 1 [] a = "expired" -> 2

(* Time passes: an order is past the rough cutoff (calendar days) no later *)
(* than past its deadline (business days), and an older order is past the  *)
(* cutoff first.  Deadlines come in any order: business days added to a    *)
(* start on a weekend may end before those added to an earlier start.  The *)
(* age of an order that holds no reservation is irrelevant.                *)
Elapse(o) ==
    /\ ReserveRelevant(o)
    /\ \E a \in Ages :
         /\ AgeRank(a) = AgeRank(age[o]) + 1
         /\ a = "past_cutoff" =>
              \A p \in Orders : p < o /\ ReserveRelevant(p) => age[p] # "fresh"
         /\ age' = [age EXCEPT ![o] = a]
    /\ UNCHANGED <<orderVars, stockVars, sweep, crashes>>

(* Fault: the sweep looks at new orders only.                              *)
OnlyPlacedCandidates ==
    {o \in Orders : /\ order[o].status = "placed"
                    /\ CanBeCancelled(o)
                    /\ age[o] # "fresh"}

ExpiryCandidates ==
    {o \in Orders : CanBeCancelled(o) /\ age[o] # "fresh"}

OldestFirst(S) == {o \in S : Cardinality({p \in S : p < o}) < BatchSize}

SelectExpired ==
    /\ sweep' = sweep \cup {o \in OldestFirst(ExpiryCandidates) : age[o] = "expired"}
    /\ UNCHANGED <<orderVars, stockVars, age, crashes>>

(* One iteration of the loop; OrderCancellationError is counted and the    *)
(* loop goes on.                                                           *)
AutoCancel(o) ==
    /\ o \in sweep
    /\ sweep' = sweep \ {o}
    /\ \/ CancelOrder(o)
       \/ /\ order[o].status # "cancelled" /\ ~CanBeCancelled(o)
          /\ UNCHANGED <<orderVars, stockVars>>
    /\ UNCHANGED <<age, crashes>>

(* A worker dies and forgets the candidates it had loaded.                 *)
WorkerCrash ==
    /\ sweep # {}
    /\ crashes < MaxCrashes
    /\ crashes' = crashes + 1
    /\ sweep' = {}
    /\ UNCHANGED <<orderVars, stockVars, age>>

-----------------------------------------------------------------------------
(* Warehouse.                                                              *)

CreateVariant(v, q) ==
    /\ v \notin catalog
    /\ catalog' = catalog \cup {v}
    /\ quantity' = [quantity EXCEPT ![v] = q]
    /\ reserved' = [reserved EXCEPT ![v] = 0]
    /\ UNCHANGED <<orderVars, taskVars>>

(* clean_quantity: never below the reservation.                            *)
SetStock(v, q) ==
    /\ v \in catalog
    /\ q >= reserved[v]
    /\ quantity' = [quantity EXCEPT ![v] = q]
    /\ UNCHANGED <<orderVars, catalog, reserved, taskVars>>

UsedByOpenOrder(v) == \E o \in Orders : ReserveRelevant(o) /\ lines[o][v] > 0

(* Fault: only orders nobody works on protect the row.                     *)
ReservedAndNotReady(v) ==
    /\ reserved[v] > 0
    /\ \E o \in Orders : /\ ReserveRelevant(o) /\ lines[o][v] > 0
                         /\ StatusKey(o) = "new"

VariantHasActiveReservations(v) == reserved[v] > 0 /\ UsedByOpenOrder(v)

(* DELETE of variant rows: their order lines are detached.                 *)
RemoveVariants(vs) ==
    /\ catalog' = catalog \ vs
    /\ quantity' = [v \in Variants |-> IF v \in vs THEN 0 ELSE quantity[v]]
    /\ reserved' = [v \in Variants |-> IF v \in vs THEN 0 ELSE reserved[v]]
    /\ lines' = [o \in Orders |->
                   [v \in Variants |-> IF v \in vs THEN 0 ELSE lines[o][v]]]
    /\ UNCHANGED <<order, payment, taskVars>>

DeleteVariant(v) ==
    /\ v \in catalog
    /\ ~VariantHasActiveReservations(v)
    /\ RemoveVariants({v})

(* delete_product and delete_category share one rule and cascade.          *)
DeleteGroup(vs) ==
    /\ vs \cap catalog # {}
    /\ \A v \in vs : ~UsedByOpenOrder(v)
    /\ RemoveVariants(vs)

-----------------------------------------------------------------------------
Init ==
    /\ order = [o \in Orders |-> Unplaced]
    /\ lines = [o \in Orders |-> [v \in Variants |-> 0]]
    /\ payment = [o \in Orders |-> NoPayment]
    /\ catalog = {}
    /\ quantity = [v \in Variants |-> 0]
    /\ reserved = [v \in Variants |-> 0]
    /\ age = [o \in Orders |-> "fresh"]
    /\ sweep = {}
    /\ crashes = 0

RequestNext(o) ==
    \/ \E cart \in CartLines, on_sale \in SUBSET Variants : PlaceOrder(o, cart, on_sale)
    \/ CustomerCancel(o)
    \/ StaffCancel(o)
    \/ \E next \in {"processing", "ready"} : StaffPrepare(o, next)
    \/ StaffIssue(o)
    \/ \E next \in ALLOWED_PAYMENT_STATUSES : UpdatePayment(o, next)

ExpiryNext ==
    \/ \E o \in Orders : Elapse(o) \/ AutoCancel(o)
    \/ SelectExpired
    \/ WorkerCrash

WarehouseNext ==
    \/ \E v \in Variants, q \in 0..MaxStock : CreateVariant(v, q) \/ SetStock(v, q)
    \/ \E v \in Variants : DeleteVariant(v)
    \/ \E vs \in Groups : DeleteGroup(vs)

Next ==
    \/ \E o \in Orders : RequestNext(o)
    \/ ExpiryNext
    \/ WarehouseNext

Spec == Init /\ [][Next]_vars

(* Beat re-runs the task for ever, a running worker finishes its loop, and *)
(* time passes: the deadline of an order that stays open arrives.          *)
Fairness ==
    /\ WF_vars(SelectExpired)
    /\ \A o \in Orders : WF_vars(AutoCancel(o)) /\ WF_vars(Elapse(o))
FairSpec == Spec /\ Fairness

-----------------------------------------------------------------------------
(* Properties.                                                             *)

(* Every column keeps its type, and the database check constraint          *)
(* product_variant_reserved_lte_quantity holds.                            *)
TypeOK ==
    /\ order \in [Orders -> OrderRow]
    /\ lines \in [Orders -> [Variants -> 0..MaxQtyPerSku]]
    /\ payment \in [Orders -> PaymentRow]
    /\ catalog \subseteq Variants
    /\ quantity \in [Variants -> Nat]
    /\ reserved \in [Variants -> Nat]
    /\ \A v \in Variants : reserved[v] <= quantity[v]
    /\ age \in [Orders -> Ages]
    /\ sweep \subseteq Orders
    /\ crashes \in 0..MaxCrashes

(* The units of v that open orders have been promised.                     *)
Promised(v) ==
    {u \in Orders \X (1..MaxQtyPerSku) : ReserveRelevant(u[1]) /\ u[2] <= lines[u[1]][v]}

(* reserved_quantity is exactly what open orders hold: no path reserves    *)
(* twice, releases twice or forgets a release; and nothing is promised of  *)
(* a variant that has no row.                                              *)
ReservationExact ==
    \A v \in Variants :
        /\ reserved[v] = Cardinality(Promised(v))
        /\ v \notin catalog => Promised(v) = {}

(* The two status columns only ever take the five combinations the staff   *)
(* keys stand for, so StatusKey loses nothing.                             *)
StatusPairs ==
    {<<"none", "none">>, <<"placed", "new">>, <<"processing", "packing">>,
     <<"processing", "reserved">>, <<"delivered", "delivered">>,
     <<"cancelled", "cancelled">>}
StatusCoherent ==
    \A o \in Orders : <<order[o].status, order[o].fulfillment_status>> \in StatusPairs

(* An open order can always be served from the shelf: neither the forced   *)
(* release nor the "stock or reservation too small" refusal of             *)
(* issue_variant is ever reached.                                          *)
PromiseKept ==
    \A o \in Orders, v \in Variants :
        ReserveRelevant(o) => lines[o][v] <= reserved[v] /\ lines[o][v] <= quantity[v]

(* A cancelled order never holds money: no payment status that counts as   *)
(* received and no paid_at, on the order or on its payment, whatever staff *)
(* do to the payment afterwards.                                           *)
CancelledHoldsNoMoney ==
    \A o \in Orders : order[o].status = "cancelled" =>
        /\ order[o].payment_status = "cancelled" /\ ~order[o].paid_at
        /\ payment[o].status \notin {"succeeded", "refunded"} /\ ~payment[o].paid_at

(* The order agrees with its payment row, and paid_at is set exactly when  *)
(* money was received (a refund keeps the date).                           *)
PaymentMirrored ==
    \A o \in Orders :
        /\ order[o].status # "cancelled" => order[o].payment_status = payment[o].status
        /\ order[o].paid_at <=> order[o].payment_status \in {"succeeded", "refunded"}
        /\ payment[o].paid_at = order[o].paid_at

(* Goods leave the shelf only with an order that was ready, whose money is *)
(* in (on the order and on its payment row), and by exactly its lines; the *)
(* reservation goes with them.                                             *)
StockLeavesWithPaidOrder ==
    [][ \A o \in Orders :
          order[o].status # "delivered" /\ order'[o].status = "delivered" =>
            /\ order[o].fulfillment_status = "reserved"
            /\ order[o].payment_status = "succeeded" /\ order[o].paid_at
            /\ payment[o].status = "succeeded"
            /\ \A v \in Variants : /\ quantity'[v] = quantity[v] - lines[o][v]
                                   /\ reserved'[v] = reserved[v] - lines[o][v] ]_vars

(* A cancelled or issued order keeps that status for ever.                 *)
FinalIsFinal ==
    [][ \A o \in Orders : order[o].status \in {"cancelled", "delivered"} =>
          /\ order'[o].status = order[o].status
          /\ order'[o].fulfillment_status = order[o].fulfillment_status ]_vars

(* Deleting a variant, a product or a category never takes a row away from *)
(* an open order.  For a variant the code looks at reserved_quantity       *)
(* first, so this rests on ReservationExact.                               *)
DeleteSparesOpenOrders ==
    [][ \A v \in catalog \ catalog' : ~UsedByOpenOrder(v) ]_vars

(* An expired order that may be cancelled does not stay so for ever, even  *)
(* though a run takes only the oldest BatchSize candidates, which may all  *)
(* be past the cutoff and not yet due, and a worker may die between        *)
(* selecting and cancelling.  The premise rules out staff  *)
(* who for ever move older orders out of and back into the cancellable     *)
(* statuses just in time to waste every batch.                             *)
NoneBecomesCancellableAgain ==
    \A o \in Orders : Placed(o) /\ CanBeCancelled(o)' => CanBeCancelled(o)
ExpiredEventuallyReleased ==
    <>[][NoneBecomesCancellableAgain]_vars =>
        \A o \in Orders :
            (CanBeCancelled(o) /\ age[o] = "expired") ~> ~CanBeCancelled(o)

(* The fulfilment diagram of README.md lets an order be cancelled from     *)
(* new, packing and reserved.                                              *)
OpenUnpaidIsCancellable ==
    \A o \in Orders :
        /\ ReserveRelevant(o)
        /\ order[o].payment_status \notin NON_CANCELLABLE_PAYMENT_STATUSES
        => CanBeCancelled(o)
===============================================================================
