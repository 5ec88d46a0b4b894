--------------------------- MODULE OrderStockProofs ---------------------------
(***************************************************************************)
(* What OrderStock guarantees for every set of orders and variants, every  *)
(* stock bound and every batch size: about stock, about money, about final *)
(* states and about the orders that their customers cannot get out of.     *)
(***************************************************************************)
EXTENDS OrderStock, FiniteSetTheorems, TLAPS

-----------------------------------------------------------------------------
(* Type correctness.                                                       *)

(* Cancelling keeps the types: a release is clamped, so reserved_quantity  *)
(* neither goes negative nor grows past quantity.                          *)
LEMMA CancelOrderType ==
    ASSUME TypeOK, NEW o \in Orders, CancelOrder(o)
    PROVE  /\ order' \in [Orders -> OrderRow]
           /\ lines' \in [Orders -> [Variants -> 0..MaxQtyPerSku]]
           /\ payment' \in [Orders -> PaymentRow]
           /\ catalog' \subseteq Variants
           /\ quantity' \in [Variants -> Nat]
           /\ reserved' \in [Variants -> Nat]
           /\ \A v \in Variants : reserved'[v] <= quantity'[v]
  <1>1. CASE order[o].status = "cancelled" /\ UNCHANGED <<order, lines, stockVars>>
             /\ payment' = CancelledPayments(o)
    BY <1>1 DEF TypeOK, CancelledPayments, PaymentRow, PaymentStatus, stockVars
  <1>2. CASE /\ CanBeCancelled(o)
             /\ order' = [order EXCEPT ![o].status = "cancelled",
                                       ![o].fulfillment_status = "cancelled",
                                       ![o].payment_status = "cancelled"]
             /\ payment' = CancelledPayments(o)
             /\ reserved' = [v \in Variants |->
                               IF lines[o][v] > 0 THEN Released(v, lines[o][v])
                                                  ELSE reserved[v]]
             /\ UNCHANGED <<lines, catalog, quantity>>
    <2>1. order' \in [Orders -> OrderRow]
      BY <1>2 DEF TypeOK, OrderRow, Status, FulfillmentStatus, PaymentStatus
    <2>2. payment' \in [Orders -> PaymentRow]
      BY <1>2 DEF TypeOK, CancelledPayments, PaymentRow, PaymentStatus
    <2>3. \A v \in Variants : /\ reserved'[v] \in Nat
                              /\ reserved'[v] <= reserved[v]
      BY <1>2, ConstantsAssumption DEF TypeOK, Released
    <2>4. reserved' \in [Variants -> Nat]
      BY <1>2, <2>3
    <2>5. QED
      BY <1>2, <2>1, <2>2, <2>3, <2>4 DEF TypeOK
  <1>3. QED
    BY <1>1, <1>2 DEF CancelOrder

(* One step preserves the types.                                           *)
LEMMA TypeStep ==
    ASSUME TypeOK, [Next]_vars
    PROVE  TypeOK'
  <1> USE ConstantsAssumption
  <1>1. ASSUME NEW o \in Orders, NEW cart \in CartLines, NEW on_sale \in SUBSET Variants,
               PlaceOrder(o, cart, on_sale)
        PROVE  TypeOK'
    <2>1. order' \in [Orders -> OrderRow] /\ payment' \in [Orders -> PaymentRow]
      BY <1>1 DEF PlaceOrder, TypeOK, OrderRow, PaymentRow, Status,
                  FulfillmentStatus, PaymentStatus
    <2>2. \A v \in Processable(cart, on_sale) : cart[v] \in 0..MaxQtyPerSku
      BY <1>1 DEF PlaceOrder, CartLines, Processable
    <2>3. lines' \in [Orders -> [Variants -> 0..MaxQtyPerSku]]
      BY <1>1, <2>2 DEF PlaceOrder, TypeOK
    <2>4. \A v \in Variants : reserved'[v] \in Nat /\ reserved'[v] <= quantity[v]
      BY <1>1, <2>2 DEF PlaceOrder, TypeOK, CanReserve
    <2>5. QED
      BY <1>1, <2>1, <2>3, <2>4 DEF PlaceOrder, TypeOK
  <1>2. ASSUME NEW o \in Orders, CustomerCancel(o) \/ StaffCancel(o)
        PROVE  TypeOK'
    <2>1. CancelOrder(o) /\ UNCHANGED taskVars
      BY <1>2 DEF CustomerCancel, StaffCancel
    <2>2. QED
      BY <2>1, CancelOrderType DEF TypeOK, taskVars
  <1>3. ASSUME NEW o \in Orders, NEW next \in {"processing", "ready"}, StaffPrepare(o, next)
        PROVE  TypeOK'
    <2>1. /\ Columns(next).status \in Status
          /\ Columns(next).fulfillment_status \in FulfillmentStatus
      BY DEF Columns, Status, FulfillmentStatus
    <2>2. order' = [order EXCEPT ![o].status = Columns(next).status,
                                 ![o].fulfillment_status = Columns(next).fulfillment_status]
      BY <1>3 DEF StaffPrepare
    <2>3. order' \in [Orders -> OrderRow]
      BY <2>1, <2>2 DEF TypeOK, OrderRow
    <2>4. QED
      BY <1>3, <2>3 DEF StaffPrepare, TypeOK, stockVars, taskVars
  <1>4. ASSUME NEW o \in Orders, StaffIssue(o)
        PROVE  TypeOK'
    <2>1. order' \in [Orders -> OrderRow]
      BY <1>4 DEF StaffIssue, TypeOK, OrderRow, Status, FulfillmentStatus
    <2>2. \A v \in Variants : lines[o][v] \in Nat
      BY DEF TypeOK
    <2>3. \A v \in Variants : /\ quantity'[v] \in Nat /\ reserved'[v] \in Nat
                              /\ reserved'[v] <= quantity'[v]
      BY <1>4, <2>2 DEF StaffIssue, TypeOK, CanIssueVariant
    <2>4. QED
      BY <1>4, <2>1, <2>3 DEF StaffIssue, TypeOK, taskVars
  <1>5. ASSUME NEW o \in Orders, NEW next \in ALLOWED_PAYMENT_STATUSES, UpdatePayment(o, next)
        PROVE  TypeOK'
    <2> DEFINE row == [status |-> next, paid_at |-> PaidAt(next, payment[o].paid_at)]
    <2>1. \A b \in BOOLEAN : PaidAt(next, b) \in BOOLEAN
      BY DEF PaidAt
    <2>2. next \in PaymentStatus
      BY DEF ALLOWED_PAYMENT_STATUSES, PaymentStatus
    <2>3. row \in PaymentRow
      BY <2>1, <2>2 DEF TypeOK, PaymentRow
    <2>4. payment' \in [Orders -> PaymentRow]
      BY <1>5, <2>3 DEF UpdatePayment, TypeOK
    <2>5. SyncedPaymentStatus(o, row) \in PaymentStatus
      BY <2>2 DEF SyncedPaymentStatus, PaymentStatus
    <2>6. PaidAt(next, order[o].paid_at) \in BOOLEAN
      BY <2>1 DEF TypeOK, OrderRow
    <2> HIDE DEF row
    <2>7. order' = [order EXCEPT ![o].payment_status = SyncedPaymentStatus(o, row),
                                 ![o].paid_at = PaidAt(next, order[o].paid_at)]
      BY <1>5 DEF UpdatePayment, row
    <2>8. order' \in [Orders -> OrderRow]
      BY <2>5, <2>6, <2>7 DEF TypeOK, OrderRow
    <2>9. QED
      BY <1>5, <2>4, <2>8 DEF UpdatePayment, TypeOK, stockVars, taskVars
  <1>6. ASSUME NEW o \in Orders, Elapse(o)
        PROVE  TypeOK'
    BY <1>6 DEF Elapse, TypeOK, orderVars, stockVars
  <1>7. ASSUME NEW o \in Orders, AutoCancel(o)
        PROVE  TypeOK'
    <2>1. CASE CancelOrder(o)
      BY <1>7, <2>1, CancelOrderType DEF AutoCancel, TypeOK
    <2>2. CASE UNCHANGED <<orderVars, stockVars>>
      BY <1>7, <2>2 DEF AutoCancel, TypeOK, orderVars, stockVars
    <2>3. QED
      BY <1>7, <2>1, <2>2 DEF AutoCancel
  <1>8. CASE SelectExpired
    BY <1>8 DEF SelectExpired, OldestFirst, ExpiryCandidates, TypeOK, orderVars, stockVars
  <1>9. CASE WorkerCrash
    BY <1>9 DEF WorkerCrash, TypeOK, orderVars, stockVars
  <1>10. ASSUME NEW v \in Variants, NEW q \in 0..MaxStock,
                CreateVariant(v, q) \/ SetStock(v, q)
         PROVE  TypeOK'
    <2>1. CASE CreateVariant(v, q)
      BY <2>1 DEF CreateVariant, TypeOK, orderVars, taskVars
    <2>2. CASE SetStock(v, q)
      BY <2>2 DEF SetStock, TypeOK, orderVars, taskVars
    <2>3. QED
      BY <1>10, <2>1, <2>2
  <1>11. ASSUME NEW vs \in SUBSET Variants, RemoveVariants(vs)
         PROVE  TypeOK'
    BY <1>11 DEF RemoveVariants, TypeOK, taskVars
  <1>12. CASE UNCHANGED vars
    BY <1>12 DEF vars, TypeOK
  <1>13. QED
    BY <1>1, <1>2, <1>3, <1>4, <1>5, <1>6, <1>7, <1>8, <1>9, <1>10, <1>11, <1>12
       DEF Next, RequestNext, ExpiryNext, WarehouseNext, DeleteVariant, DeleteGroup

(* Every row keeps its type and the check constraint reserved <= quantity  *)
(* is never hit: store.models.ProductVariant, orders.models.Order.         *)
THEOREM TypeCorrect == Spec => []TypeOK
  <1>1. Init => TypeOK
    BY ConstantsAssumption
       DEF Init, TypeOK, Unplaced, NoPayment, OrderRow, PaymentRow, Status,
           FulfillmentStatus, PaymentStatus, Ages
  <1>2. TypeOK /\ [Next]_vars => TypeOK'
    BY TypeStep
  <1>3. QED
    BY <1>1, <1>2, PTL DEF Spec

-----------------------------------------------------------------------------
(* Status columns.                                                         *)

(* One step keeps the two status columns in step.                          *)
LEMMA StatusStep ==
    ASSUME TypeOK, StatusCoherent, [Next]_vars
    PROVE  StatusCoherent'
  <1> USE DEF StatusPairs
  <1>1. ASSUME NEW o \in Orders, NEW cart \in CartLines, NEW on_sale \in SUBSET Variants,
               PlaceOrder(o, cart, on_sale)
        PROVE  StatusCoherent'
    BY <1>1 DEF PlaceOrder, TypeOK, StatusCoherent
  <1>2. ASSUME NEW o \in Orders, CancelOrder(o)
        PROVE  StatusCoherent'
    BY <1>2 DEF CancelOrder, TypeOK, OrderRow, StatusCoherent
  <1>3. ASSUME NEW o \in Orders, NEW next \in {"processing", "ready"}, StaffPrepare(o, next)
        PROVE  StatusCoherent'
    BY <1>3 DEF StaffPrepare, Columns, TypeOK, OrderRow, StatusCoherent
  <1>4. ASSUME NEW o \in Orders, StaffIssue(o)
        PROVE  StatusCoherent'
    BY <1>4 DEF StaffIssue, TypeOK, OrderRow, StatusCoherent
  <1>5. ASSUME NEW o \in Orders, NEW next \in ALLOWED_PAYMENT_STATUSES, UpdatePayment(o, next)
        PROVE  StatusCoherent'
    <2>1. PICK s, d : order' = [order EXCEPT ![o].payment_status = s, ![o].paid_at = d]
      BY <1>5 DEF UpdatePayment
    <2>2. \A p \in Orders : /\ order'[p].status = order[p].status
                            /\ order'[p].fulfillment_status = order[p].fulfillment_status
      BY <2>1 DEF TypeOK, OrderRow
    <2>3. QED
      BY <2>2 DEF StatusCoherent
  <1>6. CASE UNCHANGED order
    BY <1>6 DEF StatusCoherent
  <1>7. QED
    BY <1>1, <1>2, <1>3, <1>4, <1>5, <1>6
       DEF Next, RequestNext, ExpiryNext, WarehouseNext, DeleteVariant, DeleteGroup, RemoveVariants,
           CreateVariant, SetStock, SelectExpired, WorkerCrash, Elapse, AutoCancel,
           CustomerCancel, StaffCancel, orderVars, vars

(* status and fulfillment_status never drift apart, so the staff key       *)
(* computed by OrderStatusPolicy.get_status_key identifies both.           *)
THEOREM StatusesCoherent == Spec => []StatusCoherent
  <1>1. Init => StatusCoherent
    BY DEF Init, StatusCoherent, StatusPairs, Unplaced
  <1>2. TypeOK /\ StatusCoherent /\ [Next]_vars => StatusCoherent'
    BY StatusStep
  <1>3. QED
    BY <1>1, <1>2, TypeCorrect, PTL DEF Spec

-----------------------------------------------------------------------------
(* Reservations.  Held(R, L) are the units that the orders R hold when     *)
(* order o has L[o] of them.                                               *)

Held(R, L) == {u \in Orders \X (1..MaxQtyPerSku) : u[1] \in R /\ u[2] <= L[u[1]]}
Open == {o \in Orders : ReserveRelevant(o)}
LinesOf(v) == [o \in Orders |-> lines[o][v]]

LEMMA PromisedIsHeld ==
    ASSUME NEW v \in Variants
    PROVE  Promised(v) = Held(Open, LinesOf(v))
  BY DEF Promised, Held, Open, LinesOf

LEMMA UnitsFinite == IsFiniteSet(Orders \X (1..MaxQtyPerSku))
  <1>1. IsFiniteSet(1..MaxQtyPerSku)
    BY ConstantsAssumption, FS_Interval
  <1>2. QED
    BY <1>1, ConstantsAssumption, FS_Product

LEMMA HeldFinite ==
    ASSUME NEW R, NEW L
    PROVE  IsFiniteSet(Held(R, L))
  <1>1. Held(R, L) \in SUBSET (Orders \X (1..MaxQtyPerSku))
    BY DEF Held
  <1>2. QED
    BY <1>1, UnitsFinite, FS_Subset

LEMMA OneOrderHolds ==
    ASSUME NEW o, NEW n \in Nat
    PROVE  IsFiniteSet({o} \X (1..n)) /\ Cardinality({o} \X (1..n)) = n
  <1>1. IsFiniteSet(1..n) /\ Cardinality(1..n) = n
    BY FS_Interval
  <1>2. IsFiniteSet({o}) /\ Cardinality({o}) = 1
    BY FS_Singleton
  <1>3. QED
    BY <1>1, <1>2, FS_Product

LEMMA SameElements ==
    ASSUME NEW A, NEW S \in SUBSET A, NEW T \in SUBSET A, IsFiniteSet(A),
           \A x \in A : x \in S <=> x \in T
    PROVE  Cardinality(S) = Cardinality(T)
  <1>1. S \in SUBSET T /\ T \in SUBSET S
    OBVIOUS
  <1>2. IsFiniteSet(S) /\ IsFiniteSet(T)
    BY FS_Subset
  <1>3. Cardinality(S) <= Cardinality(T) /\ Cardinality(T) <= Cardinality(S)
    BY <1>1, <1>2, FS_Subset
  <1>4. Cardinality(S) \in Nat /\ Cardinality(T) \in Nat
    BY <1>2, FS_CardinalityType
  <1>5. QED
    BY <1>3, <1>4

LEMMA UnitOf ==
    ASSUME NEW N \in Nat, NEW o \in Orders, NEW n \in Nat, n <= N,
           NEW x \in Orders \X (1..N)
    PROVE  x \in {o} \X (1..n) <=> x[1] = o /\ x[2] <= n
  OBVIOUS

(* An order that joins the open ones adds exactly its line.                *)
LEMMA HeldJoin ==
    ASSUME NEW R \in SUBSET Orders, NEW o \in Orders, o \notin R,
           NEW K \in [Orders -> 0..MaxQtyPerSku],
           NEW L \in [Orders -> 0..MaxQtyPerSku],
           \A p \in R : L[p] = K[p]
    PROVE  Cardinality(Held(R \cup {o}, L)) = Cardinality(Held(R, K)) + L[o]
  <1> DEFINE U == {o} \X (1..L[o])
             H == Held(R, K)
             S == Held(R \cup {o}, L)
             B == 1..MaxQtyPerSku
  <1> USE ConstantsAssumption
  <1>1. L[o] \in Nat /\ L[o] <= MaxQtyPerSku
    OBVIOUS
  <1>2. IsFiniteSet(U) /\ Cardinality(U) = L[o]
    BY <1>1, OneOrderHolds
  <1>3. ASSUME NEW x \in Orders \X B
        PROVE  x \in S <=> x \in H \cup U
    <2>1. x \in S <=> x[1] \in R \cup {o} /\ x[2] <= L[x[1]]
      BY DEF Held
    <2>2. x \in H <=> x[1] \in R /\ x[2] <= K[x[1]]
      BY DEF Held
    <2>3. x \in U <=> x[1] = o /\ x[2] <= L[o]
      BY <1>1, UnitOf
    <2> HIDE DEF U, H, S, B
    <2>4. QED
      BY <2>1, <2>2, <2>3
  <1>4. /\ S \in SUBSET (Orders \X B)
        /\ H \cup U \in SUBSET (Orders \X B)
        /\ IsFiniteSet(Orders \X B)
    BY <1>1, UnitsFinite DEF Held
  <1>5. H \cap U = {}
    BY DEF Held
  <1>6. IsFiniteSet(H) /\ Cardinality(H) \in Nat
    BY HeldFinite, FS_CardinalityType
  <1>7. Cardinality(H \cap U) = 0
    BY <1>5, FS_EmptySet
  <1> HIDE DEF U, H, S, B
  <1>8. Cardinality(H \cup U) = Cardinality(H) + L[o]
    <2>1. Cardinality(H \cup U)
              = Cardinality(H) + Cardinality(U) - Cardinality(H \cap U)
      BY <1>2, <1>6, FS_Union
    <2>2. QED
      BY <1>1, <1>2, <1>6, <1>7, <2>1
  <1>9. Cardinality(S) = Cardinality(H \cup U)
    <2> DEFINE A == Orders \X B
               T == H \cup U
    <2>1. /\ S \in SUBSET A /\ T \in SUBSET A /\ IsFiniteSet(A)
          /\ \A x \in A : x \in S <=> x \in T
      BY <1>3, <1>4
    <2> HIDE DEF A, T
    <2>2. Cardinality(S) = Cardinality(T)
      BY <2>1, SameElements
    <2>3. QED
      BY <2>2 DEF T
  <1>10. Cardinality(S) = Cardinality(H) + L[o]
    BY <1>8, <1>9
  <1>11. QED
    BY <1>10 DEF S, H

(* An order that leaves them takes exactly its line away.                  *)
LEMMA HeldLeave ==
    ASSUME NEW R \in SUBSET Orders, NEW o \in R,
           NEW L \in [Orders -> 0..MaxQtyPerSku]
    PROVE  /\ Cardinality(Held(R, L)) = Cardinality(Held(R \ {o}, L)) + L[o]
           /\ Held(R \ {o}, L) \subseteq Held(R, L)
  <1>1. (R \ {o}) \cup {o} = R /\ R \ {o} \in SUBSET Orders /\ o \in Orders
    OBVIOUS
  <1>2. Cardinality(Held((R \ {o}) \cup {o}, L)) = Cardinality(Held(R \ {o}, L)) + L[o]
    BY <1>1, HeldJoin
  <1>3. QED
    BY <1>1, <1>2 DEF Held

(* Nothing changes for an order whose line is unchanged.                   *)
LEMMA HeldSame ==
    ASSUME NEW R \in SUBSET Orders, NEW K, NEW L, \A p \in R : L[p] = K[p]
    PROVE  Held(R, K) = Held(R, L)
  BY DEF Held

-----------------------------------------------------------------------------
(* ReservationExact, one variant at a time.                                *)
ExactAt(v) ==
    /\ reserved[v] = Cardinality(Promised(v))
    /\ v \notin catalog => Promised(v) = {}

IInv == TypeOK /\ StatusCoherent /\ ReservationExact

LinesType == \A v \in Variants : LinesOf(v) \in [Orders -> 0..MaxQtyPerSku]

LEMMA OpenOrders == Open \in SUBSET Orders
  BY DEF Open

LEMMA LinesOfType ==
    ASSUME TypeOK
    PROVE  LinesType
  BY DEF TypeOK, LinesType, LinesOf

(* Cancelling an open order gives back what the order held.                *)
LEMMA CancelStep ==
    ASSUME TypeOK, TypeOK', NEW o \in Orders, CancelOrder(o), NEW v \in Variants, ExactAt(v)
    PROVE  ExactAt(v)'
  <1>1. CASE UNCHANGED <<order, lines, stockVars>>
    BY <1>1 DEF ExactAt, Promised, ReserveRelevant, Placed, stockVars
  <1>2. CASE /\ CanBeCancelled(o)
             /\ order' = [order EXCEPT ![o].status = "cancelled",
                                       ![o].fulfillment_status = "cancelled",
                                       ![o].payment_status = "cancelled"]
             /\ reserved' = [w \in Variants |->
                               IF lines[o][w] > 0 THEN Released(w, lines[o][w])
                                                  ELSE reserved[w]]
             /\ UNCHANGED <<lines, catalog, quantity>>
    <2>1. o \in Open
      BY <1>2 DEF Open, ReserveRelevant, CanBeCancelled, Placed, CANCELLABLE_ORDER_STATUSES,
                  CANCELLABLE_FULFILLMENT_STATUSES, RESERVE_TERMINAL_ORDER_STATUSES,
                  RESERVE_TERMINAL_FULFILLMENT_STATUSES
    <2>2. Open' = Open \ {o}
      BY <1>2 DEF Open, ReserveRelevant, Placed, TypeOK, OrderRow,
                  RESERVE_TERMINAL_ORDER_STATUSES, RESERVE_TERMINAL_FULFILLMENT_STATUSES
    <2> DEFINE n == lines[o][v]
    <2>3. LinesOf(v) \in [Orders -> 0..MaxQtyPerSku] /\ LinesOf(v)[o] = n /\ n \in Nat
      BY LinesOfType, ConstantsAssumption DEF LinesType, LinesOf, TypeOK
    <2>4. LinesOf(v)' = LinesOf(v)
      BY <1>2 DEF LinesOf
    <2>5. Promised(v) = Held(Open, LinesOf(v))
      BY PromisedIsHeld
    <2>6. Promised(v)' = Held(Open \ {o}, LinesOf(v))
      BY <2>2, <2>4 DEF Promised, Held, Open, LinesOf
    <2>7. /\ Cardinality(Held(Open, LinesOf(v)))
                = Cardinality(Held(Open \ {o}, LinesOf(v))) + n
          /\ Held(Open \ {o}, LinesOf(v)) \subseteq Held(Open, LinesOf(v))
      BY <2>1, <2>3, HeldLeave, OpenOrders
    <2>8. Cardinality(Held(Open \ {o}, LinesOf(v))) \in Nat
      BY HeldFinite, FS_CardinalityType
    <2>9. reserved[v] = Cardinality(Held(Open, LinesOf(v)))
      BY <2>5 DEF ExactAt
    <2>10. reserved'[v] = reserved[v] - n
      BY <1>2, <2>3, <2>7, <2>8, <2>9 DEF Released, TypeOK
    <2>11. reserved'[v] = Cardinality(Held(Open \ {o}, LinesOf(v)))
      BY <2>3, <2>7, <2>8, <2>9, <2>10
    <2>12. v \notin catalog' => Held(Open \ {o}, LinesOf(v)) = {}
      BY <1>2, <2>5, <2>7 DEF ExactAt
    <2>13. QED
      BY <2>6, <2>11, <2>12 DEF ExactAt
  <1>3. QED
    BY <1>1, <1>2 DEF CancelOrder

(* A step that opens and closes no order and leaves the row of v alone.    *)
LEMMA KeepStep ==
    ASSUME NEW v \in Variants, ExactAt(v), Open' = Open, LinesOf(v)' = LinesOf(v),
           reserved'[v] = reserved[v], v \in catalog => v \in catalog'
    PROVE  ExactAt(v)'
  <1>1. Promised(v) = Held(Open, LinesOf(v))
    BY PromisedIsHeld
  <1>2. Promised(v)' = Held(Open, LinesOf(v))
    BY DEF Promised, Held, Open, LinesOf
  <1>3. QED
    BY <1>1, <1>2 DEF ExactAt

(* Checkout reserves exactly the lines it writes.                          *)
LEMMA PlaceStep ==
    ASSUME TypeOK, TypeOK', NEW o \in Orders,
           NEW cart \in CartLines, NEW on_sale \in SUBSET Variants,
           PlaceOrder(o, cart, on_sale), NEW v \in Variants, ExactAt(v)
    PROVE  ExactAt(v)'
  <1> DEFINE K == LinesOf(v)
             L == LinesOf(v)'
             n == IF v \in Processable(cart, on_sale) THEN cart[v] ELSE 0
  <1>1. o \notin Open
    BY DEF Open, ReserveRelevant, PlaceOrder
  <1>2. Open' = Open \cup {o}
    BY DEF Open, ReserveRelevant, Placed, PlaceOrder, TypeOK,
           RESERVE_TERMINAL_ORDER_STATUSES, RESERVE_TERMINAL_FULFILLMENT_STATUSES
  <1>3. K \in [Orders -> 0..MaxQtyPerSku] /\ L \in [Orders -> 0..MaxQtyPerSku]
    BY DEF TypeOK, LinesOf
  <1>4. L[o] = n /\ \A p \in Open : L[p] = K[p]
    BY <1>1 DEF PlaceOrder, TypeOK, LinesOf, Open
  <1>5. n \in Nat
    BY DEF CartLines
  <1>6. reserved'[v] = reserved[v] + n
    BY DEF PlaceOrder, TypeOK
  <1>7. reserved[v] = Cardinality(Held(Open, K))
    BY PromisedIsHeld DEF ExactAt
  <1>8. Promised(v)' = Held(Open \cup {o}, L)
    BY <1>2 DEF Promised, Held, Open, LinesOf
  <1> HIDE DEF K, L, n
  <1>9. Cardinality(Held(Open \cup {o}, L)) = Cardinality(Held(Open, K)) + L[o]
    BY <1>1, <1>3, <1>4, OpenOrders, HeldJoin
  <1>10. reserved'[v] = Cardinality(Held(Open \cup {o}, L))
    BY <1>4, <1>6, <1>7, <1>9
  <1>11. ASSUME v \notin catalog'
         PROVE  Held(Open \cup {o}, L) = {}
    <2>1. v \notin catalog /\ n = 0
      BY <1>11 DEF PlaceOrder, Processable, n
    <2>2. Held(Open, K) = {}
      BY <2>1, PromisedIsHeld DEF ExactAt, K
    <2>3. Cardinality(Held(Open, K)) = 0
      BY <2>2, FS_EmptySet
    <2>4. Cardinality(Held(Open \cup {o}, L)) = 0
      BY <2>1, <2>3, <1>4, <1>9
    <2>5. QED
      BY <2>4, HeldFinite, FS_EmptySet
  <1>12. QED
    BY <1>8, <1>10, <1>11 DEF ExactAt

(* Issuing takes the goods and the reservation of the order together.      *)
LEMMA IssueStep ==
    ASSUME TypeOK, TypeOK', NEW o \in Orders, StaffIssue(o), NEW v \in Variants, ExactAt(v)
    PROVE  ExactAt(v)'
  <1> DEFINE L == LinesOf(v)
  <1>1. o \in Open
    BY DEF StaffIssue, CanBeIssued, Open, ReserveRelevant, Placed,
           RESERVE_TERMINAL_ORDER_STATUSES, RESERVE_TERMINAL_FULFILLMENT_STATUSES
  <1>2. Open' = Open \ {o}
    BY DEF StaffIssue, Open, ReserveRelevant, Placed, TypeOK, OrderRow,
           RESERVE_TERMINAL_ORDER_STATUSES, RESERVE_TERMINAL_FULFILLMENT_STATUSES
  <1>3. L \in [Orders -> 0..MaxQtyPerSku] /\ L[o] = lines[o][v] /\ lines[o][v] \in Nat
    BY LinesOfType, ConstantsAssumption DEF LinesType, LinesOf, TypeOK
  <1>4. Promised(v)' = Held(Open \ {o}, L)
    BY <1>2 DEF Promised, Held, Open, LinesOf, StaffIssue
  <1>5. reserved'[v] = reserved[v] - lines[o][v]
    BY DEF StaffIssue
  <1>6. reserved[v] = Cardinality(Held(Open, L))
    BY PromisedIsHeld DEF ExactAt
  <1>7. v \notin catalog' => Held(Open, L) = {}
    BY PromisedIsHeld DEF ExactAt, StaffIssue
  <1> HIDE DEF L
  <1>8. /\ Cardinality(Held(Open, L)) = Cardinality(Held(Open \ {o}, L)) + L[o]
        /\ Held(Open \ {o}, L) \subseteq Held(Open, L)
    BY <1>1, <1>3, OpenOrders, HeldLeave
  <1>9. Cardinality(Held(Open \ {o}, L)) \in Nat
    BY HeldFinite, FS_CardinalityType
  <1>10. reserved'[v] = Cardinality(Held(Open \ {o}, L))
    BY <1>3, <1>5, <1>6, <1>8, <1>9
  <1>11. QED
    BY <1>4, <1>7, <1>8, <1>10 DEF ExactAt

(* Deleting variants detaches their order lines: nothing is reserved, and  *)
(* nothing promised, whatever the reservation was before.                  *)
LEMMA RemovedIsExact ==
    ASSUME TypeOK, NEW vs, RemoveVariants(vs), NEW v \in Variants, v \in vs
    PROVE  ExactAt(v)'
  <1>1. Promised(v)' = {}
    BY DEF Promised, RemoveVariants, TypeOK
  <1>2. reserved'[v] = 0
    BY DEF RemoveVariants
  <1>3. Cardinality(Promised(v)') = 0
    BY <1>1, FS_EmptySet
  <1>4. QED
    BY <1>1, <1>2, <1>3 DEF ExactAt

LEMMA RemoveStep ==
    ASSUME TypeOK, NEW vs, RemoveVariants(vs), NEW v \in Variants, ExactAt(v)
    PROVE  ExactAt(v)'
  <1>1. CASE v \in vs
    BY <1>1, RemovedIsExact
  <1>2. CASE v \notin vs
    <2>1. /\ LinesOf(v)' = LinesOf(v) /\ reserved'[v] = reserved[v]
          /\ v \in catalog => v \in catalog'
      BY <1>2 DEF LinesOf, RemoveVariants
    <2>2. Open' = Open
      BY DEF RemoveVariants, Open, ReserveRelevant, Placed
    <2>3. QED
      BY <2>1, <2>2, KeepStep
  <1>3. QED
    BY <1>1, <1>2

(* One step keeps the reservation of a variant exact, whatever the others  *)
(* have come to.                                                           *)
LEMMA ExactStep ==
    ASSUME TypeOK, StatusCoherent, [Next]_vars, NEW v \in Variants, ExactAt(v)
    PROVE  ExactAt(v)'
  <1>0. TypeOK'
    BY TypeStep
  <1>1. ASSUME NEW o \in Orders, NEW cart \in CartLines, NEW on_sale \in SUBSET Variants,
               PlaceOrder(o, cart, on_sale)
        PROVE  ExactAt(v)'
    BY <1>0, <1>1, PlaceStep
  <1>2. ASSUME NEW o \in Orders, CancelOrder(o)
        PROVE  ExactAt(v)'
    BY <1>0, <1>2, CancelStep
  <1>3. ASSUME NEW o \in Orders, NEW next \in {"processing", "ready"}, StaffPrepare(o, next)
        PROVE  ExactAt(v)'
    <2>1. order[o].status \in {"placed", "processing"}
          /\ order[o].fulfillment_status \in {"new", "packing", "reserved"}
      BY <1>3 DEF StaffPrepare, Columns, MayMove, Placed, StatusKey, STATUS_TRANSITIONS,
                  StatusCoherent, StatusPairs
    <2>2. Open' = Open
      BY <1>3, <2>1 DEF StaffPrepare, Columns, Open, ReserveRelevant, Placed, TypeOK, OrderRow,
                        RESERVE_TERMINAL_ORDER_STATUSES,
                        RESERVE_TERMINAL_FULFILLMENT_STATUSES
    <2>3. QED
      BY <1>3, <2>2, KeepStep DEF StaffPrepare, Columns, stockVars, LinesOf
  <1>4. ASSUME NEW o \in Orders, StaffIssue(o)
        PROVE  ExactAt(v)'
    BY <1>0, <1>4, IssueStep
  <1>5. ASSUME NEW o \in Orders, NEW next \in ALLOWED_PAYMENT_STATUSES, UpdatePayment(o, next)
        PROVE  ExactAt(v)'
    <2>1. PICK s, d : order' = [order EXCEPT ![o].payment_status = s, ![o].paid_at = d]
      BY <1>5 DEF UpdatePayment
    <2>2. Open' = Open
      BY <2>1 DEF TypeOK, OrderRow, Open, ReserveRelevant, Placed
    <2>3. QED
      BY <1>5, <2>2, KeepStep DEF UpdatePayment, stockVars, LinesOf
  <1>6. CASE UNCHANGED <<order, lines, catalog, reserved>>
    BY <1>6, KeepStep DEF Open, ReserveRelevant, Placed, LinesOf
  <1>7. ASSUME NEW w \in Variants, NEW q \in 0..MaxStock, CreateVariant(w, q)
        PROVE  ExactAt(v)'
    <2>1. /\ w \notin catalog /\ catalog' = catalog \cup {w}
          /\ reserved' = [reserved EXCEPT ![w] = 0]
      BY <1>7 DEF CreateVariant
    <2>2. v = w => reserved[v] = 0
      BY <2>1, FS_EmptySet DEF ExactAt
    <2>3. reserved'[v] = reserved[v]
      BY <2>1, <2>2 DEF TypeOK
    <2>4. QED
      BY <1>7, <2>1, <2>3, KeepStep DEF CreateVariant, orderVars, Open, ReserveRelevant, Placed, LinesOf
  <1>8. ASSUME NEW vs \in SUBSET Variants, RemoveVariants(vs)
        PROVE  ExactAt(v)'
    BY <1>8, RemoveStep
  <1>9. QED
    BY <1>1, <1>2, <1>3, <1>4, <1>5, <1>6, <1>7, <1>8, ConstantsAssumption
       DEF Next, RequestNext, ExpiryNext, WarehouseNext, DeleteVariant, DeleteGroup, SetStock,
           SelectExpired, WorkerCrash, Elapse, AutoCancel, CustomerCancel, StaffCancel,
           orderVars, stockVars, vars

LEMMA ReservationStep ==
    ASSUME IInv, [Next]_vars
    PROVE  ReservationExact'
  <1>1. ASSUME NEW v \in Variants
        PROVE  ExactAt(v)'
    BY ExactStep DEF IInv, ReservationExact, ExactAt
  <1>2. QED
    BY <1>1 DEF ReservationExact, ExactAt

LEMMA InitExact == Init => ReservationExact
  <1>1. ASSUME Init, NEW v \in Variants
        PROVE  Promised(v) = {} /\ reserved[v] = 0
    BY <1>1 DEF Init, Promised, ReserveRelevant, Placed, Unplaced
  <1>2. QED
    BY <1>1, FS_EmptySet DEF ReservationExact

LEMMA InvariantHolds == Spec => []IInv
  <1>1. Init => ReservationExact
    BY InitExact
  <1>2. TypeOK /\ StatusCoherent /\ ReservationExact /\ [Next]_vars => ReservationExact'
    BY ReservationStep DEF IInv
  <1>3. QED
    BY <1>1, <1>2, TypeCorrect, StatusesCoherent, PTL DEF Spec, IInv

(* reserved_quantity is exactly what the open orders hold, whatever the    *)
(* interleaving of checkouts, cancellations, issues, expiries, stock edits *)
(* and deletions: OrderStockReservationService.                          *)
THEOREM ReservationsExact == Spec => []ReservationExact
  BY InvariantHolds, PTL DEF IInv

(* What an open order holds is reserved and on the shelf.                  *)
LEMMA ReservedCoversLine ==
    ASSUME IInv, NEW o \in Orders, NEW v \in Variants, ReserveRelevant(o)
    PROVE  lines[o][v] <= reserved[v] /\ lines[o][v] <= quantity[v]
  <1> USE DEF IInv
  <1> DEFINE L == LinesOf(v)
  <1>1. o \in Open
    BY DEF Open
  <1>2. L \in [Orders -> 0..MaxQtyPerSku] /\ L[o] = lines[o][v] /\ lines[o][v] \in Nat
    BY LinesOfType, ConstantsAssumption DEF LinesType, LinesOf, TypeOK
  <1>3. reserved[v] = Cardinality(Held(Open, L))
    BY PromisedIsHeld DEF ReservationExact
  <1> HIDE DEF L
  <1>4. Cardinality(Held(Open, L)) = Cardinality(Held(Open \ {o}, L)) + L[o]
    BY <1>1, <1>2, OpenOrders, HeldLeave
  <1>5. Cardinality(Held(Open \ {o}, L)) \in Nat
    BY HeldFinite, FS_CardinalityType
  <1>6. lines[o][v] <= reserved[v]
    BY <1>2, <1>3, <1>4, <1>5
  <1>7. QED
    BY <1>2, <1>6 DEF TypeOK

(* An open order can always be issued from the shelf: parallel checkouts   *)
(* never oversell, and neither the clamp of release_variant_reservation    *)
(* nor the refusal of issue_variant is ever reached.                       *)
THEOREM PromisesKept == Spec => []PromiseKept
  <1>1. IInv => PromiseKept
    BY ReservedCoversLine DEF PromiseKept
  <1>2. QED
    BY <1>1, InvariantHolds, PTL

(* The reserved_quantity check of the warehouse is enough: no deletion     *)
(* ever takes a row away from an open order.                               *)
THEOREM DeletionSparesOpenOrders == Spec => DeleteSparesOpenOrders
  <1>1. ASSUME IInv, [Next]_vars, NEW v \in catalog \ catalog'
        PROVE  ~UsedByOpenOrder(v)
    <2>1. v \in Variants
      BY <1>1 DEF IInv, TypeOK
    <2>2. \/ \E w \in Variants : DeleteVariant(w)
          \/ \E vs \in Groups : DeleteGroup(vs)
      BY <1>1 DEF Next, RequestNext, ExpiryNext, WarehouseNext, PlaceOrder, CustomerCancel, StaffCancel,
                  CancelOrder, StaffPrepare, Columns, StaffIssue, UpdatePayment, Elapse, AutoCancel,
                  SelectExpired, WorkerCrash, CreateVariant, SetStock, stockVars, vars
    <2>3. CASE \E w \in Variants : DeleteVariant(w)
      <3>1. ~(reserved[v] > 0 /\ UsedByOpenOrder(v))
        BY <1>1, <2>3 DEF DeleteVariant, RemoveVariants, VariantHasActiveReservations
      <3>2. ASSUME NEW o \in Orders, ReserveRelevant(o), lines[o][v] > 0
            PROVE  reserved[v] > 0
        <4>1. lines[o][v] \in Nat /\ reserved[v] \in Nat
          BY <1>1, <2>1, ConstantsAssumption DEF IInv, TypeOK
        <4>2. lines[o][v] <= reserved[v]
          BY <1>1, <2>1, <3>2, ReservedCoversLine
        <4>3. QED
          BY <3>2, <4>1, <4>2
      <3>3. QED
        BY <3>1, <3>2 DEF UsedByOpenOrder
    <2>4. CASE \E vs \in Groups : DeleteGroup(vs)
      BY <1>1, <2>1, <2>4 DEF DeleteGroup, RemoveVariants
    <2>5. QED
      BY <2>2, <2>3, <2>4
  <1>2. IInv /\ [Next]_vars => [\A v \in catalog \ catalog' : ~UsedByOpenOrder(v)]_vars
    BY <1>1
  <1>3. QED
    BY <1>2, InvariantHolds, PTL DEF Spec, DeleteSparesOpenOrders

-----------------------------------------------------------------------------
(* Money.                                                                  *)

Received == {"succeeded", "refunded"}

(* An order row and its payment row agree on the money.  The two money     *)
(* properties need each other: a refund is allowed because of either       *)
(* column, so the columns have to agree for paid_at to be right, and on a  *)
(* cancelled order, where they need not agree, neither may say succeeded.  *)
Agree(row, pay) ==
    /\ row.status # "cancelled" => row.payment_status = pay.status
    /\ row.paid_at <=> row.payment_status \in Received
    /\ pay.paid_at = row.paid_at
    /\ row.status = "cancelled" =>
         /\ row.payment_status = "cancelled" /\ ~row.paid_at
         /\ pay.status \notin Received /\ ~pay.paid_at

MoneyAgrees == \A o \in Orders : Agree(order[o], payment[o])

(* A step that touches the rows of one order only has to be looked at      *)
(* there.                                                                  *)
LEMMA OneOrderAgrees ==
    ASSUME TypeOK, MoneyAgrees, NEW o \in Orders, NEW row, NEW pay,
           order' = [order EXCEPT ![o] = row], payment' = [payment EXCEPT ![o] = pay],
           Agree(row, pay)
    PROVE  MoneyAgrees'
  <1>1. ASSUME NEW p \in Orders
        PROVE  Agree(order'[p], payment'[p])
    <2>1. CASE p = o
      <3>1. order'[p] = row /\ payment'[p] = pay
        BY <2>1 DEF TypeOK
      <3>2. QED
        BY <3>1
    <2>2. CASE p # o
      <3>1. order'[p] = order[p] /\ payment'[p] = payment[p]
        BY <2>2 DEF TypeOK
      <3>2. QED
        BY <3>1 DEF MoneyAgrees
    <2>3. QED
      BY <2>1, <2>2
  <1>2. QED
    BY <1>1 DEF MoneyAgrees

LEMMA CancelAgrees ==
    ASSUME TypeOK, MoneyAgrees, NEW o \in Orders, CancelOrder(o)
    PROVE  MoneyAgrees'
  <1> DEFINE pay == [status |-> "cancelled", paid_at |-> FALSE]
  <1>1. payment' = [payment EXCEPT ![o] = pay]
    BY DEF CancelOrder, CancelledPayments
  <1>2. Agree(order[o], payment[o])
    BY DEF MoneyAgrees
  <1>3. CASE order[o].status = "cancelled" /\ UNCHANGED order
    <2>1. order' = [order EXCEPT ![o] = order[o]]
      BY <1>3 DEF TypeOK
    <2>2. order[o].paid_at = FALSE /\ order[o].payment_status = "cancelled"
      BY <1>2, <1>3 DEF Agree, TypeOK, OrderRow
    <2>3. Agree(order[o], pay)
      BY <1>3, <2>2 DEF Agree, Received
    <2>4. QED
      BY <1>1, <2>1, <2>3, OneOrderAgrees
  <1>4. CASE /\ CanBeCancelled(o)
             /\ order' = [order EXCEPT ![o].status = "cancelled",
                                       ![o].fulfillment_status = "cancelled",
                                       ![o].payment_status = "cancelled"]
    <2> DEFINE row == [order[o] EXCEPT !.status = "cancelled",
                                       !.fulfillment_status = "cancelled",
                                       !.payment_status = "cancelled"]
    <2>1. order' = [order EXCEPT ![o] = row]
      BY <1>4 DEF TypeOK, OrderRow
    <2>2. /\ row.status = "cancelled" /\ row.payment_status = "cancelled"
          /\ row.paid_at = order[o].paid_at
      BY DEF TypeOK, OrderRow
    <2>3. order[o].paid_at = FALSE
      BY <1>2, <1>4 DEF Agree, CanBeCancelled, NON_CANCELLABLE_PAYMENT_STATUSES, Received,
                        TypeOK, OrderRow
    <2> HIDE DEF row
    <2>4. Agree(row, pay)
      BY <2>2, <2>3 DEF Agree, Received
    <2>5. QED
      BY <1>1, <2>1, <2>4, OneOrderAgrees
  <1>5. QED
    BY <1>3, <1>4 DEF CancelOrder

LEMMA UpdateAgrees ==
    ASSUME TypeOK, MoneyAgrees, NEW o \in Orders,
           NEW next \in ALLOWED_PAYMENT_STATUSES, UpdatePayment(o, next)
    PROVE  MoneyAgrees'
  <1> DEFINE pay == [status |-> next, paid_at |-> PaidAt(next, payment[o].paid_at)]
             row == [order[o] EXCEPT !.payment_status = SyncedPaymentStatus(o, pay),
                                     !.paid_at = PaidAt(next, order[o].paid_at)]
  <1>1. payment' = [payment EXCEPT ![o] = pay] /\ order' = [order EXCEPT ![o] = row]
    BY DEF UpdatePayment, TypeOK, OrderRow
  <1>2. Agree(order[o], payment[o]) /\ CanUpdatePayment(o, next)
    BY DEF MoneyAgrees, UpdatePayment
  <1>3. /\ row.status = order[o].status
        /\ row.payment_status = IF order[o].status = "cancelled" THEN "cancelled" ELSE next
        /\ row.paid_at = PaidAt(next, order[o].paid_at)
        /\ pay.status = next /\ pay.paid_at = PaidAt(next, order[o].paid_at)
    BY <1>2 DEF TypeOK, OrderRow, SyncedPaymentStatus, Agree
  <1>4. next = "refunded" => order[o].status # "cancelled" /\ order[o].paid_at
    BY <1>2 DEF CanUpdatePayment, Agree, Received
  <1>5. order[o].status = "cancelled" => next # "succeeded"
    BY <1>2 DEF CanUpdatePayment
  <1>6. PaidAt(next, order[o].paid_at) <=> next \in Received
    BY <1>4 DEF PaidAt, Received, RESET_PAID_AT_STATUSES, ALLOWED_PAYMENT_STATUSES
  <1>7. PaidAt(next, order[o].paid_at) \in BOOLEAN
    BY DEF PaidAt
  <1> HIDE DEF row, pay
  <1>8. Agree(row, pay)
    BY <1>3, <1>4, <1>5, <1>6, <1>7 DEF Agree, Received
  <1>9. QED
    BY <1>1, <1>8, OneOrderAgrees

LEMMA PlaceAgrees ==
    ASSUME TypeOK, MoneyAgrees, NEW o \in Orders, NEW cart, NEW on_sale,
           PlaceOrder(o, cart, on_sale)
    PROVE  MoneyAgrees'
  <1> DEFINE row == [status |-> "placed", fulfillment_status |-> "new",
                     payment_status |-> "pending", paid_at |-> FALSE]
             pay == [status |-> "pending", paid_at |-> FALSE]
  <1>1. payment' = [payment EXCEPT ![o] = pay] /\ order' = [order EXCEPT ![o] = row]
    BY DEF PlaceOrder
  <1>2. Agree(row, pay)
    BY DEF Agree, Received
  <1>3. QED
    BY <1>1, <1>2, OneOrderAgrees

(* Preparing and issuing change the status columns of an order that is not *)
(* and does not become cancelled.                                          *)
LEMMA StatusChangeAgrees ==
    ASSUME TypeOK, MoneyAgrees, NEW o \in Orders, NEW s, NEW f,
           order' = [order EXCEPT ![o].status = s, ![o].fulfillment_status = f],
           UNCHANGED payment, order[o].status # "cancelled", s # "cancelled"
    PROVE  MoneyAgrees'
  <1> DEFINE row == [order[o] EXCEPT !.status = s, !.fulfillment_status = f]
  <1>1. payment' = [payment EXCEPT ![o] = payment[o]] /\ order' = [order EXCEPT ![o] = row]
    BY DEF TypeOK, OrderRow
  <1>2. /\ row.status = s /\ row.payment_status = order[o].payment_status
        /\ row.paid_at = order[o].paid_at
    BY DEF TypeOK, OrderRow
  <1>3. Agree(order[o], payment[o])
    BY DEF MoneyAgrees
  <1> HIDE DEF row
  <1>4. Agree(row, payment[o])
    BY <1>2, <1>3 DEF Agree
  <1>5. QED
    BY <1>1, <1>4, OneOrderAgrees

LEMMA MoneyStep ==
    ASSUME TypeOK, StatusCoherent, MoneyAgrees, [Next]_vars
    PROVE  MoneyAgrees'
  <1>1. ASSUME NEW o \in Orders, NEW cart \in CartLines, NEW on_sale \in SUBSET Variants,
               PlaceOrder(o, cart, on_sale)
        PROVE  MoneyAgrees'
    BY <1>1, PlaceAgrees
  <1>2. ASSUME NEW o \in Orders, CancelOrder(o)
        PROVE  MoneyAgrees'
    BY <1>2, CancelAgrees
  <1>3. ASSUME NEW o \in Orders, NEW next \in {"processing", "ready"}, StaffPrepare(o, next)
        PROVE  MoneyAgrees'
    <2>1. order[o].status # "cancelled"
      BY <1>3 DEF StaffPrepare, MayMove, StatusKey, STATUS_TRANSITIONS, StatusCoherent, StatusPairs
    <2>2. order' = [order EXCEPT ![o].status = "processing",
                                 ![o].fulfillment_status = Columns(next).fulfillment_status]
      BY <1>3 DEF StaffPrepare, Columns
    <2>3. UNCHANGED payment
      BY <1>3 DEF StaffPrepare
    <2>4. QED
      BY <2>1, <2>2, <2>3, StatusChangeAgrees
  <1>4. ASSUME NEW o \in Orders, StaffIssue(o)
        PROVE  MoneyAgrees'
    <2>1. order[o].status # "cancelled"
      BY <1>4 DEF StaffIssue, CanBeIssued
    <2>2. QED
      BY <1>4, <2>1, StatusChangeAgrees DEF StaffIssue
  <1>5. ASSUME NEW o \in Orders, NEW next \in ALLOWED_PAYMENT_STATUSES, UpdatePayment(o, next)
        PROVE  MoneyAgrees'
    BY <1>5, UpdateAgrees
  <1>6. CASE UNCHANGED <<order, payment>>
    BY <1>6 DEF MoneyAgrees
  <1>7. QED
    BY <1>1, <1>2, <1>3, <1>4, <1>5, <1>6
       DEF Next, RequestNext, ExpiryNext, WarehouseNext, DeleteVariant, DeleteGroup,
           RemoveVariants, CreateVariant, SetStock, SelectExpired, WorkerCrash, Elapse,
           AutoCancel, CustomerCancel, StaffCancel, orderVars, vars

LEMMA MoneyInvariant == Spec => [](TypeOK /\ StatusCoherent /\ MoneyAgrees)
  <1>1. Init => MoneyAgrees
    <2>1. Agree(Unplaced, NoPayment)
      BY DEF Agree, Received, Unplaced, NoPayment
    <2>2. QED
      BY <2>1 DEF Init, MoneyAgrees
  <1>2. TypeOK /\ StatusCoherent /\ MoneyAgrees /\ [Next]_vars => MoneyAgrees'
    BY MoneyStep
  <1>3. QED
    BY <1>1, <1>2, TypeCorrect, StatusesCoherent, PTL DEF Spec

(* PaymentStatusSyncService keeps order and payment in agreement through   *)
(* every change of payment status and every cancellation.                  *)
THEOREM PaymentsMirrored == Spec => []PaymentMirrored
  <1>1. MoneyAgrees => PaymentMirrored
    BY DEF MoneyAgrees, Agree, PaymentMirrored, Received
  <1>2. QED
    BY <1>1, MoneyInvariant, PTL

(* No order of cancelling, paying and refunding leaves money on a          *)
(* cancelled order.                                                        *)
THEOREM CancelledOrdersHoldNoMoney == Spec => []CancelledHoldsNoMoney
  <1>1. MoneyAgrees => CancelledHoldsNoMoney
    BY DEF MoneyAgrees, Agree, CancelledHoldsNoMoney, Received
  <1>2. QED
    BY <1>1, MoneyInvariant, PTL

-----------------------------------------------------------------------------
(* Final states.                                                           *)

(* Only preparing, issuing and cancelling write the status columns, and    *)
(* each of them starts from an open order.                                 *)
LEMMA FinalStep ==
    ASSUME TypeOK, StatusCoherent, [Next]_vars, NEW o \in Orders,
           order[o].status \in {"cancelled", "delivered"}
    PROVE  /\ order'[o].status = order[o].status
           /\ order'[o].fulfillment_status = order[o].fulfillment_status
  <1> DEFINE Same == /\ order'[o].status = order[o].status
                     /\ order'[o].fulfillment_status = order[o].fulfillment_status
  <1>1. ASSUME NEW p \in Orders, NEW cart \in CartLines, NEW on_sale \in SUBSET Variants,
               PlaceOrder(p, cart, on_sale)
        PROVE  Same
    BY <1>1 DEF PlaceOrder, Placed, TypeOK
  <1>2. ASSUME NEW p \in Orders, CancelOrder(p)
        PROVE  Same
    BY <1>2 DEF CancelOrder, CanBeCancelled, CANCELLABLE_ORDER_STATUSES, TypeOK, OrderRow
  <1>3. ASSUME NEW p \in Orders, NEW next \in {"processing", "ready"}, StaffPrepare(p, next)
        PROVE  Same
    <2>1. order[p].status \notin {"cancelled", "delivered"}
      BY <1>3 DEF StaffPrepare, MayMove, StatusKey, STATUS_TRANSITIONS, StatusCoherent, StatusPairs
    <2>2. p # o
      BY <2>1
    <2>3. QED
      BY <1>3, <2>2 DEF StaffPrepare, TypeOK
  <1>4. ASSUME NEW p \in Orders, StaffIssue(p)
        PROVE  Same
    BY <1>4 DEF StaffIssue, CanBeIssued, TypeOK
  <1>5. ASSUME NEW p \in Orders, NEW next \in ALLOWED_PAYMENT_STATUSES, UpdatePayment(p, next)
        PROVE  Same
    <2>1. PICK s, d : order' = [order EXCEPT ![p].payment_status = s, ![p].paid_at = d]
      BY <1>5 DEF UpdatePayment
    <2>2. QED
      BY <2>1 DEF TypeOK, OrderRow
  <1>6. CASE UNCHANGED order
    BY <1>6
  <1>7. QED
    BY <1>1, <1>2, <1>3, <1>4, <1>5, <1>6
       DEF Next, RequestNext, ExpiryNext, WarehouseNext, DeleteVariant, DeleteGroup,
           RemoveVariants, CreateVariant, SetStock, SelectExpired, WorkerCrash, Elapse,
           AutoCancel, CustomerCancel, StaffCancel, orderVars, vars

(* A cancelled or issued order stays what it is, whoever acts on it        *)
(* afterwards: OrderStatusPolicy and the guards of the services.           *)
THEOREM FinalStatesStay == Spec => FinalIsFinal
  <1>1. TypeOK /\ StatusCoherent /\ [Next]_vars =>
          [\A o \in Orders : order[o].status \in {"cancelled", "delivered"} =>
             /\ order'[o].status = order[o].status
             /\ order'[o].fulfillment_status = order[o].fulfillment_status]_vars
    BY FinalStep
  <1>2. QED
    BY <1>1, MoneyInvariant, PTL DEF Spec, FinalIsFinal

(* An order becomes delivered by being issued.                             *)
LEMMA DeliveredByIssue ==
    ASSUME TypeOK, [Next]_vars, NEW o \in Orders,
           order[o].status # "delivered", order'[o].status = "delivered"
    PROVE  StaffIssue(o)
  <1>1. ASSUME NEW p \in Orders, NEW cart \in CartLines, NEW on_sale \in SUBSET Variants,
               PlaceOrder(p, cart, on_sale)
        PROVE  FALSE
    BY <1>1 DEF PlaceOrder, TypeOK
  <1>2. ASSUME NEW p \in Orders, CancelOrder(p)
        PROVE  FALSE
    BY <1>2 DEF CancelOrder, TypeOK, OrderRow
  <1>3. ASSUME NEW p \in Orders, NEW next \in {"processing", "ready"}, StaffPrepare(p, next)
        PROVE  FALSE
    BY <1>3 DEF StaffPrepare, Columns, TypeOK, OrderRow
  <1>4. ASSUME NEW p \in Orders, StaffIssue(p)
        PROVE  StaffIssue(o)
    <2>1. p = o
      BY <1>4 DEF StaffIssue, TypeOK
    <2>2. QED
      BY <1>4, <2>1
  <1>5. ASSUME NEW p \in Orders, NEW next \in ALLOWED_PAYMENT_STATUSES, UpdatePayment(p, next)
        PROVE  FALSE
    <2>1. PICK s, d : order' = [order EXCEPT ![p].payment_status = s, ![p].paid_at = d]
      BY <1>5 DEF UpdatePayment
    <2>2. QED
      BY <2>1 DEF TypeOK, OrderRow
  <1>6. CASE UNCHANGED order
    BY <1>6
  <1>7. QED
    BY <1>1, <1>2, <1>3, <1>4, <1>5, <1>6
       DEF Next, RequestNext, ExpiryNext, WarehouseNext, DeleteVariant, DeleteGroup,
           RemoveVariants, CreateVariant, SetStock, SelectExpired, WorkerCrash, Elapse,
           AutoCancel, CustomerCancel, StaffCancel, orderVars, vars

(* OrderIssueService hands goods out once, against money received on both  *)
(* rows, and takes exactly the lines of the order off the shelf and out of *)
(* the reservation.                                                        *)
THEOREM GoodsLeaveAgainstMoney == Spec => StockLeavesWithPaidOrder
  <1>1. ASSUME TypeOK, MoneyAgrees, [Next]_vars, NEW o \in Orders,
               order[o].status # "delivered", order'[o].status = "delivered"
        PROVE  /\ order[o].fulfillment_status = "reserved"
               /\ order[o].payment_status = "succeeded" /\ order[o].paid_at
               /\ payment[o].status = "succeeded"
               /\ \A v \in Variants : /\ quantity'[v] = quantity[v] - lines[o][v]
                                      /\ reserved'[v] = reserved[v] - lines[o][v]
    <2>1. StaffIssue(o)
      BY <1>1, DeliveredByIssue
    <2>2. Agree(order[o], payment[o])
      BY <1>1 DEF MoneyAgrees
    <2>3. /\ order[o].status = "processing" /\ order[o].fulfillment_status = "reserved"
          /\ order[o].payment_status = "succeeded"
      BY <2>1 DEF StaffIssue, CanBeIssued
    <2>4. order[o].paid_at /\ payment[o].status = "succeeded"
      BY <2>2, <2>3 DEF Agree, Received
    <2>5. \A v \in Variants : /\ quantity'[v] = quantity[v] - lines[o][v]
                             /\ reserved'[v] = reserved[v] - lines[o][v]
      BY <2>1 DEF StaffIssue
    <2>6. QED
      BY <2>3, <2>4, <2>5
  <1>2. TypeOK /\ MoneyAgrees /\ [Next]_vars =>
          [\A o \in Orders :
             order[o].status # "delivered" /\ order'[o].status = "delivered" =>
               /\ order[o].fulfillment_status = "reserved"
               /\ order[o].payment_status = "succeeded" /\ order[o].paid_at
               /\ payment[o].status = "succeeded"
               /\ \A v \in Variants : /\ quantity'[v] = quantity[v] - lines[o][v]
                                      /\ reserved'[v] = reserved[v] - lines[o][v]]_vars
    BY <1>1
  <1>3. QED
    BY <1>2, MoneyInvariant, PTL DEF Spec, StockLeavesWithPaidOrder
-----------------------------------------------------------------------------
(* The refund before issue.                                                *)

(* An order that still holds its reservation and whose money was given     *)
(* back.                                                                   *)
Refunded(o) == ReserveRelevant(o) /\ order[o].payment_status = "refunded"

(* The lines of an open order stay what they were at checkout: no deletion *)
(* reaches a variant it holds.                                             *)
LEMMA OpenLinesStay ==
    ASSUME IInv, [Next]_vars, NEW o \in Orders, ReserveRelevant(o)
    PROVE  lines'[o] = lines[o]
  <1>1. ASSUME NEW p \in Orders, NEW cart \in CartLines, NEW on_sale \in SUBSET Variants,
               PlaceOrder(p, cart, on_sale)
        PROVE  lines'[o] = lines[o]
    BY <1>1 DEF PlaceOrder, ReserveRelevant, IInv, TypeOK
  <1>2. ASSUME NEW vs \in SUBSET Variants, RemoveVariants(vs),
               \A v \in vs : lines[o][v] = 0
        PROVE  lines'[o] = lines[o]
    <2>1. lines[o] = [v \in Variants |-> lines[o][v]]
      BY DEF IInv, TypeOK
    <2>2. lines'[o] = [v \in Variants |-> IF v \in vs THEN 0 ELSE lines[o][v]]
      BY <1>2 DEF RemoveVariants
    <2>3. \A v \in Variants : (IF v \in vs THEN 0 ELSE lines[o][v]) = lines[o][v]
      BY <1>2
    <2>4. QED
      BY <2>1, <2>2, <2>3
  <1>3. ASSUME NEW v \in Variants, ~(reserved[v] > 0 /\ lines[o][v] > 0)
        PROVE  lines[o][v] = 0
    BY <1>3, ReservedCoversLine, ConstantsAssumption DEF IInv, TypeOK
  <1>4. ASSUME NEW v \in Variants, DeleteVariant(v)
        PROVE  lines'[o] = lines[o]
    <2>1. lines[o][v] = 0
      BY <1>3, <1>4 DEF DeleteVariant, VariantHasActiveReservations, UsedByOpenOrder
    <2>2. QED
      BY <1>2, <1>4, <2>1 DEF DeleteVariant
  <1>5. ASSUME NEW vs \in Groups, DeleteGroup(vs)
        PROVE  lines'[o] = lines[o]
    <2>1. vs \subseteq Variants
      BY ConstantsAssumption
    <2>2. \A v \in vs : lines[o][v] = 0
      BY <1>3, <1>5, <2>1 DEF DeleteGroup, UsedByOpenOrder
    <2>3. QED
      BY <1>2, <1>5, <2>1, <2>2 DEF DeleteGroup
  <1>6. CASE UNCHANGED lines
    BY <1>6
  <1>7. QED
    BY <1>1, <1>4, <1>5, <1>6
       DEF Next, RequestNext, ExpiryNext, WarehouseNext, CreateVariant, SetStock, SelectExpired,
           WorkerCrash, Elapse, AutoCancel, CustomerCancel, StaffCancel, CancelOrder, StaffPrepare,
           StaffIssue, UpdatePayment, orderVars, vars

(* What each handler does to an order in that position.                    *)
LEMMA RefundedStep ==
    ASSUME TypeOK, StatusCoherent, MoneyAgrees, [Next]_vars, NEW o \in Orders, Refunded(o)
    PROVE  /\ ReserveRelevant(o)'
           /\ ~Refunded(o)' => \E next \in ALLOWED_PAYMENT_STATUSES \ {"refunded"} :
                                  UpdatePayment(o, next)
  <1> DEFINE Goal == /\ ReserveRelevant(o)'
                     /\ ~Refunded(o)' => \E next \in ALLOWED_PAYMENT_STATUSES \ {"refunded"} :
                                            UpdatePayment(o, next)
  <1>1. ASSUME order'[o] = order[o]
        PROVE  Goal
    BY <1>1 DEF Refunded, ReserveRelevant, Placed
  <1>2. /\ order[o].payment_status = "refunded" /\ ReserveRelevant(o)
        /\ order[o].status \notin {"none", "cancelled", "delivered"}
    BY DEF Refunded, ReserveRelevant, Placed, RESERVE_TERMINAL_ORDER_STATUSES
  <1>3. ASSUME NEW p \in Orders, NEW cart \in CartLines, NEW on_sale \in SUBSET Variants,
               PlaceOrder(p, cart, on_sale)
        PROVE  Goal
    <2>1. order'[o] = order[o]
      BY <1>2, <1>3 DEF PlaceOrder, Placed, TypeOK
    <2>2. QED
      BY <1>1, <2>1
  <1>4. ASSUME NEW p \in Orders, CancelOrder(p)
        PROVE  Goal
    <2>1. order'[o] = order[o]
      BY <1>2, <1>4 DEF CancelOrder, CanBeCancelled, NON_CANCELLABLE_PAYMENT_STATUSES, TypeOK, OrderRow
    <2>2. QED
      BY <1>1, <2>1
  <1>5. ASSUME NEW p \in Orders, NEW next \in {"processing", "ready"}, StaffPrepare(p, next)
        PROVE  Goal
    <2>1. PICK f \in {"packing", "reserved"} :
            order' = [order EXCEPT ![p].status = "processing", ![p].fulfillment_status = f]
      BY <1>5 DEF StaffPrepare, Columns
    <2>2. CASE p = o
      <3>1. /\ order'[o].status = "processing" /\ order'[o].fulfillment_status = f
            /\ order'[o].payment_status = "refunded"
        BY <1>2, <2>1, <2>2 DEF TypeOK, OrderRow
      <3>2. QED
        BY <3>1 DEF Refunded, ReserveRelevant, Placed, RESERVE_TERMINAL_ORDER_STATUSES,
                    RESERVE_TERMINAL_FULFILLMENT_STATUSES
    <2>3. CASE p # o
      BY <1>1, <2>1, <2>3 DEF TypeOK
    <2>4. QED
      BY <2>2, <2>3
  <1>6. ASSUME NEW p \in Orders, StaffIssue(p)
        PROVE  Goal
    <2>1. order'[o] = order[o]
      BY <1>2, <1>6 DEF StaffIssue, CanBeIssued, TypeOK
    <2>2. QED
      BY <1>1, <2>1
  <1>7. ASSUME NEW p \in Orders, NEW next \in ALLOWED_PAYMENT_STATUSES, UpdatePayment(p, next)
        PROVE  Goal
    <2>1. CASE p # o
      <3>1. order'[o] = order[o]
        BY <1>7, <2>1 DEF UpdatePayment, TypeOK
      <3>2. QED
        BY <1>1, <3>1
    <2>2. CASE p = o
      <3>1. next # "refunded"
        BY <1>2, <1>7, <2>2 DEF UpdatePayment, CanUpdatePayment, MoneyAgrees, Agree
      <3>2. /\ order'[o].status = order[o].status
            /\ order'[o].fulfillment_status = order[o].fulfillment_status
        <4>1. PICK s, d : order' = [order EXCEPT ![p].payment_status = s, ![p].paid_at = d]
          BY <1>7 DEF UpdatePayment
        <4>2. QED
          BY <4>1 DEF TypeOK, OrderRow
      <3>3. ReserveRelevant(o)'
        BY <1>2, <3>2 DEF ReserveRelevant, Placed
      <3>4. QED
        BY <1>7, <2>2, <3>1, <3>3
    <2>3. QED
      BY <2>1, <2>2
  <1>8. ASSUME UNCHANGED order
        PROVE  Goal
    BY <1>1, <1>8
  <1> HIDE DEF Goal
  <1>9. Goal
    BY <1>3, <1>4, <1>5, <1>6, <1>7, <1>8
       DEF Next, RequestNext, ExpiryNext, WarehouseNext, DeleteVariant, DeleteGroup,
           RemoveVariants, CreateVariant, SetStock, SelectExpired, WorkerCrash, Elapse,
           AutoCancel, CustomerCancel, StaffCancel, orderVars, vars
  <1>10. QED
    BY <1>9 DEF Goal

(* Only staff can lead an order out of a refund: whatever customers, the   *)
(* auto-cancel task and the warehouse do, and however long it takes, it    *)
(* stays open with all its lines, so by ReservationsExact it goes on       *)
(* holding stock, until the manual payment is given another status.  It is *)
(* not cancelled (NON_CANCELLABLE_PAYMENT_STATUSES), not issued, and not   *)
(* refunded a second time.                                                 *)
THEOREM RefundedOrdersStayOpen ==
    Spec => [][\A o \in Orders : Refunded(o) =>
                 /\ ReserveRelevant(o)' /\ lines'[o] = lines[o]
                 /\ ~Refunded(o)' => \E next \in ALLOWED_PAYMENT_STATUSES \ {"refunded"} :
                                        UpdatePayment(o, next)]_vars
  <1>1. ASSUME IInv, MoneyAgrees, [Next]_vars, NEW o \in Orders, Refunded(o)
        PROVE  /\ ReserveRelevant(o)' /\ lines'[o] = lines[o]
               /\ ~Refunded(o)' => \E next \in ALLOWED_PAYMENT_STATUSES \ {"refunded"} :
                                      UpdatePayment(o, next)
    BY <1>1, RefundedStep, OpenLinesStay DEF IInv, Refunded
  <1>2. IInv /\ MoneyAgrees /\ [Next]_vars =>
          [\A o \in Orders : Refunded(o) =>
             /\ ReserveRelevant(o)' /\ lines'[o] = lines[o]
             /\ ~Refunded(o)' => \E next \in ALLOWED_PAYMENT_STATUSES \ {"refunded"} :
                                    UpdatePayment(o, next)]_vars
    BY <1>1
  <1>3. QED
    BY <1>2, MoneyInvariant, InvariantHolds, PTL DEF Spec
-----------------------------------------------------------------------------
(* The order in packing.                                                   *)

(* An open order without money that nobody can cancel.                     *)
Stuck(o) ==
    /\ ReserveRelevant(o)
    /\ order[o].payment_status \notin NON_CANCELLABLE_PAYMENT_STATUSES
    /\ ~CanBeCancelled(o)

LEMMA StuckIsPacked ==
    ASSUME StatusCoherent, NEW o \in Orders, Stuck(o)
    PROVE  order[o].status = "processing" /\ order[o].fulfillment_status = "packing"
  BY DEF StatusCoherent, StatusPairs, Stuck, ReserveRelevant, Placed, CanBeCancelled,
         CANCELLABLE_ORDER_STATUSES, CANCELLABLE_FULFILLMENT_STATUSES,
         RESERVE_TERMINAL_ORDER_STATUSES

(* The requests that write the row of an order in packing that is not      *)
(* paid: none of those that cancel, issue or expire it.                    *)
LEMMA StuckMoves ==
    ASSUME TypeOK, StatusCoherent, [Next]_vars, NEW o \in Orders, Stuck(o)
    PROVE  \/ order'[o] = order[o]
           \/ StaffPrepare(o, "ready")
           \/ \E next \in ALLOWED_PAYMENT_STATUSES : UpdatePayment(o, next)
  <1> DEFINE Goal == \/ order'[o] = order[o]
                     \/ StaffPrepare(o, "ready")
                     \/ \E next \in ALLOWED_PAYMENT_STATUSES : UpdatePayment(o, next)
  <1>1. order[o].status = "processing" /\ order[o].fulfillment_status = "packing"
    BY StuckIsPacked
  <1>2. ASSUME NEW p \in Orders, NEW cart \in CartLines, NEW on_sale \in SUBSET Variants,
               PlaceOrder(p, cart, on_sale)
        PROVE  Goal
    BY <1>1, <1>2 DEF PlaceOrder, Placed, TypeOK
  <1>3. ASSUME NEW p \in Orders, CancelOrder(p)
        PROVE  Goal
    BY <1>1, <1>3 DEF CancelOrder, Stuck, TypeOK
  <1>4. ASSUME NEW p \in Orders, NEW next \in {"processing", "ready"}, StaffPrepare(p, next)
        PROVE  Goal
    <2>1. CASE p = o
      <3>1. StatusKey(o) = "processing"
        BY <1>1 DEF StatusKey
      <3>2. next = "ready"
        BY <1>4, <2>1, <3>1 DEF StaffPrepare, MayMove
      <3>3. QED
        BY <1>4, <2>1, <3>2
    <2>2. CASE p # o
      BY <1>4, <2>2 DEF StaffPrepare, TypeOK
    <2>3. QED
      BY <2>1, <2>2
  <1>5. ASSUME NEW p \in Orders, StaffIssue(p)
        PROVE  Goal
    BY <1>1, <1>5 DEF StaffIssue, CanBeIssued, TypeOK
  <1>6. ASSUME NEW p \in Orders, NEW next \in ALLOWED_PAYMENT_STATUSES, UpdatePayment(p, next)
        PROVE  Goal
    <2>1. p # o => order'[o] = order[o]
      BY <1>6 DEF UpdatePayment, TypeOK
    <2>2. QED
      BY <1>6, <2>1
  <1>7. UNCHANGED order => Goal
    OBVIOUS
  <1> HIDE DEF Goal
  <1>8. Goal
    BY <1>2, <1>3, <1>4, <1>5, <1>6, <1>7
       DEF Next, RequestNext, ExpiryNext, WarehouseNext, DeleteVariant, DeleteGroup,
           RemoveVariants, CreateVariant, SetStock, SelectExpired, WorkerCrash, Elapse,
           AutoCancel, CustomerCancel, StaffCancel, orderVars, vars
  <1>9. QED
    BY <1>8 DEF Goal

LEMMA StuckStep ==
    ASSUME TypeOK, StatusCoherent, MoneyAgrees, [Next]_vars, NEW o \in Orders, Stuck(o)
    PROVE  /\ ReserveRelevant(o)'
           /\ ~Stuck(o)' => StaffPrepare(o, "ready") \/ UpdatePayment(o, "succeeded")
  <1>1. /\ order[o].status = "processing" /\ order[o].fulfillment_status = "packing"
        /\ order[o].payment_status \notin {"succeeded", "refunded"}
    BY StuckIsPacked DEF Stuck, NON_CANCELLABLE_PAYMENT_STATUSES
  <1>2. CASE order'[o] = order[o]
    BY <1>2 DEF Stuck, CanBeCancelled, ReserveRelevant, Placed
  <1>3. CASE StaffPrepare(o, "ready")
    <2>1. order'[o].status = "processing" /\ order'[o].fulfillment_status = "reserved"
      BY <1>3 DEF StaffPrepare, Columns, TypeOK, OrderRow
    <2>2. QED
      BY <1>3, <2>1 DEF ReserveRelevant, Placed, RESERVE_TERMINAL_ORDER_STATUSES,
                        RESERVE_TERMINAL_FULFILLMENT_STATUSES
  <1>4. ASSUME NEW next \in ALLOWED_PAYMENT_STATUSES, UpdatePayment(o, next)
        PROVE  /\ ReserveRelevant(o)'
               /\ ~Stuck(o)' => UpdatePayment(o, "succeeded")
    <2>1. PICK d : order' = [order EXCEPT ![o].payment_status = next, ![o].paid_at = d]
      BY <1>1, <1>4 DEF UpdatePayment, SyncedPaymentStatus
    <2>2. /\ order'[o].status = "processing" /\ order'[o].fulfillment_status = "packing"
          /\ order'[o].payment_status = next
      BY <1>1, <2>1 DEF TypeOK, OrderRow
    <2>3. ReserveRelevant(o)'
      BY <2>2 DEF ReserveRelevant, Placed, RESERVE_TERMINAL_ORDER_STATUSES,
                  RESERVE_TERMINAL_FULFILLMENT_STATUSES
    <2>4. next # "refunded"
      BY <1>1, <1>4 DEF UpdatePayment, CanUpdatePayment, MoneyAgrees, Agree
    <2>5. next # "succeeded" => Stuck(o)'
      BY <2>2, <2>3, <2>4 DEF Stuck, CanBeCancelled, CANCELLABLE_FULFILLMENT_STATUSES,
                              NON_CANCELLABLE_PAYMENT_STATUSES
    <2>6. QED
      BY <1>4, <2>3, <2>5
  <1>5. QED
    BY <1>2, <1>3, <1>4, StuckMoves

(* What the run packing_cancel shows goes exactly so far: of the open      *)
(* orders without money only those in packing cannot be cancelled.  Such   *)
(* an order keeps its lines, and so its reservation, whatever its customer *)
(* and the auto-cancel task do, until staff declare it ready (then it can  *)
(* be cancelled) or take the money.                                        *)
THEOREM OnlyPackingIsStuck ==
    Spec => /\ [](\A o \in Orders : Stuck(o) =>
                     order[o].status = "processing" /\ order[o].fulfillment_status = "packing")
            /\ [][\A o \in Orders : Stuck(o) =>
                    /\ ReserveRelevant(o)' /\ lines'[o] = lines[o]
                    /\ ~Stuck(o)' => StaffPrepare(o, "ready")
                                     \/ UpdatePayment(o, "succeeded")]_vars
  <1>1. IInv => \A o \in Orders : Stuck(o) =>
                  order[o].status = "processing" /\ order[o].fulfillment_status = "packing"
    BY StuckIsPacked DEF IInv
  <1>2. ASSUME IInv, MoneyAgrees, [Next]_vars, NEW o \in Orders, Stuck(o)
        PROVE  /\ ReserveRelevant(o)' /\ lines'[o] = lines[o]
               /\ ~Stuck(o)' => StaffPrepare(o, "ready") \/ UpdatePayment(o, "succeeded")
    BY <1>2, StuckStep, OpenLinesStay DEF IInv, Stuck
  <1>3. IInv /\ MoneyAgrees /\ [Next]_vars =>
          [\A o \in Orders : Stuck(o) =>
             /\ ReserveRelevant(o)' /\ lines'[o] = lines[o]
             /\ ~Stuck(o)' => StaffPrepare(o, "ready")
                              \/ UpdatePayment(o, "succeeded")]_vars
    BY <1>2
  <1>4. QED
    BY <1>1, <1>3, MoneyInvariant, InvariantHolds, PTL DEF Spec
===============================================================================
