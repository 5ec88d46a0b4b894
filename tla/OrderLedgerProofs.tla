--------------------------- MODULE OrderLedgerProofs ---------------------------
(***************************************************************************)
(* OrderStock implements StockLedger, for every value of the constants.    *)
(* The inductive invariant of OrderStockProofs is what makes each step     *)
(* legal: a cancellation gives back exactly what was held only because the *)
(* clamp of a release is never reached, and a deletion touches nothing an  *)
(* open order holds only because reserved_quantity is exact.               *)
(***************************************************************************)
EXTENDS OrderLedger, OrderStockProofs

(* The three mapped variables.                                             *)
Free == [v \in Variants |-> Available(v)]
HeldUnits == [o \in Orders |-> HeldBy(o)]
States == [o \in Orders |-> LedgerState(o)]

LEMMA FreeIsNat ==
    ASSUME TypeOK
    PROVE  Free \in [Variants -> Nat]
  BY DEF Free, Available, TypeOK

(* A step that leaves the open orders and what they hold alone is a        *)
(* recount.                                                                *)
LEMMA RecountStep ==
    ASSUME TypeOK', HeldUnits' = HeldUnits, States' = States
    PROVE  Ledger!LedgerNext
  <1>1. Free' \in [Variants -> Nat]
    BY DEF TypeOK, Free, Available
  <1>2. Ledger!Recount
    BY <1>1 DEF Ledger!Recount, Free, HeldUnits, States
  <1>3. QED
    BY <1>2 DEF Ledger!LedgerNext

(* Lines and the two status columns determine what is held.                *)
LEMMA SameOrders ==
    ASSUME UNCHANGED lines,
           \A o \in Orders : /\ order'[o].status = order[o].status
                             /\ ReserveRelevant(o)' = ReserveRelevant(o)
    PROVE  HeldUnits' = HeldUnits /\ States' = States
  BY DEF HeldUnits, States, HeldBy, LedgerState, Placed

(* What LedgerState makes of the columns.                                  *)
LEMMA StateOf ==
    ASSUME NEW o \in Orders
    PROVE  /\ ~Placed(o) => LedgerState(o) = "none"
           /\ Placed(o) /\ ReserveRelevant(o) => LedgerState(o) = "open"
           /\ Placed(o) /\ ~ReserveRelevant(o) /\ order[o].status = "cancelled"
                => LedgerState(o) = "cancelled"
           /\ Placed(o) /\ ~ReserveRelevant(o) /\ order[o].status # "cancelled"
                => LedgerState(o) = "issued"
  BY DEF LedgerState

(* One order changes its state and the others keep theirs.                 *)
LEMMA StateMoves ==
    ASSUME NEW o \in Orders, NEW s, LedgerState(o)' = s,
           \A p \in Orders : p # o => order'[p] = order[p]
    PROVE  States' = [States EXCEPT ![o] = s]
  <1>1. \A p \in Orders : p # o => LedgerState(p)' = LedgerState(p)
    BY DEF LedgerState, ReserveRelevant, Placed
  <1>2. QED
    BY <1>1 DEF States

(* Cancelling an open order is GiveBack; the repeated call changes nothing *)
(* the ledger sees.                                                        *)
LEMMA CancelKeepsLedger ==
    ASSUME IInv, TypeOK', NEW o \in Orders, CancelOrder(o)
    PROVE  Ledger!LedgerNext
  <1> USE DEF IInv
  <1>1. CASE UNCHANGED <<order, lines, stockVars>>
    <2>1. HeldUnits' = HeldUnits /\ States' = States
      BY <1>1, SameOrders DEF ReserveRelevant, Placed
    <2>2. QED
      BY <2>1, RecountStep
  <1>2. CASE /\ CanBeCancelled(o)
             /\ order' = [order EXCEPT ![o].status = "cancelled",
                                       ![o].fulfillment_status = "cancelled",
                                       ![o].payment_status = "cancelled"]
             /\ reserved' = [v \in Variants |->
                               IF lines[o][v] > 0 THEN Released(v, lines[o][v])
                                                  ELSE reserved[v]]
             /\ UNCHANGED <<lines, catalog, quantity>>
    <2>1. ReserveRelevant(o) /\ Placed(o)
      BY <1>2 DEF ReserveRelevant, CanBeCancelled, Placed, CANCELLABLE_ORDER_STATUSES,
                  CANCELLABLE_FULFILLMENT_STATUSES, RESERVE_TERMINAL_ORDER_STATUSES,
                  RESERVE_TERMINAL_FULFILLMENT_STATUSES
    <2>2. order'[o].status = "cancelled" /\ ~ReserveRelevant(o)' /\ Placed(o)'
      BY <1>2 DEF TypeOK, OrderRow, ReserveRelevant, Placed, RESERVE_TERMINAL_ORDER_STATUSES
    <2>3. ASSUME NEW p \in Orders, p # o
          PROVE  /\ order'[p] = order[p] /\ ReserveRelevant(p)' = ReserveRelevant(p)
      BY <1>2, <2>3 DEF TypeOK, ReserveRelevant, Placed
    <2>4. ASSUME NEW v \in Variants
          PROVE  Available(v)' = Available(v) + HeldBy(o)[v]
      <3>1. /\ lines[o][v] \in Nat /\ reserved[v] \in Nat /\ quantity[v] \in Nat
            /\ reserved[v] <= quantity[v]
        BY ConstantsAssumption DEF TypeOK
      <3>2. lines[o][v] <= reserved[v]
        BY <2>1, ReservedCoversLine
      <3>3. reserved'[v] = reserved[v] - lines[o][v]
        BY <1>2, <3>1, <3>2 DEF Released
      <3>4. HeldBy(o)[v] = lines[o][v]
        BY <2>1 DEF HeldBy
      <3>5. QED
        BY <1>2, <3>1, <3>2, <3>3, <3>4 DEF Available
    <2>5. Ledger!GiveBack(o)
      <3>1. States[o] = "open"
        BY <2>1, StateOf DEF States
      <3>4. LedgerState(o)' = "cancelled"
        BY <2>2 DEF LedgerState
      <3>5. States' = [States EXCEPT ![o] = "cancelled"]
        BY <2>3, <3>4, StateMoves
      <3>2. HeldUnits' = [HeldUnits EXCEPT ![o] = [v \in Variants |-> 0]]
        BY <1>2, <2>2, <2>3 DEF HeldUnits, HeldBy
      <3>3. Free' = [v \in Variants |-> Free[v] + HeldUnits[o][v]]
        BY <2>4 DEF Free, HeldUnits
      <3>6. QED
        BY <3>1, <3>5, <3>2, <3>3 DEF Ledger!GiveBack, Ledger!Nothing, Free, HeldUnits, States
    <2>6. QED
      BY <2>5 DEF Ledger!LedgerNext
  <1>3. QED
    BY <1>1, <1>2 DEF CancelOrder

(* Issuing takes the held units off both columns: what is free stays.      *)
LEMMA IssueKeepsLedger ==
    ASSUME IInv, NEW o \in Orders, StaffIssue(o)
    PROVE  Ledger!LedgerNext
  <1> USE DEF IInv
  <1>1. ReserveRelevant(o) /\ Placed(o)
    BY DEF StaffIssue, CanBeIssued, ReserveRelevant, Placed, RESERVE_TERMINAL_ORDER_STATUSES,
           RESERVE_TERMINAL_FULFILLMENT_STATUSES
  <1>2. order'[o].status = "delivered" /\ ~ReserveRelevant(o)' /\ Placed(o)'
    BY DEF StaffIssue, TypeOK, OrderRow, ReserveRelevant, Placed, RESERVE_TERMINAL_ORDER_STATUSES
  <1>3. ASSUME NEW p \in Orders, p # o
        PROVE  /\ order'[p] = order[p] /\ ReserveRelevant(p)' = ReserveRelevant(p)
    BY <1>3 DEF StaffIssue, TypeOK, ReserveRelevant, Placed
  <1>4. ASSUME NEW v \in Variants
        PROVE  Available(v)' = Available(v)
    <2>1. lines[o][v] \in Nat /\ reserved[v] \in Nat /\ quantity[v] \in Nat
      BY ConstantsAssumption DEF TypeOK
    <2>2. /\ quantity'[v] = quantity[v] - lines[o][v]
          /\ reserved'[v] = reserved[v] - lines[o][v]
      BY DEF StaffIssue
    <2>3. QED
      BY <2>1, <2>2 DEF Available
  <1>5. Ledger!HandOver(o)
    <2>1. States[o] = "open"
      BY <1>1, StateOf DEF States
    <2>7. LedgerState(o)' = "issued"
      BY <1>2 DEF LedgerState
    <2>8. States' = [States EXCEPT ![o] = "issued"]
      BY <1>3, <2>7, StateMoves
    <2>2. HeldUnits' = [HeldUnits EXCEPT ![o] = [v \in Variants |-> 0]]
      BY <1>2, <1>3 DEF HeldUnits, HeldBy, StaffIssue
    <2>3. Free' = Free
      BY <1>4 DEF Free
    <2>9. QED
      BY <2>1, <2>8, <2>2, <2>3 DEF Ledger!HandOver, Ledger!Nothing, Free, HeldUnits, States
  <1>6. QED
    BY <1>5 DEF Ledger!LedgerNext

(* A checkout is Hold of its lines: each is covered by what is free.       *)
LEMMA PlaceKeepsLedger ==
    ASSUME IInv, NEW o \in Orders, NEW cart \in CartLines, NEW on_sale \in SUBSET Variants,
           PlaceOrder(o, cart, on_sale)
    PROVE  Ledger!LedgerNext
  <1> USE DEF IInv
  <1> DEFINE P == Processable(cart, on_sale)
             want == [v \in Variants |-> IF v \in P THEN cart[v] ELSE 0]
  <1>1. \A v \in P : /\ v \in Variants /\ cart[v] \in 1..MaxQtyPerSku
                     /\ quantity[v] >= reserved[v] + cart[v]
    BY DEF PlaceOrder, Processable, CartLines, CanReserve
  <1>2. want \in [Variants -> 0..MaxQtyPerSku]
    <2>1. MaxQtyPerSku \in Nat
      BY ConstantsAssumption
    <2>2. ASSUME NEW v \in Variants
          PROVE  (IF v \in P THEN cart[v] ELSE 0) \in 0..MaxQtyPerSku
      BY <1>1, <2>1
    <2>3. QED
      BY <2>2
  <1>3. want # [v \in Variants |-> 0]
    <2>1. PICK v \in P : TRUE
      BY DEF PlaceOrder
    <2>2. want[v] = cart[v] /\ cart[v] # 0 /\ v \in Variants
      BY <1>1, <2>1
    <2>3. QED
      BY <2>2
  <1>4. ~Placed(o)
    BY DEF PlaceOrder
  <1>5. order'[o].status = "placed" /\ ReserveRelevant(o)' /\ Placed(o)' /\ lines'[o] = want
    BY DEF PlaceOrder, TypeOK, ReserveRelevant, Placed, RESERVE_TERMINAL_ORDER_STATUSES,
           RESERVE_TERMINAL_FULFILLMENT_STATUSES
  <1>6. ASSUME NEW p \in Orders, p # o
        PROVE  /\ order'[p] = order[p] /\ lines'[p] = lines[p]
               /\ ReserveRelevant(p)' = ReserveRelevant(p)
    BY <1>6 DEF PlaceOrder, TypeOK, ReserveRelevant, Placed
  <1>7. ASSUME NEW v \in Variants
        PROVE  want[v] <= Available(v) /\ Available(v)' = Available(v) - want[v]
    <2>1. reserved[v] \in Nat /\ quantity[v] \in Nat /\ reserved[v] <= quantity[v]
      BY DEF TypeOK
    <2>2. quantity'[v] = quantity[v]
          /\ reserved'[v] = (IF v \in P THEN reserved[v] + cart[v] ELSE reserved[v])
      BY DEF PlaceOrder
    <2>3. QED
      BY <1>1, <2>1, <2>2 DEF Available
  <1> HIDE DEF want
  <1>8. Ledger!Hold(o)
    <2>1. States[o] = "none"
      BY <1>4, StateOf DEF States
    <2>7. LedgerState(o)' = "open"
      BY <1>5 DEF LedgerState
    <2>8. States' = [States EXCEPT ![o] = "open"]
      BY <1>6, <2>7, StateMoves
    <2>2. HeldBy(o)' = want
      BY <1>2, <1>5 DEF HeldBy
    <2>3. HeldUnits' = [HeldUnits EXCEPT ![o] = want]
      BY <1>6, <2>2 DEF HeldUnits, HeldBy
    <2>4. \A v \in Variants : want[v] <= Free[v]
      BY <1>7 DEF Free
    <2>5. Free' = [v \in Variants |-> Free[v] - want[v]]
      BY <1>7 DEF Free
    <2>9. QED
      BY <1>2, <1>3, <2>1, <2>8, <2>3, <2>4, <2>5
         DEF Ledger!Hold, Ledger!Nothing, Free, HeldUnits, States
  <1>9. QED
    BY <1>8 DEF Ledger!LedgerNext

(* A deletion detaches only lines that nobody holds.                       *)
LEMMA RemoveKeepsLedger ==
    ASSUME IInv, TypeOK', NEW vs \in SUBSET Variants, RemoveVariants(vs),
           \A v \in vs : ~UsedByOpenOrder(v)
    PROVE  Ledger!LedgerNext
  <1> USE DEF IInv
  <1>1. UNCHANGED order
    BY DEF RemoveVariants
  <1>2. \A o \in Orders : ReserveRelevant(o)' = ReserveRelevant(o)
    BY <1>1 DEF ReserveRelevant, Placed
  <1>3. ASSUME NEW o \in Orders, NEW v \in Variants, ReserveRelevant(o)
        PROVE  lines'[o][v] = lines[o][v]
    <2>1. lines[o][v] \in Nat
      BY ConstantsAssumption DEF TypeOK
    <2>2. CASE v \in vs
      BY <1>3, <2>1, <2>2 DEF RemoveVariants, UsedByOpenOrder
    <2>3. CASE v \notin vs
      BY <2>3 DEF RemoveVariants
    <2>4. QED
      BY <2>2, <2>3
  <1>4. HeldUnits' = HeldUnits
    BY <1>2, <1>3 DEF HeldUnits, HeldBy
  <1>5. States' = States
    BY <1>1, <1>2 DEF States, LedgerState, Placed
  <1>6. QED
    BY <1>4, <1>5, RecountStep

-----------------------------------------------------------------------------
LEMMA LedgerStep ==
    ASSUME IInv, [Next]_vars
    PROVE  [Ledger!LedgerNext]_(Ledger!ledgerVars)
  <1> USE DEF IInv
  <1>0. TypeOK'
    BY TypeStep
  <1>1. ASSUME NEW o \in Orders, NEW cart \in CartLines, NEW on_sale \in SUBSET Variants,
               PlaceOrder(o, cart, on_sale)
        PROVE  Ledger!LedgerNext
    BY <1>1, PlaceKeepsLedger
  <1>2. ASSUME NEW o \in Orders, CancelOrder(o)
        PROVE  Ledger!LedgerNext
    BY <1>0, <1>2, CancelKeepsLedger
  <1>3. ASSUME NEW o \in Orders, NEW next \in {"processing", "ready"}, StaffPrepare(o, next)
        PROVE  Ledger!LedgerNext
    <2>1. order[o].status \in {"placed", "processing"}
          /\ order[o].fulfillment_status \in {"new", "packing", "reserved"}
      BY <1>3 DEF StaffPrepare, MayMove, Placed, StatusKey, STATUS_TRANSITIONS,
                  StatusCoherent, StatusPairs
    <2>2. \A p \in Orders : ReserveRelevant(p)' = ReserveRelevant(p) /\ Placed(p)' = Placed(p)
      BY <1>3, <2>1 DEF StaffPrepare, Columns, ReserveRelevant, Placed, TypeOK, OrderRow,
                        RESERVE_TERMINAL_ORDER_STATUSES,
                        RESERVE_TERMINAL_FULFILLMENT_STATUSES
    <2>3. \A p \in Orders : order'[p].status = "cancelled" <=> order[p].status = "cancelled"
      BY <1>3, <2>1 DEF StaffPrepare, Columns, TypeOK, OrderRow
    <2>4. HeldUnits' = HeldUnits
      BY <1>3, <2>2 DEF StaffPrepare, HeldUnits, HeldBy
    <2>5. States' = States
      BY <2>2, <2>3 DEF States, LedgerState
    <2>6. QED
      BY <1>0, <2>4, <2>5, RecountStep
  <1>4. ASSUME NEW o \in Orders, StaffIssue(o)
        PROVE  Ledger!LedgerNext
    BY <1>4, IssueKeepsLedger
  <1>5. ASSUME NEW o \in Orders, NEW next \in ALLOWED_PAYMENT_STATUSES, UpdatePayment(o, next)
        PROVE  Ledger!LedgerNext
    <2>1. PICK s, d : order' = [order EXCEPT ![o].payment_status = s, ![o].paid_at = d]
      BY <1>5 DEF UpdatePayment
    <2>2. \A p \in Orders : /\ order'[p].status = order[p].status
                            /\ ReserveRelevant(p)' = ReserveRelevant(p)
      BY <2>1 DEF TypeOK, OrderRow, ReserveRelevant, Placed
    <2>3. HeldUnits' = HeldUnits /\ States' = States
      BY <1>5, <2>2, SameOrders DEF UpdatePayment
    <2>4. QED
      BY <1>0, <2>3, RecountStep
  <1>6. CASE UNCHANGED <<order, lines>>
    <2>1. HeldUnits' = HeldUnits /\ States' = States
      BY <1>6, SameOrders DEF ReserveRelevant, Placed
    <2>2. QED
      BY <1>0, <2>1, RecountStep
  <1>7. ASSUME NEW v \in Variants, DeleteVariant(v)
        PROVE  Ledger!LedgerNext
    <2>1. ~UsedByOpenOrder(v)
      <3>1. ~(reserved[v] > 0 /\ UsedByOpenOrder(v))
        BY <1>7 DEF DeleteVariant, VariantHasActiveReservations
      <3>2. ASSUME NEW o \in Orders, ReserveRelevant(o), lines[o][v] > 0
            PROVE  reserved[v] > 0
        <4>1. lines[o][v] \in Nat /\ reserved[v] \in Nat
          BY ConstantsAssumption DEF TypeOK
        <4>2. lines[o][v] <= reserved[v]
          BY <3>2, ReservedCoversLine
        <4>3. QED
          BY <3>2, <4>1, <4>2
      <3>3. QED
        BY <3>1, <3>2 DEF UsedByOpenOrder
    <2>2. QED
      BY <1>0, <1>7, <2>1, RemoveKeepsLedger DEF DeleteVariant
  <1>8. ASSUME NEW vs \in Groups, DeleteGroup(vs)
        PROVE  Ledger!LedgerNext
    BY <1>0, <1>8, RemoveKeepsLedger, ConstantsAssumption DEF DeleteGroup
  <1>9. QED
    BY <1>1, <1>2, <1>3, <1>4, <1>5, <1>6, <1>7, <1>8
       DEF Next, RequestNext, ExpiryNext, WarehouseNext, SetStock, CreateVariant,
           SelectExpired, WorkerCrash, Elapse, AutoCancel, CustomerCancel, StaffCancel,
           orderVars, stockVars, vars

(* Every behaviour of the shop is a behaviour of the ledger: what a        *)
(* checkout takes, a cancellation gives back or an issue hands over,       *)
(* exactly once per order, whatever happens in between.                    *)
THEOREM ImplementsLedger == Spec => KeepsLedger
  <1>1. Init => Ledger!LedgerInit
    BY DEF Init, Ledger!LedgerInit, Ledger!Nothing, Available, HeldBy, LedgerState,
           ReserveRelevant, Placed, Unplaced
  <1>2. IInv /\ [Next]_vars => [Ledger!LedgerNext]_(Ledger!ledgerVars)
    BY LedgerStep
  <1>3. QED
    BY <1>1, <1>2, InvariantHolds, PTL DEF Spec, KeepsLedger, Ledger!LedgerSpec
===============================================================================
