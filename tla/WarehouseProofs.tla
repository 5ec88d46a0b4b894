---------------------------- MODULE WarehouseProofs ----------------------------
(***************************************************************************)
(* The warehouse, statement by statement, keeps its types whatever happens *)
(* between two statements; and when the reservations a request has read    *)
(* stay as they are until it ends, it is the atomic warehouse of           *)
(* OrderStock, for any staff, variants and orders.  When they do not, it   *)
(* differs by a stale save or a late deletion, and by nothing else.        *)
(***************************************************************************)
EXTENDS WarehouseStock, OrderStockProofs

(* A variant without a row has no stock, and every line of it has been     *)
(* detached.                                                               *)
GoneLeavesNothing ==
    \A v \in Variants \ catalog :
        quantity[v] = 0 /\ reserved[v] = 0 /\ \A o \in Orders : lines[o][v] = 0

(* What a request has read is still so: a row being edited is there, and   *)
(* what is about to be deleted is reserved for nobody.                     *)
ReadStillTrue(s) ==
    LET r == request[s] IN
    /\ r.step \in {"edit", "check_variant", "delete_variant"} =>
         \E v \in Variants : r.rows = {v} /\ r.reserved = reserved[v]
    /\ r.step = "edit" => r.rows \subseteq catalog
    /\ r.step \in {"check_group", "delete_group"} => r.rows \in Groups
    /\ r.step \in {"delete_variant", "delete_group"} => \A v \in r.rows : reserved[v] = 0

StepInv ==
    /\ StepTypeOK
    /\ StatusCoherent /\ ReservationExact
    /\ GoneLeavesNothing
    /\ \A s \in Staff : ReadStillTrue(s)

-----------------------------------------------------------------------------
(* Types.                                                                  *)

LEMMA RemoveType ==
    ASSUME TypeOK, NEW vs \in SUBSET Variants, RemoveVariants(vs)
    PROVE  TypeOK'
  BY ConstantsAssumption DEF RemoveVariants, TypeOK, taskVars

(* A save writes the reservation it has read, stale or not, and a quantity *)
(* that was compared with it: the check constraint cannot fail.            *)
LEMMA SaveType ==
    ASSUME StepTypeOK, NEW s \in Staff, NEW q \in 0..MaxStock, SaveForm(s, q)
    PROVE  TypeOK'
  <1> DEFINE rows == request[s].rows
             n == request[s].reserved
  <1>1. rows \in SUBSET Variants /\ n \in Nat
    BY DEF StepTypeOK, Request
  <1>2. q \in Nat /\ n <= q
    BY <1>1, ConstantsAssumption DEF SaveForm, CleanQuantity
  <1>3. /\ catalog' = catalog \cup rows
        /\ quantity' = [v \in Variants |-> IF v \in rows THEN q ELSE quantity[v]]
        /\ reserved' = [v \in Variants |-> IF v \in rows THEN n ELSE reserved[v]]
        /\ UNCHANGED <<orderVars, taskVars>>
    BY DEF SaveForm
  <1> HIDE DEF rows, n
  <1>4. /\ catalog' \subseteq Variants
        /\ quantity' \in [Variants -> Nat] /\ reserved' \in [Variants -> Nat]
        /\ \A v \in Variants : reserved'[v] <= quantity'[v]
    BY <1>1, <1>2, <1>3 DEF StepTypeOK, TypeOK
  <1>5. QED
    BY <1>3, <1>4 DEF StepTypeOK, TypeOK, orderVars, taskVars

LEMMA StaffType ==
    ASSUME StepTypeOK, NEW s \in Staff, StaffStep(s)
    PROVE  StepTypeOK'
  <1> USE ConstantsAssumption
  <1>1. request \in [Staff -> Request] /\ TypeOK
    BY DEF StepTypeOK
  <1>2. Idle \in Request
    BY DEF Idle, Request, Steps
  <1>3. ASSUME NEW r \in Request, Advance(s, r)
        PROVE  request' \in [Staff -> Request]
    BY <1>1, <1>3 DEF Advance
  <1>4. UNCHANGED vars => TypeOK'
    BY <1>1 DEF TypeOK, vars
  <1>5. ASSUME NEW v \in Variants, LoadForm(s, v) \/ LoadVariant(s, v)
        PROVE  StepTypeOK'
    <2>1. /\ [step |-> "edit", rows |-> {v}, reserved |-> reserved[v]] \in Request
          /\ [step |-> "check_variant", rows |-> {v}, reserved |-> reserved[v]] \in Request
      BY <1>1 DEF Request, Steps, TypeOK
    <2>2. QED
      BY <1>3, <1>4, <1>5, <2>1 DEF LoadForm, LoadVariant, StepTypeOK
  <1>6. ASSUME NEW q \in 0..MaxStock, SaveForm(s, q)
        PROVE  StepTypeOK'
    <2>1. Advance(s, Idle)
      BY <1>6 DEF SaveForm
    <2>2. QED
      BY <1>2, <1>3, <1>6, <2>1, SaveType DEF StepTypeOK
  <1>7. ASSUME NEW q \in 0..MaxStock, RejectForm(s, q)
        PROVE  StepTypeOK'
    BY <1>2, <1>3, <1>4, <1>7 DEF RejectForm, StepTypeOK
  <1>8. ASSUME NEW vs \in Groups, LoadGroup(s, vs)
        PROVE  StepTypeOK'
    <2>1. [step |-> "check_group", rows |-> vs, reserved |-> 0] \in Request
      BY DEF Request, Steps
    <2>2. QED
      BY <1>3, <1>4, <1>8, <2>1 DEF LoadGroup, StepTypeOK
  <1>9. CASE CheckDelete(s)
    <2>1. \A p \in Steps : [request[s] EXCEPT !.step = p] \in Request
      BY <1>1 DEF Request
    <2>2. [request[s] EXCEPT !.step = IF @ = "check_variant" THEN "delete_variant"
                                                          ELSE "delete_group"] \in Request
      BY <2>1 DEF Steps
    <2>3. QED
      BY <1>2, <1>3, <1>4, <1>9, <2>2 DEF CheckDelete, StepTypeOK
  <1>10. CASE CommitDelete(s)
    <2>1. request[s].rows \in SUBSET Variants
      BY <1>1 DEF Request
    <2>2. TypeOK'
      BY <1>1, <1>10, <2>1, RemoveType DEF CommitDelete
    <2>3. request' \in [Staff -> Request]
      BY <1>1, <1>2, <1>10 DEF CommitDelete
    <2>4. QED
      BY <2>2, <2>3 DEF StepTypeOK
  <1>11. QED
    BY <1>5, <1>6, <1>7, <1>8, <1>9, <1>10 DEF StaffStep

(* What is not a staff request on the warehouse is a step of OrderStock.   *)
LEMMA OthersAreAtomic ==
    ASSUME \/ \E o \in Orders : CustomerStep(o)
           \/ \E v \in Variants, q \in 0..MaxStock : NewVariant(v, q)
    PROVE  Next /\ UNCHANGED request
  <1>1. ASSUME NEW o \in Orders, CustomerStep(o)
        PROVE  Next /\ UNCHANGED request
    BY <1>1 DEF CustomerStep, Next
  <1>2. ASSUME NEW v \in Variants, NEW q \in 0..MaxStock, NewVariant(v, q)
        PROVE  Next /\ UNCHANGED request
    BY <1>2 DEF NewVariant, Next, WarehouseNext
  <1>3. QED
    BY <1>1, <1>2

LEMMA StepTypes ==
    ASSUME StepTypeOK, [StepNext]_stepVars
    PROVE  StepTypeOK'
  <1>1. CASE \E s \in Staff : StaffStep(s)
    BY <1>1, StaffType
  <1>2. CASE Next /\ UNCHANGED request
    BY <1>2, TypeStep DEF StepTypeOK
  <1>3. CASE UNCHANGED stepVars
    BY <1>3 DEF StepTypeOK, TypeOK, stepVars, vars
  <1>4. QED
    BY <1>1, <1>2, <1>3, OthersAreAtomic DEF StepNext

LEMMA InitTypes == Init => TypeOK
  BY ConstantsAssumption
     DEF Init, TypeOK, Unplaced, NoPayment, OrderRow, PaymentRow, Status,
         FulfillmentStatus, PaymentStatus, Ages

(* Whatever customers and colleagues do between two statements of a        *)
(* warehouse request, no column leaves its type and the check constraint   *)
(* reserved <= quantity of ProductVariant holds, even after a stale save.  *)
THEOREM WarehouseTypes == StepSpec => []StepTypeOK
  <1>1. StepInit => StepTypeOK
    BY InitTypes DEF StepInit, StepTypeOK, Idle, Request, Steps
  <1>2. StepTypeOK /\ [StepNext]_stepVars => StepTypeOK'
    BY StepTypes
  <1>3. QED
    BY <1>1, <1>2, PTL DEF StepSpec

-----------------------------------------------------------------------------
(* What a missing row leaves behind.                                       *)

LEMMA GoneStep ==
    ASSUME TypeOK, GoneLeavesNothing, [Next]_vars
    PROVE  GoneLeavesNothing'
  <1> USE ConstantsAssumption
  <1>1. ASSUME NEW o \in Orders, NEW cart \in CartLines, NEW on_sale \in SUBSET Variants,
               PlaceOrder(o, cart, on_sale)
        PROVE  GoneLeavesNothing'
    <2>1. \A v \in Variants \ catalog : v \notin Processable(cart, on_sale)
      BY DEF Processable
    <2>2. QED
      BY <1>1, <2>1 DEF PlaceOrder, GoneLeavesNothing, TypeOK
  <1>2. ASSUME NEW o \in Orders, CancelOrder(o)
        PROVE  GoneLeavesNothing'
    BY <1>2 DEF CancelOrder, GoneLeavesNothing, TypeOK, stockVars
  <1>3. ASSUME NEW o \in Orders, StaffIssue(o)
        PROVE  GoneLeavesNothing'
    BY <1>3 DEF StaffIssue, GoneLeavesNothing
  <1>4. ASSUME NEW v \in Variants, NEW q \in 0..MaxStock, CreateVariant(v, q) \/ SetStock(v, q)
        PROVE  GoneLeavesNothing'
    BY <1>4 DEF CreateVariant, SetStock, GoneLeavesNothing, TypeOK, orderVars
  <1>5. ASSUME NEW vs \in SUBSET Variants, RemoveVariants(vs)
        PROVE  GoneLeavesNothing'
    BY <1>5 DEF RemoveVariants, GoneLeavesNothing
  <1>6. CASE UNCHANGED <<lines, stockVars>>
    BY <1>6 DEF GoneLeavesNothing, stockVars
  <1>7. QED
    BY <1>1, <1>2, <1>3, <1>4, <1>5, <1>6
       DEF Next, RequestNext, ExpiryNext, WarehouseNext, DeleteVariant, DeleteGroup,
           SelectExpired, WorkerCrash, Elapse, AutoCancel, CustomerCancel, StaffCancel,
           StaffPrepare, UpdatePayment, orderVars, stockVars, vars

(* Reserved for nobody and used by no open order are the same thing.       *)
LEMMA ReservedIsUsed ==
    ASSUME IInv, NEW v \in Variants
    PROVE  reserved[v] = 0 <=> ~UsedByOpenOrder(v)
  <1>1. ASSUME reserved[v] = 0, NEW o \in Orders, ReserveRelevant(o)
        PROVE  ~(lines[o][v] > 0)
    <2>1. lines[o][v] \in 0..MaxQtyPerSku
      BY DEF IInv, TypeOK
    <2>2. lines[o][v] <= reserved[v]
      BY <1>1, ReservedCoversLine
    <2>3. QED
      BY <1>1, <2>1, <2>2, ConstantsAssumption
  <1>2. ASSUME ~UsedByOpenOrder(v)
        PROVE  reserved[v] = 0
    <2>1. ASSUME NEW u \in Promised(v)
          PROVE  FALSE
      <3>1. PICK o \in Orders, n \in 1..MaxQtyPerSku :
              ReserveRelevant(o) /\ n <= lines[o][v]
        BY DEF Promised
      <3>2. lines[o][v] \in 0..MaxQtyPerSku
        BY DEF IInv, TypeOK
      <3>3. lines[o][v] > 0
        BY <3>1, <3>2, ConstantsAssumption
      <3>4. QED
        BY <1>2, <3>1, <3>3 DEF UsedByOpenOrder
    <2>2. Promised(v) = {}
      BY <2>1
    <2>3. QED
      BY <2>2, FS_EmptySet DEF IInv, ReservationExact
  <1>3. QED
    BY <1>1, <1>2 DEF UsedByOpenOrder

-----------------------------------------------------------------------------
(* Every step of the warehouse is a step of OrderStock or stutters.        *)

LEMMA SaveIsSetStock ==
    ASSUME StepInv, NEW s \in Staff, NEW q \in 0..MaxStock, SaveForm(s, q)
    PROVE  \E v \in Variants : SetStock(v, q)
  <1>1. /\ TypeOK /\ request[s].step = "edit" /\ q >= request[s].reserved
        /\ request[s].rows \subseteq catalog
    BY DEF SaveForm, CleanQuantity, StepInv, StepTypeOK, ReadStillTrue
  <1>2. PICK v \in Variants : request[s].rows = {v} /\ request[s].reserved = reserved[v]
    BY <1>1 DEF StepInv, ReadStillTrue
  <1>3. v \in catalog /\ catalog' = catalog
    BY <1>1, <1>2 DEF SaveForm
  <1>4. quantity' = [quantity EXCEPT ![v] = q]
    BY <1>1, <1>2 DEF SaveForm, TypeOK
  <1>5. reserved' = reserved
    BY <1>1, <1>2 DEF SaveForm, TypeOK
  <1>6. SetStock(v, q)
    BY <1>1, <1>2, <1>3, <1>4, <1>5 DEF SaveForm, SetStock
  <1>7. QED
    BY <1>6

(* Deleting rows that are gone already changes nothing.                    *)
LEMMA GoneDeleteStutters ==
    ASSUME TypeOK, GoneLeavesNothing, NEW rows \in SUBSET Variants,
           RemoveVariants(rows), rows \cap catalog = {}
    PROVE  UNCHANGED vars
  <1>1. \A v \in rows : /\ v \in Variants /\ quantity[v] = 0 /\ reserved[v] = 0
                        /\ \A o \in Orders : lines[o][v] = 0
    BY DEF GoneLeavesNothing
  <1>2. catalog' = catalog
    BY DEF RemoveVariants
  <1>3. quantity' = quantity /\ reserved' = reserved
    BY <1>1 DEF RemoveVariants, TypeOK
  <1>4. lines' = lines
    <2>1. lines \in [Orders -> [Variants -> 0..MaxQtyPerSku]]
      BY DEF TypeOK
    <2>2. \A o \in Orders :
            [v \in Variants |-> IF v \in rows THEN 0 ELSE lines[o][v]] = lines[o]
      BY <1>1, <2>1
    <2>3. lines' = [o \in Orders |-> lines[o]]
      BY <2>2 DEF RemoveVariants
    <2>4. QED
      BY <2>1, <2>3
  <1>5. QED
    BY <1>2, <1>3, <1>4 DEF RemoveVariants, taskVars, vars

LEMMA CommitIsDelete ==
    ASSUME StepInv, NEW s \in Staff, CommitDelete(s)
    PROVE  \/ \E v \in Variants : DeleteVariant(v)
           \/ \E vs \in Groups : DeleteGroup(vs)
           \/ UNCHANGED vars
  <1> DEFINE rows == request[s].rows
  <1>1. TypeOK /\ IInv /\ GoneLeavesNothing /\ ReadStillTrue(s)
    BY DEF StepInv, StepTypeOK, IInv
  <1>2. /\ request[s].step \in {"delete_variant", "delete_group"} /\ RemoveVariants(rows)
        /\ \A v \in rows : reserved[v] = 0
    BY <1>1 DEF CommitDelete, ReadStillTrue
  <1>3. rows \subseteq Variants
    BY DEF StepInv, StepTypeOK, CommitDelete, Request
  <1>4. CASE rows \cap catalog = {}
    BY <1>1, <1>2, <1>3, <1>4, GoneDeleteStutters
  <1>5. CASE rows \cap catalog # {} /\ request[s].step = "delete_variant"
    <2>1. PICK v \in Variants : rows = {v}
      BY <1>1, <1>5 DEF ReadStillTrue
    <2>2. v \in catalog /\ ~VariantHasActiveReservations(v)
      BY <1>2, <1>5, <2>1 DEF VariantHasActiveReservations
    <2>3. QED
      BY <1>2, <2>1, <2>2 DEF DeleteVariant
  <1>6. CASE rows \cap catalog # {} /\ request[s].step = "delete_group"
    <2>1. rows \in Groups
      BY <1>1, <1>6 DEF ReadStillTrue
    <2>2. \A v \in rows : ~UsedByOpenOrder(v)
      BY <1>1, <1>2, <1>3, ReservedIsUsed
    <2>3. QED
      BY <1>2, <1>6, <2>1, <2>2 DEF DeleteGroup
  <1>7. QED
    BY <1>2, <1>4, <1>5, <1>6

LEMMA StaffIsAtomic ==
    ASSUME StepInv, NEW s \in Staff, StaffStep(s)
    PROVE  [Next]_vars
  <1>1. ASSUME NEW q \in 0..MaxStock, SaveForm(s, q)
        PROVE  Next
    BY <1>1, SaveIsSetStock DEF Next, WarehouseNext
  <1>2. CASE CommitDelete(s)
    BY <1>2, CommitIsDelete DEF Next, WarehouseNext
  <1>3. QED
    BY <1>1, <1>2 DEF StaffStep, LoadForm, LoadVariant, LoadGroup, RejectForm, CheckDelete

-----------------------------------------------------------------------------
(* What has been read stays true.                                          *)

(* For a request that does not act, if the environment leaves it alone.    *)
LEMMA LeftAlone ==
    ASSUME StepInv, NEW t \in Staff, Undisturbed(t), request'[t] = request[t]
    PROVE  ReadStillTrue(t)'
  <1>1. ReadStillTrue(t) /\ request[t] \in Request
    BY DEF StepInv, StepTypeOK
  <1>2. \A v \in request[t].rows : reserved'[v] = reserved[v]
    BY DEF Undisturbed
  <1>3. request[t].step = "edit" => request[t].rows \subseteq catalog'
    BY DEF Undisturbed
  <1>4. QED
    BY <1>1, <1>2, <1>3 DEF ReadStillTrue

LEMMA IdleReadsNothing ==
    ASSUME NEW t \in Staff, request'[t] = Idle
    PROVE  ReadStillTrue(t)'
  BY DEF ReadStillTrue, Idle

LEMMA StaffReads ==
    ASSUME StepInv, NEW s \in Staff, StaffStep(s), \A t \in Staff \ {s} : Undisturbed(t)
    PROVE  \A t \in Staff : ReadStillTrue(t)'
  <1>1. IInv /\ request \in [Staff -> Request] /\ ReadStillTrue(s)
    BY DEF StepInv, StepTypeOK, IInv
  <1>2. ASSUME NEW r, Advance(s, r), NEW t \in Staff \ {s}
        PROVE  ReadStillTrue(t)'
    <2>1. request'[t] = request[t]
      BY <1>1, <1>2 DEF Advance
    <2>2. Undisturbed(t)
      OBVIOUS
    <2>3. QED
      BY <2>1, <2>2, LeftAlone
  <1>3. ASSUME NEW r, Advance(s, r)
        PROVE  request'[s] = r
    BY <1>1, <1>3 DEF Advance
  <1>4. ASSUME NEW v \in Variants, LoadForm(s, v) \/ LoadVariant(s, v)
        PROVE  \A t \in Staff : ReadStillTrue(t)'
    <2>1. PICK p \in {"edit", "check_variant"} :
            Advance(s, [step |-> p, rows |-> {v}, reserved |-> reserved[v]])
      BY <1>4 DEF LoadForm, LoadVariant
    <2>2. v \in catalog /\ UNCHANGED vars
      BY <1>4 DEF LoadForm, LoadVariant
    <2>3. request'[s] = [step |-> p, rows |-> {v}, reserved |-> reserved[v]]
      BY <1>3, <2>1
    <2>4. ReadStillTrue(s)'
      BY <2>2, <2>3 DEF ReadStillTrue, vars
    <2>5. QED
      BY <1>2, <2>1, <2>4
  <1>5. ASSUME Advance(s, Idle)
        PROVE  \A t \in Staff : ReadStillTrue(t)'
    BY <1>2, <1>3, <1>5, IdleReadsNothing
  <1>6. ASSUME NEW vs \in Groups, LoadGroup(s, vs)
        PROVE  \A t \in Staff : ReadStillTrue(t)'
    <2>1. Advance(s, [step |-> "check_group", rows |-> vs, reserved |-> 0])
      BY <1>6 DEF LoadGroup
    <2>2. request'[s] = [step |-> "check_group", rows |-> vs, reserved |-> 0]
      BY <1>3, <2>1
    <2>3. ReadStillTrue(s)'
      BY <2>2 DEF ReadStillTrue
    <2>4. QED
      BY <1>2, <2>1, <2>3
  <1>7. ASSUME CheckDelete(s), ~Protected(s)
        PROVE  \A t \in Staff : ReadStillTrue(t)'
    <2> DEFINE p == IF request[s].step = "check_variant" THEN "delete_variant"
                                                         ELSE "delete_group"
               r == [request[s] EXCEPT !.step = p]
    <2>1. /\ request[s].step \in {"check_variant", "check_group"} /\ UNCHANGED vars
          /\ Advance(s, r)
      BY <1>7 DEF CheckDelete
    <2>2. /\ r.step = p /\ r.rows = request[s].rows /\ r.reserved = request[s].reserved
          /\ request[s].rows \subseteq Variants
      BY <1>1 DEF Request
    <2>3. request'[s] = r
      BY <1>3, <2>1
    <2>4. ASSUME NEW v \in request[s].rows
          PROVE  reserved[v] = 0
      <3>1. v \in Variants /\ reserved[v] \in Nat
        BY <1>1, <2>2 DEF IInv, TypeOK
      <3>2. CASE request[s].step = "check_variant"
        <4>1. request[s].reserved = reserved[v]
          BY <1>1, <3>2 DEF ReadStillTrue
        <4>2. reserved[v] > 0 => ~UsedByOpenOrder(v)
          BY <1>7, <3>2, <4>1 DEF Protected
        <4>3. QED
          BY <1>1, <3>1, <4>2, ReservedIsUsed
      <3>3. CASE request[s].step = "check_group"
        <4>1. ~UsedByOpenOrder(v)
          BY <1>7, <3>3 DEF Protected
        <4>2. QED
          BY <1>1, <3>1, <4>1, ReservedIsUsed
      <3>4. QED
        BY <2>1, <3>2, <3>3
    <2> HIDE DEF r
    <2>5. ReadStillTrue(s)'
      BY <1>1, <2>1, <2>2, <2>3, <2>4 DEF ReadStillTrue, vars
    <2>6. QED
      BY <1>2, <2>1, <2>5
  <1>8. CASE CommitDelete(s)
    <2>1. \A t \in Staff : request'[t] \in {Idle, request[t]}
      BY <1>8 DEF CommitDelete
    <2>2. request'[s] = Idle
      BY <1>8 DEF CommitDelete
    <2>3. QED
      BY <2>1, <2>2, LeftAlone, IdleReadsNothing
  <1>9. QED
    BY <1>4, <1>5, <1>6, <1>7, <1>8 DEF StaffStep, SaveForm, RejectForm, CheckDelete

LEMMA UndisturbedStep ==
    ASSUME ~Overlap, StepInv, [StepNext]_stepVars
    PROVE  StepInv' /\ [Next]_vars
  <1>1. StepTypeOK'
    BY StepTypes DEF StepInv
  <1>2. [Next]_vars
    <2>1. CASE \E s \in Staff : StaffStep(s)
      BY <2>1, StaffIsAtomic
    <2>2. CASE UNCHANGED stepVars
      BY <2>2 DEF stepVars
    <2>3. QED
      BY <2>1, <2>2, OthersAreAtomic DEF StepNext
  <1>3. StatusCoherent' /\ ReservationExact' /\ GoneLeavesNothing'
    BY <1>2, StatusStep, ReservationStep, GoneStep DEF StepInv, StepTypeOK, IInv
  <1>4. \A t \in Staff : ReadStillTrue(t)'
    <2>1. ASSUME NEW s \in Staff, StaffStep(s), \A t \in Staff \ {s} : Undisturbed(t)
          PROVE  \A t \in Staff : ReadStillTrue(t)'
      BY <2>1, StaffReads
    <2>2. CASE UNCHANGED request /\ \A t \in Staff : Undisturbed(t)
      BY <2>2, LeftAlone
    <2>3. CASE UNCHANGED stepVars
      BY <2>3 DEF StepInv, ReadStillTrue, stepVars, vars
    <2>4. QED
      BY <2>1, <2>2, <2>3, OthersAreAtomic DEF StepNext
  <1>5. QED
    BY <1>1, <1>2, <1>3, <1>4 DEF StepInv

(* If no reservation moves under an open request, the unlocked reads and   *)
(* writes of the warehouse views do the same as locked ones. The code does *)
(* not arrange this: see WarehouseIsAtomic below for every interleaving.   *)
LEMMA QuietWarehouseIsAtomic == ~Overlap => (StepSpec => ImplementsOrderStock)
  <1> SUFFICES ASSUME ~Overlap PROVE StepSpec => ImplementsOrderStock
    OBVIOUS
  <1>1. StepInit => StepInv /\ Init
    <2>1. ASSUME StepInit PROVE StepInv
      <3>1. StepTypeOK
        BY <2>1, InitTypes DEF StepInit, StepTypeOK, Idle, Request, Steps
      <3>2. StatusCoherent
        BY <2>1 DEF StepInit, Init, StatusCoherent, StatusPairs, Unplaced
      <3>3. ReservationExact
        BY <2>1, InitExact DEF StepInit
      <3>4. GoneLeavesNothing
        BY <2>1 DEF StepInit, Init, GoneLeavesNothing
      <3>5. \A s \in Staff : ReadStillTrue(s)
        BY <2>1 DEF StepInit, ReadStillTrue, Idle
      <3>6. QED
        BY <3>1, <3>2, <3>3, <3>4, <3>5 DEF StepInv
    <2>2. QED
      BY <2>1 DEF StepInit
  <1>2. StepInv /\ [StepNext]_stepVars => StepInv' /\ [Next]_vars
    BY UndisturbedStep
  <1>3. QED
    BY <1>1, <1>2, PTL DEF StepSpec, Spec, ImplementsOrderStock

-----------------------------------------------------------------------------
(***************************************************************************)
(* What is left of it when reservations do move under open requests        *)
(* (Overlap = TRUE): two races, and no others.                             *)
(***************************************************************************)

(* The form writes back a reservation that has changed since it was        *)
(* loaded, or a row that has been deleted since.                           *)
StaleSave(s) ==
    \E q \in 0..MaxStock :
        /\ SaveForm(s, q)
        /\ \E v \in request[s].rows : v \notin catalog \/ reserved[v] # request[s].reserved

(* The DELETE of rows that the protection rule would protect by now.       *)
LateDelete(s) ==
    /\ CommitDelete(s)
    /\ \E v \in request[s].rows :
          /\ UsedByOpenOrder(v)
          /\ request[s].step = "delete_variant" => reserved[v] > 0

(* Which rows a request is about.                                          *)
RowsOf(r) ==
    /\ r.step \in {"edit", "check_variant", "delete_variant"} =>
         \E v \in Variants : r.rows = {v}
    /\ r.step \in {"check_group", "delete_group"} => r.rows \in Groups

RaceInv ==
    /\ StepTypeOK /\ StatusCoherent /\ GoneLeavesNothing
    /\ \A s \in Staff : RowsOf(request[s])

LEMMA FreshSaveIsSetStock ==
    ASSUME RaceInv, NEW s \in Staff, NEW q \in 0..MaxStock, SaveForm(s, q), ~StaleSave(s)
    PROVE  \E v \in Variants : SetStock(v, q)
  <1>1. /\ TypeOK /\ request[s].step = "edit" /\ q >= request[s].reserved
    BY DEF SaveForm, CleanQuantity, RaceInv, StepTypeOK
  <1>2. PICK v \in Variants : request[s].rows = {v}
    BY <1>1 DEF RaceInv, RowsOf
  <1>3. v \in catalog /\ reserved[v] = request[s].reserved
    BY <1>2 DEF StaleSave
  <1>4. catalog' = catalog
    BY <1>2, <1>3 DEF SaveForm
  <1>5. quantity' = [quantity EXCEPT ![v] = q]
    BY <1>1, <1>2 DEF SaveForm, TypeOK
  <1>6. reserved' = reserved
    BY <1>1, <1>2, <1>3 DEF SaveForm, TypeOK
  <1>7. SetStock(v, q)
    BY <1>1, <1>3, <1>4, <1>5, <1>6 DEF SaveForm, SetStock
  <1>8. QED
    BY <1>7

LEMMA TimelyCommitIsDelete ==
    ASSUME RaceInv, NEW s \in Staff, CommitDelete(s), ~LateDelete(s)
    PROVE  \/ \E v \in Variants : DeleteVariant(v)
           \/ \E vs \in Groups : DeleteGroup(vs)
           \/ UNCHANGED vars
  <1> DEFINE rows == request[s].rows
  <1>1. TypeOK /\ GoneLeavesNothing /\ RowsOf(request[s]) /\ rows \in SUBSET Variants
    BY DEF RaceInv, StepTypeOK, Request
  <1>2. /\ request[s].step \in {"delete_variant", "delete_group"} /\ RemoveVariants(rows)
        /\ \A v \in rows : UsedByOpenOrder(v) =>
              request[s].step = "delete_variant" /\ ~(reserved[v] > 0)
    BY DEF CommitDelete, LateDelete
  <1>3. CASE rows \cap catalog = {}
    BY <1>1, <1>2, <1>3, GoneDeleteStutters
  <1>4. CASE rows \cap catalog # {} /\ request[s].step = "delete_variant"
    <2>1. PICK v \in Variants : rows = {v}
      BY <1>1, <1>4 DEF RowsOf
    <2>2. v \in catalog /\ ~VariantHasActiveReservations(v)
      BY <1>2, <1>4, <2>1 DEF VariantHasActiveReservations
    <2>3. QED
      BY <1>2, <2>1, <2>2 DEF DeleteVariant
  <1>5. CASE rows \cap catalog # {} /\ request[s].step = "delete_group"
    <2>1. rows \in Groups
      BY <1>1, <1>5 DEF RowsOf
    <2>2. QED
      BY <1>2, <1>5, <2>1 DEF DeleteGroup
  <1>6. QED
    BY <1>2, <1>3, <1>4, <1>5

LEMMA StepIsAtomicOrRaces ==
    ASSUME RaceInv, [StepNext]_stepVars
    PROVE  [Next]_vars \/ \E s \in Staff : StaleSave(s) \/ LateDelete(s)
  <1>1. ASSUME NEW s \in Staff, StaffStep(s), ~StaleSave(s), ~LateDelete(s)
        PROVE  [Next]_vars
    <2>1. ASSUME NEW q \in 0..MaxStock, SaveForm(s, q)
          PROVE  Next
      BY <1>1, <2>1, FreshSaveIsSetStock DEF Next, WarehouseNext
    <2>2. CASE CommitDelete(s)
      BY <1>1, <2>2, TimelyCommitIsDelete DEF Next, WarehouseNext
    <2>3. QED
      BY <1>1, <2>1, <2>2 DEF StaffStep, LoadForm, LoadVariant, LoadGroup, RejectForm, CheckDelete
  <1>2. CASE UNCHANGED stepVars
    BY <1>2 DEF stepVars
  <1>3. QED
    BY <1>1, <1>2, OthersAreAtomic DEF StepNext

LEMMA SaveKeepsRest ==
    ASSUME RaceInv, NEW s \in Staff, NEW q \in 0..MaxStock, SaveForm(s, q)
    PROVE  StatusCoherent' /\ GoneLeavesNothing'
  <1>1. UNCHANGED <<order, lines, payment>>
    BY DEF SaveForm, orderVars
  <1>2. StatusCoherent'
    BY <1>1 DEF RaceInv, StatusCoherent
  <1>3. GoneLeavesNothing'
    BY <1>1 DEF RaceInv, GoneLeavesNothing, SaveForm
  <1>4. QED
    BY <1>2, <1>3

LEMMA RemoveKeepsRest ==
    ASSUME RaceInv, NEW vs, RemoveVariants(vs)
    PROVE  StatusCoherent' /\ GoneLeavesNothing'
  BY DEF RaceInv, StatusCoherent, GoneLeavesNothing, RemoveVariants

LEMMA RowsStay ==
    ASSUME RaceInv, NEW s \in Staff, StaffStep(s)
    PROVE  \A t \in Staff : RowsOf(request'[t])
  <1>1. request \in [Staff -> Request] /\ \A t \in Staff : RowsOf(request[t])
    BY DEF RaceInv, StepTypeOK
  <1>2. RowsOf(Idle)
    BY DEF RowsOf, Idle
  <1>3. ASSUME NEW r, Advance(s, r), RowsOf(r)
        PROVE  \A t \in Staff : RowsOf(request'[t])
    BY <1>1, <1>3 DEF Advance
  <1>4. ASSUME NEW v \in Variants, NEW p \in {"edit", "check_variant"},
               Advance(s, [step |-> p, rows |-> {v}, reserved |-> reserved[v]])
        PROVE  \A t \in Staff : RowsOf(request'[t])
    <2>1. RowsOf([step |-> p, rows |-> {v}, reserved |-> reserved[v]])
      BY DEF RowsOf
    <2>2. QED
      BY <1>3, <1>4, <2>1
  <1>5. ASSUME NEW vs \in Groups, LoadGroup(s, vs)
        PROVE  \A t \in Staff : RowsOf(request'[t])
    <2>1. RowsOf([step |-> "check_group", rows |-> vs, reserved |-> 0])
      BY DEF RowsOf
    <2>2. QED
      BY <1>3, <1>5, <2>1 DEF LoadGroup
  <1>6. CASE CheckDelete(s)
    <2> DEFINE p == IF request[s].step = "check_variant" THEN "delete_variant"
                                                         ELSE "delete_group"
               r == [request[s] EXCEPT !.step = p]
    <2>1. /\ request[s].step \in {"check_variant", "check_group"}
          /\ Advance(s, Idle) \/ Advance(s, r)
      BY <1>6 DEF CheckDelete
    <2>2. r.step = p /\ r.rows = request[s].rows
      BY <1>1 DEF Request
    <2> HIDE DEF r
    <2>3. RowsOf(r)
      BY <1>1, <2>1, <2>2 DEF RowsOf
    <2>4. QED
      BY <1>2, <1>3, <2>1, <2>3
  <1>7. CASE CommitDelete(s)
    BY <1>1, <1>2, <1>7 DEF CommitDelete
  <1>8. CASE Advance(s, Idle)
    BY <1>2, <1>3, <1>8
  <1>9. QED
    BY <1>4, <1>5, <1>6, <1>7, <1>8 DEF StaffStep, LoadForm, LoadVariant, SaveForm, RejectForm

LEMMA RaceStep ==
    ASSUME RaceInv, [StepNext]_stepVars
    PROVE  RaceInv'
  <1>1. StepTypeOK' /\ TypeOK
    BY StepTypes DEF RaceInv, StepTypeOK
  <1>2. ASSUME [Next]_vars
        PROVE  StatusCoherent' /\ GoneLeavesNothing'
    BY <1>1, <1>2, StatusStep, GoneStep DEF RaceInv
  <1>3. ASSUME NEW s \in Staff, StaleSave(s) \/ LateDelete(s)
        PROVE  StatusCoherent' /\ GoneLeavesNothing'
    BY <1>3, SaveKeepsRest, RemoveKeepsRest DEF StaleSave, LateDelete, CommitDelete
  <1>4. StatusCoherent' /\ GoneLeavesNothing'
    BY <1>2, <1>3, StepIsAtomicOrRaces
  <1>5. \A t \in Staff : RowsOf(request'[t])
    <2>1. CASE UNCHANGED request
      BY <2>1 DEF RaceInv
    <2>2. QED
      BY <2>1, RowsStay, OthersAreAtomic DEF StepNext, stepVars
  <1>6. QED
    BY <1>1, <1>4, <1>5 DEF RaceInv

LEMMA RaceInvariant == StepSpec => []RaceInv
  <1>1. StepInit => RaceInv
    <2>1. ASSUME StepInit PROVE RaceInv
      <3>1. StepTypeOK
        BY <2>1, InitTypes DEF StepInit, StepTypeOK, Idle, Request, Steps
      <3>2. StatusCoherent
        BY <2>1 DEF StepInit, Init, StatusCoherent, StatusPairs, Unplaced
      <3>3. GoneLeavesNothing
        BY <2>1 DEF StepInit, Init, GoneLeavesNothing
      <3>4. \A s \in Staff : RowsOf(request[s])
        BY <2>1 DEF StepInit, RowsOf, Idle
      <3>5. QED
        BY <3>1, <3>2, <3>3, <3>4 DEF RaceInv
    <2>2. QED
      BY <2>1
  <1>2. QED
    BY <1>1, RaceStep, PTL DEF StepSpec

(* Whatever overlaps, a step of the staff warehouse is a step of the       *)
(* atomic one, unless it saves a form whose reservation or row has changed *)
(* since it was loaded, or deletes what was free when it was checked and   *)
(* is reserved by now: the unlocked reads of warehouse_crud.py and         *)
(* delete_protection.py go wrong in these two ways only.                   *)
THEOREM OnlyTwoRaces ==
    StepSpec => [][[Next]_vars \/ \E s \in Staff : StaleSave(s) \/ LateDelete(s)]_stepVars
  <1>1. RaceInv /\ [StepNext]_stepVars =>
            [[Next]_vars \/ \E s \in Staff : StaleSave(s) \/ LateDelete(s)]_stepVars
    BY StepIsAtomicOrRaces
  <1>2. QED
    BY <1>1, RaceInvariant, PTL DEF StepSpec

(* Reads and writes of the warehouse views take no lock, and reservations  *)
(* move in between. In spite of this every behaviour of the staff          *)
(* warehouse, whatever overlaps in it, is one of the atomic warehouse as   *)
(* long as neither race is lost: only a save of a form over a reservation  *)
(* or row that has changed, or a deletion of what has been reserved since  *)
(* its check, tells the two apart.                                         *)
THEOREM WarehouseIsAtomic ==
    StepSpec /\ [][\A s \in Staff : ~StaleSave(s) /\ ~LateDelete(s)]_stepVars
        => ImplementsOrderStock
  <1>1. StepInit => Init
    BY DEF StepInit
  <1>2. /\ [[Next]_vars \/ \E s \in Staff : StaleSave(s) \/ LateDelete(s)]_stepVars
        /\ [\A s \in Staff : ~StaleSave(s) /\ ~LateDelete(s)]_stepVars
        => [Next]_vars
    BY DEF stepVars, vars
  <1>3. QED
    BY <1>1, <1>2, OnlyTwoRaces, PTL DEF StepSpec, Spec, ImplementsOrderStock

(* Of the two only the stale save makes reserved_quantity differ from what *)
(* open orders hold, on the variants it writes and only if the reservation *)
(* it has read was another; a late deletion takes the promise away         *)
(* together with the row.                                                  *)
THEOREM OnlyStaleSavesDrift ==
    StepSpec => [][ \A v \in Variants :
                      ExactAt(v) /\ ~ExactAt(v)' =>
                        \E s \in Staff, q \in 0..MaxStock :
                          /\ SaveForm(s, q) /\ v \in request[s].rows
                          /\ request[s].reserved # reserved[v] ]_stepVars
  <1>1. ASSUME RaceInv, [StepNext]_stepVars, NEW v \in Variants, ExactAt(v), ~ExactAt(v)'
        PROVE  \E s \in Staff, q \in 0..MaxStock :
                 /\ SaveForm(s, q) /\ v \in request[s].rows
                 /\ request[s].reserved # reserved[v]
    <2>1. TypeOK /\ StatusCoherent
      BY <1>1 DEF RaceInv, StepTypeOK
    <2>2. ~[Next]_vars
      BY <1>1, <2>1, ExactStep
    <2>3. PICK s \in Staff : StaleSave(s) \/ LateDelete(s)
      BY <1>1, <2>2, StepIsAtomicOrRaces
    <2>4. ~LateDelete(s)
      BY <1>1, <2>1, RemoveStep DEF LateDelete, CommitDelete
    <2>5. PICK q \in 0..MaxStock : SaveForm(s, q)
      BY <2>3, <2>4 DEF StaleSave
    <2>6. /\ Open' = Open /\ LinesOf(v)' = LinesOf(v)
          /\ v \in catalog => v \in catalog'
          /\ reserved'[v] = IF v \in request[s].rows THEN request[s].reserved ELSE reserved[v]
      BY <2>5 DEF SaveForm, orderVars, Open, ReserveRelevant, Placed, LinesOf
    <2>7. reserved'[v] # reserved[v]
      BY <1>1, <2>6, KeepStep
    <2>8. QED
      BY <2>5, <2>6, <2>7
  <1>2. RaceInv /\ [StepNext]_stepVars =>
            [ \A v \in Variants :
                ExactAt(v) /\ ~ExactAt(v)' =>
                  \E s \in Staff, q \in 0..MaxStock :
                    /\ SaveForm(s, q) /\ v \in request[s].rows
                    /\ request[s].reserved # reserved[v] ]_stepVars
    BY <1>1
  <1>3. QED
    BY <1>2, RaceInvariant, PTL DEF StepSpec
===============================================================================
