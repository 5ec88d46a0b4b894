----------------------------- MODULE CheckoutProofs -----------------------------
(***************************************************************************)
(* What Checkout guarantees for any requests, customers, browsers, tokens, *)
(* items, lock keys and limits: one order per token, no limit exceeded, no *)
(* cart row sold twice, no "empty cart" for a twin of a created order, no  *)
(* deadlock, and which duplicates are refused all the same.                *)
(***************************************************************************)
EXTENDS Checkout, FiniteSetTheorems, NaturalsInduction, WellFoundedInduction, TLAPS

OutsidePhases == {"new", "dispatch", "form_valid", "lookup", "precheck",
                  "recover", "respond", "answered", "failed", "crashed"}

(* Past the check of the limits, on the way to an order.                   *)
BoundPhases == {"read_cart", "lock_cart", "write"}

(* A request that has its locks: guests take them after the second lookup, *)
(* users before it.                                                        *)
HasLocks(rec) ==
    \/ rec.phase \in BoundPhases \cup {"limit"}
    \/ rec.phase = "relookup" /\ rec.customer \in Users

(* A request that has arrived belongs to a customer and has a token.       *)
Known(rec) ==
    /\ rec.browser \in Browsers /\ rec.customer = CustomerOf[rec.browser]
    /\ rec.token \in Tokens

(* The orders that only a commit can add to the limit of k: the check also *)
(* counts the reopened orders of a user, but those come and go under it.   *)
Counted(c) == IF c \in Users THEN {"open"} ELSE {"open", "paid", "reopened"}
CountedOrders(k) ==
    {q \in Requests : /\ Created(q) /\ k \in KeysOf[request[q].customer]
                      /\ order[q].state \in Counted(request[q].customer)}
Room(k) == Cardinality(CountedOrders(k)) < Limit[k]

RequestOK(r) ==
    /\ request[r].phase # "new" => Known(request[r])
    /\ Created(r) => request[r].phase # "new"
    /\ request[r].phase # "write" => request[r].locked = {}
    /\ request[r].phase = "write" => request[r].locked \subseteq cart[request[r].customer]
    /\ HasLocks(request[r]) => \A k \in KeysOf[request[r].customer] : holder[k] = r
    /\ request[r].phase \in BoundPhases => \A k \in KeysOf[request[r].customer] : Room(k)

(* The rows that two requests have locked, and two carts, are disjoint.    *)
RowsApart ==
    /\ \A q, r \in Requests : q # r => request[q].locked \cap request[r].locked = {}
    /\ \A c, d \in Customers : c # d => cart[c] \cap cart[d] = {}

LimitsKept == \A k \in Keys : Cardinality(CountedOrders(k)) <= Limit[k]

IInv ==
    /\ TypeOK
    /\ \A r \in Requests : RequestOK(r)
    /\ RowsApart
    /\ OneOrderPerToken /\ LimitsKept /\ ItemSoldOnce

-----------------------------------------------------------------------------
LEMMA CustomerKnown ==
    ASSUME NEW rec, Known(rec)
    PROVE  /\ rec.customer \in Customers /\ KeysOf[rec.customer] \subseteq Keys
           /\ \A k \in KeysOf[rec.customer] : Limit[k] \in Nat
  <1>1. rec.customer \in Customers
    BY CheckoutAssumption DEF Known, CheckoutAssumption
  <1>2. KeysOf[rec.customer] \subseteq Keys
    BY <1>1 DEF Keys
  <1>3. QED
    BY <1>1, <1>2, CheckoutAssumption DEF CheckoutAssumption

LEMMA CountedFinite ==
    ASSUME NEW k
    PROVE  /\ IsFiniteSet(CountedOrders(k)) /\ Cardinality(CountedOrders(k)) \in Nat
           /\ IsFiniteSet(ActiveOrders(k)) /\ Cardinality(ActiveOrders(k)) \in Nat
           /\ CountedOrders(k) \subseteq ActiveOrders(k)
           /\ Cardinality(CountedOrders(k)) <= Cardinality(ActiveOrders(k))
  <1>1. IsFiniteSet(Requests) /\ ActiveOrders(k) \subseteq Requests
    BY CheckoutAssumption DEF ActiveOrders, CheckoutAssumption
  <1>2. CountedOrders(k) \subseteq ActiveOrders(k)
    BY DEF CountedOrders, ActiveOrders, Counted, Active
  <1>3. IsFiniteSet(ActiveOrders(k))
    BY <1>1, FS_Subset
  <1>4. IsFiniteSet(CountedOrders(k)) /\ Cardinality(CountedOrders(k)) <= Cardinality(ActiveOrders(k))
    BY <1>2, <1>3, FS_Subset
  <1>5. QED
    BY <1>2, <1>3, <1>4, FS_CardinalityType

-----------------------------------------------------------------------------
(***************************************************************************)
(* The shape of every step of a request: r becomes rec, and keeps the      *)
(* customer and the token it has come with.                                *)
(***************************************************************************)
Moves(r, rec) ==
    /\ rec \in Request /\ rec.phase # "new" /\ Known(rec)
    /\ request[r].phase # "new" =>
         rec.customer = request[r].customer /\ rec.token = request[r].token
    /\ request' = [request EXCEPT ![r] = rec]

(* Only r takes or gives back locks, and outside its transaction r has     *)
(* none; a request that goes on with its locks has them all.               *)
LocksMove(r, rec) ==
    /\ holder' \in [Keys -> Requests \cup {None}]
    /\ \A k \in Keys, q \in Requests \ {r} : holder'[k] = q <=> holder[k] = q
    /\ rec.phase \in OutsidePhases => \A k \in Keys : holder'[k] # r
    /\ HasLocks(rec) => \A k \in KeysOf[rec.customer] : holder'[k] = r

(* Only rows that r has locked leave its cart, and r locks what nobody     *)
(* else has locked.                                                        *)
RowsMove(r, rec) ==
    /\ cart' \in [Customers -> SUBSET Items]
    /\ \A c \in Customers : cart'[c] \subseteq cart[c] /\ cart[c] \ cart'[c] \subseteq request[r].locked
    /\ rec.phase # "write" => rec.locked = {}
    /\ rec.phase = "write" =>
         /\ rec.locked \subseteq cart'[rec.customer]
         /\ \A q \in Requests \ {r} : rec.locked \cap request[q].locked = {}

LEMMA OthersStay ==
    ASSUME IInv, NEW r \in Requests, NEW rec, Moves(r, rec)
    PROVE  /\ request'[r] = rec /\ request' \in [Requests -> Request]
           /\ \A q \in Requests \ {r} : request'[q] = request[q]
           /\ \A q \in Requests : Created(q) =>
                /\ request'[q].customer = request[q].customer
                /\ request'[q].token = request[q].token
                /\ request[q].customer \in Customers
  <1>1. request \in [Requests -> Request]
    BY DEF IInv, TypeOK
  <1>2. /\ request'[r] = rec /\ request' \in [Requests -> Request]
        /\ \A q \in Requests \ {r} : request'[q] = request[q]
    BY <1>1 DEF Moves
  <1>3. ASSUME NEW q \in Requests, Created(q)
        PROVE  /\ request'[q].customer = request[q].customer
               /\ request'[q].token = request[q].token
               /\ request[q].customer \in Customers
    <2>1. request[q].phase # "new" /\ Known(request[q])
      BY <1>3 DEF IInv, RequestOK
    <2>2. request[q].customer \in Customers
      BY <2>1, CustomerKnown
    <2>3. QED
      BY <1>2, <2>1, <2>2 DEF Moves
  <1>4. QED
    BY <1>2, <1>3

(***************************************************************************)
(* What a step of that shape keeps, whether it creates an order or not.    *)
(***************************************************************************)
LEMMA MoveFrame ==
    ASSUME IInv, NEW r \in Requests, NEW rec,
           Moves(r, rec), LocksMove(r, rec), RowsMove(r, rec),
           order' \in [Requests -> Order], \A q \in Requests \ {r} : order'[q] = order[q],
           session' \in [Browsers -> Session], issued' \in [Browsers -> SUBSET Tokens],
           \A q \in Requests : request'[q].phase \in BoundPhases =>
               \A k \in KeysOf[request'[q].customer] : Room(k)'
    PROVE  TypeOK' /\ RowsApart' /\ \A q \in Requests : RequestOK(q)'
  <1> USE DEF Created
  <1>1. /\ request'[r] = rec /\ request' \in [Requests -> Request]
        /\ \A q \in Requests \ {r} : request'[q] = request[q]
    BY OthersStay
  <1>2. TypeOK /\ RowsApart /\ \A q \in Requests : RequestOK(q)
    BY DEF IInv
  <1>3. TypeOK'
    <2>1. ASSUME NEW q \in Requests, request'[q].phase \in OutsidePhases
          PROVE  request'[q].locked = {} /\ \A k \in Keys : holder'[k] # q
      <3>1. CASE q = r
        BY <1>1, <2>1, <3>1 DEF LocksMove, RowsMove, OutsidePhases
      <3>2. CASE q # r
        BY <1>1, <1>2, <2>1, <3>2 DEF TypeOK, LocksMove, OutsidePhases
      <3>3. QED
        BY <3>1, <3>2
    <2>2. QED
      BY <1>1, <1>2, <2>1 DEF TypeOK, LocksMove, RowsMove, OutsidePhases
  <1>4. ASSUME NEW q \in Requests PROVE RequestOK(q)'
    <2>1. RequestOK(q)
      BY <1>2
    <2>2. request'[q].phase \in BoundPhases => \A k \in KeysOf[request'[q].customer] : Room(k)'
      OBVIOUS
    <2>3. CASE q = r
      <3>1. Known(rec) /\ rec.phase # "new"
        BY DEF Moves
      <3>2. /\ rec.phase # "write" => rec.locked = {}
            /\ rec.phase = "write" => rec.locked \subseteq cart'[rec.customer]
        BY DEF RowsMove
      <3>3. HasLocks(rec) => \A k \in KeysOf[rec.customer] : holder'[k] = r
        BY DEF LocksMove
      <3>4. QED
        BY <1>1, <2>2, <2>3, <3>1, <3>2, <3>3 DEF RequestOK
    <2>4. CASE q # r
      <3>1. request'[q] = request[q] /\ order'[q] = order[q]
        BY <1>1, <2>4
      <3>2. request[q].phase = "write" => request[q].locked \subseteq cart'[request[q].customer]
        <4>1. HAVE request[q].phase = "write"
        <4>2. request[q].customer \in Customers
          BY <2>1, <4>1, CustomerKnown DEF RequestOK
        <4>3. request[q].locked \cap request[r].locked = {}
          BY <1>2, <2>4 DEF RowsApart
        <4>4. QED
          BY <2>1, <4>1, <4>2, <4>3 DEF RequestOK, RowsMove
      <3>3. HasLocks(request[q]) => \A k \in KeysOf[request[q].customer] : holder'[k] = q
        <4>1. HAVE HasLocks(request[q])
        <4>2. request[q].phase # "new"
          BY <4>1 DEF HasLocks, BoundPhases
        <4>3. KeysOf[request[q].customer] \subseteq Keys
          BY <2>1, <4>2, CustomerKnown DEF RequestOK
        <4>4. QED
          BY <2>1, <2>4, <4>1, <4>3 DEF RequestOK, LocksMove
      <3>4. QED
        BY <2>1, <2>2, <3>1, <3>2, <3>3 DEF RequestOK
    <2>5. QED
      BY <2>3, <2>4
  <1>5. RowsApart'
    <2>1. ASSUME NEW p \in Requests, NEW q \in Requests, p # q
          PROVE  request'[p].locked \cap request'[q].locked = {}
      <3>1. request[p].locked \cap request[q].locked = {}
        BY <1>2, <2>1 DEF RowsApart
      <3>2. \A o \in Requests \ {r} : rec.locked \cap request[o].locked = {}
        BY DEF RowsMove
      <3>3. CASE p = r
        BY <1>1, <2>1, <3>2, <3>3
      <3>4. CASE q = r
        BY <1>1, <2>1, <3>2, <3>4
      <3>5. CASE p # r /\ q # r
        BY <1>1, <3>1, <3>5
      <3>6. QED
        BY <3>3, <3>4, <3>5
    <2>2. ASSUME NEW c \in Customers, NEW d \in Customers, c # d
          PROVE  cart'[c] \cap cart'[d] = {}
      BY <1>2, <2>2 DEF RowsApart, RowsMove
    <2>3. QED
      BY <2>1, <2>2 DEF RowsApart
  <1>6. QED
    BY <1>3, <1>4, <1>5

(* A step of that shape that creates no order keeps the invariant.         *)
LEMMA MoveKeeps ==
    ASSUME IInv, NEW r \in Requests, NEW rec,
           Moves(r, rec), LocksMove(r, rec), RowsMove(r, rec),
           order' = order, session' \in [Browsers -> Session],
           issued' \in [Browsers -> SUBSET Tokens],
           rec.phase \in BoundPhases => \A k \in KeysOf[rec.customer] : Room(k)
    PROVE  IInv'
  <1> USE DEF Created
  <1>1. /\ request'[r] = rec
        /\ \A q \in Requests \ {r} : request'[q] = request[q]
        /\ \A q \in Requests : Created(q) =>
             /\ request'[q].customer = request[q].customer
             /\ request'[q].token = request[q].token
    BY OthersStay
  <1>2. \A k : CountedOrders(k)' = CountedOrders(k)
    BY <1>1 DEF CountedOrders
  <1>3. \A q \in Requests : request'[q].phase \in BoundPhases =>
            \A k \in KeysOf[request'[q].customer] : Room(k)'
    BY <1>1, <1>2 DEF Room, IInv, RequestOK
  <1>4. order' \in [Requests -> Order]
    BY DEF IInv, TypeOK
  <1>5. TypeOK' /\ RowsApart' /\ \A q \in Requests : RequestOK(q)'
    BY <1>3, <1>4, MoveFrame
  <1>6. OneOrderPerToken'
    BY <1>1 DEF IInv, OneOrderPerToken
  <1>7. LimitsKept'
    BY <1>2 DEF IInv, LimitsKept
  <1>8. ItemSoldOnce'
    BY DEF IInv, ItemSoldOnce, RowsMove
  <1>9. QED
    BY <1>5, <1>6, <1>7, <1>8 DEF IInv

(* What a request that has arrived may become.                             *)
LEMMA Moved ==
    ASSUME IInv, NEW r \in Requests, request[r].phase # "new",
           NEW rec \in Request, rec.phase # "new", rec.browser = request[r].browser,
           rec.customer = request[r].customer, rec.token = request[r].token,
           request' = [request EXCEPT ![r] = rec]
    PROVE  Moves(r, rec)
  <1>1. Known(request[r])
    BY DEF IInv, RequestOK
  <1>2. QED
    BY <1>1 DEF Moves, Known

(* Steps that touch neither a lock nor a cart.                             *)
LEMMA QuietKeeps ==
    ASSUME IInv, NEW r \in Requests, NEW rec, Moves(r, rec),
           UNCHANGED <<cart, order, holder>>,
           session' \in [Browsers -> Session], issued' \in [Browsers -> SUBSET Tokens],
           rec.locked = {}, rec.phase # "write",
           rec.phase \in OutsidePhases => request[r].phase \in OutsidePhases,
           HasLocks(rec) => \A k \in KeysOf[rec.customer] : holder[k] = r,
           rec.phase \in BoundPhases => \A k \in KeysOf[rec.customer] : Room(k)
    PROVE  IInv'
  <1>1. LocksMove(r, rec)
    BY DEF LocksMove, IInv, TypeOK, OutsidePhases
  <1>2. RowsMove(r, rec)
    BY DEF RowsMove, IInv, TypeOK
  <1>3. QED
    BY <1>1, <1>2, MoveKeeps

(* COMMIT and ROLLBACK; the rows r has locked may be gone.                  *)
LEMMA ReleaseMoves ==
    ASSUME IInv, NEW r \in Requests, NEW rec, Moves(r, rec), Release(r),
           rec.locked = {}, rec.phase \in OutsidePhases, cart' \in {cart, CleanedCart(r)}
    PROVE  LocksMove(r, rec) /\ RowsMove(r, rec)
  <1>1. TypeOK
    BY DEF IInv
  <1>2. LocksMove(r, rec)
    <2>1. ~HasLocks(rec)
      BY DEF HasLocks, OutsidePhases, BoundPhases
    <2>2. r # None /\ None \notin Requests
      BY NoneAssumption
    <2>3. QED
      BY <1>1, <2>1, <2>2 DEF LocksMove, Release, TypeOK
  <1>3. RowsMove(r, rec)
    <2>1. \/ cart' = cart
          \/ cart' = [cart EXCEPT ![request[r].customer] = @ \ request[r].locked]
      BY DEF CleanedCart
    <2>2. rec.phase # "write"
      BY DEF OutsidePhases
    <2>3. QED
      BY <1>1, <2>1, <2>2 DEF RowsMove, TypeOK
  <1>4. QED
    BY <1>2, <1>3

LEMMA ReleaseKeeps ==
    ASSUME IInv, NEW r \in Requests, NEW rec, Moves(r, rec), Release(r),
           rec.locked = {}, rec.phase \in OutsidePhases, cart' \in {cart, CleanedCart(r)},
           UNCHANGED <<browserVars, order>>
    PROVE  IInv'
  <1>1. LocksMove(r, rec) /\ RowsMove(r, rec)
    BY ReleaseMoves
  <1>2. session' \in [Browsers -> Session] /\ issued' \in [Browsers -> SUBSET Tokens]
    BY DEF IInv, TypeOK, browserVars
  <1>3. rec.phase \notin BoundPhases
    BY DEF OutsidePhases, BoundPhases
  <1>4. QED
    BY <1>1, <1>2, <1>3, MoveKeeps

-----------------------------------------------------------------------------
At(r, phase) == [request[r] EXCEPT !.phase = phase]
Failed(r, why) == [request[r] EXCEPT !.phase = "failed", !.reason = why, !.locked = {}]

LEMMA Typed ==
    ASSUME IInv, NEW r \in Requests
    PROVE  /\ request \in [Requests -> Request] /\ request[r] \in Request
           /\ session \in [Browsers -> Session] /\ issued \in [Browsers -> SUBSET Tokens]
           /\ request[r].phase # "write" => request[r].locked = {}
           /\ request[r].phase # "new" =>
                /\ request[r].browser \in Browsers /\ request[r].customer \in Customers
                /\ request[r].token \in Tokens /\ KeysOf[request[r].customer] \subseteq Keys
  <1>1. TypeOK /\ RequestOK(r)
    BY DEF IInv
  <1>2. request[r].phase # "new" => Known(request[r])
    BY <1>1 DEF RequestOK
  <1>3. QED
    BY <1>1, <1>2, CustomerKnown DEF TypeOK, RequestOK, Known

LEMMA GotoMoves ==
    ASSUME IInv, NEW r \in Requests, request[r].phase # "new",
           NEW p \in Phases, p # "new", Goto(r, p)
    PROVE  /\ Moves(r, At(r, p)) /\ At(r, p).phase = p
           /\ At(r, p).locked = request[r].locked
           /\ At(r, p).customer = request[r].customer
  <1>1. request[r] \in Request
    BY Typed
  <1>2. /\ At(r, p) \in Request /\ At(r, p).phase = p
        /\ At(r, p).browser = request[r].browser /\ At(r, p).token = request[r].token
        /\ At(r, p).locked = request[r].locked /\ At(r, p).customer = request[r].customer
    BY <1>1 DEF At, Request
  <1>3. request' = [request EXCEPT ![r] = At(r, p)]
    BY DEF Goto, At
  <1>4. QED
    BY <1>2, <1>3, Moved

LEMMA FailMoves ==
    ASSUME IInv, NEW r \in Requests, request[r].phase # "new",
           NEW why \in Reasons, Fail(r, why)
    PROVE  /\ Moves(r, Failed(r, why))
           /\ Failed(r, why).phase = "failed" /\ Failed(r, why).locked = {}
  <1>1. request[r] \in Request
    BY Typed
  <1>2. /\ Failed(r, why) \in Request /\ Failed(r, why).phase = "failed"
        /\ Failed(r, why).browser = request[r].browser
        /\ Failed(r, why).token = request[r].token
        /\ Failed(r, why).locked = {} /\ Failed(r, why).customer = request[r].customer
    BY <1>1 DEF Failed, Request, Phases
  <1>3. request' = [request EXCEPT ![r] = Failed(r, why)]
    BY DEF Fail, Failed
  <1>4. QED
    BY <1>2, <1>3, Moved

(* A request that fails outside its transaction, or rolls it back.         *)
LEMMA FailKeeps ==
    ASSUME IInv, NEW r \in Requests, NEW why \in Reasons,
           request[r].phase # "new", Fail(r, why), UNCHANGED <<cart, order>>,
           session' \in [Browsers -> Session], issued' \in [Browsers -> SUBSET Tokens],
           \/ request[r].phase \in OutsidePhases /\ UNCHANGED holder
           \/ Release(r) /\ UNCHANGED browserVars
    PROVE  IInv'
  <1>1. /\ Moves(r, Failed(r, why))
        /\ Failed(r, why).phase = "failed" /\ Failed(r, why).locked = {}
    BY FailMoves
  <1>2. "failed" \in OutsidePhases /\ ~HasLocks(Failed(r, why)) /\ "failed" \notin BoundPhases
    BY <1>1 DEF OutsidePhases, HasLocks, BoundPhases
  <1>3. CASE request[r].phase \in OutsidePhases /\ UNCHANGED holder
    BY <1>1, <1>2, <1>3, QuietKeeps
  <1>4. CASE Release(r) /\ UNCHANGED browserVars
    BY <1>1, <1>2, <1>4, ReleaseKeeps
  <1>5. QED
    BY <1>3, <1>4

(* A request that goes on to phase p without touching locks or carts.      *)
LEMMA GotoKeeps ==
    ASSUME IInv, NEW r \in Requests, request[r].phase \notin {"new", "write"},
           NEW p \in Phases \ {"new", "write"}, Goto(r, p), UNCHANGED <<cart, order, holder>>,
           session' \in [Browsers -> Session], issued' \in [Browsers -> SUBSET Tokens],
           p \in OutsidePhases => request[r].phase \in OutsidePhases,
           HasLocks(At(r, p)) => \A k \in KeysOf[request[r].customer] : holder[k] = r,
           p \in BoundPhases => \A k \in KeysOf[request[r].customer] : Room(k)
    PROVE  IInv'
  <1>1. /\ Moves(r, At(r, p)) /\ At(r, p).phase = p
        /\ At(r, p).locked = request[r].locked
        /\ At(r, p).customer = request[r].customer
    BY GotoMoves
  <1>2. request[r].locked = {}
    BY Typed
  <1>3. QED
    BY <1>1, <1>2, QuietKeeps

(* A request that ends its transaction and goes on to phase p.             *)
LEMMA GoOutKeeps ==
    ASSUME IInv, NEW r \in Requests, request[r].phase # "new",
           NEW p \in OutsidePhases \ {"new"}, Goto(r, p), Release(r),
           request[r].locked = {}, UNCHANGED <<browserVars, cart, order>>
    PROVE  IInv'
  <1>1. p \in Phases /\ p # "new"
    BY DEF OutsidePhases, Phases
  <1>2. Moves(r, At(r, p)) /\ At(r, p).phase = p /\ At(r, p).locked = request[r].locked
    BY <1>1, GotoMoves
  <1>3. QED
    BY <1>2, ReleaseKeeps

-----------------------------------------------------------------------------
(* The steps of a request, in the order of the code.                       *)

LEMMA SubmitKeeps ==
    ASSUME IInv, NEW r \in Requests, NEW b \in Browsers, NEW t \in Tokens, Submit(r, b, t)
    PROVE  IInv'
  <1> DEFINE rec == [request[r] EXCEPT !.phase = "dispatch", !.loaded = session[b],
                       !.browser = b, !.customer = CustomerOf[b], !.token = t]
  <1>1. request[r] \in Request /\ session[b] \in Session /\ request[r].phase = "new"
    BY Typed DEF Submit
  <1>2. request[r].locked = {}
    BY <1>1, Typed
  <1>3. /\ rec \in Request /\ rec.phase = "dispatch" /\ rec.browser = b
        /\ rec.customer = CustomerOf[b] /\ rec.token = t /\ rec.locked = {}
    BY <1>1, <1>2, CheckoutAssumption DEF Request, Phases, CheckoutAssumption
  <1>4. request' = [request EXCEPT ![r] = rec]
    BY DEF Submit
  <1> HIDE DEF rec
  <1>5. Moves(r, rec)
    BY <1>1, <1>3, <1>4 DEF Moves, Known
  <1>6. /\ rec.phase \in OutsidePhases /\ request[r].phase \in OutsidePhases
        /\ ~HasLocks(rec) /\ rec.phase \notin BoundPhases
    BY <1>1, <1>3 DEF OutsidePhases, HasLocks, BoundPhases
  <1>7. /\ UNCHANGED <<cart, order, holder>>
        /\ session' \in [Browsers -> Session] /\ issued' \in [Browsers -> SUBSET Tokens]
    BY Typed DEF Submit, browserVars
  <1>8. QED
    BY <1>3, <1>5, <1>6, <1>7, QuietKeeps

LEMMA DispatchKeeps ==
    ASSUME IInv, NEW r \in Requests, Dispatch(r)
    PROVE  IInv'
  <1> USE DEF OutsidePhases, Phases, BoundPhases
  <1>1. /\ request[r].phase = "dispatch" /\ UNCHANGED <<cart, order, holder>>
        /\ session' \in [Browsers -> Session] /\ issued' \in [Browsers -> SUBSET Tokens]
    BY Typed DEF Dispatch, browserVars
  <1>2. request[r] \in Request
    BY Typed
  <1>3. CASE Goto(r, "form_valid")
    BY <1>1, <1>2, <1>3, GotoKeeps DEF HasLocks, At, Request
  <1>4. CASE Goto(r, "answered")
    BY <1>1, <1>2, <1>4, GotoKeeps DEF HasLocks, At, Request
  <1>5. CASE Fail(r, "no_items")
    BY <1>1, <1>5, FailKeeps DEF Reasons
  <1>6. QED
    BY <1>3, <1>4, <1>5 DEF Dispatch

LEMMA FormValidKeeps ==
    ASSUME IInv, NEW r \in Requests, FormValid(r)
    PROVE  IInv'
  <1> USE DEF OutsidePhases, Phases, BoundPhases
  <1> DEFINE b == request[r].browser
             loaded == request[r].loaded
             S(t) == IF loaded.token = None
                     THEN [session EXCEPT ![b] = [loaded EXCEPT !.token = t]] ELSE session
  <1>1. request[r].phase = "form_valid" /\ UNCHANGED <<cart, order, holder>>
    BY DEF FormValid
  <1>2. request[r] \in Request /\ b \in Browsers /\ loaded \in Session
    BY <1>1, Typed DEF Request
  <1>3. PICK t \in IF loaded.token = None THEN NewTokens ELSE {loaded.token} :
          /\ session' = S(t)
          /\ \/ Goto(r, "answered") /\ UNCHANGED issued
             \/ Goto(r, "lookup") /\ UNCHANGED issued
             \/ Fail(r, "stale_form") /\ issued' = [issued EXCEPT ![b] = @ \cup ({t} \ {None})]
    BY DEF FormValid
  <1>4. t \in Tokens \cup {None}
    BY <1>2 DEF NewTokens, Unused, Session
  <1>5. session' \in [Browsers -> Session]
    BY <1>2, <1>3, <1>4, Typed DEF Session
  <1>6. issued' \in [Browsers -> SUBSET Tokens]
    BY <1>2, <1>3, <1>4, Typed
  <1>7. CASE Goto(r, "answered")
    BY <1>1, <1>2, <1>5, <1>6, <1>7, GotoKeeps DEF HasLocks, At, Request
  <1>8. CASE Goto(r, "lookup")
    BY <1>1, <1>2, <1>5, <1>6, <1>8, GotoKeeps DEF HasLocks, At, Request
  <1>9. CASE Fail(r, "stale_form")
    BY <1>1, <1>5, <1>6, <1>9, FailKeeps DEF Reasons
  <1>10. QED
    BY <1>3, <1>7, <1>8, <1>9

LEMMA LookupKeeps ==
    ASSUME IInv, NEW r \in Requests, Lookup(r) \/ Recover(r)
    PROVE  IInv'
  <1> USE DEF OutsidePhases, Phases, BoundPhases
  <1>1. /\ request[r].phase \in {"lookup", "recover"} /\ UNCHANGED <<cart, order, holder>>
        /\ session' \in [Browsers -> Session] /\ issued' \in [Browsers -> SUBSET Tokens]
    BY Typed DEF Lookup, Recover, browserVars
  <1>2. request[r] \in Request
    BY Typed
  <1>3. CASE Goto(r, "respond")
    BY <1>1, <1>2, <1>3, GotoKeeps DEF HasLocks, At, Request
  <1>4. CASE Goto(r, "precheck")
    BY <1>1, <1>2, <1>4, GotoKeeps DEF HasLocks, At, Request
  <1>5. QED
    BY <1>3, <1>4 DEF Lookup, Recover

LEMMA PrecheckKeeps ==
    ASSUME IInv, NEW r \in Requests, Precheck(r)
    PROVE  IInv'
  <1> USE DEF OutsidePhases, Phases, BoundPhases
  <1>1. /\ request[r].phase = "precheck" /\ UNCHANGED <<cart, order, holder>>
        /\ session' \in [Browsers -> Session] /\ issued' \in [Browsers -> SUBSET Tokens]
    BY Typed DEF Precheck, browserVars
  <1>2. request[r] \in Request
    BY Typed
  <1>3. CASE Fail(r, "limit")
    BY <1>1, <1>3, FailKeeps DEF Reasons
  <1>4. CASE Goto(r, "lock")
    BY <1>1, <1>2, <1>4, GotoKeeps DEF HasLocks, At, Request
  <1>5. CASE request[r].customer \notin Users /\ Goto(r, "relookup")
    BY <1>1, <1>2, <1>5, GotoKeeps DEF HasLocks, At, Request
  <1>6. QED
    BY <1>3, <1>4, <1>5 DEF Precheck

LEMMA LockKeeps ==
    ASSUME IInv, NEW r \in Requests, Lock(r)
    PROVE  IInv'
  <1> USE DEF OutsidePhases, Phases, BoundPhases
  <1>1. /\ request[r].phase = "lock" /\ UNCHANGED <<cart, order>>
        /\ session' \in [Browsers -> Session] /\ issued' \in [Browsers -> SUBSET Tokens]
    BY Typed DEF Lock, browserVars
  <1>2. request[r] \in Request
    BY Typed
  <1>3. ASSUME NEW k \in Keys, holder[k] = None, holder' = [holder EXCEPT ![k] = r],
               UNCHANGED request
        PROVE  IInv'
    <2>1. request' = [request EXCEPT ![r] = request[r]]
      BY <1>3, Typed
    <2>2. Moves(r, request[r])
      BY <1>1, <1>2, <2>1, Moved
    <2>3. LocksMove(r, request[r])
      BY <1>1, <1>3, NoneAssumption DEF LocksMove, HasLocks, IInv, TypeOK
    <2>4. RowsMove(r, request[r])
      BY <1>1, Typed DEF RowsMove, IInv, TypeOK
    <2>5. QED
      BY <1>1, <2>2, <2>3, <2>4, MoveKeeps
  <1>4. ASSUME Wanted(r) = {}, UNCHANGED holder, NEW p \in {"relookup", "limit"}, Goto(r, p)
        PROVE  IInv'
    <2>1. \A k \in KeysOf[request[r].customer] : holder[k] = r
      BY <1>4 DEF Wanted
    <2>2. QED
      BY <1>1, <1>2, <1>4, <2>1, GotoKeeps
  <1>5. QED
    BY <1>3, <1>4 DEF Lock

LEMMA RelookupKeeps ==
    ASSUME IInv, NEW r \in Requests, Relookup(r)
    PROVE  IInv'
  <1> USE DEF OutsidePhases, Phases, BoundPhases
  <1>1. /\ request[r].phase = "relookup" /\ UNCHANGED <<browserVars, cart, order>>
        /\ session' \in [Browsers -> Session] /\ issued' \in [Browsers -> SUBSET Tokens]
    BY Typed DEF Relookup, browserVars
  <1>2. request[r] \in Request /\ request[r].locked = {}
    BY <1>1, Typed
  <1>3. CASE Goto(r, "respond") /\ Release(r)
    BY <1>1, <1>2, <1>3, GoOutKeeps
  <1>4. CASE request[r].customer \in Users /\ Goto(r, "limit") /\ UNCHANGED holder
    <2>1. \A k \in KeysOf[request[r].customer] : holder[k] = r
      BY <1>1, <1>4 DEF IInv, RequestOK, HasLocks
    <2>2. QED
      BY <1>1, <1>4, <2>1, GotoKeeps
  <1>5. CASE Goto(r, "lock") /\ UNCHANGED holder
    BY <1>1, <1>2, <1>5, GotoKeeps DEF HasLocks, At, Request
  <1>6. QED
    BY <1>3, <1>4, <1>5 DEF Relookup

(* The check of the limits, under the locks, leaves room for one order.    *)
LEMMA CheckLimitKeeps ==
    ASSUME IInv, NEW r \in Requests, CheckLimit(r)
    PROVE  IInv'
  <1> USE DEF OutsidePhases, Phases, BoundPhases
  <1>1. /\ request[r].phase = "limit" /\ UNCHANGED <<browserVars, cart, order>>
        /\ session' \in [Browsers -> Session] /\ issued' \in [Browsers -> SUBSET Tokens]
    BY Typed DEF CheckLimit, browserVars
  <1>2. CASE Fail(r, "limit") /\ Release(r)
    BY <1>1, <1>2, FailKeeps DEF Reasons
  <1>3. CASE ~OverLimit(request[r].customer) /\ Goto(r, "read_cart") /\ UNCHANGED holder
    <2>1. ASSUME NEW k \in KeysOf[request[r].customer]
          PROVE  Room(k)
      <3>1. Limit[k] \in Nat
        BY <1>1, CustomerKnown DEF IInv, RequestOK
      <3>2. ~(Cardinality(ActiveOrders(k)) >= Limit[k])
        BY <1>3 DEF OverLimit
      <3>3. QED
        BY <3>1, <3>2, CountedFinite DEF Room
    <2>2. \A k \in KeysOf[request[r].customer] : holder[k] = r
      BY <1>1 DEF IInv, RequestOK, HasLocks
    <2>3. QED
      BY <1>1, <1>3, <2>1, <2>2, GotoKeeps
  <1>4. QED
    BY <1>2, <1>3 DEF CheckLimit, OverLimitLocked

LEMMA ReadCartKeeps ==
    ASSUME IInv, NEW r \in Requests, ReadCart(r)
    PROVE  IInv'
  <1> DEFINE rec == [request[r] EXCEPT !.phase = "lock_cart",
                                       !.seen = cart[request[r].customer]]
  <1>1. /\ request[r].phase = "read_cart" /\ UNCHANGED <<cart, order, holder>>
        /\ session' \in [Browsers -> Session] /\ issued' \in [Browsers -> SUBSET Tokens]
    BY Typed DEF ReadCart, browserVars
  <1>2. /\ request[r] \in Request /\ cart[request[r].customer] \in SUBSET Items
        /\ request[r].locked = {}
    BY <1>1, Typed DEF IInv, TypeOK
  <1>3. /\ rec \in Request /\ rec.phase = "lock_cart" /\ rec.browser = request[r].browser
        /\ rec.customer = request[r].customer /\ rec.token = request[r].token
        /\ rec.locked = {}
    BY <1>2 DEF Request, Phases
  <1>4. request' = [request EXCEPT ![r] = rec]
    BY DEF ReadCart
  <1> HIDE DEF rec
  <1>5. Moves(r, rec)
    BY <1>1, <1>3, <1>4, Moved
  <1>6. \A k \in KeysOf[rec.customer] : holder[k] = r /\ Room(k)
    BY <1>1, <1>3 DEF IInv, RequestOK, HasLocks, BoundPhases
  <1>7. QED
    BY <1>1, <1>3, <1>5, <1>6, QuietKeeps DEF OutsidePhases

LEMMA LockCartKeeps ==
    ASSUME IInv, NEW r \in Requests, LockCart(r)
    PROVE  IInv'
  <1> DEFINE rec == [request[r] EXCEPT !.phase = "write", !.locked = SeenAndThere(r)]
  <1>1. /\ request[r].phase = "lock_cart" /\ UNCHANGED <<cart, order, holder>>
        /\ session' \in [Browsers -> Session] /\ issued' \in [Browsers -> SUBSET Tokens]
        /\ SeenAndThere(r) \cap LockedByOthers(r) = {}
    BY Typed DEF LockCart, browserVars
  <1>2. request[r] \in Request /\ SeenAndThere(r) \in SUBSET Items
    BY Typed DEF Request, SeenAndThere
  <1>3. /\ rec \in Request /\ rec.phase = "write" /\ rec.browser = request[r].browser
        /\ rec.customer = request[r].customer /\ rec.token = request[r].token
        /\ rec.locked = SeenAndThere(r)
    BY <1>2 DEF Request, Phases
  <1>4. request' = [request EXCEPT ![r] = rec]
    BY DEF LockCart
  <1> HIDE DEF rec
  <1>5. Moves(r, rec)
    BY <1>1, <1>3, <1>4, Moved
  <1>6. \A k \in KeysOf[rec.customer] : holder[k] = r /\ Room(k)
    BY <1>1, <1>3 DEF IInv, RequestOK, HasLocks, BoundPhases
  <1>7. LocksMove(r, rec)
    BY <1>1, <1>3, <1>6 DEF LocksMove, IInv, TypeOK, OutsidePhases
  <1>8. RowsMove(r, rec)
    <2>1. \A q \in Requests \ {r} : rec.locked \cap request[q].locked = {}
      BY <1>1, <1>3 DEF LockedByOthers
    <2>2. rec.locked \subseteq cart'[rec.customer]
      BY <1>1, <1>3 DEF SeenAndThere
    <2>3. QED
      BY <1>1, <1>3, <2>1, <2>2 DEF RowsMove, IInv, TypeOK
  <1>9. QED
    BY <1>1, <1>5, <1>6, <1>7, <1>8, MoveKeeps

LEMMA EndKeeps ==
    ASSUME IInv, NEW r \in Requests,
           EmptyCart(r) \/ Shortage(r) \/ NothingLeft(r) \/ Conflict(r) \/ Crash(r)
    PROVE  IInv'
  <1> USE DEF OutsidePhases
  <1>1. /\ request[r].phase # "new" /\ Release(r) /\ UNCHANGED <<browserVars, order>>
        /\ cart' \in {cart, CleanedCart(r)}
    BY DEF EmptyCart, Shortage, NothingLeft, Conflict, Crash
  <1>2. session' \in [Browsers -> Session] /\ issued' \in [Browsers -> SUBSET Tokens]
    BY <1>1, Typed DEF browserVars
  <1>3. ASSUME NEW why \in Reasons, Fail(r, why)
        PROVE  IInv'
    <2>1. Moves(r, Failed(r, why)) /\ Failed(r, why).phase = "failed" /\ Failed(r, why).locked = {}
      BY <1>1, <1>3, FailMoves
    <2>2. QED
      BY <1>1, <2>1, ReleaseKeeps
  <1>4. ASSUME NEW p \in {"recover", "crashed"},
               request' = [request EXCEPT ![r].phase = p, ![r].locked = {}]
        PROVE  IInv'
    <2> DEFINE rec == [request[r] EXCEPT !.phase = p, !.locked = {}]
    <2>1. request[r] \in Request
      BY Typed
    <2>2. /\ rec \in Request /\ rec.phase = p /\ rec.browser = request[r].browser
          /\ rec.customer = request[r].customer /\ rec.token = request[r].token
          /\ rec.locked = {}
      BY <2>1 DEF Request, Phases
    <2>3. request' = [request EXCEPT ![r] = rec]
      BY <1>4
    <2> HIDE DEF rec
    <2>4. Moves(r, rec)
      BY <1>1, <2>2, <2>3, Moved
    <2>5. QED
      BY <1>1, <2>2, <2>4, ReleaseKeeps
  <1>5. CASE EmptyCart(r) /\ Goto(r, "respond")
    BY <1>1, <1>5, GoOutKeeps DEF EmptyCart
  <1>6. QED
    BY <1>3, <1>4, <1>5 DEF EmptyCart, Shortage, NothingLeft, Conflict, Crash, Reasons

LEMMA RespondKeeps ==
    ASSUME IInv, NEW r \in Requests, Respond(r)
    PROVE  IInv'
  <1>1. request[r].phase = "respond" /\ UNCHANGED <<cart, order, holder>> /\ Goto(r, "answered")
    BY DEF Respond
  <1>2. request[r].browser \in Browsers /\ request[r].token \in Tokens
    BY <1>1, Typed
  <1>3. session' \in [Browsers -> Session] /\ issued' \in [Browsers -> SUBSET Tokens]
    BY <1>2, Typed DEF Respond, Session
  <1>4. request[r] \in Request
    BY Typed
  <1>5. QED
    BY <1>1, <1>3, <1>4, GotoKeeps
       DEF OutsidePhases, Phases, BoundPhases, HasLocks, At, Request

-----------------------------------------------------------------------------
(***************************************************************************)
(* The commit.  The unique key has kept every order of the same token out, *)
(* the locks every other request that counts on the same room, and the     *)
(* locks on the rows every other order of the same rows.                   *)
(***************************************************************************)
LEMMA CommitKeeps ==
    ASSUME IInv, NEW r \in Requests, NEW sold \in SUBSET Items, Commit(r, sold)
    PROVE  IInv'
  <1> DEFINE c == request[r].customer
             rec == [request[r] EXCEPT !.phase = "respond", !.locked = {}]
  <1> USE DEF Created
  <1>1. /\ request[r].phase = "write" /\ sold # {} /\ sold \subseteq request[r].locked
        /\ Existing(r) = {} /\ Release(r) /\ cart' = CleanedCart(r)
        /\ order' = [order EXCEPT ![r] = [state |-> "open", items |-> sold]]
        /\ request' = [request EXCEPT ![r] = rec]
        /\ session' \in [Browsers -> Session] /\ issued' \in [Browsers -> SUBSET Tokens]
    BY Typed DEF Commit, browserVars
  <1>2. /\ request[r] \in Request /\ c \in Customers /\ KeysOf[c] \subseteq Keys
        /\ cart \in [Customers -> SUBSET Items] /\ order \in [Requests -> Order]
        /\ request[r].locked \subseteq cart[c]
    BY <1>1, Typed DEF IInv, TypeOK, RequestOK
  <1>3. /\ rec \in Request /\ rec.phase = "respond" /\ rec.browser = request[r].browser
        /\ rec.customer = c /\ rec.token = request[r].token /\ rec.locked = {}
    BY <1>2 DEF Request, Phases
  <1> HIDE DEF rec
  <1>4. Moves(r, rec)
    BY <1>1, <1>3, Moved
  <1>5. LocksMove(r, rec) /\ RowsMove(r, rec)
    BY <1>1, <1>3, <1>4, ReleaseMoves DEF OutsidePhases
  <1>6. /\ request'[r] = rec
        /\ \A q \in Requests \ {r} : request'[q] = request[q]
        /\ \A q \in Requests : Created(q) =>
             /\ request'[q].customer = request[q].customer
             /\ request'[q].token = request[q].token
    BY <1>4, OthersStay
  <1>7. /\ order' \in [Requests -> Order]
        /\ order'[r].state = "open" /\ order'[r].items = sold
        /\ \A q \in Requests \ {r} : order'[q] = order[q]
    BY <1>1, <1>2 DEF Order, OrderStates
  <1>8. /\ ~Created(r)
        /\ \A q \in Requests : Created(q) /\ request[q].customer = c =>
               request[q].token # request[r].token
    BY <1>1 DEF Existing, IdempotencyKey
  <1>9. ASSUME NEW k
        PROVE  CountedOrders(k)' = CountedOrders(k) \cup (IF k \in KeysOf[c] THEN {r} ELSE {})
    <2>1. r \in CountedOrders(k)' <=> k \in KeysOf[c]
      BY <1>3, <1>6, <1>7 DEF CountedOrders, Counted
    <2>2. \A q \in Requests \ {r} : q \in CountedOrders(k)' <=> q \in CountedOrders(k)
      BY <1>6, <1>7 DEF CountedOrders
    <2>3. r \notin CountedOrders(k)
      BY <1>8 DEF CountedOrders
    <2>4. CountedOrders(k) \subseteq Requests /\ CountedOrders(k)' \subseteq Requests
      BY DEF CountedOrders
    <2>5. QED
      BY <2>1, <2>2, <2>3, <2>4
  <1>10. LimitsKept'
    <2>1. ASSUME NEW k \in Keys
          PROVE  Cardinality(CountedOrders(k)') <= Limit[k]
      <3>1. Cardinality(CountedOrders(k)) <= Limit[k]
        BY DEF IInv, LimitsKept
      <3>2. CASE k \in KeysOf[c]
        <4>1. Cardinality(CountedOrders(k)) < Limit[k]
          BY <1>1, <3>2 DEF IInv, RequestOK, BoundPhases, Room
        <4>2. r \notin CountedOrders(k)
          BY <1>8 DEF CountedOrders
        <4>3. Cardinality(CountedOrders(k)') = Cardinality(CountedOrders(k)) + 1
          BY <1>9, <3>2, <4>2, CountedFinite, FS_AddElement
        <4>4. Limit[k] \in Nat
          BY CheckoutAssumption DEF CheckoutAssumption
        <4>5. QED
          BY <4>1, <4>3, <4>4, CountedFinite
      <3>3. CASE k \notin KeysOf[c]
        BY <1>9, <3>1, <3>3
      <3>4. QED
        BY <3>2, <3>3
    <2>2. QED
      BY <2>1 DEF LimitsKept
  <1>11. \A q \in Requests : request'[q].phase \in BoundPhases =>
             \A k \in KeysOf[request'[q].customer] : Room(k)'
    <2>1. SUFFICES ASSUME NEW q \in Requests, request'[q].phase \in BoundPhases,
                          NEW k \in KeysOf[request'[q].customer]
                   PROVE  Room(k)'
      OBVIOUS
    <2>2. q # r /\ request'[q] = request[q]
      BY <1>3, <1>6, <2>1 DEF BoundPhases
    <2>3. holder[k] = q /\ Room(k)
      BY <2>1, <2>2 DEF IInv, RequestOK, HasLocks
    <2>4. k \in KeysOf[c] => holder[k] = r
      BY <1>1 DEF IInv, RequestOK, HasLocks, BoundPhases
    <2>5. CountedOrders(k)' = CountedOrders(k)
      BY <1>9, <2>2, <2>3, <2>4
    <2>6. QED
      BY <2>3, <2>5 DEF Room
  <1>12. TypeOK' /\ RowsApart' /\ \A q \in Requests : RequestOK(q)'
    BY <1>1, <1>4, <1>5, <1>7, <1>11, MoveFrame
  <1>13. OneOrderPerToken'
    <2>1. \A q \in Requests \ {r} : Created(q)' => Created(q)
      BY <1>7
    <2>2. request'[r].customer = c /\ request'[r].token = request[r].token
      BY <1>3, <1>6
    <2>3. QED
      BY <1>6, <1>8, <2>1, <2>2 DEF IInv, OneOrderPerToken
  <1>14. ItemSoldOnce'
    <2>1. \A d \in Customers : cart'[d] = IF d = c THEN cart[c] \ request[r].locked ELSE cart[d]
      BY <1>1, <1>2 DEF CleanedCart
    <2>2. \A d \in Customers, i \in sold : i \notin cart'[d]
      BY <1>1, <1>2, <2>1 DEF IInv, RowsApart
    <2>3. \A q \in Requests : \A i \in order[q].items :
              i \notin sold /\ \A d \in Customers : i \notin cart'[d]
      BY <1>1, <1>2, <2>1 DEF IInv, ItemSoldOnce
    <2>4. QED
      BY <1>7, <2>2, <2>3 DEF IInv, ItemSoldOnce
  <1>15. QED
    BY <1>10, <1>12, <1>13, <1>14 DEF IInv

(* What customers and staff do meanwhile.                                  *)
LEMMA MeanwhileKeeps ==
    ASSUME IInv,
           \/ \E b \in Browsers, t \in Tokens : OpenForm(b, t)
           \/ \E k \in Customers, i \in Items : AddItem(k, i)
           \/ \E r \in Requests : MarkPaid(r) \/ MarkUnpaid(r) \/ Close(r)
    PROVE  IInv'
  <1> USE DEF Created
  <1>1. ASSUME NEW b \in Browsers, NEW t \in Tokens, OpenForm(b, t)
        PROVE  IInv'
    <2>1. session' \in [Browsers -> Session] /\ issued' \in [Browsers -> SUBSET Tokens]
      BY <1>1 DEF OpenForm, IInv, TypeOK, Session
    <2>2. UNCHANGED <<cart, request, order, holder>>
      BY <1>1 DEF OpenForm
    <2>3. TypeOK'
      BY <2>1, <2>2 DEF IInv, TypeOK
    <2>4. \A q \in Requests : RequestOK(q)'
      BY <2>2 DEF IInv, RequestOK, Room, CountedOrders
    <2>5. RowsApart' /\ OneOrderPerToken' /\ LimitsKept' /\ ItemSoldOnce'
      BY <2>2 DEF IInv, RowsApart, OneOrderPerToken, LimitsKept, CountedOrders, ItemSoldOnce
    <2>6. QED
      BY <2>3, <2>4, <2>5 DEF IInv
  <1>2. ASSUME NEW d \in Customers, NEW i \in Items, AddItem(d, i)
        PROVE  IInv'
    <2>1. /\ UNCHANGED <<session, issued, request, order, holder>>
          /\ cart' = [cart EXCEPT ![d] = @ \cup {i}]
          /\ \A e \in Customers : i \notin cart[e]
          /\ \A r \in Requests : i \notin order[r].items
      BY <1>2 DEF AddItem, browserVars
    <2>2. /\ cart' \in [Customers -> SUBSET Items]
          /\ \A e \in Customers : cart'[e] = IF e = d THEN cart[e] \cup {i} ELSE cart[e]
      BY <2>1 DEF IInv, TypeOK
    <2>3. TypeOK'
      BY <2>1, <2>2 DEF IInv, TypeOK
    <2>4. ASSUME NEW q \in Requests PROVE RequestOK(q)'
      <3>1. request[q].phase = "write" => request[q].customer \in Customers
        BY CustomerKnown DEF IInv, RequestOK
      <3>2. request[q].phase = "write" => request[q].locked \subseteq cart'[request[q].customer]
        BY <2>2, <3>1 DEF IInv, RequestOK
      <3>3. QED
        BY <2>1, <3>2 DEF IInv, RequestOK, Room, CountedOrders
    <2>5. RowsApart' /\ ItemSoldOnce'
      BY <2>1, <2>2 DEF IInv, RowsApart, ItemSoldOnce
    <2>6. OneOrderPerToken' /\ LimitsKept'
      BY <2>1 DEF IInv, OneOrderPerToken, LimitsKept, CountedOrders
    <2>7. QED
      BY <2>3, <2>4, <2>5, <2>6 DEF IInv
  <1>3. ASSUME NEW r \in Requests, MarkPaid(r) \/ MarkUnpaid(r) \/ Close(r)
        PROVE  IInv'
    <2>1. PICK to \in {"paid", "reopened", "closed"} :
            /\ order' = [order EXCEPT ![r].state = to]
            /\ order[r].state # "none"
            /\ order[r].state = "closed" => to = "closed"
            /\ to = "reopened" => order[r].state = "paid"
            /\ UNCHANGED <<session, issued, cart, request, holder>>
      BY <1>3 DEF MarkPaid, MarkUnpaid, Close, Move, browserVars
    <2>2. order \in [Requests -> Order]
      BY DEF IInv, TypeOK
    <2>3. /\ order' \in [Requests -> Order] /\ order'[r].state = to
          /\ \A q \in Requests \ {r} : order'[q] = order[q]
          /\ \A q \in Requests : order'[q].items = order[q].items
      BY <2>1, <2>2 DEF Order, OrderStates
    <2>4. \A q \in Requests : Created(q)' <=> Created(q)
      BY <2>1, <2>3
    <2>5. ASSUME NEW k \in Keys
          PROVE  /\ Cardinality(CountedOrders(k)') <= Cardinality(CountedOrders(k))
                 /\ Cardinality(CountedOrders(k)') \in Nat
      <3>1. order[r].state \in OrderStates
        BY <2>2 DEF Order
      <3>2. CountedOrders(k)' \subseteq CountedOrders(k)
        BY <2>1, <2>3, <3>1 DEF CountedOrders, Counted, OrderStates
      <3>3. QED
        BY <3>2, CountedFinite, FS_Subset, FS_CardinalityType
    <2>6. \A k \in Keys : Limit[k] \in Nat /\ Cardinality(CountedOrders(k)) \in Nat
      BY CountedFinite, CheckoutAssumption DEF CheckoutAssumption
    <2>7. TypeOK'
      BY <2>1, <2>3 DEF IInv, TypeOK
    <2>8. ASSUME NEW q \in Requests PROVE RequestOK(q)'
      <3>1. RequestOK(q)
        BY DEF IInv
      <3>2. ASSUME request[q].phase \in BoundPhases, NEW k \in KeysOf[request[q].customer]
            PROVE  Room(k)'
        <4>1. k \in Keys /\ Room(k)
          BY <3>1, <3>2, CustomerKnown DEF RequestOK, BoundPhases
        <4>2. QED
          BY <2>5, <2>6, <4>1 DEF Room
      <3>3. QED
        BY <2>1, <2>4, <3>1, <3>2 DEF RequestOK
    <2>9. RowsApart' /\ OneOrderPerToken' /\ ItemSoldOnce'
      BY <2>1, <2>3, <2>4 DEF IInv, RowsApart, OneOrderPerToken, ItemSoldOnce
    <2>10. LimitsKept'
      BY <2>5, <2>6 DEF IInv, LimitsKept
    <2>11. QED
      BY <2>7, <2>8, <2>9, <2>10 DEF IInv
  <1>4. QED
    BY <1>1, <1>2, <1>3

-----------------------------------------------------------------------------
LEMMA InitHolds == Init => IInv
  <1> SUFFICES ASSUME Init PROVE IInv
    OBVIOUS
  <1>1. New \in Request /\ New.phase = "new" /\ New.locked = {} /\ Fresh \in Session
    BY DEF New, Request, Phases, Reasons, Fresh, Session
  <1>2. NoOrder \in Order /\ NoOrder.state = "none" /\ NoOrder.items = {}
    BY DEF NoOrder, Order, OrderStates
  <1>3. /\ \A r \in Requests : request[r] = New /\ order[r] = NoOrder /\ ~Created(r)
        /\ \A k \in Keys : holder[k] = None
        /\ \A c \in Customers : cart[c] = {}
    BY <1>2 DEF Init, Created
  <1>4. TypeOK
    BY <1>1, <1>2, <1>3, NoneAssumption DEF Init, TypeOK
  <1>5. \A r \in Requests : RequestOK(r)
    BY <1>1, <1>3 DEF RequestOK, HasLocks, BoundPhases
  <1>6. RowsApart /\ OneOrderPerToken /\ ItemSoldOnce
    BY <1>1, <1>2, <1>3 DEF RowsApart, OneOrderPerToken, ItemSoldOnce
  <1>7. LimitsKept
    <2>1. \A k \in Keys : CountedOrders(k) = {} /\ Limit[k] \in Nat
      BY <1>3, CheckoutAssumption DEF CountedOrders, CheckoutAssumption
    <2>2. QED
      BY <2>1, FS_EmptySet DEF LimitsKept
  <1>8. QED
    BY <1>4, <1>5, <1>6, <1>7 DEF IInv

LEMMA NextKeeps == IInv /\ [Next]_vars => IInv'
  <1> SUFFICES ASSUME IInv, [Next]_vars PROVE IInv'
    OBVIOUS
  <1>1. ASSUME NEW r \in Requests, NEW b \in Browsers, NEW t \in Tokens, Submit(r, b, t)
        PROVE  IInv'
    BY <1>1, SubmitKeeps
  <1>2. ASSUME NEW r \in Requests, Step(r)
        PROVE  IInv'
    BY <1>2, DispatchKeeps, FormValidKeeps, LookupKeeps, PrecheckKeeps, LockKeeps,
       RelookupKeeps, CheckLimitKeeps, ReadCartKeeps, LockCartKeeps, EndKeeps,
       RespondKeeps, CommitKeeps DEF Step
  <1>3. ASSUME NEW r \in Requests, Crash(r)
        PROVE  IInv'
    BY <1>3, EndKeeps
  <1>4. CASE UNCHANGED vars
    BY <1>4 DEF IInv, TypeOK, RequestOK, RowsApart, OneOrderPerToken, LimitsKept,
       ItemSoldOnce, CountedOrders, Created, Room, vars
  <1>5. QED
    BY <1>1, <1>2, <1>3, <1>4, MeanwhileKeeps DEF Next

(* The inductive invariant: the locks a request holds, the room for one    *)
(* more order that they protect, and the rows it has locked.               *)
THEOREM CheckoutInvariant == Spec => []IInv
  BY InitHolds, NextKeeps, PTL DEF Spec

(* Everything has its type, and no request holds a lock outside its        *)
(* transaction, whatever it meets and wherever it dies.                    *)
THEOREM CheckoutTypes == Spec => []TypeOK
  <1>1. IInv => TypeOK
    BY DEF IInv
  <1>2. QED
    BY <1>1, CheckoutInvariant, PTL

(* Duplicate submits, retries and dead workers never make two orders of    *)
(* one checkout token.                                                     *)
THEOREM TokenOrdersOnce == Spec => []OneOrderPerToken
  <1>1. IInv => OneOrderPerToken
    BY DEF IInv
  <1>2. QED
    BY <1>1, CheckoutInvariant, PTL

(* Parallel submits never get the owner of a lock key (an account, or an   *)
(* email, phone, session or address of guests) past its limit.             *)
THEOREM LimitsAreKept == Spec => []LimitHolds
  <1>1. ASSUME IInv PROVE LimitHolds
    <2>1. SUFFICES ASSUME NEW k \in Keys
                   PROVE  Cardinality({q \in ActiveOrders(k) : order[q].state # "reopened"})
                            <= Limit[k]
      BY DEF LimitHolds
    <2> DEFINE Fresher == {q \in ActiveOrders(k) : order[q].state # "reopened"}
    <2>2. Fresher \subseteq CountedOrders(k)
      BY DEF ActiveOrders, Active, CountedOrders, Counted
    <2>3. /\ Cardinality(Fresher) <= Cardinality(CountedOrders(k))
          /\ Cardinality(Fresher) \in Nat
      BY <2>2, CountedFinite, FS_Subset, FS_CardinalityType
    <2>4. Cardinality(CountedOrders(k)) <= Limit[k] /\ Limit[k] \in Nat
      BY <1>1, CheckoutAssumption DEF IInv, LimitsKept, CheckoutAssumption
    <2>5. QED
      BY <2>3, <2>4, CountedFinite
  <1>2. IInv => LimitHolds
    BY <1>1
  <1>3. QED
    BY <1>2, CheckoutInvariant, PTL

(* No cart row is sold twice, and none is both sold and in a cart.         *)
THEOREM RowsSoldOnce == Spec => []ItemSoldOnce
  <1>1. IInv => ItemSoldOnce
    BY DEF IInv
  <1>2. QED
    BY <1>1, CheckoutInvariant, PTL

(* The steps that refuse a submit, and what they tell its customer.        *)
LEMMA RefusingSteps ==
    ASSUME IInv, Next, NEW r \in Requests, request[r].phase # "failed",
           request'[r].phase = "failed"
    PROVE  \/ /\ request[r].phase = "dispatch" /\ ~Processed(r)
              /\ request'[r].reason = "no_items"
           \/ /\ request[r].phase \in {"form_valid", "precheck"}
              /\ request'[r].reason \in {"stale_form", "limit"}
           \/ CheckLimit(r) /\ request'[r].reason = "limit"
           \/ EmptyCart(r) /\ request'[r].reason = "empty" /\ TwinOrders(r) = {}
           \/ Shortage(r) /\ request'[r].reason = "stock"
           \/ NothingLeft(r) /\ request'[r].reason = "unavailable"
  <1> USE DEF Phases, Reasons
  <1>1. request \in [Requests -> Request] /\ \A q \in Requests : request[q] \in Request
    BY Typed DEF IInv, TypeOK
  <1>2. request' # request
    OBVIOUS
  <1>3. ASSUME NEW q \in Requests, NEW p, p # "failed", Goto(q, p)
        PROVE  FALSE
    <2>1. request' = [request EXCEPT ![q] = [request[q] EXCEPT !.phase = p]]
      BY <1>3 DEF Goto
    <2>2. [request[q] EXCEPT !.phase = p].phase = p
      BY <1>1 DEF Request
    <2>3. request'[r] = request[r] \/ request'[r].phase = p
      BY <1>1, <2>1, <2>2
    <2>4. QED
      BY <1>3, <2>3
  <1>4. ASSUME NEW q \in Requests, NEW why, Fail(q, why)
        PROVE  q = r /\ request'[r].reason = why
    BY <1>1, <1>4 DEF Fail, Request
  <1> DEFINE Refusal ==
               \/ /\ request[r].phase = "dispatch" /\ ~Processed(r)
                  /\ request'[r].reason = "no_items"
               \/ /\ request[r].phase \in {"form_valid", "precheck"}
                  /\ request'[r].reason \in {"stale_form", "limit"}
               \/ CheckLimit(r) /\ request'[r].reason = "limit"
               \/ EmptyCart(r) /\ request'[r].reason = "empty" /\ TwinOrders(r) = {}
               \/ Shortage(r) /\ request'[r].reason = "stock"
               \/ NothingLeft(r) /\ request'[r].reason = "unavailable"
  <1>5. ASSUME NEW q \in Requests, Step(q)
        PROVE  Refusal
    <2>1. ASSUME Dispatch(q) \/ FormValid(q) \/ Lookup(q) \/ Precheck(q)
          PROVE  Refusal
      <3>1. ASSUME Dispatch(q) PROVE Refusal
        <4>1. Fail(q, "no_items") /\ ~Processed(q) /\ request[q].phase = "dispatch"
          BY <1>3, <3>1 DEF Dispatch
        <4>2. QED
          BY <1>4, <4>1
      <3>2. ASSUME FormValid(q) PROVE Refusal
        <4>1. Fail(q, "stale_form") /\ request[q].phase = "form_valid"
          BY <1>3, <3>2 DEF FormValid
        <4>2. QED
          BY <1>4, <4>1
      <3>3. ~Lookup(q)
        BY <1>3 DEF Lookup
      <3>4. ASSUME Precheck(q) PROVE Refusal
        <4>1. Fail(q, "limit") /\ request[q].phase = "precheck"
          BY <1>3, <3>4 DEF Precheck
        <4>2. QED
          BY <1>4, <4>1
      <3>5. QED
        BY <2>1, <3>1, <3>2, <3>3, <3>4
    <2>2. ~Lock(q) /\ ~Relookup(q)
      BY <1>2, <1>3, <1>4 DEF Lock, Relookup
    <2>3. ASSUME CheckLimit(q) PROVE Refusal
      <3>1. Fail(q, "limit")
        BY <1>3, <2>3 DEF CheckLimit
      <3>2. QED
        BY <1>4, <2>3, <3>1
    <2>4. ~ReadCart(q) /\ ~LockCart(q)
      BY <1>1 DEF ReadCart, LockCart, Request
    <2>5. ASSUME EmptyCart(q) PROVE Refusal
      <3>1. Fail(q, "empty") /\ TwinOrders(q) = {}
        BY <1>3, <2>5 DEF EmptyCart
      <3>2. QED
        BY <1>4, <2>5, <3>1
    <2>6. ASSUME Shortage(q) PROVE Refusal
      <3>1. Fail(q, "stock")
        BY <2>6 DEF Shortage
      <3>2. QED
        BY <1>4, <2>6, <3>1
    <2>7. ASSUME NothingLeft(q) PROVE Refusal
      <3>1. Fail(q, "unavailable")
        BY <2>7 DEF NothingLeft
      <3>2. QED
        BY <1>4, <2>7, <3>1
    <2>8. ~Conflict(q)
      BY <1>1 DEF Conflict, Request
    <2>9. ~Recover(q) /\ ~Respond(q)
      BY <1>3 DEF Recover, Respond
    <2>10. \A sold \in SUBSET Items : ~Commit(q, sold)
      BY <1>1 DEF Commit, Request
    <2>11. QED
      BY <1>5, <2>1, <2>2, <2>3, <2>4, <2>5, <2>6, <2>7, <2>8, <2>9, <2>10 DEF Step
  <1>6. ASSUME NEW q \in Requests PROVE ~Crash(q)
    BY <1>1 DEF Crash, Request
  <1>7. ASSUME NEW q \in Requests, NEW b \in Browsers, NEW t \in Tokens
        PROVE  ~Submit(q, b, t)
    BY <1>1 DEF Submit, Request
  <1>8. \E q \in Requests : Step(q)
    BY <1>2, <1>6, <1>7 DEF Next, OpenForm, AddItem, MarkPaid, MarkUnpaid, Close, Move
  <1>9. QED
    BY <1>5, <1>8

(* "Your cart is empty" reaches a submit whose twin has created the order  *)
(* from dispatch alone, ahead of every lookup, and only if the session it  *)
(* loaded does not remember the order; the check of the cart behind the    *)
(* third lookup gives that answer only when there is no order.             *)
THEOREM EmptyCheckSeesTheTwin == Spec => EmptyForTwinOnlyAtDispatch
  <1>1. ASSUME IInv, Next, NEW r \in Requests, request[r].phase # "failed",
               request'[r].phase = "failed", Existing(r) # {},
               request'[r].reason \in {"no_items", "empty"}
        PROVE  request[r].phase = "dispatch" /\ ~Processed(r)
    <2>1. ~(EmptyCart(r) /\ TwinOrders(r) = {})
      BY <1>1 DEF TwinOrders
    <2>2. QED
      BY <1>1, <2>1, RefusingSteps
  <1>2. IInv /\ [Next]_vars =>
          [ \A r \in Requests :
              /\ request[r].phase # "failed" /\ request'[r].phase = "failed"
              /\ request'[r].reason \in {"no_items", "empty"}
              /\ Existing(r) # {}
              => request[r].phase = "dispatch" /\ ~Processed(r) ]_vars
    BY <1>1
  <1>3. QED
    BY <1>2, CheckoutInvariant, PTL DEF Spec, EmptyForTwinOnlyAtDispatch

-----------------------------------------------------------------------------
(***************************************************************************)
(* Freedom from deadlock.  r waits for q when q holds the lock key that r  *)
(* asks for next, or has locked a cart row that r is about to lock.        *)
(***************************************************************************)
WaitsFor(r, q) ==
    \/ /\ request[r].phase = "lock"
       /\ \E k \in Keys : NextKey(r, k) /\ holder[k] = q
    \/ /\ request[r].phase = "lock_cart"
       /\ q # r /\ SeenAndThere(r) \cap request[q].locked # {}

Running(r) == request[r].phase # "new" /\ ~Finished(r)

(* The conditions under which a running request has no step of its own.    *)
Blocked(r) ==
    \/ /\ request[r].phase = "lock" /\ Wanted(r) # {}
       /\ ~ \E k \in Keys : NextKey(r, k) /\ holder[k] = None
    \/ request[r].phase = "lock_cart" /\ SeenAndThere(r) \cap LockedByOthers(r) # {}
    \/ request[r].phase = "recover" /\ Existing(r) = {}

NoCircle ==
    \A S \in SUBSET Requests :
        S # {} => \E r \in S : \A q \in S : ~WaitsFor(r, q)

BlockedByRunning ==
    \A r \in Requests :
        Blocked(r) => \E q \in Requests : Running(q) /\ WaitsFor(r, q)

(* The keys a request still wants lie above those it has taken, and the    *)
(* order that made an insert fail is still there when it is looked up.     *)
Holds(r, k) == k \in Keys /\ holder[k] = r
QueueOK(r) ==
    /\ request[r].phase = "lock" =>
         \A k : Holds(r, k) => /\ k \in KeysOf[request[r].customer]
                               /\ \A j \in Wanted(r) : k < j
    /\ request[r].phase = "relookup" /\ request[r].customer \notin Users =>
         \A k : ~Holds(r, k)
    /\ request[r].phase = "recover" => Existing(r) # {}

QInv == \A r \in Requests : QueueOK(r)

(* A request stays with its customer and its token.                        *)
LEMMA KeyStays ==
    ASSUME IInv, [Next]_vars, NEW q \in Requests, request[q].phase # "new"
    PROVE  /\ request'[q].customer = request[q].customer
           /\ request'[q].token = request[q].token
  <1>1. request \in [Requests -> Request] /\ request[q] \in Request
    BY Typed
  <1>2. ASSUME NEW p \in Requests, NEW b \in Browsers, NEW t \in Tokens, Submit(p, b, t)
        PROVE  request'[q] = request[q]
    BY <1>1, <1>2 DEF Submit
  <1>3. ASSUME NEW p \in Requests, NEW x, Goto(p, x)
        PROVE  /\ request'[q].customer = request[q].customer
               /\ request'[q].token = request[q].token
    BY <1>1, <1>3 DEF Goto, Request
  <1>4. ASSUME NEW p \in Requests, NEW x, Fail(p, x)
        PROVE  /\ request'[q].customer = request[q].customer
               /\ request'[q].token = request[q].token
    BY <1>1, <1>4 DEF Fail, Request
  <1>5. ASSUME NEW p \in Requests, Step(p)
        PROVE  /\ request'[q].customer = request[q].customer
               /\ request'[q].token = request[q].token
    <2>1. CASE Dispatch(p) \/ FormValid(p) \/ Lookup(p) \/ Precheck(p)
      BY <1>3, <1>4, <2>1 DEF Dispatch, FormValid, Lookup, Precheck
    <2>2. CASE Lock(p) \/ Relookup(p) \/ CheckLimit(p)
      BY <1>3, <1>4, <2>2 DEF Lock, Relookup, CheckLimit
    <2>3. CASE ReadCart(p) \/ LockCart(p) \/ Conflict(p)
      BY <1>1, <2>3 DEF ReadCart, LockCart, Conflict, Request
    <2>4. CASE EmptyCart(p) \/ Shortage(p) \/ NothingLeft(p) \/ Recover(p) \/ Respond(p)
      BY <1>3, <1>4, <2>4 DEF EmptyCart, Shortage, NothingLeft, Recover, Respond
    <2>5. ASSUME NEW sold \in SUBSET Items, Commit(p, sold)
          PROVE  /\ request'[q].customer = request[q].customer
                 /\ request'[q].token = request[q].token
      BY <1>1, <2>5 DEF Commit, Request
    <2>6. QED
      BY <1>5, <2>1, <2>2, <2>3, <2>4, <2>5 DEF Step
  <1>6. ASSUME NEW p \in Requests, Crash(p)
        PROVE  /\ request'[q].customer = request[q].customer
               /\ request'[q].token = request[q].token
    BY <1>1, <1>6 DEF Crash, Request
  <1>7. QED
    BY <1>2, <1>5, <1>6 DEF Next, OpenForm, AddItem, MarkPaid, MarkUnpaid, Close, Move, vars

(* Orders stay, and so does the key under which each is found.             *)
LEMMA ExistingStays ==
    ASSUME IInv, [Next]_vars, NEW r \in Requests, request[r].phase # "new"
    PROVE  Existing(r) \subseteq Existing(r)'
  <1>1. ASSUME NEW q \in Requests, request[q].phase # "new"
        PROVE  /\ request'[q].customer = request[q].customer
               /\ request'[q].token = request[q].token
    BY <1>1, KeyStays
  <1>2. ASSUME NEW q \in Requests, Created(q)
        PROVE  Created(q)'
    <2>1. order \in [Requests -> Order] /\ order[q].state # "none"
      BY <1>2 DEF IInv, TypeOK, Created
    <2>2. ASSUME NEW p \in Requests, MarkPaid(p) \/ MarkUnpaid(p) \/ Close(p)
          PROVE  order'[q].state # "none"
      BY <2>1, <2>2 DEF MarkPaid, MarkUnpaid, Close, Move, Order
    <2>3. ASSUME NEW p \in Requests, Step(p)
          PROVE  order'[q].state # "none"
      BY <2>1, <2>3 DEF Step, Dispatch, FormValid, Lookup, Precheck, Lock, Relookup, CheckLimit,
         ReadCart, LockCart, EmptyCart, Shortage, NothingLeft, Conflict, Recover, Respond, Commit
    <2>4. QED
      BY <2>1, <2>2, <2>3 DEF Next, OpenForm, AddItem, Submit, Crash, vars, Created
  <1>3. \A q \in Requests : Created(q) => request[q].phase # "new"
    BY DEF IInv, RequestOK
  <1>4. QED
    BY <1>1, <1>2, <1>3 DEF Existing, IdempotencyKey

(* Who is not moving keeps its locks, and nobody else's become its own.    *)
LEMMA StandingStill ==
    ASSUME IInv, QInv, [Next]_vars, NEW r \in Requests, request'[r] = request[r],
           \A k \in Keys : holder'[k] = r <=> holder[k] = r
    PROVE  QueueOK(r)'
  <1>1. (QueueOK(r) /\ Wanted(r)' = Wanted(r)) \/ request[r].phase = "new"
    <2>1. request[r].phase # "new" => KeysOf[request[r].customer] \subseteq Keys
      BY Typed
    <2>2. QED
      BY <2>1 DEF QInv, Wanted
  <1>2. \A k : Holds(r, k)' <=> Holds(r, k)
    BY DEF Holds
  <1>3. request[r].phase # "new" => Existing(r) \subseteq Existing(r)'
    BY ExistingStays
  <1>4. QED
    BY <1>1, <1>2, <1>3 DEF QueueOK

(* A request moves alone, and takes or gives back only its own locks.      *)
LEMMA MovesAlone ==
    ASSUME IInv, NEW r \in Requests, Step(r) \/ Crash(r)
    PROVE  /\ \A q \in Requests \ {r} : request'[q] = request[q]
           /\ \A q \in Requests \ {r}, k \in Keys : holder'[k] = q <=> holder[k] = q
  <1>1. request \in [Requests -> Request] /\ holder \in [Keys -> Requests \cup {None}]
    BY DEF IInv, TypeOK
  <1>2. \A q \in Requests : q # None
    BY NoneAssumption
  <1>3. ASSUME NEW x, Goto(r, x) \/ Fail(r, x)
        PROVE  \A q \in Requests \ {r} : request'[q] = request[q]
    BY <1>1, <1>3 DEF Goto, Fail
  <1>4. ASSUME Release(r)
        PROVE  \A q \in Requests \ {r}, k \in Keys : holder'[k] = q <=> holder[k] = q
    BY <1>1, <1>2, <1>4 DEF Release
  <1>5. ASSUME NEW k \in Keys, holder[k] = None, holder' = [holder EXCEPT ![k] = r]
        PROVE  \A q \in Requests \ {r}, j \in Keys : holder'[j] = q <=> holder[j] = q
    BY <1>1, <1>2, <1>5
  <1>6. CASE Dispatch(r) \/ FormValid(r) \/ Lookup(r) \/ Precheck(r) \/ Recover(r) \/ Respond(r)
    BY <1>3, <1>6 DEF Dispatch, FormValid, Lookup, Precheck, Recover, Respond
  <1>7. CASE Lock(r)
    BY <1>3, <1>5, <1>7 DEF Lock
  <1>8. CASE Relookup(r) \/ CheckLimit(r) \/ EmptyCart(r) \/ Shortage(r) \/ NothingLeft(r)
    BY <1>3, <1>4, <1>8 DEF Relookup, CheckLimit, EmptyCart, Shortage, NothingLeft
  <1>9. CASE ReadCart(r) \/ LockCart(r)
    BY <1>1, <1>9 DEF ReadCart, LockCart
  <1>10. CASE Conflict(r) \/ Crash(r)
    BY <1>1, <1>4, <1>10 DEF Conflict, Crash
  <1>11. ASSUME NEW sold \in SUBSET Items, Commit(r, sold)
         PROVE  /\ \A q \in Requests \ {r} : request'[q] = request[q]
                /\ \A q \in Requests \ {r}, k \in Keys : holder'[k] = q <=> holder[k] = q
    BY <1>1, <1>4, <1>11 DEF Commit
  <1>12. QED
    BY <1>6, <1>7, <1>8, <1>9, <1>10, <1>11 DEF Step

(* A request goes to the locks without any, takes them upwards, and comes  *)
(* to the IntegrityError handler with an order to find.                    *)
LEMMA StepQueues ==
    ASSUME IInv, QInv, NEW r \in Requests, Step(r) \/ Crash(r), [Next]_vars
    PROVE  QueueOK(r)'
  <1>1. /\ request \in [Requests -> Request] /\ request[r] \in Request
        /\ holder \in [Keys -> Requests \cup {None}] /\ QueueOK(r)
        /\ request[r].phase \in OutsidePhases => \A k : ~Holds(r, k)
    BY DEF IInv, TypeOK, QInv, Holds, OutsidePhases
  <1>2. ASSUME NEW p \in Phases \ {"lock", "relookup", "recover"}, Goto(r, p)
        PROVE  QueueOK(r)'
    BY <1>1, <1>2 DEF Goto, QueueOK, Request
  <1>3. ASSUME NEW why, Fail(r, why)
        PROVE  QueueOK(r)'
    BY <1>1, <1>3 DEF Fail, QueueOK, Request
  <1>4. ASSUME Goto(r, "lock"), UNCHANGED holder, \A k : ~Holds(r, k)
        PROVE  QueueOK(r)'
    BY <1>1, <1>4 DEF Goto, QueueOK, Request, Holds
  <1>5. ASSUME Goto(r, "relookup"), UNCHANGED holder,
               request[r].customer \in Users \/ \A k : ~Holds(r, k)
        PROVE  QueueOK(r)'
    BY <1>1, <1>5 DEF Goto, QueueOK, Request, Holds
  <1>6. CASE Dispatch(r) \/ FormValid(r) \/ Lookup(r) \/ Recover(r) \/ Respond(r)
    BY <1>2, <1>3, <1>6 DEF Dispatch, FormValid, Lookup, Recover, Respond, Phases
  <1>7. CASE Precheck(r)
    BY <1>1, <1>3, <1>4, <1>5, <1>7 DEF Precheck, OutsidePhases
  <1>8. CASE Lock(r)
    <2>1. request[r].phase = "lock"
      BY <1>8 DEF Lock
    <2>2. ASSUME NEW k \in Keys, NextKey(r, k), holder' = [holder EXCEPT ![k] = r],
                 UNCHANGED request
          PROVE  QueueOK(r)'
      <3>1. KeysOf[request[r].customer] \subseteq Nat
        BY <2>1, Typed, CheckoutAssumption DEF CheckoutAssumption
      <3>2. Wanted(r)' = Wanted(r) \ {k}
        <4>1. KeysOf[request[r].customer] \subseteq Keys
          BY <2>1, Typed
        <4>2. QED
          BY <1>1, <2>2, <4>1 DEF Wanted, NextKey
      <3>3. k \in KeysOf[request[r].customer] /\ \A j \in Wanted(r)' : k < j
        BY <2>2, <3>1, <3>2 DEF NextKey, Wanted
      <3>4. \A j : Holds(r, j)' => j = k \/ Holds(r, j)
        BY <1>1, <2>2 DEF Holds
      <3>5. QED
        BY <1>1, <2>1, <2>2, <3>2, <3>3, <3>4 DEF QueueOK
    <2>3. CASE /\ Goto(r, IF request[r].customer \in Users THEN "relookup" ELSE "limit")
               /\ UNCHANGED holder
      BY <1>2, <1>5, <2>3 DEF Phases
    <2>4. QED
      BY <1>8, <2>2, <2>3 DEF Lock
  <1>9. CASE Relookup(r)
    <2>1. request[r].phase = "relookup"
      BY <1>9 DEF Relookup
    <2>2. CASE Goto(r, "respond") \/ Goto(r, "limit")
      BY <1>2, <2>2 DEF Phases
    <2>3. CASE Goto(r, "lock") /\ request[r].customer \notin Users /\ UNCHANGED holder
      BY <1>1, <1>4, <2>1, <2>3 DEF QueueOK
    <2>4. QED
      BY <1>9, <2>2, <2>3 DEF Relookup
  <1>10. CASE CheckLimit(r) \/ EmptyCart(r) \/ Shortage(r) \/ NothingLeft(r)
    BY <1>2, <1>3, <1>10 DEF CheckLimit, EmptyCart, Shortage, NothingLeft, Phases
  <1>11. CASE ReadCart(r) \/ LockCart(r) \/ Crash(r)
    BY <1>1, <1>11 DEF ReadCart, LockCart, Crash, QueueOK, Request
  <1>12. CASE Conflict(r)
    <2>1. request'[r].phase = "recover"
      BY <1>1, <1>12 DEF Conflict, Request
    <2>2. Existing(r)' # {}
      BY <1>12, ExistingStays DEF Conflict
    <2>3. QED
      BY <2>1, <2>2 DEF QueueOK
  <1>13. ASSUME NEW sold \in SUBSET Items, Commit(r, sold)
         PROVE  QueueOK(r)'
    BY <1>1, <1>13 DEF Commit, QueueOK, Request
  <1>14. QED
    BY <1>6, <1>7, <1>8, <1>9, <1>10, <1>11, <1>12, <1>13 DEF Step

LEMMA QueueKeeps ==
    ASSUME IInv, QInv, [Next]_vars
    PROVE  QInv'
  <1>1. SUFFICES ASSUME NEW r \in Requests  PROVE QueueOK(r)'
    BY DEF QInv
  <1>2. request \in [Requests -> Request]
    BY DEF IInv, TypeOK
  <1>3. CASE UNCHANGED <<request, holder>>
    BY <1>3, StandingStill
  <1>4. ASSUME NEW q \in Requests, Step(q) \/ Crash(q)
        PROVE  QueueOK(r)'
    <2>1. CASE q = r
      BY <1>4, <2>1, StepQueues
    <2>2. CASE q # r
      BY <1>4, <2>2, MovesAlone, StandingStill
    <2>3. QED
      BY <2>1, <2>2
  <1>5. ASSUME NEW q \in Requests, NEW b \in Browsers, NEW t \in Tokens, Submit(q, b, t)
        PROVE  QueueOK(r)'
    <2>1. UNCHANGED holder
      BY <1>5 DEF Submit
    <2>2. CASE q = r
      BY <1>2, <1>5, <2>2 DEF Submit, QueueOK, Request
    <2>3. CASE q # r
      BY <1>2, <1>5, <2>1, <2>3, StandingStill DEF Submit
    <2>4. QED
      BY <2>2, <2>3
  <1>6. QED
    BY <1>3, <1>4, <1>5 DEF Next, OpenForm, AddItem, MarkPaid, MarkUnpaid, Close, Move, vars

LEMMA NatLeast ==
    ASSUME NEW T \in SUBSET Nat, T # {}
    PROVE  \E n \in T : \A m \in T : n <= m
  <1> DEFINE R == {p \in Nat \X Nat : p[1] < p[2]}
  <1>1. IsWellFoundedOn(R, Nat)
    BY NatLessThanWellFounded DEF OpToRel
  <1>2. \A m, n \in Nat : ~(<<m, n>> \in R) => n <= m
    OBVIOUS
  <1> HIDE DEF R
  <1>3. PICK n \in T : \A m \in T : ~(<<m, n>> \in R)
    BY <1>1, WFMin
  <1>4. QED
    BY <1>2, <1>3

(* The lock keys of a customer are numbers, so a request that wants some   *)
(* has a next one.                                                         *)
LEMMA NextKeyExists ==
    ASSUME IInv, NEW r \in Requests, request[r].phase = "lock", Wanted(r) # {}
    PROVE  \E k \in Keys : NextKey(r, k)
  <1>1. Wanted(r) \in SUBSET Nat /\ Wanted(r) \subseteq Keys
    BY Typed, CheckoutAssumption DEF Wanted, CheckoutAssumption
  <1>2. PICK k \in Wanted(r) : \A j \in Wanted(r) : k <= j
    BY <1>1, NatLeast
  <1>3. QED
    BY <1>1, <1>2 DEF NextKey

(* Who holds a lock or has locked a row is running; a writer never waits.  *)
LEMMA HoldersRun ==
    ASSUME IInv, NEW q \in Requests,
           (\E k \in Keys : holder[k] = q) \/ request[q].locked # {}
    PROVE  Running(q)
  BY DEF IInv, TypeOK, RequestOK, Running, Finished

LEMMA BlockedWaits == IInv /\ QInv => BlockedByRunning
  <1> SUFFICES ASSUME IInv, QInv, NEW r \in Requests, Blocked(r)
               PROVE  \E q \in Requests : Running(q) /\ WaitsFor(r, q)
    BY DEF BlockedByRunning
  <1>1. CASE /\ request[r].phase = "lock" /\ Wanted(r) # {}
             /\ ~ \E k \in Keys : NextKey(r, k) /\ holder[k] = None
    <2>1. PICK k \in Keys : NextKey(r, k)
      BY <1>1, NextKeyExists
    <2>2. holder[k] \in Requests
      BY <1>1, <2>1 DEF IInv, TypeOK
    <2>3. QED
      BY <1>1, <2>1, <2>2, HoldersRun DEF WaitsFor
  <1>2. CASE request[r].phase = "lock_cart" /\ SeenAndThere(r) \cap LockedByOthers(r) # {}
    <2>1. PICK q \in Requests \ {r} : SeenAndThere(r) \cap request[q].locked # {}
      BY <1>2 DEF LockedByOthers
    <2>2. QED
      BY <1>2, <2>1, HoldersRun DEF WaitsFor
  <1>3. QED
    BY <1>1, <1>2 DEF Blocked, QInv, QueueOK

(* In a circle of waiting requests nobody has locked rows, so all wait for *)
(* lock keys; but each is waited for under a key below the one it asks     *)
(* for, and the greatest key asked for leaves nobody to wait for.          *)
LEMMA CircleBroken == IInv /\ QInv => NoCircle
  <1> SUFFICES ASSUME IInv, QInv, NEW S \in SUBSET Requests, S # {},
                      \A r \in S : \E q \in S : WaitsFor(r, q)
               PROVE  FALSE
    BY DEF NoCircle
  <1>1. ASSUME NEW r \in S  PROVE request[r].phase = "lock"
    <2>1. PICK q \in S : WaitsFor(r, q)
      OBVIOUS
    <2>2. \E p \in S : WaitsFor(q, p)
      OBVIOUS
    <2>3. request[q].phase # "write"
      BY <2>2 DEF WaitsFor
    <2>4. request[q].locked = {}
      BY <2>3, Typed
    <2>5. QED
      BY <2>1, <2>4 DEF WaitsFor
  <1> DEFINE next == [r \in S |-> CHOOSE k \in Keys : NextKey(r, k) /\ \E q \in S : holder[k] = q]
  <1>2. ASSUME NEW r \in S
        PROVE  /\ next[r] \in Keys /\ next[r] \in Nat /\ NextKey(r, next[r])
               /\ \E q \in S : holder[next[r]] = q
    <2>1. \E k \in Keys : NextKey(r, k) /\ \E q \in S : holder[k] = q
      BY <1>1 DEF WaitsFor
    <2>2. next[r] \in Keys /\ NextKey(r, next[r]) /\ \E q \in S : holder[next[r]] = q
      BY <2>1
    <2>3. Keys \subseteq Nat
      BY CheckoutAssumption DEF Keys, CheckoutAssumption
    <2>4. QED
      BY <2>2, <2>3
  <1>3. ASSUME NEW r \in S  PROVE \E q \in S : next[r] < next[q]
    <2>1. PICK q \in S : holder[next[r]] = q
      BY <1>2
    <2>2. Holds(q, next[r]) /\ next[q] \in Wanted(q)
      BY <1>2, <2>1 DEF Holds, NextKey
    <2>3. QED
      BY <1>1, <2>2 DEF QInv, QueueOK
  <1> HIDE DEF next
  <1> DEFINE Above(r) == {q \in S : next[r] <= next[q]}
             T == {n \in Nat : \E r \in S : Cardinality(Above(r)) = n}
  <1>4. ASSUME NEW r \in S
        PROVE  IsFiniteSet(Above(r)) /\ Cardinality(Above(r)) \in Nat
    BY CheckoutAssumption, FS_Subset, FS_CardinalityType DEF CheckoutAssumption
  <1>5. PICK n \in T : \A m \in T : n <= m
    <2>1. PICK r \in S : TRUE
      OBVIOUS
    <2>2. Cardinality(Above(r)) \in T
      BY <1>4
    <2> HIDE DEF T
    <2>3. T \subseteq Nat
      BY DEF T
    <2>4. QED
      BY <2>2, <2>3, NatLeast
  <1>6. PICK r \in S : Cardinality(Above(r)) = n
    OBVIOUS
  <1>7. PICK q \in S : next[r] < next[q]
    BY <1>3
  <1>8. Above(q) \subseteq Above(r) /\ Above(q) # Above(r)
    <2>1. Above(q) \subseteq Above(r)
      BY <1>2, <1>7
    <2>2. r \in Above(r) /\ r \notin Above(q)
      BY <1>2, <1>7
    <2>3. QED
      BY <2>1, <2>2
  <1>9. Cardinality(Above(q)) < Cardinality(Above(r))
    <2>1. PICK A, B : A = Above(q) /\ B = Above(r)
      OBVIOUS
    <2>2. /\ IsFiniteSet(B) /\ A \in SUBSET B /\ A # B
          /\ Cardinality(A) \in Nat /\ Cardinality(B) \in Nat
      BY <1>4, <1>8, <2>1
    <2>3. Cardinality(A) < Cardinality(B)
      BY <2>2, FS_Subset
    <2>4. QED
      BY <2>1, <2>3
  <1>10. /\ Cardinality(Above(q)) \in Nat /\ Cardinality(Above(r)) \in Nat
         /\ n <= Cardinality(Above(q))
    BY <1>4, <1>5
  <1> HIDE DEF Above, T
  <1>11. QED
    BY <1>6, <1>9, <1>10

(* The invariant with what the locks are taken for and in which order.     *)
LEMMA QueueInvariant == Spec => [](IInv /\ QInv)
  <1>1. Init => QInv
    <2>1. New.phase = "new"
      BY DEF New
    <2>2. QED
      BY <2>1 DEF Init, QInv, QueueOK
  <1>2. IInv /\ QInv /\ [Next]_vars => QInv'
    BY QueueKeeps
  <1>3. QED
    BY <1>1, <1>2, CheckoutInvariant, PTL DEF Spec

(* Submits never wait for each other in a circle, however many lock keys   *)
(* their customers share: the safety half of EverySubmitEnds, for the      *)
(* sorted order in which _lock_dimension_values takes the keys and the     *)
(* cart rows that are locked last.                                         *)
THEOREM SubmitsNeverDeadlock == Spec => []NoCircle
  BY CircleBroken, QueueInvariant, PTL

(* A submit that cannot move waits for one that runs: no lock outlives its *)
(* request, and the handler of the IntegrityError always finds the order   *)
(* that caused it.                                                         *)
THEOREM OnlyRunningSubmitsBlock == Spec => []BlockedByRunning
  BY BlockedWaits, QueueInvariant, PTL

-----------------------------------------------------------------------------
(***************************************************************************)
(* Which duplicates are refused.                                           *)
(***************************************************************************)

(* Orders come from commits only.                                          *)
LEMMA CreatedByCommit ==
    ASSUME IInv, [Next]_vars, NEW q \in Requests, ~Created(q), Created(q)'
    PROVE  \E sold \in SUBSET Items : Commit(q, sold)
  <1>1. order \in [Requests -> Order] /\ order[q].state = "none" /\ order'[q].state # "none"
    BY DEF IInv, TypeOK, Created
  <1>2. ASSUME NEW p \in Requests
        PROVE  ~MarkPaid(p) /\ ~MarkUnpaid(p) /\ ~Close(p)
    BY <1>1, <1>2 DEF MarkPaid, MarkUnpaid, Close, Move
  <1>3. ASSUME NEW p \in Requests, Step(p)
        PROVE  \E sold \in SUBSET Items : Commit(p, sold)
    BY <1>1, <1>3 DEF Step, Dispatch, FormValid, Lookup, Precheck, Lock, Relookup, CheckLimit,
       ReadCart, LockCart, EmptyCart, Shortage, NothingLeft, Conflict, Recover, Respond
  <1>4. ASSUME NEW p \in Requests, NEW sold \in SUBSET Items, Commit(p, sold)
        PROVE  p = q
    BY <1>1, <1>4 DEF Commit
  <1>5. PICK p \in Requests : Step(p)
    BY <1>1, <1>2 DEF Next, OpenForm, AddItem, Submit, Crash, vars
  <1>6. QED
    BY <1>3, <1>4, <1>5

(* Behind the second lookup of an account there is no order of its token,  *)
(* and none is made by anybody else.                                       *)
Decided == BoundPhases \cup {"limit"}
LookupOK(r) ==
    request[r].customer \in Users =>
        /\ request[r].phase \in Decided => Existing(r) = {}
        /\ request[r].phase # "recover"
LookupStands == \A r \in Requests : LookupOK(r)

(* While an account is decided about, its key is one that only it can use. *)
LEMMA NoTwinCommits ==
    ASSUME IInv, [Next]_vars, NEW r \in Requests, request'[r] = request[r],
           request[r].customer \in Users, request[r].phase \in Decided, Existing(r) = {}
    PROVE  Existing(r)' = {}
  <1>1. SUFFICES ASSUME NEW q \in Requests, Created(q)', IdempotencyKey(q)' = IdempotencyKey(r)'
                 PROVE  FALSE
    BY DEF Existing
  <1>2. IdempotencyKey(r)' = IdempotencyKey(r)
    BY DEF IdempotencyKey
  <1>3. ~Created(q)
    <2>1. Created(q) => request[q].phase # "new"
      BY DEF IInv, RequestOK
    <2>2. Created(q) => IdempotencyKey(q)' = IdempotencyKey(q)
      BY <2>1, KeyStays DEF IdempotencyKey
    <2>3. QED
      BY <1>1, <1>2, <2>2 DEF Existing
  <1>4. PICK sold \in SUBSET Items : Commit(q, sold)
    BY <1>1, <1>3, CreatedByCommit
  <1>5. request[q].phase = "write" /\ request'[q].phase = "respond"
    BY <1>4, Typed DEF Commit, Request, Phases
  <1>6. q # r
    BY <1>5 DEF Decided, BoundPhases
  <1>7. request[q].customer = request[r].customer
    <2>1. IdempotencyKey(q)' = IdempotencyKey(q)
      BY <1>5, KeyStays DEF IdempotencyKey
    <2>2. QED
      BY <1>1, <1>2, <2>1 DEF IdempotencyKey
  <1>8. PICK k : k \in KeysOf[request[r].customer]
    <2>1. Cardinality(KeysOf[request[r].customer]) = 1
      BY CheckoutAssumption DEF CheckoutAssumption
    <2>2. KeysOf[request[r].customer] # {}
      BY <2>1, FS_EmptySet
    <2>3. QED
      BY <2>2
  <1>9. HasLocks(request[r]) /\ HasLocks(request[q])
    BY <1>5 DEF HasLocks, Decided, BoundPhases
  <1>10. holder[k] = r /\ holder[k] = q
    BY <1>7, <1>8, <1>9 DEF IInv, RequestOK
  <1>11. QED
    BY <1>6, <1>10

LEMMA LookupStep ==
    ASSUME IInv, LookupStands, [Next]_vars, NEW r \in Requests, Step(r) \/ Crash(r)
    PROVE  LookupOK(r)'
  <1>1. /\ request \in [Requests -> Request] /\ request[r] \in Request /\ LookupOK(r)
        /\ order \in [Requests -> Order]
    BY Typed DEF IInv, TypeOK, LookupStands
  <1>2. ASSUME request'[r].phase \notin Decided \cup {"recover"}
        PROVE  LookupOK(r)'
    BY <1>2 DEF LookupOK
  <1>3. ASSUME NEW p \in Phases \ (Decided \cup {"recover"}), Goto(r, p)
        PROVE  LookupOK(r)'
    BY <1>1, <1>2, <1>3 DEF Goto, Request
  <1>4. ASSUME NEW why, Fail(r, why)
        PROVE  LookupOK(r)'
    BY <1>1, <1>2, <1>4 DEF Fail, Request, Decided, BoundPhases
  <1>5. ASSUME UNCHANGED order, Existing(r) = {}, request[r].phase # "new",
               \A q \in Requests \ {r} : request'[q] = request[q],
               request'[r].phase # "recover"
        PROVE  LookupOK(r)'
    <2>1. /\ request'[r].customer = request[r].customer
          /\ request'[r].token = request[r].token
      BY <1>5, KeyStays
    <2>2. \A q \in Requests : IdempotencyKey(q)' = IdempotencyKey(q) /\ (Created(q)' <=> Created(q))
      BY <1>5, <2>1 DEF IdempotencyKey, Created
    <2>3. Existing(r)' = {}
      BY <1>5, <2>2 DEF Existing
    <2>4. QED
      BY <1>5, <2>3 DEF LookupOK
  <1>6. \A q \in Requests \ {r} : request'[q] = request[q]
    BY MovesAlone
  <1>7. ASSUME request[r].customer \notin Users, request[r].phase # "new"
        PROVE  LookupOK(r)'
    BY <1>7, KeyStays DEF LookupOK
  <1>8. CASE Dispatch(r) \/ FormValid(r) \/ Lookup(r) \/ Precheck(r) \/ Recover(r) \/ Respond(r)
    BY <1>3, <1>4, <1>8 DEF Dispatch, FormValid, Lookup, Precheck, Recover, Respond, Phases,
                            Decided, BoundPhases
  <1>9. CASE Lock(r)
    <2>1. request[r].phase = "lock"
      BY <1>9 DEF Lock
    <2>2. UNCHANGED request => request'[r].phase = "lock"
      BY <2>1
    <2>3. QED
      BY <1>2, <1>3, <1>7, <1>9, <2>1, <2>2 DEF Lock, Phases, Decided, BoundPhases
  <1>10. CASE Relookup(r)
    <2>1. request[r].phase = "relookup" /\ UNCHANGED order
      BY <1>10 DEF Relookup
    <2>2. CASE Goto(r, "respond")
      BY <1>3, <2>2 DEF Phases, Decided, BoundPhases
    <2>3. ASSUME Existing(r) = {}, Goto(r, "limit")
          PROVE  LookupOK(r)'
      <3>1. request'[r].phase = "limit"
        BY <1>1, <2>3 DEF Goto, Request
      <3>2. QED
        BY <1>5, <1>6, <2>1, <2>3, <3>1
    <2>4. CASE request[r].customer \notin Users
      BY <1>7, <2>1, <2>4
    <2>5. QED
      BY <1>10, <2>2, <2>3, <2>4 DEF Relookup
  <1>11. ASSUME request[r].phase \in Decided, UNCHANGED order, request'[r].phase # "recover"
         PROVE  LookupOK(r)'
    <2>1. request[r].phase # "new"
      BY <1>11 DEF Decided, BoundPhases
    <2>2. CASE request[r].customer \notin Users
      BY <1>7, <2>1, <2>2
    <2>3. CASE request[r].customer \in Users
      <3>1. Existing(r) = {}
        BY <1>1, <1>11, <2>3 DEF LookupOK
      <3>2. QED
        BY <1>5, <1>6, <1>11, <2>1, <3>1
    <2>4. QED
      BY <2>2, <2>3
  <1>12. CASE CheckLimit(r)
    <2>1. Fail(r, "limit") \/ request'[r].phase = "read_cart"
      BY <1>1, <1>12 DEF CheckLimit, Goto, Request
    <2>2. QED
      BY <1>4, <1>11, <1>12, <2>1 DEF CheckLimit, Decided
  <1>13. CASE ReadCart(r) \/ LockCart(r)
    <2>1. request'[r].phase \in {"lock_cart", "write"}
      BY <1>1, <1>13 DEF ReadCart, LockCart, Request
    <2>2. QED
      BY <1>11, <1>13, <2>1 DEF ReadCart, LockCart, Decided, BoundPhases
  <1>14. CASE EmptyCart(r) \/ Shortage(r) \/ NothingLeft(r)
    BY <1>3, <1>4, <1>14 DEF EmptyCart, Shortage, NothingLeft, Phases, Decided, BoundPhases
  <1>15. CASE Conflict(r)
    <2>1. request[r].phase = "write" /\ Existing(r) # {}
      BY <1>15 DEF Conflict
    <2>2. request[r].customer \notin Users
      BY <1>1, <2>1 DEF LookupOK, Decided, BoundPhases
    <2>3. QED
      BY <1>7, <2>1, <2>2
  <1>16. ASSUME NEW sold \in SUBSET Items, Commit(r, sold)
         PROVE  LookupOK(r)'
    <2>1. request'[r].phase = "respond"
      BY <1>1, <1>16 DEF Commit, Request
    <2>2. QED
      BY <1>2, <2>1 DEF Decided, BoundPhases
  <1>17. CASE Crash(r)
    <2>1. request'[r].phase = "crashed"
      BY <1>1, <1>17 DEF Crash, Request
    <2>2. QED
      BY <1>2, <2>1 DEF Decided, BoundPhases
  <1>18. QED
    BY <1>8, <1>9, <1>10, <1>12, <1>13, <1>14, <1>15, <1>16, <1>17 DEF Step

LEMMA TwinsKeepOut ==
    ASSUME IInv, LookupStands, [Next]_vars
    PROVE  LookupStands'
  <1>1. SUFFICES ASSUME NEW r \in Requests  PROVE LookupOK(r)'
    BY DEF LookupStands
  <1>2. request \in [Requests -> Request] /\ LookupOK(r)
    BY DEF IInv, TypeOK, LookupStands
  <1>3. ASSUME request'[r] = request[r]
        PROVE  LookupOK(r)'
    BY <1>2, <1>3, NoTwinCommits DEF LookupOK
  <1>4. ASSUME NEW q \in Requests, Step(q) \/ Crash(q)
        PROVE  LookupOK(r)'
    BY <1>3, <1>4, MovesAlone, LookupStep
  <1>5. ASSUME NEW q \in Requests, NEW b \in Browsers, NEW t \in Tokens, Submit(q, b, t)
        PROVE  LookupOK(r)'
    <2>1. CASE q = r
      <3>1. request'[r].phase = "dispatch"
        BY <1>2, <1>5, <2>1, Typed DEF Submit, Request
      <3>2. QED
        BY <3>1 DEF LookupOK, Decided, BoundPhases
    <2>2. CASE q # r
      BY <1>2, <1>3, <1>5, <2>2 DEF Submit
    <2>3. QED
      BY <2>1, <2>2
  <1>6. QED
    BY <1>3, <1>4, <1>5 DEF Next, OpenForm, AddItem, MarkPaid, MarkUnpaid, Close, Move, vars

LEMMA LookupInvariant == Spec => [](IInv /\ LookupStands)
  <1>1. Init => LookupStands
    <2>1. New.phase = "new"
      BY DEF New
    <2>2. QED
      BY <2>1 DEF Init, LookupStands, LookupOK, Decided, BoundPhases
  <1>2. IInv /\ LookupStands /\ [Next]_vars => LookupStands'
    BY TwinsKeepOut
  <1>3. QED
    BY <1>1, <1>2, CheckoutInvariant, PTL DEF Spec

(* The second lookup of an account, under the lock of its user row, stands *)
(* until the commit: an account's insert never meets an IntegrityError.    *)
THEOREM AccountsNeverConflict == Spec => []LookupStands
  BY LookupInvariant, PTL

(* What the run duplicate_submit shows goes exactly so far.  A submit      *)
(* whose twin has created the order is refused by a check that comes       *)
(* before every lock; behind them only a guest's can be refused, who looks *)
(* the order up before it has its locks, and never for an empty cart.      *)
THEOREM DuplicatesFailEarly ==
    Spec => [][\A r \in Requests :
                 /\ request[r].phase # "failed" /\ request'[r].phase = "failed"
                 /\ Existing(r) # {}
                 => \/ /\ request[r].phase \in {"dispatch", "form_valid", "precheck"}
                       /\ request'[r].reason \in {"no_items", "stale_form", "limit"}
                    \/ /\ request[r].customer \notin Users
                       /\ request'[r].reason \in {"limit", "stock", "unavailable"}]_vars
  <1>1. ASSUME IInv, LookupStands, Next, NEW r \in Requests, request[r].phase # "failed",
               request'[r].phase = "failed", Existing(r) # {}
        PROVE  \/ /\ request[r].phase \in {"dispatch", "form_valid", "precheck"}
                  /\ request'[r].reason \in {"no_items", "stale_form", "limit"}
               \/ /\ request[r].customer \notin Users
                  /\ request'[r].reason \in {"limit", "stock", "unavailable"}
    <2>1. request[r].phase \in Decided => request[r].customer \notin Users
      BY <1>1 DEF LookupStands, LookupOK
    <2>2. CheckLimit(r) \/ Shortage(r) \/ NothingLeft(r) => request[r].phase \in Decided
      BY DEF CheckLimit, Shortage, NothingLeft, Decided, BoundPhases
    <2>3. ~(EmptyCart(r) /\ TwinOrders(r) = {})
      BY <1>1 DEF TwinOrders
    <2>4. QED
      BY <1>1, <2>1, <2>2, <2>3, RefusingSteps
  <1>2. IInv /\ LookupStands /\ [Next]_vars =>
          [\A r \in Requests :
             /\ request[r].phase # "failed" /\ request'[r].phase = "failed"
             /\ Existing(r) # {}
             => \/ /\ request[r].phase \in {"dispatch", "form_valid", "precheck"}
                   /\ request'[r].reason \in {"no_items", "stale_form", "limit"}
                \/ /\ request[r].customer \notin Users
                   /\ request'[r].reason \in {"limit", "stock", "unavailable"}]_vars
    BY <1>1
  <1>3. QED
    BY <1>2, LookupInvariant, PTL DEF Spec
===============================================================================
