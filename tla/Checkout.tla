-------------------------------- MODULE Checkout --------------------------------
(***************************************************************************)
(* The checkout page (CheckoutView, CheckoutSessionService) and            *)
(* CheckoutService.create_order_from_cart at the grain of their            *)
(* statements: parallel submits of one or of several customers, the        *)
(* session, the idempotency lookups, the limits on active orders and the   *)
(* locks that serialise them.  Transactions run at READ COMMITTED: a       *)
(* statement sees what is committed when it starts, and what a transaction *)
(* wrote appears at its commit.  A request works on the copy of the        *)
(* session it loaded and saves the whole copy when it changed it.          *)
(*                                                                         *)
(* A lock key is the row of a user or the advisory lock of one value of a  *)
(* guest dimension (email, phone, session, ip); keys are numbers because   *)
(* the code takes them in sorted order.  Stock is OrderStock's business:   *)
(* whether a cart line can be sold is a nondeterministic choice here.      *)
(***************************************************************************)
EXTENDS Naturals, FiniteSets

CONSTANTS
    Requests,    \* submits of the checkout form
    Customers,   \* accounts and guest sessions, each with its cart
    Users,       \* the customers that have an account
    Browsers,    \* browser sessions; an account may be open in several
    CustomerOf,  \* CustomerOf[b]: whose session b is
    Tokens,      \* checkout tokens handed out with the form
    Items,       \* cart item rows
    KeysOf,      \* KeysOf[c]: the lock keys of customer c
    Limit        \* Limit[k]: how many active orders the owner of k may have

Keys == UNION {KeysOf[c] : c \in Customers}

ASSUME CheckoutAssumption ==
    /\ IsFiniteSet(Requests)
    /\ Users \subseteq Customers
    /\ CustomerOf \in [Browsers -> Customers]
    /\ KeysOf \in [Customers -> SUBSET Nat]
    /\ \A c \in Users : Cardinality(KeysOf[c]) = 1
    /\ \A c \in Users : \A d \in Customers \ {c} : KeysOf[c] \cap KeysOf[d] = {}
    /\ Limit \in [Keys -> Nat \ {0}]

CONSTANT None   \* no request, no customer, no token

ASSUME NoneAssumption == None \notin Requests \cup Browsers \cup Customers \cup Tokens

VARIABLES
    cart,     \* cart[c]: the item rows of the cart of c
    session,  \* session[b]: the checkout state kept in the session b
    issued,   \* issued[b]: the tokens that forms in browser b hold
    request,  \* request[r]: how far r has come
    order,    \* order[r]: the order that r created
    holder    \* holder[k]: the transaction that holds lock key k

vars == <<cart, session, issued, request, order, holder>>
browserVars == <<session, issued>>

-----------------------------------------------------------------------------
Phases == {"new", "dispatch", "form_valid", "lookup", "precheck", "lock", "relookup",
           "limit", "read_cart", "lock_cart", "write", "recover", "respond",
           "answered", "failed", "crashed"}
Reasons == {"none", "no_items", "stale_form", "limit", "empty", "stock", "unavailable"}
OrderStates == {"none", "open", "paid", "reopened", "closed"}

(* The token of the form being filled in and the one already processed.    *)
Session == [token : Tokens \cup {None}, processed : Tokens \cup {None}]

Request == [phase : Phases, browser : Browsers \cup {None},
            customer : Customers \cup {None}, token : Tokens \cup {None},
            loaded : Session, seen : SUBSET Items, locked : SUBSET Items,
            reason : Reasons]
Fresh == [token |-> None, processed |-> None]
New == [phase |-> "new", browser |-> None, customer |-> None, token |-> None,
        loaded |-> Fresh, seen |-> {}, locked |-> {}, reason |-> "none"]

Order == [state : OrderStates, items : SUBSET Items]
NoOrder == [state |-> "none", items |-> {}]

Created(r) == order[r].state # "none"
Finished(r) == request[r].phase \in {"answered", "failed", "crashed"}

(* build_checkout_idempotency_key: the token scoped by user or session;    *)
(* Payment.idempotency_key is unique.                                      *)
(* Fault: every submit gets a key of its own.                              *)
UnscopedKey(r) == <<r, request[r].token>>
IdempotencyKey(r) == <<request[r].customer, request[r].token>>

(* _find_existing_checkout_payment: the orders committed under that key.   *)
Existing(r) == {q \in Requests : Created(q) /\ IdempotencyKey(q) = IdempotencyKey(r)}

(* _count_active_unpaid_orders counts what is open and not paid;           *)
(* _active_guest_orders_queryset whatever holds a reservation.             *)
Active(c) == IF c \in Users THEN {"open", "reopened"} ELSE {"open", "paid", "reopened"}

ActiveOrders(k) ==
    {q \in Requests : /\ Created(q) /\ k \in KeysOf[request[q].customer]
                      /\ order[q].state \in Active(request[q].customer)}

(* _ensure_active_order_limit and ensure_guest_checkout_allowed.           *)
OverLimit(c) == \E k \in KeysOf[c] : Cardinality(ActiveOrders(k)) >= Limit[k]

-----------------------------------------------------------------------------
Goto(r, phase) == request' = [request EXCEPT ![r].phase = phase]
Fail(r, why) == request' = [request EXCEPT ![r].phase = "failed", ![r].reason = why,
                                           ![r].locked = {}]
(* COMMIT and ROLLBACK release every lock of the transaction.              *)
(* Fault: locks of the session, not of the transaction.                    *)
KeepLocks(r) == holder' = holder
Release(r) == holder' = [k \in Keys |-> IF holder[k] = r THEN None ELSE holder[k]]

(* get_or_create_checkout_token: a new UUID.  Bound: once Tokens are used  *)
(* up the session gets none.                                               *)
Unused == {t \in Tokens : \A b \in Browsers : t \notin issued[b] \cup {session[b].token}}
NewTokens == IF Unused # {} THEN Unused ELSE {None}

(* GET of the checkout page: the form carries the token of the session.    *)
OpenForm(b, t) ==
    /\ cart[CustomerOf[b]] # {}
    /\ session[b].token = t \/ (session[b].token = None /\ t \in Unused)
    /\ session' = [session EXCEPT ![b].token = t]
    /\ issued' = [issued EXCEPT ![b] = @ \cup {t}]
    /\ UNCHANGED <<cart, request, order, holder>>

(* POST: the session is loaded once, here.                                 *)
Submit(r, b, t) ==
    /\ request[r].phase = "new"
    /\ t \in issued[b]
    /\ request' = [request EXCEPT ![r].phase = "dispatch", ![r].loaded = session[b],
                                  ![r].browser = b, ![r].customer = CustomerOf[b],
                                  ![r].token = t]
    /\ UNCHANGED <<browserVars, cart, order, holder>>

Processed(r) == request[r].loaded.processed = request[r].token

(* dispatch: an empty cart goes back to the cart page, unless the session  *)
(* remembers the order.                                                    *)
Dispatch(r) ==
    /\ request[r].phase = "dispatch"
    /\ \/ cart[request[r].customer] # {} /\ Goto(r, "form_valid")
       \/ /\ cart[request[r].customer] = {}
          /\ IF Processed(r) THEN Goto(r, "answered") ELSE Fail(r, "no_items")
    /\ UNCHANGED <<browserVars, cart, order, holder>>

(* A form whose token is not the session's is shown again with the right   *)
(* one; a session without a token gets one even if the order is found.     *)
FormValid(r) ==
    LET b == request[r].browser
        loaded == request[r].loaded IN
    /\ request[r].phase = "form_valid"
    /\ \E t \in IF loaded.token = None THEN NewTokens ELSE {loaded.token} :
         /\ session' = IF loaded.token = None
                       THEN [session EXCEPT ![b] = [loaded EXCEPT !.token = t]]
                       ELSE session
         /\ \/ Processed(r) /\ Goto(r, "answered") /\ UNCHANGED issued
            \/ /\ ~Processed(r) /\ t = request[r].token
               /\ Goto(r, "lookup") /\ UNCHANGED issued
            \/ /\ ~Processed(r) /\ t # request[r].token
               /\ Fail(r, "stale_form")
               /\ issued' = [issued EXCEPT ![b] = @ \cup ({t} \ {None})]
    /\ UNCHANGED <<cart, order, holder>>

Lookup(r) ==
    /\ request[r].phase = "lookup"
    /\ Goto(r, IF Existing(r) # {} THEN "respond" ELSE "precheck")
    /\ UNCHANGED <<browserVars, cart, order, holder>>

(* The limits, looked at without any lock.                                 *)
Precheck(r) ==
    /\ request[r].phase = "precheck"
    /\ IF OverLimit(request[r].customer)
       THEN Fail(r, "limit")
       ELSE Goto(r, IF request[r].customer \in Users THEN "lock" ELSE "relookup")
    /\ UNCHANGED <<browserVars, cart, order, holder>>

(* Keys already held by r, and the one it asks for next.                   *)
Wanted(r) == {k \in KeysOf[request[r].customer] : holder[k] # r}
(* Fault: guests take their locks in no particular order.                  *)
AnyNext(r, k) == k \in Wanted(r)
NextKey(r, k) == k \in Wanted(r) /\ \A j \in Wanted(r) : k <= j

(* _lock_checkout_user (users, before the second lookup) and               *)
(* _lock_dimension_values (guests, after it).                              *)
Lock(r) ==
    /\ request[r].phase = "lock"
    /\ \/ \E k \in Keys :
            /\ NextKey(r, k)
            /\ holder[k] = None
            /\ holder' = [holder EXCEPT ![k] = r]
            /\ UNCHANGED request
       \/ /\ Wanted(r) = {}
          /\ Goto(r, IF request[r].customer \in Users THEN "relookup" ELSE "limit")
          /\ UNCHANGED holder
    /\ UNCHANGED <<browserVars, cart, order>>

Relookup(r) ==
    /\ request[r].phase = "relookup"
    /\ IF Existing(r) # {}
       THEN Goto(r, "respond") /\ Release(r)
       ELSE /\ Goto(r, IF request[r].customer \in Users THEN "limit" ELSE "lock")
            /\ UNCHANGED holder
    /\ UNCHANGED <<browserVars, cart, order>>

(* Fault: the limits are not looked at again under the locks.              *)
NeverOver(r) == FALSE
OverLimitLocked(r) == OverLimit(request[r].customer)

CheckLimit(r) ==
    /\ request[r].phase = "limit"
    /\ IF OverLimitLocked(r)
       THEN Fail(r, "limit") /\ Release(r)
       ELSE Goto(r, "read_cart") /\ UNCHANGED holder
    /\ UNCHANGED <<browserVars, cart, order>>

(* _lock_cart_items is one SELECT ... FOR UPDATE: it starts with the rows  *)
(* of this moment and, once it has waited for their locks, returns those   *)
(* that are still there.                                                   *)
ReadCart(r) ==
    /\ request[r].phase = "read_cart"
    /\ request' = [request EXCEPT ![r].phase = "lock_cart",
                                  ![r].seen = cart[request[r].customer]]
    /\ UNCHANGED <<browserVars, cart, order, holder>>

LockedByOthers(r) == UNION {request[q].locked : q \in Requests \ {r}}
SeenAndThere(r) == request[r].seen \cap cart[request[r].customer]

LockCart(r) ==
    /\ request[r].phase = "lock_cart"
    /\ SeenAndThere(r) \cap LockedByOthers(r) = {}
    /\ request' = [request EXCEPT ![r].phase = "write", ![r].locked = SeenAndThere(r)]
    /\ UNCHANGED <<browserVars, cart, order, holder>>

(* Fault: the order is not looked up again behind an empty cart.           *)
NoTwin(r) == {}
TwinOrders(r) == Existing(r)

(* An empty cart may mean that a twin request was faster.                  *)
EmptyCart(r) ==
    /\ request[r].phase = "write" /\ request[r].locked = {}
    /\ IF TwinOrders(r) # {} THEN Goto(r, "respond") ELSE Fail(r, "empty")
    /\ Release(r)
    /\ UNCHANGED <<browserVars, cart, order>>

(* A line above the SKU limit or the available stock: ROLLBACK.            *)
Shortage(r) ==
    /\ request[r].phase = "write" /\ request[r].locked # {}
    /\ Fail(r, "stock")
    /\ Release(r)
    /\ UNCHANGED <<browserVars, cart, order>>

(* _cleanup_cart deletes the rows that were sold and those that cannot be. *)
(* Fault: it never runs.                                                   *)
KeptCart(r) == cart
CleanedCart(r) == [cart EXCEPT ![request[r].customer] = @ \ request[r].locked]

(* No line can be sold: they leave the cart, and that is committed.        *)
NothingLeft(r) ==
    /\ request[r].phase = "write" /\ request[r].locked # {}
    /\ cart' = CleanedCart(r)
    /\ Fail(r, "unavailable")
    /\ Release(r)
    /\ UNCHANGED <<browserVars, order>>

(* The unique idempotency key is taken: IntegrityError, ROLLBACK, and the  *)
(* handler looks the order up once more.                                   *)
Conflict(r) ==
    /\ request[r].phase = "write" /\ request[r].locked # {}
    /\ Existing(r) # {}
    /\ request' = [request EXCEPT ![r].phase = "recover", ![r].locked = {}]
    /\ Release(r)
    /\ UNCHANGED <<browserVars, cart, order>>

Recover(r) ==
    /\ request[r].phase = "recover"
    /\ Existing(r) # {}
    /\ Goto(r, "respond")
    /\ UNCHANGED <<browserVars, cart, order, holder>>

(* Order, lines, payment and reservation are committed; the sold lines and *)
(* the skipped ones leave the cart.                                        *)
Commit(r, sold) ==
    /\ request[r].phase = "write"
    /\ sold # {} /\ sold \subseteq request[r].locked
    /\ Existing(r) = {}
    /\ order' = [order EXCEPT ![r] = [state |-> "open", items |-> sold]]
    /\ cart' = CleanedCart(r)
    /\ request' = [request EXCEPT ![r].phase = "respond", ![r].locked = {}]
    /\ Release(r)
    /\ UNCHANGED browserVars

(* mark_checkout_processed, saved on the loaded copy of the session.       *)
Respond(r) ==
    /\ request[r].phase = "respond"
    /\ session' = [session EXCEPT ![request[r].browser] =
                     [token |-> None, processed |-> request[r].token]]
    /\ Goto(r, "answered")
    /\ UNCHANGED <<issued, cart, order, holder>>

(* The worker dies: what is not committed is gone, the locks are free.     *)
Crash(r) ==
    /\ request[r].phase # "new" /\ ~Finished(r)
    /\ request' = [request EXCEPT ![r].phase = "crashed", ![r].locked = {}]
    /\ Release(r)
    /\ UNCHANGED <<browserVars, cart, order>>

-----------------------------------------------------------------------------
(* Meanwhile: the customer puts another product into the cart, staff mark  *)
(* an order paid or unpaid, and orders are issued or cancelled.            *)

AddItem(c, i) ==
    /\ \A d \in Customers : i \notin cart[d]
    /\ \A r \in Requests : i \notin order[r].items \cup request[r].seen
    /\ cart' = [cart EXCEPT ![c] = @ \cup {i}]
    /\ UNCHANGED <<browserVars, request, order, holder>>

Move(r, from, to) ==
    /\ order[r].state \in from
    /\ order' = [order EXCEPT ![r].state = to]
    /\ UNCHANGED <<browserVars, cart, request, holder>>

MarkPaid(r) == Move(r, {"open", "reopened"}, "paid")
MarkUnpaid(r) == Move(r, {"paid"}, "reopened")
Close(r) == Move(r, {"open", "reopened", "paid"}, "closed")

-----------------------------------------------------------------------------
Init ==
    /\ cart = [c \in Customers |-> {}]
    /\ session = [b \in Browsers |-> Fresh]
    /\ issued = [b \in Browsers |-> {}]
    /\ request = [r \in Requests |-> New]
    /\ order = [r \in Requests |-> NoOrder]
    /\ holder = [k \in Keys |-> None]

Step(r) ==
    \/ Dispatch(r) \/ FormValid(r) \/ Lookup(r) \/ Precheck(r)
    \/ Lock(r) \/ Relookup(r) \/ CheckLimit(r)
    \/ ReadCart(r) \/ LockCart(r) \/ EmptyCart(r) \/ Shortage(r) \/ NothingLeft(r)
    \/ Conflict(r) \/ Recover(r) \/ Respond(r)
    \/ \E sold \in SUBSET Items : Commit(r, sold)

Next ==
    \/ \E r \in Requests :
         \/ \E b \in Browsers, t \in Tokens : Submit(r, b, t)
         \/ Step(r)
         \/ Crash(r)
         \/ MarkPaid(r) \/ MarkUnpaid(r) \/ Close(r)
    \/ \E b \in Browsers, t \in Tokens : OpenForm(b, t)
    \/ \E c \in Customers, i \in Items : AddItem(c, i)

Spec == Init /\ [][Next]_vars

(* A request that runs goes on running.                                    *)
FairSpec == Spec /\ \A r \in Requests : WF_vars(Step(r))

-----------------------------------------------------------------------------
(* Properties.                                                             *)

(* Everything has its type, and locks are only held by requests that are   *)
(* inside their transaction.                                               *)
TypeOK ==
    /\ cart \in [Customers -> SUBSET Items]
    /\ session \in [Browsers -> Session]
    /\ issued \in [Browsers -> SUBSET Tokens]
    /\ request \in [Requests -> Request]
    /\ order \in [Requests -> Order]
    /\ holder \in [Keys -> Requests \cup {None}]
    /\ \A r \in Requests :
          request[r].phase \in {"new", "dispatch", "form_valid", "lookup", "precheck",
                                "recover", "respond", "answered", "failed", "crashed"} =>
              request[r].locked = {} /\ \A k \in Keys : holder[k] # r

(* However often a form is submitted, and whichever workers die, it        *)
(* creates one order at most.                                              *)
OneOrderPerToken ==
    \A q, r \in Requests :
        /\ Created(q) /\ Created(r) /\ q # r
        /\ request[q].customer = request[r].customer
        => request[q].token # request[r].token

(* Parallel submits, with as many tokens as they like, never get a         *)
(* customer past a limit.  An order that staff mark unpaid again is not    *)
(* held against it: that may happen after the check.                       *)
LimitHolds ==
    \A k \in Keys :
        Cardinality({q \in ActiveOrders(k) : order[q].state # "reopened"}) <= Limit[k]

(* A cart row becomes a line of one order at most, and is then in no cart. *)
ItemSoldOnce ==
    \A r \in Requests : \A i \in order[r].items :
        /\ \A c \in Customers : i \notin cart[c]
        /\ \A q \in Requests \ {r} : i \notin order[q].items

(* "Your cart is empty" is the one text of two answers, given ahead of the *)
(* lookups (no_items) and behind the third one (empty).  A submit whose    *)
(* twin has created the order gets it from dispatch only, and only if its  *)
(* session, loaded before, does not remember that order; the check made    *)
(* under the locks never blames the cart for the twin that emptied it.     *)
EmptyForTwinOnlyAtDispatch ==
    [][ \A r \in Requests :
          /\ request[r].phase # "failed" /\ request'[r].phase = "failed"
          /\ request'[r].reason \in {"no_items", "empty"}
          /\ Existing(r) # {}
          => request[r].phase = "dispatch" /\ ~Processed(r) ]_vars

(* No submit waits for ever: the locks are taken in one order.             *)
EverySubmitEnds == \A r \in Requests : request[r].phase = "dispatch" ~> Finished(r)

(* README.md, "Reliable Checkout Flow": duplicate submits, retries and     *)
(* parallel requests safely return an already-created order.               *)
DuplicateReturnsOrder ==
    [][ \A r \in Requests :
          request[r].phase # "failed" /\ request'[r].phase = "failed" =>
              \A q \in Requests : IdempotencyKey(q) = IdempotencyKey(r) => ~Created(q) ]_vars
===============================================================================
