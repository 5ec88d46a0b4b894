--------------------------------- MODULE Carts ---------------------------------
(***************************************************************************)
(* Carts: CartService (add, update, remove), CartContextResolver and the   *)
(* merge of a guest's cart into the cart of the account that logs in, at   *)
(* the grain of their statements and row locks.  READ COMMITTED: a         *)
(* statement sees what is committed when it starts; a transaction's writes *)
(* appear at its commit, together with the release of its locks.           *)
(*                                                                         *)
(* The cart of a guest hangs on the session key of the browser, the cart   *)
(* of an account on the user.  A login cycles the key, so no guest cart    *)
(* has the key of a session that is logged in: the merge that every later  *)
(* request of the account attempts with its own key finds none, and only   *)
(* the merge of the login itself is modelled.  A logout makes what counts  *)
(* as another browser here.                                                *)
(***************************************************************************)
EXTENDS Naturals, FiniteSets

CONSTANTS
    CartUsers,      \* accounts
    CartBrowsers,   \* browsers, each with the session key of its guest
    CartVariants,   \* product variants
    CartRequests,   \* HTTP requests, numbered in the order they arrive
    CartQuantities  \* quantities a form asks for (CartValidator: 1..999)

CartOwners == CartUsers \cup CartBrowsers

ASSUME CartAssumption ==
    /\ IsFiniteSet(CartRequests) /\ CartRequests \subseteq Nat \ {0}
    /\ IsFiniteSet(CartOwners)
    /\ CartUsers \cap CartBrowsers = {}
    /\ {"none", "guest", "switching", "lost"} \cap CartOwners = {}
    /\ CartQuantities \subseteq 1..999

VARIABLES
    cartPk,        \* cartPk[o]: primary key of the cart row of o; 0: no row
    cartLastPk,    \* the highest primary key given out
    cartItem,      \* cartItem[o][v]: quantity of the item row; 0: no row
    cartAvailable, \* cartAvailable[v]: available_quantity of v
    cartOnSale,    \* the variants whose product is on sale
    cartLogin,     \* cartLogin[b]: whose session b is
    cartRequest,   \* cartRequest[r]: how far r has come
    cartLock,      \* cartLock[o]: the merge that holds the cart row of o; 0: none
    variantLock    \* variantLock[v]: the transaction that holds the row of v; 0: none

cartRows == <<cartPk, cartLastPk, cartItem>>
cartShelf == <<cartAvailable, cartOnSale>>
cartLocks == <<cartLock, variantLock>>
cartVars == <<cartRows, cartShelf, cartLogin, cartRequest, cartLocks>>

-----------------------------------------------------------------------------
CartKinds == {"add", "update", "remove", "login", "auto_login"}
CartPhases == {"new", "resolve", "lock_variant", "item", "save", "remove",
               "find", "lock_carts", "lock_items", "merge", "done", "failed"}

(* owner, pk: the cart of the context; from: the guest whose cart is       *)
(* merged, its pk, and the item rows the locking statement returned; seen: *)
(* the quantity of the item row that get_or_create returned.               *)
CartReq == [phase : CartPhases, kind : CartKinds \cup {"none"},
            owner : CartOwners \cup {"none"}, pk : Nat,
            browser : CartBrowsers \cup {"none"}, fromPk : Nat,
            rows : [CartVariants -> Nat], variant : CartVariants \cup {"none"},
            quantity : 0..999, available : Nat, seen : Nat]
CartNoRows == [v \in CartVariants |-> 0]
CartNew == [phase |-> "new", kind |-> "none", owner |-> "none", pk |-> 0,
            browser |-> "none", fromPk |-> 0, rows |-> CartNoRows, variant |-> "none",
            quantity |-> 0, available |-> 0, seen |-> 0]

CartAt(r, phase) == cartRequest[r].phase = phase
CartSet(r, req) == cartRequest' = [cartRequest EXCEPT ![r] = req]
CartGoto(r, phase) == cartRequest' = [cartRequest EXCEPT ![r].phase = phase]
CartEnded(r) == cartRequest[r].phase \in {"done", "failed"}

(* The end of a request with its transaction: what it worked on goes.      *)
CartAnswer(r, phase) == CartSet(r, [CartNew EXCEPT !.phase = phase])
CartFinish(r, phase) ==
    /\ CartAnswer(r, phase)
    /\ cartLock' = [o \in CartOwners |-> IF cartLock[o] = r THEN 0 ELSE cartLock[o]]
    /\ variantLock' = [v \in CartVariants |->
                         IF variantLock[v] = r THEN 0 ELSE variantLock[v]]

CartLeast(m, n) == IF m <= n THEN m ELSE n

-----------------------------------------------------------------------------
CartArrives(r) == CartAt(r, "new") /\ \A q \in CartRequests : q < r => ~CartAt(q, "new")

(* A request loads its session.  A guest's request that loaded it before   *)
(* the login keeps working for the guest.  The views of the cart.          *)
CartPost(r, b, kind, v, q) ==
    /\ CartArrives(r)
    /\ cartLogin[b] \in CartUsers \cup {"guest"}
    /\ CartSet(r, [CartNew EXCEPT !.phase = "resolve", !.kind = kind, !.variant = v,
                                  !.quantity = IF kind = "remove" THEN 0 ELSE q,
                                  !.owner = IF cartLogin[b] = "guest" THEN b
                                            ELSE cartLogin[b]])
    /\ UNCHANGED <<cartRows, cartShelf, cartLogin, cartLocks>>

CartAdd(r, b, v, q) == CartPost(r, b, "add", v, q)
CartUpdate(r, b, v, q) == CartPost(r, b, "update", v, q)
CartRemove(r, b, v) == CartPost(r, b, "remove", v, 0)

(* The login form keeps the guest's key for the merge; the automatic login *)
(* of an e-mail confirmation does not.  Both cycle the key, and with it    *)
(* the session row the browser's cookie names.                             *)
CartLogIn(r, b, u, kind) ==
    /\ CartArrives(r)
    /\ cartLogin[b] \in {"guest", "switching"}
    /\ CartSet(r, [CartNew EXCEPT !.phase = "resolve", !.kind = kind, !.owner = u,
                                  !.browser = b])
    /\ cartLogin' = [cartLogin EXCEPT ![b] = "switching"]
    /\ UNCHANGED <<cartRows, cartShelf, cartLocks>>

(* get_or_create of the cart row; the unique constraints leave one row.    *)
CartResolve(r) ==
    LET o == cartRequest[r].owner
        next == CASE cartRequest[r].kind \in {"add", "update"} -> "lock_variant"
                  [] cartRequest[r].kind = "remove" -> "remove"
                  [] OTHER -> "find" IN
    /\ CartAt(r, "resolve")
    /\ IF cartPk[o] = 0
       THEN /\ cartPk' = [cartPk EXCEPT ![o] = cartLastPk + 1]
            /\ cartLastPk' = cartLastPk + 1
       ELSE UNCHANGED <<cartPk, cartLastPk>>
    /\ CartSet(r, [cartRequest[r] EXCEPT !.phase = next, !.pk = cartPk'[o]])
    /\ UNCHANGED <<cartItem, cartShelf, cartLogin, cartLocks>>

-----------------------------------------------------------------------------
(* The cart row that a transaction works on is still there.                *)
CartRowLives(r) == cartPk[cartRequest[r].owner] = cartRequest[r].pk

(* Inserting an item takes a share lock on the cart row its key refers to. *)
CartInsertable(r) == cartLock[cartRequest[r].owner] \in {0, r}

(* _validate_variant_quantity.                                             *)
CartAllowed(r, quantity) ==
    /\ cartRequest[r].variant \in cartOnSale
    /\ quantity <= cartRequest[r].available

(* get_variant_for_update, then the check of the quantity asked for.       *)
(* Fault: the row is read without the lock.                                *)
CartReadVariant(r) ==
    LET v == cartRequest[r].variant
        fits == v \in cartOnSale /\ cartRequest[r].quantity <= cartAvailable[v] IN
    /\ CartAt(r, "lock_variant")
    /\ IF fits THEN CartSet(r, [cartRequest[r] EXCEPT !.phase = "item",
                                                     !.available = cartAvailable[v]])
       ELSE CartAnswer(r, "failed")
    /\ UNCHANGED <<cartRows, cartShelf, cartLogin, cartLocks>>
CartLockVariant(r) ==
    LET v == cartRequest[r].variant
        fits == v \in cartOnSale /\ cartRequest[r].quantity <= cartAvailable[v] IN
    /\ CartAt(r, "lock_variant")
    /\ variantLock[v] = 0
    /\ \/ /\ fits
          /\ CartSet(r, [cartRequest[r] EXCEPT !.phase = "item",
                                               !.available = cartAvailable[v]])
          /\ variantLock' = [variantLock EXCEPT ![v] = r]
       \/ ~fits /\ CartAnswer(r, "failed") /\ UNCHANGED variantLock
    /\ UNCHANGED <<cartRows, cartShelf, cartLogin, cartLock>>

CartPut(r, quantity) ==
    cartItem' = [cartItem EXCEPT ![cartRequest[r].owner][cartRequest[r].variant] = quantity]

(* get_or_create_cart_item finds the row: the quantity it read is added in *)
(* Python and checked again.                                               *)
(* Fault: the grown quantity is not checked.                               *)
CartUncheckedGrowth(r) ==
    LET q == cartItem[cartRequest[r].owner][cartRequest[r].variant] IN
    /\ CartAt(r, "item") /\ cartRequest[r].kind = "add"
    /\ CartRowLives(r) /\ q > 0
    /\ CartSet(r, [cartRequest[r] EXCEPT !.phase = "save", !.seen = q])
    /\ UNCHANGED <<cartRows, cartShelf, cartLogin, cartLocks>>
CartFindItem(r) ==
    LET q == cartItem[cartRequest[r].owner][cartRequest[r].variant] IN
    /\ CartAt(r, "item") /\ cartRequest[r].kind = "add"
    /\ CartRowLives(r) /\ q > 0
    /\ IF CartAllowed(r, q + cartRequest[r].quantity)
       THEN /\ CartSet(r, [cartRequest[r] EXCEPT !.phase = "save", !.seen = q])
            /\ UNCHANGED cartLocks
       ELSE CartFinish(r, "failed")
    /\ UNCHANGED <<cartRows, cartShelf, cartLogin>>

(* The row is missing: it is inserted, unless the cart has been deleted.   *)
CartInsertItem(r) ==
    /\ CartAt(r, "item")
    /\ ~CartRowLives(r) \/ cartItem[cartRequest[r].owner][cartRequest[r].variant] = 0
    /\ CartInsertable(r)
    /\ IF CartRowLives(r)
       THEN CartPut(r, cartRequest[r].quantity) /\ CartFinish(r, "done")
       ELSE UNCHANGED cartItem /\ CartFinish(r, "failed")
    /\ UNCHANGED <<cartPk, cartLastPk, cartShelf, cartLogin>>

(* A merge holds the item rows of the guest's cart it has read: an UPDATE  *)
(* and a DELETE wait for it, a plain read does not.                        *)
CartItemHeldBy(m, o, v) ==
    /\ cartRequest[m].phase \in {"lock_items", "merge"}
    /\ cartRequest[m].browser = o /\ cartRequest[m].rows[v] > 0
CartItemLocked(o, v) == \E m \in CartRequests : CartItemHeldBy(m, o, v)

(* update_or_create_cart_item overwrites the quantity under the row lock.  *)
CartUpdateItem(r) ==
    /\ CartAt(r, "item") /\ cartRequest[r].kind = "update"
    /\ CartRowLives(r) /\ cartItem[cartRequest[r].owner][cartRequest[r].variant] > 0
    /\ ~CartItemLocked(cartRequest[r].owner, cartRequest[r].variant)
    /\ CartPut(r, cartRequest[r].quantity)
    /\ CartFinish(r, "done")
    /\ UNCHANGED <<cartPk, cartLastPk, cartShelf, cartLogin>>

(* save() of an add: the row read before; a row removed meanwhile is       *)
(* inserted again with the whole sum, or refused with its cart gone.       *)
CartSaveItem(r) ==
    LET sum == cartRequest[r].seen + cartRequest[r].quantity
        there == CartRowLives(r) /\ cartItem[cartRequest[r].owner][cartRequest[r].variant] > 0
    IN
    /\ CartAt(r, "save")
    /\ IF there THEN ~CartItemLocked(cartRequest[r].owner, cartRequest[r].variant)
                ELSE CartInsertable(r)
    /\ IF CartRowLives(r)
       THEN CartPut(r, sum) /\ CartFinish(r, "done")
       ELSE UNCHANGED cartItem /\ CartFinish(r, "failed")
    /\ UNCHANGED <<cartPk, cartLastPk, cartShelf, cartLogin>>

(* remove_item: no lock on the variant.  The row it read is deleted by its *)
(* key; what another deletes in between counts as deleted here.            *)
CartRemoveItem(r) ==
    LET o == cartRequest[r].owner
        v == cartRequest[r].variant IN
    /\ CartAt(r, "remove")
    /\ ~CartItemLocked(o, v)
    /\ cartItem' = IF CartRowLives(r) THEN [cartItem EXCEPT ![o][v] = 0] ELSE cartItem
    /\ CartAnswer(r, "done")
    /\ UNCHANGED <<cartPk, cartLastPk, cartShelf, cartLogin, cartLocks>>

-----------------------------------------------------------------------------
(* The response of a login carries the cookie of the new session; the      *)
(* server error of a failed one does not, and the session that the old     *)
(* cookie names is gone.                                                   *)
CartLoginAnswered(r) ==
    cartLogin' = [cartLogin EXCEPT ![cartRequest[r].browser] = cartRequest[r].owner]
CartLoginBroken(r) ==
    cartLogin' = [cartLogin EXCEPT ![cartRequest[r].browser] =
                    IF @ \in CartUsers THEN @ ELSE "lost"]

(* merge_session_cart_into_user_cart looks for the guest's cart, unlocked; *)
(* without the guest's key there is none to find.                          *)
CartFindGuestCart(r) ==
    LET b == cartRequest[r].browser
        found == cartRequest[r].kind = "login" /\ cartPk[b] # 0 IN
    /\ CartAt(r, "find")
    /\ \/ /\ found
          /\ CartSet(r, [cartRequest[r] EXCEPT !.phase = "lock_carts", !.fromPk = cartPk[b]])
          /\ UNCHANGED cartLogin
       \/ ~found /\ CartAnswer(r, "done") /\ CartLoginAnswered(r)
    /\ UNCHANGED <<cartRows, cartShelf, cartLocks>>

(* The carts the merge still has to lock, of the two that still exist, in  *)
(* the order of their keys.                                                *)
CartsToLock(r) ==
    {o \in {cartRequest[r].owner, cartRequest[r].browser} \ {"none"} :
        /\ cartLock[o] # r
        /\ cartPk[o] = IF o = cartRequest[r].owner THEN cartRequest[r].pk
                       ELSE cartRequest[r].fromPk}

(* Fault: the rows are locked in the order the plan returns them.          *)
CartAnyToLock(r) == CartsToLock(r)
CartNextToLock(r) ==
    {o \in CartsToLock(r) : \A p \in CartsToLock(r) : cartPk[o] <= cartPk[p]}

CartLockCart(r) ==
    /\ CartAt(r, "lock_carts")
    /\ \E o \in CartNextToLock(r) :
         /\ cartLock[o] = 0
         /\ cartLock' = [cartLock EXCEPT ![o] = r]
    /\ UNCHANGED <<cartRows, cartShelf, cartLogin, cartRequest, variantLock>>

(* One of the two is gone: another request has merged it.                  *)
CartMergedAlready(r) ==
    /\ CartAt(r, "lock_carts") /\ CartsToLock(r) = {}
    /\ cartPk[cartRequest[r].browser] # cartRequest[r].fromPk
    /\ CartFinish(r, "done")
    /\ CartLoginAnswered(r)
    /\ UNCHANGED <<cartRows, cartShelf>>

CartBothLocked(r) ==
    /\ CartAt(r, "lock_carts") /\ CartsToLock(r) = {}
    /\ cartPk[cartRequest[r].browser] = cartRequest[r].fromPk
    /\ CartGoto(r, "lock_items")
    /\ UNCHANGED <<cartRows, cartShelf, cartLogin, cartLocks>>

(* The rows of the guest's cart are locked one after the other, in the     *)
(* order of the cart (left open here): of each, the item first, and then   *)
(* the variant it is joined with.                                          *)
CartItemsToLock(r) ==
    {v \in CartVariants : cartRequest[r].rows[v] = 0 /\ cartItem[cartRequest[r].browser][v] > 0}

CartJoinedToLock(r) ==
    {v \in CartVariants : cartRequest[r].rows[v] > 0 /\ variantLock[v] # r}

CartLockItem(r, v) ==
    /\ CartAt(r, "lock_items")
    /\ CartJoinedToLock(r) = {} /\ v \in CartItemsToLock(r)
    /\ CartSet(r, [cartRequest[r] EXCEPT !.rows[v] = cartItem[cartRequest[r].browser][v]])
    /\ UNCHANGED <<cartRows, cartShelf, cartLogin, cartLocks>>

CartLockJoined(r, v) ==
    /\ CartAt(r, "lock_items")
    /\ v \in CartJoinedToLock(r) /\ variantLock[v] = 0
    /\ variantLock' = [variantLock EXCEPT ![v] = r]
    /\ UNCHANGED <<cartRows, cartShelf, cartLogin, cartRequest, cartLock>>

CartItemsLocked(r) ==
    /\ CartAt(r, "lock_items") /\ CartItemsToLock(r) = {} /\ CartJoinedToLock(r) = {}
    /\ CartGoto(r, "merge")
    /\ UNCHANGED <<cartRows, cartShelf, cartLogin, cartLocks>>

(* What the account's item becomes: a variant that is sold out is skipped, *)
(* and the sum is cut to what is available, the account's own part too.    *)
CartMerged(r, v) ==
    LET own == cartItem[cartRequest[r].owner][v] IN
    IF cartRequest[r].rows[v] = 0 \/ cartAvailable[v] < 1 THEN own
    ELSE CartLeast(own + cartRequest[r].rows[v], cartAvailable[v])

(* The items are applied, the guest's cart is deleted with its items.      *)
(* Fault: the guest's cart is emptied by a later clean-up.                 *)
CartMergeKeepsGuest(r) ==
    LET o == cartRequest[r].owner IN
    /\ CartAt(r, "merge")
    /\ cartItem' = [cartItem EXCEPT ![o] = [v \in CartVariants |-> CartMerged(r, v)]]
    /\ CartFinish(r, "done") /\ CartLoginAnswered(r)
    /\ UNCHANGED <<cartPk, cartLastPk, cartShelf>>
CartMerge(r) ==
    LET o == cartRequest[r].owner
        b == cartRequest[r].browser IN
    /\ CartAt(r, "merge")
    /\ cartItem' = [cartItem EXCEPT ![o] = [v \in CartVariants |-> CartMerged(r, v)],
                                    ![b] = CartNoRows]
    /\ cartPk' = [cartPk EXCEPT ![b] = 0]
    /\ CartFinish(r, "done") /\ CartLoginAnswered(r)
    /\ UNCHANGED <<cartLastPk, cartShelf>>

-----------------------------------------------------------------------------
(* r can go on only once q ends.                                           *)
CartWaitsFor(r, q) ==
    LET req == cartRequest[r] IN
    /\ q # r
    /\ \/ req.phase = "lock_variant" /\ variantLock[req.variant] = q
       \/ req.phase \in {"item", "save"} /\ CartRowLives(r)
          /\ cartItem[req.owner][req.variant] = 0 /\ cartLock[req.owner] = q
       \/ /\ req.phase \in {"save", "remove"} \/ (req.phase = "item" /\ req.kind = "update")
          /\ CartRowLives(r) /\ cartItem[req.owner][req.variant] > 0
          /\ CartItemHeldBy(q, req.owner, req.variant)
       \/ req.phase = "lock_carts" /\ \E o \in CartNextToLock(r) : cartLock[o] = q
       \/ req.phase = "lock_items" /\ \E v \in CartJoinedToLock(r) : variantLock[v] = q

(* r is on a cycle of waiting transactions.                                *)
CartDeadlocked(r) ==
    \A S \in SUBSET CartRequests :
        (/\ \A q \in CartRequests : CartWaitsFor(r, q) => q \in S
         /\ \A p \in S, q \in CartRequests : CartWaitsFor(p, q) => q \in S)
        => r \in S

(* PostgreSQL aborts a transaction of a cycle: CartOperationError.  A view *)
(* of the cart answers it; a login answers with a server error.            *)
CartVictim(r) ==
    /\ CartDeadlocked(r)
    /\ CartFinish(r, "failed")
    /\ IF cartRequest[r].browser = "none" THEN UNCHANGED cartLogin ELSE CartLoginBroken(r)
    /\ UNCHANGED <<cartRows, cartShelf>>

(* Orders and the warehouse change a variant under its lock.               *)
CartShelfMoves(v) ==
    /\ variantLock[v] = 0
    /\ \/ /\ cartAvailable[v] > 0
          /\ cartAvailable' = [cartAvailable EXCEPT ![v] = @ - 1]
          /\ UNCHANGED cartOnSale
       \/ /\ v \in cartOnSale
          /\ cartOnSale' = cartOnSale \ {v}
          /\ UNCHANGED cartAvailable
    /\ UNCHANGED <<cartRows, cartLogin, cartRequest, cartLocks>>

-----------------------------------------------------------------------------
(* Carts and stock as earlier requests may have left them.                 *)
CartInit ==
    /\ cartItem \in [CartOwners -> [CartVariants -> 0..1]]
    /\ cartPk \in [CartOwners -> 0..Cardinality(CartOwners)]
    /\ \A o, p \in CartOwners : o # p /\ cartPk[o] = cartPk[p] => cartPk[o] = 0
    /\ \A o \in CartOwners : cartPk[o] = 0 => cartItem[o] = CartNoRows
    /\ cartLastPk = Cardinality(CartOwners)
    /\ cartAvailable \in [CartVariants -> 1..2]
    /\ cartOnSale = CartVariants
    /\ cartLogin \in [CartBrowsers -> {"guest"} \cup CartUsers]
    /\ \A b \in CartBrowsers : cartLogin[b] # "guest" => cartPk[b] = 0
    /\ cartRequest = [r \in CartRequests |-> CartNew]
    /\ cartLock = [o \in CartOwners |-> 0]
    /\ variantLock = [v \in CartVariants |-> 0]

CartStep(r) ==
    \/ CartResolve(r) \/ CartLockVariant(r) \/ CartFindItem(r) \/ CartInsertItem(r)
    \/ CartUpdateItem(r) \/ CartSaveItem(r) \/ CartRemoveItem(r)
    \/ CartFindGuestCart(r) \/ CartLockCart(r) \/ CartMergedAlready(r)
    \/ CartBothLocked(r) \/ (\E v \in CartVariants : CartLockItem(r, v) \/ CartLockJoined(r, v))
    \/ CartItemsLocked(r) \/ CartMerge(r) \/ CartVictim(r)

CartNext ==
    \/ \E r \in CartRequests, b \in CartBrowsers, v \in CartVariants :
          \/ \E q \in CartQuantities : CartAdd(r, b, v, q) \/ CartUpdate(r, b, v, q)
          \/ CartRemove(r, b, v)
    \/ \E r \in CartRequests, b \in CartBrowsers, u \in CartUsers :
          CartLogIn(r, b, u, "login") \/ CartLogIn(r, b, u, "auto_login")
    \/ \E r \in CartRequests : CartStep(r)
    \/ \E v \in CartVariants : CartShelfMoves(v)

CartSpec == CartInit /\ [][CartNext]_cartVars

-----------------------------------------------------------------------------
CartTypeOK ==
    /\ cartPk \in [CartOwners -> Nat] /\ cartLastPk \in Nat
    /\ cartItem \in [CartOwners -> [CartVariants -> Nat]]
    /\ cartAvailable \in [CartVariants -> Nat] /\ cartOnSale \subseteq CartVariants
    /\ cartLogin \in [CartBrowsers -> CartUsers \cup {"guest", "switching", "lost"}]
    /\ cartRequest \in [CartRequests -> CartReq]
    /\ cartLock \in [CartOwners -> CartRequests \cup {0}]
    /\ variantLock \in [CartVariants -> CartRequests \cup {0}]

(* A quantity grows only up to what is available at that moment, although  *)
(* the form, the check and the write are separate steps and other requests *)
(* grow the same row in between.                                           *)
CartGrowthIsCovered ==
    [][\A o \in CartOwners, v \in CartVariants :
         cartItem'[o][v] > cartItem[o][v] => cartItem'[o][v] <= cartAvailable[v]]_cartVars

(* No add is lost: the item row that an add commits is the row as it is at *)
(* that moment, grown by what was asked for, unless a removal came between *)
(* its read and its write.                                                 *)
CartNoAddLost ==
    [][\A r \in CartRequests :
         LET o == cartRequest[r].owner
             v == cartRequest[r].variant IN
         (cartRequest[r].kind = "add" /\ ~CartEnded(r) /\ CartEnded(r)' /\
          cartRequest'[r].phase = "done" /\ cartItem[o][v] > 0)
         => cartItem'[o][v] = cartItem[o][v] + cartRequest[r].quantity]_cartVars

(* Merging makes no units: no step of a login, be it the first of several  *)
(* that merge the same guest's cart, a later one, or the victim of a       *)
(* deadlock, leaves its account and the guest with more of a variant than  *)
(* the two had before.                                                     *)
CartLoginsAddNothing ==
    [][\A r \in CartRequests :
         LET u == cartRequest[r].owner
             b == cartRequest[r].browser IN
         b # "none" /\ cartRequest'[r] # cartRequest[r]
         => \A v \in CartVariants :
               cartItem'[u][v] + cartItem'[b][v] <= cartItem[u][v] + cartItem[b][v]]_cartVars

(* Logins into one account never wait for each other in a cycle: the carts *)
(* are locked in the order of their keys, the account's before any item.   *)
CartMergesOf(u) == {r \in CartRequests : cartRequest[r].owner = u /\ cartRequest[r].browser # "none"}
CartMergesNeverDeadlock ==
    \A u \in CartUsers : \A S \in (SUBSET CartMergesOf(u)) \ {{}} :
        \E r \in S : \A q \in S : ~CartWaitsFor(r, q)
===============================================================================
