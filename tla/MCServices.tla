------------------------------ MODULE MCServices ------------------------------
(***************************************************************************)
(* Instances of the services that stand beside orders and stock, for TLC.  *)
(* They share no row and no lock, so their interleavings show nothing: one *)
(* of them moves in each behaviour, the others stay as they begin.         *)
(***************************************************************************)
EXTENDS Carts, Accounts, GuestLinks, Support, Thumbnails, Backfill, PaymentSync,
        PickupCalendar, TLC

CONSTANTS u1, b1, b2, v1, e1, j1, j2, p1, k1, k2, cupPng, cupJpg, hatPng, i1, i2,
          f1, f2, o1, o2, c1, c2

(* What the states below begin with: the account that has registered is    *)
(* user 1 by request 1, and the link of an old order is token 1.           *)
ASSUME ServicesAssumption ==
    /\ e1 \in AcctEmails /\ 1 \in AcctIds /\ 1 \in AcctRequests
    /\ GuestTokenMax > 0

VARIABLE part   \* the service that moves

MCRetentions == {-1, 0, 3, 6}
MCStem == [i \in {cupPng, cupJpg, hatPng} |-> IF i = hatPng THEN "hat" ELSE "cup"]

otherVars == <<acctVars, guestVars, supVars, thumbVars, backVars, payVars, pickVars>>
vars == <<part, cartVars, otherVars>>

-----------------------------------------------------------------------------
(* A guest with an item, a second browser that is logged in or has a       *)
(* guest's cart with the same item, and an account that has a cart of its  *)
(* own or none.                                                            *)
CartStart ==
    /\ CartInit
    /\ cartItem[b1][v1] = 1 /\ cartAvailable[v1] = 2
    /\ \E k \in {0, 1} :
         \/ /\ cartPk = (u1 :> k @@ b1 :> 2 @@ b2 :> 0)
            /\ cartLogin = (b1 :> "guest" @@ b2 :> u1)
         \/ /\ cartPk = (u1 :> k @@ b1 :> 2 @@ b2 :> 3) /\ cartItem[b2][v1] = 1
            /\ cartLogin = (b1 :> "guest" @@ b2 :> "guest")

(* An account that has registered and got its first mail.                  *)
AcctStart ==
    /\ acct = [i \in AcctIds |-> IF i = 1
                THEN [email |-> e1, confirmed |-> FALSE, token |-> 1, sent |-> 1]
                ELSE AcctNoRow]
    /\ acctLastId = 1 /\ acctOrdered = {}
    /\ acctMail = [r \in AcctRequests |-> IF r = 1 THEN [user |-> 1, state |-> "sent"]
                                          ELSE AcctNoMail]
    /\ acctExpired = {} /\ acctCooled = {}
    /\ acctRequest = [r \in AcctRequests |-> IF r = 1 THEN [AcctNew EXCEPT !.phase = "done"]
                                             ELSE AcctNew]
    /\ acctUsed = {}

(* Mails or pages move, not both: they share only the tokens, which the    *)
(* steps of the service, the owner and the clock change in both.           *)
GuestStart ==
    \E mails \in BOOLEAN :
        /\ guestOwner = "guest" /\ guestLegacy \in {0, 1}
        /\ guestToken = [t \in GuestTokens |-> IF t = guestLegacy THEN "active" ELSE "none"]
        /\ guestExpired = {}
        /\ guestNotice = [status |-> "none", built |-> FALSE, link |-> 0]
        /\ guestJob = [j \in GuestJobs |->
             [GuestIdle EXCEPT !.step = IF mails THEN "idle" ELSE "done"]]
        /\ guestRequest = [r \in GuestRequests |->
             [GuestNewReq EXCEPT !.step = IF mails THEN "done" ELSE "new"]]
        /\ guestMailed = {} /\ guestRotated = {}
        /\ guestRebuilt = 0 /\ guestCrashed = 0

(* Two orders that want the two variants in different amounts.             *)
BackBegin ==
    /\ backLines = (o1 :> [w \in BackVariants |-> IF w = 1 THEN 2 ELSE 1]
                    @@ o2 :> [w \in BackVariants |-> IF w = 2 THEN 2 ELSE 0])
    /\ BackInit

-----------------------------------------------------------------------------
ServicesInit ==
    /\ part \in {"carts", "accounts", "links", "support", "thumbnails", "backfill",
                "payments", "pickup"}
    /\ CartStart /\ (part # "carts" => cartPk[u1] = 0 /\ cartPk[b2] = 0)
    /\ AcctStart /\ SupInit
    /\ GuestStart /\ (part # "links" => guestLegacy = 0 /\ guestJob = [j \in GuestJobs |-> GuestIdle])
    /\ ThumbInit /\ (part # "thumbnails" => thumbRow.image = cupPng)
    /\ BackBegin /\ (part # "backfill" => backMode /\ \A w \in BackVariants : backShelf[w] = 0)
    /\ PayInit /\ (part # "payments" => payOrder.cancelled /\ payRow[1].there)
    /\ PickInit /\ (part # "pickup" => pickRetention = 3)

ServicesNext ==
    /\ UNCHANGED part
    /\ \/ part = "carts" /\ CartNext /\ UNCHANGED otherVars
       \/ part = "accounts" /\ AcctNext
          /\ UNCHANGED <<cartVars, guestVars, supVars, thumbVars, backVars, payVars, pickVars>>
       \/ part = "links" /\ GuestNext
          /\ UNCHANGED <<cartVars, acctVars, supVars, thumbVars, backVars, payVars, pickVars>>
       \/ part = "support" /\ SupNext
          /\ UNCHANGED <<cartVars, acctVars, guestVars, thumbVars, backVars, payVars, pickVars>>
       \/ part = "thumbnails" /\ ThumbNext
          /\ UNCHANGED <<cartVars, acctVars, guestVars, supVars, backVars, payVars, pickVars>>
       \/ part = "backfill" /\ BackNext
          /\ UNCHANGED <<cartVars, acctVars, guestVars, supVars, thumbVars, payVars, pickVars>>
       \/ part = "payments" /\ PayNext
          /\ UNCHANGED <<cartVars, acctVars, guestVars, supVars, thumbVars, backVars, pickVars>>
       \/ part = "pickup" /\ PickNext
          /\ UNCHANGED <<cartVars, acctVars, guestVars, supVars, thumbVars, backVars, payVars>>

ServicesSpec == ServicesInit /\ [][ServicesNext]_vars

(* Every row, request, job and lock is of the kind its service says; for   *)
(* the backfill this says that no variant has more units reserved than     *)
(* there are, and for support requests that no task retries too often.     *)
ServicesTypeOK ==
    /\ CartTypeOK /\ AcctTypeOK /\ GuestTypeOK
    /\ SupTypeOK /\ ThumbTypeOK /\ BackTypeOK /\ PayTypeOK /\ PickTypeOK
===============================================================================
