---------------------------- MODULE ServicesProofs ----------------------------
(***************************************************************************)
(* The services beside orders and stock as the run "services" composes     *)
(* them: one of them moves in a behaviour, from the states it begins with  *)
(* there, the others stay.                                                 *)
(***************************************************************************)
EXTENDS MCServices, MailServicesProofs, ShopServicesProofs

(* The two services that do not begin with their Init.                     *)
LEMMA AcctStartHolds == AcctStart => AcctIInv
  <1> SUFFICES ASSUME AcctStart  PROVE AcctIInv
    OBVIOUS
  <1> DEFINE row == [email |-> e1, confirmed |-> FALSE, token |-> 1, sent |-> 1]
             mail == [user |-> 1, state |-> "sent"]
             done == [AcctNew EXCEPT !.phase = "done"]
  <1>0. e1 \in AcctEmails /\ 1 \in AcctIds /\ 1 \in AcctRequests
    BY ServicesAssumption
  <1>1. /\ acct = [i \in AcctIds |-> IF i = 1 THEN row ELSE AcctNoRow]
        /\ acctLastId = 1 /\ acctOrdered = {}
        /\ acctMail = [r \in AcctRequests |-> IF r = 1 THEN mail ELSE AcctNoMail]
        /\ acctExpired = {} /\ acctCooled = {}
        /\ acctRequest = [r \in AcctRequests |-> IF r = 1 THEN done ELSE AcctNew]
        /\ acctUsed = {}
    BY DEF AcctStart
  <1>2. /\ AcctNoRow \in AcctRow /\ row \in AcctRow
        /\ AcctNoMail \in AcctMails /\ mail \in AcctMails
    BY <1>0, AcctMakesRow DEF AcctRow, AcctStamps, AcctMails, AcctNoMail
  <1>3. done = [phase |-> "done", id |-> 0, row |-> AcctNoRow, token |-> 0]
    BY DEF AcctNew
  <1>4. AcctNew \in AcctReq /\ done \in AcctReq
    BY <1>2, <1>3 DEF AcctNew, AcctReq, AcctPhases, AcctStamps
  <1>5. AcctTypeOK
    BY <1>0, <1>1, <1>2, <1>4 DEF AcctTypeOK
  <1>6. \A r \in AcctRequests : /\ acctRequest[r].phase \in {"new", "done"}
                                /\ acctRequest[r].id = 0 /\ acctRequest[r].row = AcctNoRow
    BY <1>1, <1>3 DEF AcctNew
  <1>7. \A r \in AcctRequests : AcctMailed(r) <=> r = 1
    BY <1>1 DEF AcctMailed, AcctNoMail
  <1>8. \A i : AcctRowOK(AcctNoRow, i)
    BY DEF AcctRowOK, AcctNoRow
  <1>9. AcctRowsOK
    <2>1. AcctRowOK(row, 1)
      <3>1. AcctTokenOf(1, 1)
        <4>1. acctRequest[1].phase = "done"
          BY <1>0, <1>1, <1>3
        <4>2. acctMail[1].user = 1
          BY <1>0, <1>1
        <4>3. QED
          BY <1>0, <4>1, <4>2 DEF AcctTokenOf
      <3>2. row.token = 1 /\ ~row.confirmed
        OBVIOUS
      <3> HIDE DEF row
      <3>3. QED
        BY <1>0, <1>1, <1>7, <3>1, <3>2 DEF AcctRowOK
    <2>2. \A i \in AcctIds : acct[i] = IF i = 1 THEN row ELSE AcctNoRow
      BY <1>1
    <2>3. \A i \in AcctIds : AcctExists(i) => i = 1
      BY <2>2 DEF AcctExists, AcctNoRow
    <2> HIDE DEF row
    <2>4. QED
      BY <1>1, <1>8, <2>1, <2>2, <2>3 DEF AcctRowsOK
  <1>10. \A r \in AcctRequests : AcctRequestOK(r)
    BY <1>1, <1>6, <1>7, <1>8 DEF AcctRequestOK
  <1>11. QED
    BY <1>1, <1>5, <1>9, <1>10 DEF AcctIInv, AcctLinksUsed

LEMMA GuestStartHolds == GuestStart => GuestIInv
  <1> SUFFICES ASSUME GuestStart  PROVE GuestIInv
    OBVIOUS
  <1>1. PICK mails \in BOOLEAN :
          /\ guestOwner = "guest" /\ guestLegacy \in {0, 1}
          /\ guestToken = [t \in GuestTokens |-> IF t = guestLegacy THEN "active" ELSE "none"]
          /\ guestExpired = {}
          /\ guestNotice = [status |-> "none", built |-> FALSE, link |-> 0]
          /\ guestJob = [j \in GuestJobs |->
               [GuestIdle EXCEPT !.step = IF mails THEN "idle" ELSE "done"]]
          /\ guestRequest = [r \in GuestRequests |->
               [GuestNewReq EXCEPT !.step = IF mails THEN "done" ELSE "new"]]
          /\ guestMailed = {} /\ guestRotated = {}
          /\ guestRebuilt = 0 /\ guestCrashed = 0
    BY DEF GuestStart
  <1> DEFINE idle == [GuestIdle EXCEPT !.step = IF mails THEN "idle" ELSE "done"]
             req == [GuestNewReq EXCEPT !.step = IF mails THEN "done" ELSE "new"]
  <1>2. GuestTypeOK
    <2>1. guestNotice \in GuestNotices
      BY <1>1 DEF GuestNotices, GuestLinkOrNone
    <2>2. idle \in GuestJob /\ req \in GuestReq
      BY DEF GuestIdle, GuestJob, GuestJobSteps, GuestLinkOrNone, GuestNewReq, GuestReq,
             GuestRequestSteps
    <2>3. 1 \in GuestTokens
      BY ServicesAssumption, GuestAssumption DEF GuestTokens
    <2> HIDE DEF idle, req
    <2>4. guestJob = [j \in GuestJobs |-> idle] /\ guestRequest = [r \in GuestRequests |-> req]
      BY <1>1 DEF idle, req
    <2>5. QED
      BY <1>1, <2>1, <2>2, <2>3, <2>4, GuestAssumption DEF GuestTypeOK, GuestLinkOrNone
  <1>3. \A j \in GuestJobs : guestJob[j].link = 0 /\ guestJob[j].step \in {"idle", "done"}
    BY <1>1 DEF GuestIdle
  <1>4. GuestTokensFine /\ GuestLinksFine
    BY <1>1, <1>2, <1>3 DEF GuestTokensFine, GuestLinksFine, GuestTypeOK
  <1>5. GuestLinksStored = {}
    BY <1>1, <1>3, GuestNumbers DEF GuestLinksStored, GuestJobAt
  <1>6. Cardinality(GuestLinksStored) = 0
    BY <1>5, FS_EmptySet
  <1>7. QED
    BY <1>1, <1>2, <1>4, <1>6 DEF GuestIInv, GuestBuilds

-----------------------------------------------------------------------------
(* One service moves: to every other one the step is a stutter.            *)
LEMMA OneServiceMoves ==
    ASSUME [ServicesNext]_vars
    PROVE  /\ [CartNext]_cartVars /\ [AcctNext]_acctVars /\ [GuestNext]_guestVars
           /\ [SupNext]_supVars /\ [ThumbNext]_thumbVars /\ [BackNext]_backVars
           /\ [PayNext]_payVars /\ [PickNext]_pickVars
  BY DEF ServicesNext, vars, otherVars

(* So each service behaves in the run as its own specification says, from  *)
(* the states the run begins with.                                         *)
LEMMA EachServiceRuns ==
    ServicesSpec => /\ CartSpec /\ SupSpec /\ ThumbSpec /\ BackSpec /\ PaySpec /\ PickSpec
                    /\ AcctStart /\ [][AcctNext]_acctVars
                    /\ GuestStart /\ [][GuestNext]_guestVars
  <1>1. ServicesInit => /\ CartInit /\ SupInit /\ ThumbInit /\ BackInit /\ PayInit /\ PickInit
                        /\ AcctStart /\ GuestStart
    BY DEF ServicesInit, CartStart, BackBegin
  <1>2. [ServicesNext]_vars =>
          /\ [CartNext]_cartVars /\ [AcctNext]_acctVars /\ [GuestNext]_guestVars
          /\ [SupNext]_supVars /\ [ThumbNext]_thumbVars /\ [BackNext]_backVars
          /\ [PayNext]_payVars /\ [PickNext]_pickVars
    BY OneServiceMoves
  <1>3. QED
    BY <1>1, <1>2, PTL DEF ServicesSpec, CartSpec, SupSpec, ThumbSpec, BackSpec, PaySpec, PickSpec

(* ServicesSpec implements the six specifications it begins like; accounts *)
(* and guest links keep their invariants from the states it begins with.   *)
THEOREM ServicesInvariant ==
    ServicesSpec => [](AcctIInv /\ GuestIInv /\ CartIInv /\ SupIInv /\ ThumbIInv /\ BackIInv
                       /\ PayIInv /\ PickIInv)
  <1>1. ServicesSpec => []AcctIInv
    BY EachServiceRuns, AcctStartHolds, AcctNextKeeps, PTL
  <1>2. ServicesSpec => []GuestIInv
    BY EachServiceRuns, GuestStartHolds, GuestStepKeeps, PTL
  <1>3. QED
    BY <1>1, <1>2, EachServiceRuns, CartsInvariant, SupportInvariant, ThumbnailsInvariant,
       BackfillInvariant, PaymentsInvariant, CalendarInvariant, PTL

(* Every row, request, job and lock of the services is of its kind.        *)
THEOREM ServicesTypes == ServicesSpec => []ServicesTypeOK
  <1>1. /\ AcctIInv /\ GuestIInv /\ CartIInv /\ SupIInv /\ ThumbIInv /\ BackIInv /\ PayIInv
        /\ PickIInv
        => ServicesTypeOK
    BY DEF ServicesTypeOK, AcctIInv, GuestIInv, CartIInv, SupIInv, ThumbIInv, BackIInv, PayIInv,
           PickIInv
  <1>2. QED
    BY <1>1, ServicesInvariant, PTL

(* Whatever CartMergeService, the account views, the mail tasks, the       *)
(* thumbnail tasks and the auto-cancel sweep do in the run: merges do not  *)
(* deadlock, guest orders need a followed link, live links were mailed and *)
(* mailed links work, outcomes are told, pictures are their image's, and   *)
(* the sweep keeps to the business days.                                   *)
THEOREM ServicesSafe ==
    ServicesSpec => [](/\ CartMergesNeverDeadlock /\ AcctGuestOrdersNeedLink /\ AcctLiveLinkWasMailed
                       /\ GuestMailedLinkWorks /\ GuestOneLinkPerNotice /\ SupportOutcomeTold
                       /\ ThumbShowsItsImage /\ PickSweepIsExact)
  <1>1. AcctIInv => AcctGuestOrdersNeedLink /\ AcctLiveLinkWasMailed
    BY DEF AcctIInv, AcctRowsOK, AcctRowOK, AcctLinksUsed, AcctLink, AcctMailed,
           AcctGuestOrdersNeedLink, AcctSeesGuestOrders, AcctLiveLinkWasMailed
  <1>2. GuestIInv => GuestMailedLinkWorks /\ GuestOneLinkPerNotice
    BY GuestFewLinks DEF GuestIInv, GuestLinksFine, GuestAlive, GuestMailedLinkWorks
  <1>3. QED
    BY <1>1, <1>2, ServicesInvariant, EachServiceRuns, MergesNeverDeadlock, OutcomeIsTold,
       PicturesAreTheirOwn, SweepsAreExact, PTL

(* And whatever step they take: a cart grows by what was asked for and no  *)
(* addition is lost, logins add nothing, only stale profile edits take a   *)
(* confirmation back, a rotation shuts out, the backfill makes             *)
(* reservations exact, and a cancelled order goes on to say "cancelled".   *)
THEOREM ServicesStepsSafe ==
    ServicesSpec => /\ CartGrowthIsCovered /\ CartNoAddLost /\ CartLoginsAddNothing
                    /\ AcctOnlyStaleEditsGoBack /\ GuestRotationShutsOut
                    /\ BackfillMakesExact /\ PayCancelledStays
  <1>1. ServicesSpec => []AcctIInv /\ []GuestIInv
    BY ServicesInvariant, PTL
  <1>2. QED
    BY <1>1, EachServiceRuns, GrowthIsCovered, NoAddIsLost, LoginsAddNothing, AcctStepsGoBack,
       GuestStepsShutOut, BackfillIsExact, CancelledStaysCancelled
===============================================================================
