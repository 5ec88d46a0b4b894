------------------------------- MODULE Accounts --------------------------------
(***************************************************************************)
(* Accounts and the confirmation of their e-mail address: registration,    *)
(* EmailConfirmationService, the link of the mail, the resend from the     *)
(* profile, the edit and the deletion of a profile, and the mail tasks     *)
(* behind them.  Only the registration runs in a transaction; every other  *)
(* view reads the row once and writes what it decided later, without a     *)
(* lock, so each view is a request of several steps here.                  *)
(*                                                                         *)
(* Requests are numbered in the order they arrive.  A request draws at     *)
(* most one token and stamps at most one time: both carry its number, and  *)
(* 0 is no token and no time.                                              *)
(***************************************************************************)
EXTENDS Naturals, FiniteSets

CONSTANTS
    AcctEmails,    \* e-mail addresses
    AcctIds,       \* primary keys of users.User, in the order of insertion
    AcctRequests   \* HTTP requests

ASSUME AcctAssumption ==
    /\ AcctIds \subseteq Nat \ {0}
    /\ AcctRequests \subseteq Nat \ {0}
    /\ "none" \notin AcctEmails

VARIABLES
    acct,         \* acct[i]: the row of user i
    acctLastId,   \* the last primary key given out
    acctOrdered,  \* the users that Order.user refers to
    acctMail,     \* acctMail[r]: the mail that request r enqueued
    acctExpired,  \* tokens older than EMAIL_CONFIRMATION_TOKEN_TTL_HOURS
    acctCooled,   \* sending times older than resend_cooldown_seconds
    acctRequest,  \* acctRequest[r]: how far r has come
    acctUsed      \* history: <<token, user>> of every link that confirmed

acctClock == <<acctExpired, acctCooled>>
acctVars == <<acct, acctLastId, acctOrdered, acctMail, acctClock, acctRequest, acctUsed>>

-----------------------------------------------------------------------------
AcctStamps == AcctRequests \cup {0}
(* The columns that matter: email_token comes with email_token_created_at. *)
AcctRow == [email : AcctEmails \cup {"none"}, confirmed : BOOLEAN,
            token : AcctStamps, sent : AcctStamps]
AcctNoRow == [email |-> "none", confirmed |-> FALSE, token |-> 0, sent |-> 0]
(* A mail and the user it was written for.                                 *)
AcctMails == [user : AcctIds \cup {0}, state : {"none", "queued", "sent", "lost"}]
AcctNoMail == [user |-> 0, state |-> "none"]
AcctQueue(r) == acctMail' = [acctMail EXCEPT ![r] = [user |-> acctRequest[r].id, state |-> "queued"]]

AcctPhases == {"new", "insert", "dispatch", "stamp", "enqueue", "save_token",
               "save_profile", "delete", "expire", "confirm", "welcome", "done"}
AcctReq == [phase : AcctPhases, id : AcctIds \cup {0}, row : AcctRow, token : AcctStamps]
AcctNew == [phase |-> "new", id |-> 0, row |-> AcctNoRow, token |-> 0]

AcctExists(i) == acct[i].email # "none"
AcctTaken(e) == \E i \in AcctIds : acct[i].email = e
AcctAt(r, phase) == acctRequest[r].phase = phase
AcctGoto(r, phase) == acctRequest' = [acctRequest EXCEPT ![r].phase = phase]
AcctDone(r) == acctRequest' = [acctRequest EXCEPT ![r] = [AcctNew EXCEPT !.phase = "done"]]
AcctArrives(r) == AcctAt(r, "new") /\ \A q \in AcctRequests : q < r => ~AcctAt(q, "new")

(* A request of user i loads request.user once.                            *)
AcctLoads(r, i, phase) ==
    acctRequest' = [acctRequest EXCEPT ![r] = [AcctNew EXCEPT !.phase = phase, !.id = i,
                                                              !.row = acct[i]]]

-----------------------------------------------------------------------------
(* Registration: the form looks for the address first.                     *)
AcctRegister(r, e) ==
    /\ AcctArrives(r)
    /\ \/ /\ ~AcctTaken(e)
          /\ acctRequest' = [acctRequest EXCEPT
               ![r] = [AcctNew EXCEPT !.phase = "insert", !.row.email = e]]
       \/ AcctTaken(e) /\ AcctDone(r)
    /\ UNCHANGED <<acct, acctLastId, acctOrdered, acctMail, acctClock, acctUsed>>

(* The transaction: the row with its token; the unique column refuses the  *)
(* second row of an address (a server error).                              *)
AcctInsert(r) ==
    LET e == acctRequest[r].row.email
        i == acctLastId + 1 IN
    /\ AcctAt(r, "insert")
    /\ \/ /\ AcctTaken(e) /\ AcctDone(r)
          /\ UNCHANGED <<acct, acctLastId>>
       \/ /\ ~AcctTaken(e) /\ i \in AcctIds
          /\ acct' = [acct EXCEPT ![i] = [AcctNoRow EXCEPT !.email = e, !.token = r]]
          /\ acctLastId' = i
          /\ acctRequest' = [acctRequest EXCEPT ![r].phase = "dispatch", ![r].id = i]
    /\ UNCHANGED <<acctOrdered, acctMail, acctClock, acctUsed>>

(* on_commit: the broker takes the task, and the request hears of it or    *)
(* gets an error all the same, or refuses it.                              *)
AcctDispatch(r) ==
    /\ AcctAt(r, "dispatch")
    /\ \/ AcctQueue(r) /\ (AcctGoto(r, "stamp") \/ AcctDone(r))
       \/ UNCHANGED acctMail /\ AcctDone(r)
    /\ UNCHANGED <<acct, acctLastId, acctOrdered, acctClock, acctUsed>>

(* Then the time of sending, by an UPDATE of that column alone.            *)
AcctStamp(r) ==
    LET i == acctRequest[r].id IN
    /\ AcctAt(r, "stamp")
    /\ acct' = IF AcctExists(i) THEN [acct EXCEPT ![i].sent = r] ELSE acct
    /\ AcctDone(r)
    /\ UNCHANGED <<acctLastId, acctOrdered, acctMail, acctClock, acctUsed>>

(* can_resend: 60 seconds since the last mail, or none yet.                *)
AcctCanResend(row) == ~row.confirmed /\ row.sent \in acctCooled \cup {0}

AcctAskResend(r, i) ==
    /\ AcctArrives(r) /\ AcctExists(i)
    /\ IF AcctCanResend(acct[i]) THEN AcctLoads(r, i, "enqueue") ELSE AcctDone(r)
    /\ UNCHANGED <<acct, acctLastId, acctOrdered, acctMail, acctClock, acctUsed>>

(* resend_confirmation: the mail is enqueued with a new token; an error of *)
(* the broker, also one after it took the task, ends the request...        *)
(* Fault: after the token has been saved.                                  *)
AcctSaveThenEnqueue(r) ==
    LET i == acctRequest[r].id IN
    /\ AcctAt(r, "enqueue") /\ AcctExists(i)
    /\ acct' = [acct EXCEPT ![i].token = r, ![i].sent = r]
    /\ AcctQueue(r) \/ UNCHANGED acctMail
    /\ AcctDone(r)
    /\ UNCHANGED <<acctLastId, acctOrdered, acctClock, acctUsed>>
AcctEnqueue(r) ==
    /\ AcctAt(r, "enqueue")
    /\ \/ AcctQueue(r) /\ (AcctGoto(r, "save_token") \/ AcctDone(r))
       \/ UNCHANGED acctMail /\ AcctDone(r)
    /\ UNCHANGED <<acct, acctLastId, acctOrdered, acctClock, acctUsed>>

(* ...and the token is saved, three columns of a row that must be there.   *)
(* Fault: save() without update_fields.                                    *)
AcctSaveWholeRow(r) ==
    LET i == acctRequest[r].id IN
    /\ AcctAt(r, "save_token")
    /\ acct' = [acct EXCEPT ![i] = [acctRequest[r].row EXCEPT !.token = r, !.sent = r]]
    /\ AcctDone(r)
    /\ UNCHANGED <<acctLastId, acctOrdered, acctMail, acctClock, acctUsed>>
AcctSaveToken(r) ==
    LET i == acctRequest[r].id IN
    /\ AcctAt(r, "save_token")
    /\ acct' = IF AcctExists(i) THEN [acct EXCEPT ![i].token = r, ![i].sent = r] ELSE acct
    /\ AcctDone(r)
    /\ UNCHANGED <<acctLastId, acctOrdered, acctMail, acctClock, acctUsed>>

-----------------------------------------------------------------------------
(* The link of a mail: the row with that token, and how old the token is.  *)
(* Fault: the link names the address, and any account of it is confirmed.  *)
AcctClickForAddress(r, t) ==
    /\ AcctArrives(r) /\ t < r /\ acctMail[t].state = "sent"
    /\ \E i \in AcctIds :
         /\ AcctExists(i)
         /\ acctRequest' = [acctRequest EXCEPT
              ![r] = [AcctNew EXCEPT !.phase = "confirm", !.id = i, !.token = t]]
    /\ UNCHANGED <<acct, acctLastId, acctOrdered, acctMail, acctClock, acctUsed>>
AcctClick(r, t) ==
    /\ AcctArrives(r) /\ t < r /\ acctMail[t].state = "sent"
    /\ \/ /\ \A i \in AcctIds : acct[i].token # t
          /\ AcctDone(r)
       \/ \E i \in AcctIds :
            /\ acct[i].token = t
            /\ acctRequest' = [acctRequest EXCEPT
                 ![r] = [AcctNew EXCEPT !.phase = IF t \in acctExpired THEN "expire"
                                                  ELSE "confirm",
                                        !.id = i, !.token = t]]
    /\ UNCHANGED <<acct, acctLastId, acctOrdered, acctMail, acctClock, acctUsed>>

(* An expired token is erased, whatever token the row holds by now.        *)
AcctExpire(r) ==
    LET i == acctRequest[r].id IN
    /\ AcctAt(r, "expire")
    /\ acct' = IF AcctExists(i) THEN [acct EXCEPT ![i].token = 0] ELSE acct
    /\ AcctDone(r)
    /\ UNCHANGED <<acctLastId, acctOrdered, acctMail, acctClock, acctUsed>>

(* confirm_email, then the login; a row deleted meanwhile is an error.     *)
AcctConfirm(r) ==
    LET i == acctRequest[r].id IN
    /\ AcctAt(r, "confirm")
    /\ \/ /\ AcctExists(i)
          /\ acct' = [acct EXCEPT ![i].confirmed = TRUE, ![i].token = 0]
          /\ acctUsed' = acctUsed \cup {<<acctRequest[r].token, i>>}
          /\ AcctGoto(r, "welcome")
       \/ ~AcctExists(i) /\ AcctDone(r) /\ UNCHANGED <<acct, acctUsed>>
    /\ UNCHANGED <<acctLastId, acctOrdered, acctMail, acctClock>>

(* send_welcome_email.delay, whose failure is only logged.                 *)
AcctWelcome(r) ==
    /\ AcctAt(r, "welcome")
    /\ AcctDone(r)
    /\ AcctQueue(r) \/ UNCHANGED acctMail
    /\ UNCHANGED <<acct, acctLastId, acctOrdered, acctClock, acctUsed>>

(* The mail tasks: a transient error leaves the mail with the queue, the   *)
(* last retry, a permanent error or a missing sender address loses it.     *)
AcctSendMail(r) ==
    /\ acctMail[r].state = "queued"
    /\ \E outcome \in {"sent", "lost"} : acctMail' = [acctMail EXCEPT ![r].state = outcome]
    /\ UNCHANGED <<acct, acctLastId, acctOrdered, acctClock, acctRequest, acctUsed>>

-----------------------------------------------------------------------------
AcctEditProfile(r, i) ==
    /\ AcctArrives(r) /\ AcctExists(i)
    /\ AcctLoads(r, i, "save_profile")
    /\ UNCHANGED <<acct, acctLastId, acctOrdered, acctMail, acctClock, acctUsed>>

(* The form saves every column of the user as the request loaded it, and   *)
(* inserts the row again if it has been deleted, unless the address has    *)
(* been taken.  The address is no field of the form.                       *)
AcctSaveProfile(r) ==
    LET req == acctRequest[r] IN
    /\ AcctAt(r, "save_profile")
    /\ acct' = IF AcctExists(req.id) \/ ~AcctTaken(req.row.email)
               THEN [acct EXCEPT ![req.id] = req.row] ELSE acct
    /\ AcctDone(r)
    /\ UNCHANGED <<acctLastId, acctOrdered, acctMail, acctClock, acctUsed>>

(* The deletion of a profile asks for orders first...                      *)
AcctAskDelete(r, i) ==
    /\ AcctArrives(r) /\ AcctExists(i)
    /\ IF i \in acctOrdered THEN AcctDone(r) ELSE AcctLoads(r, i, "delete")
    /\ UNCHANGED <<acct, acctLastId, acctOrdered, acctMail, acctClock, acctUsed>>

(* ...and Order.user is PROTECT: an order placed meanwhile is an error.    *)
AcctDelete(r) ==
    LET i == acctRequest[r].id IN
    /\ AcctAt(r, "delete")
    /\ acct' = IF i \in acctOrdered THEN acct ELSE [acct EXCEPT ![i] = AcctNoRow]
    /\ AcctDone(r)
    /\ UNCHANGED <<acctLastId, acctOrdered, acctMail, acctClock, acctUsed>>

(* The checkout of user i.                                                 *)
AcctOrderPlaced(i) ==
    /\ AcctExists(i)
    /\ acctOrdered' = acctOrdered \cup {i}
    /\ UNCHANGED <<acct, acctLastId, acctMail, acctClock, acctRequest, acctUsed>>

(* Time passes: 60 seconds since a mail, the lifetime of a token.          *)
AcctCooldownEnds(s) ==
    /\ s \notin acctCooled /\ \E i \in AcctIds : acct[i].sent = s
    /\ acctCooled' = acctCooled \cup {s}
    /\ UNCHANGED <<acct, acctLastId, acctOrdered, acctMail, acctExpired, acctRequest, acctUsed>>
AcctTokenExpires(t) ==
    /\ t \notin acctExpired /\ \E i \in AcctIds : acct[i].token = t
    /\ acctExpired' = acctExpired \cup {t}
    /\ UNCHANGED <<acct, acctLastId, acctOrdered, acctMail, acctCooled, acctRequest, acctUsed>>

-----------------------------------------------------------------------------
AcctInit ==
    /\ acct = [i \in AcctIds |-> AcctNoRow] /\ acctLastId = 0 /\ acctOrdered = {}
    /\ acctMail = [r \in AcctRequests |-> AcctNoMail]
    /\ acctExpired = {} /\ acctCooled = {}
    /\ acctRequest = [r \in AcctRequests |-> AcctNew]
    /\ acctUsed = {}

AcctStep(r) ==
    \/ AcctInsert(r) \/ AcctDispatch(r) \/ AcctStamp(r) \/ AcctEnqueue(r)
    \/ AcctSaveToken(r) \/ AcctExpire(r) \/ AcctConfirm(r) \/ AcctWelcome(r)
    \/ AcctSaveProfile(r) \/ AcctDelete(r) \/ AcctSendMail(r)

AcctNext ==
    \/ \E r \in AcctRequests :
         \/ \E e \in AcctEmails : AcctRegister(r, e)
         \/ \E t \in AcctRequests : AcctClick(r, t)
         \/ \E i \in AcctIds : AcctAskResend(r, i) \/ AcctEditProfile(r, i) \/ AcctAskDelete(r, i)
         \/ AcctStep(r) \/ AcctCooldownEnds(r) \/ AcctTokenExpires(r)
    \/ \E i \in AcctIds : AcctOrderPlaced(i)

AcctSpec == AcctInit /\ [][AcctNext]_acctVars

-----------------------------------------------------------------------------
AcctTypeOK ==
    /\ acct \in [AcctIds -> AcctRow] /\ acctLastId \in AcctIds \cup {0}
    /\ acctOrdered \subseteq AcctIds
    /\ acctMail \in [AcctRequests -> AcctMails]
    /\ acctExpired \subseteq AcctRequests /\ acctCooled \subseteq AcctRequests
    /\ acctRequest \in [AcctRequests -> AcctReq]
    /\ acctUsed \subseteq AcctRequests \X AcctIds
    /\ \A i \in acctOrdered : AcctExists(i)   \* the foreign key of Order.user

(* build_user_order_visibility_q: the guest orders of address e that the   *)
(* account i is shown besides its own.                                     *)
AcctSeesGuestOrders(i, e) == acct[i].confirmed /\ acct[i].email = e

(* An account sees the guest orders of its address only after the link     *)
(* mailed for that very account has been used, however registrations,      *)
(* deletions, stale profile edits and clicks on old links interleave.      *)
AcctGuestOrdersNeedLink ==
    \A i \in AcctIds, e \in AcctEmails :
        AcctSeesGuestOrders(i, e) =>
            \E t \in AcctRequests : <<t, i>> \in acctUsed /\ acctMail[t] = [user |-> i, state |-> "sent"]

(* A confirmation is never taken back and a used link never comes to life  *)
(* again, except by a profile edit that had loaded the row before.         *)
AcctOnlyStaleEditsGoBack ==
    [][\A i \in AcctIds :
         (/\ AcctExists(i) /\ AcctExists(i)'
          /\ \/ acct[i].confirmed /\ ~acct'[i].confirmed
             \/ acct'[i].token # acct[i].token /\ <<acct'[i].token, i>> \in acctUsed)
         => \E r \in AcctRequests : /\ AcctAt(r, "save_profile") /\ AcctAt(r, "done")'
                                    /\ acctRequest[r].id = i
                                    /\ acctRequest[r].row # acct[i]]_acctVars

(* Once a mail is recorded as sent, the link that the row would accept has *)
(* gone to the broker: a failed enqueue never replaces the last link the   *)
(* customer has by one nobody has.                                         *)
AcctLiveLinkWasMailed ==
    \A i \in AcctIds :
        acct[i].sent # 0 /\ acct[i].token # 0 => acctMail[acct[i].token] # AcctNoMail
===============================================================================
