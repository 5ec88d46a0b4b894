--------------------------- MODULE MailServicesProofs ---------------------------
(***************************************************************************)
(* What the services that send links and mails guarantee for any accounts, *)
(* addresses, requests, tokens and deliveries: Accounts, GuestLinks and    *)
(* Support.  The three share nothing; each has its own invariant here.     *)
(***************************************************************************)
EXTENDS Accounts, GuestLinks, Support, FiniteSetTheorems, TLAPS

-----------------------------------------------------------------------------
(* Accounts.                                                               *)
AcctMailed(t) == acctMail[t] # AcctNoMail

(* Token t was made for user i: by the registration that inserted i and    *)
(* then mails it, or by a resend that has saved it.                        *)
AcctTokenOf(t, i) ==
    /\ t \in AcctRequests
    /\ acctRequest[t].phase \in {"dispatch", "stamp", "done"}
    /\ acctRequest[t].phase = "dispatch" => acctRequest[t].id = i
    /\ AcctMailed(t) => acctMail[t].user = i

(* A row of user i, in the table or in the memory of a request.  A token   *)
(* that nobody has mailed is the registration's: nothing has been recorded *)
(* as sent, and nobody is about to record it.                              *)
AcctRowOK(row, i) ==
    /\ row.confirmed => \E t \in AcctRequests : <<t, i>> \in acctUsed
    /\ row.token # 0 => AcctTokenOf(row.token, i) /\ i <= acctLastId
    /\ row.token # 0 /\ ~AcctMailed(row.token) =>
         /\ row.sent = 0
         /\ \A q \in AcctRequests : acctRequest[q].id = i =>
              /\ acctRequest[q].phase # "stamp"
              /\ acctRequest[q].phase = "dispatch" => q = row.token

(* A link that has been followed: mailed for this user, by a request that  *)
(* will not save its token again.                                          *)
AcctLink(t, i) ==
    /\ acctMail[t] = [user |-> i, state |-> "sent"]
    /\ acctRequest[t].phase \in {"stamp", "done"}

AcctRequestOK(r) ==
    LET req == acctRequest[r] IN
    /\ AcctRowOK(req.row, req.id)
    /\ req.id <= acctLastId
    /\ req.phase \notin {"new", "insert", "done"} => req.id \in AcctIds
    /\ req.phase \in {"insert", "save_profile"} => req.row.email \in AcctEmails
    /\ req.phase = "insert" => ~req.row.confirmed /\ req.row.token = 0
    /\ AcctMailed(r) => req.phase \in {"stamp", "save_token", "done"}
    /\ req.phase \in {"stamp", "save_token"} => AcctMailed(r) /\ acctMail[r].user = req.id
    /\ req.phase = "confirm" => req.token \in AcctRequests /\ AcctLink(req.token, req.id)

AcctRowsOK ==
    \A i \in AcctIds : AcctRowOK(acct[i], i) /\ (AcctExists(i) => i <= acctLastId)

AcctLinksUsed == \A t \in AcctRequests, i \in AcctIds : <<t, i>> \in acctUsed => AcctLink(t, i)

AcctIInv ==
    /\ AcctTypeOK
    /\ AcctRowsOK /\ AcctLinksUsed
    /\ \A r \in AcctRequests : AcctRequestOK(r)

AcctGone == [phase |-> "done", id |-> 0, row |-> AcctNoRow, token |-> 0]

(* The shape of every step: request r becomes rec, its mail m, and tokens  *)
(* that are somebody's stay what they are.                                 *)
AcctSameMail(r, m) ==
    \/ m = acctMail[r]
    \/ /\ ~AcctMailed(r) /\ acctRequest[r].phase \in {"dispatch", "enqueue", "welcome"}
       /\ m = [user |-> acctRequest[r].id, state |-> "queued"]
    \/ /\ acctMail[r].state = "queued"
       /\ \E s \in {"sent", "lost"} : m = [user |-> acctMail[r].user, state |-> s]

AcctMoves(r, rec, m) ==
    /\ rec \in AcctReq /\ m \in AcctMails
    /\ acctRequest' = [acctRequest EXCEPT ![r] = rec]
    /\ acctMail' = [acctMail EXCEPT ![r] = m]
    /\ AcctSameMail(r, m)
    /\ acctLastId' \in Nat /\ acctLastId <= acctLastId' /\ acctUsed \subseteq acctUsed'
    /\ rec.phase = "dispatch" =>
         rec = acctRequest[r] \/ (acctRequest[r].phase = "insert" /\ rec.id > acctLastId)
    /\ rec.phase = "stamp" =>
         \/ rec = acctRequest[r]
         \/ acctRequest[r].phase = "dispatch" /\ rec.id = acctRequest[r].id /\ m # AcctNoMail
    /\ acctRequest[r].phase \in {"dispatch", "stamp", "done"} =>
         rec.phase \in {"dispatch", "stamp", "done"}

-----------------------------------------------------------------------------
(* The numbers that identify users and requests.                           *)
LEMMA AcctNumbers ==
    /\ AcctIds \subseteq Nat /\ 0 \notin AcctIds
    /\ AcctRequests \subseteq Nat /\ 0 \notin AcctRequests
    /\ AcctTypeOK => acctLastId \in Nat
    /\ AcctTypeOK => \A q \in AcctRequests : acctRequest[q].id \in Nat
  <1>1. /\ AcctIds \subseteq Nat /\ 0 \notin AcctIds
        /\ AcctRequests \subseteq Nat /\ 0 \notin AcctRequests
    BY AcctAssumption DEF AcctAssumption
  <1>2. AcctTypeOK => acctLastId \in Nat
    BY <1>1 DEF AcctTypeOK
  <1>3. ASSUME AcctTypeOK, NEW q \in AcctRequests
        PROVE  acctRequest[q].id \in Nat
    <2>1. acctRequest[q] \in AcctReq
      BY <1>3 DEF AcctTypeOK
    <2>2. acctRequest[q].id \in AcctIds \cup {0}
      BY <2>1 DEF AcctReq
    <2>3. \A i \in AcctIds \cup {0} : i \in Nat
      BY <1>1
    <2>4. QED
      BY <2>2, <2>3
  <1>4. QED
    BY <1>1, <1>2, <1>3

(* What a step changes of requests and mails.                              *)
LEMMA AcctFrame ==
    ASSUME AcctTypeOK, NEW r \in AcctRequests, NEW rec, NEW m, AcctMoves(r, rec, m)
    PROVE  /\ acctRequest'[r] = rec /\ acctMail'[r] = m
           /\ \A q \in AcctRequests \ {r} : /\ acctRequest'[q] = acctRequest[q]
                                            /\ acctMail'[q] = acctMail[q]
           /\ \A q \in AcctRequests : AcctMailed(q) =>
                /\ acctMail'[q] # AcctNoMail
                /\ acctMail'[q].user = acctMail[q].user
                /\ acctMail[q].state = "sent" => acctMail'[q] = acctMail[q]
           /\ acctRequest' \in [AcctRequests -> AcctReq]
           /\ acctMail' \in [AcctRequests -> AcctMails]
  <1>1. /\ acctRequest \in [AcctRequests -> AcctReq] /\ acctMail \in [AcctRequests -> AcctMails]
        /\ acctRequest' = [acctRequest EXCEPT ![r] = rec]
        /\ acctMail' = [acctMail EXCEPT ![r] = m]
        /\ rec \in AcctReq /\ m \in AcctMails
    BY DEF AcctMoves, AcctTypeOK
  <1>2. /\ acctRequest'[r] = rec /\ acctMail'[r] = m
        /\ \A q \in AcctRequests \ {r} : /\ acctRequest'[q] = acctRequest[q]
                                         /\ acctMail'[q] = acctMail[q]
        /\ acctRequest' \in [AcctRequests -> AcctReq]
        /\ acctMail' \in [AcctRequests -> AcctMails]
    BY <1>1
  <1>3. ASSUME NEW q \in AcctRequests, AcctMailed(q)
        PROVE  /\ acctMail'[q] # AcctNoMail
               /\ acctMail'[q].user = acctMail[q].user
               /\ acctMail[q].state = "sent" => acctMail'[q] = acctMail[q]
    <2>1. CASE q # r
      BY <1>2, <1>3, <2>1 DEF AcctMailed
    <2>2. CASE q = r
      <3>1. \/ m = acctMail[r]
            \/ /\ acctMail[r].state = "queued"
               /\ \E s \in {"sent", "lost"} : m = [user |-> acctMail[r].user, state |-> s]
        BY <1>3, <2>2 DEF AcctMoves, AcctSameMail
      <3>2. CASE m = acctMail[r]
        BY <1>2, <1>3, <2>2, <3>2 DEF AcctMailed
      <3>3. CASE /\ acctMail[r].state = "queued"
                 /\ \E s \in {"sent", "lost"} : m = [user |-> acctMail[r].user, state |-> s]
        BY <1>2, <2>2, <3>3 DEF AcctNoMail
      <3>4. QED
        BY <3>1, <3>2, <3>3
    <2>3. QED
      BY <2>1, <2>2
  <1>4. QED
    BY <1>2, <1>3

(* A row that nobody writes stays as good as it was.                       *)
LEMMA AcctRowStays ==
    ASSUME AcctIInv, NEW r \in AcctRequests, NEW rec, NEW m, AcctMoves(r, rec, m),
           NEW row, NEW i, row.token \in AcctStamps, AcctRowOK(row, i), i \in Nat
    PROVE  AcctRowOK(row, i)'
  <1> USE AcctFrame, AcctNumbers DEF AcctIInv
  <1>0. AcctTypeOK /\ acctLastId \in Nat /\ acctLastId' \in Nat /\ acctLastId' >= acctLastId
    BY DEF AcctMoves
  <1>1. row.confirmed => \E t \in AcctRequests : <<t, i>> \in acctUsed'
    BY DEF AcctRowOK, AcctMoves
  <1>2. ASSUME row.token # 0
        PROVE  AcctTokenOf(row.token, i)' /\ i <= acctLastId'
    <2>1. AcctTokenOf(row.token, i) /\ i <= acctLastId
      BY <1>2 DEF AcctRowOK
    <2>0. i <= acctLastId'
      <3>1. acctLastId' >= acctLastId /\ acctLastId' \in Nat
        BY <1>0
      <3>2. QED
        BY <1>0, <2>1, <3>1
    <2>2. CASE row.token # r
      <3>1. /\ row.token \in AcctRequests
            /\ acctRequest'[row.token] = acctRequest[row.token]
            /\ acctMail'[row.token] = acctMail[row.token]
        BY <1>0, <2>1, <2>2 DEF AcctTokenOf
      <3>2. QED
        BY <2>0, <2>1, <3>1 DEF AcctTokenOf, AcctMailed, AcctNoMail
    <2>3. CASE row.token = r
      <3>1. /\ acctRequest[r].phase \in {"dispatch", "stamp", "done"}
            /\ acctRequest[r].phase = "dispatch" => acctRequest[r].id = i
            /\ AcctMailed(r) => acctMail[r].user = i
        BY <2>1, <2>3 DEF AcctTokenOf
      <3>2. acctRequest'[r] = rec /\ acctMail'[r] = m
        BY <1>0
      <3>3. rec.phase \in {"dispatch", "stamp", "done"}
        BY <3>1 DEF AcctMoves
      <3>4. rec.phase = "dispatch" => rec.id = i
        BY <3>1 DEF AcctMoves
      <3>5. m # AcctNoMail => m.user = i
        <4>1. CASE AcctMailed(r)
          BY <1>0, <3>1, <3>2, <4>1
        <4>2. CASE ~AcctMailed(r)
          <5>1. \/ m = AcctNoMail
                \/ /\ acctRequest[r].phase \in {"dispatch", "enqueue", "welcome"}
                   /\ m = [user |-> acctRequest[r].id, state |-> "queued"]
            BY <4>2 DEF AcctMoves, AcctSameMail, AcctMailed, AcctNoMail
          <5>2. QED
            BY <3>1, <5>1
        <4>3. QED
          BY <4>1, <4>2
      <3>6. QED
        BY <2>0, <2>1, <2>3, <3>2, <3>3, <3>4, <3>5 DEF AcctTokenOf, AcctMailed, AcctNoMail
    <2>4. QED
      BY <2>2, <2>3
  <1>3. ASSUME row.token # 0, ~AcctMailed(row.token)'
        PROVE  /\ row.sent = 0
               /\ \A q \in AcctRequests : acctRequest'[q].id = i =>
                    /\ acctRequest'[q].phase # "stamp"
                    /\ acctRequest'[q].phase = "dispatch" => q = row.token
    <2>1. row.token \in AcctRequests /\ i <= acctLastId
      BY <1>3 DEF AcctRowOK, AcctTokenOf
    <2>2. ~AcctMailed(row.token)
      BY <1>0, <1>3, <2>1 DEF AcctMailed
    <2>3. /\ row.sent = 0
          /\ \A q \in AcctRequests : acctRequest[q].id = i =>
               /\ acctRequest[q].phase # "stamp"
               /\ acctRequest[q].phase = "dispatch" => q = row.token
      BY <1>3, <2>2 DEF AcctRowOK
    <2>4. rec.id = i => rec.phase # "stamp" /\ (rec.phase = "dispatch" => r = row.token)
      <3>1. ASSUME rec.id = i, rec.phase = "stamp"  PROVE FALSE
        <4>1. acctRequest[r].phase = "dispatch" /\ acctRequest[r].id = i /\ m # AcctNoMail
          BY <2>3, <3>1 DEF AcctMoves
        <4>2. r = row.token
          BY <2>3, <4>1
        <4>3. QED
          BY <1>0, <1>3, <4>1, <4>2 DEF AcctMailed
      <3>2. ASSUME rec.id = i, rec.phase = "dispatch"  PROVE r = row.token
        BY <1>0, <2>1, <2>3, <3>2 DEF AcctMoves
      <3>3. QED
        BY <3>1, <3>2
    <2>5. QED
      BY <1>0, <2>3, <2>4
  <1>4. QED
    BY <1>1, <1>2, <1>3 DEF AcctRowOK

(* A link that has been followed stays that.                               *)
LEMMA AcctLinkStays ==
    ASSUME AcctIInv, NEW r \in AcctRequests, NEW rec, NEW m, AcctMoves(r, rec, m),
           NEW t \in AcctRequests, NEW i, AcctLink(t, i)
    PROVE  AcctLink(t, i)'
  <1>1. AcctTypeOK
    BY DEF AcctIInv
  <1>2. AcctMailed(t) /\ acctMail[t].state = "sent"
    BY DEF AcctLink, AcctMailed, AcctNoMail
  <1>3. acctMail'[t] = acctMail[t]
    BY <1>1, <1>2, AcctFrame
  <1>4. acctRequest'[t].phase \in {"stamp", "done"}
    <2>1. CASE t # r
      BY <1>1, <2>1, AcctFrame DEF AcctLink
    <2>2. CASE t = r
      <3>1. acctRequest[r].phase \in {"stamp", "done"} /\ acctRequest'[r] = rec
        BY <1>1, <2>2, AcctFrame DEF AcctLink
      <3>2. rec.phase \in {"stamp", "done"}
        BY <3>1 DEF AcctMoves
      <3>3. QED
        BY <2>2, <3>1, <3>2
    <2>3. QED
      BY <2>1, <2>2
  <1>5. QED
    BY <1>3, <1>4 DEF AcctLink

(* A request that a step leaves alone, and its mail, stays as good.        *)
LEMMA AcctOtherStays ==
    ASSUME AcctIInv, NEW r \in AcctRequests, NEW rec, NEW m, AcctMoves(r, rec, m),
           NEW q \in AcctRequests, acctRequest'[q] = acctRequest[q],
           (acctMail'[q] # AcctNoMail) <=> AcctMailed(q)
    PROVE  AcctRequestOK(q)'
  <1> PICK req : req = acctRequest[q]
    OBVIOUS
  <1>0. AcctTypeOK /\ AcctRequestOK(q) /\ acctRequest'[q] = req /\ acctRequest[q] = req
    BY DEF AcctIInv
  <1>1. req \in AcctReq /\ req.row \in AcctRow /\ req.row.token \in AcctStamps /\ req.id \in Nat
    <2>1. req \in AcctReq
      BY <1>0 DEF AcctTypeOK
    <2>2. req.row \in AcctRow
      BY <2>1 DEF AcctReq
    <2>3. QED
      BY <1>0, <2>1, <2>2, AcctNumbers DEF AcctRow
  <1>2. AcctRowOK(req.row, req.id)
    BY <1>0 DEF AcctRequestOK
  <1>3. AcctRowOK(req.row, req.id)'
    BY <1>1, <1>2, AcctRowStays
  <1>4. AcctRowOK(acctRequest[q].row, acctRequest[q].id)'
    BY <1>0, <1>3 DEF AcctRowOK
  <1>5. req.id <= acctLastId'
    <2>1. req.id <= acctLastId
      BY <1>0 DEF AcctRequestOK
    <2>2. acctLastId \in Nat /\ acctLastId' \in Nat /\ acctLastId <= acctLastId'
      BY <1>0, AcctNumbers DEF AcctMoves
    <2>3. QED
      BY <1>1, <2>1, <2>2
  <1>6. AcctMailed(q) => acctMail'[q].user = acctMail[q].user
    BY <1>0, AcctFrame
  <1>7. req.phase = "confirm" => req.token \in AcctRequests /\ AcctLink(req.token, req.id)'
    <2>1. \A t \in AcctRequests : \A i : AcctLink(t, i) => AcctLink(t, i)'
      BY AcctLinkStays
    <2>2. req.phase = "confirm" => req.token \in AcctRequests /\ AcctLink(req.token, req.id)
      BY <1>0 DEF AcctRequestOK
    <2>3. QED
      BY <2>1, <2>2
  <1>8. QED
    <2>1. /\ req.phase \notin {"new", "insert", "done"} => req.id \in AcctIds
          /\ req.phase \in {"insert", "save_profile"} => req.row.email \in AcctEmails
          /\ req.phase = "insert" => ~req.row.confirmed /\ req.row.token = 0
          /\ AcctMailed(q) => req.phase \in {"stamp", "save_token", "done"}
          /\ req.phase \in {"stamp", "save_token"} => AcctMailed(q) /\ acctMail[q].user = req.id
      BY <1>0 DEF AcctRequestOK
    <2>2. AcctMailed(q)' <=> AcctMailed(q)
      BY DEF AcctMailed, AcctNoMail
    <2>3. req.phase = "confirm" => AcctLink(acctRequest[q].token, acctRequest[q].id)'
      BY <1>0, <1>7 DEF AcctLink
    <2>4. QED
      BY <1>0, <1>4, <1>5, <1>6, <1>7, <2>1, <2>2, <2>3 DEF AcctRequestOK

(* A request that has ended asks for nothing.                              *)
LEMMA AcctGoneIsFine ==
    ASSUME NEW r \in AcctRequests, acctRequest'[r] = AcctGone, acctLastId' \in Nat
    PROVE  AcctRequestOK(r)'
  <1>1. AcctRowOK(acctRequest[r].row, acctRequest[r].id)'
    BY DEF AcctRowOK, AcctGone, AcctNoRow
  <1>2. QED
    BY <1>1 DEF AcctRequestOK, AcctGone

(* It is enough to look at the request that moves, the rows that change    *)
(* and the links that are used.                                            *)
LEMMA AcctMoveKeeps ==
    ASSUME AcctIInv, NEW r \in AcctRequests, NEW rec, NEW m, AcctMoves(r, rec, m),
           UNCHANGED <<acctOrdered, acctExpired, acctCooled>>,
           acct' \in [AcctIds -> AcctRow], acctLastId' \in AcctIds \cup {0},
           acctUsed' \subseteq AcctRequests \X AcctIds,
           \A i \in AcctIds : \/ acct'[i] = acct[i]
                             \/ /\ AcctRowOK(acct[i], i)' /\ i <= acctLastId'
                                /\ i \in acctOrdered => acct'[i].email # "none",
           \A t \in AcctRequests, i \in AcctIds :
               <<t, i>> \in acctUsed' => <<t, i>> \in acctUsed \/ AcctLink(t, i)',
           AcctRequestOK(r)'
    PROVE  AcctIInv'
  <1>0. AcctTypeOK /\ acctLastId \in Nat /\ acctLastId' \in Nat /\ acctLastId <= acctLastId'
    BY AcctNumbers DEF AcctIInv, AcctMoves
  <1>1. AcctTypeOK'
    <2>1. \A i \in acctOrdered' : AcctExists(i)'
      BY <1>0 DEF AcctTypeOK, AcctExists
    <2>2. acctRequest' \in [AcctRequests -> AcctReq] /\ acctMail' \in [AcctRequests -> AcctMails]
      BY <1>0, AcctFrame
    <2>3. QED
      BY <1>0, <2>1, <2>2 DEF AcctTypeOK
  <1>2. AcctRowsOK'
    <2>1. SUFFICES ASSUME NEW i \in AcctIds
                   PROVE  (AcctRowOK(acct[i], i) /\ (AcctExists(i) => i <= acctLastId))'
      BY DEF AcctRowsOK
    <2>2. CASE acct'[i] = acct[i]
      <3>1. AcctRowOK(acct[i], i) /\ (AcctExists(i) => i <= acctLastId)
        BY DEF AcctIInv, AcctRowsOK
      <3>2. \A row : row.token \in AcctStamps /\ AcctRowOK(row, i) => AcctRowOK(row, i)'
        BY AcctRowStays, AcctNumbers
      <3>3. acct[i].token \in AcctStamps
        BY <1>0 DEF AcctTypeOK, AcctRow
      <3>4. AcctRowOK(acct[i], i)'
        BY <2>2, <3>1, <3>2, <3>3 DEF AcctRowOK, AcctTokenOf, AcctMailed, AcctNoMail
      <3>5. AcctExists(i)' => i <= acctLastId'
        <4>1. i \in Nat
          BY AcctNumbers
        <4>2. AcctExists(i)' => i <= acctLastId
          BY <2>2, <3>1 DEF AcctExists
        <4>3. QED
          BY <1>0, <4>1, <4>2
      <3>6. QED
        BY <3>4, <3>5
    <2>3. CASE AcctRowOK(acct[i], i)' /\ i <= acctLastId'
      BY <2>3
    <2>4. QED
      BY <2>2, <2>3
  <1>3. AcctLinksUsed'
    <2>1. \A t \in AcctRequests : \A i : AcctLink(t, i) => AcctLink(t, i)'
      BY AcctLinkStays
    <2>2. \A t \in AcctRequests, i \in AcctIds : <<t, i>> \in acctUsed => AcctLink(t, i)
      BY DEF AcctIInv, AcctLinksUsed
    <2>3. QED
      BY <2>1, <2>2 DEF AcctLinksUsed
  <1>4. \A q \in AcctRequests : AcctRequestOK(q)'
    <2>1. ASSUME NEW q \in AcctRequests, q # r
          PROVE  AcctRequestOK(q)'
      <3>1. acctRequest'[q] = acctRequest[q] /\ acctMail'[q] = acctMail[q]
        BY <1>0, <2>1, AcctFrame
      <3>2. QED
        BY <3>1, AcctOtherStays DEF AcctMailed
    <2>2. QED
      BY <2>1
  <1>5. QED
    BY <1>1, <1>2, <1>3, <1>4 DEF AcctIInv

(* A step that writes no row; a step that writes the row of one user.      *)
LEMMA AcctQuiet ==
    ASSUME AcctIInv, NEW r \in AcctRequests, NEW rec, NEW m, AcctMoves(r, rec, m),
           UNCHANGED <<acct, acctLastId, acctOrdered, acctExpired, acctCooled, acctUsed>>,
           AcctRequestOK(r)'
    PROVE  AcctIInv'
  <1>1. acct' \in [AcctIds -> AcctRow] /\ acctLastId' \in AcctIds \cup {0}
        /\ acctUsed' \subseteq AcctRequests \X AcctIds
    BY DEF AcctIInv, AcctTypeOK
  <1>2. QED
    BY <1>1, AcctMoveKeeps

LEMMA AcctWrites ==
    ASSUME AcctIInv, NEW r \in AcctRequests, NEW rec, NEW m, AcctMoves(r, rec, m),
           UNCHANGED <<acctLastId, acctOrdered, acctExpired, acctCooled>>,
           NEW i \in AcctIds, NEW row \in AcctRow, acct' = [acct EXCEPT ![i] = row],
           AcctRowOK(row, i)', i <= acctLastId, i \in acctOrdered => row.email # "none",
           acctUsed' \subseteq AcctRequests \X AcctIds,
           \A t \in AcctRequests, j \in AcctIds :
               <<t, j>> \in acctUsed' => <<t, j>> \in acctUsed \/ AcctLink(t, j)',
           AcctRequestOK(r)'
    PROVE  AcctIInv'
  <1>1. acct \in [AcctIds -> AcctRow] /\ acctLastId' \in AcctIds \cup {0}
    BY DEF AcctIInv, AcctTypeOK
  <1>2. acct' \in [AcctIds -> AcctRow] /\ acct'[i] = row
        /\ \A j \in AcctIds : j # i => acct'[j] = acct[j]
    BY <1>1
  <1>3. AcctRowOK(acct[i], i)'
    BY <1>2 DEF AcctRowOK
  <1>4. QED
    BY <1>1, <1>2, <1>3, AcctMoveKeeps

(* What the invariant says of the request that is about to move.           *)
LEMMA AcctHere ==
    ASSUME AcctIInv, NEW r \in AcctRequests
    PROVE  /\ AcctTypeOK /\ AcctRequestOK(r)
           /\ acct \in [AcctIds -> AcctRow] /\ acctLastId \in Nat
           /\ acctRequest \in [AcctRequests -> AcctReq] /\ acctRequest[r] \in AcctReq
           /\ acctMail \in [AcctRequests -> AcctMails] /\ acctMail[r] \in AcctMails
           /\ acctMail = [acctMail EXCEPT ![r] = acctMail[r]]
           /\ acctRequest = [acctRequest EXCEPT ![r] = acctRequest[r]]
           /\ acctRequest[r].phase \notin {"stamp", "save_token", "done"} => acctMail[r] = AcctNoMail
  <1>1. AcctTypeOK /\ AcctRequestOK(r)
    BY DEF AcctIInv
  <1>2. QED
    BY <1>1, AcctNumbers DEF AcctTypeOK, AcctRequestOK, AcctMailed

(* Rows and requests of the right kind.                                    *)
LEMMA AcctMakesRow ==
    /\ AcctNoRow \in AcctRow
    /\ \A e \in AcctEmails, t \in AcctStamps :
         [email |-> e, confirmed |-> FALSE, token |-> t, sent |-> 0] \in AcctRow
  BY DEF AcctNoRow, AcctRow, AcctStamps

LEMMA AcctMakesReq ==
    ASSUME NEW phase \in AcctPhases, NEW i \in AcctIds \cup {0}, NEW row \in AcctRow,
           NEW t \in AcctStamps
    PROVE  [phase |-> phase, id |-> i, row |-> row, token |-> t] \in AcctReq
  BY DEF AcctReq

LEMMA AcctGoneIsNew == [AcctNew EXCEPT !.phase = "done"] = AcctGone /\ AcctGone \in AcctReq
  <1>1. AcctGone \in AcctReq
    BY AcctMakesRow, AcctMakesReq DEF AcctGone, AcctPhases, AcctStamps
  <1>2. [AcctNew EXCEPT !.phase = "done"] = AcctGone
    BY DEF AcctNew, AcctGone
  <1>3. QED
    BY <1>1, <1>2

(* A request ends, whatever it was at; nothing else happens to it.         *)
LEMMA AcctEnds ==
    ASSUME AcctIInv, NEW r \in AcctRequests, AcctDone(r), UNCHANGED <<acctMail, acctLastId>>,
           acctUsed \subseteq acctUsed'
    PROVE  AcctMoves(r, AcctGone, acctMail[r]) /\ AcctRequestOK(r)'
  <1>1. AcctGone \in AcctReq /\ [AcctNew EXCEPT !.phase = "done"] = AcctGone
    BY AcctGoneIsNew
  <1>2. acctRequest' = [acctRequest EXCEPT ![r] = AcctGone] /\ acctRequest'[r] = AcctGone
    BY <1>1, AcctHere DEF AcctDone
  <1>3. AcctMoves(r, AcctGone, acctMail[r])
    BY <1>1, <1>2, AcctHere DEF AcctMoves, AcctSameMail, AcctGone
  <1>4. QED
    BY <1>2, <1>3, AcctHere, AcctGoneIsFine

-----------------------------------------------------------------------------
(* The steps that write no row.                                            *)
LEMMA AcctRegisterKeeps ==
    ASSUME AcctIInv, NEW r \in AcctRequests, NEW e \in AcctEmails, AcctRegister(r, e)
    PROVE  AcctIInv'
  <1>0. UNCHANGED <<acct, acctLastId, acctOrdered, acctExpired, acctCooled, acctUsed, acctMail>>
        /\ acctRequest[r].phase = "new"
    BY DEF AcctRegister, acctClock, AcctArrives, AcctAt
  <1>1. CASE AcctDone(r)
    BY <1>0, <1>1, AcctEnds, AcctQuiet
  <1>2. CASE acctRequest' = [acctRequest EXCEPT
               ![r] = [AcctNew EXCEPT !.phase = "insert", !.row.email = e]]
    <2> DEFINE rec == [AcctNew EXCEPT !.phase = "insert", !.row.email = e]
    <2>1. /\ rec.phase = "insert" /\ rec.id = 0 /\ rec.token = 0
          /\ rec.row.email = e /\ ~rec.row.confirmed /\ rec.row.token = 0
      BY DEF AcctNew, AcctNoRow
    <2>2. rec \in AcctReq
      <3>1. [AcctNoRow EXCEPT !.email = e] \in AcctRow
        BY AcctMakesRow DEF AcctRow
      <3>2. AcctNew \in AcctReq
        BY AcctMakesRow, AcctMakesReq DEF AcctNew, AcctPhases, AcctStamps
      <3>3. QED
        BY <3>1, <3>2 DEF AcctNew, AcctReq, AcctPhases
    <2> HIDE DEF rec
    <2>3. AcctMoves(r, rec, acctMail[r]) /\ acctRequest'[r] = rec
      <3>1. acctRequest' = [acctRequest EXCEPT ![r] = rec]
        BY <1>2 DEF rec
      <3>2. QED
        BY <1>0, <2>1, <2>2, <3>1, AcctHere DEF AcctMoves, AcctSameMail
    <2>5. AcctRowOK(acctRequest[r].row, acctRequest[r].id)'
      BY <2>1, <2>3 DEF AcctRowOK
    <2>6. AcctRequestOK(r)'
      BY <1>0, <2>1, <2>3, <2>5, AcctHere DEF AcctRequestOK, AcctMailed, AcctNoMail
    <2>7. QED
      BY <1>0, <2>3, <2>6, AcctQuiet
  <1>3. QED
    BY <1>1, <1>2 DEF AcctRegister

(* A view that loads the row of its user.                                  *)
LEMMA AcctLoadKeeps ==
    ASSUME AcctIInv, NEW r \in AcctRequests, NEW i \in AcctIds, acctRequest[r].phase = "new",
           AcctExists(i), NEW phase \in {"enqueue", "save_profile", "delete"},
           AcctLoads(r, i, phase),
           UNCHANGED <<acct, acctLastId, acctOrdered, acctExpired, acctCooled, acctUsed, acctMail>>
    PROVE  AcctIInv'
  <1> PICK row : row = acct[i]
    OBVIOUS
  <1> DEFINE rec == [AcctNew EXCEPT !.phase = phase, !.id = i, !.row = row]
  <1>0. row \in AcctRow /\ AcctRowOK(row, i) /\ i <= acctLastId
        /\ row.email \in AcctEmails /\ row.token \in AcctStamps
    <2>1. row \in AcctRow
      BY AcctHere
    <2>2. AcctRowOK(row, i) /\ i <= acctLastId
      BY DEF AcctIInv, AcctRowsOK
    <2>3. QED
      BY <2>1, <2>2 DEF AcctRow, AcctExists
  <1>1. rec.phase = phase /\ rec.id = i /\ rec.row = row /\ rec.token = 0
    BY DEF AcctNew
  <1>2. rec \in AcctReq
    <2>1. AcctNew \in AcctReq
      BY AcctMakesRow, AcctMakesReq DEF AcctNew, AcctPhases, AcctStamps
    <2>2. QED
      BY <1>0, <2>1 DEF AcctReq, AcctPhases
  <1> HIDE DEF rec
  <1>3. AcctMoves(r, rec, acctMail[r]) /\ acctRequest'[r] = rec
    <2>1. acctRequest' = [acctRequest EXCEPT ![r] = rec]
      BY DEF AcctLoads, rec
    <2>2. QED
      BY <1>1, <1>2, <2>1, AcctHere DEF AcctMoves, AcctSameMail
  <1>4. AcctRowOK(row, i)'
    BY <1>0, <1>3, AcctRowStays, AcctNumbers
  <1>5. AcctRowOK(acctRequest[r].row, acctRequest[r].id)'
    BY <1>1, <1>3, <1>4 DEF AcctRowOK
  <1>6. AcctRequestOK(r)'
    BY <1>0, <1>1, <1>3, <1>5, AcctHere DEF AcctRequestOK, AcctMailed, AcctNoMail
  <1>7. QED
    BY <1>3, <1>6, AcctQuiet

LEMMA AcctAskKeeps ==
    ASSUME AcctIInv, NEW r \in AcctRequests, NEW i \in AcctIds,
           AcctAskResend(r, i) \/ AcctEditProfile(r, i) \/ AcctAskDelete(r, i)
    PROVE  AcctIInv'
  <1>1. /\ UNCHANGED <<acct, acctLastId, acctOrdered, acctExpired, acctCooled, acctUsed, acctMail>>
        /\ acctRequest[r].phase = "new" /\ AcctExists(i)
    BY DEF AcctAskResend, AcctEditProfile, AcctAskDelete, acctClock, AcctArrives, AcctAt
  <1>2. CASE AcctDone(r)
    BY <1>1, <1>2, AcctEnds, AcctQuiet
  <1>3. ASSUME NEW phase \in {"enqueue", "save_profile", "delete"}, AcctLoads(r, i, phase)
        PROVE  AcctIInv'
    BY <1>1, <1>3, AcctLoadKeeps
  <1>4. AcctDone(r) \/ \E phase \in {"enqueue", "save_profile", "delete"} : AcctLoads(r, i, phase)
    BY DEF AcctAskResend, AcctEditProfile, AcctAskDelete
  <1>5. QED
    BY <1>2, <1>3, <1>4

(* The link that is followed is the live one of the row it names.          *)
LEMMA AcctClickKeeps ==
    ASSUME AcctIInv, NEW r \in AcctRequests, NEW t \in AcctRequests, AcctClick(r, t)
    PROVE  AcctIInv'
  <1>1. /\ UNCHANGED <<acct, acctLastId, acctOrdered, acctExpired, acctCooled, acctUsed, acctMail>>
        /\ acctRequest[r].phase = "new" /\ acctMail[t].state = "sent"
    BY DEF AcctClick, acctClock, AcctArrives, AcctAt
  <1>2. CASE AcctDone(r)
    BY <1>1, <1>2, AcctEnds, AcctQuiet
  <1>3. ASSUME NEW i \in AcctIds, acct[i].token = t, NEW phase \in {"expire", "confirm"},
               acctRequest' = [acctRequest EXCEPT
                 ![r] = [AcctNew EXCEPT !.phase = phase, !.id = i, !.token = t]]
        PROVE  AcctIInv'
    <2> DEFINE rec == [AcctNew EXCEPT !.phase = phase, !.id = i, !.token = t]
    <2>1. rec.phase = phase /\ rec.id = i /\ rec.token = t /\ rec.row = AcctNoRow
      BY DEF AcctNew
    <2>2. rec \in AcctReq
      <3>1. AcctNew \in AcctReq
        BY AcctMakesRow, AcctMakesReq DEF AcctNew, AcctPhases, AcctStamps
      <3>2. QED
        BY <3>1 DEF AcctReq, AcctPhases, AcctStamps
    <2> HIDE DEF rec
    <2>3. AcctMoves(r, rec, acctMail[r]) /\ acctRequest'[r] = rec
      <3>1. acctRequest' = [acctRequest EXCEPT ![r] = rec]
        BY <1>3 DEF rec
      <3>2. QED
        BY <1>1, <2>1, <2>2, <3>1, AcctHere DEF AcctMoves, AcctSameMail
    <2>4. AcctLink(t, i) /\ i <= acctLastId
      <3>1. AcctRowOK(acct[i], i) /\ t # 0
        BY AcctNumbers DEF AcctIInv, AcctRowsOK
      <3>2. AcctTokenOf(t, i) /\ i <= acctLastId
        BY <1>3, <3>1 DEF AcctRowOK
      <3>3. AcctMailed(t) /\ acctMail[t].user = i
        BY <1>1, <3>2 DEF AcctMailed, AcctNoMail, AcctTokenOf
      <3>4. acctMail[t] = [user |-> i, state |-> "sent"]
        BY <1>1, <3>3, AcctHere DEF AcctMails
      <3>5. acctRequest[t].phase \in {"stamp", "done"}
        BY <3>2, <3>3 DEF AcctTokenOf, AcctIInv, AcctRequestOK
      <3>6. QED
        BY <3>2, <3>4, <3>5 DEF AcctLink
    <2>5. AcctLink(t, i)'
      BY <2>3, <2>4, AcctLinkStays
    <2>6. AcctRequestOK(r)'
      <3>1. AcctRowOK(acctRequest[r].row, acctRequest[r].id)'
        BY <2>1, <2>3 DEF AcctRowOK, AcctNoRow
      <3>2. AcctLink(acctRequest[r].token, acctRequest[r].id)'
        BY <2>1, <2>3, <2>5 DEF AcctLink
      <3>3. ~AcctMailed(r)' /\ acctLastId' = acctLastId
        BY <1>1, AcctHere DEF AcctMailed
      <3>4. QED
        BY <2>1, <2>3, <2>4, <3>1, <3>2, <3>3 DEF AcctRequestOK
    <2>7. QED
      BY <1>1, <2>3, <2>6, AcctQuiet
  <1>4. AcctDone(r) \/ \E i \in AcctIds, phase \in {"expire", "confirm"} :
          /\ acct[i].token = t
          /\ acctRequest' = [acctRequest EXCEPT
               ![r] = [AcctNew EXCEPT !.phase = phase, !.id = i, !.token = t]]
    BY DEF AcctClick
  <1>5. QED
    BY <1>2, <1>3, <1>4

(* A request goes on to another step with what it has.                     *)
LEMMA AcctGotoIsFine ==
    ASSUME AcctIInv, NEW r \in AcctRequests, NEW m, acctRequest[r].id \in AcctIds,
           NEW phase \in {"stamp", "save_token", "welcome"},
           AcctMoves(r, [acctRequest[r] EXCEPT !.phase = phase], m),
           phase = "welcome" => m = AcctNoMail,
           phase # "welcome" => m # AcctNoMail /\ m.user = acctRequest[r].id
    PROVE  AcctRequestOK(r)'
  <1> PICK req : req = acctRequest[r]
    OBVIOUS
  <1> DEFINE rec == [req EXCEPT !.phase = phase]
  <1>1. rec.phase = phase /\ rec.id = req.id /\ rec.row = req.row /\ rec.token = req.token
    BY AcctHere DEF AcctReq
  <1>2. AcctMoves(r, rec, m)
    OBVIOUS
  <1> HIDE DEF rec
  <1>3. acctRequest'[r] = rec /\ acctMail'[r] = m
    BY <1>2, AcctHere, AcctFrame
  <1>4. AcctRowOK(req.row, req.id) /\ req.id <= acctLastId /\ req.id \in Nat
        /\ req.row.token \in AcctStamps
    BY AcctHere, AcctNumbers DEF AcctRequestOK, AcctReq, AcctRow
  <1>5. AcctRowOK(req.row, req.id)'
    BY <1>2, <1>4, AcctRowStays
  <1>6. AcctRowOK(acctRequest[r].row, acctRequest[r].id)'
    BY <1>1, <1>3, <1>5 DEF AcctRowOK
  <1>7. req.id <= acctLastId'
    BY <1>2, <1>4, AcctHere DEF AcctMoves
  <1>8. QED
    BY <1>1, <1>3, <1>6, <1>7 DEF AcctRequestOK, AcctMailed, AcctNoMail

(* The broker takes the mail of the request, which ends.                   *)
LEMMA AcctQueuesAndEnds ==
    ASSUME AcctIInv, NEW r \in AcctRequests, AcctQueue(r), AcctDone(r),
           acctRequest[r].phase \in {"dispatch", "enqueue", "welcome"},
           UNCHANGED <<acct, acctLastId, acctOrdered, acctExpired, acctCooled, acctUsed>>
    PROVE  AcctIInv'
  <1> DEFINE m == [user |-> acctRequest[r].id, state |-> "queued"]
  <1>1. m \in AcctMails /\ AcctGone \in AcctReq
    <2>1. acctRequest[r].id \in AcctIds \cup {0}
      BY AcctHere DEF AcctReq
    <2>2. QED
      BY <2>1, AcctGoneIsNew DEF AcctMails
  <1>2. acctRequest' = [acctRequest EXCEPT ![r] = AcctGone]
    BY AcctGoneIsNew DEF AcctDone
  <1>3. acctMail' = [acctMail EXCEPT ![r] = m]
    BY DEF AcctQueue
  <1>4. AcctMoves(r, AcctGone, m)
    BY <1>1, <1>2, <1>3, AcctHere DEF AcctMoves, AcctSameMail, AcctGone, AcctMailed
  <1>5. acctRequest'[r] = AcctGone /\ acctLastId' \in Nat
    BY <1>2, AcctHere
  <1>6. QED
    BY <1>4, <1>5, AcctGoneIsFine, AcctQuiet

(* The broker takes the mail of the request, or refuses it.                *)
LEMMA AcctEnqueueKeeps ==
    ASSUME AcctIInv, NEW r \in AcctRequests, AcctDispatch(r) \/ AcctEnqueue(r)
    PROVE  AcctIInv'
  <1>1. /\ UNCHANGED <<acct, acctLastId, acctOrdered, acctExpired, acctCooled, acctUsed>>
        /\ acctRequest[r].phase \in {"dispatch", "enqueue"}
    BY DEF AcctDispatch, AcctEnqueue, acctClock, AcctAt
  <1>2. CASE UNCHANGED acctMail /\ AcctDone(r)
    BY <1>1, <1>2, AcctEnds, AcctQuiet
  <1>3. ASSUME NEW phase \in {"stamp", "save_token"}, AcctQueue(r), AcctGoto(r, phase),
               phase = "stamp" => acctRequest[r].phase = "dispatch",
               phase = "save_token" => acctRequest[r].phase = "enqueue"
        PROVE  AcctIInv'
    <2> DEFINE rec == [acctRequest[r] EXCEPT !.phase = phase]
               m == [user |-> acctRequest[r].id, state |-> "queued"]
    <2>1. rec.phase = phase /\ rec.id = acctRequest[r].id
      BY AcctHere DEF AcctReq
    <2>2. rec \in AcctReq /\ m \in AcctMails /\ m # AcctNoMail
      BY AcctHere DEF AcctReq, AcctPhases, AcctMails, AcctNoMail
    <2>3. acctRequest' = [acctRequest EXCEPT ![r] = rec]
      BY <1>3 DEF AcctGoto
    <2>4. acctMail' = [acctMail EXCEPT ![r] = m]
      BY <1>3 DEF AcctQueue
    <2>5. acctRequest[r].id \in AcctIds /\ ~AcctMailed(r)
      BY <1>1, AcctHere DEF AcctRequestOK, AcctMailed
    <2>6. m.user = acctRequest[r].id
      OBVIOUS
    <2> HIDE DEF rec
    <2>7. AcctMoves(r, rec, m)
      BY <1>1, <1>3, <2>1, <2>2, <2>3, <2>4, <2>5, AcctHere DEF AcctMoves, AcctSameMail
    <2> HIDE DEF m
    <2>8. AcctRequestOK(r)'
      BY <2>2, <2>5, <2>6, <2>7, AcctGotoIsFine DEF rec
    <2>9. QED
      BY <1>1, <2>7, <2>8, AcctQuiet
  <1>4. CASE AcctQueue(r) /\ AcctDone(r)
    BY <1>1, <1>4, AcctQueuesAndEnds
  <1>5. QED
    BY <1>2, <1>3, <1>4 DEF AcctDispatch, AcctEnqueue, AcctAt

LEMMA AcctWelcomeKeeps ==
    ASSUME AcctIInv, NEW r \in AcctRequests, AcctWelcome(r)
    PROVE  AcctIInv'
  <1>1. /\ UNCHANGED <<acct, acctLastId, acctOrdered, acctExpired, acctCooled, acctUsed>>
        /\ acctRequest[r].phase = "welcome" /\ AcctDone(r)
    BY DEF AcctWelcome, acctClock, AcctAt
  <1>2. CASE UNCHANGED acctMail
    BY <1>1, <1>2, AcctEnds, AcctQuiet
  <1>3. CASE AcctQueue(r)
    BY <1>1, <1>3, AcctQueuesAndEnds
  <1>4. QED
    BY <1>2, <1>3 DEF AcctWelcome

LEMMA AcctSendMailKeeps ==
    ASSUME AcctIInv, NEW r \in AcctRequests, AcctSendMail(r)
    PROVE  AcctIInv'
  <1>1. /\ UNCHANGED <<acct, acctLastId, acctOrdered, acctExpired, acctCooled, acctUsed, acctRequest>>
        /\ acctMail[r].state = "queued"
    BY DEF AcctSendMail, acctClock
  <1>2. PICK s \in {"sent", "lost"} : acctMail' = [acctMail EXCEPT ![r].state = s]
    BY DEF AcctSendMail
  <1> DEFINE m == [user |-> acctMail[r].user, state |-> s]
  <1>3. acctMail' = [acctMail EXCEPT ![r] = m] /\ m \in AcctMails
    <2>1. [acctMail[r] EXCEPT !.state = s] = m
      BY AcctHere DEF AcctMails
    <2>2. m \in AcctMails
      BY AcctHere DEF AcctMails
    <2>3. QED
      BY <1>2, <2>1, <2>2
  <1>4. AcctMoves(r, acctRequest[r], m)
    BY <1>1, <1>3, AcctHere DEF AcctMoves, AcctSameMail
  <1>5. AcctMailed(r) /\ m # AcctNoMail /\ acctMail'[r] = m
    BY <1>1, <1>3, AcctHere DEF AcctMailed, AcctNoMail
  <1> HIDE DEF m
  <1>6. AcctRequestOK(r)'
    BY <1>1, <1>4, <1>5, AcctOtherStays
  <1>7. QED
    BY <1>1, <1>4, <1>6, AcctQuiet

-----------------------------------------------------------------------------
(* The steps that write a row and end their request: Stamp, SaveToken,     *)
(* Expire, SaveProfile and Delete.                                         *)
AcctWriting(r) ==
    /\ AcctDone(r)
    /\ UNCHANGED <<acctLastId, acctOrdered, acctExpired, acctCooled, acctUsed, acctMail>>

LEMMA AcctWritingKeeps ==
    ASSUME AcctIInv, NEW r \in AcctRequests, AcctWriting(r),
           NEW i \in AcctIds, NEW row \in AcctRow, i <= acctLastId, AcctRowOK(row, i)',
           i \in acctOrdered => row.email # "none",
           acct' = acct \/ acct' = [acct EXCEPT ![i] = row]
    PROVE  AcctIInv'
  <1>1. AcctMoves(r, AcctGone, acctMail[r]) /\ AcctRequestOK(r)'
    BY AcctEnds DEF AcctWriting
  <1>2. CASE acct' = acct
    BY <1>1, <1>2, AcctQuiet DEF AcctWriting
  <1>3. CASE acct' = [acct EXCEPT ![i] = row]
    <2>1. acctUsed' \subseteq AcctRequests \X AcctIds /\ acctUsed' = acctUsed
      BY DEF AcctIInv, AcctTypeOK, AcctWriting
    <2>2. QED
      BY <1>1, <1>3, <2>1, AcctWrites DEF AcctWriting
  <1>4. QED
    BY <1>2, <1>3

LEMMA AcctStampKeeps ==
    ASSUME AcctIInv, NEW r \in AcctRequests, AcctStamp(r)
    PROVE  AcctIInv'
  <1> PICK i : i = acctRequest[r].id
    OBVIOUS
  <1> DEFINE row == [acct[i] EXCEPT !.sent = r]
  <1>1. AcctWriting(r) /\ acctRequest[r].phase = "stamp"
    BY DEF AcctStamp, AcctWriting, acctClock, AcctAt
  <1>2. i \in AcctIds /\ i <= acctLastId /\ AcctMailed(r) /\ acctMail[r].user = i
    BY <1>1, AcctHere DEF AcctRequestOK
  <1>3. acct[i] \in AcctRow /\ AcctRowOK(acct[i], i) /\ i \in Nat
    BY <1>2, AcctHere, AcctNumbers DEF AcctIInv, AcctRowsOK
  <1>4. row \in AcctRow /\ row.email = acct[i].email /\ row.confirmed = acct[i].confirmed
        /\ row.token = acct[i].token /\ row.token \in AcctStamps
    BY <1>3 DEF AcctRow, AcctStamps
  <1>5. row.token # 0 => AcctMailed(row.token)
    BY <1>1, <1>3, <1>4 DEF AcctRowOK
  <1>6. acct' = acct \/ acct' = [acct EXCEPT ![i] = row]
    BY DEF AcctStamp
  <1>7. i \in acctOrdered => row.email # "none"
    BY <1>4, AcctHere DEF AcctTypeOK, AcctExists
  <1>8. AcctRowOK(row, i)
    BY <1>3, <1>4, <1>5 DEF AcctRowOK
  <1> HIDE DEF row
  <1> PICK new : new = row
    OBVIOUS
  <1>9. AcctMoves(r, AcctGone, acctMail[r])
    BY <1>1, AcctEnds DEF AcctWriting
  <1>10. AcctRowOK(new, i)'
    BY <1>3, <1>4, <1>8, <1>9, AcctRowStays
  <1>11. QED
    BY <1>1, <1>2, <1>4, <1>6, <1>7, <1>10, AcctWritingKeeps

LEMMA AcctSaveTokenKeeps ==
    ASSUME AcctIInv, NEW r \in AcctRequests, AcctSaveToken(r)
    PROVE  AcctIInv'
  <1> PICK i : i = acctRequest[r].id
    OBVIOUS
  <1> PICK old : old = acct[i]
    OBVIOUS
  <1> DEFINE row == [[old EXCEPT !.token = r] EXCEPT !.sent = r]
  <1>1. AcctWriting(r) /\ acctRequest[r].phase = "save_token"
    BY DEF AcctSaveToken, AcctWriting, acctClock, AcctAt
  <1>2. i \in AcctIds /\ i <= acctLastId /\ AcctMailed(r) /\ acctMail[r].user = i
    BY <1>1, AcctHere DEF AcctRequestOK
  <1>3. old \in AcctRow /\ AcctRowOK(old, i) /\ i \in Nat /\ old.token \in AcctStamps
    <2>1. old \in AcctRow /\ AcctRowOK(old, i) /\ i \in Nat
      BY <1>2, AcctHere, AcctNumbers DEF AcctIInv, AcctRowsOK
    <2>2. QED
      BY <2>1 DEF AcctRow
  <1>4. row \in AcctRow /\ row.email = old.email /\ row.confirmed = old.confirmed
        /\ row.token = r
    BY <1>3 DEF AcctRow, AcctStamps
  <1>5. acct' = acct \/ acct' = [acct EXCEPT ![i] = row]
    BY <1>2, AcctHere DEF AcctSaveToken
  <1>6. i \in acctOrdered => row.email # "none"
    BY <1>4, AcctHere DEF AcctTypeOK, AcctExists
  <1> HIDE DEF row
  <1>7. AcctMoves(r, AcctGone, acctMail[r]) /\ acctRequest'[r] = AcctGone
    <2>1. AcctMoves(r, AcctGone, acctMail[r])
      BY <1>1, AcctEnds DEF AcctWriting
    <2>2. QED
      BY <2>1, AcctHere, AcctFrame
  <1>8. AcctRowOK(row, i)'
    <2>1. row.confirmed => \E t \in AcctRequests : <<t, i>> \in acctUsed'
      BY <1>1, <1>3, <1>4 DEF AcctRowOK, AcctWriting
    <2>2. AcctTokenOf(r, i)' /\ i <= acctLastId' /\ AcctMailed(r)'
      BY <1>1, <1>2, <1>7 DEF AcctTokenOf, AcctMailed, AcctWriting, AcctGone
    <2>3. PICK new : new = row
      OBVIOUS
    <2>4. AcctRowOK(new, i)'
      BY <1>4, <2>1, <2>2, <2>3 DEF AcctRowOK
    <2>5. QED
      BY <2>3, <2>4
  <1>9. QED
    BY <1>1, <1>2, <1>4, <1>5, <1>6, <1>8, AcctWritingKeeps

LEMMA AcctExpireKeeps ==
    ASSUME AcctIInv, NEW r \in AcctRequests, AcctExpire(r)
    PROVE  AcctIInv'
  <1> PICK i : i = acctRequest[r].id
    OBVIOUS
  <1> PICK old : old = acct[i]
    OBVIOUS
  <1> DEFINE row == [old EXCEPT !.token = 0]
  <1>1. AcctWriting(r) /\ acctRequest[r].phase = "expire"
    BY DEF AcctExpire, AcctWriting, acctClock, AcctAt
  <1>2. i \in AcctIds /\ i <= acctLastId
    BY <1>1, AcctHere DEF AcctRequestOK
  <1>3. old \in AcctRow /\ AcctRowOK(old, i)
    BY <1>2, AcctHere DEF AcctIInv, AcctRowsOK
  <1>4. row \in AcctRow /\ row.email = old.email /\ row.confirmed = old.confirmed
        /\ row.token = 0
    BY <1>3 DEF AcctRow, AcctStamps
  <1>5. acct' = acct \/ acct' = [acct EXCEPT ![i] = row]
    BY DEF AcctExpire
  <1>6. i \in acctOrdered => row.email # "none"
    BY <1>4, AcctHere DEF AcctTypeOK, AcctExists
  <1> HIDE DEF row
  <1>7. AcctRowOK(row, i)'
    BY <1>1, <1>3, <1>4 DEF AcctRowOK, AcctWriting
  <1>8. QED
    BY <1>1, <1>2, <1>4, <1>5, <1>6, <1>7, AcctWritingKeeps

LEMMA AcctSaveProfileKeeps ==
    ASSUME AcctIInv, NEW r \in AcctRequests, AcctSaveProfile(r)
    PROVE  AcctIInv'
  <1> PICK i : i = acctRequest[r].id
    OBVIOUS
  <1> PICK row : row = acctRequest[r].row
    OBVIOUS
  <1>1. AcctWriting(r) /\ acctRequest[r].phase = "save_profile"
    BY DEF AcctSaveProfile, AcctWriting, acctClock, AcctAt
  <1>2. i \in AcctIds /\ i <= acctLastId /\ row.email \in AcctEmails /\ AcctRowOK(row, i)
    BY <1>1, AcctHere DEF AcctRequestOK
  <1>3. row \in AcctRow /\ row.token \in AcctStamps /\ row.email # "none" /\ i \in Nat
    <2>1. row \in AcctRow /\ row.email # "none"
      BY <1>2, AcctHere, AcctAssumption DEF AcctReq, AcctAssumption
    <2>2. QED
      BY <1>2, <2>1, AcctNumbers DEF AcctRow
  <1>4. acct' = acct \/ acct' = [acct EXCEPT ![i] = row]
    BY DEF AcctSaveProfile
  <1>5. AcctMoves(r, AcctGone, acctMail[r])
    BY <1>1, AcctEnds DEF AcctWriting
  <1>6. AcctRowOK(row, i)'
    BY <1>2, <1>3, <1>5, AcctRowStays
  <1>7. QED
    BY <1>1, <1>2, <1>3, <1>4, <1>6, AcctWritingKeeps

LEMMA AcctDeleteKeeps ==
    ASSUME AcctIInv, NEW r \in AcctRequests, AcctDelete(r)
    PROVE  AcctIInv'
  <1> PICK i : i = acctRequest[r].id
    OBVIOUS
  <1>1. AcctWriting(r) /\ acctRequest[r].phase = "delete"
    BY DEF AcctDelete, AcctWriting, acctClock, AcctAt
  <1>2. i \in AcctIds /\ i <= acctLastId
    BY <1>1, AcctHere DEF AcctRequestOK
  <1>3. AcctRowOK(AcctNoRow, i)'
    BY DEF AcctRowOK, AcctNoRow
  <1>4. CASE i \in acctOrdered
    <2>1. AcctMoves(r, AcctGone, acctMail[r]) /\ AcctRequestOK(r)'
      BY <1>1, AcctEnds DEF AcctWriting
    <2>2. QED
      BY <1>1, <1>4, <2>1, AcctQuiet DEF AcctDelete, AcctWriting
  <1>5. CASE i \notin acctOrdered
    <2>1. acct' = [acct EXCEPT ![i] = AcctNoRow]
      BY <1>5 DEF AcctDelete
    <2>2. QED
      BY <1>1, <1>2, <1>3, <1>5, <2>1, AcctMakesRow, AcctWritingKeeps
  <1>6. QED
    BY <1>4, <1>5

(* The link confirms the account it was mailed for, and no other.          *)
LEMMA AcctConfirmKeeps ==
    ASSUME AcctIInv, NEW r \in AcctRequests, AcctConfirm(r)
    PROVE  AcctIInv'
  <1> PICK i : i = acctRequest[r].id
    OBVIOUS
  <1> PICK t : t = acctRequest[r].token
    OBVIOUS
  <1> PICK old : old = acct[i]
    OBVIOUS
  <1>1. /\ UNCHANGED <<acctLastId, acctOrdered, acctExpired, acctCooled, acctMail>>
        /\ acctRequest[r].phase = "confirm"
    BY DEF AcctConfirm, acctClock, AcctAt
  <1>2. i \in AcctIds /\ i <= acctLastId /\ t \in AcctRequests /\ AcctLink(t, i)
    BY <1>1, AcctHere DEF AcctRequestOK
  <1>3. CASE AcctDone(r) /\ UNCHANGED <<acct, acctUsed>>
    BY <1>1, <1>3, AcctEnds, AcctQuiet
  <1>4. CASE /\ AcctExists(i)
             /\ acct' = [acct EXCEPT ![i].confirmed = TRUE, ![i].token = 0]
             /\ acctUsed' = acctUsed \cup {<<t, i>>}
             /\ AcctGoto(r, "welcome")
    <2> DEFINE row == [[old EXCEPT !.confirmed = TRUE] EXCEPT !.token = 0]
               rec == [acctRequest[r] EXCEPT !.phase = "welcome"]
    <2>1. old \in AcctRow /\ old.email # "none"
      BY <1>2, <1>4, AcctHere DEF AcctExists
    <2>2. row \in AcctRow /\ row.email = old.email /\ row.token = 0
      BY <2>1 DEF AcctRow, AcctStamps
    <2>3. acct' = [acct EXCEPT ![i] = row]
      BY <1>2, <1>4, AcctHere
    <2> HIDE DEF row
    <2>4. rec.phase = "welcome" /\ rec.id = i /\ rec \in AcctReq
      BY AcctHere DEF AcctReq, AcctPhases
    <2>5. acctRequest' = [acctRequest EXCEPT ![r] = rec]
      BY <1>4 DEF AcctGoto
    <2> HIDE DEF rec
    <2>6. AcctMoves(r, rec, acctMail[r])
      BY <1>1, <1>4, <2>4, <2>5, AcctHere DEF AcctMoves, AcctSameMail
    <2>7. AcctRequestOK(r)'
      BY <1>1, <1>2, <2>6, AcctHere, AcctGotoIsFine DEF rec
    <2>8. AcctRowOK(row, i)'
      BY <1>2, <1>4, <2>2 DEF AcctRowOK
    <2>9. AcctLink(t, i)'
      BY <1>2, <2>6, AcctLinkStays
    <2>10. acctUsed' \subseteq AcctRequests \X AcctIds
      BY <1>2, <1>4, AcctHere DEF AcctTypeOK
    <2>11. ASSUME NEW u \in AcctRequests, NEW j \in AcctIds, <<u, j>> \in acctUsed'
           PROVE  <<u, j>> \in acctUsed \/ AcctLink(u, j)'
      BY <1>4, <2>9, <2>11
    <2>12. QED
      BY <1>1, <1>2, <2>1, <2>2, <2>3, <2>6, <2>7, <2>8, <2>10, <2>11, AcctWrites
  <1>5. QED
    BY <1>3, <1>4 DEF AcctConfirm

(* A registration inserts a user nobody has heard of yet.                  *)
LEMMA AcctInsertKeeps ==
    ASSUME AcctIInv, NEW r \in AcctRequests, AcctInsert(r)
    PROVE  AcctIInv'
  <1> PICK e : e = acctRequest[r].row.email
    OBVIOUS
  <1> PICK i : i = acctLastId + 1
    OBVIOUS
  <1>1. /\ UNCHANGED <<acctOrdered, acctMail, acctExpired, acctCooled, acctUsed>>
        /\ acctRequest[r].phase = "insert"
    BY DEF AcctInsert, acctClock, AcctAt
  <1>2. CASE AcctDone(r) /\ UNCHANGED <<acct, acctLastId>>
    BY <1>1, <1>2, AcctEnds, AcctQuiet
  <1>3. CASE /\ i \in AcctIds
             /\ acct' = [acct EXCEPT ![i] = [AcctNoRow EXCEPT !.email = e, !.token = r]]
             /\ acctLastId' = i
             /\ acctRequest' = [acctRequest EXCEPT ![r].phase = "dispatch", ![r].id = i]
    <2> DEFINE row == [[AcctNoRow EXCEPT !.email = e] EXCEPT !.token = r]
               rec == [[acctRequest[r] EXCEPT !.phase = "dispatch"] EXCEPT !.id = i]
    <2>1. e \in AcctEmails /\ e # "none" /\ ~acctRequest[r].row.confirmed
          /\ acctRequest[r].row.token = 0
      BY <1>1, AcctHere, AcctAssumption DEF AcctRequestOK, AcctAssumption
    <2>2. row.token = r /\ row.sent = 0 /\ ~row.confirmed /\ row.email = e
      BY DEF AcctNoRow
    <2>3. row \in AcctRow
      <3>1. r \in AcctStamps
        BY DEF AcctStamps
      <3>2. QED
        BY <2>1, <3>1, AcctMakesRow DEF AcctRow
    <2>4. acct' = [acct EXCEPT ![i] = row]
      BY <1>3
    <2> HIDE DEF row
    <2>5. /\ rec.phase = "dispatch" /\ rec.id = i /\ rec.row = acctRequest[r].row
          /\ rec \in AcctReq
      BY <1>3, AcctHere DEF AcctReq, AcctPhases
    <2>6. acctRequest' = [acctRequest EXCEPT ![r] = rec]
      BY <1>3, AcctHere
    <2> HIDE DEF rec
    <2>7. i \in Nat /\ i > acctLastId /\ acctLastId \in Nat
      BY AcctHere
    <2>8. AcctMoves(r, rec, acctMail[r])
      <3>1. acctMail' = [acctMail EXCEPT ![r] = acctMail[r]] /\ acctMail[r] \in AcctMails
        BY <1>1, AcctHere
      <3>2. acctLastId' \in Nat /\ acctLastId <= acctLastId' /\ rec.id > acctLastId
        BY <1>3, <2>5, <2>7
      <3>3. QED
        BY <1>1, <2>5, <2>6, <3>1, <3>2 DEF AcctMoves, AcctSameMail
    <2>9. /\ acctRequest'[r] = rec /\ acctMail'[r] = AcctNoMail
          /\ \A q \in AcctRequests \ {r} : acctRequest'[q] = acctRequest[q]
      BY <1>1, <2>8, AcctHere, AcctFrame
    <2>10. AcctRequestOK(r)'
      <3>1. AcctRowOK(acctRequest[r].row, acctRequest[r].id)'
        BY <2>1, <2>5, <2>9 DEF AcctRowOK
      <3>2. rec.id <= acctLastId'
        BY <1>3, <2>5, <2>7
      <3>3. QED
        BY <1>3, <2>5, <2>9, <3>1, <3>2 DEF AcctRequestOK, AcctMailed, AcctNoMail
    <2>11. \A q \in AcctRequests : acctRequest'[q].id = i => q = r
      <3>1. SUFFICES ASSUME NEW q \in AcctRequests, acctRequest'[q].id = i, q # r
                     PROVE  FALSE
        OBVIOUS
      <3>2. acctRequest[q].id = i
        BY <2>9, <3>1
      <3>3. acctRequest[q].id <= acctLastId
        BY AcctHere DEF AcctRequestOK
      <3>4. QED
        BY <2>7, <3>2, <3>3
    <2>12. AcctRowOK(row, i)'
      <3>1. AcctTokenOf(r, i)' /\ ~AcctMailed(r)'
        BY <2>5, <2>9 DEF AcctTokenOf, AcctMailed, AcctNoMail
      <3>2. i <= acctLastId'
        BY <1>3, <2>7
      <3>3. acctRequest'[r].phase # "stamp"
        BY <2>5, <2>9
      <3>4. QED
        BY <2>2, <2>11, <3>1, <3>2, <3>3 DEF AcctRowOK
    <2>13. acct' \in [AcctIds -> AcctRow] /\ acctLastId' \in AcctIds \cup {0}
           /\ acct'[i] = row /\ \A j \in AcctIds \ {i} : acct'[j] = acct[j]
      BY <1>3, <2>3, <2>4, AcctHere
    <2>14. AcctRowOK(acct[i], i)'
      BY <2>12, <2>13 DEF AcctRowOK
    <2>15. acctUsed' \subseteq AcctRequests \X AcctIds
      BY <1>1, AcctHere DEF AcctTypeOK
    <2>16. i <= acctLastId' /\ acct'[i].email # "none"
      BY <1>3, <2>1, <2>2, <2>7, <2>13
    <2>17. QED
      BY <1>1, <2>8, <2>10, <2>13, <2>14, <2>15, <2>16, AcctMoveKeeps
  <1>4. QED
    BY <1>2, <1>3 DEF AcctInsert

(* The checkout and the clock.                                             *)
LEMMA AcctSideKeeps ==
    ASSUME AcctIInv, UNCHANGED <<acct, acctLastId, acctMail, acctRequest, acctUsed>>, AcctTypeOK'
    PROVE  AcctIInv'
  <1>1. \A t : AcctMailed(t)' = AcctMailed(t)
    BY DEF AcctMailed, AcctNoMail
  <1>2. \A t, i : AcctTokenOf(t, i)' = AcctTokenOf(t, i) /\ AcctLink(t, i)' = AcctLink(t, i)
    BY <1>1 DEF AcctTokenOf, AcctLink
  <1>3. \A row, i : AcctRowOK(row, i)' = AcctRowOK(row, i)
    BY <1>1, <1>2 DEF AcctRowOK
  <1>4. AcctRowsOK' /\ AcctLinksUsed'
    BY <1>2, <1>3 DEF AcctIInv, AcctRowsOK, AcctLinksUsed, AcctExists
  <1>5. \A r \in AcctRequests : AcctRequestOK(r)'
    BY <1>1, <1>2, <1>3 DEF AcctIInv, AcctRequestOK
  <1>6. QED
    BY <1>4, <1>5 DEF AcctIInv

LEMMA AcctInitHolds == AcctInit => AcctIInv
  <1> SUFFICES ASSUME AcctInit  PROVE AcctIInv
    OBVIOUS
  <1>1. AcctNoRow \in AcctRow /\ AcctNoMail \in AcctMails /\ AcctNew \in AcctReq
    BY AcctMakesRow, AcctMakesReq DEF AcctNew, AcctNoMail, AcctMails, AcctPhases, AcctStamps
  <1>2. AcctTypeOK
    BY <1>1 DEF AcctInit, AcctTypeOK
  <1>3. \A i : AcctRowOK(AcctNoRow, i)
    BY DEF AcctRowOK, AcctNoRow
  <1>4. AcctRowsOK /\ AcctLinksUsed
    BY <1>3 DEF AcctInit, AcctRowsOK, AcctLinksUsed, AcctExists, AcctNoRow
  <1>5. \A r \in AcctRequests : AcctRequestOK(r)
    BY <1>3 DEF AcctInit, AcctRequestOK, AcctNew, AcctMailed
  <1>6. QED
    BY <1>2, <1>4, <1>5 DEF AcctIInv

LEMMA AcctNextKeeps == AcctIInv /\ [AcctNext]_acctVars => AcctIInv'
  <1> SUFFICES ASSUME AcctIInv, [AcctNext]_acctVars  PROVE AcctIInv'
    OBVIOUS
  <1>1. ASSUME NEW r \in AcctRequests, NEW e \in AcctEmails, AcctRegister(r, e)  PROVE AcctIInv'
    BY <1>1, AcctRegisterKeeps
  <1>2. ASSUME NEW r \in AcctRequests, NEW t \in AcctRequests, AcctClick(r, t)  PROVE AcctIInv'
    BY <1>2, AcctClickKeeps
  <1>3. ASSUME NEW r \in AcctRequests, NEW i \in AcctIds,
               AcctAskResend(r, i) \/ AcctEditProfile(r, i) \/ AcctAskDelete(r, i)
        PROVE  AcctIInv'
    BY <1>3, AcctAskKeeps
  <1>4. ASSUME NEW r \in AcctRequests, AcctStep(r)  PROVE AcctIInv'
    BY <1>4, AcctInsertKeeps, AcctEnqueueKeeps, AcctStampKeeps, AcctSaveTokenKeeps,
       AcctExpireKeeps, AcctConfirmKeeps, AcctWelcomeKeeps, AcctSaveProfileKeeps,
       AcctDeleteKeeps, AcctSendMailKeeps DEF AcctStep
  <1>5. ASSUME NEW r \in AcctRequests, AcctCooldownEnds(r) \/ AcctTokenExpires(r)
        PROVE  AcctIInv'
    <2>1. UNCHANGED <<acct, acctLastId, acctMail, acctRequest, acctUsed>>
      BY <1>5 DEF AcctCooldownEnds, AcctTokenExpires
    <2>2. AcctTypeOK'
      BY <1>5 DEF AcctCooldownEnds, AcctTokenExpires, AcctIInv, AcctTypeOK, AcctExists
    <2>3. QED
      BY <2>1, <2>2, AcctSideKeeps
  <1>6. ASSUME NEW i \in AcctIds, AcctOrderPlaced(i)  PROVE AcctIInv'
    <2>1. UNCHANGED <<acct, acctLastId, acctMail, acctRequest, acctUsed>>
      BY <1>6 DEF AcctOrderPlaced
    <2>2. AcctTypeOK'
      BY <1>6 DEF AcctOrderPlaced, acctClock, AcctIInv, AcctTypeOK, AcctExists
    <2>3. QED
      BY <2>1, <2>2, AcctSideKeeps
  <1>7. CASE UNCHANGED acctVars
    <2>1. AcctTypeOK' /\ UNCHANGED <<acct, acctLastId, acctMail, acctRequest, acctUsed>>
      BY <1>7 DEF acctVars, acctClock, AcctIInv, AcctTypeOK, AcctExists
    <2>2. QED
      BY <2>1, AcctSideKeeps
  <1>8. QED
    BY <1>1, <1>2, <1>3, <1>4, <1>5, <1>6, <1>7 DEF AcctNext

(* Every account that is confirmed, or about to be, has its mailed link    *)
(* behind it, and every token its mail or its registration.                *)
THEOREM AccountsInvariant == AcctSpec => []AcctIInv
  BY AcctInitHolds, AcctNextKeeps, PTL DEF AcctSpec

(* Rows, requests and mails are of their kinds, and no user with orders is *)
(* ever deleted.                                                           *)
THEOREM AccountsTypes == AcctSpec => []AcctTypeOK
  <1>1. AcctIInv => AcctTypeOK
    BY DEF AcctIInv
  <1>2. QED
    BY <1>1, AccountsInvariant, PTL

(* An account sees the guest orders of its address only after the link     *)
(* that was mailed for it has been used, whatever registrations, stale     *)
(* profile edits, deletions and old links come in between.                 *)
THEOREM GuestOrdersNeedLink == AcctSpec => []AcctGuestOrdersNeedLink
  <1>1. AcctIInv => AcctGuestOrdersNeedLink
    BY DEF AcctIInv, AcctRowsOK, AcctRowOK, AcctLinksUsed, AcctLink, AcctGuestOrdersNeedLink,
           AcctSeesGuestOrders
  <1>2. QED
    BY <1>1, AccountsInvariant, PTL

(* A token that a row with a sent mail would accept has gone to the        *)
(* broker: a failed enqueue never replaces the last link.                  *)
THEOREM LiveLinkWasMailed == AcctSpec => []AcctLiveLinkWasMailed
  <1>1. AcctIInv => AcctLiveLinkWasMailed
    BY DEF AcctIInv, AcctRowsOK, AcctRowOK, AcctMailed, AcctLiveLinkWasMailed
  <1>2. QED
    BY <1>1, AccountsInvariant, PTL

(* A step other than a saved profile keeps a confirmation, and never puts  *)
(* a used token back into a row.                                           *)
AcctKeepsRow(i) ==
    AcctExists(i) /\ AcctExists(i)' =>
        /\ acct[i].confirmed => acct'[i].confirmed
        /\ acct'[i].token # acct[i].token => <<acct'[i].token, i>> \notin acctUsed

LEMMA AcctRowsKept ==
    ASSUME AcctIInv, AcctNext, NEW i \in AcctIds,
           ~ \E r \in AcctRequests : AcctSaveProfile(r) /\ acctRequest[r].id = i
    PROVE  AcctKeepsRow(i)
  <1>0. acct \in [AcctIds -> AcctRow] /\ acctUsed \subseteq AcctRequests \X AcctIds /\ AcctTypeOK
    BY DEF AcctIInv, AcctTypeOK
  <1>1. acct[i] \in AcctRow /\ <<0, i>> \notin acctUsed
    BY <1>0, AcctNumbers
  <1>2. CASE acct'[i] = acct[i]
    BY <1>2 DEF AcctKeepsRow
  <1>3. ASSUME NEW r \in AcctRequests, AcctInsert(r)  PROVE AcctKeepsRow(i)
    <2>1. acct'[i] = acct[i] \/ i = acctLastId + 1
      BY <1>0, <1>3 DEF AcctInsert
    <2>2. AcctExists(i) => i <= acctLastId
      BY DEF AcctIInv, AcctRowsOK
    <2>3. i = acctLastId + 1 => ~AcctExists(i)
      BY <1>0, <2>2, AcctNumbers
    <2>4. QED
      BY <1>2, <2>1, <2>3 DEF AcctKeepsRow
  <1>4. ASSUME NEW r \in AcctRequests, AcctStamp(r)  PROVE AcctKeepsRow(i)
    <2>1. acct'[i] = acct[i] \/ acct'[i] = [acct[i] EXCEPT !.sent = r]
      BY <1>0, <1>4 DEF AcctStamp
    <2>2. QED
      BY <1>1, <2>1 DEF AcctKeepsRow, AcctRow
  <1>5. ASSUME NEW r \in AcctRequests, AcctSaveToken(r)  PROVE AcctKeepsRow(i)
    <2>1. \/ acct'[i] = acct[i]
          \/ acct'[i].confirmed = acct[i].confirmed /\ acct'[i].token = r
      BY <1>0, <1>1, <1>5 DEF AcctSaveToken, AcctRow
    <2>2. <<r, i>> \notin acctUsed
      BY <1>5 DEF AcctIInv, AcctLinksUsed, AcctLink, AcctSaveToken, AcctAt
    <2>3. QED
      BY <1>2, <2>1, <2>2 DEF AcctKeepsRow
  <1>6. ASSUME NEW r \in AcctRequests, AcctExpire(r) \/ AcctConfirm(r)  PROVE AcctKeepsRow(i)
    <2>1. CASE AcctExpire(r)
      <3>1. \/ acct'[i] = acct[i]
            \/ acct'[i].confirmed = acct[i].confirmed /\ acct'[i].token = 0
        BY <1>0, <1>1, <2>1 DEF AcctExpire, AcctRow
      <3>2. QED
        BY <1>1, <1>2, <3>1 DEF AcctKeepsRow
    <2>2. CASE AcctConfirm(r)
      <3>1. \/ acct'[i] = acct[i]
            \/ acct'[i].confirmed /\ acct'[i].token = 0
        BY <1>0, <1>1, <2>2 DEF AcctConfirm, AcctRow
      <3>2. QED
        BY <1>1, <1>2, <3>1 DEF AcctKeepsRow
    <2>3. QED
      BY <1>6, <2>1, <2>2
  <1>7. ASSUME NEW r \in AcctRequests, AcctDelete(r)  PROVE AcctKeepsRow(i)
    <2>1. acct'[i] = acct[i] \/ acct'[i] = AcctNoRow
      BY <1>0, <1>7 DEF AcctDelete
    <2>2. QED
      BY <1>2, <2>1 DEF AcctKeepsRow, AcctExists, AcctNoRow
  <1>8. ASSUME NEW r \in AcctRequests, AcctSaveProfile(r)  PROVE AcctKeepsRow(i)
    <2>1. acct'[i] = acct[i]
      BY <1>0, <1>8 DEF AcctSaveProfile
    <2>2. QED
      BY <1>2, <2>1
  <1>9. CASE UNCHANGED acct
    BY <1>2, <1>9
  <1>10. QED
    <2>1. \/ UNCHANGED acct
          \/ \E r \in AcctRequests :
               \/ AcctInsert(r) \/ AcctStamp(r) \/ AcctSaveToken(r) \/ AcctExpire(r)
               \/ AcctConfirm(r) \/ AcctSaveProfile(r) \/ AcctDelete(r)
      <3>1. ASSUME NEW r \in AcctRequests,
                   \/ \E e \in AcctEmails : AcctRegister(r, e)
                   \/ \E t \in AcctRequests : AcctClick(r, t)
                   \/ \E j \in AcctIds : AcctAskResend(r, j) \/ AcctEditProfile(r, j)
                                          \/ AcctAskDelete(r, j)
                   \/ AcctDispatch(r) \/ AcctEnqueue(r) \/ AcctWelcome(r) \/ AcctSendMail(r)
                   \/ AcctCooldownEnds(r) \/ AcctTokenExpires(r)
            PROVE  UNCHANGED acct
        BY <3>1 DEF AcctRegister, AcctClick, AcctAskResend, AcctEditProfile, AcctAskDelete,
                    AcctDispatch, AcctEnqueue, AcctWelcome, AcctSendMail, AcctCooldownEnds,
                    AcctTokenExpires
      <3>2. ASSUME NEW j \in AcctIds, AcctOrderPlaced(j)  PROVE UNCHANGED acct
        BY <3>2 DEF AcctOrderPlaced
      <3>3. QED
        BY <3>1, <3>2 DEF AcctNext, AcctStep
    <2>2. QED
      BY <1>3, <1>4, <1>5, <1>6, <1>7, <1>8, <1>9, <2>1

(* The steps of accounts that satisfy the invariant take nothing back, but *)
(* for stale edits.                                                        *)
LEMMA AcctStepsGoBack == []AcctIInv /\ [][AcctNext]_acctVars => AcctOnlyStaleEditsGoBack
  <1> DEFINE Back(i) == /\ AcctExists(i) /\ AcctExists(i)'
                        /\ \/ acct[i].confirmed /\ ~acct'[i].confirmed
                           \/ acct'[i].token # acct[i].token /\ <<acct'[i].token, i>> \in acctUsed
             Stale(i) == \E r \in AcctRequests : /\ AcctAt(r, "save_profile") /\ AcctAt(r, "done")'
                                                /\ acctRequest[r].id = i
                                                /\ acctRequest[r].row # acct[i]
  <1>1. AcctIInv /\ [AcctNext]_acctVars =>
          [\A i \in AcctIds :
             (/\ AcctExists(i) /\ AcctExists(i)'
              /\ \/ acct[i].confirmed /\ ~acct'[i].confirmed
                 \/ acct'[i].token # acct[i].token /\ <<acct'[i].token, i>> \in acctUsed)
             => \E r \in AcctRequests : /\ AcctAt(r, "save_profile") /\ AcctAt(r, "done")'
                                        /\ acctRequest[r].id = i
                                        /\ acctRequest[r].row # acct[i]]_acctVars
    <2>1. SUFFICES ASSUME AcctIInv, AcctNext, NEW i \in AcctIds, Back(i)
                   PROVE  Stale(i)
      OBVIOUS
    <2>2. PICK r \in AcctRequests : AcctSaveProfile(r) /\ acctRequest[r].id = i
      BY <2>1, AcctRowsKept DEF AcctKeepsRow
    <2>3. AcctAt(r, "save_profile") /\ AcctAt(r, "done")'
      <3>1. acctRequest' = [acctRequest EXCEPT ![r] = AcctGone]
        BY <2>2, AcctGoneIsNew DEF AcctSaveProfile, AcctDone
      <3>2. acctRequest'[r] = AcctGone
        BY <2>1, <3>1, AcctHere
      <3>3. QED
        BY <2>2, <3>2 DEF AcctSaveProfile, AcctAt, AcctGone
    <2>4. acctRequest[r].row # acct[i]
      <3>1. acct'[i] = acct[i] \/ acct'[i] = acctRequest[r].row
        BY <2>1, <2>2, AcctHere DEF AcctSaveProfile
      <3>2. acct'[i] # acct[i]
        BY <2>1
      <3>3. QED
        BY <3>1, <3>2
    <2>5. QED
      BY <2>2, <2>3, <2>4
  <1>2. QED
    BY <1>1, PTL DEF AcctOnlyStaleEditsGoBack

(* A confirmation is taken back, and a used link comes to life again, only *)
(* when a profile form saves the row as it had loaded it before.           *)
THEOREM OnlyStaleEditsGoBack == AcctSpec => AcctOnlyStaleEditsGoBack
  BY AccountsInvariant, AcctStepsGoBack, PTL DEF AcctSpec

-----------------------------------------------------------------------------
(* Support requests.                                                       *)

(* Nobody says "sent" of a mail that no server has accepted: neither the   *)
(* row, nor a task about to write it, nor the page of the admin.           *)
SupSaysTrue ==
    /\ supRow.sent \/ supAdmin.sent => supMailed
    /\ \A k \in SupportTasks : SupTaskAt(k, "success") => supMailed

(* While the row says nothing, somebody is going to write it.              *)
SupWriterLeft ==
    supRow.there /\ supCrashed = 0 /\ ~supStale /\ ~supRow.sent /\ ~supRow.error =>
        \/ supView \in {"publish", "refused"}
        \/ \E k \in SupportTasks : supTask[k].step \in {"queued", "send", "failure", "success"}

SupIInv ==
    /\ SupTypeOK /\ SupSaysTrue /\ SupWriterLeft
    /\ supAdmin.step # "idle" => supEdits < SupportEditMax

LEMMA SupInitHolds == SupInit => SupIInv
  <1> SUFFICES ASSUME SupInit  PROVE SupIInv
    OBVIOUS
  <1>1. 0 \in 0..SupportRetries /\ 0 \in 0..SupportCrashMax /\ 0 \in 0..SupportEditMax
    BY SupportAssumption DEF SupportAssumption
  <1>2. SupTypeOK
    BY <1>1 DEF SupInit, SupTypeOK, SupRow, SupSteps
  <1>3. SupSaysTrue /\ SupWriterLeft
    BY DEF SupInit, SupSaysTrue, SupWriterLeft, SupTaskAt
  <1>4. QED
    BY <1>2, <1>3 DEF SupInit, SupIInv

(* The form and its view.                                                  *)
LEMMA SupViewKeeps ==
    ASSUME SupIInv, SupSubmit \/ SupUnreachable \/ SupRefused \/ SupViewCrash
    PROVE  SupIInv'
  <1>1. CASE SupSubmit
    BY <1>1 DEF SupSubmit, SupIInv, SupTypeOK, SupSaysTrue, SupWriterLeft, SupRow, SupTaskAt, supHistory
  <1>2. CASE SupUnreachable
    BY <1>2 DEF SupUnreachable, SupIInv, SupTypeOK, SupSaysTrue, SupWriterLeft, SupTaskAt, supHistory
  <1>3. CASE SupRefused
    <2>1. supRow' \in SupRow /\ (supRow'.sent => supRow.sent)
          /\ (supRow'.there => supRow'.error)
      BY <1>3 DEF SupRefused, SupWrite, SupIInv, SupTypeOK, SupRow
    <2>2. QED
      BY <1>3, <2>1 DEF SupRefused, SupIInv, SupTypeOK, SupSaysTrue, SupWriterLeft, SupTaskAt, supHistory
  <1>4. CASE SupViewCrash
    BY <1>4, SupportAssumption
    DEF SupportAssumption, SupViewCrash, SupIInv, SupTypeOK, SupSaysTrue, SupWriterLeft, SupTaskAt
  <1>5. QED
    BY <1>1, <1>2, <1>3, <1>4

(* The deliveries of the task: task k becomes what it becomes, the others  *)
(* stay.                                                                   *)
SupTaskType == [step : SupSteps, retries : 0..SupportRetries]

LEMMA SupTaskMoves ==
    ASSUME SupIInv, NEW k \in SupportTasks, NEW task \in SupTaskType,
           supTask' = [supTask EXCEPT ![k] = task],
           supMailed => supMailed', supMailed' \in BOOLEAN,
           task.step = "success" => supMailed',
           UNCHANGED <<supAdmin, supStale, supEdits>>,
           supView' \in {"publish", "refused", "done"} \/ supView' = supView,
           supRow' \in SupRow, supRow'.sent => supMailed',
           supCrashed' \in 0..SupportCrashMax,
           supCrashed' = 0 => supCrashed = 0,
           \/ task.step \in {"queued", "send", "failure", "success"}
           \/ ~supRow'.there \/ supCrashed' # 0 \/ supRow'.sent \/ supRow'.error
    PROVE  SupIInv'
  <1>1. supTask \in [SupportTasks -> SupTaskType]
    BY DEF SupIInv, SupTypeOK, SupTaskType
  <1>2. supTask' \in [SupportTasks -> SupTaskType] /\ supTask'[k] = task
        /\ \A j \in SupportTasks : j # k => supTask'[j] = supTask[j]
    BY <1>1
  <1>3. SupTypeOK'
    BY <1>2 DEF SupIInv, SupTypeOK, SupTaskType
  <1>4. SupSaysTrue'
    BY <1>2 DEF SupIInv, SupSaysTrue, SupTaskAt
  <1>5. SupWriterLeft'
    BY <1>2 DEF SupWriterLeft
  <1>6. QED
    BY <1>3, <1>4, <1>5 DEF SupIInv

LEMMA SupTaskKeeps ==
    ASSUME SupIInv, NEW k \in SupportTasks,
           SupPublish(k) \/ SupStart(k) \/ SupSend(k) \/ SupRecord(k) \/ SupCrash(k)
    PROVE  SupIInv'
  <1>0. /\ supTask[k] \in SupTaskType /\ supTask \in [SupportTasks -> SupTaskType]
        /\ supRow \in SupRow /\ (supRow.sent => supMailed)
        /\ supMailed \in BOOLEAN /\ supCrashed \in 0..SupportCrashMax /\ SupportCrashMax \in Nat
        /\ SupportRetries \in Nat
    BY SupportAssumption DEF SupportAssumption, SupIInv, SupTypeOK, SupSaysTrue, SupTaskType
  <1>1. ASSUME NEW step \in SupSteps
        PROVE  [supTask[k] EXCEPT !.step = step] \in SupTaskType
               /\ [supTask[k] EXCEPT !.step = step].step = step
    BY <1>0 DEF SupTaskType
  <1>2. ASSUME NEW step \in SupSteps, SupTaskTo(k, step)
        PROVE  supTask' = [supTask EXCEPT ![k] = [supTask[k] EXCEPT !.step = step]]
    BY <1>0, <1>2 DEF SupTaskTo
  <1>3. CASE SupPublish(k)
    <2>1. SupTaskTo(k, "queued") /\ "queued" \in SupSteps
          /\ supView' \in {"publish", "refused", "done"}
          /\ UNCHANGED <<supRow, supAdmin, supMailed, supStale, supCrashed, supEdits>>
      BY <1>3 DEF SupPublish, SupSteps, supHistory
    <2>2. QED
      BY <1>0, <1>1, <1>2, <2>1, SupTaskMoves
  <1>4. CASE SupStart(k)
    <2>1. UNCHANGED <<supRow, supView, supAdmin, supMailed, supStale, supCrashed, supEdits>>
      BY <1>4 DEF SupStart, supHistory
    <2>2. PICK step \in {"failure", "send", "done"} :
            SupTaskTo(k, step) /\ (step = "done" => ~supRow.there)
      BY <1>4 DEF SupStart
    <2>3. step \in SupSteps
      BY DEF SupSteps
    <2>4. QED
      BY <1>0, <1>1, <1>2, <2>1, <2>2, <2>3, SupTaskMoves
  <1>5. CASE SupSend(k)
    <2>1. UNCHANGED <<supRow, supView, supAdmin, supStale, supCrashed, supEdits>>
          /\ supMailed' \in {supMailed, TRUE}
      BY <1>5 DEF SupSend
    <2>2. CASE supMailed' = TRUE /\ SupTaskTo(k, "success")
      <3>1. "success" \in SupSteps
        BY DEF SupSteps
      <3>2. QED
        BY <1>0, <1>1, <1>2, <2>1, <2>2, <3>1, SupTaskMoves
    <2>3. CASE SupTaskTo(k, "failure")
      <3>1. "failure" \in SupSteps
        BY DEF SupSteps
      <3>2. QED
        BY <1>0, <1>1, <1>2, <2>1, <2>3, <3>1, SupTaskMoves
    <2>4. CASE SupMayRetry(k) /\ supTask' = [supTask EXCEPT
                 ![k] = [step |-> "queued", retries |-> supTask[k].retries + 1]]
      <3>1. supTask[k].retries \in 0..SupportRetries /\ supTask[k].retries < SupportRetries
        BY <1>0, <2>4 DEF SupTaskType, SupMayRetry
      <3>2. supTask[k].retries + 1 \in 0..SupportRetries
        BY <1>0, <3>1
      <3>3. [step |-> "queued", retries |-> supTask[k].retries + 1] \in SupTaskType
        BY <3>2 DEF SupTaskType, SupSteps
      <3>4. QED
        BY <1>0, <2>1, <2>4, <3>3, SupTaskMoves
    <2>5. QED
      BY <1>5, <2>2, <2>3, <2>4 DEF SupSend
  <1>6. CASE SupRecord(k)
    <2>1. UNCHANGED <<supView, supAdmin, supMailed, supStale, supCrashed, supEdits>>
          /\ SupTaskTo(k, "done") /\ "done" \in SupSteps
      BY <1>6 DEF SupRecord, SupSteps, supHistory
    <2>2. supRow' \in SupRow /\ (supRow'.sent => supMailed)
          /\ (~supRow'.there \/ supRow'.sent \/ supRow'.error)
      BY <1>0, <1>6 DEF SupRecord, SupWrite, SupRow, SupIInv, SupSaysTrue, SupTaskAt
    <2>3. QED
      BY <1>0, <1>1, <1>2, <2>1, <2>2, SupTaskMoves
  <1>7. CASE SupCrash(k)
    <2>1. UNCHANGED <<supRow, supView, supAdmin, supMailed, supStale, supEdits>>
          /\ SupTaskTo(k, "done") /\ "done" \in SupSteps
          /\ supCrashed' = supCrashed + 1 /\ supCrashed < SupportCrashMax
      BY <1>7 DEF SupCrash, SupSteps
    <2>2. supCrashed' \in 0..SupportCrashMax /\ supCrashed' # 0
      BY <1>0, <2>1
    <2>3. QED
      BY <1>0, <1>1, <1>2, <2>1, <2>2, SupTaskMoves
  <1>8. QED
    BY <1>3, <1>4, <1>5, <1>6, <1>7

(* The forms of the admin.                                                 *)
LEMMA SupAdminKeeps ==
    ASSUME SupIInv, SupOpenForm \/ SupPostForm \/ SupSaveForm \/ SupDelete
    PROVE  SupIInv'
  <1>1. CASE SupOpenForm
    BY <1>1 DEF SupOpenForm, SupIInv, SupTypeOK, SupSaysTrue, SupWriterLeft, SupRow, SupTaskAt, supHistory
  <1>2. CASE SupPostForm
    <2>1. /\ supAdmin' \in [step : {"idle", "open", "save"}, sent : BOOLEAN, error : BOOLEAN]
          /\ supAdmin'.sent => supAdmin.sent
          /\ supAdmin.step # "idle"
      BY <1>2 DEF SupPostForm, SupIInv, SupTypeOK, SupRow
    <2>2. QED
      BY <1>2, <2>1 DEF SupPostForm, SupIInv, SupTypeOK, SupSaysTrue, SupWriterLeft, SupTaskAt, supHistory
  <1>3. CASE SupSaveForm
    <2>1. supRow' \in SupRow /\ (supRow'.sent => supMailed) /\ supEdits < SupportEditMax
      BY <1>3 DEF SupSaveForm, SupIInv, SupTypeOK, SupRow, SupSaysTrue
    <2>2. supStale' \in BOOLEAN /\ (~supStale' => supRow' = supRow /\ ~supStale)
      BY <1>3 DEF SupSaveForm, SupIInv, SupTypeOK
    <2>3. supEdits' \in 0..SupportEditMax
      BY <1>3, <2>1, SupportAssumption DEF SupportAssumption, SupSaveForm, SupIInv, SupTypeOK
    <2>4. QED
      BY <1>3, <2>1, <2>2, <2>3
      DEF SupSaveForm, SupIInv, SupTypeOK, SupSaysTrue, SupWriterLeft, SupTaskAt
  <1>4. CASE SupDelete
    BY <1>4 DEF SupDelete, SupIInv, SupTypeOK, SupSaysTrue, SupWriterLeft, SupRow, SupTaskAt, supHistory
  <1>5. QED
    BY <1>1, <1>2, <1>3, <1>4

(* While the row of a request is silent, a view or a task is on its way to *)
(* write it, and whoever is about to write "sent" knows of a mail.         *)
THEOREM SupportInvariant == SupSpec => []SupIInv
  <1>1. SupIInv /\ [SupNext]_supVars => SupIInv'
    <2>1. SUFFICES ASSUME SupIInv, [SupNext]_supVars  PROVE SupIInv'
      OBVIOUS
    <2>2. CASE UNCHANGED supVars
      BY <2>1, <2>2 DEF supVars, SupIInv, SupTypeOK, SupSaysTrue, SupWriterLeft, SupTaskAt
    <2>3. QED
      BY <2>1, <2>2, SupViewKeeps, SupTaskKeeps, SupAdminKeeps DEF SupNext
  <1>2. QED
    BY <1>1, SupInitHolds, PTL DEF SupSpec

(* No task retries more often than it may, whatever is published twice.    *)
THEOREM SupportTypes == SupSpec => []SupTypeOK
  <1>1. SupIInv => SupTypeOK
    BY DEF SupIInv
  <1>2. QED
    BY <1>1, SupportInvariant, PTL

(* When everything has run, the row says what became of the mail, and it   *)
(* never says "sent" of a mail no server has accepted.                     *)
THEOREM OutcomeIsTold == SupSpec => []SupportOutcomeTold
  <1>1. SupIInv => SupportOutcomeTold
    BY DEF SupIInv, SupSaysTrue, SupWriterLeft, SupportOutcomeTold, SupQuiet
  <1>2. QED
    BY <1>1, SupportInvariant, PTL

-----------------------------------------------------------------------------
(* Guest links.                                                            *)

(* A link works, but for its age, or an explicit rotation has ended it.    *)
GuestAlive(t) == guestToken[t] = "active" \/ t \in guestRotated

(* The links that are stored in the notice, on their way to the server, or *)
(* there already.                                                          *)
GuestLinksStored ==
    {t \in GuestTokens :
       \/ t \in guestMailed \/ t = guestNotice.link
       \/ \E j \in GuestJobs : GuestJobAt(j, "send") /\ t = guestJob[j].link}

GuestTokensFine ==
    /\ guestToken \in [GuestTokens -> {"none", "active", "revoked"}]
    /\ \A t \in guestRotated : guestToken[t] = "revoked"

GuestLinksFine ==
    /\ \A t \in guestMailed : GuestAlive(t)
    /\ guestNotice.link # 0 => GuestAlive(guestNotice.link)
    /\ \A j \in GuestJobs : guestJob[j].link # 0 => GuestAlive(guestJob[j].link)

(* Every content stored is the first one, or has overwritten another.      *)
GuestBuilds == (IF guestNotice.built THEN 1 ELSE 0) + guestRebuilt

GuestIInv ==
    /\ GuestTypeOK /\ GuestTokensFine /\ GuestLinksFine
    /\ ~guestNotice.built => guestNotice.link = 0
    /\ Cardinality(GuestLinksStored) <= GuestBuilds

LEMMA GuestNumbers ==
    /\ 0 \notin GuestTokens /\ IsFiniteSet(GuestTokens)
    /\ IsFiniteSet(GuestLinksStored) /\ Cardinality(GuestLinksStored) \in Nat
    /\ GuestTypeOK => GuestBuilds \in Nat
  <1>1. IsFiniteSet(GuestTokens) /\ 0 \notin GuestTokens
    BY FS_Interval, GuestAssumption DEF GuestTokens, GuestAssumption
  <1>2. IsFiniteSet(GuestLinksStored)
    BY <1>1, FS_Subset DEF GuestLinksStored
  <1>3. Cardinality(GuestLinksStored) \in Nat
    BY <1>2, FS_CardinalityType
  <1>4. QED
    BY <1>1, <1>2, <1>3 DEF GuestTypeOK, GuestBuilds

(* What happens to the tokens: nothing, one becomes active that was none,  *)
(* or a rotation.                                                          *)
GuestTokensMove ==
    \/ UNCHANGED <<guestToken, guestRotated>>
    \/ /\ UNCHANGED guestRotated
       /\ \E t \in GuestTokens : /\ guestToken[t] = "none"
                                 /\ guestToken' = [guestToken EXCEPT ![t] = "active"]
    \/ \E t \in GuestTokens : GuestRotate(t)

LEMMA GuestLinksLive ==
    ASSUME GuestIInv, GuestTokensMove
    PROVE  /\ GuestTokensFine'
           /\ \A t \in GuestTokens : GuestAlive(t) => GuestAlive(t)'
           /\ guestRotated' \subseteq GuestTokens
  <1>0. /\ guestToken \in [GuestTokens -> {"none", "active", "revoked"}]
        /\ guestRotated \subseteq GuestTokens /\ \A t \in guestRotated : guestToken[t] = "revoked"
    BY DEF GuestIInv, GuestTypeOK, GuestTokensFine
  <1>1. CASE UNCHANGED <<guestToken, guestRotated>>
    BY <1>0, <1>1 DEF GuestTokensFine, GuestAlive
  <1>2. ASSUME UNCHANGED guestRotated, NEW t \in GuestTokens, guestToken[t] = "none",
               guestToken' = [guestToken EXCEPT ![t] = "active"]
        PROVE  /\ GuestTokensFine'
               /\ \A u \in GuestTokens : GuestAlive(u) => GuestAlive(u)'
               /\ guestRotated' \subseteq GuestTokens
    BY <1>0, <1>2 DEF GuestTokensFine, GuestAlive
  <1>3. ASSUME NEW t \in GuestTokens, GuestRotate(t)
        PROVE  /\ GuestTokensFine'
               /\ \A u \in GuestTokens : GuestAlive(u) => GuestAlive(u)'
               /\ guestRotated' \subseteq GuestTokens
    <2>1. /\ guestToken[t] = "none"
          /\ guestToken' = [u \in GuestTokens |-> IF u = t THEN "active"
                        ELSE IF guestToken[u] = "active" THEN "revoked" ELSE guestToken[u]]
          /\ guestRotated' = guestRotated \cup {u \in GuestTokens : guestToken[u] = "active"}
      BY <1>3 DEF GuestRotate, GuestIsNext, GuestUnused
    <2>2. GuestTokensFine'
      BY <1>0, <2>1 DEF GuestTokensFine
    <2>3. \A u \in GuestTokens : GuestAlive(u) => GuestAlive(u)'
      BY <1>0, <2>1 DEF GuestAlive
    <2>4. QED
      BY <1>0, <2>1, <2>2, <2>3
  <1>4. QED
    BY <1>1, <1>2, <1>3 DEF GuestTokensMove

(* A set of links that does not grow is within the bound.                  *)
LEMMA GuestBoundKept ==
    ASSUME GuestIInv, GuestLinksStored' \subseteq GuestLinksStored,
           GuestBuilds' \in Nat, GuestBuilds <= GuestBuilds'
    PROVE  Cardinality(GuestLinksStored') <= GuestBuilds'
  <1>1. IsFiniteSet(GuestLinksStored) /\ Cardinality(GuestLinksStored) \in Nat
        /\ GuestBuilds \in Nat /\ Cardinality(GuestLinksStored) <= GuestBuilds
    BY GuestNumbers DEF GuestIInv
  <1>2. Cardinality(GuestLinksStored') <= Cardinality(GuestLinksStored)
        /\ IsFiniteSet(GuestLinksStored')
    BY <1>1, FS_Subset
  <1>3. Cardinality(GuestLinksStored') \in Nat
    BY <1>2, FS_CardinalityType
  <1>4. QED
    BY <1>1, <1>2, <1>3

(* A delivery moves: its link is the notice's, the one it had, or one that *)
(* has just been found active; it sends the link of the notice only.       *)
GuestJobMove(j, rec) ==
    /\ rec \in GuestJob /\ guestJob' = [guestJob EXCEPT ![j] = rec]
    /\ \/ rec.link \in {0, guestJob[j].link, guestNotice.link}
       \/ guestToken'[rec.link] = "active"
    /\ rec.step = "send" => rec.link = guestNotice'.link
    /\ \/ guestMailed' = guestMailed
       \/ /\ GuestJobAt(j, "send") /\ guestJob[j].link # 0
          /\ guestMailed' = guestMailed \cup {guestJob[j].link}
    /\ GuestTokensMove /\ guestRotated' = guestRotated
    /\ guestCrashed' \in Nat
    /\ UNCHANGED <<guestOwner, guestLegacy, guestExpired, guestRequest>>

LEMMA GuestJobFrame ==
    ASSUME GuestIInv, NEW j \in GuestJobs, NEW rec, GuestJobMove(j, rec)
    PROVE  /\ guestJob \in [GuestJobs -> GuestJob] /\ guestJob' \in [GuestJobs -> GuestJob]
           /\ guestJob'[j] = rec /\ \A i \in GuestJobs \ {j} : guestJob'[i] = guestJob[i]
           /\ guestMailed' \subseteq GuestTokens
           /\ \A i \in GuestJobs : guestJob[i].link \in GuestTokens \cup {0}
           /\ guestNotice.link \in GuestTokens \cup {0} /\ rec.link \in GuestTokens \cup {0}
  <1>1. /\ guestJob \in [GuestJobs -> GuestJob] /\ rec \in GuestJob
        /\ guestJob' = [guestJob EXCEPT ![j] = rec]
        /\ guestMailed \subseteq GuestTokens /\ guestNotice \in GuestNotices
    BY DEF GuestJobMove, GuestIInv, GuestTypeOK
  <1>2. \A i \in GuestJobs : guestJob[i].link \in GuestTokens \cup {0}
    BY <1>1 DEF GuestJob, GuestLinkOrNone
  <1>3. guestNotice.link \in GuestTokens \cup {0} /\ rec.link \in GuestTokens \cup {0}
    BY <1>1 DEF GuestJob, GuestNotices, GuestLinkOrNone
  <1>4. guestMailed' \subseteq GuestTokens
    BY <1>1, <1>2 DEF GuestJobMove
  <1>5. QED
    BY <1>1, <1>2, <1>3, <1>4

LEMMA GuestJobKeeps ==
    ASSUME GuestIInv, NEW j \in GuestJobs, NEW rec, GuestJobMove(j, rec),
           guestNotice' \in GuestNotices, guestRebuilt' \in Nat,
           guestNotice'.link \in {0, guestNotice.link, guestJob[j].link},
           ~guestNotice'.built => guestNotice'.link = 0,
           Cardinality(GuestLinksStored') <= GuestBuilds'
    PROVE  GuestIInv'
  <1>0. GuestTypeOK /\ GuestLinksFine
    BY DEF GuestIInv
  <1>1. /\ GuestTokensFine' /\ guestRotated' \subseteq GuestTokens
        /\ \A t \in GuestTokens : GuestAlive(t) => GuestAlive(t)'
    BY GuestLinksLive DEF GuestJobMove
  <1>2. GuestTypeOK'
    BY <1>0, <1>1, GuestJobFrame DEF GuestTypeOK, GuestTokensFine, GuestJobMove
  <1>3. \A t \in guestMailed' : GuestAlive(t)'
    <2>1. \A t \in guestMailed : GuestAlive(t) /\ t \in GuestTokens
      BY <1>0 DEF GuestLinksFine, GuestTypeOK
    <2>2. guestJob[j].link # 0 => GuestAlive(guestJob[j].link) /\ guestJob[j].link \in GuestTokens
      BY <1>0, GuestJobFrame DEF GuestLinksFine
    <2>3. QED
      BY <1>1, <2>1, <2>2 DEF GuestJobMove
  <1>4. ASSUME NEW t \in GuestTokens,
               \/ t = guestNotice.link \/ t = guestJob[j].link \/ guestToken'[t] = "active"
        PROVE  GuestAlive(t)'
    <2>1. CASE guestToken'[t] = "active"
      BY <2>1 DEF GuestAlive
    <2>2. CASE t = guestNotice.link \/ t = guestJob[j].link
      <3>1. GuestAlive(t)
        BY <1>0, <2>2, GuestNumbers DEF GuestLinksFine
      <3>2. QED
        BY <1>1, <3>1
    <2>3. QED
      BY <1>4, <2>1, <2>2
  <1>5. guestNotice'.link # 0 => GuestAlive(guestNotice.link)'
    <2>1. SUFFICES ASSUME guestNotice'.link # 0  PROVE GuestAlive(guestNotice.link)'
      OBVIOUS
    <2>2. PICK t : t = guestNotice'.link
      OBVIOUS
    <2>3. t \in GuestTokens /\ (t = guestNotice.link \/ t = guestJob[j].link)
      BY <2>1, <2>2, GuestJobFrame
    <2>4. QED
      BY <1>4, <2>2, <2>3 DEF GuestAlive
  <1>6. ASSUME NEW i \in GuestJobs, guestJob'[i].link # 0
        PROVE  GuestAlive(guestJob[i].link)'
    <2>1. PICK t : t = guestJob'[i].link
      OBVIOUS
    <2>2. CASE i = j
      <3>1. t = rec.link /\ t \in GuestTokens
        BY <1>6, <2>1, <2>2, GuestJobFrame
      <3>2. t = guestNotice.link \/ t = guestJob[j].link \/ guestToken'[t] = "active"
        BY <1>6, <2>1, <3>1 DEF GuestJobMove
      <3>3. QED
        BY <1>4, <2>1, <3>1, <3>2 DEF GuestAlive
    <2>3. CASE i # j
      <3>1. t = guestJob[i].link /\ t \in GuestTokens
        BY <1>6, <2>1, <2>3, GuestJobFrame
      <3>2. GuestAlive(t)
        BY <1>0, <1>6, <2>1, <2>3, <3>1, GuestJobFrame, GuestNumbers DEF GuestLinksFine
      <3>3. QED
        BY <1>1, <2>1, <3>1, <3>2 DEF GuestAlive
    <2>4. QED
      BY <2>2, <2>3
  <1>7. GuestLinksFine'
    BY <1>3, <1>5, <1>6 DEF GuestLinksFine
  <1>8. QED
    BY <1>1, <1>2, <1>7 DEF GuestIInv

(* A step that stores no content stores no link.                           *)
LEMMA GuestNothingStored ==
    ASSUME GuestIInv, NEW j \in GuestJobs, NEW rec, GuestJobMove(j, rec),
           guestNotice' \in GuestNotices, UNCHANGED guestRebuilt,
           guestNotice'.link = guestNotice.link, guestNotice'.built = guestNotice.built
    PROVE  GuestIInv'
  <1>1. guestRebuilt' \in Nat /\ GuestBuilds' = GuestBuilds /\ GuestBuilds' \in Nat
    BY GuestNumbers DEF GuestIInv, GuestTypeOK, GuestBuilds
  <1>2. GuestLinksStored' \subseteq GuestLinksStored
    <2>1. SUFFICES ASSUME NEW t \in GuestTokens, t \in GuestLinksStored'
                   PROVE  t \in GuestLinksStored
      BY DEF GuestLinksStored
    <2>2. CASE t \in guestMailed'
      BY <2>2 DEF GuestLinksStored, GuestJobMove
    <2>3. CASE t = guestNotice'.link
      BY <2>3 DEF GuestLinksStored
    <2>4. ASSUME NEW i \in GuestJobs, guestJob'[i].step = "send", t = guestJob'[i].link
          PROVE  t \in GuestLinksStored
      <3>1. CASE i = j
        BY <2>4, <3>1, GuestJobFrame DEF GuestLinksStored, GuestJobMove
      <3>2. CASE i # j
        BY <2>4, <3>2, GuestJobFrame DEF GuestLinksStored, GuestJobAt
      <3>3. QED
        BY <3>1, <3>2
    <2>5. QED
      BY <2>1, <2>2, <2>3, <2>4 DEF GuestLinksStored, GuestJobAt
  <1>3. GuestBuilds <= GuestBuilds'
    BY <1>1
  <1>4. Cardinality(GuestLinksStored') <= GuestBuilds'
    BY <1>1, <1>2, <1>3, GuestBoundKept
  <1>5. ~guestNotice'.built => guestNotice'.link = 0
    BY DEF GuestIInv
  <1>6. QED
    BY <1>1, <1>4, <1>5, GuestJobKeeps

(* The content of a delivery is stored: one link more, and one build more. *)
LEMMA GuestSnapshotKeeps ==
    ASSUME GuestIInv, NEW j \in GuestJobs, GuestSnapshot(j)
    PROVE  GuestIInv'
  <1> PICK link : link = guestJob[j].link
    OBVIOUS
  <1> PICK step : step = IF guestJob[j].web THEN "mark" ELSE "send"
    OBVIOUS
  <1> DEFINE rec == [guestJob[j] EXCEPT !.step = step]
  <1>0. /\ guestJob[j] \in GuestJob /\ guestNotice \in GuestNotices /\ link \in GuestLinkOrNone
        /\ guestRebuilt \in Nat /\ guestCrashed \in Nat
    <2>1. /\ guestJob[j] \in GuestJob /\ guestNotice \in GuestNotices
          /\ guestRebuilt \in Nat /\ guestCrashed \in Nat
      BY DEF GuestIInv, GuestTypeOK
    <2>2. QED
      BY <2>1 DEF GuestJob
  <1>1. /\ guestNotice' \in GuestNotices /\ guestNotice'.built /\ guestNotice'.link = link
        /\ UNCHANGED <<guestOwner, guestLegacy, guestToken, guestExpired, guestRequest, guestMailed,
                       guestRotated, guestCrashed>>
        /\ guestRebuilt' = guestRebuilt + (IF guestNotice.built THEN 1 ELSE 0)
    BY <1>0 DEF GuestSnapshot, GuestNotices, guestRows, guestTokens
  <1>2. rec \in GuestJob /\ rec.link = link /\ guestJob' = [guestJob EXCEPT ![j] = rec]
    BY <1>0 DEF GuestSnapshot, GuestJobTo, GuestJob, GuestJobSteps
  <1> HIDE DEF rec
  <1>3. GuestJobMove(j, rec)
    BY <1>0, <1>1, <1>2 DEF GuestJobMove, GuestTokensMove
  <1>4. guestRebuilt' \in Nat /\ GuestBuilds' = GuestBuilds + 1
    BY <1>0, <1>1 DEF GuestBuilds
  <1>5. GuestLinksStored' \subseteq GuestLinksStored \cup {link}
    <2>1. SUFFICES ASSUME NEW t \in GuestTokens, t \in GuestLinksStored', t # link
                   PROVE  t \in GuestLinksStored
      BY DEF GuestLinksStored
    <2>2. \/ t \in guestMailed
          \/ \E i \in GuestJobs : guestJob'[i].step = "send" /\ t = guestJob'[i].link
      BY <1>1, <2>1 DEF GuestLinksStored, GuestJobAt
    <2>3. \A i \in GuestJobs : t = guestJob'[i].link => i # j
      BY <1>2, <1>3, <2>1, GuestJobFrame
    <2>4. QED
      BY <1>3, <2>2, <2>3, GuestJobFrame DEF GuestLinksStored, GuestJobAt
  <1>6. Cardinality(GuestLinksStored') <= Cardinality(GuestLinksStored) + 1
    <2>1. IsFiniteSet(GuestLinksStored) /\ Cardinality(GuestLinksStored) \in Nat
      BY GuestNumbers
    <2>2. /\ IsFiniteSet(GuestLinksStored \cup {link})
          /\ Cardinality(GuestLinksStored \cup {link}) <= Cardinality(GuestLinksStored) + 1
      <3>1. /\ IsFiniteSet(GuestLinksStored \cup {link})
            /\ Cardinality(GuestLinksStored \cup {link}) =
                 IF link \in GuestLinksStored THEN Cardinality(GuestLinksStored)
                 ELSE Cardinality(GuestLinksStored) + 1
        BY <2>1, FS_AddElement
      <3>2. QED
        BY <2>1, <3>1
    <2>3. /\ Cardinality(GuestLinksStored') <= Cardinality(GuestLinksStored \cup {link})
          /\ IsFiniteSet(GuestLinksStored')
      BY <1>5, <2>2, FS_Subset
    <2>4. Cardinality(GuestLinksStored') \in Nat /\ Cardinality(GuestLinksStored \cup {link}) \in Nat
      BY <2>2, <2>3, FS_CardinalityType
    <2>5. QED
      BY <2>2, <2>3, <2>4, GuestNumbers
  <1>7. Cardinality(GuestLinksStored') <= GuestBuilds'
    <2>1. IsFiniteSet(GuestLinksStored')
      BY <1>5, GuestNumbers, FS_AddElement, FS_Subset
    <2>2. Cardinality(GuestLinksStored') \in Nat
      BY <2>1, FS_CardinalityType
    <2>3. GuestBuilds \in Nat /\ Cardinality(GuestLinksStored) <= GuestBuilds
      BY GuestNumbers DEF GuestIInv
    <2>4. QED
      BY <1>4, <1>6, <2>2, <2>3, GuestNumbers
  <1>8. QED
    BY <1>1, <1>3, <1>4, <1>7, GuestJobKeeps

(* The steps of a delivery that store no content.                          *)
LEMMA GuestDeliveryKeeps ==
    ASSUME GuestIInv, NEW j \in GuestJobs,
           \/ GuestSchedule(j) \/ GuestRecord(j) \/ GuestResend(j) \/ GuestMark(j)
           \/ GuestPublish(j) \/ GuestLoad(j) \/ GuestCrash(j)
    PROVE  GuestIInv'
  <1>0. /\ guestJob[j] \in GuestJob /\ guestNotice \in GuestNotices
        /\ guestOwner \in {"guest", "account"} /\ guestRebuilt \in Nat /\ guestCrashed \in Nat
    BY DEF GuestIInv, GuestTypeOK
  <1> DEFINE Quiet == /\ guestNotice' \in GuestNotices
                      /\ guestNotice'.link = guestNotice.link
                      /\ guestNotice'.built = guestNotice.built
                      /\ UNCHANGED <<guestOwner, guestLegacy, guestToken, guestExpired,
                                     guestRequest, guestMailed, guestRotated, guestRebuilt>>
                      /\ guestCrashed' \in Nat
  <1>1. ASSUME NEW rec \in GuestJob, guestJob' = [guestJob EXCEPT ![j] = rec], Quiet,
               rec.link \in {0, guestJob[j].link}, rec.step # "send"
        PROVE  GuestIInv'
    <2>1. GuestJobMove(j, rec)
      BY <1>1 DEF GuestJobMove, GuestTokensMove
    <2>2. QED
      BY <1>1, <2>1, GuestNothingStored
  <1> DEFINE ended == [GuestIdle EXCEPT !.step = "done"]
  <1>2. /\ ended \in GuestJob /\ ended.link = 0 /\ ended.step = "done"
        /\ GuestTask \in GuestJob /\ GuestTask.link = 0 /\ GuestTask.step = "queued"
    BY GuestNumbers DEF GuestIdle, GuestTask, GuestJob, GuestJobSteps, GuestLinkOrNone
  <1>3. ASSUME GuestJobDone(j), Quiet
        PROVE  GuestIInv'
    <2>1. guestJob' = [guestJob EXCEPT ![j] = ended]
      BY <1>3 DEF GuestJobDone
    <2> HIDE DEF ended, Quiet
    <2>2. QED
      BY <1>1, <1>2, <1>3, <2>1
  <1>4. ASSUME NEW step \in GuestJobSteps, GuestJobTo(j, step), Quiet, step # "send"
        PROVE  GuestIInv'
    <2> DEFINE rec == [guestJob[j] EXCEPT !.step = step]
    <2>1. guestJob' = [guestJob EXCEPT ![j] = rec]
      BY <1>4 DEF GuestJobTo
    <2>2. rec \in GuestJob /\ rec.link = guestJob[j].link /\ rec.step = step
      BY <1>0 DEF GuestJob
    <2> HIDE DEF rec, Quiet
    <2>3. QED
      BY <1>1, <1>4, <2>1, <2>2
  <1>5. ASSUME NEW status \in {"none", "pending", "sending", "sent", "failed"}, GuestSave(status)
        PROVE  /\ guestNotice' \in GuestNotices /\ guestNotice'.link = guestNotice.link
               /\ guestNotice'.built = guestNotice.built
    BY <1>0, <1>5 DEF GuestSave, GuestNotices
  <1>6. CASE GuestSchedule(j)
    <2>1. Quiet /\ GuestJobTo(j, "record")
      BY <1>0, <1>6 DEF GuestSchedule, guestRows, guestTokens, guestHistory
    <2> HIDE DEF Quiet
    <2>2. QED
      BY <1>4, <2>1 DEF GuestJobSteps
  <1>7. CASE GuestRecord(j)
    <2> PICK found : found = IF guestNotice.status = "none" THEN "pending" ELSE guestNotice.status
      OBVIOUS
    <2> PICK step : step = IF guestNotice.built THEN "mark" ELSE "build"
      OBVIOUS
    <2>1. found \in {"pending", "sending", "sent", "failed"}
      BY <1>0 DEF GuestNotices
    <2>2. GuestSave(found)
      BY <1>7 DEF GuestRecord, GuestSave
    <2>3. Quiet
      BY <1>0, <1>5, <1>7, <2>1, <2>2 DEF GuestRecord, guestRows, guestTokens, guestHistory
    <2>4. CASE GuestJobDone(j)
      BY <1>3, <2>3, <2>4
    <2>5. CASE found # "sent" /\ guestJob' = [guestJob EXCEPT ![j].owner = guestOwner,
                  ![j].copy = found, ![j].step = step]
      <3> DEFINE rec == [guestJob[j] EXCEPT !.owner = guestOwner, !.copy = found, !.step = step]
      <3>1. rec \in GuestJob /\ rec.link = guestJob[j].link /\ rec.step # "send"
        BY <1>0, <2>1, <2>5 DEF GuestJob, GuestJobSteps
      <3>2. guestJob' = [guestJob EXCEPT ![j] = rec]
        BY <2>5
      <3> HIDE DEF rec, Quiet
      <3>3. QED
        BY <1>1, <2>3, <3>1, <3>2
    <2>6. QED
      BY <1>7, <2>4, <2>5 DEF GuestRecord
  <1>8. CASE GuestResend(j)
    <2> DEFINE rec == [guestJob[j] EXCEPT !.step = "mark", !.copy = "failed"]
    <2>1. rec \in GuestJob /\ rec.link = guestJob[j].link /\ rec.step # "send"
      BY <1>0 DEF GuestJob, GuestJobSteps
    <2>2. guestJob' = [guestJob EXCEPT ![j] = rec]
      BY <1>8 DEF GuestResend
    <2>3. Quiet
      BY <1>0, <1>8 DEF GuestResend, guestRows, guestTokens, guestHistory
    <2> HIDE DEF rec, Quiet
    <2>4. QED
      BY <1>1, <2>1, <2>2, <2>3
  <1>9. CASE GuestMark(j)
    <2>1. Quiet
      BY <1>0, <1>5, <1>9 DEF GuestMark, guestRows, guestTokens
    <2>2. GuestJobTo(j, "publish")
      BY <1>9 DEF GuestMark
    <2> HIDE DEF Quiet
    <2>3. QED
      BY <1>4, <2>1, <2>2 DEF GuestJobSteps
  <1>10. CASE GuestPublish(j)
    <2>1. Quiet
      BY <1>0, <1>5, <1>10 DEF GuestPublish, guestRows, guestTokens
    <2> HIDE DEF Quiet
    <2>2. QED
      BY <1>1, <1>2, <1>3, <1>10, <2>1 DEF GuestPublish
  <1>11. CASE GuestLoad(j)
    <2> DEFINE rec == [guestJob[j] EXCEPT !.step = "claim", !.owner = guestOwner]
    <2>1. rec \in GuestJob /\ rec.link = guestJob[j].link /\ rec.step # "send"
      BY <1>0 DEF GuestJob, GuestJobSteps
    <2>2. GuestJobDone(j) \/ guestJob' = [guestJob EXCEPT ![j] = rec]
      BY <1>11 DEF GuestLoad
    <2>3. Quiet
      BY <1>0, <1>11 DEF GuestLoad, guestRows, guestTokens, guestHistory
    <2> HIDE DEF rec, Quiet
    <2>4. QED
      BY <1>1, <1>3, <2>1, <2>2, <2>3
  <1>12. CASE GuestCrash(j)
    <2>1. Quiet
      BY <1>0, <1>12 DEF GuestCrash, guestRows, guestTokens
    <2> HIDE DEF Quiet
    <2>2. QED
      BY <1>3, <1>12, <2>1 DEF GuestCrash
  <1>13. QED
    BY <1>6, <1>7, <1>8, <1>9, <1>10, <1>11, <1>12

(* The link of a content is one that is active when it is built.           *)
LEMMA GuestBuildKeeps ==
    ASSUME GuestIInv, NEW j \in GuestJobs, GuestBuild(j)
    PROVE  GuestIInv'
  <1>0. /\ guestJob[j] \in GuestJob /\ guestNotice \in GuestNotices
        /\ guestToken \in [GuestTokens -> {"none", "active", "revoked"}]
        /\ guestRebuilt \in Nat /\ guestCrashed \in Nat
        /\ UNCHANGED <<guestOwner, guestLegacy, guestExpired, guestRequest, guestMailed,
                       guestRotated, guestRebuilt, guestCrashed>>
    BY DEF GuestIInv, GuestTypeOK, GuestBuild, guestRows
  <1>1. CASE GuestJobTo(j, "snapshot") /\ UNCHANGED <<guestNotice, guestToken>>
    <2> DEFINE rec == [guestJob[j] EXCEPT !.step = "snapshot"]
    <2>1. rec \in GuestJob /\ rec.link = guestJob[j].link /\ rec.step = "snapshot"
      BY <1>0 DEF GuestJob, GuestJobSteps
    <2>2. guestJob' = [guestJob EXCEPT ![j] = rec]
      BY <1>1 DEF GuestJobTo
    <2> HIDE DEF rec
    <2>3. GuestJobMove(j, rec)
      BY <1>0, <1>1, <2>1, <2>2 DEF GuestJobMove, GuestTokensMove
    <2>4. QED
      BY <1>0, <1>1, <2>3, GuestNothingStored
  <1>2. ASSUME NEW t \in GuestTokens, GuestIssue(t), UNCHANGED guestNotice,
               guestJob' = [guestJob EXCEPT ![j].step = "snapshot", ![j].link = t]
        PROVE  GuestIInv'
    <2> DEFINE rec == [guestJob[j] EXCEPT !.step = "snapshot", !.link = t]
    <2>1. rec \in GuestJob /\ rec.link = t /\ rec.step = "snapshot"
      BY <1>0 DEF GuestJob, GuestJobSteps, GuestLinkOrNone
    <2>2. guestJob' = [guestJob EXCEPT ![j] = rec]
      BY <1>2
    <2>3. guestToken'[t] = "active" /\ GuestTokensMove
      <3>1. CASE GuestIsLatest(t) /\ UNCHANGED guestToken
        BY <1>0, <3>1 DEF GuestTokensMove, GuestIsLatest, GuestValid
      <3>2. CASE GuestIsNext(t) /\ guestToken' = [guestToken EXCEPT ![t] = "active"]
        BY <1>0, <3>2 DEF GuestTokensMove, GuestIsNext, GuestUnused
      <3>3. QED
        BY <1>2, <3>1, <3>2 DEF GuestIssue
    <2> HIDE DEF rec
    <2>4. GuestJobMove(j, rec)
      BY <1>0, <1>2, <2>1, <2>2, <2>3 DEF GuestJobMove
    <2>5. QED
      BY <1>0, <1>2, <2>4, GuestNothingStored
  <1>3. CASE GuestSave("failed") /\ GuestJobDone(j) /\ UNCHANGED guestToken
    <2> DEFINE rec == [GuestIdle EXCEPT !.step = "done"]
    <2>1. rec \in GuestJob /\ rec.link = 0 /\ rec.step = "done"
      BY GuestNumbers DEF GuestIdle, GuestJob, GuestJobSteps, GuestLinkOrNone
    <2>2. guestJob' = [guestJob EXCEPT ![j] = rec]
      BY <1>3 DEF GuestJobDone
    <2>3. /\ guestNotice' \in GuestNotices /\ guestNotice'.link = guestNotice.link
          /\ guestNotice'.built = guestNotice.built
      BY <1>0, <1>3 DEF GuestSave, GuestNotices
    <2> HIDE DEF rec
    <2>4. GuestJobMove(j, rec)
      BY <1>0, <1>3, <2>1, <2>2 DEF GuestJobMove, GuestTokensMove
    <2>5. QED
      BY <1>0, <2>3, <2>4, GuestNothingStored
  <1>4. QED
    BY <1>1, <1>2, <1>3 DEF GuestBuild

(* A task that claims the notice sends the link the row has then.          *)
LEMMA GuestClaimNoticeKeeps ==
    ASSUME GuestIInv, NEW j \in GuestJobs, GuestClaimNotice(j)
    PROVE  GuestIInv'
  <1> PICK link : link = guestNotice.link
    OBVIOUS
  <1> PICK step : step = IF guestNotice.built THEN "send" ELSE "build"
    OBVIOUS
  <1>0. /\ guestJob[j] \in GuestJob /\ guestNotice \in GuestNotices /\ link \in GuestLinkOrNone
        /\ guestCrashed \in Nat
        /\ UNCHANGED <<guestOwner, guestLegacy, guestToken, guestExpired, guestRequest,
                       guestMailed, guestRotated, guestRebuilt, guestCrashed>>
    <2>1. /\ guestJob[j] \in GuestJob /\ guestNotice \in GuestNotices /\ guestCrashed \in Nat
      BY DEF GuestIInv, GuestTypeOK
    <2>2. UNCHANGED <<guestOwner, guestLegacy, guestToken, guestExpired, guestRequest,
                       guestMailed, guestRotated, guestRebuilt, guestCrashed>>
      BY DEF GuestClaimNotice, guestRows, guestTokens, guestHistory
    <2>3. QED
      BY <2>1, <2>2 DEF GuestNotices
  <1>1. CASE GuestJobDone(j) /\ UNCHANGED guestNotice
    <2> DEFINE rec == [GuestIdle EXCEPT !.step = "done"]
    <2>1. rec \in GuestJob /\ rec.link = 0 /\ rec.step = "done"
      BY GuestNumbers DEF GuestIdle, GuestJob, GuestJobSteps, GuestLinkOrNone
    <2>2. guestJob' = [guestJob EXCEPT ![j] = rec]
      BY <1>1 DEF GuestJobDone
    <2> HIDE DEF rec
    <2>3. GuestJobMove(j, rec)
      BY <1>0, <1>1, <2>1, <2>2 DEF GuestJobMove, GuestTokensMove
    <2>4. QED
      BY <1>0, <1>1, <2>3, GuestNothingStored
  <1>2. CASE /\ guestNotice' = [guestNotice EXCEPT !.status = "sending"]
             /\ guestJob' = [guestJob EXCEPT ![j].link = link, ![j].step = step]
    <2> DEFINE rec == [guestJob[j] EXCEPT !.link = link, !.step = step]
    <2>1. rec \in GuestJob /\ rec.link = link
      BY <1>0 DEF GuestJob, GuestJobSteps
    <2>2. guestJob' = [guestJob EXCEPT ![j] = rec]
      BY <1>2
    <2>3. /\ guestNotice' \in GuestNotices /\ guestNotice'.link = guestNotice.link
          /\ guestNotice'.built = guestNotice.built
      BY <1>0, <1>2 DEF GuestNotices
    <2> HIDE DEF rec
    <2>4. GuestJobMove(j, rec)
      BY <1>0, <2>1, <2>2, <2>3 DEF GuestJobMove, GuestTokensMove
    <2>5. QED
      BY <1>0, <2>3, <2>4, GuestNothingStored
  <1>3. QED
    BY <1>1, <1>2 DEF GuestClaimNotice

(* What the server accepts was on its way to it.                           *)
LEMMA GuestSendKeeps ==
    ASSUME GuestIInv, NEW j \in GuestJobs, GuestSend(j)
    PROVE  GuestIInv'
  <1>0. /\ guestNotice \in GuestNotices /\ guestCrashed \in Nat
        /\ UNCHANGED <<guestOwner, guestLegacy, guestToken, guestExpired, guestRequest,
                       guestRotated, guestRebuilt, guestCrashed>>
    BY DEF GuestIInv, GuestTypeOK, GuestSend, guestRows, guestTokens
  <1>1. \/ guestMailed' = guestMailed
        \/ /\ GuestJobAt(j, "send") /\ guestJob[j].link # 0
           /\ guestMailed' = guestMailed \cup {guestJob[j].link}
    BY DEF GuestSend
  <1>2. guestNotice' = [guestNotice EXCEPT !.status = "sent"]
        \/ guestNotice' = [guestNotice EXCEPT !.status = "failed"]
    BY DEF GuestSend
  <1>3. /\ guestNotice' \in GuestNotices /\ guestNotice'.link = guestNotice.link
        /\ guestNotice'.built = guestNotice.built
    BY <1>0, <1>2 DEF GuestNotices
  <1> DEFINE ended == [GuestIdle EXCEPT !.step = "done"]
  <1>4. /\ ended \in GuestJob /\ ended.link = 0 /\ ended.step = "done"
        /\ GuestTask \in GuestJob /\ GuestTask.link = 0 /\ GuestTask.step = "queued"
    BY GuestNumbers DEF GuestIdle, GuestTask, GuestJob, GuestJobSteps, GuestLinkOrNone
  <1>5. guestJob' = [guestJob EXCEPT ![j] = ended] \/ guestJob' = [guestJob EXCEPT ![j] = GuestTask]
    BY DEF GuestSend, GuestJobDone
  <1> HIDE DEF ended
  <1>6. ASSUME NEW rec \in {ended, GuestTask}, guestJob' = [guestJob EXCEPT ![j] = rec]
        PROVE  GuestIInv'
    <2>1. GuestJobMove(j, rec)
      BY <1>0, <1>1, <1>4, <1>6 DEF GuestJobMove, GuestTokensMove
    <2>2. QED
      BY <1>0, <1>3, <2>1, GuestNothingStored
  <1>7. QED
    BY <1>5, <1>6

(* Steps that are not of a delivery touch no link that is stored.          *)
LEMMA GuestOthersKeep ==
    ASSUME GuestIInv, GuestTokensMove, GuestTypeOK',
           UNCHANGED <<guestNotice, guestJob, guestMailed, guestRebuilt>>
    PROVE  GuestIInv'
  <1>1. /\ GuestTokensFine' /\ \A t \in GuestTokens : GuestAlive(t) => GuestAlive(t)'
    BY GuestLinksLive
  <1>2. GuestTypeOK /\ GuestLinksFine /\ (~guestNotice.built => guestNotice.link = 0)
    BY DEF GuestIInv
  <1>3. GuestLinksFine'
    <2>1. \A t \in guestMailed : t \in GuestTokens
      BY <1>2 DEF GuestTypeOK
    <2>2. guestNotice.link \in GuestTokens \cup {0}
      BY <1>2 DEF GuestTypeOK, GuestNotices, GuestLinkOrNone
    <2>3. \A j \in GuestJobs : guestJob[j].link \in GuestTokens \cup {0}
      BY <1>2 DEF GuestTypeOK, GuestJob, GuestLinkOrNone
    <2>4. \A t \in guestMailed' : GuestAlive(t)'
      BY <1>1, <1>2, <2>1 DEF GuestLinksFine
    <2>5. guestNotice'.link # 0 => GuestAlive(guestNotice.link)'
      <3>1. PICK t : t = guestNotice.link
        OBVIOUS
      <3>2. QED
        BY <1>1, <1>2, <2>2, <3>1 DEF GuestLinksFine, GuestAlive
    <2>6. ASSUME NEW j \in GuestJobs, guestJob'[j].link # 0
          PROVE  GuestAlive(guestJob[j].link)'
      <3>1. PICK t : t = guestJob[j].link
        OBVIOUS
      <3>2. QED
        BY <1>1, <1>2, <2>3, <2>6, <3>1 DEF GuestLinksFine, GuestAlive
    <2>7. QED
      BY <2>4, <2>5, <2>6 DEF GuestLinksFine
  <1>4. Cardinality(GuestLinksStored') <= GuestBuilds'
    BY DEF GuestIInv, GuestLinksStored, GuestBuilds, GuestJobAt
  <1>5. QED
    BY <1>1, <1>2, <1>3, <1>4 DEF GuestIInv

LEMMA GuestOwnersKeep ==
    ASSUME GuestIInv,
           \/ \E t \in GuestTokens : GuestGetOrCreate(t) \/ GuestRotate(t) \/ GuestExpires(t)
           \/ GuestClaimOrder
    PROVE  GuestIInv'
  <1>0. GuestTypeOK
    BY DEF GuestIInv
  <1>1. ASSUME NEW t \in GuestTokens, GuestGetOrCreate(t)  PROVE GuestIInv'
    <2>1. /\ guestToken[t] = "none" /\ guestToken' = [guestToken EXCEPT ![t] = "active"]
          /\ UNCHANGED <<guestOwner, guestLegacy, guestExpired, guestNotice, guestJob, guestRequest,
                         guestMailed, guestRotated, guestRebuilt, guestCrashed>>
      BY <1>1 DEF GuestGetOrCreate, GuestIsNext, GuestUnused, guestRows, guestHistory
    <2>2. GuestTokensMove /\ GuestTypeOK'
      BY <1>0, <2>1 DEF GuestTokensMove, GuestTypeOK
    <2>3. QED
      BY <2>1, <2>2, GuestOthersKeep
  <1>2. ASSUME NEW t \in GuestTokens, GuestRotate(t)  PROVE GuestIInv'
    <2>1. /\ guestToken' \in [GuestTokens -> {"none", "active", "revoked"}]
          /\ guestRotated' \subseteq GuestTokens
          /\ UNCHANGED <<guestOwner, guestLegacy, guestExpired, guestNotice, guestJob, guestRequest,
                         guestMailed, guestRebuilt, guestCrashed>>
      BY <1>0, <1>2 DEF GuestRotate, GuestTypeOK, guestRows
    <2>2. GuestTokensMove /\ GuestTypeOK'
      BY <1>0, <1>2, <2>1 DEF GuestTokensMove, GuestTypeOK
    <2>3. QED
      BY <2>1, <2>2, GuestOthersKeep
  <1>3. ASSUME NEW t \in GuestTokens, GuestExpires(t)  PROVE GuestIInv'
    <2>1. /\ guestExpired' = guestExpired \cup {t}
          /\ UNCHANGED <<guestOwner, guestLegacy, guestToken, guestNotice, guestJob, guestRequest,
                         guestMailed, guestRotated, guestRebuilt, guestCrashed>>
      BY <1>3 DEF GuestExpires, guestRows, guestHistory
    <2>2. GuestTokensMove /\ GuestTypeOK'
      BY <1>0, <2>1 DEF GuestTokensMove, GuestTypeOK
    <2>3. QED
      BY <2>1, <2>2, GuestOthersKeep
  <1>4. CASE GuestClaimOrder
    <2>1. /\ guestOwner' = "account" /\ guestLegacy' = 0
          /\ UNCHANGED <<guestToken, guestExpired, guestNotice, guestJob, guestRequest,
                         guestMailed, guestRotated, guestRebuilt, guestCrashed>>
      BY <1>4 DEF GuestClaimOrder, guestTokens, guestHistory
    <2>2. GuestTokensMove /\ GuestTypeOK'
      BY <1>0, <2>1 DEF GuestTokensMove, GuestTypeOK, GuestLinkOrNone
    <2>3. QED
      BY <2>1, <2>2, GuestOthersKeep
  <1>5. QED
    BY <1>1, <1>2, <1>3, <1>4

(* A page moves on from one of its steps to another.                       *)
LEMMA GuestPagesKeep ==
    ASSUME GuestIInv, NEW r \in GuestRequests,
           (\E t \in GuestTokens : GuestOpen(r, t)) \/ GuestRequestStep(r)
    PROVE  GuestIInv'
  <1>0. GuestTypeOK /\ guestRequest \in [GuestRequests -> GuestReq]
    BY DEF GuestIInv, GuestTypeOK
  <1>1. UNCHANGED <<guestOwner, guestLegacy, guestToken, guestExpired, guestNotice, guestJob,
                    guestMailed, guestRotated, guestRebuilt, guestCrashed>>
    BY DEF GuestOpen, GuestRequestStep, GuestReadOrder, GuestTouch, GuestServe, guestRows,
           guestTokens, guestHistory
  <1>2. ASSUME NEW t \in GuestTokens, GuestOpen(r, t)
        PROVE  guestRequest' \in [GuestRequests -> GuestReq]
    <2> PICK rec : rec = [step |-> IF t \in GuestValid /\ guestOwner = "guest"
                                   THEN "token_read" ELSE "done", token |-> t]
      OBVIOUS
    <2>1. rec \in GuestReq
      BY DEF GuestReq, GuestRequestSteps, GuestLinkOrNone
    <2>2. guestRequest' = [guestRequest EXCEPT ![r] = rec]
      BY <1>2 DEF GuestOpen
    <2>3. QED
      BY <1>0, <2>1, <2>2
  <1>3. ASSUME NEW step \in GuestRequestSteps, GuestReqTo(r, step)
        PROVE  guestRequest' \in [GuestRequests -> GuestReq]
    BY <1>0, <1>3 DEF GuestReqTo, GuestReq
  <1>4. ASSUME GuestRequestStep(r)
        PROVE  \E step \in GuestRequestSteps : GuestReqTo(r, step)
    BY <1>4 DEF GuestRequestStep, GuestReadOrder, GuestTouch, GuestServe, GuestRequestSteps
  <1>5. GuestTypeOK' /\ GuestTokensMove
    BY <1>0, <1>1, <1>2, <1>3, <1>4 DEF GuestTypeOK, GuestTokensMove
  <1>6. QED
    BY <1>1, <1>5, GuestOthersKeep

LEMMA GuestInitHolds == GuestInit => GuestIInv
  <1> SUFFICES ASSUME GuestInit  PROVE GuestIInv
    OBVIOUS
  <1>1. /\ guestNotice = [status |-> "none", built |-> FALSE, link |-> 0]
        /\ guestJob = [j \in GuestJobs |-> GuestIdle]
        /\ guestMailed = {} /\ guestRotated = {} /\ guestRebuilt = 0
    BY DEF GuestInit
  <1>2. GuestTypeOK
    <2>1. guestNotice \in GuestNotices
      BY <1>1 DEF GuestNotices, GuestLinkOrNone
    <2>2. GuestIdle \in GuestJob /\ GuestNewReq \in GuestReq
      BY DEF GuestIdle, GuestJob, GuestJobSteps, GuestLinkOrNone, GuestNewReq, GuestReq,
             GuestRequestSteps
    <2>3. QED
      BY <1>1, <2>1, <2>2 DEF GuestInit, GuestTypeOK, GuestLinkOrNone
  <1>3. \A j \in GuestJobs : guestJob[j].link = 0 /\ guestJob[j].step = "idle"
    BY <1>1 DEF GuestIdle
  <1>4. GuestTokensFine /\ GuestLinksFine
    BY <1>1, <1>2, <1>3 DEF GuestTokensFine, GuestLinksFine, GuestTypeOK
  <1>5. GuestLinksStored = {}
    BY <1>1, <1>3, GuestNumbers DEF GuestLinksStored, GuestJobAt
  <1>6. Cardinality(GuestLinksStored) = 0
    BY <1>5, FS_EmptySet
  <1>7. QED
    BY <1>1, <1>2, <1>4, <1>6 DEF GuestIInv, GuestBuilds

LEMMA GuestStepKeeps == GuestIInv /\ [GuestNext]_guestVars => GuestIInv'
  <1> SUFFICES ASSUME GuestIInv, [GuestNext]_guestVars  PROVE GuestIInv'
    OBVIOUS
  <1>1. ASSUME NEW j \in GuestJobs, GuestJobStep(j)  PROVE GuestIInv'
    BY <1>1, GuestDeliveryKeeps, GuestBuildKeeps, GuestSnapshotKeeps, GuestClaimNoticeKeeps,
       GuestSendKeeps DEF GuestJobStep
  <1>2. CASE UNCHANGED guestVars
    <2>1. UNCHANGED <<guestOwner, guestLegacy, guestToken, guestExpired, guestNotice, guestJob,
                      guestRequest, guestMailed, guestRotated, guestRebuilt, guestCrashed>>
      BY <1>2 DEF guestVars, guestRows, guestTokens, guestHistory
    <2>2. GuestTypeOK' /\ GuestTokensMove
      BY <2>1 DEF GuestIInv, GuestTypeOK, GuestTokensMove
    <2>3. QED
      BY <2>1, <2>2, GuestOthersKeep
  <1>3. QED
    BY <1>1, <1>2, GuestOwnersKeep, GuestPagesKeep DEF GuestNext

(* In every state every link that is mailed, stored, or held by a process  *)
(* works or was ended by a rotation, a rotation leaves no token it found   *)
(* active, and the links that are out or on their way are no more than the *)
(* times a content was stored - the invariant the results below rest on.   *)
THEOREM GuestInvariant == GuestSpec => []GuestIInv
  BY GuestInitHolds, GuestStepKeeps, PTL DEF GuestSpec

(* However many tokens, deliveries and pages there are, every row, copy    *)
(* and page is one the service knows.                                      *)
THEOREM GuestTypes == GuestSpec => []GuestTypeOK
  <1>1. GuestIInv => GuestTypeOK
    BY DEF GuestIInv
  <1>2. QED
    BY <1>1, GuestInvariant, PTL

(* issue_token_for_email: no retry, second delivery or crash ends a link   *)
(* that a customer has received.                                           *)
THEOREM MailedLinksWork == GuestSpec => []GuestMailedLinkWorks
  <1>1. GuestIInv => GuestMailedLinkWorks
    BY DEF GuestIInv, GuestLinksFine, GuestAlive, GuestMailedLinkWorks
  <1>2. QED
    BY <1>1, GuestInvariant, PTL

(* The links mailed are among those that are out or on their way.          *)
LEMMA GuestFewLinks == GuestIInv => GuestOneLinkPerNotice
  <1>1. ASSUME GuestIInv  PROVE GuestOneLinkPerNotice
    <2>1. guestMailed \subseteq GuestLinksStored /\ guestRebuilt \in Nat
      BY <1>1 DEF GuestIInv, GuestTypeOK, GuestLinksStored
    <2>2. IsFiniteSet(GuestLinksStored) /\ Cardinality(GuestLinksStored) \in Nat
      BY GuestNumbers
    <2>3. Cardinality(guestMailed) <= Cardinality(GuestLinksStored) /\ IsFiniteSet(guestMailed)
      BY <2>1, <2>2, FS_Subset
    <2>4. Cardinality(guestMailed) \in Nat
      BY <2>3, FS_CardinalityType
    <2>5. Cardinality(GuestLinksStored) <= GuestBuilds /\ GuestBuilds \in Nat
          /\ GuestBuilds <= 1 + guestRebuilt
      BY <1>1, <2>1, GuestNumbers DEF GuestIInv, GuestBuilds
    <2>6. QED
      BY <2>1, <2>2, <2>3, <2>4, <2>5 DEF GuestOneLinkPerNotice
  <1>2. QED
    BY <1>1

(* All mails of the notice carry the link that was stored first, but for   *)
(* one more with every content that overwrote another.                     *)
THEOREM OneLinkPerNotice == GuestSpec => []GuestOneLinkPerNotice
  BY GuestFewLinks, GuestInvariant, PTL

(* The steps of guest links that satisfy the invariant serve no page its   *)
(* token was taken from.                                                   *)
LEMMA GuestStepsShutOut == []GuestIInv /\ [][GuestNext]_guestVars => GuestRotationShutsOut
  <1>1. ASSUME GuestIInv, [GuestNext]_guestVars
        PROVE  [\A r \in GuestRequests :
                  guestRequest'[r].step = "served" => \/ guestRequest[r].step = "served"
                                                      \/ guestRequest[r].token \notin guestRotated
               ]_guestVars
    <2>0. /\ guestRequest \in [GuestRequests -> GuestReq]
          /\ \A t \in guestRotated : guestToken[t] = "revoked"
      BY <1>1 DEF GuestIInv, GuestTypeOK, GuestTokensFine
    <2>1. SUFFICES ASSUME NEW r \in GuestRequests, guestRequest'[r].step = "served",
                          guestRequest[r].step # "served", guestRequest[r].token \in guestRotated,
                          GuestNext
                   PROVE  FALSE
      BY <1>1
    <2>2. guestRequest' # guestRequest
      BY <2>1
    <2>3. PICK q \in GuestRequests : (\E t \in GuestTokens : GuestOpen(q, t)) \/ GuestRequestStep(q)
      <3>1. ASSUME NEW t \in GuestTokens,
                   GuestGetOrCreate(t) \/ GuestRotate(t) \/ GuestExpires(t)
            PROVE  UNCHANGED guestRequest
        BY <3>1 DEF GuestGetOrCreate, GuestRotate, GuestExpires
      <3>2. ASSUME NEW j \in GuestJobs,
                   \/ GuestSchedule(j) \/ GuestRecord(j) \/ GuestResend(j) \/ GuestBuild(j)
                   \/ GuestSnapshot(j) \/ GuestMark(j)
            PROVE  UNCHANGED guestRequest
        BY <3>2 DEF GuestSchedule, GuestRecord, GuestResend, GuestBuild, GuestSnapshot, GuestMark
      <3>3. ASSUME NEW j \in GuestJobs,
                   \/ GuestPublish(j) \/ GuestLoad(j) \/ GuestClaimNotice(j) \/ GuestSend(j)
                   \/ GuestCrash(j)
            PROVE  UNCHANGED guestRequest
        BY <3>3 DEF GuestPublish, GuestLoad, GuestClaimNotice, GuestSend, GuestCrash
      <3>4. GuestClaimOrder => UNCHANGED guestRequest
        BY DEF GuestClaimOrder
      <3>5. ASSUME NEW j \in GuestJobs, GuestJobStep(j)  PROVE UNCHANGED guestRequest
        BY <3>2, <3>3, <3>5 DEF GuestJobStep
      <3>6. \/ \E t \in GuestTokens : GuestGetOrCreate(t) \/ GuestRotate(t) \/ GuestExpires(t)
            \/ \E j \in GuestJobs : GuestJobStep(j)
            \/ \E q \in GuestRequests : (\E t \in GuestTokens : GuestOpen(q, t)) \/ GuestRequestStep(q)
            \/ GuestClaimOrder
        BY <2>1 DEF GuestNext
      <3>7. QED
        BY <2>2, <3>1, <3>4, <3>5, <3>6
    <2>4. ASSUME NEW t \in GuestTokens, GuestOpen(q, t)  PROVE FALSE
      <3> PICK rec : rec = [step |-> IF t \in GuestValid /\ guestOwner = "guest"
                                     THEN "token_read" ELSE "done", token |-> t]
        OBVIOUS
      <3>1. guestRequest' = [guestRequest EXCEPT ![q] = rec] /\ rec.step # "served"
        BY <2>4 DEF GuestOpen
      <3>2. QED
        BY <2>0, <2>1, <3>1
    <2>5. CASE GuestReadOrder(q) \/ GuestServe(q)
      <3>1. \E step \in {"order_read", "done"} : guestRequest' = [guestRequest EXCEPT ![q].step = step]
        BY <2>5 DEF GuestReadOrder, GuestServe, GuestReqTo
      <3>2. QED
        BY <2>0, <2>1, <3>1
    <2>6. CASE GuestTouch(q)
      <3> PICK step : step = IF guestToken[guestRequest[q].token] = "active" THEN "served" ELSE "done"
        OBVIOUS
      <3>1. guestRequest' = [guestRequest EXCEPT ![q].step = step]
        BY <2>6 DEF GuestTouch, GuestReqTo
      <3>2. q = r
        BY <2>0, <2>1, <3>1
      <3>3. guestRequest'[r].step = step
        BY <2>0, <3>1, <3>2 DEF GuestReq
      <3>4. guestToken[guestRequest[r].token] = "revoked"
        BY <2>0, <2>1
      <3>5. QED
        BY <2>1, <3>2, <3>3, <3>4
    <2>7. QED
      BY <2>3, <2>4, <2>5, <2>6 DEF GuestRequestStep
  <1>2. QED
    BY <1>1, PTL DEF GuestRotationShutsOut

(* get_order_by_raw_token and touch: a page that has looked at its token   *)
(* before a rotation is not served after it.                               *)
THEOREM RotationShutsOut == GuestSpec => GuestRotationShutsOut
  BY GuestInvariant, GuestStepsShutOut, PTL DEF GuestSpec
===============================================================================
