----------------------------- MODULE OutboxProofs -----------------------------
(***************************************************************************)
(* What NotificationOutbox guarantees for any notices, jobs and bounds:    *)
(* "sent" is true, "sending" has somebody at it, every mail after the      *)
(* first has a cause, no notice is left behind undecided, and deliveries   *)
(* come to an end.                                                         *)
(***************************************************************************)
EXTENDS NotificationOutbox, FiniteSetTheorems, TLAPS

(* A right to mail the notice n: a job that has claimed it and has not     *)
(* been accepted for that claim owns one (after a refusal it will hand it  *)
(* back to the row), a row that may be claimed holds one.                  *)
MayMail == {"claimed", "transient", "permanent"}
MayMailJobs(n) == {j \in Jobs : job[j].notice = n /\ job[j].step \in MayMail}
One(condition) == IF condition THEN 1 ELSE 0
MayClaim(status) == status \notin {"sent", "sending"}

Owners(n) == {j \in Jobs : job[j].notice = n /\ job[j].step \in Sending}

(* Every right that is used costs a mail, every right that is made is a    *)
(* lost answer or a stale copy.                                            *)
RightsBounded(n) ==
    mail[n] + Cardinality(MayMailJobs(n)) + One(MayClaim(row[n]))
        <= 1 + lost[n] + overwritten[n]

NoticeOK(n) ==
    /\ row[n] = "sent" => mail[n] > 0
    /\ row[n] = "sending" => Owners(n) # {} \/ died[n] > 0
    /\ RightsBounded(n)
    /\ n \notin Addressed => MayClaim(row[n])

(* Only what has a recipient gets to the claim.                            *)
JobOK(j) ==
    /\ job[j].step = "accepted" => mail[job[j].notice] > 0
    /\ job[j].step \in Sending \cup {"claim"} => job[j].notice \in Addressed

IInv == TypeOK /\ (\A n \in Notices : NoticeOK(n)) /\ (\A j \in Jobs : JobOK(j))

-----------------------------------------------------------------------------
(***************************************************************************)
(* The shape of every step: the job j becomes rec, and nothing happens to  *)
(* a notice but that of rec, whose row becomes status and whose counters   *)
(* grow.                                                                   *)
(***************************************************************************)
Becomes(j, rec, status, mails, losses, saves, deaths) ==
    LET n == rec.notice IN
    /\ rec \in Job /\ n \in Notices /\ rec.step # "idle"
    /\ job[j].step # "idle" => n = job[j].notice
    /\ job' = [job EXCEPT ![j] = rec]
    /\ status \in Status /\ row' = [row EXCEPT ![n] = status]
    /\ mails \in {0, 1} /\ mail' = [mail EXCEPT ![n] = @ + mails]
    /\ losses \in {0, 1} /\ lost' = [lost EXCEPT ![n] = @ + losses]
    /\ saves \in {0, 1} /\ overwritten' = [overwritten EXCEPT ![n] = @ + saves]
    /\ deaths \in {0, 1} /\ died' = [died EXCEPT ![n] = @ + deaths]
    /\ forStaff' = forStaff

LEMMA BecomesTyped ==
    ASSUME TypeOK, NEW j \in Jobs, NEW rec, NEW status, NEW mails, NEW losses, NEW saves,
           NEW deaths, Becomes(j, rec, status, mails, losses, saves, deaths)
    PROVE  TypeOK'
  <1>1. /\ job' \in [Jobs -> Job]
        /\ \A i \in Jobs : job'[i].step # "idle" => job'[i].notice \in Notices
    BY DEF TypeOK, Becomes
  <1>2. forStaff' \subseteq Notices /\ row' \in [Notices -> Status]
    BY DEF TypeOK, Becomes
  <1>3. /\ mail' \in [Notices -> Nat] /\ lost' \in [Notices -> Nat]
        /\ overwritten' \in [Notices -> Nat] /\ died' \in [Notices -> Nat]
    BY DEF TypeOK, Becomes
  <1>4. QED
    BY <1>1, <1>2, <1>3 DEF TypeOK

(* How the rights of the jobs change.                                      *)
LEMMA RightsOfJobs ==
    ASSUME TypeOK, NEW j \in Jobs, NEW rec \in Job, NEW n \in Notices,
           job' = [job EXCEPT ![j] = rec],
           job[j].step # "idle" => rec.notice = job[j].notice
    PROVE  /\ IsFiniteSet(MayMailJobs(n)) /\ Cardinality(MayMailJobs(n)) \in Nat
           /\ rec.notice # n => MayMailJobs(n)' = MayMailJobs(n)
           /\ rec.notice = n =>
                Cardinality(MayMailJobs(n)') + One(job[j].step \in MayMail)
                  = Cardinality(MayMailJobs(n)) + One(rec.step \in MayMail)
  <1> DEFINE S == MayMailJobs(n)
             T == MayMailJobs(n)'
  <1>1. IsFiniteSet(S)
    BY OutboxAssumption, FS_Subset, IsFiniteSet(Jobs), S \subseteq Jobs DEF MayMailJobs, OutboxAssumption
  <1>2. Cardinality(S) \in Nat
    BY <1>1, FS_CardinalityType
  <1>3. \A i \in Jobs \ {j} : i \in T <=> i \in S
    BY DEF MayMailJobs, TypeOK
  <1>4. j \in S <=> job[j].notice = n /\ job[j].step \in MayMail
    BY DEF MayMailJobs
  <1>5. j \in T <=> rec.notice = n /\ rec.step \in MayMail
    BY DEF MayMailJobs, TypeOK
  <1>6. job[j].step \in MayMail => rec.notice = job[j].notice
    BY DEF MayMail
  <1>7. T \subseteq Jobs /\ S \subseteq Jobs
    BY DEF MayMailJobs
  <1>8. ASSUME rec.notice # n PROVE T = S
    BY <1>3, <1>4, <1>5, <1>6, <1>7, <1>8
  <1>9. ASSUME rec.notice = n
        PROVE  Cardinality(T) + One(job[j].step \in MayMail)
                 = Cardinality(S) + One(rec.step \in MayMail)
    <2>1. CASE rec.step \in MayMail /\ job[j].step \notin MayMail
      <3>1. T = S \cup {j} /\ j \notin S
        BY <1>3, <1>4, <1>5, <1>7, <1>9, <2>1
      <3>2. Cardinality(T) = Cardinality(S) + 1
        BY <1>1, <3>1, FS_AddElement
      <3>3. QED
        BY <1>2, <2>1, <3>2 DEF One
    <2>2. CASE rec.step \notin MayMail /\ job[j].step \in MayMail
      <3>1. T = S \ {j} /\ j \in S
        BY <1>3, <1>4, <1>5, <1>6, <1>7, <1>9, <2>2
      <3>2. Cardinality(T) = Cardinality(S) - 1
        BY <1>1, <3>1, FS_RemoveElement
      <3>3. QED
        BY <1>2, <2>2, <3>2 DEF One
    <2>3. CASE rec.step \in MayMail <=> job[j].step \in MayMail
      <3>1. T = S
        BY <1>3, <1>4, <1>5, <1>6, <1>7, <1>9, <2>3
      <3>2. QED
        BY <2>3, <3>1 DEF One
    <2>4. QED
      BY <2>1, <2>2, <2>3
  <1>10. QED
    BY <1>1, <1>2, <1>8, <1>9

(* A step keeps the invariant if, at its notice, it makes no claim without *)
(* an owner and uses a right for each mail and for each right it makes.    *)
LEMMA BecomesKeeps ==
    ASSUME IInv, NEW j \in Jobs, NEW rec, NEW status, NEW mails, NEW losses, NEW saves,
           NEW deaths, Becomes(j, rec, status, mails, losses, saves, deaths),
           status = "sent" \/ rec.step = "accepted" => mail[rec.notice] + mails > 0,
           status = "sending" => \/ rec.step \in Sending
                                 \/ died[rec.notice] + deaths > 0
                                 \/ row[rec.notice] = "sending" /\ job[j].step \notin Sending,
           mails + One(rec.step \in MayMail) + One(MayClaim(status))
             <= losses + saves + One(job[j].step \in MayMail) + One(MayClaim(row[rec.notice])),
           rec.notice \notin Addressed =>
             MayClaim(status) /\ rec.step \notin Sending \cup {"claim"}
    PROVE  IInv'
  <1> DEFINE n == rec.notice
  <1>1. TypeOK /\ TypeOK'
    BY BecomesTyped DEF IInv
  <1>2. rec \in Job /\ n \in Notices /\ rec.step # "idle"
    BY DEF Becomes
  <1>3. /\ job' = [job EXCEPT ![j] = rec] /\ job \in [Jobs -> Job]
        /\ job[j].step # "idle" => n = job[j].notice
    BY <1>1 DEF Becomes, TypeOK
  <1>4. /\ row \in [Notices -> Status] /\ mail \in [Notices -> Nat]
        /\ lost \in [Notices -> Nat] /\ overwritten \in [Notices -> Nat]
        /\ died \in [Notices -> Nat]
    BY <1>1 DEF TypeOK
  <1>5. /\ row'[n] = status
        /\ mail'[n] = mail[n] + mails /\ lost'[n] = lost[n] + losses
        /\ overwritten'[n] = overwritten[n] + saves /\ died'[n] = died[n] + deaths
        /\ mails \in Nat /\ losses \in Nat /\ saves \in Nat /\ deaths \in Nat
    BY <1>2, <1>4 DEF Becomes
  <1>6. \A m \in Notices \ {n} :
          /\ row'[m] = row[m] /\ mail'[m] = mail[m] /\ lost'[m] = lost[m]
          /\ overwritten'[m] = overwritten[m] /\ died'[m] = died[m]
    BY <1>2, <1>4 DEF Becomes
  <1>7. \A i \in Jobs \ {j} : job'[i] = job[i]
    BY <1>3
  <1>8. job'[j] = rec
    BY <1>3
  <1>9. ASSUME NEW m \in Notices \ {n} PROVE NoticeOK(m)'
    <2>1. MayMailJobs(m)' = MayMailJobs(m)
      BY <1>1, <1>2, <1>3, RightsOfJobs
    <2>2. Owners(m)' = Owners(m)
      BY <1>2, <1>3, <1>7, <1>8 DEF Owners, Sending
    <2>3. NoticeOK(m)
      BY DEF IInv
    <2>4. QED
      BY <1>6, <2>1, <2>2, <2>3 DEF NoticeOK, RightsBounded
  <1>10. NoticeOK(n)'
    <2>1. NoticeOK(n)
      BY <1>2 DEF IInv
    <2>2. row'[n] = "sending" => Owners(n)' # {} \/ died'[n] > 0
      <3>1. CASE rec.step \in Sending
        BY <3>1, <1>8 DEF Owners
      <3>2. CASE row[n] = "sending" /\ job[j].step \notin Sending
        <4>1. Owners(n) \subseteq Owners(n)'
          BY <1>7, <3>2 DEF Owners
        <4>2. Owners(n) # {} \/ died[n] > 0
          BY <2>1, <3>2 DEF NoticeOK
        <4>3. QED
          BY <1>2, <1>4, <1>5, <4>1, <4>2
      <3>3. QED
        BY <1>5, <3>1, <3>2
    <2>3. RightsBounded(n)'
      <3>1. /\ Cardinality(MayMailJobs(n)) \in Nat
            /\ Cardinality(MayMailJobs(n)') + One(job[j].step \in MayMail)
                 = Cardinality(MayMailJobs(n)) + One(rec.step \in MayMail)
        BY <1>1, <1>2, <1>3, RightsOfJobs
      <3>2. Cardinality(MayMailJobs(n)') \in Nat
        <4>1. MayMailJobs(n)' \subseteq Jobs
          BY DEF MayMailJobs
        <4>2. IsFiniteSet(MayMailJobs(n)')
          BY <4>1, OutboxAssumption, FS_Subset DEF OutboxAssumption
        <4>3. QED
          BY <4>2, FS_CardinalityType
      <3>3. mail[n] + Cardinality(MayMailJobs(n)) + One(MayClaim(row[n]))
              <= 1 + lost[n] + overwritten[n]
        BY <2>1 DEF NoticeOK, RightsBounded
      <3>4. /\ One(MayClaim(row[n])) \in Nat /\ One(MayClaim(status)) \in Nat
            /\ One(rec.step \in MayMail) \in Nat /\ One(job[j].step \in MayMail) \in Nat
        BY DEF One
      <3>5. mail'[n] + Cardinality(MayMailJobs(n)') + One(MayClaim(status))
              <= 1 + lost'[n] + overwritten'[n]
        BY <1>2, <1>4, <1>5, <3>1, <3>2, <3>3, <3>4
      <3>6. QED
        BY <1>5, <3>5 DEF RightsBounded
    <2>4. QED
      BY <1>5, <2>2, <2>3 DEF NoticeOK
  <1>11. ASSUME NEW i \in Jobs PROVE JobOK(i)'
    <2>1. CASE i = j
      BY <1>5, <1>8, <2>1 DEF JobOK
    <2>2. CASE i # j
      <3>1. JobOK(i) /\ job'[i] = job[i]
        BY <1>7, <2>2 DEF IInv
      <3>2. job[i].step = "accepted" => job[i].notice \in Notices
        BY <1>1 DEF TypeOK
      <3>3. \A m \in Notices : mail'[m] >= mail[m]
        BY <1>2, <1>4, <1>5, <1>6
      <3>4. ASSUME job[i].step = "accepted" PROVE mail'[job[i].notice] > 0
        BY <1>1, <1>4, <3>1, <3>2, <3>3, <3>4 DEF JobOK, TypeOK
      <3>5. QED
        BY <3>1, <3>4 DEF JobOK
    <2>3. QED
      BY <2>1, <2>2
  <1>12. QED
    BY <1>1, <1>9, <1>10, <1>11 DEF IInv

(* What an action leaves alone, in the form of Becomes.                    *)
LEMMA NothingAdded ==
    ASSUME TypeOK, NEW n \in Notices
    PROVE  /\ row = [row EXCEPT ![n] = row[n]]
           /\ mail = [mail EXCEPT ![n] = @ + 0] /\ lost = [lost EXCEPT ![n] = @ + 0]
           /\ overwritten = [overwritten EXCEPT ![n] = @ + 0]
           /\ died = [died EXCEPT ![n] = @ + 0]
           /\ row[n] \in Status
           /\ mail[n] \in Nat /\ lost[n] \in Nat /\ overwritten[n] \in Nat /\ died[n] \in Nat
  <1>1. ASSUME NEW f \in [Notices -> Nat] PROVE f = [f EXCEPT ![n] = @ + 0] /\ f[n] \in Nat
    OBVIOUS
  <1>2. /\ mail \in [Notices -> Nat] /\ lost \in [Notices -> Nat]
        /\ overwritten \in [Notices -> Nat] /\ died \in [Notices -> Nat]
    BY DEF TypeOK
  <1>3. row \in [Notices -> Status] => row = [row EXCEPT ![n] = row[n]] /\ row[n] \in Status
    OBVIOUS
  <1>4. QED
    BY <1>1, <1>2, <1>3 DEF TypeOK

-----------------------------------------------------------------------------
(***************************************************************************)
(* The web process.                                                        *)
(***************************************************************************)
LEMMA ScheduleKeeps ==
    ASSUME IInv, NEW j \in Jobs, NEW n \in Notices, Schedule(j, n)
    PROVE  IInv'
  <1> DEFINE rec == [job[j] EXCEPT !.step = "record", !.notice = n]
  <1>1. job[j] \in Job /\ job[j].step = "idle" /\ NoticeOK(n)
    BY DEF IInv, TypeOK, Schedule
  <1>2. rec \in Job /\ rec.step = "record" /\ rec.notice = n
    BY <1>1 DEF Job, Steps
  <1>3. job' = [job EXCEPT ![j] = rec]
    BY DEF Schedule, IInv, TypeOK, Job
  <1> HIDE DEF rec
  <1>4. Becomes(j, rec, row[n], 0, 0, 0, 0)
    BY <1>1, <1>2, <1>3, NothingAdded DEF Becomes, Schedule, IInv
  <1>5. QED
    BY <1>1, <1>2, <1>4, BecomesKeeps, NothingAdded DEF NoticeOK, One, MayMail, Sending, IInv

LEMMA ResendKeeps ==
    ASSUME IInv, NEW j \in Jobs, NEW n \in Notices, Resend(j, n)
    PROVE  IInv'
  <1> DEFINE rec == [job[j] EXCEPT !.step = "mark", !.notice = n, !.copy = "failed"]
  <1>1. job[j] \in Job /\ job[j].step = "idle" /\ NoticeOK(n)
    BY DEF IInv, TypeOK, Resend
  <1>2. rec \in Job /\ rec.step = "mark" /\ rec.notice = n
    BY <1>1 DEF Job, Steps, Status
  <1>3. job' = [job EXCEPT ![j] = rec]
    BY DEF Resend, IInv, TypeOK, Job
  <1> HIDE DEF rec
  <1>4. Becomes(j, rec, row[n], 0, 0, 0, 0)
    BY <1>1, <1>2, <1>3, NothingAdded DEF Becomes, Resend, IInv
  <1>5. QED
    BY <1>1, <1>2, <1>4, BecomesKeeps, NothingAdded DEF NoticeOK, One, MayMail, Sending, IInv

LEMMA EnqueueKeeps ==
    ASSUME IInv, NEW j \in Jobs, Enqueue(j)
    PROVE  IInv'
  <1> DEFINE n == job[j].notice
             found == GetOrCreate(n)
             step == IF n \in Addressed /\ found # "sent" THEN "mark" ELSE "done"
             rec == [job[j] EXCEPT !.copy = found, !.step = step]
             status == IF n \in Addressed \/ found = "sent" THEN found ELSE "failed"
  <1>1. job[j] \in Job /\ job[j].step = "record" /\ n \in Notices /\ NoticeOK(n)
        /\ row[n] \in Status
    BY DEF IInv, TypeOK, Enqueue
  <1>2. found \in Status /\ status \in Status /\ step \in {"mark", "done"}
    BY <1>1 DEF GetOrCreate, Status
  <1>3. rec \in Job /\ rec.step = step /\ rec.notice = n
    BY <1>1, <1>2 DEF Job, Steps
  <1>4. job' = [job EXCEPT ![j] = rec]
    BY DEF Enqueue, IInv, TypeOK, Job
  <1>5. row' = [row EXCEPT ![n] = status]
    BY DEF Enqueue
  <1>6. /\ status \in {"sent", "sending"} => row[n] = status
        /\ MayClaim(status) <=> MayClaim(row[n])
    BY <1>1 DEF GetOrCreate, MayClaim, NoticeOK
  <1> HIDE DEF rec, step, status
  <1>7. Becomes(j, rec, status, 0, 0, 0, 0)
    BY <1>1, <1>2, <1>3, <1>4, <1>5, NothingAdded DEF Becomes, Enqueue, IInv
  <1>8. QED
    BY <1>1, <1>2, <1>3, <1>6, <1>7, BecomesKeeps, NothingAdded
       DEF NoticeOK, One, MayMail, Sending, IInv

(* A step that changes no more of a job than its step, as Goto does.       *)
LEMMA GotoBecomes ==
    ASSUME TypeOK, NEW j \in Jobs, NEW step \in Steps, Goto(j, step),
           job[j].step # "idle", step # "idle"
    PROVE  \E rec \in Job : /\ job' = [job EXCEPT ![j] = rec] /\ rec.step = step
                            /\ rec.notice = job[j].notice /\ rec.notice \in Notices
  <1> DEFINE rec == [job[j] EXCEPT !.step = step]
  <1>1. rec \in Job /\ rec.step = step /\ rec.notice = job[j].notice
    BY DEF TypeOK, Job
  <1>2. job' = [job EXCEPT ![j] = rec]
    BY DEF Goto, TypeOK, Job
  <1>3. QED
    BY <1>1, <1>2 DEF TypeOK

(* A stale copy makes a right, and pays with its mark in overwritten.      *)
LEMMA SaveBecomes ==
    ASSUME TypeOK, NEW j \in Jobs, NEW rec \in Job, NEW status \in {"pending", "failed"},
           job' = [job EXCEPT ![j] = rec], rec.step # "idle", job[j].step # "idle",
           rec.notice = job[j].notice, rec.notice \in Notices,
           Save(rec.notice, status), UNCHANGED <<forStaff, mail, lost, died>>
    PROVE  \E saves \in {0, 1} :
             /\ Becomes(j, rec, status, 0, 0, saves, 0)
             /\ saves + One(MayClaim(row[rec.notice])) = 1
  <1> DEFINE saves == One(row[rec.notice] \in {"sending", "sent"})
  <1>1. saves \in {0, 1} /\ saves + One(MayClaim(row[rec.notice])) = 1
    BY DEF One, MayClaim
  <1>2. overwritten' = [overwritten EXCEPT ![rec.notice] = @ + saves]
    <2>1. CASE row[rec.notice] \in {"sending", "sent"}
      BY <2>1 DEF Save, One
    <2>2. CASE row[rec.notice] \notin {"sending", "sent"}
      BY <2>2, NothingAdded DEF Save, One
    <2>3. QED
      BY <2>1, <2>2
  <1> HIDE DEF saves
  <1>3. Becomes(j, rec, status, 0, 0, saves, 0)
    BY <1>1, <1>2, NothingAdded DEF Becomes, Save, Status
  <1>4. QED
    BY <1>1, <1>3

LEMMA MarkPendingKeeps ==
    ASSUME IInv, NEW j \in Jobs, MarkPending(j)
    PROVE  IInv'
  <1>1. job[j].step = "mark" /\ TypeOK
    BY DEF MarkPending, IInv
  <1>2. PICK rec \in Job : /\ job' = [job EXCEPT ![j] = rec] /\ rec.step = "publish"
                           /\ rec.notice = job[j].notice /\ rec.notice \in Notices
    BY <1>1, GotoBecomes DEF MarkPending, Steps
  <1>3. NoticeOK(rec.notice)
    BY <1>2 DEF IInv
  <1>4. CASE UNCHANGED <<row, overwritten>>
    <2>1. Becomes(j, rec, row[rec.notice], 0, 0, 0, 0)
      BY <1>1, <1>2, <1>4, NothingAdded DEF Becomes, MarkPending
    <2>2. QED
      BY <1>1, <1>2, <1>3, <2>1, BecomesKeeps, NothingAdded DEF NoticeOK, One, MayMail, Sending
  <1>5. CASE Save(job[j].notice, "pending")
    <2>1. PICK saves \in {0, 1} : /\ Becomes(j, rec, "pending", 0, 0, saves, 0)
                                  /\ saves + One(MayClaim(row[rec.notice])) = 1
      BY <1>1, <1>2, <1>5, SaveBecomes DEF MarkPending
    <2>2. QED
      BY <1>1, <1>2, <2>1, BecomesKeeps, NothingAdded DEF One, MayMail, MayClaim, Sending
  <1>6. QED
    BY <1>4, <1>5 DEF MarkPending

LEMMA PublishKeeps ==
    ASSUME IInv, NEW j \in Jobs, Publish(j)
    PROVE  IInv'
  <1>1. job[j].step = "publish" /\ TypeOK
    BY DEF Publish, IInv
  <1>2. CASE Goto(j, "queued") /\ UNCHANGED <<row, overwritten>>
    <2>1. PICK rec \in Job : /\ job' = [job EXCEPT ![j] = rec] /\ rec.step = "queued"
                             /\ rec.notice = job[j].notice /\ rec.notice \in Notices
      BY <1>1, <1>2, GotoBecomes DEF Steps
    <2>2. NoticeOK(rec.notice)
      BY <2>1 DEF IInv
    <2>3. Becomes(j, rec, row[rec.notice], 0, 0, 0, 0)
      BY <1>1, <1>2, <2>1, NothingAdded DEF Becomes, Publish
    <2>4. QED
      BY <1>1, <2>1, <2>2, <2>3, BecomesKeeps, NothingAdded DEF NoticeOK, One, MayMail, Sending
  <1>3. CASE Goto(j, "done") /\ Save(job[j].notice, "failed")
    <2>1. PICK rec \in Job : /\ job' = [job EXCEPT ![j] = rec] /\ rec.step = "done"
                             /\ rec.notice = job[j].notice /\ rec.notice \in Notices
      BY <1>1, <1>3, GotoBecomes DEF Steps
    <2>2. PICK saves \in {0, 1} : /\ Becomes(j, rec, "failed", 0, 0, saves, 0)
                                  /\ saves + One(MayClaim(row[rec.notice])) = 1
      BY <1>1, <1>3, <2>1, SaveBecomes DEF Publish
    <2>3. QED
      BY <1>1, <2>1, <2>2, BecomesKeeps, NothingAdded DEF One, MayMail, MayClaim, Sending
  <1>4. QED
    BY <1>2, <1>3 DEF Publish

-----------------------------------------------------------------------------
(***************************************************************************)
(* The task.                                                               *)
(***************************************************************************)
LEMMA LoadKeeps ==
    ASSUME IInv, NEW j \in Jobs, Load(j)
    PROVE  IInv'
  <1>1. job[j].step = "queued" /\ TypeOK
    BY DEF Load, IInv
  <1>2. PICK step \in {"done", "claim"} :
            Goto(j, step) /\ (step = "claim" => job[j].notice \in Addressed)
    BY DEF Load
  <1>3. PICK rec \in Job : /\ job' = [job EXCEPT ![j] = rec] /\ rec.step = step
                           /\ rec.notice = job[j].notice /\ rec.notice \in Notices
    BY <1>1, <1>2, GotoBecomes DEF Steps
  <1>4. NoticeOK(rec.notice)
    BY <1>3 DEF IInv
  <1>5. Becomes(j, rec, row[rec.notice], 0, 0, 0, 0)
    BY <1>1, <1>3, NothingAdded DEF Becomes, Load
  <1>6. QED
    BY <1>1, <1>2, <1>3, <1>4, <1>5, BecomesKeeps, NothingAdded
       DEF NoticeOK, One, MayMail, Sending

LEMMA NoRecipientsKeeps ==
    ASSUME IInv, NEW j \in Jobs, NoRecipients(j)
    PROVE  IInv'
  <1>1. job[j].step = "queued" /\ TypeOK
    BY DEF NoRecipients, IInv
  <1>2. PICK rec \in Job : /\ job' = [job EXCEPT ![j] = rec] /\ rec.step = "done"
                           /\ rec.notice = job[j].notice /\ rec.notice \in Notices
    BY <1>1, GotoBecomes DEF NoRecipients, Steps
  <1>3. MayClaim(row[rec.notice])
    BY <1>2 DEF IInv, NoticeOK, NoRecipients
  <1>4. Becomes(j, rec, "failed", 0, 0, 0, 0)
    BY <1>1, <1>2, NothingAdded DEF Becomes, NoRecipients, Status
  <1>5. QED
    BY <1>1, <1>2, <1>3, <1>4, BecomesKeeps DEF One, MayMail, MayClaim, Sending

(* The right of the row becomes the right of the job.                      *)
LEMMA ClaimKeeps ==
    ASSUME IInv, NEW j \in Jobs, Claim(j)
    PROVE  IInv'
  <1>1. job[j].step = "claim" /\ TypeOK /\ job[j].notice \in Addressed
    BY DEF Claim, IInv, JobOK
  <1>2. CASE Goto(j, "done") /\ UNCHANGED row
    <2>1. PICK rec \in Job : /\ job' = [job EXCEPT ![j] = rec] /\ rec.step = "done"
                             /\ rec.notice = job[j].notice /\ rec.notice \in Notices
      BY <1>1, <1>2, GotoBecomes DEF Steps
    <2>2. NoticeOK(rec.notice)
      BY <2>1 DEF IInv
    <2>3. Becomes(j, rec, row[rec.notice], 0, 0, 0, 0)
      BY <1>1, <1>2, <2>1, NothingAdded DEF Becomes, Claim
    <2>4. QED
      BY <1>1, <2>1, <2>2, <2>3, BecomesKeeps, NothingAdded
         DEF NoticeOK, One, MayMail, Sending
  <1>3. CASE /\ Claimable(job[j].notice)
             /\ row' = [row EXCEPT ![job[j].notice] = "sending"]
             /\ Goto(j, "claimed")
    <2>1. PICK rec \in Job : /\ job' = [job EXCEPT ![j] = rec] /\ rec.step = "claimed"
                             /\ rec.notice = job[j].notice /\ rec.notice \in Notices
      BY <1>1, <1>3, GotoBecomes DEF Steps
    <2>2. Becomes(j, rec, "sending", 0, 0, 0, 0)
      BY <1>1, <1>3, <2>1, NothingAdded DEF Becomes, Claim, Status
    <2>3. QED
      BY <1>1, <1>3, <2>1, <2>2, BecomesKeeps
         DEF Claimable, One, MayMail, MayClaim, Sending
  <1>4. QED
    BY <1>2, <1>3 DEF Claim

(* An accepted mail uses up the right of the job; one whose answer is lost *)
(* leaves it and is counted as lost.                                       *)
LEMMA SmtpKeeps ==
    ASSUME IInv, NEW j \in Jobs, Smtp(j)
    PROVE  IInv'
  <1>1. job[j].step = "claimed" /\ TypeOK /\ job[j].notice \in Addressed
    BY DEF Smtp, IInv, JobOK, Sending
  <1>2. PICK step \in {"accepted", "transient", "permanent"}, mails \in {0, 1},
             losses \in {0, 1} :
          /\ Goto(j, step)
          /\ mail' = [mail EXCEPT ![job[j].notice] = @ + mails]
          /\ lost' = [lost EXCEPT ![job[j].notice] = @ + losses]
          /\ step = "accepted" => mails = 1
          /\ step # "accepted" => mails = losses
    <2>1. job[j].notice \in Notices
      BY <1>1, OutboxAssumption DEF OutboxAssumption
    <2>2. CASE /\ Goto(j, "accepted")
               /\ mail' = [mail EXCEPT ![job[j].notice] = @ + 1]
               /\ UNCHANGED lost
      BY <1>1, <2>1, <2>2, NothingAdded
    <2>3. CASE /\ \E step \in {"transient", "permanent"} : Goto(j, step)
               /\ UNCHANGED <<mail, lost>>
      BY <1>1, <2>1, <2>3, NothingAdded
    <2>4. CASE /\ Goto(j, "transient")
               /\ mail' = [mail EXCEPT ![job[j].notice] = @ + 1]
               /\ lost' = [lost EXCEPT ![job[j].notice] = @ + 1]
      BY <2>4
    <2>5. QED
      BY <2>2, <2>3, <2>4 DEF Smtp
  <1>3. PICK rec \in Job : /\ job' = [job EXCEPT ![j] = rec] /\ rec.step = step
                           /\ rec.notice = job[j].notice /\ rec.notice \in Notices
    BY <1>1, <1>2, GotoBecomes DEF Steps
  <1>4. NoticeOK(rec.notice)
    BY <1>3 DEF IInv
  <1>5. Becomes(j, rec, row[rec.notice], mails, losses, 0, 0)
    BY <1>1, <1>2, <1>3, NothingAdded DEF Becomes, Smtp
  <1>6. step \in Sending /\ (step \in MayMail <=> step # "accepted")
    BY DEF Sending, MayMail
  <1>7. mails + One(step \in MayMail) <= losses + 1
    BY <1>2, <1>6 DEF One
  <1>8. QED
    BY <1>1, <1>2, <1>3, <1>4, <1>5, <1>6, <1>7, BecomesKeeps, NothingAdded
       DEF NoticeOK, One, MayMail

(* A refused job hands its right back to the row.                          *)
LEMMA FinishKeeps ==
    ASSUME IInv, NEW j \in Jobs, Finish(j)
    PROVE  IInv'
  <1> DEFINE step == IF Retried(j) THEN "queued" ELSE "done"
             rec == [job[j] EXCEPT !.step = step,
                                   !.retries = IF Retried(j) THEN @ + 1 ELSE @]
             status == Outcome(job[j].step)
  <1>1. /\ job[j] \in Job /\ job[j].step \in {"accepted", "transient", "permanent"}
        /\ job[j].notice \in Addressed /\ job[j].notice \in Notices /\ TypeOK
    BY DEF Finish, IInv, JobOK, Sending, TypeOK
  <1>2. step \in {"queued", "done"}
    OBVIOUS
  <1>3. Retried(j) => job[j].retries + 1 \in 0..MaxRetries
    BY <1>1, OutboxAssumption DEF Retried, Job, OutboxAssumption
  <1>4. rec \in Job /\ rec.step = step /\ rec.notice = job[j].notice
    BY <1>1, <1>2, <1>3 DEF Job, Steps
  <1>5. job' = [job EXCEPT ![j] = rec]
    BY <1>1 DEF Finish, TypeOK, Job
  <1>6. /\ row' = [row EXCEPT ![rec.notice] = status] /\ status \in {"sent", "failed"}
        /\ status = "sent" <=> job[j].step = "accepted"
    BY <1>4 DEF Finish, Outcome
  <1> HIDE DEF rec, step, status
  <1>7. Becomes(j, rec, status, 0, 0, 0, 0)
    BY <1>1, <1>2, <1>4, <1>5, <1>6, NothingAdded DEF Becomes, Finish, Status
  <1>8. job[j].step = "accepted" => mail[rec.notice] > 0
    BY <1>4 DEF IInv, JobOK
  <1>9. QED
    BY <1>1, <1>2, <1>4, <1>6, <1>7, <1>8, BecomesKeeps, NothingAdded
       DEF One, MayMail, MayClaim, Sending

LEMMA CrashKeeps ==
    ASSUME IInv, NEW j \in Jobs, Crash(j)
    PROVE  IInv'
  <1>1. job[j].step \notin {"idle", "queued", "done"} /\ TypeOK
    BY DEF Crash, IInv
  <1>2. PICK rec \in Job : /\ job' = [job EXCEPT ![j] = rec] /\ rec.step = "done"
                           /\ rec.notice = job[j].notice /\ rec.notice \in Notices
    BY <1>1, GotoBecomes DEF Crash, Steps
  <1>3. NoticeOK(rec.notice)
    BY <1>2 DEF IInv
  <1>4. Becomes(j, rec, row[rec.notice], 0, 0, 0, 1)
    BY <1>1, <1>2, NothingAdded DEF Becomes, Crash
  <1>5. QED
    BY <1>1, <1>2, <1>3, <1>4, BecomesKeeps, NothingAdded
       DEF NoticeOK, One, MayMail, Sending

-----------------------------------------------------------------------------
(***************************************************************************)
(* The invariant, and what it says.                                        *)
(***************************************************************************)
LEMMA InvariantInit == Init => IInv
  <1> SUFFICES ASSUME Init PROVE IInv
    OBVIOUS
  <1>1. TypeOK
    <2>1. NoJob \in Job
      BY OutboxAssumption DEF NoJob, Job, Steps, Status, OutboxAssumption
    <2>2. Zero \in [Notices -> Nat]
      BY DEF Zero
    <2>3. QED
      BY <2>1, <2>2 DEF Init, TypeOK, NoJob, Status
  <1>2. ASSUME NEW n \in Notices PROVE NoticeOK(n)
    <2>1. MayMailJobs(n) = {}
      BY DEF Init, MayMailJobs, NoJob, MayMail
    <2>2. Cardinality(MayMailJobs(n)) = 0
      BY <2>1, FS_EmptySet
    <2>3. QED
      BY <2>2 DEF Init, Zero, NoticeOK, RightsBounded, One, MayClaim
  <1>3. ASSUME NEW j \in Jobs PROVE JobOK(j)
    BY DEF Init, NoJob, JobOK, Sending
  <1>4. QED
    BY <1>1, <1>2, <1>3 DEF IInv

LEMMA InvariantStep == IInv /\ [Next]_vars => IInv'
  <1>1. ASSUME IInv, UNCHANGED vars PROVE IInv'
    BY <1>1 DEF IInv, TypeOK, NoticeOK, JobOK, RightsBounded, MayMailJobs, Owners, vars
  <1>2. QED
    BY <1>1, ScheduleKeeps, ResendKeeps, EnqueueKeeps, MarkPendingKeeps, PublishKeeps,
       LoadKeeps, NoRecipientsKeeps, ClaimKeeps, SmtpKeeps, FinishKeeps, CrashKeeps
       DEF Next, Work, Record, RecordStaff, Start, StartStaff

(* No notice is mailed but by a right to mail it, and every right but the  *)
(* first comes from a lost answer or a stale copy - the invariant the      *)
(* results below rest on.                                                  *)
THEOREM OutboxInvariant == Spec => []IInv
  BY InvariantInit, InvariantStep, PTL DEF Spec

(* Rows, jobs and counters have their types however jobs interleave; so no *)
(* task is retried more often than EMAIL_TASK_MAX_RETRIES.                 *)
THEOREM OutboxTypes == Spec => []TypeOK
  BY OutboxInvariant, PTL DEF IInv

(* The dashboard says "sent" only of a notice that a mail server accepted. *)
THEOREM SentIsTrue == Spec => []SentMeansMailed
  <1>1. IInv => SentMeansMailed
    BY DEF IInv, NoticeOK, SentMeansMailed
  <1>2. QED
    BY <1>1, OutboxInvariant, PTL

(* A row in "sending" has a task at it, unless one of its tasks has died.  *)
THEOREM SendingIsOwned == Spec => []SendingHasOwner
  <1>1. IInv => SendingHasOwner
    BY DEF IInv, NoticeOK, Owners, SendingHasOwner
  <1>2. QED
    BY <1>1, OutboxInvariant, PTL

(* Every mail of a notice after the first has a lost answer or a stale     *)
(* copy behind it.                                                         *)
THEOREM MailsHaveCauses == Spec => []MailsAccountedFor
  <1>1. ASSUME IInv, NEW n \in Notices PROVE mail[n] <= 1 + lost[n] + overwritten[n]
    <2>1. RightsBounded(n) /\ TypeOK
      BY <1>1 DEF IInv, NoticeOK
    <2>2. Cardinality(MayMailJobs(n)) \in Nat
      BY OutboxAssumption, FS_Subset, FS_CardinalityType, MayMailJobs(n) \subseteq Jobs
         DEF OutboxAssumption, MayMailJobs
    <2>3. One(MayClaim(row[n])) \in Nat
      BY DEF One
    <2>4. QED
      BY <2>1, <2>2, <2>3, NothingAdded DEF RightsBounded
  <1>2. IInv => MailsAccountedFor
    BY <1>1 DEF MailsAccountedFor
  <1>3. QED
    BY <1>2, OutboxInvariant, PTL
-----------------------------------------------------------------------------
(***************************************************************************)
(* What of EveryNoticeSettles is safety: nobody forgets a notice that      *)
(* waits, and no delivery goes on for ever.                                *)
(***************************************************************************)

(* Between the row's "pending" and the claim of a task.                    *)
OnItsWay == {"mark", "publish", "queued", "claim"}
PendingHasJob ==
    \A n \in Notices : row[n] = "pending" =>
        \/ \E j \in Jobs : job[j].notice = n /\ job[j].step \in OnItsWay
        \/ died[n] > 0

(* The steps a delivery has before it, at most.                            *)
StepsFrom(step) ==
    CASE step = "idle"    -> 8
      [] step = "record"  -> 7
      [] step = "mark"    -> 6
      [] step = "publish" -> 5
      [] step = "queued"  -> 4
      [] step = "claim"   -> 3
      [] step = "claimed" -> 2
      [] step \in Sending \ {"claimed"} -> 1
      [] step = "done"    -> 0
StepsLeft(rec) == StepsFrom(rec.step) + 4 * (MaxRetries - rec.retries)

LEMMA StepTable ==
    /\ StepsFrom("idle") = 8 /\ StepsFrom("record") = 7 /\ StepsFrom("mark") = 6
    /\ StepsFrom("publish") = 5 /\ StepsFrom("queued") = 4 /\ StepsFrom("claim") = 3
    /\ StepsFrom("claimed") = 2 /\ StepsFrom("accepted") = 1 /\ StepsFrom("transient") = 1
    /\ StepsFrom("permanent") = 1 /\ StepsFrom("done") = 0
  BY DEF StepsFrom, Sending

(* What every step does: the job comes nearer to its end, and leaves no    *)
(* row in "pending" that it was the one to take on.                        *)
Advances(j, rec, status) ==
    /\ rec \in Job /\ rec.notice \in Notices
    /\ job[j].step # "idle" => rec.notice = job[j].notice
    /\ job' = [job EXCEPT ![j] = rec] /\ StepsLeft(rec) < StepsLeft(job[j])
    /\ row' = [row EXCEPT ![rec.notice] = status]
    /\ status = "pending" => \/ rec.step \in OnItsWay
                             \/ died'[rec.notice] > 0
                             \/ row[rec.notice] = "pending" /\ job[j].step \notin OnItsWay
    /\ \A n \in Notices : died[n] \in Nat /\ died'[n] \in Nat /\ died[n] <= died'[n]

LEMMA StepsCounted ==
    ASSUME NEW old \in Job, NEW rec \in Job, rec.retries = old.retries,
           StepsFrom(rec.step) < StepsFrom(old.step)
    PROVE  StepsLeft(rec) < StepsLeft(old)
  <1>1. old.retries \in Nat /\ MaxRetries \in Nat
    BY OutboxAssumption DEF Job, OutboxAssumption
  <1>2. \A step \in Steps : StepsFrom(step) \in 0..8
    BY StepTable DEF Steps
  <1>3. StepsFrom(old.step) \in Nat /\ StepsFrom(rec.step) \in Nat
    BY <1>2 DEF Job
  <1>4. QED
    BY <1>1, <1>3 DEF StepsLeft

(* A step of the web process, the task or the queue that only goes on.     *)
RowBecomes(n, status) == row' = [row EXCEPT ![n] = status]
DeathsOnlyOf(n) == died' = died \/ died' = [died EXCEPT ![n] = @ + 1]
Forward(j, step) ==
    /\ Goto(j, step) /\ step \in Steps /\ job[j].step # "idle"
    /\ StepsFrom(step) < StepsFrom(job[j].step)
TakesOn(j, n, step, status) ==
    status = "pending" => \/ step \in OnItsWay
                          \/ died'[n] > 0
                          \/ row[n] = "pending" /\ job[j].step \notin OnItsWay

LEMMA GotoAdvances ==
    ASSUME TypeOK, NEW j \in Jobs, NEW n, n = job[j].notice, NEW step, Forward(j, step),
           NEW status, RowBecomes(n, status), DeathsOnlyOf(n), TakesOn(j, n, step, status)
    PROVE  \E rec : Advances(j, rec, status)
  <1> DEFINE rec == [job[j] EXCEPT !.step = step]
  <1>1. /\ rec \in Job /\ rec.step = step /\ rec.notice = job[j].notice
        /\ rec.retries = job[j].retries /\ job[j] \in Job /\ rec.notice \in Notices
    BY DEF TypeOK, Job, Forward
  <1>2. job' = [job EXCEPT ![j] = rec]
    BY DEF Forward, Goto, TypeOK, Job
  <1> HIDE DEF rec
  <1>3. StepsLeft(rec) < StepsLeft(job[j])
    BY <1>1, StepsCounted DEF Forward
  <1>4. \A m \in Notices : died[m] \in Nat /\ died'[m] \in Nat /\ died[m] <= died'[m]
    <2>1. died \in [Notices -> Nat]
      BY DEF TypeOK
    <2>2. QED
      BY <2>1 DEF DeathsOnlyOf
  <1>5. Advances(j, rec, status)
    BY <1>1, <1>2, <1>3, <1>4 DEF Advances, RowBecomes, TakesOn
  <1>6. QED
    BY <1>5

LEMMA BeginAdvances ==
    ASSUME TypeOK, NEW j \in Jobs, NEW n \in Notices, Schedule(j, n) \/ Resend(j, n)
    PROVE  \E rec, status : Advances(j, rec, status)
  <1>1. PICK rec : /\ job' = [job EXCEPT ![j] = rec] /\ rec \in Job /\ rec.notice = n
                   /\ rec.step \in {"record", "mark"} /\ rec.retries = job[j].retries
    <2>1. CASE Schedule(j, n)
      <3> DEFINE rec == [job[j] EXCEPT !.step = "record", !.notice = n]
      <3>1. rec \in Job /\ rec.step = "record" /\ rec.notice = n /\ rec.retries = job[j].retries
        BY DEF TypeOK, Job, Steps
      <3>2. job' = [job EXCEPT ![j] = rec]
        BY <2>1 DEF Schedule, TypeOK, Job
      <3>3. QED
        BY <3>1, <3>2
    <2>2. CASE Resend(j, n)
      <3> DEFINE rec == [job[j] EXCEPT !.step = "mark", !.notice = n, !.copy = "failed"]
      <3>1. rec \in Job /\ rec.step = "mark" /\ rec.notice = n /\ rec.retries = job[j].retries
        BY DEF TypeOK, Job, Steps, Status
      <3>2. job' = [job EXCEPT ![j] = rec]
        BY <2>2 DEF Resend, TypeOK, Job
      <3>3. QED
        BY <3>1, <3>2
    <2>3. QED
      BY <2>1, <2>2
  <1>2. job[j].step = "idle" /\ row' = row /\ died' = died /\ job[j] \in Job
    BY DEF Schedule, Resend, TypeOK
  <1>3. StepsLeft(rec) < StepsLeft(job[j])
    <2>1. StepsFrom(rec.step) < StepsFrom(job[j].step)
      BY <1>1, <1>2, StepTable
    <2>2. QED
      BY <1>1, <1>2, <2>1, StepsCounted
  <1>4. Advances(j, rec, row[n])
    BY <1>1, <1>2, <1>3, NothingAdded DEF Advances, OnItsWay
  <1>5. QED
    BY <1>4

LEMMA EnqueueAdvances ==
    ASSUME TypeOK, NEW j \in Jobs, Enqueue(j)
    PROVE  \E rec, status : Advances(j, rec, status)
  <1> DEFINE n == job[j].notice
             found == GetOrCreate(n)
             step == IF n \in Addressed /\ found # "sent" THEN "mark" ELSE "done"
             rec == [job[j] EXCEPT !.copy = found, !.step = step]
             status == IF n \in Addressed \/ found = "sent" THEN found ELSE "failed"
  <1>1. /\ job[j] \in Job /\ job[j].step = "record" /\ n \in Notices /\ row[n] \in Status
        /\ died' = died
    BY DEF TypeOK, Enqueue
  <1>2. found \in Status /\ step \in {"mark", "done"} /\ (status = "pending" => step = "mark")
    BY <1>1 DEF GetOrCreate, Status
  <1>3. rec \in Job /\ rec.step = step /\ rec.notice = n /\ rec.retries = job[j].retries
    BY <1>1, <1>2 DEF Job, Steps
  <1>4. job' = [job EXCEPT ![j] = rec]
    BY DEF Enqueue, TypeOK, Job
  <1>5. row' = [row EXCEPT ![n] = status]
    BY DEF Enqueue
  <1> HIDE DEF rec, step, status
  <1>6. StepsLeft(rec) < StepsLeft(job[j])
    <2>1. StepsFrom(rec.step) < StepsFrom(job[j].step)
      BY <1>1, <1>2, <1>3, StepTable
    <2>2. QED
      BY <1>1, <1>3, <2>1, StepsCounted
  <1>7. Advances(j, rec, status)
    BY <1>1, <1>2, <1>3, <1>4, <1>5, <1>6, NothingAdded DEF Advances, OnItsWay
  <1>8. QED
    BY <1>7

(* Everything between the record and the end of an attempt, and a crash.   *)
LEMMA WorkAdvances ==
    ASSUME TypeOK, NEW j \in Jobs,
           \/ MarkPending(j) \/ Publish(j) \/ Load(j) \/ NoRecipients(j) \/ Claim(j) \/ Smtp(j)
           \/ Crash(j)
    PROVE  \E rec, status : Advances(j, rec, status)
  <1>0. PICK n : n = job[j].notice
    OBVIOUS
  <1>1. ASSUME job[j].step # "idle", row' = row
        PROVE  RowBecomes(n, row[n])
    BY <1>0, <1>1, NothingAdded DEF TypeOK, RowBecomes
  <1>2. CASE MarkPending(j)
    <2>1. job[j].step = "mark" /\ DeathsOnlyOf(n) /\ Forward(j, "publish")
      BY <1>2, StepTable DEF MarkPending, DeathsOnlyOf, Forward, Steps
    <2>2. RowBecomes(n, row[n]) \/ RowBecomes(n, "pending")
      BY <1>0, <1>1, <1>2, <2>1 DEF MarkPending, Save, RowBecomes
    <2>3. \A status : TakesOn(j, n, "publish", status)
      BY DEF TakesOn, OnItsWay
    <2>4. QED
      BY <1>0, <2>1, <2>2, <2>3, GotoAdvances
  <1>3. CASE Publish(j)
    <2>1. job[j].step = "publish" /\ DeathsOnlyOf(n)
      BY <1>3 DEF Publish, DeathsOnlyOf
    <2>2. \/ Forward(j, "queued") /\ RowBecomes(n, row[n])
          \/ Forward(j, "done") /\ RowBecomes(n, "failed")
      BY <1>0, <1>1, <1>3, <2>1, StepTable DEF Publish, Save, RowBecomes, Forward, Steps
    <2>3. TakesOn(j, n, "queued", row[n]) /\ TakesOn(j, n, "done", "failed")
      BY DEF TakesOn, OnItsWay
    <2>4. QED
      BY <1>0, <2>1, <2>2, <2>3, GotoAdvances
  <1>4. CASE Load(j)
    <2>1. job[j].step = "queued" /\ DeathsOnlyOf(n) /\ RowBecomes(n, row[n])
      BY <1>0, <1>1, <1>4 DEF Load, DeathsOnlyOf
    <2>2. (row[n] = "sent" /\ Forward(j, "done")) \/ Forward(j, "claim")
      BY <1>0, <1>4, <2>1, StepTable DEF Load, Forward, Steps
    <2>3. /\ TakesOn(j, n, "claim", row[n])
          /\ row[n] = "sent" => TakesOn(j, n, "done", row[n])
      BY DEF TakesOn, OnItsWay
    <2>4. QED
      BY <1>0, <2>1, <2>2, <2>3, GotoAdvances
  <1>5. CASE NoRecipients(j)
    <2>1. job[j].step = "queued" /\ DeathsOnlyOf(n) /\ RowBecomes(n, "failed")
      BY <1>0, <1>5 DEF NoRecipients, DeathsOnlyOf, RowBecomes
    <2>2. Forward(j, "done") /\ TakesOn(j, n, "done", "failed")
      BY <1>5, <2>1, StepTable DEF NoRecipients, Forward, Steps, TakesOn
    <2>3. QED
      BY <1>0, <2>1, <2>2, GotoAdvances
  <1>6. CASE Claim(j)
    <2>1. job[j].step = "claim" /\ DeathsOnlyOf(n)
      BY <1>6 DEF Claim, DeathsOnlyOf
    <2>2. \/ Forward(j, "done") /\ RowBecomes(n, row[n]) /\ row[n] # "pending"
          \/ Forward(j, "claimed") /\ RowBecomes(n, "sending")
      BY <1>0, <1>1, <1>6, <2>1, StepTable DEF Claim, Claimable, RowBecomes, Forward, Steps
    <2>3. /\ row[n] # "pending" => TakesOn(j, n, "done", row[n])
          /\ TakesOn(j, n, "claimed", "sending")
      BY DEF TakesOn
    <2>4. QED
      BY <1>0, <2>1, <2>2, <2>3, GotoAdvances
  <1>7. CASE Smtp(j)
    <2>1. job[j].step = "claimed" /\ DeathsOnlyOf(n) /\ RowBecomes(n, row[n])
      BY <1>0, <1>1, <1>7 DEF Smtp, DeathsOnlyOf
    <2>2. PICK step : Forward(j, step)
      BY <1>7, <2>1, StepTable DEF Smtp, Forward, Steps
    <2>3. TakesOn(j, n, step, row[n])
      BY <2>1 DEF TakesOn, OnItsWay
    <2>4. QED
      BY <1>0, <2>1, <2>2, <2>3, GotoAdvances
  <1>8. CASE Crash(j)
    <2>1. /\ job[j].step \notin {"idle", "queued", "done"} /\ Goto(j, "done") /\ row' = row
          /\ died' = [died EXCEPT ![n] = @ + 1] /\ job[j].step \in Steps
      BY <1>0, <1>8 DEF Crash, TypeOK, Job
    <2>2. RowBecomes(n, row[n]) /\ DeathsOnlyOf(n) /\ died'[n] > 0
      BY <1>0, <1>1, <2>1, NothingAdded DEF TypeOK, DeathsOnlyOf
    <2>3. Forward(j, "done")
      BY <2>1, StepTable DEF Forward, Steps
    <2>4. TakesOn(j, n, "done", row[n])
      BY <2>2 DEF TakesOn
    <2>5. QED
      BY <1>0, <2>2, <2>3, <2>4, GotoAdvances
  <1>9. QED
    BY <1>2, <1>3, <1>4, <1>5, <1>6, <1>7, <1>8

(* A retry costs more steps than it gives back.                            *)
LEMMA FinishAdvances ==
    ASSUME TypeOK, NEW j \in Jobs, Finish(j)
    PROVE  \E rec, status : Advances(j, rec, status)
  <1> DEFINE step == IF Retried(j) THEN "queued" ELSE "done"
             again == IF Retried(j) THEN job[j].retries + 1 ELSE job[j].retries
             rec == [job[j] EXCEPT !.step = step, !.retries = again]
             status == Outcome(job[j].step)
  <1>1. /\ job[j] \in Job /\ job[j].step \in {"accepted", "transient", "permanent"}
        /\ job[j].notice \in Notices /\ died' = died /\ job[j].retries \in 0..MaxRetries
    BY DEF Finish, Sending, TypeOK, Job
  <1>2. again \in 0..MaxRetries /\ MaxRetries \in Nat
    BY <1>1, OutboxAssumption DEF Retried, OutboxAssumption
  <1>3. rec \in Job /\ rec.step = step /\ rec.notice = job[j].notice /\ rec.retries = again
    BY <1>1, <1>2 DEF Job, Steps
  <1>4. job' = [job EXCEPT ![j] = rec]
    BY <1>1 DEF Finish, TypeOK, Job
  <1>5. row' = [row EXCEPT ![rec.notice] = status] /\ status # "pending"
    BY <1>3 DEF Finish, Outcome
  <1>6. StepsFrom(job[j].step) = 1 /\ StepsFrom("queued") = 4 /\ StepsFrom("done") = 0
    BY <1>1, StepTable
  <1>7. StepsLeft(rec) < StepsLeft(job[j])
    <2>1. CASE Retried(j)
      <3>1. rec.step = "queued" /\ rec.retries = job[j].retries + 1
        BY <1>3, <2>1
      <3>2. QED
        BY <1>1, <1>2, <1>6, <3>1 DEF StepsLeft
    <2>2. CASE ~Retried(j)
      <3>1. rec.step = "done" /\ rec.retries = job[j].retries
        BY <1>3, <2>2
      <3>2. QED
        BY <1>1, <1>2, <1>6, <3>1 DEF StepsLeft
    <2>3. QED
      BY <2>1, <2>2
  <1> HIDE DEF rec, step, again, status
  <1>8. Advances(j, rec, status)
    BY <1>1, <1>3, <1>4, <1>5, <1>7, NothingAdded DEF Advances
  <1>9. QED
    BY <1>8

LEMMA EveryStepAdvances ==
    ASSUME TypeOK, Next
    PROVE  \E j \in Jobs : \E rec, status : Advances(j, rec, status)
  BY BeginAdvances, EnqueueAdvances, WorkAdvances, FinishAdvances
     DEF Next, Work, Record, RecordStaff, Start, StartStaff

LEMMA PendingKept ==
    ASSUME TypeOK, PendingHasJob, Next
    PROVE  PendingHasJob'
  <1>0. PICK j \in Jobs : \E rec, status : Advances(j, rec, status)
    BY EveryStepAdvances
  <1>1. PICK rec, status : Advances(j, rec, status)
    BY <1>0
  <1>2. /\ job' \in [Jobs -> Job] /\ job'[j] = rec /\ \A i \in Jobs \ {j} : job'[i] = job[i]
        /\ row'[rec.notice] = status /\ \A n \in Notices \ {rec.notice} : row'[n] = row[n]
    BY <1>1 DEF Advances, TypeOK
  <1>3. SUFFICES ASSUME NEW n \in Notices, row'[n] = "pending", ~(died'[n] > 0)
                 PROVE  \E i \in Jobs : job'[i].notice = n /\ job'[i].step \in OnItsWay
    BY DEF PendingHasJob
  <1>4. died[n] = 0
    BY <1>1, <1>3 DEF Advances
  <1>5. ASSUME row[n] = "pending", job[j].notice = n => job[j].step \notin OnItsWay
        PROVE  \E i \in Jobs : job'[i].notice = n /\ job'[i].step \in OnItsWay
    <2>1. PICK i \in Jobs : job[i].notice = n /\ job[i].step \in OnItsWay
      BY <1>4, <1>5 DEF PendingHasJob
    <2>2. QED
      BY <1>2, <1>5, <2>1
  <1>6. CASE rec.notice = n /\ rec.step \in OnItsWay
    BY <1>2, <1>6
  <1>7. CASE rec.notice = n /\ rec.step \notin OnItsWay
    <2>1. row[n] = "pending" /\ job[j].step \notin OnItsWay
      BY <1>1, <1>2, <1>3, <1>7 DEF Advances
    <2>2. QED
      BY <1>5, <2>1
  <1>8. CASE rec.notice # n
    <2>1. row[n] = "pending"
      BY <1>2, <1>3, <1>8
    <2>2. job[j].notice = n => job[j].step = "idle"
      BY <1>1, <1>8 DEF Advances
    <2>3. QED
      BY <1>5, <2>1, <2>2 DEF OnItsWay
  <1>9. QED
    BY <1>6, <1>7, <1>8

LEMMA PendingInvariant == Spec => []PendingHasJob
  <1>1. Init => PendingHasJob
    BY DEF Init, PendingHasJob
  <1>2. TypeOK /\ PendingHasJob /\ UNCHANGED vars => PendingHasJob'
    BY DEF PendingHasJob, vars
  <1>3. TypeOK /\ PendingHasJob /\ [Next]_vars => PendingHasJob'
    BY <1>2, PendingKept
  <1>4. QED
    BY <1>1, <1>3, OutboxTypes, PTL DEF Spec

(* _enqueue_log and the tasks forget no notice: once every delivery of it  *)
(* is over and none of its processes has died, its row says "sent" or      *)
(* "failed", which a manager can see and resend; "pending" and "sending"   *)
(* always have somebody who goes on.                                       *)
THEOREM NothingLeftWaiting ==
    Spec => [](\A n \in Notices :
                 (\A j \in Jobs : job[j].notice = n => job[j].step \in {"idle", "record", "done"})
                 => row[n] \notin {"pending", "sending"} \/ died[n] > 0)
  <1>1. PendingHasJob /\ SendingHasOwner =>
          \A n \in Notices :
            (\A j \in Jobs : job[j].notice = n => job[j].step \in {"idle", "record", "done"})
            => row[n] \notin {"pending", "sending"} \/ died[n] > 0
    BY DEF PendingHasJob, SendingHasOwner, OnItsWay, Sending
  <1>2. QED
    BY <1>1, PendingInvariant, SendingIsOwned, PTL

(* Celery's retries included, every step of a delivery takes one from the  *)
(* steps it has left, which are never fewer than none: a delivery takes at *)
(* most 8 + 4 * EMAIL_TASK_MAX_RETRIES of them, however others interfere.  *)
THEOREM DeliveriesEnd ==
    Spec => [][\A j \in Jobs : job'[j] # job[j] =>
                 /\ StepsLeft(job[j]) \in Nat /\ StepsLeft(job'[j]) \in Nat
                 /\ StepsLeft(job'[j]) < StepsLeft(job[j])]_vars
  <1>1. ASSUME NEW rec \in Job
        PROVE  StepsLeft(rec) \in Nat
    <2>1. StepsFrom(rec.step) \in Nat
      BY StepTable DEF Job, Steps
    <2>2. MaxRetries \in Nat /\ rec.retries \in 0..MaxRetries
      BY OutboxAssumption DEF Job, OutboxAssumption
    <2>3. QED
      BY <2>1, <2>2 DEF StepsLeft
  <1>2. ASSUME TypeOK, Next, NEW j \in Jobs, job'[j] # job[j]
        PROVE  /\ StepsLeft(job[j]) \in Nat /\ StepsLeft(job'[j]) \in Nat
               /\ StepsLeft(job'[j]) < StepsLeft(job[j])
    <2>0. PICK i \in Jobs : \E rec, status : Advances(i, rec, status)
      BY <1>2, EveryStepAdvances
    <2>1. PICK rec, status : Advances(i, rec, status)
      BY <2>0
    <2>2. i = j /\ job'[j] = rec /\ rec \in Job /\ job[j] \in Job
      BY <1>2, <2>1 DEF Advances, TypeOK
    <2>3. QED
      BY <1>1, <2>1, <2>2 DEF Advances
  <1>3. TypeOK /\ [Next]_vars =>
          [\A j \in Jobs : job'[j] # job[j] =>
             /\ StepsLeft(job[j]) \in Nat /\ StepsLeft(job'[j]) \in Nat
             /\ StepsLeft(job'[j]) < StepsLeft(job[j])]_vars
    BY <1>2
  <1>4. QED
    BY <1>3, OutboxTypes, PTL DEF Spec
===============================================================================
