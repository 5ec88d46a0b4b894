--------------------------- MODULE ShopServicesProofs --------------------------
(***************************************************************************)
(* Proofs about Thumbnails, PaymentSync, Backfill, Carts and               *)
(* PickupCalendar: what keeps a product's picture its own, an order's      *)
(* payment and status together, carts and reservations right while         *)
(* requests work on copies of rows, and a sweep on the calendar's side.    *)
(***************************************************************************)
EXTENDS Thumbnails, PaymentSync, Backfill, Carts, PickupCalendar, FiniteSetTheorems,
        TLAPS

-----------------------------------------------------------------------------
(* Thumbnails.                                                             *)

(* The name of a thumbnail has the stem of the image it was made of: in    *)
(* the storage, and in the row and every copy that names a source.         *)
ThumbFileNamed(n) == thumbFile[n] # "none" => ThumbStem[thumbFile[n]] = n[1]
ThumbRowNamed(row) ==
    row.thumbnail # <<>> /\ row.source # "none" => ThumbStem[row.source] = row.thumbnail[1]

ThumbIInv ==
    /\ ThumbTypeOK
    /\ \A n \in ThumbNames : ThumbFileNamed(n)
    /\ ThumbRowNamed(thumbRow)
    /\ \A f \in ThumbForms : ThumbRowNamed(thumbForm[f].row)
    /\ \A j \in ThumbJobs : ThumbJobAt(j, "update") =>
         thumbJob[j].name[1] = ThumbStem[thumbJob[j].row.image] /\ thumbJob[j].name # <<>>

ThumbJobType == [step : ThumbJobSteps, row : ThumbRow, force : BOOLEAN,
                 name : ThumbNames \cup {<<>>}]
ThumbFormType == [step : {"idle", "save", "done"}, row : ThumbRow]

(* A delivery that has stored its file has its name from its image.        *)
ThumbJobNamed(rec) ==
    rec.step = "update" => rec.name[1] = ThumbStem[rec.row.image] /\ rec.name # <<>>

LEMMA ThumbJobKeeps ==
    ASSUME ThumbIInv, NEW j \in ThumbJobs, NEW rec \in ThumbJobType,
           thumbJob' = [thumbJob EXCEPT ![j] = rec], ThumbJobNamed(rec)
    PROVE  /\ thumbJob' \in [ThumbJobs -> ThumbJobType]
           /\ \A i \in ThumbJobs : ThumbJobNamed(thumbJob'[i])
  <1>1. /\ thumbJob \in [ThumbJobs -> ThumbJobType]
        /\ \A i \in ThumbJobs : ThumbJobNamed(thumbJob[i])
    BY DEF ThumbIInv, ThumbTypeOK, ThumbJobType, ThumbJobNamed, ThumbJobAt
  <1>2. QED
    BY <1>1

LEMMA ThumbInvSays ==
    ASSUME ThumbIInv
    PROVE  /\ thumbRow \in ThumbRow /\ thumbFile \in [ThumbNames -> ThumbImages \cup {"none"}]
           /\ thumbUsed \subseteq ThumbImages /\ thumbJob \in [ThumbJobs -> ThumbJobType]
           /\ thumbForm \in [ThumbForms -> ThumbFormType]
           /\ \A n \in ThumbNames : ThumbFileNamed(n)
           /\ ThumbRowNamed(thumbRow)
           /\ \A f \in ThumbForms : ThumbRowNamed(thumbForm[f].row)
           /\ \A j \in ThumbJobs : ThumbJobNamed(thumbJob[j])
  BY DEF ThumbIInv, ThumbTypeOK, ThumbJobType, ThumbFormType, ThumbJobNamed, ThumbJobAt

(* What a job does to the storage keeps the names: it deletes, or stores   *)
(* under a name of the stem.                                               *)
ThumbFilesMove ==
    \/ UNCHANGED thumbFile
    \/ \E n \in ThumbNames : thumbFile' = [thumbFile EXCEPT ![n] = "none"]
    \/ \E n \in ThumbNames, i \in ThumbImages :
         n[1] = ThumbStem[i] /\ thumbFile' = [thumbFile EXCEPT ![n] = i]

LEMMA ThumbFilesKeep ==
    ASSUME ThumbIInv, ThumbFilesMove
    PROVE  /\ thumbFile' \in [ThumbNames -> ThumbImages \cup {"none"}]
           /\ \A n \in ThumbNames : ThumbFileNamed(n)'
  <1>1. /\ thumbFile \in [ThumbNames -> ThumbImages \cup {"none"}]
        /\ \A n \in ThumbNames : ThumbFileNamed(n)
    BY ThumbInvSays
  <1>2. QED
    BY <1>1 DEF ThumbFilesMove, ThumbFileNamed

(* A step of a job, but for the last.                                      *)
LEMMA ThumbWorkKeeps ==
    ASSUME ThumbIInv, NEW j \in ThumbJobs, NEW rec \in ThumbJobType, ThumbFilesMove,
           thumbJob' = [thumbJob EXCEPT ![j] = rec], ThumbJobNamed(rec),
           UNCHANGED <<thumbRow, thumbUsed, thumbForm>>
    PROVE  ThumbIInv'
  <1>1. /\ thumbJob' \in [ThumbJobs -> ThumbJobType]
        /\ \A i \in ThumbJobs : ThumbJobNamed(thumbJob[i])'
    BY ThumbJobKeeps DEF ThumbJobNamed
  <1>2. /\ thumbRow' \in ThumbRow /\ thumbUsed' \subseteq ThumbImages
        /\ thumbForm' \in [ThumbForms -> ThumbFormType]
        /\ ThumbRowNamed(thumbRow)' /\ \A f \in ThumbForms : ThumbRowNamed(thumbForm[f].row)'
    BY ThumbInvSays DEF ThumbRowNamed
  <1>3. ThumbTypeOK'
    BY <1>1, <1>2, ThumbFilesKeep DEF ThumbTypeOK, ThumbJobType, ThumbFormType
  <1>4. QED
    BY <1>1, <1>2, <1>3, ThumbFilesKeep DEF ThumbIInv, ThumbJobNamed, ThumbJobAt

(* A job that has been told what to do works with the row it has loaded.   *)
LEMMA ThumbJobsKeep ==
    ASSUME ThumbIInv, NEW j \in ThumbJobs,
           \/ ThumbLoad(j) \/ ThumbCommand(j) \/ ThumbCheck(j) \/ ThumbDropOld(j)
           \/ ThumbDropTarget(j) \/ ThumbCrash(j)
           \/ \E k \in 0..ThumbSuffixMax : ThumbStore(j, k)
    PROVE  ThumbIInv'
  <1>0. /\ thumbJob[j] \in ThumbJobType /\ thumbRow \in ThumbRow /\ ThumbJobNamed(thumbJob[j])
        /\ thumbFile \in [ThumbNames -> ThumbImages \cup {"none"}]
    BY ThumbInvSays
  <1>1. /\ \A n \in ThumbNames \cup {<<>>} :
             thumbFile' = ThumbWithout(n) => ThumbFilesMove
        /\ thumbJob[j].row.thumbnail \in ThumbNames \cup {<<>>}
    BY <1>0 DEF ThumbWithout, ThumbFilesMove, ThumbJobType, ThumbRow
  <1>2. ASSUME NEW step \in ThumbJobSteps \ {"update"}, ThumbJobTo(j, step), ThumbFilesMove,
               UNCHANGED <<thumbRow, thumbUsed, thumbForm>>
        PROVE  ThumbIInv'
    <2> DEFINE rec == [thumbJob[j] EXCEPT !.step = step]
    <2>1. rec \in ThumbJobType /\ ThumbJobNamed(rec)
      BY <1>0 DEF ThumbJobType, ThumbJobNamed
    <2>2. thumbJob' = [thumbJob EXCEPT ![j] = rec]
      BY <1>2 DEF ThumbJobTo
    <2> HIDE DEF rec
    <2>3. QED
      BY <1>2, <2>1, <2>2, ThumbWorkKeeps
  <1>3. ASSUME NEW force \in BOOLEAN, UNCHANGED <<thumbRow, thumbFile, thumbUsed, thumbForm>>,
               thumbJob' = [thumbJob EXCEPT ![j] = [@ EXCEPT !.step = "check", !.row = thumbRow,
                                                             !.force = force]]
        PROVE  ThumbIInv'
    <2> DEFINE rec == [thumbJob[j] EXCEPT !.step = "check", !.row = thumbRow, !.force = force]
    <2>1. rec \in ThumbJobType /\ ThumbJobNamed(rec)
      BY <1>0 DEF ThumbJobType, ThumbJobNamed, ThumbJobSteps
    <2>2. thumbJob' = [thumbJob EXCEPT ![j] = rec]
      BY <1>3
    <2> HIDE DEF rec
    <2>3. ThumbFilesMove
      BY <1>3 DEF ThumbFilesMove
    <2>4. QED
      BY <1>3, <2>1, <2>2, <2>3, ThumbWorkKeeps
  <1>4. CASE ThumbLoad(j)
    <2> DEFINE rec == [thumbJob[j] EXCEPT !.step = "check", !.row = thumbRow]
    <2>1. rec \in ThumbJobType /\ ThumbJobNamed(rec)
      BY <1>0 DEF ThumbJobType, ThumbJobNamed, ThumbJobSteps
    <2>2. thumbJob' = [thumbJob EXCEPT ![j] = rec]
      BY <1>4 DEF ThumbLoad
    <2> HIDE DEF rec
    <2>3. ThumbFilesMove /\ UNCHANGED <<thumbRow, thumbUsed, thumbForm>>
      BY <1>4 DEF ThumbLoad, ThumbFilesMove
    <2>4. QED
      BY <2>1, <2>2, <2>3, ThumbWorkKeeps
  <1>5. CASE ThumbCommand(j)
    BY <1>3, <1>5 DEF ThumbCommand
  <1>6. CASE ThumbCheck(j)
    BY <1>2, <1>6 DEF ThumbCheck, ThumbJobSteps, ThumbFilesMove
  <1>7. CASE ThumbDropOld(j)
    BY <1>1, <1>2, <1>7 DEF ThumbDropOld, ThumbJobSteps, ThumbFilesMove
  <1>8. CASE ThumbDropTarget(j)
    <2>1. ThumbTarget(j) \in ThumbNames
      BY <1>0, ThumbAssumption DEF ThumbTarget, ThumbJobType, ThumbRow, ThumbNames, ThumbAssumption
    <2>2. QED
      BY <1>1, <1>2, <1>8, <2>1 DEF ThumbDropTarget, ThumbJobSteps
  <1>9. CASE ThumbCrash(j)
    BY <1>2, <1>9 DEF ThumbCrash, ThumbJobSteps, ThumbFilesMove
  <1>10. ASSUME NEW k \in 0..ThumbSuffixMax, ThumbStore(j, k)
         PROVE  ThumbIInv'
    <2> PICK image : image = thumbJob[j].row.image
      OBVIOUS
    <2> PICK name : name = <<ThumbStem[image], k>>
      OBVIOUS
    <2>1. image \in ThumbImages
      BY <1>0 DEF ThumbJobType, ThumbRow
    <2>2. name \in ThumbNames /\ name[1] = ThumbStem[image] /\ name # <<>>
      BY <2>1, ThumbAssumption DEF ThumbNames, ThumbAssumption
    <2>3. /\ thumbFile' = [thumbFile EXCEPT ![name] = image]
          /\ thumbJob' = [thumbJob EXCEPT ![j].step = "update", ![j].name = name]
          /\ UNCHANGED <<thumbRow, thumbUsed, thumbForm>>
      BY <1>10 DEF ThumbStore, ThumbTarget
    <2> DEFINE rec == [thumbJob[j] EXCEPT !.step = "update", !.name = name]
    <2>4. rec \in ThumbJobType /\ rec.name = name /\ rec.row.image = image
      BY <1>0, <2>2 DEF ThumbJobType, ThumbJobSteps
    <2>5. thumbJob' = [thumbJob EXCEPT ![j] = rec]
      BY <2>3
    <2> HIDE DEF rec
    <2>6. ThumbJobNamed(rec) /\ ThumbFilesMove
      BY <2>1, <2>2, <2>3, <2>4 DEF ThumbJobNamed, ThumbFilesMove
    <2>7. QED
      BY <2>3, <2>4, <2>5, <2>6, ThumbWorkKeeps
  <1>11. QED
    BY <1>4, <1>5, <1>6, <1>7, <1>8, <1>9, <1>10

(* The UPDATE names the file of the copy and the image of the copy, which  *)
(* is what the file was made of.                                           *)
LEMMA ThumbRecordKeeps ==
    ASSUME ThumbIInv, NEW j \in ThumbJobs, ThumbRecord(j)
    PROVE  ThumbIInv'
  <1>0. /\ thumbJob \in [ThumbJobs -> ThumbJobType] /\ thumbRow \in ThumbRow
        /\ \A i \in ThumbJobs : ThumbJobNamed(thumbJob[i])
        /\ thumbJob[j].name \in ThumbNames \cup {<<>>} /\ thumbJob[j].row.image \in ThumbImages
    BY ThumbInvSays DEF ThumbJobType, ThumbRow
  <1>1. thumbJob[j].name[1] = ThumbStem[thumbJob[j].row.image] /\ thumbJob[j].name # <<>>
    BY <1>0 DEF ThumbRecord, ThumbJobNamed, ThumbJobAt
  <1> PICK name, image : name = thumbJob[j].name /\ image = thumbJob[j].row.image
    OBVIOUS
  <1>2. thumbRow' = [thumbRow EXCEPT !.thumbnail = name, !.source = image]
    BY DEF ThumbRecord
  <1>3. thumbRow' \in ThumbRow /\ ThumbRowNamed(thumbRow)'
    BY <1>0, <1>1, <1>2 DEF ThumbRow, ThumbRowNamed
  <1>4. thumbJob' \in [ThumbJobs -> ThumbJobType] /\ \A i \in ThumbJobs : ThumbJobNamed(thumbJob[i])'
    BY <1>0 DEF ThumbRecord, ThumbJobTo, ThumbJobType, ThumbJobSteps, ThumbJobNamed
  <1>5. UNCHANGED <<thumbFile, thumbUsed, thumbForm>>
    BY DEF ThumbRecord
  <1>6. /\ thumbFile' \in [ThumbNames -> ThumbImages \cup {"none"}] /\ thumbUsed' \subseteq ThumbImages
        /\ thumbForm' \in [ThumbForms -> ThumbFormType]
        /\ \A n \in ThumbNames : ThumbFileNamed(n)'
        /\ \A f \in ThumbForms : ThumbRowNamed(thumbForm[f].row)'
    BY <1>5, ThumbInvSays DEF ThumbFileNamed, ThumbRowNamed
  <1>7. ThumbTypeOK'
    BY <1>3, <1>4, <1>6 DEF ThumbTypeOK, ThumbJobType, ThumbFormType
  <1>8. QED
    BY <1>3, <1>4, <1>6, <1>7 DEF ThumbIInv, ThumbJobNamed, ThumbJobAt

LEMMA ThumbPostKeeps ==
    ASSUME ThumbIInv, NEW f \in ThumbForms, ThumbPost(f)
    PROVE  ThumbIInv'
  <1>0. thumbForm \in [ThumbForms -> ThumbFormType] /\ thumbRow \in ThumbRow
        /\ ThumbRowNamed(thumbRow) /\ \A g \in ThumbForms : ThumbRowNamed(thumbForm[g].row)
    BY ThumbInvSays
  <1> DEFINE rec == [step |-> "save", row |-> thumbRow]
  <1>1. rec \in ThumbFormType /\ rec.row = thumbRow
    BY <1>0 DEF ThumbFormType
  <1>2. thumbForm' = [thumbForm EXCEPT ![f] = rec] /\ UNCHANGED <<thumbRow, thumbFile, thumbUsed, thumbJob>>
    BY DEF ThumbPost
  <1> HIDE DEF rec
  <1>3. /\ thumbForm' \in [ThumbForms -> ThumbFormType]
        /\ \A g \in ThumbForms : ThumbRowNamed(thumbForm'[g].row)
    BY <1>0, <1>1, <1>2
  <1>4. ThumbTypeOK'
    BY <1>2, <1>3 DEF ThumbIInv, ThumbTypeOK, ThumbFormType
  <1>5. QED
    BY <1>2, <1>3, <1>4 DEF ThumbIInv, ThumbFileNamed, ThumbRowNamed, ThumbJobAt

(* A form gives the row a source only if its copy had it, with the same    *)
(* thumbnail.                                                              *)
LEMMA ThumbSaveKeeps ==
    ASSUME ThumbIInv, NEW f \in ThumbForms, NEW i \in ThumbImages, ThumbSave(f, i)
    PROVE  ThumbIInv'
  <1> PICK copy : copy = thumbForm[f].row
    OBVIOUS
  <1>0. /\ copy \in ThumbRow /\ ThumbRowNamed(copy)
        /\ thumbForm \in [ThumbForms -> ThumbFormType] /\ thumbUsed \subseteq ThumbImages
        /\ \A g \in ThumbForms : ThumbRowNamed(thumbForm[g].row)
        /\ thumbJob \in [ThumbJobs -> ThumbJobType] /\ \A j \in ThumbJobs : ThumbJobNamed(thumbJob[j])
    BY ThumbInvSays DEF ThumbFormType
  <1> PICK source : source = IF copy.thumbnail # <<>> /\ copy.source # i THEN "none" ELSE copy.source
    OBVIOUS
  <1>1. thumbRow' = [copy EXCEPT !.image = i, !.source = source]
    BY DEF ThumbSave
  <1>2. thumbRow' \in ThumbRow /\ thumbRow'.source = source /\ thumbRow'.thumbnail = copy.thumbnail
    BY <1>0, <1>1 DEF ThumbRow
  <1>3. ThumbRowNamed(thumbRow)'
    BY <1>0, <1>2 DEF ThumbRowNamed
  <1>4. /\ thumbForm' = [thumbForm EXCEPT ![f].step = "done"] /\ UNCHANGED thumbFile
        /\ thumbUsed' = thumbUsed \cup {i}
        /\ \/ UNCHANGED thumbJob
           \/ \E j \in ThumbJobs : thumbJob' = [thumbJob EXCEPT ![j].step = "queued"]
    BY DEF ThumbSave, ThumbJobTo
  <1>5. /\ thumbForm' \in [ThumbForms -> ThumbFormType]
        /\ \A g \in ThumbForms : ThumbRowNamed(thumbForm'[g].row)
    <2>1. thumbForm' \in [ThumbForms -> ThumbFormType]
      BY <1>0, <1>4 DEF ThumbFormType
    <2>2. ASSUME NEW g \in ThumbForms  PROVE thumbForm'[g].row = thumbForm[g].row
      BY <1>0, <1>4 DEF ThumbFormType
    <2>3. QED
      BY <1>0, <2>1, <2>2
  <1>6. thumbJob' \in [ThumbJobs -> ThumbJobType] /\ \A j \in ThumbJobs : ThumbJobNamed(thumbJob'[j])
    BY <1>0, <1>4 DEF ThumbJobType, ThumbJobSteps, ThumbJobNamed
  <1>7. ThumbTypeOK'
    BY <1>0, <1>2, <1>4, <1>5, <1>6 DEF ThumbIInv, ThumbTypeOK, ThumbFormType, ThumbJobType
  <1>8. QED
    BY <1>3, <1>4, <1>5, <1>6, <1>7 DEF ThumbIInv, ThumbFileNamed, ThumbRowNamed, ThumbJobAt,
       ThumbJobNamed

LEMMA ThumbInitHolds == ThumbInit => ThumbIInv
  <1> SUFFICES ASSUME ThumbInit  PROVE ThumbIInv
    OBVIOUS
  <1>1. PICK i \in ThumbImages :
          LET row == [image |-> i, thumbnail |-> <<>>, source |-> "none"] IN
          /\ thumbRow = row /\ thumbUsed = {i}
          /\ thumbJob = [j \in ThumbJobs |-> [step |-> "idle", row |-> row, force |-> FALSE,
                                              name |-> <<>>]]
          /\ thumbForm = [f \in ThumbForms |-> [step |-> "idle", row |-> row]]
    BY DEF ThumbInit
  <1> PICK row : row = [image |-> i, thumbnail |-> <<>>, source |-> "none"]
    OBVIOUS
  <1>2. row \in ThumbRow /\ ThumbRowNamed(row)
    BY DEF ThumbRow, ThumbRowNamed
  <1>3. thumbFile = [n \in ThumbNames |-> "none"]
    BY DEF ThumbInit
  <1>4. ThumbTypeOK
    BY <1>1, <1>2, <1>3 DEF ThumbTypeOK, ThumbJobSteps
  <1>5. QED
    BY <1>1, <1>2, <1>3, <1>4 DEF ThumbIInv, ThumbFileNamed, ThumbJobAt

LEMMA ThumbStepKeeps == ThumbIInv /\ [ThumbNext]_thumbVars => ThumbIInv'
  <1> SUFFICES ASSUME ThumbIInv, [ThumbNext]_thumbVars  PROVE ThumbIInv'
    OBVIOUS
  <1>1. CASE UNCHANGED thumbVars
    BY <1>1 DEF thumbVars, ThumbIInv, ThumbTypeOK, ThumbFileNamed, ThumbRowNamed, ThumbJobAt
  <1>2. QED
    BY <1>1, ThumbPostKeeps, ThumbSaveKeeps, ThumbJobsKeep, ThumbRecordKeeps DEF ThumbNext

(* A thumbnail has the stem of the image it was made of, in the storage,   *)
(* in the row and in every copy a form or a task works on - the invariant  *)
(* the results about pictures rest on.                                     *)
THEOREM ThumbnailsInvariant == ThumbSpec => []ThumbIInv
  BY ThumbInitHolds, ThumbStepKeeps, PTL DEF ThumbSpec

(* Whatever forms, tasks and the command do, row and copies name an image  *)
(* that was uploaded and a file the storage may hold.                      *)
THEOREM ThumbnailsTypes == ThumbSpec => []ThumbTypeOK
  <1>1. ThumbIInv => ThumbTypeOK
    BY DEF ThumbIInv
  <1>2. QED
    BY <1>1, ThumbnailsInvariant, PTL

(* catalog_image never shows the thumbnail of another picture, for any     *)
(* number of images, tasks and forms.                                      *)
THEOREM PicturesAreTheirOwn == ThumbSpec => []ThumbShowsItsImage
  <1>1. ASSUME ThumbIInv  PROVE ThumbShowsItsImage
    <2>1. SUFFICES ASSUME ThumbShown, ThumbExists(thumbRow.thumbnail)
                   PROVE  ThumbStem[thumbFile[thumbRow.thumbnail]] = ThumbStem[thumbRow.image]
      BY DEF ThumbShowsItsImage
    <2>2. /\ thumbRow.thumbnail \in ThumbNames /\ thumbRow.source = thumbRow.image
          /\ thumbRow.image \in ThumbImages /\ thumbRow.source # "none"
      BY <1>1, <2>1, ThumbInvSays, ThumbAssumption DEF ThumbShown, ThumbRow, ThumbAssumption
    <2>3. ThumbStem[thumbFile[thumbRow.thumbnail]] = thumbRow.thumbnail[1]
      BY <1>1, <2>1, <2>2 DEF ThumbIInv, ThumbFileNamed, ThumbExists
    <2>4. ThumbStem[thumbRow.source] = thumbRow.thumbnail[1]
      BY <1>1, <2>1, <2>2 DEF ThumbIInv, ThumbRowNamed, ThumbShown
    <2>5. QED
      BY <2>2, <2>3, <2>4
  <1>2. QED
    BY <1>1, ThumbnailsInvariant, PTL

-----------------------------------------------------------------------------
(* Carts.                                                                  *)

CartIdlePhases == {"new", "done", "failed"}
CartItemPhases == {"resolve", "lock_variant", "item", "save", "remove"}
CartMergePhases == {"resolve", "find", "lock_carts", "lock_items", "merge"}
CartMerging == {"lock_items", "merge"}

(* A request is of one of two kinds: it changes an item, or it is a login  *)
(* that merges the cart of its browser into the cart of an account.        *)
CartShape(req) ==
    /\ req.phase \in CartIdlePhases => req.browser = "none" /\ req.kind = "none"
    /\ req.phase \notin CartIdlePhases =>
         \/ /\ req.browser = "none" /\ req.phase \in CartItemPhases
            /\ req.owner \in CartOwners /\ req.variant \in CartVariants
            /\ req.kind \in {"add", "update", "remove"}
            /\ req.phase \in {"lock_variant", "item", "save"} => req.kind \in {"add", "update"}
            /\ req.phase = "remove" => req.kind = "remove"
            /\ req.phase = "save" => req.kind = "add"
         \/ /\ req.browser \in CartBrowsers /\ req.phase \in CartMergePhases
            /\ req.owner \in CartUsers /\ req.kind \in {"login", "auto_login"}
    /\ req.phase \notin CartMerging => req.rows = CartNoRows

(* The keys it works with were given out; an account's cart never goes.    *)
CartKeyed(req) ==
    /\ req.phase \notin CartIdlePhases \cup {"resolve"} =>
         /\ req.pk # 0 /\ req.pk <= cartLastPk
         /\ req.owner \in CartUsers => cartPk[req.owner] = req.pk
    /\ req.phase \in {"lock_carts"} \cup CartMerging =>
         req.fromPk # 0 /\ req.fromPk <= cartLastPk

(* A merge holds the rows of the two carts it found, and before it looks   *)
(* at the items it holds both; while it holds one of them only, the other, *)
(* if it still exists, has the higher key.                                 *)
CartPkOf(req, o) == IF o = req.owner THEN req.pk ELSE req.fromPk
CartHolds(r, req) ==
    /\ \A o \in CartOwners : cartLock[o] = r =>
         /\ req.phase \in {"lock_carts"} \cup CartMerging
         /\ o \in {req.owner, req.browser}
         /\ cartPk[o] = CartPkOf(req, o)
    /\ req.phase \in CartMerging => cartLock[req.owner] = r /\ cartLock[req.browser] = r
    /\ req.phase = "lock_carts" =>
         \A o, p \in {req.owner, req.browser} :
            cartLock[o] = r /\ cartLock[p] # r /\ cartPk[p] = CartPkOf(req, p)
              => cartPk[o] <= cartPk[p]

(* Whoever holds a variant is writing an item of it, or merging one, and   *)
(* what it has read of the item and of the stock is still so; a merge that *)
(* has locked its items holds all their variants.                          *)
CartCovered(r, req) ==
    /\ \A v \in CartVariants : variantLock[v] = r =>
         \/ req.phase \in {"item", "save"} /\ req.variant = v
         \/ req.phase \in CartMerging /\ req.rows[v] > 0
    /\ req.phase \in {"item", "save"} =>
         /\ variantLock[req.variant] = r
         /\ req.available = cartAvailable[req.variant] /\ req.quantity <= req.available
    /\ req.phase = "save" =>
         /\ req.seen + req.quantity <= req.available
         /\ cartItem[req.owner][req.variant] \in {0, req.seen}
    /\ req.phase \in CartMerging =>
         \A v \in CartVariants : req.rows[v] > 0 =>
            /\ cartItem[req.browser][v] = req.rows[v]
            /\ req.phase = "merge" => variantLock[v] = r

CartGood(r) ==
    /\ CartShape(cartRequest[r]) /\ CartKeyed(cartRequest[r])
    /\ CartHolds(r, cartRequest[r]) /\ CartCovered(r, cartRequest[r])

(* Keys are unique.                                                        *)
CartKeysFine ==
    /\ \A o \in CartOwners : cartPk[o] <= cartLastPk
    /\ \A o, p \in CartOwners : o # p /\ cartPk[o] = cartPk[p] => cartPk[o] = 0

CartIInv == CartTypeOK /\ CartKeysFine /\ \A r \in CartRequests : CartGood(r)

(* What a step of r, or of the shelf (0), may do to what others rely on.   *)
CartUnread(r, o, v) ==
    \A q \in CartRequests \ {r} :
        ~(cartRequest[q].phase \in CartMerging /\ cartRequest[q].browser = o
            /\ cartRequest[q].rows[v] > 0)
CartItemsMove(r) ==
    \A o \in CartOwners, v \in CartVariants :
         \/ cartItem'[o][v] = cartItem[o][v]
         \/ /\ variantLock[v] = r \/ cartItem'[o][v] = 0
            /\ CartUnread(r, o, v)
CartFrame(r) ==
    /\ \A q \in CartRequests \ {r} : cartRequest'[q] = cartRequest[q]
    /\ \A o \in CartOwners :
         cartLock'[o] = cartLock[o] \/ (cartLock[o] \in {0, r} /\ cartLock'[o] \in {0, r})
    /\ \A v \in CartVariants :
         \/ variantLock'[v] = variantLock[v]
         \/ variantLock[v] \in {0, r} /\ variantLock'[v] \in {0, r}
    /\ \A v \in CartVariants : cartAvailable'[v] = cartAvailable[v] \/ variantLock[v] = 0
    /\ cartLastPk' \in Nat /\ cartLastPk <= cartLastPk'
    /\ \A o \in CartOwners :
         \/ cartPk'[o] = cartPk[o]
         \/ cartPk[o] = 0 /\ cartPk'[o] = cartLastPk + 1
         \/ o \in CartBrowsers /\ cartLock[o] = r /\ cartPk'[o] = 0
    /\ CartItemsMove(r)

LEMMA CartNumbers ==
    /\ 0 \notin CartRequests /\ CartUsers \cap CartBrowsers = {}
    /\ CartUsers \subseteq CartOwners /\ CartBrowsers \subseteq CartOwners
    /\ "none" \notin CartOwners /\ CartRequests \subseteq Nat
    /\ CartNoRows \in [CartVariants -> Nat]
  BY CartAssumption DEF CartAssumption, CartOwners, CartNoRows

(* What a request relies on, no step of another takes away.                *)
LEMMA CartOthersKeep ==
    ASSUME CartIInv, NEW r \in CartRequests \cup {0}, CartFrame(r),
           NEW q \in CartRequests \ {r}
    PROVE  CartGood(q)'
  <1> PICK req : req = cartRequest[q]
    OBVIOUS
  <1>0. /\ req \in CartReq /\ cartRequest'[q] = req /\ q # 0 /\ q # r
        /\ cartPk \in [CartOwners -> Nat] /\ cartLastPk \in Nat
        /\ CartShape(req) /\ CartKeyed(req) /\ CartHolds(q, req) /\ CartCovered(q, req)
    BY CartNumbers DEF CartIInv, CartTypeOK, CartGood, CartFrame
  <1>1. CartKeyed(req)'
    <2>1. cartLastPk' \in Nat /\ cartLastPk <= cartLastPk' /\ req.pk \in Nat /\ req.fromPk \in Nat
      BY <1>0 DEF CartFrame, CartReq
    <2>2. \A o \in CartUsers : cartPk[o] # 0 => cartPk'[o] = cartPk[o]
      BY CartNumbers DEF CartFrame
    <2>3. ASSUME req.phase \notin CartIdlePhases \cup {"resolve"}
          PROVE  /\ req.pk # 0 /\ req.pk <= cartLastPk'
                 /\ req.owner \in CartUsers => cartPk'[req.owner] = req.pk
      BY <1>0, <2>1, <2>2, <2>3 DEF CartKeyed, CartFrame
    <2>4. QED
      BY <1>0, <2>1, <2>3 DEF CartKeyed, CartFrame
  <1>2. CartHolds(q, req)'
    <2>0. \A o \in CartOwners : (cartLock'[o] = q) <=> (cartLock[o] = q)
      BY <1>0 DEF CartFrame
    <2>1. \A o \in CartOwners : cartLock[o] = q =>
            req.phase \in {"lock_carts"} \cup CartMerging /\ o \in {req.owner, req.browser}
            /\ cartPk[o] = CartPkOf(req, o) /\ cartPk[o] # 0
      BY <1>0 DEF CartHolds, CartKeyed, CartPkOf, CartMerging, CartIdlePhases
    <2>2. \A o \in CartOwners : cartLock[o] = q => cartPk'[o] = cartPk[o]
      BY <1>0, <2>1 DEF CartFrame
    <2>3. CASE req.phase = "lock_carts"
      <3>1. req.owner \in CartOwners /\ req.browser \in CartOwners
        BY <1>0, <2>3, CartNumbers DEF CartShape, CartItemPhases, CartIdlePhases
      <3>2. \A p \in {req.owner, req.browser} :
              CartPkOf(req, p) # 0 /\ CartPkOf(req, p) <= cartLastPk /\ CartPkOf(req, p) \in Nat
        BY <1>0, <2>3 DEF CartKeyed, CartPkOf, CartReq, CartIdlePhases
      <3>3. \A p \in {req.owner, req.browser} :
              cartPk'[p] = CartPkOf(req, p) => cartPk[p] = CartPkOf(req, p)
        BY <1>0, <3>1, <3>2 DEF CartFrame
      <3>4. \A o, p \in {req.owner, req.browser} :
              cartLock'[o] = q /\ cartLock'[p] # q /\ cartPk'[p] = CartPkOf(req, p)
                => cartPk'[o] <= cartPk'[p]
        BY <1>0, <2>0, <2>2, <2>3, <3>1, <3>3 DEF CartHolds
      <3>5. QED
        BY <2>0, <2>1, <2>2, <2>3, <3>4 DEF CartHolds, CartMerging, CartPkOf
    <2>4. CASE req.phase # "lock_carts"
      <3>1. req.phase \in CartMerging => req.owner \in CartOwners /\ req.browser \in CartOwners
        BY <1>0, CartNumbers DEF CartShape, CartItemPhases, CartIdlePhases, CartMerging
      <3>2. QED
        BY <1>0, <2>0, <2>1, <2>2, <2>4, <3>1 DEF CartHolds, CartPkOf
    <2>5. QED
      BY <2>3, <2>4
  <1>3. CartCovered(q, req)'
    <2>0. \A v \in CartVariants : (variantLock'[v] = q) <=> (variantLock[v] = q)
      BY <1>0 DEF CartFrame
    <2>1. \A v \in CartVariants : variantLock[v] = q =>
            /\ cartAvailable'[v] = cartAvailable[v]
            /\ \A o \in CartOwners : cartItem'[o][v] \in {0, cartItem[o][v]}
      BY <1>0 DEF CartFrame, CartItemsMove
    <2>2. req.phase \in {"item", "save"} => req.variant \in CartVariants /\ req.owner \in CartOwners
      BY <1>0, CartNumbers DEF CartShape, CartMergePhases, CartIdlePhases
    <2>3. req.phase \in CartMerging => req.browser \in CartOwners
      BY <1>0, CartNumbers DEF CartShape, CartItemPhases, CartIdlePhases, CartMerging
    <2>4. ASSUME req.phase \in CartMerging, NEW v \in CartVariants, req.rows[v] > 0
          PROVE  /\ cartItem'[req.browser][v] = req.rows[v]
                 /\ req.phase = "merge" => variantLock'[v] = q
      <3>1. /\ cartItem[req.browser][v] = req.rows[v]
            /\ req.phase = "merge" => variantLock[v] = q
        BY <1>0, <2>4 DEF CartCovered
      <3>2. ~CartUnread(r, req.browser, v)
        BY <1>0, <2>4 DEF CartUnread
      <3>3. cartItem'[req.browser][v] = cartItem[req.browser][v]
        BY <2>3, <2>4, <3>2 DEF CartFrame, CartItemsMove
      <3>4. QED
        BY <2>0, <3>1, <3>3
    <2>5. \A v \in CartVariants : variantLock'[v] = q =>
             \/ req.phase \in {"item", "save"} /\ req.variant = v
             \/ req.phase \in CartMerging /\ req.rows[v] > 0
      BY <1>0, <2>0 DEF CartCovered
    <2>6. req.phase \in {"item", "save"} =>
            /\ variantLock'[req.variant] = q
            /\ req.available = cartAvailable'[req.variant] /\ req.quantity <= req.available
      BY <1>0, <2>0, <2>1, <2>2 DEF CartCovered
    <2>7. req.phase = "save" => /\ req.seen + req.quantity <= req.available
                                /\ cartItem'[req.owner][req.variant] \in {0, req.seen}
      BY <1>0, <2>1, <2>2 DEF CartCovered
    <2>8. QED
      BY <2>0, <2>4, <2>5, <2>6, <2>7 DEF CartCovered
  <1>4. QED
    BY <1>0, <1>1, <1>2, <1>3 DEF CartGood

LEMMA CartStepOf ==
    ASSUME CartIInv, NEW r \in CartRequests, CartFrame(r), CartTypeOK', CartKeysFine', CartGood(r)'
    PROVE  CartIInv'
  <1>1. ASSUME NEW q \in CartRequests  PROVE CartGood(q)'
    BY CartOthersKeep
  <1>2. QED
    BY <1>1 DEF CartIInv

CartLoginOK == cartLogin \in [CartBrowsers -> CartUsers \cup {"guest", "switching", "lost"}]

(* A step that moves its request on and changes nothing the others see.    *)
LEMMA CartMoves ==
    ASSUME CartIInv, NEW r \in CartRequests, NEW rec \in CartReq,
           cartRequest' = [cartRequest EXCEPT ![r] = rec], CartLoginOK',
           UNCHANGED <<cartPk, cartLastPk, cartItem, cartAvailable, cartOnSale, cartLock,
                       variantLock>>,
           CartShape(rec), CartKeyed(rec), CartHolds(r, rec), CartCovered(r, rec)
    PROVE  CartIInv'
  <1>1. CartTypeOK /\ CartKeysFine /\ cartRequest'[r] = rec
    BY DEF CartIInv, CartTypeOK
  <1>2. CartTypeOK' /\ CartKeysFine'
    BY <1>1 DEF CartTypeOK, CartKeysFine, CartLoginOK
  <1>3. CartFrame(r)
    BY <1>1 DEF CartTypeOK, CartFrame, CartItemsMove
  <1>4. CartKeyed(rec)' /\ CartHolds(r, rec)' /\ CartCovered(r, rec)'
    BY DEF CartKeyed, CartHolds, CartCovered
  <1>5. CartGood(r)'
    BY <1>1, <1>4 DEF CartGood
  <1>6. QED
    BY <1>2, <1>3, <1>5, CartStepOf

(* A request that has ended, and holds no more.                            *)
LEMMA CartEndedFine ==
    ASSUME NEW phase \in {"done", "failed"}, NEW rec, rec = [CartNew EXCEPT !.phase = phase]
    PROVE  /\ rec \in CartReq /\ CartShape(rec) /\ CartKeyed(rec)
           /\ rec.phase = phase /\ rec.browser = "none"
  <1>1. CartNew \in CartReq
    BY DEF CartNew, CartReq, CartPhases, CartNoRows
  <1>2. rec \in CartReq
    BY <1>1 DEF CartReq, CartPhases
  <1>3. /\ rec.phase = phase /\ rec.browser = "none" /\ rec.kind = "none" /\ rec.rows = CartNoRows
    BY DEF CartNew
  <1>4. CartShape(rec) /\ CartKeyed(rec)
    BY <1>3 DEF CartShape, CartKeyed, CartIdlePhases, CartMerging
  <1>5. QED
    BY <1>2, <1>3, <1>4

(* The end of a transaction, with what it has written.                     *)
LEMMA CartFinishKeeps ==
    ASSUME CartIInv, NEW r \in CartRequests, NEW phase \in {"done", "failed"}, CartFinish(r, phase),
           cartItem' \in [CartOwners -> [CartVariants -> Nat]], CartItemsMove(r), CartLoginOK',
           \/ UNCHANGED cartPk
           \/ \E b \in CartBrowsers : cartLock[b] = r /\ cartPk' = [cartPk EXCEPT ![b] = 0],
           UNCHANGED <<cartLastPk, cartAvailable, cartOnSale>>
    PROVE  CartIInv'
  <1> PICK rec : rec = [CartNew EXCEPT !.phase = phase]
    OBVIOUS
  <1>0. CartTypeOK /\ CartKeysFine /\ r # 0
    BY CartNumbers DEF CartIInv
  <1>1. /\ rec \in CartReq /\ CartShape(rec) /\ CartKeyed(rec)' /\ rec.phase = phase
    BY CartEndedFine DEF CartKeyed, CartIdlePhases, CartMerging
  <1>2. /\ cartRequest' = [cartRequest EXCEPT ![r] = rec]
        /\ cartLock' = [o \in CartOwners |-> IF cartLock[o] = r THEN 0 ELSE cartLock[o]]
        /\ variantLock' = [v \in CartVariants |-> IF variantLock[v] = r THEN 0 ELSE variantLock[v]]
    BY DEF CartFinish, CartAnswer, CartSet
  <1>3. CartTypeOK'
    <2>1. cartPk' \in [CartOwners -> Nat]
      BY <1>0, CartNumbers DEF CartTypeOK
    <2>2. cartRequest' \in [CartRequests -> CartReq] /\ cartLock' \in [CartOwners -> CartRequests \cup {0}]
          /\ variantLock' \in [CartVariants -> CartRequests \cup {0}]
      BY <1>0, <1>1, <1>2 DEF CartTypeOK
    <2>3. QED
      BY <1>0, <2>1, <2>2 DEF CartTypeOK, CartLoginOK
  <1>4. CartKeysFine'
    <2>1. \A o \in CartOwners : cartPk'[o] \in {cartPk[o], 0} /\ cartPk[o] \in Nat
      BY <1>0, CartNumbers DEF CartTypeOK
    <2>2. cartLastPk' = cartLastPk /\ cartLastPk \in Nat
      BY <1>0 DEF CartTypeOK
    <2>3. QED
      BY <1>0, <2>1, <2>2 DEF CartKeysFine
  <1>5. CartFrame(r)
    <2>1. \A o \in CartOwners : \/ cartPk'[o] = cartPk[o]
                                \/ o \in CartBrowsers /\ cartLock[o] = r /\ cartPk'[o] = 0
      BY <1>0, CartNumbers DEF CartTypeOK
    <2>2. QED
      BY <1>0, <1>2, <2>1 DEF CartFrame, CartTypeOK
  <1>6. CartGood(r)'
    <2>1. cartRequest'[r] = rec
      BY <1>0, <1>2 DEF CartTypeOK
    <2>2. CartHolds(r, rec)' /\ CartCovered(r, rec)'
      BY <1>0, <1>1, <1>2 DEF CartHolds, CartCovered, CartMerging
    <2>3. QED
      BY <1>1, <2>1, <2>2 DEF CartGood
  <1>7. QED
    BY <1>3, <1>4, <1>5, <1>6, CartStepOf

(* A request that ends before it holds anything.                           *)
LEMMA CartAnswerKeeps ==
    ASSUME CartIInv, NEW r \in CartRequests, NEW phase \in {"done", "failed"}, CartAnswer(r, phase),
           cartRequest[r].phase \notin {"lock_carts", "item", "save"} \cup CartMerging, CartLoginOK',
           UNCHANGED <<cartPk, cartLastPk, cartItem, cartAvailable, cartOnSale, cartLock,
                       variantLock>>
    PROVE  CartIInv'
  <1> PICK rec : rec = [CartNew EXCEPT !.phase = phase]
    OBVIOUS
  <1>1. rec \in CartReq /\ CartShape(rec) /\ CartKeyed(rec) /\ rec.phase = phase
    BY CartEndedFine
  <1>2. cartRequest' = [cartRequest EXCEPT ![r] = rec]
    BY DEF CartAnswer, CartSet
  <1>3. CartHolds(r, rec) /\ CartCovered(r, rec)
    BY <1>1 DEF CartIInv, CartGood, CartHolds, CartCovered, CartMerging
  <1>4. QED
    BY <1>1, <1>2, <1>3, CartMoves

(* What is written into a request is of its kind.                          *)
CartPosted(req, phase, kind, v, quantity, owner) ==
    [req EXCEPT !.phase = phase, !.kind = kind, !.variant = v, !.quantity = quantity,
                !.owner = owner]
LEMMA CartReqPosted ==
    ASSUME NEW req \in CartReq, NEW phase \in CartPhases, NEW kind \in CartKinds,
           NEW v \in CartVariants, NEW quantity \in 0..999, NEW owner \in CartOwners
    PROVE  CartPosted(req, phase, kind, v, quantity, owner) \in CartReq
  BY Zenon DEF CartReq, CartPosted

LEMMA CartReqKeyed ==
    ASSUME NEW req \in CartReq, NEW phase \in CartPhases, NEW pk \in Nat
    PROVE  [req EXCEPT !.phase = phase, !.pk = pk] \in CartReq
  BY Zenon DEF CartReq

(* Requests arrive and find their carts.                                   *)
LEMMA CartPostKeeps ==
    ASSUME CartIInv, NEW r \in CartRequests, NEW b \in CartBrowsers, NEW v \in CartVariants,
           NEW kind \in {"add", "update", "remove"}, NEW q \in 0..999, CartPost(r, b, kind, v, q)
    PROVE  CartIInv'
  <1>a. PICK owner : owner = IF cartLogin[b] = "guest" THEN b ELSE cartLogin[b]
    OBVIOUS
  <1>b. PICK quantity : quantity = IF kind = "remove" THEN 0 ELSE q
    OBVIOUS
  <1> DEFINE rec == CartPosted(CartNew, "resolve", kind, v, quantity, owner)
  <1>0. CartTypeOK /\ CartGood(r)
    BY DEF CartIInv
  <1>1. owner \in CartOwners /\ quantity \in 0..999
    BY <1>a, <1>b, CartNumbers DEF CartPost
  <1>2. CartNew \in CartReq
    BY DEF CartNew, CartReq, CartPhases, CartNoRows
  <1>3. rec \in CartReq
    <2>1. "resolve" \in CartPhases /\ kind \in CartKinds
      BY DEF CartPhases, CartKinds
    <2>2. QED
      BY <1>1, <1>2, <2>1, CartReqPosted
  <1>4. /\ rec.phase = "resolve" /\ rec.kind = kind /\ rec.variant = v /\ rec.owner = owner
        /\ rec.browser = "none" /\ rec.rows = CartNoRows
    BY DEF CartNew, CartPosted
  <1>5. cartRequest' = [cartRequest EXCEPT ![r] = rec] /\ cartRequest[r].phase = "new"
    BY <1>a, <1>b DEF CartPost, CartSet, CartArrives, CartAt, CartPosted
  <1>6. UNCHANGED <<cartPk, cartLastPk, cartItem, cartAvailable, cartOnSale, cartLock, variantLock,
                    cartLogin>>
    BY DEF CartPost, cartRows, cartShelf, cartLocks
  <1> HIDE DEF rec
  <1>7. CartShape(rec) /\ CartKeyed(rec)
    BY <1>1, <1>4 DEF CartShape, CartKeyed, CartIdlePhases, CartItemPhases, CartMerging
  <1>8. CartHolds(r, rec) /\ CartCovered(r, rec)
    BY <1>0, <1>4, <1>5 DEF CartGood, CartHolds, CartCovered, CartMerging
  <1>9. CartLoginOK'
    BY <1>0, <1>6 DEF CartTypeOK, CartLoginOK
  <1>10. QED
    BY <1>3, <1>5, <1>6, <1>7, <1>8, <1>9, CartMoves

LEMMA CartLogInKeeps ==
    ASSUME CartIInv, NEW r \in CartRequests, NEW b \in CartBrowsers, NEW u \in CartUsers,
           NEW kind \in {"login", "auto_login"}, CartLogIn(r, b, u, kind)
    PROVE  CartIInv'
  <1> DEFINE rec == [CartNew EXCEPT !.phase = "resolve", !.kind = kind, !.owner = u, !.browser = b]
  <1>0. CartTypeOK /\ CartGood(r)
    BY DEF CartIInv
  <1>1. CartNew \in CartReq
    BY DEF CartNew, CartReq, CartPhases, CartNoRows
  <1>2. rec \in CartReq
    BY <1>1, CartNumbers DEF CartReq, CartPhases, CartKinds
  <1>3. /\ rec.phase = "resolve" /\ rec.kind = kind /\ rec.owner = u /\ rec.browser = b
        /\ rec.rows = CartNoRows
    BY DEF CartNew
  <1>4. cartRequest' = [cartRequest EXCEPT ![r] = rec] /\ cartRequest[r].phase = "new"
    BY DEF CartLogIn, CartSet, CartArrives, CartAt
  <1>5. /\ UNCHANGED <<cartPk, cartLastPk, cartItem, cartAvailable, cartOnSale, cartLock, variantLock>>
        /\ cartLogin' = [cartLogin EXCEPT ![b] = "switching"]
    BY DEF CartLogIn, cartRows, cartShelf, cartLocks
  <1> HIDE DEF rec
  <1>6. CartShape(rec) /\ CartKeyed(rec)
    BY <1>3 DEF CartShape, CartKeyed, CartIdlePhases, CartMergePhases, CartMerging
  <1>7. CartHolds(r, rec) /\ CartCovered(r, rec)
    BY <1>0, <1>3, <1>4 DEF CartGood, CartHolds, CartCovered, CartMerging
  <1>8. CartLoginOK'
    BY <1>0, <1>5 DEF CartTypeOK, CartLoginOK
  <1>9. QED
    BY <1>2, <1>4, <1>5, <1>6, <1>7, <1>8, CartMoves

LEMMA CartResolveKeeps ==
    ASSUME CartIInv, NEW r \in CartRequests, CartResolve(r)
    PROVE  CartIInv'
  <1> PICK req : req = cartRequest[r]
    OBVIOUS
  <1> PICK o : o = req.owner
    OBVIOUS
  <1> PICK next : next = CASE req.kind \in {"add", "update"} -> "lock_variant"
                           [] req.kind = "remove" -> "remove" [] OTHER -> "find"
    OBVIOUS
  <1> PICK pk : pk = cartPk'[o]
    OBVIOUS
  <1> DEFINE rec == [req EXCEPT !.phase = next, !.pk = pk]
  <1>0. /\ CartTypeOK /\ CartKeysFine /\ CartShape(req) /\ CartHolds(r, req) /\ CartCovered(r, req)
        /\ req \in CartReq /\ req.phase = "resolve" /\ r # 0
    BY CartNumbers DEF CartIInv, CartTypeOK, CartGood, CartResolve, CartAt
  <1>1. o \in CartOwners
    BY <1>0, CartNumbers DEF CartShape, CartIdlePhases
  <1>2. /\ cartRequest' = [cartRequest EXCEPT ![r] = rec]
        /\ UNCHANGED <<cartItem, cartAvailable, cartOnSale, cartLock, variantLock, cartLogin>>
        /\ IF cartPk[o] = 0
           THEN cartPk' = [cartPk EXCEPT ![o] = cartLastPk + 1] /\ cartLastPk' = cartLastPk + 1
           ELSE UNCHANGED <<cartPk, cartLastPk>>
    BY DEF CartResolve, CartSet, cartShelf, cartLocks
  <1>3. /\ cartPk' \in [CartOwners -> Nat] /\ cartLastPk' \in Nat /\ cartLastPk <= cartLastPk'
        /\ pk \in Nat \ {0} /\ pk <= cartLastPk'
        /\ \A p \in CartOwners \ {o} : cartPk'[p] = cartPk[p]
        /\ pk = cartPk[o] \/ (cartPk[o] = 0 /\ pk = cartLastPk + 1)
    BY <1>0, <1>1, <1>2 DEF CartTypeOK, CartKeysFine
  <1>4. next \in {"lock_variant", "remove", "find"}
    OBVIOUS
  <1>5. /\ rec \in CartReq /\ rec.phase = next /\ rec.pk = pk /\ rec.owner = o
        /\ rec.kind = req.kind /\ rec.browser = req.browser /\ rec.variant = req.variant
        /\ rec.rows = req.rows
    <2>1. next \in CartPhases /\ pk \in Nat
      BY <1>3, <1>4 DEF CartPhases
    <2>2. rec \in CartReq
      BY <1>0, <2>1, CartReqKeyed
    <2>3. /\ rec.phase = next /\ rec.pk = pk /\ rec.owner = req.owner
          /\ rec.kind = req.kind /\ rec.browser = req.browser /\ rec.variant = req.variant
          /\ rec.rows = req.rows
      BY <1>0 DEF CartReq
    <2>4. QED
      BY <2>2, <2>3
  <1> HIDE DEF rec
  <1>6. CartTypeOK'
    BY <1>0, <1>2, <1>3, <1>5 DEF CartTypeOK
  <1>7. CartKeysFine'
    <2>1. \A p \in CartOwners : cartPk[p] <= cartLastPk /\ cartPk[p] \in Nat /\ cartLastPk \in Nat
      BY <1>0 DEF CartKeysFine, CartTypeOK
    <2>2. \A p \in CartOwners : cartPk'[p] <= cartLastPk'
      BY <1>3, <2>1
    <2>3. ASSUME NEW p \in CartOwners \ {o}, pk = cartPk[p]  PROVE FALSE
      BY <1>0, <1>1, <1>3, <2>1, <2>3 DEF CartKeysFine
    <2>4. QED
      BY <1>0, <1>3, <2>2, <2>3 DEF CartKeysFine
  <1>8. CartFrame(r)
    BY <1>0, <1>2, <1>3 DEF CartFrame, CartItemsMove, CartTypeOK
  <1>9. CartShape(rec)
    BY <1>0, <1>4, <1>5 DEF CartShape, CartIdlePhases, CartItemPhases, CartMergePhases, CartMerging
  <1>10. CartKeyed(rec)'
    BY <1>3, <1>4, <1>5 DEF CartKeyed, CartMerging
  <1>11. CartHolds(r, rec)' /\ CartCovered(r, rec)'
    <2>1. \A p \in CartOwners : cartLock[p] # r
      BY <1>0 DEF CartHolds, CartMerging
    <2>2. \A v \in CartVariants : variantLock[v] # r
      BY <1>0 DEF CartCovered, CartMerging
    <2>3. QED
      BY <1>2, <1>4, <1>5, <2>1, <2>2 DEF CartHolds, CartCovered, CartMerging
  <1>12. CartGood(r)'
    <2>1. cartRequest'[r] = rec
      BY <1>0, <1>2 DEF CartTypeOK
    <2>2. QED
      BY <1>9, <1>10, <1>11, <2>1 DEF CartGood
  <1>13. QED
    BY <1>6, <1>7, <1>8, <1>12, CartStepOf

LEMMA CartActs ==
    ASSUME CartIInv, NEW r \in CartRequests
    PROVE  /\ cartRequest[r] \in CartReq /\ r # 0
           /\ CartShape(cartRequest[r]) /\ CartKeyed(cartRequest[r])
           /\ CartHolds(r, cartRequest[r]) /\ CartCovered(r, cartRequest[r])
           /\ cartItem \in [CartOwners -> [CartVariants -> Nat]]
           /\ cartAvailable \in [CartVariants -> Nat] /\ CartLoginOK
           /\ cartRequest \in [CartRequests -> CartReq]
  BY CartNumbers DEF CartIInv, CartGood, CartTypeOK, CartLoginOK

(* The variant is locked and looked at.                                    *)
LEMMA CartLockVariantKeeps ==
    ASSUME CartIInv, NEW r \in CartRequests, CartLockVariant(r)
    PROVE  CartIInv'
  <1>a. PICK req : req = cartRequest[r]
    OBVIOUS
  <1>b. PICK v : v = req.variant
    OBVIOUS
  <1>c. PICK available : available = cartAvailable[v]
    OBVIOUS
  <1>0. /\ req \in CartReq /\ CartShape(req) /\ CartKeyed(req) /\ CartHolds(r, req)
        /\ CartCovered(r, req) /\ r # 0 /\ req.phase = "lock_variant"
    BY <1>a, CartActs DEF CartLockVariant, CartAt
  <1>1. /\ v \in CartVariants /\ req.owner \in CartOwners /\ req.browser = "none"
        /\ req.kind \in {"add", "update"} /\ req.rows = CartNoRows
    BY <1>0, <1>b DEF CartShape, CartIdlePhases, CartMergePhases, CartMerging
  <1>2. available \in Nat
    BY <1>1, <1>c, CartActs
  <1>3. UNCHANGED <<cartPk, cartLastPk, cartItem, cartAvailable, cartOnSale, cartLogin, cartLock>>
    BY DEF CartLockVariant, cartRows, cartShelf
  <1>4. CASE CartAnswer(r, "failed") /\ UNCHANGED variantLock
    <2>1. CartLoginOK'
      BY <1>3, CartActs DEF CartLoginOK
    <2>2. cartRequest[r].phase \notin {"lock_carts", "item", "save"} \cup CartMerging
      BY <1>a, <1>0 DEF CartMerging
    <2>3. QED
      BY <1>3, <1>4, <2>1, <2>2, CartAnswerKeeps
  <1>5. CASE /\ req.quantity <= available /\ variantLock[v] = 0
             /\ CartSet(r, [req EXCEPT !.phase = "item", !.available = available])
             /\ variantLock' = [variantLock EXCEPT ![v] = r]
    <2> DEFINE rec == [req EXCEPT !.phase = "item", !.available = available]
    <2>1. rec \in CartReq
      <3>1. "item" \in CartPhases
        BY DEF CartPhases
      <3>2. QED
        BY <1>0, <1>2, <3>1, Zenon DEF CartReq
    <2>2. /\ rec.phase = "item" /\ rec.available = available /\ rec.owner = req.owner
          /\ rec.kind = req.kind /\ rec.browser = req.browser /\ rec.variant = v
          /\ rec.rows = req.rows /\ rec.quantity = req.quantity /\ rec.pk = req.pk
      BY <1>0, <1>b DEF CartReq
    <2>3. cartRequest' = [cartRequest EXCEPT ![r] = rec] /\ variantLock' = [variantLock EXCEPT ![v] = r]
      BY <1>5 DEF CartSet
    <2> HIDE DEF rec
    <2>4. CartTypeOK' /\ CartKeysFine'
      BY <1>1, <1>3, <2>1, <2>3 DEF CartIInv, CartTypeOK, CartKeysFine
    <2>5. CartFrame(r)
      BY <1>1, <1>3, <1>5, <2>3 DEF CartIInv, CartTypeOK, CartFrame, CartItemsMove
    <2>6. CartShape(rec)
      BY <1>1, <2>2 DEF CartShape, CartIdlePhases, CartItemPhases, CartMerging
    <2>7. CartKeyed(rec)'
      BY <1>0, <1>3, <2>2 DEF CartKeyed, CartIdlePhases, CartMerging
    <2>8. CartHolds(r, rec)'
      BY <1>0, <1>3, <2>2 DEF CartHolds, CartMerging
    <2>9. CartCovered(r, rec)'
      <3>1. \A w \in CartVariants : (variantLock'[w] = r) <=> (w = v)
        BY <1>0, <1>1, <2>3 DEF CartCovered, CartMerging, CartIInv, CartTypeOK
      <3>2. cartAvailable' = cartAvailable
        BY <1>3
      <3>3. QED
        BY <1>c, <1>1, <1>5, <2>2, <3>1, <3>2 DEF CartCovered, CartMerging
    <2>10. CartGood(r)'
      <3>1. cartRequest'[r] = rec
        BY <2>3 DEF CartIInv, CartTypeOK
      <3>2. QED
        BY <2>6, <2>7, <2>8, <2>9, <3>1 DEF CartGood
    <2>11. QED
      BY <2>4, <2>5, <2>10, CartStepOf
  <1>6. QED
    BY <1>4, <1>5, <1>a, <1>b, <1>c DEF CartLockVariant

(* The item is looked at, and written.                                     *)
LEMMA CartWriter ==
    ASSUME CartIInv, NEW r \in CartRequests, cartRequest[r].phase \in {"item", "save"}
    PROVE  /\ cartRequest[r].browser = "none" /\ cartRequest[r].owner \in CartOwners
           /\ cartRequest[r].variant \in CartVariants
           /\ variantLock[cartRequest[r].variant] = r
           /\ cartRequest[r].rows = CartNoRows
           /\ cartItem[cartRequest[r].owner][cartRequest[r].variant] \in Nat
           /\ cartRequest[r].quantity \in Nat /\ cartRequest[r].seen \in Nat
  <1>1. /\ cartRequest[r].browser = "none" /\ cartRequest[r].owner \in CartOwners
        /\ cartRequest[r].variant \in CartVariants /\ cartRequest[r].rows = CartNoRows
    BY CartActs DEF CartShape, CartIdlePhases, CartMergePhases, CartMerging
  <1>2. variantLock[cartRequest[r].variant] = r
    BY CartActs DEF CartCovered
  <1>3. cartRequest[r].quantity \in Nat /\ cartRequest[r].seen \in Nat
    <2>a. PICK req : req = cartRequest[r]
      OBVIOUS
    <2>1. req \in CartReq
      BY <2>a, CartActs
    <2>2. req.seen \in Nat
      BY <2>1 DEF CartReq
    <2>3. req.quantity \in 0..999
      BY <2>1 DEF CartReq
    <2>4. req.quantity \in Nat
      BY <2>3
    <2>5. QED
      BY <2>a, <2>2, <2>4
  <1>4. QED
    BY <1>1, <1>2, <1>3, CartActs

LEMMA CartPutMoves ==
    ASSUME CartIInv, NEW r \in CartRequests, cartRequest[r].phase \in {"item", "save"},
           NEW n \in Nat, CartPut(r, n),
           CartUnread(r, cartRequest[r].owner, cartRequest[r].variant)
    PROVE  cartItem' \in [CartOwners -> [CartVariants -> Nat]] /\ CartItemsMove(r)
  <1>a. PICK o, v : o = cartRequest[r].owner /\ v = cartRequest[r].variant
    OBVIOUS
  <1>1. o \in CartOwners /\ v \in CartVariants /\ variantLock[v] = r
    BY <1>a, CartWriter
  <1>2. cartItem' = [cartItem EXCEPT ![o][v] = n] /\ cartItem \in [CartOwners -> [CartVariants -> Nat]]
    BY <1>a, CartActs DEF CartPut
  <1>3. \A p \in CartOwners, w \in CartVariants :
          cartItem'[p][w] = cartItem[p][w] \/ (p = o /\ w = v)
    BY <1>1, <1>2
  <1>4. CartUnread(r, o, v)
    BY <1>a
  <1>5. QED
    BY <1>1, <1>2, <1>3, <1>4 DEF CartItemsMove

(* A merge that has locked the item of o has found it there, and an UPDATE *)
(* waits for it.                                                           *)
LEMMA CartPutFree ==
    ASSUME CartIInv, NEW r \in CartRequests, cartItem' # cartItem,
           CartInsertItem(r) \/ CartUpdateItem(r) \/ CartSaveItem(r)
    PROVE  CartUnread(r, cartRequest[r].owner, cartRequest[r].variant)
  <1>a. PICK o, v : o = cartRequest[r].owner /\ v = cartRequest[r].variant
    OBVIOUS
  <1>1. o \in CartOwners /\ v \in CartVariants /\ cartItem[o][v] \in Nat
    BY <1>a, CartWriter DEF CartInsertItem, CartUpdateItem, CartSaveItem, CartAt
  <1>2. CartRowLives(r)
    BY DEF CartInsertItem, CartUpdateItem, CartSaveItem
  <1>3. cartItem[o][v] = 0 \/ ~CartItemLocked(o, v)
    BY <1>a, <1>1, <1>2 DEF CartInsertItem, CartUpdateItem, CartSaveItem
  <1>4. ASSUME NEW q \in CartRequests, cartRequest[q].phase \in CartMerging,
               cartRequest[q].browser = o, cartRequest[q].rows[v] > 0
        PROVE  FALSE
    <2>1. cartItem[o][v] = cartRequest[q].rows[v]
      BY <1>1, <1>4, CartActs DEF CartCovered
    <2>2. CartItemLocked(o, v)
      BY <1>4 DEF CartItemLocked, CartItemHeldBy, CartMerging
    <2>3. QED
      BY <1>3, <1>4, <2>1, <2>2
  <1>5. QED
    BY <1>a, <1>4 DEF CartUnread

LEMMA CartNothingWritten ==
    ASSUME CartIInv, UNCHANGED cartItem, NEW r \in CartRequests
    PROVE  cartItem' \in [CartOwners -> [CartVariants -> Nat]] /\ CartItemsMove(r)
  BY CartActs DEF CartItemsMove

LEMMA CartFindItemKeeps ==
    ASSUME CartIInv, NEW r \in CartRequests, CartFindItem(r)
    PROVE  CartIInv'
  <1>a. PICK req : req = cartRequest[r]
    OBVIOUS
  <1>b. PICK q : q = cartItem[req.owner][req.variant]
    OBVIOUS
  <1>0. /\ req \in CartReq /\ CartShape(req) /\ CartKeyed(req) /\ CartHolds(r, req)
        /\ CartCovered(r, req) /\ r # 0 /\ req.phase = "item" /\ req.kind = "add"
    BY <1>a, CartActs DEF CartFindItem, CartAt
  <1>1. /\ req.browser = "none" /\ req.owner \in CartOwners /\ req.variant \in CartVariants
        /\ req.rows = CartNoRows /\ q \in Nat
    BY <1>0, <1>a, <1>b, CartWriter
  <1>2. UNCHANGED <<cartPk, cartLastPk, cartItem, cartAvailable, cartOnSale, cartLogin>>
        /\ CartLoginOK'
    BY CartActs DEF CartFindItem, cartRows, cartShelf, CartLoginOK
  <1>3. CASE CartFinish(r, "failed")
    BY <1>2, <1>3, CartNothingWritten, CartFinishKeeps
  <1>4. CASE /\ q + req.quantity <= req.available /\ UNCHANGED <<cartLock, variantLock>>
             /\ CartSet(r, [req EXCEPT !.phase = "save", !.seen = q])
    <2> DEFINE rec == [req EXCEPT !.phase = "save", !.seen = q]
    <2>1. rec \in CartReq
      <3>1. "save" \in CartPhases
        BY DEF CartPhases
      <3>2. QED
        BY <1>0, <1>1, <3>1, Zenon DEF CartReq
    <2>2. /\ rec.phase = "save" /\ rec.available = req.available /\ rec.owner = req.owner
          /\ rec.kind = req.kind /\ rec.browser = req.browser /\ rec.variant = req.variant
          /\ rec.rows = req.rows /\ rec.quantity = req.quantity /\ rec.pk = req.pk
          /\ rec.seen = q
      BY <1>0 DEF CartReq
    <2>3. cartRequest' = [cartRequest EXCEPT ![r] = rec]
      BY <1>4 DEF CartSet
    <2> HIDE DEF rec
    <2>4. CartShape(rec)
      BY <1>0, <1>1, <2>2 DEF CartShape, CartIdlePhases, CartItemPhases, CartMerging
    <2>5. CartKeyed(rec)
      BY <1>0, <2>2 DEF CartKeyed, CartIdlePhases, CartMerging
    <2>6. CartHolds(r, rec)
      BY <1>0, <2>2 DEF CartHolds, CartMerging
    <2>7. CartCovered(r, rec)
      BY <1>0, <1>b, <1>4, <2>2 DEF CartCovered, CartMerging
    <2>8. QED
      BY <1>2, <1>4, <2>1, <2>3, <2>4, <2>5, <2>6, <2>7, CartMoves
  <1>5. QED
    BY <1>3, <1>4, <1>a, <1>b DEF CartFindItem, CartAllowed, cartLocks

LEMMA CartWriteKeeps ==
    ASSUME CartIInv, NEW r \in CartRequests,
           CartInsertItem(r) \/ CartUpdateItem(r) \/ CartSaveItem(r)
    PROVE  CartIInv'
  <1>1. cartRequest[r].phase \in {"item", "save"}
    BY DEF CartInsertItem, CartUpdateItem, CartSaveItem, CartAt
  <1>2. UNCHANGED <<cartPk, cartLastPk, cartAvailable, cartOnSale, cartLogin>>
    BY DEF CartInsertItem, CartUpdateItem, CartSaveItem, cartShelf
  <1>3. \E phase \in {"done", "failed"} : CartFinish(r, phase)
    BY DEF CartInsertItem, CartUpdateItem, CartSaveItem
  <1>4. UNCHANGED cartItem \/ \E n \in Nat : CartPut(r, n)
    <2>1. cartRequest[r].quantity \in Nat /\ cartRequest[r].seen \in Nat
      BY <1>1, CartWriter
    <2>2. cartRequest[r].seen + cartRequest[r].quantity \in Nat
      BY <2>1
    <2>3. QED
      BY <2>1, <2>2 DEF CartInsertItem, CartUpdateItem, CartSaveItem
  <1>5. cartItem' \in [CartOwners -> [CartVariants -> Nat]] /\ CartItemsMove(r)
    BY <1>1, <1>4, CartPutFree, CartPutMoves, CartNothingWritten
  <1>6. CartLoginOK'
    BY <1>2, CartActs DEF CartLoginOK
  <1>7. QED
    BY <1>2, <1>3, <1>5, <1>6, CartFinishKeeps

LEMMA CartRemoveItemKeeps ==
    ASSUME CartIInv, NEW r \in CartRequests, CartRemoveItem(r)
    PROVE  CartIInv'
  <1>a. PICK o, v : o = cartRequest[r].owner /\ v = cartRequest[r].variant
    OBVIOUS
  <1>0. /\ cartRequest[r].phase = "remove" /\ CartHolds(r, cartRequest[r])
        /\ CartCovered(r, cartRequest[r]) /\ CartShape(cartRequest[r])
        /\ cartLock \in [CartOwners -> CartRequests \cup {0}]
        /\ variantLock \in [CartVariants -> CartRequests \cup {0}]
    BY CartActs DEF CartRemoveItem, CartAt, CartIInv, CartTypeOK
  <1>1. o \in CartOwners /\ v \in CartVariants
    BY <1>a, <1>0 DEF CartShape, CartIdlePhases, CartMergePhases
  <1>2. /\ cartItem' = [cartItem EXCEPT ![o][v] = 0] \/ cartItem' = cartItem
        /\ CartUnread(r, o, v)
        /\ UNCHANGED <<cartPk, cartLastPk, cartAvailable, cartOnSale, cartLogin, cartLock,
                       variantLock>>
        /\ CartAnswer(r, "done")
    BY <1>a DEF CartRemoveItem, CartItemLocked, CartItemHeldBy, CartUnread, CartMerging, cartShelf,
       cartLocks
  <1>3. (\A p \in CartOwners : cartLock[p] # r) /\ (\A w \in CartVariants : variantLock[w] # r)
    BY <1>0 DEF CartHolds, CartCovered, CartMerging
  <1>4. CartFinish(r, "done")
    BY <1>0, <1>2, <1>3 DEF CartFinish
  <1>b. cartItem \in [CartOwners -> [CartVariants -> Nat]]
    BY CartActs
  <1>5. cartItem' \in [CartOwners -> [CartVariants -> Nat]] /\ CartItemsMove(r)
    <2>1. CASE cartItem' = cartItem
      BY <2>1, <1>b, CartNothingWritten
    <2>2. CASE cartItem' = [cartItem EXCEPT ![o][v] = 0]
      <3>1. cartItem' \in [CartOwners -> [CartVariants -> Nat]]
        BY <2>2, <1>b, <1>1
      <3>2. ASSUME NEW p \in CartOwners, NEW w \in CartVariants, ~(p = o /\ w = v)
            PROVE  cartItem'[p][w] = cartItem[p][w]
        BY <2>2, <3>2, <1>b, <1>1
      <3>3. cartItem'[o][v] = 0
        BY <2>2, <1>b, <1>1
      <3>4. QED
        BY <3>1, <3>2, <3>3, <1>2 DEF CartItemsMove
    <2>3. QED
      BY <1>2, <2>1, <2>2
  <1>6. CartLoginOK'
    BY <1>2, CartActs DEF CartLoginOK
  <1>7. QED
    BY <1>2, <1>4, <1>5, <1>6, CartFinishKeeps

(* The merge.                                                              *)
LEMMA CartMerger ==
    ASSUME CartIInv, NEW r \in CartRequests,
           cartRequest[r].phase \in {"find", "lock_carts"} \cup CartMerging
    PROVE  /\ cartRequest[r].browser \in CartBrowsers /\ cartRequest[r].owner \in CartUsers
           /\ cartRequest[r].browser \in CartOwners /\ cartRequest[r].owner \in CartOwners
           /\ cartRequest[r].browser # cartRequest[r].owner /\ cartRequest[r].browser # "none"
           /\ cartRequest[r].owner # "none"
           /\ cartPk[cartRequest[r].owner] = cartRequest[r].pk
  <1>1. cartRequest[r].browser \in CartBrowsers /\ cartRequest[r].owner \in CartUsers
    BY CartActs DEF CartShape, CartIdlePhases, CartItemPhases, CartMerging
  <1>2. cartPk[cartRequest[r].owner] = cartRequest[r].pk
    BY <1>1, CartActs DEF CartKeyed, CartIdlePhases, CartMerging
  <1>3. QED
    BY <1>1, <1>2, CartNumbers

LEMMA CartAnswered ==
    ASSUME CartIInv, NEW r \in CartRequests,
           cartRequest[r].phase \in {"find", "lock_carts"} \cup CartMerging,
           CartLoginAnswered(r)
    PROVE  CartLoginOK'
  <1>a. PICK b, u : b = cartRequest[r].browser /\ u = cartRequest[r].owner
    OBVIOUS
  <1>1. b \in CartBrowsers /\ u \in CartUsers /\ CartLoginOK
    BY <1>a, CartMerger, CartActs
  <1>2. cartLogin' = [cartLogin EXCEPT ![b] = u]
    BY <1>a DEF CartLoginAnswered
  <1>3. QED
    BY <1>1, <1>2 DEF CartLoginOK

LEMMA CartFindGuestCartKeeps ==
    ASSUME CartIInv, NEW r \in CartRequests, CartFindGuestCart(r)
    PROVE  CartIInv'
  <1>a. PICK req : req = cartRequest[r]
    OBVIOUS
  <1>b. PICK from : from = cartPk[req.browser]
    OBVIOUS
  <1>0. /\ req \in CartReq /\ CartShape(req) /\ CartKeyed(req) /\ CartHolds(r, req)
        /\ CartCovered(r, req) /\ req.phase = "find"
    BY <1>a, CartActs DEF CartFindGuestCart, CartAt
  <1>1. req.browser \in CartBrowsers /\ req.owner \in CartUsers /\ req.browser \in CartOwners
    BY <1>0, <1>a, CartMerger
  <1>2. UNCHANGED <<cartPk, cartLastPk, cartItem, cartAvailable, cartOnSale, cartLock, variantLock>>
    BY DEF CartFindGuestCart, cartRows, cartShelf, cartLocks
  <1>3. CASE CartAnswer(r, "done") /\ CartLoginAnswered(r)
    <2>1. cartRequest[r].phase \notin {"lock_carts", "item", "save"} \cup CartMerging
      BY <1>a, <1>0 DEF CartMerging
    <2>2. CartLoginOK'
      BY <1>a, <1>0, <1>3, CartAnswered
    <2>3. QED
      BY <1>2, <1>3, <2>1, <2>2, CartAnswerKeeps
  <1>4. CASE /\ req.kind = "login" /\ from # 0 /\ UNCHANGED cartLogin
             /\ CartSet(r, [req EXCEPT !.phase = "lock_carts", !.fromPk = from])
    <2> DEFINE rec == [req EXCEPT !.phase = "lock_carts", !.fromPk = from]
    <2>0. from \in Nat /\ from <= cartLastPk
      BY <1>b, <1>1 DEF CartIInv, CartTypeOK, CartKeysFine
    <2>1. rec \in CartReq
      <3>1. "lock_carts" \in CartPhases
        BY DEF CartPhases
      <3>2. QED
        BY <1>0, <2>0, <3>1, Zenon DEF CartReq
    <2>2. /\ rec.phase = "lock_carts" /\ rec.owner = req.owner /\ rec.kind = req.kind
          /\ rec.browser = req.browser /\ rec.rows = req.rows /\ rec.pk = req.pk
          /\ rec.fromPk = from
      BY <1>0 DEF CartReq
    <2>3. cartRequest' = [cartRequest EXCEPT ![r] = rec]
      BY <1>4 DEF CartSet
    <2> HIDE DEF rec
    <2>4. CartShape(rec)
      BY <1>0, <1>1, <1>4, <2>2 DEF CartShape, CartIdlePhases, CartMergePhases, CartMerging
    <2>5. CartKeyed(rec)
      BY <1>0, <1>4, <2>0, <2>2 DEF CartKeyed, CartIdlePhases, CartMerging
    <2>6. CartHolds(r, rec)
      <3>1. \A o \in CartOwners : cartLock[o] # r
        BY <1>0 DEF CartHolds, CartMerging
      <3>2. req.owner \in CartOwners /\ req.browser \in CartOwners
        BY <1>1, CartNumbers
      <3>3. QED
        BY <2>2, <3>1, <3>2 DEF CartHolds, CartMerging
    <2>7. CartCovered(r, rec)
      BY <1>0, <2>2 DEF CartCovered, CartMerging
    <2>8. CartLoginOK'
      BY <1>4, CartActs DEF CartLoginOK
    <2>9. QED
      BY <1>2, <2>1, <2>3, <2>4, <2>5, <2>6, <2>7, <2>8, CartMoves
  <1>5. QED
    BY <1>3, <1>4, <1>a, <1>b DEF CartFindGuestCart

(* The first of the carts a merge has not locked has the lower key.        *)
LEMMA CartLockCartKeeps ==
    ASSUME CartIInv, NEW r \in CartRequests, CartLockCart(r)
    PROVE  CartIInv'
  <1>a. PICK req : req = cartRequest[r]
    OBVIOUS
  <1>0. /\ req \in CartReq /\ CartShape(req) /\ CartKeyed(req) /\ CartHolds(r, req)
        /\ CartCovered(r, req) /\ req.phase = "lock_carts" /\ r # 0
    BY <1>a, CartActs DEF CartLockCart, CartAt
  <1>1. req.browser \in CartOwners /\ req.owner \in CartOwners
        /\ req.browser # "none" /\ req.owner # "none"
    BY <1>0, <1>a, CartMerger
  <1>2. PICK o \in CartNextToLock(r) : cartLock[o] = 0 /\ cartLock' = [cartLock EXCEPT ![o] = r]
    BY DEF CartLockCart
  <1>3. /\ o \in {req.owner, req.browser} /\ cartPk[o] = CartPkOf(req, o)
        /\ \A p \in {req.owner, req.browser} :
             cartLock[p] # r /\ cartPk[p] = CartPkOf(req, p) => cartPk[o] <= cartPk[p]
    BY <1>a, <1>1, <1>2 DEF CartNextToLock, CartsToLock, CartPkOf
  <1>4. UNCHANGED <<cartPk, cartLastPk, cartItem, cartAvailable, cartOnSale, cartLogin, cartRequest,
                    variantLock>>
    BY DEF CartLockCart, cartRows, cartShelf
  <1>5. CartTypeOK' /\ CartKeysFine'
    BY <1>1, <1>2, <1>3, <1>4 DEF CartIInv, CartTypeOK, CartKeysFine
  <1>6. \A p \in CartOwners : cartLock'[p] = IF p = o THEN r ELSE cartLock[p]
    BY <1>1, <1>2, <1>3 DEF CartIInv, CartTypeOK
  <1>7. CartFrame(r)
    BY <1>2, <1>4, <1>6 DEF CartIInv, CartTypeOK, CartFrame, CartItemsMove
  <1>8. CartHolds(r, req)'
    <2>1. \A p \in CartOwners : cartLock'[p] = r =>
            p \in {req.owner, req.browser} /\ cartPk[p] = CartPkOf(req, p)
      BY <1>0, <1>3, <1>6 DEF CartHolds
    <2>2. \A p, s \in {req.owner, req.browser} :
            cartLock'[p] = r /\ cartLock'[s] # r /\ cartPk[s] = CartPkOf(req, s)
              => cartPk[p] <= cartPk[s]
      BY <1>0, <1>1, <1>3, <1>6 DEF CartHolds
    <2>3. QED
      BY <1>0, <1>4, <2>1, <2>2 DEF CartHolds, CartMerging, CartPkOf
  <1>9. CartKeyed(req)' /\ CartCovered(r, req)'
    BY <1>0, <1>4 DEF CartKeyed, CartCovered, CartMerging, CartIdlePhases
  <1>10. CartGood(r)'
    BY <1>a, <1>0, <1>4, <1>8, <1>9 DEF CartGood
  <1>11. QED
    BY <1>5, <1>7, <1>10, CartStepOf

LEMMA CartBothLockedKeeps ==
    ASSUME CartIInv, NEW r \in CartRequests, CartBothLocked(r) \/ CartItemsLocked(r)
    PROVE  CartIInv'
  <1>a. PICK req : req = cartRequest[r]
    OBVIOUS
  <1>b. PICK phase : phase = IF req.phase = "lock_carts" THEN "lock_items" ELSE "merge"
    OBVIOUS
  <1> DEFINE rec == [req EXCEPT !.phase = phase]
  <1>0. /\ req \in CartReq /\ CartShape(req) /\ CartKeyed(req) /\ CartHolds(r, req)
        /\ CartCovered(r, req) /\ req.phase \in {"lock_carts", "lock_items"} /\ CartLoginOK
        /\ cartRequest \in [CartRequests -> CartReq]
    BY <1>a, CartActs DEF CartBothLocked, CartItemsLocked, CartAt
  <1>1. /\ req.browser \in CartBrowsers /\ req.owner \in CartUsers /\ req.browser \in CartOwners
        /\ req.owner \in CartOwners /\ req.browser # req.owner /\ req.browser # "none"
        /\ req.owner # "none" /\ cartPk[req.owner] = req.pk
    BY <1>0, <1>a, CartMerger DEF CartMerging
  <1>2. cartRequest' = [cartRequest EXCEPT ![r] = rec]
    BY <1>a, <1>b, <1>0 DEF CartBothLocked, CartItemsLocked, CartGoto, CartAt
  <1>3. UNCHANGED <<cartPk, cartLastPk, cartItem, cartAvailable, cartOnSale, cartLock, variantLock,
                    cartLogin>>
    BY DEF CartBothLocked, CartItemsLocked, cartRows, cartShelf, cartLocks
  <1>4. phase \in CartMerging /\ phase \in CartPhases
    BY <1>b, <1>0 DEF CartMerging, CartPhases
  <1>5. /\ rec \in CartReq /\ rec.phase = phase /\ rec.owner = req.owner /\ rec.kind = req.kind
        /\ rec.browser = req.browser /\ rec.rows = req.rows /\ rec.pk = req.pk
        /\ rec.fromPk = req.fromPk
    <2>1. rec \in CartReq
      BY <1>0, <1>4, Zenon DEF CartReq
    <2>2. QED
      BY <1>0, <2>1 DEF CartReq
  <1> HIDE DEF rec
  <1>6. cartLock[req.owner] = r /\ cartLock[req.browser] = r
    <2>1. CASE req.phase = "lock_items"
      BY <1>0, <2>1 DEF CartHolds, CartMerging
    <2>2. CASE req.phase = "lock_carts"
      <3>1. CartsToLock(r) = {} /\ cartPk[req.browser] = req.fromPk
        BY <1>a, <2>2 DEF CartBothLocked, CartItemsLocked, CartAt
      <3>2. \A o \in {req.owner, req.browser} : cartLock[o] = r
        BY <1>a, <1>1, <3>1 DEF CartsToLock
      <3>3. QED
        BY <3>2
    <2>3. QED
      BY <1>0, <2>1, <2>2
  <1>7. CartShape(rec)
    BY <1>0, <1>1, <1>4, <1>5 DEF CartShape, CartIdlePhases, CartItemPhases, CartMergePhases,
       CartMerging
  <1>8. CartKeyed(rec)
    BY <1>0, <1>4, <1>5 DEF CartKeyed, CartIdlePhases, CartMerging
  <1>9. CartHolds(r, rec)
    BY <1>0, <1>4, <1>5, <1>6 DEF CartHolds, CartMerging, CartPkOf
  <1>10. CartCovered(r, rec)
    <2>1. CASE req.phase = "lock_items"
      <3>1. \A v \in CartVariants : req.rows[v] > 0 => variantLock[v] = r
        BY <1>a, <2>1 DEF CartBothLocked, CartItemsLocked, CartJoinedToLock, CartAt
      <3>2. QED
        BY <1>0, <1>4, <1>5, <2>1, <3>1 DEF CartCovered, CartMerging
    <2>2. CASE req.phase = "lock_carts"
      <3>1. req.rows = CartNoRows /\ \A v \in CartVariants : variantLock[v] # r
        BY <1>0, <2>2 DEF CartShape, CartCovered, CartMerging
      <3>2. \A v \in CartVariants : req.rows[v] = 0
        BY <3>1 DEF CartNoRows
      <3>3. QED
        BY <1>4, <1>5, <3>1, <3>2 DEF CartCovered, CartMerging
    <2>3. QED
      BY <1>0, <2>1, <2>2
  <1>11. CartLoginOK'
    BY <1>0, <1>3 DEF CartLoginOK
  <1>12. QED
    BY <1>2, <1>3, <1>5, <1>7, <1>8, <1>9, <1>10, <1>11, CartMoves

LEMMA CartLockItemKeeps ==
    ASSUME CartIInv, NEW r \in CartRequests, NEW v \in CartVariants, CartLockItem(r, v)
    PROVE  CartIInv'
  <1>a. PICK req : req = cartRequest[r]
    OBVIOUS
  <1>b. PICK n : n = cartItem[req.browser][v]
    OBVIOUS
  <1>c. PICK rows : rows = [req.rows EXCEPT ![v] = n]
    OBVIOUS
  <1> DEFINE rec == [req EXCEPT !.rows = rows]
  <1>0. /\ req \in CartReq /\ CartShape(req) /\ CartKeyed(req) /\ CartHolds(r, req)
        /\ CartCovered(r, req) /\ req.phase = "lock_items" /\ r # 0
    BY <1>a, CartActs DEF CartLockItem, CartAt
  <1>1. /\ req.browser \in CartBrowsers /\ req.owner \in CartUsers /\ req.browser \in CartOwners
        /\ req.owner \in CartOwners
    BY <1>0, <1>a, CartMerger DEF CartMerging
  <1>2. n \in Nat /\ n > 0 /\ req.rows \in [CartVariants -> Nat]
    <2>1. n \in Nat
      BY <1>b, <1>1, CartActs
    <2>2. n > 0
      BY <1>a, <1>b DEF CartLockItem, CartItemsToLock
    <2>3. req.rows \in [CartVariants -> Nat]
      BY <1>0 DEF CartReq
    <2>4. QED
      BY <2>1, <2>2, <2>3
  <1>3. /\ rows \in [CartVariants -> Nat] /\ rows[v] = n
        /\ \A w \in CartVariants \ {v} : rows[w] = req.rows[w]
    BY <1>c, <1>2
  <1>4. /\ UNCHANGED <<cartPk, cartLastPk, cartItem, cartAvailable, cartOnSale, cartLock, variantLock,
                       cartLogin>>
        /\ cartRequest' = [cartRequest EXCEPT ![r] = rec]
    BY <1>a, <1>b, <1>c DEF CartLockItem, CartSet, cartRows, cartShelf, cartLocks
  <1>5. /\ rec \in CartReq /\ rec.phase = req.phase /\ rec.owner = req.owner /\ rec.kind = req.kind
        /\ rec.browser = req.browser /\ rec.rows = rows /\ rec.pk = req.pk
        /\ rec.fromPk = req.fromPk
    <2>1. rec \in CartReq
      BY <1>0, <1>3, Zenon DEF CartReq
    <2>2. QED
      BY <1>0, <2>1 DEF CartReq
  <1> HIDE DEF rec
  <1>6. CartShape(rec)
    BY <1>0, <1>1, <1>5 DEF CartShape, CartIdlePhases, CartItemPhases, CartMergePhases,
       CartMerging
  <1>7. CartKeyed(rec) /\ CartHolds(r, rec)
    BY <1>0, <1>5 DEF CartKeyed, CartHolds, CartIdlePhases, CartMerging, CartPkOf
  <1>8. CartCovered(r, rec)
    <2>1. \A w \in CartVariants : variantLock[w] = r => rows[w] > 0
      BY <1>0, <1>2, <1>3 DEF CartCovered
    <2>2. \A w \in CartVariants : rows[w] > 0 => cartItem[req.browser][w] = rows[w]
      BY <1>b, <1>0, <1>3 DEF CartCovered, CartMerging
    <2>3. QED
      BY <1>0, <1>5, <2>1, <2>2 DEF CartCovered, CartMerging
  <1>9. CartLoginOK'
    BY <1>4, CartActs DEF CartLoginOK
  <1>10. QED
    BY <1>4, <1>5, <1>6, <1>7, <1>8, <1>9, CartMoves

(* The variant of an item that the merge has locked.                       *)
LEMMA CartLockJoinedKeeps ==
    ASSUME CartIInv, NEW r \in CartRequests, NEW v \in CartVariants, CartLockJoined(r, v)
    PROVE  CartIInv'
  <1>a. PICK req : req = cartRequest[r]
    OBVIOUS
  <1>0. /\ req \in CartReq /\ CartShape(req) /\ CartKeyed(req) /\ CartHolds(r, req)
        /\ CartCovered(r, req) /\ req.phase = "lock_items" /\ r # 0
    BY <1>a, CartActs DEF CartLockJoined, CartAt
  <1>1. /\ UNCHANGED <<cartPk, cartLastPk, cartItem, cartAvailable, cartOnSale, cartLock, cartLogin,
                       cartRequest>>
        /\ variantLock[v] = 0 /\ variantLock' = [variantLock EXCEPT ![v] = r]
        /\ req.rows[v] > 0
    BY <1>a DEF CartLockJoined, CartJoinedToLock, cartRows, cartShelf
  <1>2. CartTypeOK' /\ CartKeysFine'
    BY <1>1 DEF CartIInv, CartTypeOK, CartKeysFine
  <1>3. \A w \in CartVariants : variantLock'[w] = IF w = v THEN r ELSE variantLock[w]
    BY <1>1 DEF CartIInv, CartTypeOK
  <1>4. CartFrame(r)
    BY <1>1, <1>3 DEF CartIInv, CartTypeOK, CartFrame, CartItemsMove
  <1>5. CartKeyed(req)' /\ CartHolds(r, req)'
    BY <1>0, <1>1 DEF CartKeyed, CartHolds
  <1>6. CartCovered(r, req)'
    BY <1>0, <1>1, <1>3 DEF CartCovered, CartMerging
  <1>7. CartGood(r)'
    BY <1>a, <1>0, <1>1, <1>5, <1>6 DEF CartGood
  <1>8. QED
    BY <1>2, <1>4, <1>7, CartStepOf

LEMMA CartMergedAlreadyKeeps ==
    ASSUME CartIInv, NEW r \in CartRequests, CartMergedAlready(r)
    PROVE  CartIInv'
  <1>1. /\ cartRequest[r].phase = "lock_carts" /\ CartFinish(r, "done") /\ CartLoginAnswered(r)
        /\ UNCHANGED <<cartPk, cartLastPk, cartItem, cartAvailable, cartOnSale>>
    BY DEF CartMergedAlready, CartAt, cartRows, cartShelf
  <1>2. CartLoginOK'
    BY <1>1, CartAnswered
  <1>3. QED
    BY <1>1, <1>2, CartNothingWritten, CartFinishKeeps

(* The merge writes items whose variants it holds, and empties a cart that *)
(* it holds.                                                               *)
LEMMA CartMergeItems ==
    ASSUME CartIInv, NEW r \in CartRequests, CartMerge(r)
    PROVE  /\ cartItem' \in [CartOwners -> [CartVariants -> Nat]]
           /\ cartRequest[r].owner \in CartUsers /\ cartRequest[r].browser \in CartBrowsers
           /\ \A o \in CartOwners, v \in CartVariants :
                cartItem'[o][v] = IF o = cartRequest[r].browser THEN 0
                                  ELSE IF o = cartRequest[r].owner THEN CartMerged(r, v)
                                  ELSE cartItem[o][v]
  <1>a. PICK o, b, m : o = cartRequest[r].owner /\ b = cartRequest[r].browser
                       /\ m = [v \in CartVariants |-> CartMerged(r, v)]
    OBVIOUS
  <1>1. o \in CartUsers /\ b \in CartBrowsers /\ o \in CartOwners /\ b \in CartOwners /\ o # b
    BY <1>a, CartMerger DEF CartMerge, CartAt, CartMerging
  <1>2. cartItem' = [cartItem EXCEPT ![o] = m, ![b] = CartNoRows]
    BY <1>a DEF CartMerge
  <1>3. m \in [CartVariants -> Nat]
    <2>a. PICK rows : rows = cartRequest[r].rows
      OBVIOUS
    <2>1. rows \in [CartVariants -> Nat]
      BY <2>a, CartActs DEF CartReq
    <2>2. ASSUME NEW v \in CartVariants  PROVE CartMerged(r, v) \in Nat
      <3>1. rows[v] \in Nat /\ cartItem[o][v] \in Nat /\ cartAvailable[v] \in Nat
        BY <1>1, <2>1, CartActs
      <3>2. QED
        BY <1>a, <2>a, <3>1 DEF CartMerged, CartLeast
    <2>3. QED
      BY <1>a, <2>2
  <1>4. /\ cartItem \in [CartOwners -> [CartVariants -> Nat]] /\ CartNoRows \in [CartVariants -> Nat]
        /\ \A v \in CartVariants : CartNoRows[v] = 0
    BY CartActs, CartNumbers DEF CartNoRows
  <1>5. cartItem' \in [CartOwners -> [CartVariants -> Nat]]
    BY <1>1, <1>2, <1>3, <1>4
  <1>6. ASSUME NEW p \in CartOwners, NEW v \in CartVariants
        PROVE  cartItem'[p][v] = IF p = b THEN 0 ELSE IF p = o THEN CartMerged(r, v)
                                 ELSE cartItem[p][v]
    <2>1. cartItem'[p] = IF p = b THEN CartNoRows ELSE IF p = o THEN m ELSE cartItem[p]
      BY <1>1, <1>2, <1>4
    <2>2. m[v] = CartMerged(r, v)
      BY <1>a
    <2>3. QED
      BY <1>4, <2>1, <2>2
  <1>7. QED
    BY <1>a, <1>1, <1>5, <1>6

LEMMA CartMergeKeeps ==
    ASSUME CartIInv, NEW r \in CartRequests, CartMerge(r)
    PROVE  CartIInv'
  <1>a. PICK o, b : o = cartRequest[r].owner /\ b = cartRequest[r].browser
    OBVIOUS
  <1>0. /\ cartRequest[r].phase \in CartMerging /\ o \in CartUsers /\ b \in CartBrowsers
        /\ b \in CartOwners /\ o \in CartOwners
    BY <1>a, CartMerger DEF CartMerge, CartAt, CartMerging
  <1>1. cartLock[b] = r
    BY <1>a, <1>0, CartActs DEF CartHolds
  <1>2. CartItemsMove(r)
    <2>1. SUFFICES ASSUME NEW p \in CartOwners, NEW v \in CartVariants
                   PROVE  \/ cartItem'[p][v] = cartItem[p][v]
                          \/ /\ variantLock[v] = r \/ cartItem'[p][v] = 0
                             /\ CartUnread(r, p, v)
      BY DEF CartItemsMove
    <2>2. CASE p = b
      <3>1. \A q \in CartRequests \ {r} :
              ~(cartRequest[q].phase \in CartMerging /\ cartRequest[q].browser = p)
        BY <1>1, <2>2, CartActs DEF CartHolds
      <3>2. CartUnread(r, p, v)
        BY <3>1 DEF CartUnread
      <3>3. QED
        BY <1>a, <2>2, <3>2, CartMergeItems
    <2>3. CASE p # b /\ p = o
      <3>0. CartUnread(r, p, v)
        <4>1. \A q \in CartRequests :
                cartRequest[q].phase \in CartMerging => cartRequest[q].browser \in CartBrowsers
          BY CartMerger
        <4>2. QED
          BY <1>0, <2>3, <4>1, CartNumbers DEF CartUnread
      <3>1. cartItem'[p][v] = CartMerged(r, v)
        BY <1>a, <2>3, CartMergeItems
      <3>2. CASE cartRequest[r].rows[v] = 0
        BY <1>a, <2>3, <3>1, <3>2 DEF CartMerged
      <3>3. CASE cartRequest[r].rows[v] # 0
        <4>a. PICK rows : rows = cartRequest[r].rows
          OBVIOUS
        <4>1. rows \in [CartVariants -> Nat]
          BY <4>a, CartActs DEF CartReq
        <4>2. rows[v] > 0
          BY <3>3, <4>a, <4>1
        <4>3. variantLock[v] = r
          BY <1>0, <4>a, <4>2, CartActs DEF CartCovered, CartMerge, CartAt
        <4>4. QED
          BY <3>0, <4>3
      <3>4. QED
        BY <3>2, <3>3
    <2>4. CASE p # b /\ p # o
      BY <1>a, <2>4, CartMergeItems
    <2>5. QED
      BY <2>2, <2>3, <2>4
  <1>3. /\ CartFinish(r, "done") /\ cartPk' = [cartPk EXCEPT ![b] = 0] /\ CartLoginAnswered(r)
        /\ UNCHANGED <<cartLastPk, cartAvailable, cartOnSale>>
    BY <1>a DEF CartMerge, cartShelf
  <1>4. CartLoginOK'
    BY <1>0, <1>3, CartAnswered
  <1>5. QED
    BY <1>0, <1>1, <1>2, <1>3, <1>4, CartMergeItems, CartFinishKeeps

LEMMA CartVictimKeeps ==
    ASSUME CartIInv, NEW r \in CartRequests, CartVictim(r)
    PROVE  CartIInv'
  <1>1. /\ CartFinish(r, "failed")
        /\ UNCHANGED <<cartPk, cartLastPk, cartItem, cartAvailable, cartOnSale>>
        /\ UNCHANGED cartLogin \/ CartLoginBroken(r)
    BY DEF CartVictim, cartRows, cartShelf
  <1>2. CartLoginOK'
    <2>a. PICK b : b = cartRequest[r].browser
      OBVIOUS
    <2>1. \/ cartLogin' = cartLogin
          \/ cartLogin' = [cartLogin EXCEPT ![b] = IF @ \in CartUsers THEN @ ELSE "lost"]
      BY <1>1, <2>a DEF CartLoginBroken
    <2>2. QED
      BY <2>1, CartActs DEF CartLoginOK
  <1>3. QED
    BY <1>1, <1>2, CartNothingWritten, CartFinishKeeps

LEMMA CartShelfKeeps ==
    ASSUME CartIInv, NEW v \in CartVariants, CartShelfMoves(v)
    PROVE  CartIInv'
  <1>1. /\ UNCHANGED <<cartPk, cartLastPk, cartItem, cartLogin, cartRequest, cartLock, variantLock>>
        /\ variantLock[v] = 0
        /\ \/ cartAvailable[v] > 0 /\ cartAvailable' = [cartAvailable EXCEPT ![v] = @ - 1]
           \/ UNCHANGED cartAvailable
        /\ cartOnSale' \subseteq cartOnSale
    BY DEF CartShelfMoves, cartRows, cartLocks
  <1>2. cartAvailable' \in [CartVariants -> Nat]
        /\ \A w \in CartVariants : cartAvailable'[w] = cartAvailable[w] \/ variantLock[w] = 0
    BY <1>1 DEF CartIInv, CartTypeOK
  <1>3. CartTypeOK' /\ CartKeysFine'
    BY <1>1, <1>2 DEF CartIInv, CartTypeOK, CartKeysFine
  <1>4. CartFrame(0)
    BY <1>1, <1>2 DEF CartIInv, CartTypeOK, CartFrame, CartItemsMove
  <1>5. \A q \in CartRequests : CartGood(q)'
    BY <1>4, CartOthersKeep, CartNumbers
  <1>6. QED
    BY <1>3, <1>5 DEF CartIInv

LEMMA CartInitHolds == CartInit => CartIInv
  <1> SUFFICES ASSUME CartInit  PROVE CartIInv
    OBVIOUS
  <1>a. PICK n : n = Cardinality(CartOwners)
    OBVIOUS
  <1>1. n \in Nat
    BY <1>a, CartAssumption, FS_CardinalityType DEF CartAssumption
  <1>2. /\ cartPk \in [CartOwners -> 0..n] /\ cartLastPk = n
        /\ cartItem \in [CartOwners -> [CartVariants -> 0..1]]
        /\ cartAvailable \in [CartVariants -> 1..2] /\ cartOnSale = CartVariants
        /\ cartLogin \in [CartBrowsers -> {"guest"} \cup CartUsers]
        /\ cartRequest = [r \in CartRequests |-> CartNew]
        /\ cartLock = [o \in CartOwners |-> 0] /\ variantLock = [v \in CartVariants |-> 0]
    BY <1>a DEF CartInit
  <1>3. CartNew \in CartReq
    BY DEF CartNew, CartReq, CartPhases, CartNoRows
  <1>4. /\ cartPk \in [CartOwners -> Nat] /\ cartLastPk \in Nat
        /\ \A o \in CartOwners : cartPk[o] <= cartLastPk
    BY <1>1, <1>2
  <1>5. cartItem \in [CartOwners -> [CartVariants -> Nat]]
    BY <1>2
  <1>6. cartAvailable \in [CartVariants -> Nat]
    BY <1>2
  <1>7. CartTypeOK
    BY <1>2, <1>3, <1>4, <1>5, <1>6 DEF CartTypeOK
  <1>8. CartKeysFine
    BY <1>4 DEF CartKeysFine, CartInit
  <1>9. CartNew.phase = "new" /\ CartNew.browser = "none" /\ CartNew.kind = "none"
        /\ CartNew.rows = CartNoRows
    BY DEF CartNew
  <1>10. ASSUME NEW r \in CartRequests  PROVE CartGood(r)
    <2>1. cartRequest[r] = CartNew
      BY <1>2
    <2>2. CartShape(CartNew) /\ CartKeyed(CartNew)
      BY <1>9 DEF CartShape, CartKeyed, CartIdlePhases, CartMerging
    <2>3. CartHolds(r, CartNew) /\ CartCovered(r, CartNew)
      BY <1>2, <1>9, CartNumbers DEF CartHolds, CartCovered, CartMerging
    <2>4. QED
      BY <2>1, <2>2, <2>3 DEF CartGood
  <1>11. QED
    BY <1>7, <1>8, <1>10 DEF CartIInv

LEMMA CartStepKeeps == CartIInv /\ [CartNext]_cartVars => CartIInv'
  <1> SUFFICES ASSUME CartIInv, [CartNext]_cartVars  PROVE CartIInv'
    OBVIOUS
  <1>1. CASE UNCHANGED cartVars
    BY <1>1 DEF cartVars, cartRows, cartShelf, cartLocks, CartIInv, CartTypeOK, CartKeysFine,
       CartGood, CartShape, CartKeyed, CartHolds, CartCovered
  <1>2. ASSUME NEW r \in CartRequests, NEW b \in CartBrowsers, NEW v \in CartVariants,
               \/ \E q \in CartQuantities : CartAdd(r, b, v, q) \/ CartUpdate(r, b, v, q)
               \/ CartRemove(r, b, v)
        PROVE  CartIInv'
    <2>1. \E kind \in {"add", "update", "remove"}, q \in 0..999 : CartPost(r, b, kind, v, q)
      <3>1. CartQuantities \subseteq 0..999 /\ 0 \in 0..999
        BY CartAssumption DEF CartAssumption
      <3>2. QED
        BY <1>2, <3>1 DEF CartAdd, CartUpdate, CartRemove
    <2>2. QED
      BY <2>1, CartPostKeeps
  <1>3. ASSUME NEW r \in CartRequests, CartStep(r)  PROVE CartIInv'
    BY <1>3, CartResolveKeeps, CartLockVariantKeeps, CartFindItemKeeps, CartWriteKeeps,
       CartRemoveItemKeeps, CartFindGuestCartKeeps, CartLockCartKeeps, CartMergedAlreadyKeeps,
       CartBothLockedKeeps, CartLockItemKeeps, CartLockJoinedKeeps, CartMergeKeeps,
       CartVictimKeeps DEF CartStep
  <1>4. QED
    BY <1>1, <1>2, <1>3, CartLogInKeeps, CartShelfKeeps DEF CartNext

(* Whoever holds a cart or a variant is where the locks say it is, and     *)
(* what it read under them is still so - the invariant the results about   *)
(* carts rest on.                                                          *)
THEOREM CartsInvariant == CartSpec => []CartIInv
  BY CartInitHolds, CartStepKeeps, PTL DEF CartSpec

(* Carts, requests and locks keep their types.                             *)
THEOREM CartsTypes == CartSpec => []CartTypeOK
  <1>1. CartIInv => CartTypeOK
    BY DEF CartIInv
  <1>2. QED
    BY <1>1, CartsInvariant, PTL

(* Two logins of one account wait for each other only while they lock      *)
(* carts: who locks items holds the account's cart.                        *)
LEMMA CartMergesWait ==
    ASSUME CartIInv, NEW u \in CartUsers, NEW r \in CartMergesOf(u), NEW q \in CartMergesOf(u),
           CartWaitsFor(r, q)
    PROVE  /\ cartRequest[r].phase = "lock_carts"
           /\ \/ cartLock[u] = q /\ cartLock[u] # r /\ cartPk[u] = cartRequest[r].pk
              \/ /\ cartLock[cartRequest[r].browser] = q /\ cartLock[cartRequest[r].browser] # r
                 /\ cartPk[cartRequest[r].browser] = cartRequest[r].fromPk
  <1>0. /\ r \in CartRequests /\ q \in CartRequests /\ q # r
        /\ cartRequest[r].owner = u /\ cartRequest[r].browser # "none"
        /\ cartRequest[q].owner = u /\ cartRequest[q].browser # "none"
    BY DEF CartMergesOf, CartWaitsFor
  <1>1. /\ cartRequest[r].phase \in CartMergePhases /\ cartRequest[q].phase \in CartMergePhases
        /\ cartRequest[r].browser # u
    BY <1>0, CartActs, CartNumbers DEF CartShape
  <1>2. ASSUME cartRequest[r].phase = "lock_items", NEW v \in CartVariants, variantLock[v] = q
        PROVE  FALSE
    <2>1. cartLock[u] = r
      BY <1>0, <1>2, CartActs DEF CartHolds, CartMerging
    <2>2. cartRequest[q].phase \in CartMerging
      BY <1>0, <1>1, <1>2, CartActs DEF CartCovered, CartMergePhases
    <2>3. cartLock[u] = q
      BY <1>0, <2>2, CartActs DEF CartHolds
    <2>4. QED
      BY <1>0, <2>1, <2>3
  <1>3. /\ cartRequest[r].phase = "lock_carts"
        /\ \E o \in CartNextToLock(r) : cartLock[o] = q
    BY <1>1, <1>2 DEF CartWaitsFor, CartMergePhases, CartJoinedToLock
  <1>4. PICK o \in CartsToLock(r) : cartLock[o] = q
    BY <1>3 DEF CartNextToLock
  <1>5. QED
    BY <1>0, <1>1, <1>3, <1>4 DEF CartsToLock

(* Logins into one account never wait for each other in a cycle: of two    *)
(* that hold each other's cart, each would hold the one of the lower key.  *)
THEOREM MergesNeverDeadlock == CartSpec => []CartMergesNeverDeadlock
  <1>1. ASSUME CartIInv  PROVE CartMergesNeverDeadlock
    <2>1. SUFFICES ASSUME NEW u \in CartUsers, NEW S \in (SUBSET CartMergesOf(u)) \ {{}},
                          \A r \in S : \E q \in S : CartWaitsFor(r, q)
                   PROVE  FALSE
      BY DEF CartMergesNeverDeadlock
    <2> DEFINE from(r) == cartRequest[r].browser
    <2>2. ASSUME NEW r \in S
          PROVE  /\ r \in CartRequests /\ r \in CartMergesOf(u) /\ cartRequest[r].owner = u
                 /\ cartRequest[r].phase = "lock_carts" /\ from(r) \in CartOwners /\ from(r) # u
                 /\ cartRequest[r].pk # 0 /\ cartPk[u] = cartRequest[r].pk
                 /\ CartHolds(r, cartRequest[r])
      <3>1. r \in CartMergesOf(u) /\ \A q \in S : q \in CartMergesOf(u)
        BY <2>1, <2>2
      <3>2. cartRequest[r].phase = "lock_carts"
        BY <1>1, <2>1, <2>2, <3>1, CartMergesWait
      <3>3. r \in CartRequests /\ cartRequest[r].owner = u
        BY <3>1 DEF CartMergesOf
      <3>4. from(r) \in CartOwners /\ from(r) # u /\ cartPk[u] = cartRequest[r].pk
        BY <1>1, <3>2, <3>3, CartMerger
      <3>5. cartRequest[r].pk # 0 /\ CartHolds(r, cartRequest[r])
        BY <1>1, <3>2, <3>3, CartActs DEF CartKeyed, CartIdlePhases
      <3>6. QED
        BY <3>1, <3>2, <3>3, <3>4, <3>5
    <2>3. ASSUME NEW r \in S
          PROVE  \E q \in S : \/ cartLock[u] = q /\ cartLock[u] # r
                              \/ /\ cartLock[from(r)] = q /\ cartLock[from(r)] # r
                                 /\ cartPk[from(r)] = cartRequest[r].fromPk
      BY <1>1, <2>1, <2>2, <2>3, CartMergesWait
    <2>4. ASSUME NEW r \in S, NEW q \in S, cartLock[from(r)] = q, q # r
          PROVE  from(q) = from(r)
      BY <2>2, <2>4 DEF CartHolds
    <2>5. PICK h \in S : cartLock[u] = h
      <3>0. S # {}
        OBVIOUS
      <3>1. PICK r : r \in S
        BY <3>0
      <3>2. CASE cartLock[u] \in S
        BY <3>2
      <3>3. CASE cartLock[u] \notin S
        <4>1. PICK q \in S : cartLock[from(r)] = q /\ q # r
          BY <2>3, <3>1, <3>3
        <4>2. from(q) = from(r)
          BY <2>4, <3>1, <4>1
        <4>3. QED
          BY <2>3, <3>1, <3>3, <4>1, <4>2
      <3>4. QED
        BY <3>2, <3>3
    <2>6. PICK p \in S : cartLock[from(h)] = p /\ p # h /\ cartPk[from(h)] = cartRequest[h].fromPk
      BY <2>3, <2>5
    <2>7. from(p) = from(h)
      BY <2>4, <2>6
    <2>8. cartPk[u] <= cartPk[from(h)]
      <3>1. cartPk[from(h)] = CartPkOf(cartRequest[h], from(h))
        BY <2>2, <2>6 DEF CartPkOf
      <3>2. QED
        BY <2>2, <2>5, <2>6, <3>1 DEF CartHolds
    <2>9. cartPk[from(h)] <= cartPk[u]
      <3>1. cartPk[u] = CartPkOf(cartRequest[p], u)
        BY <2>2 DEF CartPkOf
      <3>2. cartLock[u] # p /\ cartLock[from(p)] = p
        BY <2>5, <2>6, <2>7
      <3>3. QED
        BY <2>2, <2>7, <3>1, <3>2 DEF CartHolds
    <2>10. cartPk[u] \in Nat /\ cartPk[from(h)] \in Nat
      BY <1>1, <2>2, CartNumbers DEF CartIInv, CartTypeOK
    <2>11. cartPk[u] = cartPk[from(h)]
      BY <2>8, <2>9, <2>10
    <2>12. QED
      BY <1>1, <2>2, <2>11, CartNumbers DEF CartIInv, CartKeysFine
  <1>2. QED
    BY <1>1, CartsInvariant, PTL

-----------------------------------------------------------------------------
(* What a step may do to the quantities.                                   *)

LEMMA CartQuietSteps ==
    ASSUME NEW r \in CartRequests,
           \/ CartResolve(r) \/ CartLockVariant(r) \/ CartFindItem(r) \/ CartFindGuestCart(r)
           \/ CartLockCart(r) \/ CartMergedAlready(r) \/ CartBothLocked(r)
           \/ (\E v \in CartVariants : CartLockItem(r, v) \/ CartLockJoined(r, v))
           \/ CartItemsLocked(r) \/ CartVictim(r)
    PROVE  UNCHANGED cartItem
  <1> USE DEF cartRows
  <1>1. CASE CartResolve(r) \/ CartLockVariant(r) \/ CartFindItem(r) \/ CartFindGuestCart(r)
    BY <1>1 DEF CartResolve, CartLockVariant, CartFindItem, CartFindGuestCart
  <1>2. CASE CartLockCart(r) \/ CartMergedAlready(r) \/ CartBothLocked(r)
    BY <1>2 DEF CartLockCart, CartMergedAlready, CartBothLocked
  <1>3. CASE \/ (\E v \in CartVariants : CartLockItem(r, v) \/ CartLockJoined(r, v))
             \/ CartItemsLocked(r) \/ CartVictim(r)
    BY <1>3 DEF CartLockItem, CartLockJoined, CartItemsLocked, CartVictim
  <1>4. QED
    BY <1>1, <1>2, <1>3

LEMMA CartWritingSteps ==
    ASSUME CartNext, cartItem' # cartItem
    PROVE  \E r \in CartRequests :
              \/ CartInsertItem(r) \/ CartUpdateItem(r) \/ CartSaveItem(r) \/ CartRemoveItem(r)
              \/ CartMerge(r)
  <1>1. ASSUME NEW r \in CartRequests, NEW b \in CartBrowsers, NEW v \in CartVariants, NEW q,
               \/ CartAdd(r, b, v, q) \/ CartUpdate(r, b, v, q) \/ CartRemove(r, b, v)
        PROVE  FALSE
    BY <1>1 DEF CartAdd, CartUpdate, CartRemove, CartPost, cartRows
  <1>2. ASSUME NEW r \in CartRequests, NEW b \in CartBrowsers, NEW u \in CartUsers, NEW kind,
               CartLogIn(r, b, u, kind)
        PROVE  FALSE
    BY <1>2 DEF CartLogIn, cartRows
  <1>3. ASSUME NEW v \in CartVariants, CartShelfMoves(v)  PROVE FALSE
    BY <1>3 DEF CartShelfMoves, cartRows
  <1>4. PICK r \in CartRequests : CartStep(r)
    BY <1>1, <1>2, <1>3 DEF CartNext
  <1>5. QED
    BY <1>4, CartQuietSteps DEF CartStep

(* What a merge makes of an item: no more than the two carts held, and no  *)
(* more than is available when it is more than the account held.           *)
LEMMA CartMergedBounds ==
    ASSUME CartIInv, NEW r \in CartRequests, CartMerge(r), NEW v \in CartVariants
    PROVE  LET own == cartItem[cartRequest[r].owner][v]
               from == cartItem[cartRequest[r].browser][v] IN
           /\ own \in Nat /\ from \in Nat /\ CartMerged(r, v) \in Nat
           /\ CartMerged(r, v) <= own + from
           /\ CartMerged(r, v) > own => CartMerged(r, v) <= cartAvailable[v]
  <1>a. PICK o, b, rows : o = cartRequest[r].owner /\ b = cartRequest[r].browser
                          /\ rows = cartRequest[r].rows
    OBVIOUS
  <1>b. PICK own, from, m, available :
          own = cartItem[o][v] /\ from = cartItem[b][v] /\ m = CartMerged(r, v)
          /\ available = cartAvailable[v]
    OBVIOUS
  <1>1. cartRequest[r].phase \in CartMerging
    BY DEF CartMerge, CartAt, CartMerging
  <1>2. o \in CartOwners /\ b \in CartOwners
    BY <1>a, <1>1, CartMerger
  <1>3. own \in Nat /\ from \in Nat /\ available \in Nat
    BY <1>b, <1>2, CartActs
  <1>4. rows[v] \in Nat
    <2>1. rows \in [CartVariants -> Nat]
      BY <1>a, CartActs DEF CartReq
    <2>2. QED
      BY <2>1
  <1>5. rows[v] > 0 => from = rows[v]
    BY <1>a, <1>b, <1>1, CartActs DEF CartCovered
  <1>6. m = IF rows[v] = 0 \/ available < 1 THEN own
            ELSE IF own + rows[v] <= available THEN own + rows[v] ELSE available
    BY <1>a, <1>b DEF CartMerged, CartLeast
  <1>7. m \in Nat /\ m <= own + from /\ (m > own => m <= available)
    BY <1>3, <1>4, <1>5, <1>6
  <1>8. QED
    BY <1>a, <1>b, <1>3, <1>7

(* An insertion, an update or the save of an add writes at most what is    *)
(* available, for it holds the variant it checked.                         *)
LEMMA CartPutCovered ==
    ASSUME CartIInv, NEW r \in CartRequests,
           CartInsertItem(r) \/ CartUpdateItem(r) \/ CartSaveItem(r), cartItem' # cartItem
    PROVE  \E o \in CartOwners, v \in CartVariants, n \in Nat :
              cartItem' = [cartItem EXCEPT ![o][v] = n] /\ n <= cartAvailable[v]
  <1>a. PICK req : req = cartRequest[r]
    OBVIOUS
  <1>1. req.phase \in {"item", "save"}
    BY <1>a DEF CartInsertItem, CartUpdateItem, CartSaveItem, CartAt
  <1>2. /\ req.owner \in CartOwners /\ req.variant \in CartVariants
        /\ req.quantity \in Nat /\ req.seen \in Nat
    BY <1>a, <1>1, CartWriter
  <1>3. /\ req.quantity <= cartAvailable[req.variant]
        /\ req.phase = "save" => req.seen + req.quantity <= cartAvailable[req.variant]
    BY <1>a, <1>1, CartActs DEF CartCovered
  <1>4. \/ CartPut(r, req.quantity)
        \/ req.phase = "save" /\ CartPut(r, req.seen + req.quantity)
    BY <1>a DEF CartInsertItem, CartUpdateItem, CartSaveItem, CartAt
  <1>5. req.seen + req.quantity \in Nat
    BY <1>2
  <1>6. QED
    BY <1>a, <1>2, <1>3, <1>4, <1>5 DEF CartPut

(* A quantity grows only up to what is available at that moment: the       *)
(* variant is locked from the check to the write, by an add, an update and *)
(* a merge alike.                                                          *)
THEOREM GrowthIsCovered == CartSpec => CartGrowthIsCovered
  <1>1. ASSUME CartIInv, CartNext, NEW o \in CartOwners, NEW v \in CartVariants,
               cartItem'[o][v] > cartItem[o][v]
        PROVE  cartItem'[o][v] <= cartAvailable[v]
    <2>0. /\ cartItem \in [CartOwners -> [CartVariants -> Nat]] /\ cartItem[o][v] \in Nat
          /\ CartUsers \subseteq CartOwners /\ CartBrowsers \subseteq CartOwners
      BY <1>1, CartNumbers DEF CartIInv, CartTypeOK
    <2>1. cartItem' # cartItem
      BY <1>1, <2>0
    <2>2. PICK r \in CartRequests :
              \/ CartInsertItem(r) \/ CartUpdateItem(r) \/ CartSaveItem(r) \/ CartRemoveItem(r)
              \/ CartMerge(r)
      BY <1>1, <2>1, CartWritingSteps
    <2>3. CASE CartInsertItem(r) \/ CartUpdateItem(r) \/ CartSaveItem(r)
      <3>1. PICK p \in CartOwners, w \in CartVariants, n \in Nat :
              cartItem' = [cartItem EXCEPT ![p][w] = n] /\ n <= cartAvailable[w]
        BY <1>1, <2>1, <2>3, CartPutCovered
      <3>2. p = o /\ w = v /\ cartItem'[o][v] = n
        BY <1>1, <2>0, <3>1
      <3>3. QED
        BY <3>1, <3>2
    <2>4. CASE CartRemoveItem(r)
      <3>a. PICK p, w : p = cartRequest[r].owner /\ w = cartRequest[r].variant
        OBVIOUS
      <3>1. cartItem' = [cartItem EXCEPT ![p][w] = 0]
        BY <2>1, <2>4, <3>a DEF CartRemoveItem
      <3>2. cartItem'[o][v] \in {0, cartItem[o][v]}
        BY <2>0, <3>1
      <3>3. QED
        BY <1>1, <2>0, <3>2
    <2>5. CASE CartMerge(r)
      <3>1. /\ cartItem'[o][v] = CartMerged(r, v) /\ o = cartRequest[r].owner
            \/ cartItem'[o][v] \in {0, cartItem[o][v]}
        BY <1>1, <2>5, CartMergeItems
      <3>2. CASE cartItem'[o][v] \in {0, cartItem[o][v]}
        BY <1>1, <2>0, <3>2
      <3>3. CASE cartItem'[o][v] = CartMerged(r, v) /\ o = cartRequest[r].owner
        BY <1>1, <2>5, <3>3, CartMergedBounds
      <3>4. QED
        BY <3>1, <3>2, <3>3
    <2>6. QED
      BY <2>2, <2>3, <2>4, <2>5
  <1>2. CartIInv /\ [CartNext]_cartVars =>
          [\A o \in CartOwners, v \in CartVariants :
             cartItem'[o][v] > cartItem[o][v] => cartItem'[o][v] <= cartAvailable[v]]_cartVars
    BY <1>1
  <1>3. QED
    BY <1>2, CartsInvariant, PTL DEF CartSpec, CartGrowthIsCovered

(* A step that changes a request is a step of that request.                *)
LEMMA CartOwnStep ==
    ASSUME CartIInv, NEW r \in CartRequests, NEW q \in CartRequests,
           \/ CartInsertItem(q) \/ CartUpdateItem(q) \/ CartSaveItem(q) \/ CartRemoveItem(q)
           \/ CartMerge(q),
           cartRequest'[r] # cartRequest[r]
    PROVE  q = r
  <1>1. \E rec : cartRequest' = [cartRequest EXCEPT ![q] = rec]
    BY DEF CartInsertItem, CartUpdateItem, CartSaveItem, CartRemoveItem, CartMerge, CartFinish,
       CartAnswer, CartSet
  <1>2. QED
    BY <1>1, CartActs

(* Merging makes no units, however many logins merge one guest's cart: of  *)
(* all the steps of a login only the merge writes items, and it empties    *)
(* the guest's cart, whose rows it holds, by what it adds to the account's.*)
THEOREM LoginsAddNothing == CartSpec => CartLoginsAddNothing
  <1>1. ASSUME CartIInv, CartNext, NEW r \in CartRequests, NEW u, NEW b, NEW v \in CartVariants,
               u = cartRequest[r].owner, b = cartRequest[r].browser,
               b # "none", cartRequest'[r] # cartRequest[r]
        PROVE  cartItem'[u][v] + cartItem'[b][v] <= cartItem[u][v] + cartItem[b][v]
    <2>0. /\ u \in CartUsers /\ b \in CartBrowsers /\ u \in CartOwners /\ b \in CartOwners /\ u # b
          /\ cartItem[u][v] \in Nat /\ cartItem[b][v] \in Nat
      <3>1. u \in CartUsers /\ b \in CartBrowsers
        BY <1>1, CartActs DEF CartShape
      <3>2. QED
        BY <3>1, CartNumbers, CartActs, <1>1
    <2>1. CASE cartItem' = cartItem
      BY <2>0, <2>1
    <2>2. CASE cartItem' # cartItem
      <3>1. PICK q \in CartRequests :
              \/ CartInsertItem(q) \/ CartUpdateItem(q) \/ CartSaveItem(q) \/ CartRemoveItem(q)
              \/ CartMerge(q)
        BY <1>1, <2>2, CartWritingSteps
      <3>2. q = r
        BY <1>1, <3>1, CartOwnStep
      <3>3. cartRequest[r].phase \notin {"item", "save", "remove"}
        BY <1>1, CartActs DEF CartShape, CartIdlePhases, CartMergePhases
      <3>4. CartMerge(r)
        BY <3>1, <3>2, <3>3 DEF CartInsertItem, CartUpdateItem, CartSaveItem, CartRemoveItem, CartAt
      <3>5. cartItem'[b][v] = 0 /\ cartItem'[u][v] = CartMerged(r, v)
        BY <1>1, <2>0, <3>4, CartMergeItems
      <3>6. CartMerged(r, v) \in Nat /\ CartMerged(r, v) <= cartItem[u][v] + cartItem[b][v]
        BY <1>1, <3>4, CartMergedBounds
      <3>7. QED
        BY <2>0, <3>5, <3>6
    <2>3. QED
      BY <2>1, <2>2
  <1>2. CartIInv /\ [CartNext]_cartVars =>
          [\A r \in CartRequests :
             LET u == cartRequest[r].owner
                 b == cartRequest[r].browser IN
             b # "none" /\ cartRequest'[r] # cartRequest[r]
             => \A v \in CartVariants :
                   cartItem'[u][v] + cartItem'[b][v] <= cartItem[u][v] + cartItem[b][v]]_cartVars
    BY <1>1
  <1>3. QED
    BY <1>2, CartsInvariant, PTL DEF CartSpec, CartLoginsAddNothing

(* Only the step that writes the item, or that ends a login, answers a     *)
(* request that it is done.                                                *)
LEMMA CartDoneSteps ==
    ASSUME CartIInv, CartNext, NEW r \in CartRequests, cartRequest[r].kind = "add",
           cartRequest[r].phase # "done", cartRequest'[r].phase = "done"
    PROVE  CartInsertItem(r) \/ CartSaveItem(r)
  <1>0. /\ cartRequest \in [CartRequests -> CartReq] /\ CartShape(cartRequest[r])
        /\ \A q \in CartRequests : CartShape(cartRequest[q])
    BY CartActs
  <1>1. ASSUME NEW q \in CartRequests \ {r}, NEW rec, cartRequest' = [cartRequest EXCEPT ![q] = rec]
        PROVE  FALSE
    BY <1>0, <1>1
  <1>2. ASSUME NEW rec, cartRequest' = [cartRequest EXCEPT ![r] = rec]
        PROVE  rec.phase = "done"
    BY <1>0, <1>2
  <1>3. ASSUME NEW q \in CartRequests, NEW b \in CartBrowsers, NEW v \in CartVariants, NEW n,
               NEW kind, CartPost(q, b, kind, v, n)
        PROVE  FALSE
    <2> DEFINE rec == [CartNew EXCEPT !.phase = "resolve", !.kind = kind, !.variant = v,
                                  !.quantity = IF kind = "remove" THEN 0 ELSE n,
                                  !.owner = IF cartLogin[b] = "guest" THEN b
                                            ELSE cartLogin[b]]
    <2>1. cartRequest' = [cartRequest EXCEPT ![q] = rec]
      BY <1>3 DEF CartPost, CartSet
    <2>2. rec.phase = "resolve"
      BY DEF CartNew
    <2> HIDE DEF rec
    <2>3. QED
      BY <1>1, <1>2, <2>1, <2>2
  <1>4. ASSUME NEW q \in CartRequests, NEW b \in CartBrowsers, NEW u \in CartUsers,
               NEW kind, CartLogIn(q, b, u, kind)
        PROVE  FALSE
    <2> DEFINE rec == [CartNew EXCEPT !.phase = "resolve", !.kind = kind, !.owner = u,
                                      !.browser = b]
    <2>1. cartRequest' = [cartRequest EXCEPT ![q] = rec]
      BY <1>4 DEF CartLogIn, CartSet
    <2>2. rec.phase = "resolve"
      BY DEF CartNew
    <2> HIDE DEF rec
    <2>3. QED
      BY <1>1, <1>2, <2>1, <2>2
  <1>5. ASSUME NEW v \in CartVariants, CartShelfMoves(v)  PROVE FALSE
    BY <1>5 DEF CartShelfMoves
  <1>6. PICK q \in CartRequests : CartStep(q)
    BY <1>3, <1>4, <1>5 DEF CartNext, CartAdd, CartUpdate, CartRemove
  <1>7. \E rec : cartRequest' = [cartRequest EXCEPT ![q] = rec]
    <2> USE DEF CartSet, CartGoto, CartAnswer, CartFinish
    <2>1. CASE CartResolve(q) \/ CartLockVariant(q) \/ CartFindItem(q) \/ CartInsertItem(q)
      BY <2>1 DEF CartResolve, CartLockVariant, CartFindItem, CartInsertItem
    <2>2. CASE CartUpdateItem(q) \/ CartSaveItem(q) \/ CartRemoveItem(q) \/ CartFindGuestCart(q)
      BY <2>2 DEF CartUpdateItem, CartSaveItem, CartRemoveItem, CartFindGuestCart
    <2>3. CASE CartLockCart(q)
      BY <2>3 DEF CartLockCart
    <2>4. CASE CartMergedAlready(q) \/ CartMerge(q) \/ CartVictim(q)
      BY <2>4 DEF CartMergedAlready, CartMerge, CartVictim
    <2>5. CASE CartBothLocked(q) \/ CartItemsLocked(q)
      <3>1. \E phase : cartRequest' = [cartRequest EXCEPT ![q].phase = phase]
        BY <2>5 DEF CartBothLocked, CartItemsLocked
      <3>2. PICK phase : cartRequest' = [cartRequest EXCEPT ![q].phase = phase]
        BY <3>1
      <3>3. cartRequest' = [cartRequest EXCEPT ![q] = [cartRequest[q] EXCEPT !.phase = phase]]
        BY <3>2, <1>0
      <3>4. QED
        BY <3>3
    <2>6. CASE \E v \in CartVariants : CartLockItem(q, v)
      BY <2>6 DEF CartLockItem
    <2>7. CASE \E v \in CartVariants : CartLockJoined(q, v)
      <3>1. cartRequest' = [cartRequest EXCEPT ![q] = cartRequest[q]]
        BY <2>7, <1>0 DEF CartLockJoined
      <3>2. QED
        BY <3>1
    <2>8. QED
      BY <1>6, <2>1, <2>2, <2>3, <2>4, <2>5, <2>6, <2>7 DEF CartStep
  <1>8. q = r
    BY <1>1, <1>7
  <1>9. cartRequest[r].phase \in {"resolve", "lock_variant", "item", "save"}
    BY <1>0 DEF CartShape, CartIdlePhases, CartItemPhases
  <1>10. \/ CartResolve(r) \/ CartLockVariant(r) \/ CartFindItem(r) \/ CartInsertItem(r)
         \/ CartSaveItem(r) \/ CartVictim(r)
    BY <1>6, <1>8, <1>9 DEF CartStep, CartUpdateItem, CartRemoveItem, CartFindGuestCart, CartLockCart,
       CartMergedAlready, CartBothLocked, CartLockItem, CartLockJoined, CartItemsLocked, CartMerge,
       CartAt
  <1>11. ASSUME CartResolve(r)  PROVE FALSE
    <2>1. PICK pk : cartRequest' = [cartRequest EXCEPT ![r] =
                      [cartRequest[r] EXCEPT !.phase = "lock_variant", !.pk = pk]]
      BY <1>11 DEF CartResolve, CartSet
    <2> DEFINE rec == [cartRequest[r] EXCEPT !.phase = "lock_variant", !.pk = pk]
    <2>2. rec.phase = "lock_variant"
      BY <1>0 DEF CartReq
    <2>3. cartRequest' = [cartRequest EXCEPT ![r] = rec]
      BY <2>1
    <2> HIDE DEF rec
    <2>4. QED
      BY <1>2, <2>2, <2>3
  <1>12. ASSUME NEW phase, CartAnswer(r, phase)  PROVE phase = "done"
    <2>1. [CartNew EXCEPT !.phase = phase].phase = phase
      BY DEF CartNew
    <2>2. QED
      BY <1>2, <1>12, <2>1 DEF CartAnswer, CartSet
  <1>13. ASSUME CartVictim(r)  PROVE FALSE
    BY <1>12, <1>13 DEF CartVictim, CartFinish
  <1>14. ASSUME CartLockVariant(r)  PROVE FALSE
    <2>1. PICK available : CartSet(r, [cartRequest[r] EXCEPT !.phase = "item",
                                                              !.available = available])
      BY <1>12, <1>14 DEF CartLockVariant
    <2> DEFINE rec == [cartRequest[r] EXCEPT !.phase = "item", !.available = available]
    <2>2. rec.phase = "item"
      BY <1>0 DEF CartReq
    <2>3. cartRequest' = [cartRequest EXCEPT ![r] = rec]
      BY <2>1 DEF CartSet
    <2> HIDE DEF rec
    <2>4. QED
      BY <1>2, <2>2, <2>3
  <1>15. ASSUME CartFindItem(r)  PROVE FALSE
    <2>1. PICK q1 : CartSet(r, [cartRequest[r] EXCEPT !.phase = "save", !.seen = q1])
      BY <1>12, <1>15 DEF CartFindItem, CartFinish
    <2> DEFINE rec == [cartRequest[r] EXCEPT !.phase = "save", !.seen = q1]
    <2>2. rec.phase = "save"
      BY <1>0 DEF CartReq
    <2>3. cartRequest' = [cartRequest EXCEPT ![r] = rec]
      BY <2>1 DEF CartSet
    <2> HIDE DEF rec
    <2>4. QED
      BY <1>2, <2>2, <2>3
  <1>16. QED
    BY <1>10, <1>11, <1>13, <1>14, <1>15

(* No add is lost: at its save the row is what the add has read, or was    *)
(* removed meanwhile, for whoever else writes it waits for the variant.    *)
THEOREM NoAddIsLost == CartSpec => CartNoAddLost
  <1>1. ASSUME CartIInv, CartNext, NEW r \in CartRequests, NEW o, NEW v,
               o = cartRequest[r].owner, v = cartRequest[r].variant,
               cartRequest[r].kind = "add", cartRequest[r].phase # "done",
               cartRequest'[r].phase = "done", cartItem[o][v] > 0
        PROVE  cartItem'[o][v] = cartItem[o][v] + cartRequest[r].quantity
    <2>1. CartInsertItem(r) \/ CartSaveItem(r)
      BY <1>1, CartDoneSteps
    <2>2. cartRequest[r].phase \in {"item", "save"}
      BY <2>1 DEF CartInsertItem, CartSaveItem, CartAt
    <2>3. /\ o \in CartOwners /\ v \in CartVariants
          /\ cartItem \in [CartOwners -> [CartVariants -> Nat]]
          /\ cartRequest \in [CartRequests -> CartReq]
      BY <1>1, <2>2, CartWriter, CartActs
    <2>4. ~CartFinish(r, "failed")
      <3>1. [CartNew EXCEPT !.phase = "failed"].phase = "failed"
        BY DEF CartNew
      <3>2. QED
        BY <1>1, <2>3, <3>1 DEF CartFinish, CartAnswer, CartSet
    <2>5. CartRowLives(r)
      BY <2>1, <2>4 DEF CartInsertItem, CartSaveItem
    <2>6. CartSaveItem(r) /\ cartRequest[r].phase = "save"
      BY <1>1, <2>1, <2>5 DEF CartInsertItem, CartSaveItem, CartAt
    <2>7. cartItem' = [cartItem EXCEPT ![o][v] = cartRequest[r].seen + cartRequest[r].quantity]
      BY <1>1, <2>5, <2>6 DEF CartSaveItem, CartPut
    <2>8. cartItem[o][v] = cartRequest[r].seen
      BY <1>1, <2>6, CartActs DEF CartCovered
    <2>9. QED
      BY <2>3, <2>7, <2>8
  <1>2. CartIInv /\ [CartNext]_cartVars =>
          [\A r \in CartRequests :
             LET o == cartRequest[r].owner
                 v == cartRequest[r].variant IN
             (cartRequest[r].kind = "add" /\ ~CartEnded(r) /\ CartEnded(r)' /\
              cartRequest'[r].phase = "done" /\ cartItem[o][v] > 0)
             => cartItem'[o][v] = cartItem[o][v] + cartRequest[r].quantity]_cartVars
    BY <1>1 DEF CartEnded
  <1>3. QED
    BY <1>2, CartsInvariant, PTL DEF CartSpec, CartNoAddLost

-----------------------------------------------------------------------------
(* Payments.                                                               *)

PayLockSteps == {"choose", "lock_row", "lock_rows", "commit"}
PayFormSteps == {"stamp", "write", "sync", "put"}

(* Services lock the order, forms do not; and a form whose copy of the     *)
(* order is cancelled writes "cancelled".  Who writes a payment has one.   *)
PayFine(req) ==
    /\ req.step \in PayFormSteps => req.kind \in PayForms
    /\ req.step \in {"lock_row", "stamp", "write"} => req.row \in PayRows
    /\ req.step = "put" /\ req.copy.cancelled => req.to.status = "cancelled"

(* Whoever has the order locked has it alone, and knows whether it is      *)
(* cancelled.                                                              *)
PayHeld(r) ==
    PayLocksOrder(r) => /\ payRequest[r].copy.cancelled = payOrder.cancelled
                        /\ PayOrderFree(r)

PayIInv == PayTypeOK /\ \A r \in PayRequests : PayFine(payRequest[r]) /\ PayHeld(r)

(* Every set of numbers has a least one; the library states it only with a *)
(* predicate as a parameter.                                               *)
LEMMA NatLeast ==
    ASSUME NEW T \in SUBSET Nat, T # {}
    PROVE  \E n \in T : \A m \in T : n <= m
  <1> DEFINE R == {p \in Nat \X Nat : p[1] < p[2]}
  <1>1. IsWellFoundedOn(R, Nat)
    BY NatLessThanWellFounded DEF OpToRel
  <1>2. \A m, n \in Nat : ~(<<m, n>> \in R) => n <= m
    OBVIOUS
  <1> HIDE DEF R
  <1>3. PICK n \in T : \A m \in T : ~(<<m, n>> \in R)
    BY <1>1, WFMin
  <1>4. QED
    BY <1>2, <1>3

PayTop(rows, S, p) ==
    /\ p \in S
    /\ \A q \in S : \/ rows[q].at < rows[p].at
                    \/ rows[q].at = rows[p].at /\ q <= p

(* A set of payments has a latest: of a smallest set that had none, remove *)
(* any; the rest has one, and the later of the two is the latest of all.   *)
LEMMA PayTopExists ==
    ASSUME NEW rows \in [PayRows -> PayRowType], NEW S \in SUBSET PayRows, S # {}
    PROVE  \E p \in S : PayTop(rows, S, p)
  <1> DEFINE Bad(R) == R \in SUBSET PayRows /\ R # {} /\ \A p \in R : ~PayTop(rows, R, p)
             T == {n \in Nat : \E R \in SUBSET PayRows : Bad(R) /\ Cardinality(R) = n}
  <1>1. SUFFICES ASSUME Bad(S)  PROVE FALSE
    OBVIOUS
  <1>2. ASSUME NEW R \in SUBSET PayRows  PROVE IsFiniteSet(R) /\ Cardinality(R) \in Nat
    BY PayAssumption, FS_Subset, FS_CardinalityType DEF PayAssumption
  <1>3. T # {}
    BY <1>1, <1>2
  <1>4. PICK n \in T : \A m \in T : n <= m
    <2> HIDE DEF T
    <2>1. T \in SUBSET Nat
      BY DEF T
    <2>2. QED
      BY <1>3, <2>1, NatLeast
  <1>5. PICK R \in SUBSET PayRows : Bad(R) /\ Cardinality(R) = n
    OBVIOUS
  <1>6. PICK x : x \in R
    BY <1>5
  <1>a. PICK rest : rest = R \ {x}
    OBVIOUS
  <1>7. rest \in SUBSET PayRows /\ Cardinality(rest) = n - 1 /\ Cardinality(rest) \in Nat
    BY <1>2, <1>5, <1>6, <1>a, FS_RemoveElement
  <1>8. ~Bad(rest)
    <2>1. SUFFICES ASSUME Bad(rest)  PROVE FALSE
      OBVIOUS
    <2>2. n - 1 \in T
      BY <1>7, <2>1
    <2>3. n <= n - 1 /\ n \in Nat
      BY <1>4, <2>2
    <2>4. QED
      BY <2>3
  <1>9. \A p \in R : p \in Nat /\ rows[p].at \in Nat
    BY PayAssumption DEF PayAssumption, PayRowType
  <1>10. CASE rest = {}
    <2>1. \A q \in R : q = x
      BY <1>10, <1>a
    <2>2. PayTop(rows, R, x)
      BY <1>6, <1>9, <2>1 DEF PayTop
    <2>3. QED
      BY <1>5, <1>6, <2>2
  <1>11. CASE rest # {}
    <2>1. PICK p \in rest : PayTop(rows, rest, p)
      BY <1>7, <1>8, <1>11
    <2>2. p \in R /\ \A q \in R : q = x \/ q \in rest
      BY <1>a, <2>1
    <2>3. PayTop(rows, R, p) \/ PayTop(rows, R, x)
      BY <1>6, <1>9, <2>1, <2>2, <1>a DEF PayTop
    <2>4. QED
      BY <1>5, <1>6, <2>2, <2>3
  <1>12. QED
    BY <1>10, <1>11

LEMMA PayResolvedType ==
    ASSUME NEW rows \in [PayRows -> PayRowType]
    PROVE  PayResolved(rows) \in PayStatuses
  <1> DEFINE S == {q \in PayRows : rows[q].there}
  <1>1. CASE S = {}
    BY <1>1 DEF PayResolved, PayStatuses
  <1>2. CASE S # {}
    <2>1. PICK p \in S : PayTop(rows, S, p)
      BY <1>2, PayTopExists
    <2>2. \E q \in PayRows : PayLatest(rows, q)
      BY <2>1 DEF PayTop, PayLatest
    <2>3. rows[CHOOSE q \in PayRows : PayLatest(rows, q)].status \in PayStatuses
      BY <2>2 DEF PayRowType
    <2>4. QED
      BY <2>3 DEF PayResolved, PayStatuses
  <1>3. QED
    BY <1>1, <1>2

LEMMA PayNewFine ==
    /\ PayNoRow \in PayRowType /\ PayNew \in PayReq /\ PayNew.step = "new"
    /\ PayNew.to = PayNoRow /\ PayNew.locks = {}
  <1>1. PayNoRow \in PayRowType
    BY DEF PayNoRow, PayRowType, PayStatuses
  <1>2. PayNew \in PayReq
    <2>1. [cancelled |-> FALSE, payment |-> "pending"] \in PayOrderType
      BY DEF PayOrderType, PayStatuses
    <2>2. [p \in PayRows |-> PayNoRow] \in [PayRows -> PayRowType]
      BY <1>1
    <2>3. QED
      BY <1>1, <2>1, <2>2 DEF PayNew, PayReq, PaySteps
  <1>3. QED
    BY <1>1, <1>2 DEF PayNew

LEMMA PayActs ==
    ASSUME PayIInv
    PROVE  /\ payOrder \in PayOrderType /\ payRow \in [PayRows -> PayRowType] /\ payClock \in Nat
           /\ payRequest \in [PayRequests -> PayReq]
           /\ \A r \in PayRequests : payRequest[r] \in PayReq /\ PayFine(payRequest[r]) /\ PayHeld(r)
  BY DEF PayIInv, PayTypeOK

LEMMA PayKeeps ==
    ASSUME PayIInv, NEW r \in PayRequests, NEW rec \in PayReq, PayFine(rec),
           payRequest' = [payRequest EXCEPT ![r] = rec],
           payOrder' \in PayOrderType, payRow' \in [PayRows -> PayRowType], payClock' \in Nat,
           rec.step \in PayLockSteps => /\ rec.copy.cancelled = payOrder'.cancelled
                                        /\ PayLocksOrder(r) \/ PayOrderFree(r),
           payOrder'.cancelled = payOrder.cancelled \/ PayLocksOrder(r)
    PROVE  PayIInv'
  <1>0. payRequest \in [PayRequests -> PayReq] /\ \A q \in PayRequests : PayHeld(q)
    BY PayActs
  <1>1. PayTypeOK'
    BY <1>0 DEF PayTypeOK
  <1>2. payRequest'[r] = rec /\ \A q \in PayRequests \ {r} : payRequest'[q] = payRequest[q]
    BY <1>0
  <1>3. rec.step \in PayLockSteps => PayOrderFree(r)
    BY <1>0 DEF PayHeld
  <1>4. PayHeld(r)'
    BY <1>2, <1>3 DEF PayHeld, PayOrderFree, PayLocksOrder, PayLockSteps
  <1>5. ASSUME NEW q \in PayRequests \ {r}  PROVE PayHeld(q)'
    <2>1. SUFFICES ASSUME PayLocksOrder(q)'
                   PROVE  /\ payRequest'[q].copy.cancelled = payOrder'.cancelled
                          /\ PayOrderFree(q)'
      BY DEF PayHeld
    <2>2. PayLocksOrder(q) /\ payRequest'[q] = payRequest[q]
      BY <1>2, <2>1 DEF PayLocksOrder
    <2>3. PayHeld(q) /\ ~PayLocksOrder(r)
      BY <1>0, <2>2 DEF PayHeld, PayOrderFree
    <2>4. ~PayLocksOrder(r)'
      BY <1>2, <1>3, <2>2 DEF PayOrderFree, PayLocksOrder, PayLockSteps
    <2>5. QED
      BY <1>2, <2>2, <2>3, <2>4 DEF PayHeld, PayOrderFree, PayLocksOrder
  <1>6. \A q \in PayRequests : PayFine(payRequest[q])'
    BY <1>2, PayActs DEF PayFine
  <1>7. QED
    BY <1>1, <1>4, <1>5, <1>6 DEF PayIInv

(* A step of a request that writes neither the order nor a row.            *)
LEMMA PayMoves ==
    ASSUME PayIInv, NEW r \in PayRequests, NEW rec \in PayReq, PayFine(rec), PaySet(r, rec),
           UNCHANGED <<payOrder, payRow>>, payClock' \in Nat,
           rec.step \in PayLockSteps => /\ rec.copy.cancelled = payOrder.cancelled
                                        /\ PayLocksOrder(r) \/ PayOrderFree(r)
    PROVE  PayIInv'
  BY PayActs, PayKeeps DEF PaySet

LEMMA PayOwned ==
    ASSUME PayIInv, NEW r \in PayRequests, NEW p \in PayRows, NEW row \in PayRowType
    PROVE  /\ PayOwns(r, p, row) \in PayReq /\ PayOwns(r, p, row).step = payRequest[r].step
           /\ PayOwns(r, p, row).kind = payRequest[r].kind
           /\ PayOwns(r, p, row).copy = payRequest[r].copy
           /\ PayOwns(r, p, row).to = payRequest[r].to
  <1>a. PICK req, locks, own : req = payRequest[r] /\ locks = req.locks \cup {p}
                               /\ own = [req.own EXCEPT ![p] = row]
    OBVIOUS
  <1>1. req \in PayReq
    BY <1>a, PayActs
  <1>2. locks \in SUBSET PayRows /\ own \in [PayRows -> PayRowType]
    BY <1>a, <1>1 DEF PayReq
  <1>3. PayOwns(r, p, row) = [req EXCEPT !.locks = locks, !.own = own]
    BY <1>a, <1>1 DEF PayOwns, PayReq
  <1>4. QED
    BY <1>a, <1>1, <1>2, <1>3 DEF PayReq

LEMMA PayViewed ==
    ASSUME PayIInv, NEW r \in PayRequests
    PROVE  PayView(r) \in [PayRows -> PayRowType]
  <1>1. payRequest[r].own \in [PayRows -> PayRowType] /\ payRow \in [PayRows -> PayRowType]
    BY PayActs DEF PayReq
  <1>2. QED
    BY <1>1 DEF PayView

(* The end of a request, with or without COMMIT.                           *)
LEMMA PayEndFine ==
    ASSUME NEW rec, rec = [PayNew EXCEPT !.step = "done"]
    PROVE  rec \in PayReq /\ PayFine(rec) /\ rec.step \notin PayLockSteps
  <1>1. rec \in PayReq /\ rec.step = "done"
    BY PayNewFine DEF PayReq, PaySteps
  <1>2. QED
    BY <1>1 DEF PayFine, PayFormSteps, PayLockSteps

LEMMA PayEndKeeps ==
    ASSUME PayIInv, NEW r \in PayRequests, PayEnd(r),
           UNCHANGED <<payOrder, payRow>>, payClock' \in Nat
    PROVE  PayIInv'
  BY PayEndFine, PayMoves DEF PayEnd

LEMMA PayCommitKeeps ==
    ASSUME PayIInv, NEW r \in PayRequests, NEW row \in PayOrderType, PayCommit(r, row),
           UNCHANGED payClock, row.cancelled = payOrder.cancelled \/ PayLocksOrder(r)
    PROVE  PayIInv'
  BY PayEndFine, PayViewed, PayActs, PayKeeps DEF PayCommit, PayEnd, PaySet

LEMMA PayAskKeeps ==
    ASSUME PayIInv, NEW r \in PayRequests, NEW kind \in PayServices, NEW status \in PayStatuses,
           PayAsk(r, kind, status)
    PROVE  PayIInv'
  <1> DEFINE rec == [PayNew EXCEPT !.step = "lock_order", !.kind = kind, !.to.status = status]
  <1>1. PaySet(r, rec) /\ UNCHANGED <<payOrder, payRow, payClock>>
    BY DEF PayAsk
  <1>2. rec \in PayReq /\ rec.step = "lock_order"
    <2>1. [PayNoRow EXCEPT !.status = status] \in PayRowType
      BY PayNewFine DEF PayRowType
    <2>2. rec = [PayNew EXCEPT !.step = "lock_order", !.kind = kind,
                               !.to = [PayNoRow EXCEPT !.status = status]]
      BY PayNewFine DEF PayNew
    <2>3. QED
      BY <2>1, <2>2, PayNewFine DEF PayReq, PaySteps
  <1> HIDE DEF rec
  <1>3. PayFine(rec) /\ rec.step \notin PayLockSteps
    BY <1>2 DEF PayFine, PayFormSteps, PayLockSteps
  <1>4. QED
    BY <1>1, <1>2, <1>3, PayMoves, PayActs

LEMMA PayLockOrderKeeps ==
    ASSUME PayIInv, NEW r \in PayRequests, PayLockOrder(r)
    PROVE  PayIInv'
  <1>a. PICK req : req = payRequest[r]
    OBVIOUS
  <1>1. UNCHANGED <<payOrder, payRow, payClock>> /\ PayOrderFree(r) /\ req \in PayReq
    BY <1>a, PayActs DEF PayLockOrder
  <1>2. CASE PayEnd(r)
    BY <1>1, <1>2, PayEndKeeps, PayActs
  <1>3. CASE \E step \in {"lock_rows", "choose"} :
               PaySet(r, [req EXCEPT !.copy = payOrder, !.step = step])
    <2>1. PICK step \in {"lock_rows", "choose"} :
               PaySet(r, [req EXCEPT !.copy = payOrder, !.step = step])
      BY <1>3
    <2> DEFINE rec == [req EXCEPT !.copy = payOrder, !.step = step]
    <2>2. rec \in PayReq /\ rec.step = step /\ rec.copy = payOrder
      BY <1>1, PayActs DEF PayReq, PaySteps
    <2>3. PaySet(r, rec)
      BY <2>1
    <2> HIDE DEF rec
    <2>4. PayFine(rec)
      BY <2>2 DEF PayFine, PayFormSteps
    <2>5. QED
      BY <1>1, <2>2, <2>3, <2>4, PayMoves, PayActs
  <1>4. QED
    BY <1>2, <1>3, <1>a DEF PayLockOrder

LEMMA PayLockRowsKeeps ==
    ASSUME PayIInv, NEW r \in PayRequests, PayLockRows(r)
    PROVE  PayIInv'
  <1>1. PICK p \in PayRows : PaySet(r, PayOwns(r, p, payRow[p]))
    BY DEF PayLockRows, PayToCancel
  <1>a. PICK rec : rec = PayOwns(r, p, payRow[p])
    OBVIOUS
  <1>2. rec \in PayReq /\ rec.step = "lock_rows" /\ rec.copy = payRequest[r].copy
    <2>1. payRow[p] \in PayRowType
      BY PayActs
    <2>2. QED
      BY <1>a, <2>1, PayOwned DEF PayLockRows, PayAt
  <1>3. PayFine(rec)
    BY <1>2 DEF PayFine, PayFormSteps
  <1>4. PayLocksOrder(r) /\ PayHeld(r)
    BY PayActs DEF PayLockRows, PayAt, PayLocksOrder
  <1>5. QED
    BY <1>1, <1>a, <1>2, <1>3, <1>4, PayMoves, PayActs DEF PayLockRows, PayHeld

LEMMA PayRowsLockedKeeps ==
    ASSUME PayIInv, NEW r \in PayRequests, PayRowsLocked(r)
    PROVE  PayIInv'
  <1>a. PICK req : req = payRequest[r]
    OBVIOUS
  <1> DEFINE own == [p \in PayRows |->
                       IF p \notin req.locks \/ req.own[p].status = "cancelled" THEN req.own[p]
                       ELSE [req.own[p] EXCEPT !.status = "cancelled", !.at = payClock']]
  <1> DEFINE rec == [req EXCEPT !.step = "commit", !.own = own]
  <1>0. req \in PayReq /\ req.step = "lock_rows" /\ PayHeld(r) /\ payClock' \in Nat
        /\ UNCHANGED <<payOrder, payRow>>
    BY <1>a, PayActs DEF PayRowsLocked, PayAt
  <1>1. PaySet(r, rec)
    <2>1. req.own \in [PayRows -> PayRowType]
      BY <1>0 DEF PayReq
    <2>2. QED
      BY <1>a, <1>0, <2>1 DEF PayRowsLocked, PayReq
  <1>2. own \in [PayRows -> PayRowType]
    <2>1. ASSUME NEW p \in PayRows  PROVE own[p] \in PayRowType
      <3>a. PICK row, t : row = req.own[p] /\ t = payClock'
        OBVIOUS
      <3>1. row \in PayRowType /\ t \in Nat
        BY <3>a, <1>0 DEF PayReq
      <3>2. [row EXCEPT !.status = "cancelled", !.at = t] \in PayRowType
        BY <3>1, Zenon DEF PayRowType, PayStatuses
      <3>3. QED
        BY <3>a, <3>1, <3>2
    <2>2. QED
      BY <2>1
  <1> HIDE DEF own
  <1>3. rec \in PayReq /\ rec.step = "commit" /\ rec.copy = req.copy
    BY <1>0, <1>2 DEF PayReq, PaySteps
  <1> HIDE DEF rec
  <1>4. PayFine(rec)
    BY <1>3 DEF PayFine, PayFormSteps
  <1>5. PayLocksOrder(r)
    BY <1>a, <1>0 DEF PayLocksOrder
  <1>6. QED
    BY <1>a, <1>0, <1>1, <1>3, <1>4, <1>5, PayMoves DEF PayHeld

LEMMA PayChooseKeeps ==
    ASSUME PayIInv, NEW r \in PayRequests, PayChoose(r)
    PROVE  PayIInv'
  <1>a. PICK req : req = payRequest[r]
    OBVIOUS
  <1>1. PICK p \in PayRows : PaySet(r, [req EXCEPT !.step = "lock_row", !.row = p,
                                                   !.to.there = PayManual[p].there])
    BY <1>a DEF PayChoose
  <1>b. PICK there : there = PayManual[p].there
    OBVIOUS
  <1>c. PICK to : to = [req.to EXCEPT !.there = there]
    OBVIOUS
  <1> DEFINE rec == [req EXCEPT !.step = "lock_row", !.row = p, !.to = to]
  <1>0. req \in PayReq /\ req.step = "choose" /\ PayHeld(r) /\ payClock' \in Nat
        /\ UNCHANGED <<payOrder, payRow>>
    BY <1>a, PayActs DEF PayChoose, PayAt
  <1>2. there \in BOOLEAN
    <2>1. PayManual[p] = IF payRow[p].manual THEN payRow[p] ELSE PayNoRow
      BY DEF PayManual
    <2>2. PayManual[p] \in PayRowType
      BY <2>1, PayActs, PayNewFine
    <2>3. QED
      BY <1>b, <2>2 DEF PayRowType
  <1>3. to \in PayRowType
    BY <1>0, <1>2, <1>c, Zenon DEF PayReq, PayRowType
  <1>4. PaySet(r, rec)
    BY <1>0, <1>1, <1>b, <1>c DEF PaySet, PayReq
  <1>5. rec \in PayReq /\ rec.step = "lock_row" /\ rec.copy = req.copy /\ rec.row = p
    BY <1>0, <1>3 DEF PayReq, PaySteps
  <1> HIDE DEF rec
  <1>6. PayFine(rec) /\ PayLocksOrder(r)
    BY <1>a, <1>0, <1>5 DEF PayFine, PayFormSteps, PayLocksOrder
  <1>7. QED
    BY <1>a, <1>0, <1>4, <1>5, <1>6, PayMoves DEF PayHeld

LEMMA PayLockRowKeeps ==
    ASSUME PayIInv, NEW r \in PayRequests, PayLockRow(r)
    PROVE  PayIInv'
  <1>a. PICK req, p : req = payRequest[r] /\ p = req.row
    OBVIOUS
  <1>0. req \in PayReq /\ req.step = "lock_row" /\ PayHeld(r) /\ payClock \in Nat
        /\ UNCHANGED <<payOrder, payRow>> /\ PayLocksOrder(r)
    BY <1>a, PayActs DEF PayLockRow, PayAt, PayLocksOrder
  <1>1. CASE PaySet(r, [req EXCEPT !.step = "choose", !.row = 0]) /\ UNCHANGED payClock
    <2> DEFINE rec == [req EXCEPT !.step = "choose", !.row = 0]
    <2>1. rec \in PayReq /\ rec.step = "choose" /\ rec.copy = req.copy
      BY <1>0 DEF PayReq, PaySteps
    <2>2. PaySet(r, rec)
      BY <1>1
    <2> HIDE DEF rec
    <2>3. PayFine(rec)
      BY <2>1 DEF PayFine, PayFormSteps
    <2>4. QED
      BY <1>a, <1>0, <1>1, <2>1, <2>2, <2>3, PayMoves DEF PayHeld
  <1>2. CASE /\ payClock' = payClock + 1
             /\ PaySet(r, [PayOwns(r, p, [there |-> TRUE, manual |-> TRUE, at |-> payClock',
                                          status |-> req.to.status]) EXCEPT !.step = "commit"])
    <2>a. PICK row : row = [there |-> TRUE, manual |-> TRUE, at |-> payClock',
                            status |-> req.to.status]
      OBVIOUS
    <2>1. row \in PayRowType
      <3>1. payClock' \in Nat
        BY <1>0, <1>2
      <3>2. req.to.status \in PayStatuses
        BY <1>0 DEF PayReq, PayRowType
      <3>3. QED
        BY <2>a, <3>1, <3>2, Zenon DEF PayRowType
    <2>2. p \in PayRows
      BY <1>a, <1>0, PayActs DEF PayFine
    <2>b. PICK owned : owned = PayOwns(r, p, row)
      OBVIOUS
    <2> DEFINE rec == [owned EXCEPT !.step = "commit"]
    <2>3. owned \in PayReq /\ owned.copy = req.copy
      BY <1>a, <2>1, <2>2, <2>b, PayOwned
    <2>4. rec \in PayReq /\ rec.step = "commit" /\ rec.copy = req.copy
      BY <2>3 DEF PayReq, PaySteps
    <2>5. PaySet(r, rec)
      BY <1>2, <2>a, <2>b
    <2> HIDE DEF rec
    <2>6. PayFine(rec)
      BY <2>4 DEF PayFine, PayFormSteps
    <2>7. payClock' \in Nat
      BY <1>0, <1>2
    <2>8. QED
      BY <1>a, <1>0, <2>4, <2>5, <2>6, <2>7, PayMoves DEF PayHeld
  <1>3. QED
    BY <1>1, <1>2, <1>a DEF PayLockRow

(* A service that updates a payment of a cancelled order knows that it is; *)
(* what it writes keeps "cancelled".                                       *)
LEMMA PayServiceEndsKeeps ==
    ASSUME PayIInv, NEW r \in PayRequests, PayServiceEnds(r)
    PROVE  PayIInv'
  <1>a. PICK req : req = payRequest[r]
    OBVIOUS
  <1>0. req \in PayReq /\ PayLocksOrder(r) /\ UNCHANGED payClock /\ payOrder \in PayOrderType
    BY <1>a, PayActs DEF PayServiceEnds, PayAt, PayLocksOrder
  <1>b. PICK copy, view : copy = req.copy /\ view = PayView(r)
    OBVIOUS
  <1>1. copy \in PayOrderType /\ view \in [PayRows -> PayRowType] /\ copy.cancelled = payOrder.cancelled
    BY <1>a, <1>b, <1>0, PayViewed, PayActs DEF PayReq, PayHeld
  <1>2. PaySynced(copy, view) \in PayStatuses
    BY <1>1, PayResolvedType DEF PaySynced, PayStatuses
  <1>c. PICK row : row = IF req.kind = "update"
                         THEN [payOrder EXCEPT !.payment = PaySynced(copy, view)]
                         ELSE IF copy.cancelled THEN payOrder
                         ELSE [cancelled |-> TRUE, payment |-> "cancelled"]
    OBVIOUS
  <1>3. row \in PayOrderType
    BY <1>0, <1>2, <1>c DEF PayOrderType, PayStatuses
  <1>4. PayCommit(r, row)
    BY <1>a, <1>b, <1>c DEF PayServiceEnds
  <1>5. QED
    BY <1>0, <1>3, <1>4, PayCommitKeeps

(* The admin's forms.                                                      *)
LEMMA PayPostKeeps ==
    ASSUME PayIInv, NEW r \in PayRequests, NEW kind \in PayForms, NEW p \in PayRows,
           NEW manual \in BOOLEAN, NEW status \in PayStatuses, PayPost(r, kind, p, manual, status)
    PROVE  PayIInv'
  <1>a. PICK to : to = IF kind = "delete" THEN PayNoRow
                       ELSE [there |-> TRUE, manual |-> manual, status |-> status, at |-> 0]
    OBVIOUS
  <1>1. to \in PayRowType
    <2>1. 0 \in Nat
      OBVIOUS
    <2>2. [there |-> TRUE, manual |-> manual, status |-> status, at |-> 0] \in PayRowType
      BY <2>1, Zenon DEF PayRowType
    <2>3. QED
      BY <1>a, <2>2, PayNewFine
  <1> DEFINE rec == [PayNew EXCEPT !.step = "stamp", !.kind = kind, !.copy = payOrder,
                                   !.row = p, !.to = to]
  <1>2. rec \in PayReq /\ rec.step = "stamp" /\ rec.kind = kind /\ rec.row = p
    BY <1>1, PayNewFine, PayActs DEF PayReq, PaySteps
  <1>3. PaySet(r, rec) /\ UNCHANGED <<payOrder, payRow, payClock>>
    BY <1>a DEF PayPost
  <1> HIDE DEF rec
  <1>4. PayFine(rec) /\ rec.step \notin PayLockSteps
    BY <1>2 DEF PayFine, PayLockSteps
  <1>5. QED
    BY <1>2, <1>3, <1>4, PayMoves, PayActs

LEMMA PayStampKeeps ==
    ASSUME PayIInv, NEW r \in PayRequests, PayStamp(r)
    PROVE  PayIInv'
  <1>a. PICK req : req = payRequest[r]
    OBVIOUS
  <1>b. PICK t : t = IF req.kind = "delete" THEN 0 ELSE payClock'
    OBVIOUS
  <1>c. PICK to : to = [req.to EXCEPT !.at = t]
    OBVIOUS
  <1>0. /\ req \in PayReq /\ PayFine(req) /\ req.step = "stamp" /\ payClock' \in Nat
        /\ UNCHANGED <<payOrder, payRow>>
    BY <1>a, PayActs DEF PayStamp, PayAt
  <1>1. t \in Nat
    BY <1>0, <1>b
  <1>2. to \in PayRowType
    BY <1>0, <1>1, <1>c, Zenon DEF PayReq, PayRowType
  <1> DEFINE rec == [req EXCEPT !.step = "write", !.to = to]
  <1>3. rec \in PayReq /\ rec.step = "write" /\ rec.kind = req.kind /\ rec.row = req.row
    BY <1>0, <1>2 DEF PayReq, PaySteps
  <1>4. PaySet(r, rec)
    BY <1>a, <1>b, <1>c, <1>0 DEF PayStamp, PayReq
  <1> HIDE DEF rec
  <1>5. PayFine(rec) /\ rec.step \notin PayLockSteps
    BY <1>0, <1>3 DEF PayFine, PayFormSteps, PayLockSteps
  <1>6. QED
    BY <1>0, <1>3, <1>4, <1>5, PayMoves

LEMMA PayWriteKeeps ==
    ASSUME PayIInv, NEW r \in PayRequests, PayWrite(r)
    PROVE  PayIInv'
  <1>a. PICK req : req = payRequest[r]
    OBVIOUS
  <1>b. PICK owned : owned = PayOwns(r, req.row, req.to)
    OBVIOUS
  <1>0. /\ req \in PayReq /\ PayFine(req) /\ req.step = "write" /\ payClock' \in Nat
        /\ UNCHANGED <<payOrder, payRow>>
    BY <1>a, PayActs DEF PayWrite, PayAt
  <1>1. req.row \in PayRows /\ req.to \in PayRowType
    BY <1>0 DEF PayFine, PayReq
  <1>2. owned \in PayReq /\ owned.kind = req.kind
    BY <1>a, <1>b, <1>1, PayOwned
  <1> DEFINE rec == [owned EXCEPT !.step = "sync"]
  <1>3. rec \in PayReq /\ rec.step = "sync" /\ rec.kind = req.kind
    BY <1>2 DEF PayReq, PaySteps
  <1>4. PaySet(r, rec)
    BY <1>a, <1>b DEF PayWrite
  <1> HIDE DEF rec
  <1>5. PayFine(rec) /\ rec.step \notin PayLockSteps
    BY <1>0, <1>3 DEF PayFine, PayFormSteps, PayLockSteps
  <1>6. QED
    BY <1>0, <1>3, <1>4, <1>5, PayMoves

(* The signal of a form whose copy is cancelled makes nothing but          *)
(* "cancelled" of it.                                                      *)
LEMMA PaySyncKeeps ==
    ASSUME PayIInv, NEW r \in PayRequests, PaySync(r)
    PROVE  PayIInv'
  <1>a. PICK req, status : req = payRequest[r] /\ status = PaySynced(req.copy, PayView(r))
    OBVIOUS
  <1>0. /\ req \in PayReq /\ PayFine(req) /\ req.step = "sync" /\ UNCHANGED payClock
        /\ payClock \in Nat /\ payOrder \in PayOrderType
    BY <1>a, PayActs DEF PaySync, PayAt
  <1>1. CASE PayCommit(r, payOrder)
    BY <1>0, <1>1, PayCommitKeeps
  <1>2. CASE /\ PaySet(r, [req EXCEPT !.step = "put", !.to.status = status])
             /\ UNCHANGED <<payOrder, payRow>>
    <2>a. PICK to : to = [req.to EXCEPT !.status = status]
      OBVIOUS
    <2>1. status \in PayStatuses /\ (req.copy.cancelled => status = "cancelled")
      BY <1>a, PayViewed, PayResolvedType DEF PaySynced, PayStatuses
    <2>2. to \in PayRowType /\ to.status = status
      BY <1>0, <2>1, <2>a, Zenon DEF PayReq, PayRowType
    <2> DEFINE rec == [req EXCEPT !.step = "put", !.to = to]
    <2>3. rec \in PayReq /\ rec.step = "put" /\ rec.kind = req.kind /\ rec.copy = req.copy
          /\ rec.to = to
      BY <1>0, <2>2 DEF PayReq, PaySteps
    <2>4. PaySet(r, rec)
      BY <1>2, <1>0, <2>a DEF PayReq
    <2> HIDE DEF rec
    <2>5. PayFine(rec) /\ rec.step \notin PayLockSteps
      BY <1>0, <2>1, <2>2, <2>3 DEF PayFine, PayFormSteps, PayLockSteps
    <2>6. QED
      BY <1>0, <1>2, <2>3, <2>4, <2>5, PayMoves
  <1>3. QED
    BY <1>1, <1>2, <1>a DEF PaySync

LEMMA PayPutKeeps ==
    ASSUME PayIInv, NEW r \in PayRequests, PayPut(r)
    PROVE  PayIInv'
  <1>a. PICK row : row = [payOrder EXCEPT !.payment = payRequest[r].to.status]
    OBVIOUS
  <1>1. payRequest[r].to.status \in PayStatuses
    BY PayActs DEF PayReq, PayRowType
  <1>2. row \in PayOrderType /\ row.cancelled = payOrder.cancelled
    BY <1>a, <1>1, PayActs DEF PayOrderType
  <1>3. QED
    BY <1>a, <1>2, PayCommitKeeps DEF PayPut

LEMMA PayInitHolds == PayInit => PayIInv
  <1> SUFFICES ASSUME PayInit  PROVE PayIInv
    OBVIOUS
  <1>1. PICK p \in PayRows, status \in {"pending", "succeeded", "cancelled"} :
          /\ payOrder = [cancelled |-> status = "cancelled", payment |-> status]
          /\ payRow = [q \in PayRows |-> IF q = p THEN [there |-> TRUE, manual |-> TRUE,
                                                        status |-> status, at |-> 0]
                                         ELSE PayNoRow]
          /\ payClock = 0
          /\ payRequest = [r \in PayRequests |-> PayNew]
    BY DEF PayInit
  <1>2. payOrder \in PayOrderType
    BY <1>1 DEF PayOrderType, PayStatuses
  <1>3. [there |-> TRUE, manual |-> TRUE, status |-> status, at |-> 0] \in PayRowType
    BY DEF PayRowType, PayStatuses
  <1>4. PayTypeOK
    BY <1>1, <1>2, <1>3, PayNewFine DEF PayTypeOK
  <1>5. \A r \in PayRequests : payRequest[r].step = "new"
    BY <1>1, PayNewFine
  <1>6. QED
    BY <1>4, <1>5 DEF PayIInv, PayFine, PayFormSteps, PayHeld, PayLocksOrder

LEMMA PayStepKeeps == PayIInv /\ [PayNext]_payVars => PayIInv'
  <1> SUFFICES ASSUME PayIInv, [PayNext]_payVars  PROVE PayIInv'
    OBVIOUS
  <1>1. CASE UNCHANGED payVars
    BY <1>1 DEF payVars, PayIInv, PayTypeOK, PayFine, PayHeld, PayLocksOrder, PayOrderFree
  <1>2. ASSUME NEW r \in PayRequests, PayVictim(r)  PROVE PayIInv'
    BY <1>2, PayEndKeeps, PayActs DEF PayVictim
  <1>3. ASSUME NEW r \in PayRequests, PayStep(r)  PROVE PayIInv'
    BY <1>2, <1>3, PayLockOrderKeeps, PayLockRowsKeeps, PayRowsLockedKeeps, PayChooseKeeps,
       PayLockRowKeeps, PayServiceEndsKeeps, PayStampKeeps, PayWriteKeeps, PaySyncKeeps,
       PayPutKeeps DEF PayStep
  <1>4. QED
    BY <1>1, <1>3, PayAskKeeps, PayPostKeeps DEF PayNext

(* A service that has the order locked has it alone and knows whether it   *)
(* is cancelled, and a form whose copy is cancelled writes "cancelled" -   *)
(* the invariant the result about payments rests on.                       *)
THEOREM PaymentsInvariant == PaySpec => []PayIInv
  BY PayInitHolds, PayStepKeeps, PTL DEF PaySpec

(* Order, payments and requests keep their types; the latest payment that  *)
(* decides the status exists whenever there is one.                        *)
THEOREM PaymentsTypes == PaySpec => []PayTypeOK
  <1>1. PayIInv => PayTypeOK
    BY DEF PayIInv
  <1>2. QED
    BY <1>1, PaymentsInvariant, PTL

(* Whatever is paid, refunded, edited or deleted after a cancellation, the *)
(* order goes on to say "cancelled", unless a form had loaded it before.   *)
THEOREM CancelledStaysCancelled == PaySpec => PayCancelledStays
  <1>1. ASSUME PayIInv, PayNext, payOrder.cancelled, payOrder.payment = "cancelled",
               payOrder'.payment # "cancelled"
        PROVE  \E r \in PayRequests : /\ PayIs(r, "put", PayForms) /\ PayAt(r, "done")'
                                      /\ ~payRequest[r].copy.cancelled
    <2>0. /\ payOrder \in PayOrderType /\ payOrder' # payOrder
          /\ payRequest \in [PayRequests -> PayReq]
      BY <1>1, PayActs
    <2>1. PICK r \in PayRequests : PayServiceEnds(r) \/ PaySync(r) \/ PayPut(r)
      BY <1>1, <2>0 DEF PayNext, PayAsk, PayPost, PayStep, PayLockOrder, PayLockRows, PayRowsLocked,
         PayChoose, PayLockRow, PayStamp, PayWrite, PayVictim
    <2>2. ~PaySync(r)
      BY <2>0 DEF PaySync, PayCommit
    <2>3. ASSUME PayServiceEnds(r)  PROVE FALSE
      <3>1. PayHeld(r) /\ PayLocksOrder(r)
        BY <1>1, <2>3, PayActs DEF PayServiceEnds, PayAt, PayLocksOrder
      <3>2. payRequest[r].copy.cancelled
        BY <1>1, <3>1 DEF PayHeld
      <3>3. payOrder' \in {payOrder, [payOrder EXCEPT !.payment = "cancelled"]}
        BY <2>3, <3>2 DEF PayServiceEnds, PayCommit, PaySynced
      <3>4. QED
        BY <1>1, <2>0, <3>3 DEF PayOrderType
    <2>4. PayPut(r)
      BY <2>1, <2>2, <2>3
    <2>5. payOrder'.payment = payRequest[r].to.status
      BY <2>0, <2>4 DEF PayPut, PayCommit, PayOrderType
    <2>6. payRequest[r].step = "put" /\ PayFine(payRequest[r])
      BY <1>1, <2>4, PayActs DEF PayPut, PayAt
    <2>7. PayIs(r, "put", PayForms) /\ ~payRequest[r].copy.cancelled
      BY <1>1, <2>5, <2>6 DEF PayFine, PayFormSteps, PayIs, PayAt
    <2>8. PayAt(r, "done")'
      <3>1. [PayNew EXCEPT !.step = "done"].step = "done"
        BY DEF PayNew
      <3>2. QED
        BY <2>0, <2>4, <3>1 DEF PayPut, PayCommit, PayEnd, PaySet, PayAt
    <2>9. QED
      BY <2>7, <2>8
  <1>2. PayIInv /\ [PayNext]_payVars =>
          [payOrder.cancelled /\ payOrder.payment = "cancelled" /\ payOrder'.payment # "cancelled" =>
             \E r \in PayRequests : /\ PayIs(r, "put", PayForms) /\ PayAt(r, "done")'
                                    /\ ~payRequest[r].copy.cancelled]_payVars
    BY <1>1
  <1>3. QED
    BY <1>2, PaymentsInvariant, PTL DEF PaySpec, PayCancelledStays

-----------------------------------------------------------------------------
(* The backfill of reservations.                                           *)

BackStates == {"none", "active", "final"}
BackLineTables == [BackOrders -> [BackVariants -> 0..BackLineMax]]
BackUnits(lines, order, v) ==
    Cardinality({u \in BackOrders \X (1..BackLineMax) :
                   order[u[1]] = "active" /\ u[2] <= lines[u[1]][v]})

LEMMA BackNames ==
    /\ BackLineMax \in Nat /\ IsFiniteSet(BackOrders) /\ BackOrders \cap BackRuns = {}
    /\ BackOrders \subseteq BackActors /\ BackRuns \subseteq BackActors /\ "nobody" \notin BackActors
  BY BackAssumption DEF BackAssumption, BackActors

(* The pairs of one order with the numbers 1..n are n.                     *)
LEMMA BackColumn ==
    ASSUME NEW o, NEW n \in Nat
    PROVE  IsFiniteSet({o} \X (1..n)) /\ Cardinality({o} \X (1..n)) = n
  <1>1. IsFiniteSet(1..n) /\ Cardinality(1..n) = n
    <2>1. n \in Int /\ 1 \in Int /\ (IF 1 > n THEN 0 ELSE n - 1 + 1) = n
      OBVIOUS
    <2>2. IsFiniteSet(1..n) /\ Cardinality(1..n) = IF 1 > n THEN 0 ELSE n - 1 + 1
      BY <2>1, FS_Interval
    <2>3. QED
      BY <2>1, <2>2
  <1>2. IsFiniteSet({o}) /\ Cardinality({o}) = 1
    BY FS_Singleton
  <1> DEFINE S == {o}
             T == 1..n
  <1>3. Cardinality(S) = 1 /\ Cardinality(T) = n /\ IsFiniteSet(S) /\ IsFiniteSet(T)
    BY <1>1, <1>2
  <1> HIDE DEF S, T
  <1>4. IsFiniteSet(S \X T) /\ Cardinality(S \X T) = Cardinality(S) * Cardinality(T)
    BY <1>3, FS_Product
  <1>5. Cardinality(S \X T) = n
    BY <1>3, <1>4
  <1>6. QED
    BY <1>4, <1>5 DEF S, T

(* What one order's becoming active adds to the demand.                    *)
LEMMA BackUnitsMove ==
    ASSUME NEW lines \in BackLineTables,
           NEW before, NEW after, NEW o \in BackOrders, NEW v \in BackVariants,
           before[o] # "active", after[o] = "active",
           \A p \in BackOrders \ {o} : after[p] = before[p]
    PROVE  /\ BackUnits(lines, before, v) \in Nat
           /\ BackUnits(lines, after, v) = BackUnits(lines, before, v) + lines[o][v]
  <1> DEFINE All == BackOrders \X (1..BackLineMax)
             B == {u \in All : before[u[1]] = "active" /\ u[2] <= lines[u[1]][v]}
             A == {u \in All : after[u[1]] = "active" /\ u[2] <= lines[u[1]][v]}
             n == lines[o][v]
             O == {o} \X (1..n)
  <1>1. n \in 0..BackLineMax
    BY DEF BackLineTables
  <1>2. n \in Nat /\ n <= BackLineMax
    BY <1>1, BackNames
  <1>3. IsFiniteSet(All)
    <2>1. IsFiniteSet(1..BackLineMax)
      BY BackNames, FS_Interval
    <2>2. QED
      BY <2>1, BackNames, FS_Product
  <1>4. IsFiniteSet(B) /\ Cardinality(B) \in Nat
    <2>1. B \in SUBSET All
      OBVIOUS
    <2> HIDE DEF B, All
    <2>2. QED
      BY <1>3, <2>1, FS_Subset, FS_CardinalityType
  <1>5. IsFiniteSet(O) /\ Cardinality(O) = n
    BY <1>2, BackColumn
  <1>6. A = B \cup O
    <2>1. O \subseteq A
      BY <1>2, BackNames
    <2>2. \A u \in All : u[1] \in BackOrders /\ (u \in O <=> u[1] = o /\ u[2] <= n)
      BY <1>2, BackNames
    <2>3. \A u \in All : u \in A <=> u \in B \/ u \in O
      BY <2>2
    <2>4. QED
      BY <2>1, <2>3
  <1>7. B \cap O = {}
    OBVIOUS
  <1>8. Cardinality(A) = Cardinality(B) + n
    <2> HIDE DEF A, B, O, n
    <2>1. Cardinality(B \cup O) = Cardinality(B) + Cardinality(O) - Cardinality(B \cap O)
      BY <1>4, <1>5, FS_Union
    <2>2. Cardinality(B \cap O) = 0
      BY <1>7, FS_EmptySet
    <2>3. QED
      BY <1>2, <1>4, <1>5, <1>6, <2>1, <2>2
  <1>9. QED
    BY <1>4, <1>8 DEF BackUnits

(* No variant has more reserved than its orders need, and the books hold   *)
(* no more than what is really there once the demand is covered.           *)
BackSums ==
    \A v \in BackVariants :
        /\ backReserved[v] <= BackDemanded(v)
        /\ backQuantity[v] + BackDemanded(v) <= backShelf[v] + backReserved[v]
        /\ ~backClamped => backQuantity[v] + BackDemanded(v) = backShelf[v] + backReserved[v]

(* A run that has read the demand holds every row, and what it read holds. *)
BackRunFine(c) ==
    BackAt(c, "apply") => \A v \in BackVariants : /\ backRow[v] = c
                                                  /\ backActor[c].demand[v] = BackDemanded(v)

(* An order is one that its open transaction may work on.                  *)
BackOrderFine(o) ==
    /\ BackAt(o, "checkout") => backOrder[o] = "none"
    /\ backActor[o].step \in {"cancel", "issue"} => backOrder[o] = "active"

BackIInv ==
    /\ BackTypeOK /\ BackSums
    /\ \A o \in BackOrders : \E v \in BackVariants : backLines[o][v] > 0
    /\ \A c \in BackRuns : BackRunFine(c)
    /\ \A o \in BackOrders : BackOrderFine(o)

LEMMA BackActs ==
    ASSUME BackIInv
    PROVE  /\ backLines \in [BackOrders -> [BackVariants -> 0..BackLineMax]]
           /\ backOrder \in [BackOrders -> BackStates]
           /\ backQuantity \in [BackVariants -> Nat] /\ backReserved \in [BackVariants -> Nat]
           /\ backShelf \in [BackVariants -> Nat]
           /\ backRow \in [BackVariants -> BackActors \cup {"nobody"}]
           /\ backActor \in [BackActors -> BackActor]
           /\ backMode \in BOOLEAN /\ backClamped \in BOOLEAN
           /\ \A o \in BackOrders, v \in BackVariants : backLines[o][v] \in Nat
           /\ \A v \in BackVariants : backReserved[v] <= backQuantity[v]
  <1>1. backLines \in [BackOrders -> [BackVariants -> 0..BackLineMax]]
    BY DEF BackIInv, BackTypeOK
  <1>2. \A o \in BackOrders, v \in BackVariants : backLines[o][v] \in Nat
    <2>1. ASSUME NEW o \in BackOrders, NEW v \in BackVariants  PROVE backLines[o][v] \in Nat
      <3>1. backLines[o][v] \in 0..BackLineMax
        BY <1>1
      <3>2. QED
        BY <3>1, BackNames
    <2>2. QED
      BY <2>1
  <1>3. QED
    BY <1>1, <1>2 DEF BackIInv, BackTypeOK, BackStates

LEMMA BackDemandNat ==
    ASSUME BackIInv, NEW v \in BackVariants
    PROVE  BackDemanded(v) \in Nat
  <1> DEFINE All == BackOrders \X (1..BackLineMax)
             B == {u \in All : backOrder[u[1]] = "active" /\ u[2] <= backLines[u[1]][v]}
  <1>1. IsFiniteSet(All)
    <2>1. IsFiniteSet(1..BackLineMax)
      BY BackNames, FS_Interval
    <2>2. QED
      BY <2>1, BackNames, FS_Product
  <1>2. Cardinality(B) \in Nat
    <2>1. B \in SUBSET All
      OBVIOUS
    <2> HIDE DEF B, All
    <2>2. QED
      BY <1>1, <2>1, FS_Subset, FS_CardinalityType
  <1>3. QED
    BY <1>2 DEF BackDemanded

LEMMA BackDemandSame ==
    ASSUME UNCHANGED <<backLines, backOrder>>
    PROVE  \A v \in BackVariants : BackDemanded(v)' = BackDemanded(v)
  BY DEF BackDemanded

LEMMA BackGoes ==
    ASSUME BackIInv, NEW a \in BackActors, NEW step \in BackSteps, BackTo(a, step)
    PROVE  /\ backActor' \in [BackActors -> BackActor] /\ backActor'[a].step = step
           /\ \A b \in BackActors \ {a} : backActor'[b] = backActor[b]
  <1> DEFINE rec == [BackIdle EXCEPT !.step = step]
  <1>1. rec \in BackActor /\ rec.step = step
    BY DEF BackIdle, BackActor
  <1>2. backActor' = [backActor EXCEPT ![a] = rec] /\ backActor \in [BackActors -> BackActor]
    BY BackActs DEF BackTo
  <1> HIDE DEF rec
  <1>3. QED
    BY <1>1, <1>2

LEMMA BackUnlocked ==
    ASSUME BackIInv, NEW a \in BackActors, BackUnlock(a)
    PROVE  /\ backRow' \in [BackVariants -> BackActors \cup {"nobody"}]
           /\ \A v \in BackVariants : backRow[v] # a => backRow'[v] = backRow[v]
  BY BackActs DEF BackUnlock

(* A step that touches neither orders nor stock.                           *)
LEMMA BackQuietKeeps ==
    ASSUME BackIInv, NEW a \in BackActors,
           UNCHANGED <<backLines, backOrder, backQuantity, backReserved, backShelf, backClamped,
                       backMode>>,
           backActor' \in [BackActors -> BackActor],
           \A b \in BackActors \ {a} : backActor'[b] = backActor[b],
           backRow' \in [BackVariants -> BackActors \cup {"nobody"}],
           \A v \in BackVariants : backRow[v] \notin {a, "nobody"} => backRow'[v] = backRow[v],
           a \in BackRuns => BackRunFine(a)',
           a \in BackOrders => BackOrderFine(a)'
    PROVE  BackIInv'
  <1>1. BackTypeOK'
    BY BackActs DEF BackTypeOK, BackStates
  <1>2. BackSums'
    BY BackDemandSame DEF BackIInv, BackSums
  <1>3. ASSUME NEW c \in BackRuns  PROVE BackRunFine(c)'
    BY <1>3, BackDemandSame, BackNames DEF BackIInv, BackRunFine, BackAt
  <1>4. ASSUME NEW o \in BackOrders  PROVE BackOrderFine(o)'
    BY <1>4, BackNames DEF BackIInv, BackOrderFine, BackAt
  <1>5. QED
    BY <1>1, <1>2, <1>3, <1>4 DEF BackIInv

LEMMA BackAskKeeps ==
    ASSUME BackIInv, NEW o \in BackOrders, NEW kind \in {"checkout", "cancel", "issue"},
           BackAsk(o, kind)
    PROVE  BackIInv'
  <1>1. BackTo(o, kind) /\ kind \in BackSteps /\ o \in BackActors /\ o \notin BackRuns
    BY BackNames DEF BackAsk, BackSteps
  <1>2. UNCHANGED <<backLines, backOrder, backQuantity, backReserved, backShelf, backClamped,
                    backMode, backRow>>
    BY DEF BackAsk, backStock
  <1>3. backOrder[o] \in BackStates
    BY BackActs
  <1>4. BackOrderFine(o)'
    BY <1>1, <1>2, <1>3, BackGoes DEF BackOrderFine, BackAt, BackAsk, BackStates
  <1>5. QED
    BY <1>1, <1>2, <1>4, BackGoes, BackActs, BackQuietKeeps

LEMMA BackStartKeeps ==
    ASSUME BackIInv, NEW c \in BackRuns, BackStart(c)
    PROVE  BackIInv'
  <1>1. PICK step \in {"done", "lock"} : BackTo(c, step)
    BY DEF BackStart
  <1>2. UNCHANGED <<backLines, backOrder, backQuantity, backReserved, backShelf, backClamped,
                    backMode, backRow>>
    BY DEF BackStart, backStock
  <1>3. c \in BackActors /\ c \notin BackOrders /\ step \in BackSteps
    BY BackNames DEF BackSteps
  <1>4. BackRunFine(c)'
    BY <1>1, <1>3, BackGoes DEF BackRunFine, BackAt
  <1>5. QED
    BY <1>1, <1>2, <1>3, <1>4, BackGoes, BackActs, BackQuietKeeps

LEMMA BackRollBackKeeps ==
    ASSUME BackIInv, NEW c \in BackRuns, BackRollBack(c)
    PROVE  BackIInv'
  <1>1. BackTo(c, "done") /\ BackUnlock(c)
    BY DEF BackRollBack
  <1>2. UNCHANGED <<backLines, backOrder, backQuantity, backReserved, backShelf, backClamped,
                    backMode>>
    BY DEF BackRollBack, backStock
  <1>3. c \in BackActors /\ c \notin BackOrders /\ "done" \in BackSteps
    BY BackNames DEF BackSteps
  <1>4. BackRunFine(c)'
    BY <1>1, <1>3, BackGoes DEF BackRunFine, BackAt
  <1>5. QED
    BY <1>1, <1>2, <1>3, <1>4, BackGoes, BackUnlocked, BackQuietKeeps

LEMMA BackLockKeeps ==
    ASSUME BackIInv, NEW a \in BackActors, BackLock(a)
    PROVE  BackIInv'
  <1>1. PICK v \in BackVariants : backRow[v] = "nobody" /\ backRow' = [backRow EXCEPT ![v] = a]
    BY DEF BackLock, BackNeeds
  <1>2. UNCHANGED <<backLines, backOrder, backQuantity, backReserved, backShelf, backClamped,
                    backMode, backActor>>
    BY DEF BackLock, backStock
  <1>3. /\ backRow' \in [BackVariants -> BackActors \cup {"nobody"}]
        /\ \A w \in BackVariants : backRow[w] \notin {a, "nobody"} => backRow'[w] = backRow[w]
    BY <1>1, BackActs
  <1>4. ~BackAt(a, "apply")
    BY DEF BackLock, BackAt
  <1>5. BackRunFine(a)'
    BY <1>2, <1>4 DEF BackRunFine, BackAt
  <1>6. a \in BackOrders => BackOrderFine(a)'
    BY <1>2 DEF BackIInv, BackOrderFine, BackAt
  <1>7. QED
    BY <1>2, <1>3, <1>5, <1>6, BackActs, BackQuietKeeps

LEMMA BackReadKeeps ==
    ASSUME BackIInv, NEW c \in BackRuns, BackRead(c)
    PROVE  BackIInv'
  <1>a. PICK demand : demand = [v \in BackVariants |-> BackDemanded(v)]
    OBVIOUS
  <1> DEFINE rec == [step |-> "apply", demand |-> demand]
  <1>1. rec \in BackActor
    BY <1>a, BackDemandNat DEF BackActor, BackSteps
  <1>2. /\ UNCHANGED <<backLines, backOrder, backQuantity, backReserved, backShelf, backClamped,
                       backMode, backRow>>
        /\ backActor' = [backActor EXCEPT ![c] = rec]
    BY <1>a DEF BackRead, backStock
  <1>3. c \in BackActors /\ c \notin BackOrders
    BY BackNames
  <1>4. \A v \in BackVariants : backRow[v] = c
    BY DEF BackRead, BackMayRead, BackHasAll, BackNeeds
  <1>5. rec.demand = demand
    OBVIOUS
  <1> HIDE DEF rec
  <1>6. /\ backActor' \in [BackActors -> BackActor] /\ backActor'[c] = rec
        /\ \A b \in BackActors \ {c} : backActor'[b] = backActor[b]
    BY <1>1, <1>2, <1>3, BackActs
  <1>7. BackRunFine(c)'
    BY <1>a, <1>2, <1>4, <1>5, <1>6, BackDemandSame DEF BackRunFine
  <1>8. QED
    BY <1>2, <1>3, <1>6, <1>7, BackActs, BackQuietKeeps

(* The end of an order's transaction, which held a row: no run is past     *)
(* reading.                                                                *)
LEMMA BackOrderKeeps ==
    ASSUME BackIInv, NEW o \in BackOrders, BackHasAll(o), BackTo(o, "idle"), BackUnlock(o),
           UNCHANGED <<backLines, backMode>>,
           backOrder' \in [BackOrders -> BackStates],
           \A p \in BackOrders \ {o} : backOrder'[p] = backOrder[p],
           backQuantity' \in [BackVariants -> Nat], backReserved' \in [BackVariants -> Nat],
           backShelf' \in [BackVariants -> Nat], backClamped' \in BOOLEAN,
           \A v \in BackVariants : backReserved'[v] <= backQuantity'[v], BackSums'
    PROVE  BackIInv'
  <1>0. o \in BackActors /\ "idle" \in BackSteps /\ o \notin BackRuns
    BY BackNames DEF BackSteps
  <1>1. /\ backActor' \in [BackActors -> BackActor] /\ backActor'[o].step = "idle"
        /\ \A b \in BackActors \ {o} : backActor'[b] = backActor[b]
    BY <1>0, BackGoes
  <1>2. BackTypeOK'
    BY <1>0, <1>1, BackUnlocked, BackActs DEF BackTypeOK, BackStates
  <1>3. PICK v \in BackVariants : backRow[v] = o
    <2>1. PICK v \in BackVariants : backLines[o][v] > 0
      BY DEF BackIInv
    <2>2. QED
      BY <1>0, <2>1 DEF BackHasAll, BackNeeds
  <1>4. ASSUME NEW c \in BackRuns  PROVE BackRunFine(c)'
    <2>1. ~BackAt(c, "apply") /\ c \in BackActors /\ c # o
      BY <1>0, <1>3, <1>4, BackNames DEF BackIInv, BackRunFine
    <2>2. QED
      BY <1>1, <2>1 DEF BackRunFine, BackAt
  <1>5. ASSUME NEW p \in BackOrders  PROVE BackOrderFine(p)'
    BY <1>1, <1>5, BackNames DEF BackIInv, BackOrderFine, BackAt
  <1>6. QED
    BY <1>2, <1>4, <1>5 DEF BackIInv

LEMMA BackDemandMore ==
    ASSUME BackIInv, NEW o \in BackOrders, backOrder[o] # "active", UNCHANGED backLines,
           backOrder'[o] = "active", \A p \in BackOrders \ {o} : backOrder'[p] = backOrder[p],
           NEW v \in BackVariants
    PROVE  BackDemanded(v)' = BackDemanded(v) + backLines[o][v]
  <1>0. backLines \in BackLineTables
    BY BackActs DEF BackLineTables
  <1>1. BackUnits(backLines, backOrder', v) = BackUnits(backLines, backOrder, v) + backLines[o][v]
    BY <1>0, BackUnitsMove
  <1>2. /\ BackDemanded(v) = BackUnits(backLines, backOrder, v)
        /\ BackDemanded(v)' = BackUnits(backLines, backOrder', v)
    BY DEF BackDemanded, BackUnits
  <1>3. QED
    BY <1>1, <1>2

LEMMA BackCheckoutKeeps ==
    ASSUME BackIInv, NEW o \in BackOrders, BackCheckout(o)
    PROVE  BackIInv'
  <1>0. /\ BackHasAll(o) /\ BackTo(o, "idle") /\ BackUnlock(o) /\ backOrder[o] = "none"
        /\ UNCHANGED <<backLines, backQuantity, backShelf, backClamped, backMode>>
        /\ o \notin BackRuns
    BY BackNames DEF BackCheckout, BackIInv, BackOrderFine
  <1>1. CASE UNCHANGED <<backReserved, backOrder>>
    <2>1. BackSums'
      BY <1>0, <1>1, BackDemandSame DEF BackIInv, BackSums
    <2>2. QED
      BY <1>0, <1>1, <2>1, BackActs, BackOrderKeeps
  <1>2. CASE /\ \A v \in BackNeeds(o) : backQuantity[v] >= backReserved[v] + backLines[o][v]
             /\ backReserved' = [v \in BackVariants |-> backReserved[v] + backLines[o][v]]
             /\ backOrder' = [backOrder EXCEPT ![o] = "active"]
    <2>1. /\ backOrder' \in [BackOrders -> BackStates] /\ backOrder'[o] = "active"
          /\ \A p \in BackOrders \ {o} : backOrder'[p] = backOrder[p]
      BY <1>2, BackActs DEF BackStates
    <2>2. ASSUME NEW v \in BackVariants
          PROVE  /\ backReserved'[v] = backReserved[v] + backLines[o][v]
                 /\ BackDemanded(v)' = BackDemanded(v) + backLines[o][v]
                 /\ backReserved[v] + backLines[o][v] <= backQuantity[v]
      <3>1. BackDemanded(v)' = BackDemanded(v) + backLines[o][v]
        <4>1. backOrder[o] # "active" /\ UNCHANGED backLines
          BY <1>0
        <4>2. QED
          BY <2>1, <4>1, BackDemandMore
      <3>3. backReserved[v] + backLines[o][v] <= backQuantity[v]
        <4>1. /\ backLines[o][v] \in Nat /\ backReserved[v] \in Nat /\ backQuantity[v] \in Nat
              /\ backReserved[v] <= backQuantity[v]
          BY BackActs
        <4>2. CASE v \in BackNeeds(o)
          BY <1>2, <4>1, <4>2
        <4>3. CASE v \notin BackNeeds(o)
          BY <1>0, <4>1, <4>3 DEF BackNeeds
        <4>4. QED
          BY <4>2, <4>3
      <3>4. QED
        BY <1>2, <3>1, <3>3
    <2>3. backReserved' \in [BackVariants -> Nat]
      BY <1>2, BackActs
    <2>4. BackSums'
      <3>1. ASSUME NEW v \in BackVariants
            PROVE  /\ backReserved'[v] <= BackDemanded(v)'
                   /\ backQuantity'[v] + BackDemanded(v)' <= backShelf'[v] + backReserved'[v]
                   /\ ~backClamped' =>
                        backQuantity'[v] + BackDemanded(v)' = backShelf'[v] + backReserved'[v]
        <4>1. /\ backLines[o][v] \in Nat /\ backReserved[v] \in Nat /\ backQuantity[v] \in Nat
              /\ backShelf[v] \in Nat /\ BackDemanded(v) \in Nat
          BY BackActs, BackDemandNat
        <4>2. /\ backReserved[v] <= BackDemanded(v)
              /\ backQuantity[v] + BackDemanded(v) <= backShelf[v] + backReserved[v]
              /\ ~backClamped =>
                   backQuantity[v] + BackDemanded(v) = backShelf[v] + backReserved[v]
          BY DEF BackIInv, BackSums
        <4>3. QED
          BY <1>0, <2>2, <4>1, <4>2
      <3>2. QED
        BY <3>1 DEF BackSums
    <2>5. \A v \in BackVariants : backReserved'[v] <= backQuantity'[v]
      BY <1>0, <2>2
    <2>6. QED
      BY <1>0, <2>1, <2>3, <2>4, <2>5, BackActs, BackOrderKeeps
  <1>3. QED
    BY <1>1, <1>2 DEF BackCheckout

(* The demand that is left when an active order ends.                      *)
LEMMA BackDemandLess ==
    ASSUME BackIInv, NEW o \in BackOrders, backOrder[o] = "active", UNCHANGED backLines,
           backOrder'[o] # "active", \A p \in BackOrders \ {o} : backOrder[p] = backOrder'[p],
           NEW v \in BackVariants
    PROVE  BackDemanded(v) = BackDemanded(v)' + backLines[o][v] /\ BackDemanded(v)' \in Nat
  <1>0. backLines \in BackLineTables
    BY BackActs DEF BackLineTables
  <1>1. /\ BackUnits(backLines, backOrder', v) \in Nat
        /\ BackUnits(backLines, backOrder, v)
             = BackUnits(backLines, backOrder', v) + backLines[o][v]
    BY <1>0, BackUnitsMove
  <1>2. /\ BackDemanded(v) = BackUnits(backLines, backOrder, v)
        /\ BackDemanded(v)' = BackUnits(backLines, backOrder', v)
    BY DEF BackDemanded, BackUnits
  <1>3. QED
    BY <1>1, <1>2

LEMMA BackCancelKeeps ==
    ASSUME BackIInv, NEW o \in BackOrders, BackCancel(o)
    PROVE  BackIInv'
  <1>0. /\ BackHasAll(o) /\ BackTo(o, "idle") /\ BackUnlock(o) /\ backOrder[o] = "active"
        /\ UNCHANGED <<backLines, backQuantity, backShelf, backMode>>
        /\ backOrder' = [backOrder EXCEPT ![o] = "final"]
        /\ backReserved' = [v \in BackVariants |->
                              IF backLines[o][v] <= backReserved[v]
                              THEN backReserved[v] - backLines[o][v] ELSE 0]
        /\ backClamped' = (backClamped \/ \E v \in BackVariants :
                                            backLines[o][v] > backReserved[v])
    BY DEF BackCancel, BackIInv, BackOrderFine, BackAt
  <1>1. /\ backOrder' \in [BackOrders -> BackStates]
        /\ \A p \in BackOrders \ {o} : backOrder'[p] = backOrder[p]
    BY <1>0, BackActs DEF BackStates
  <1>2. ASSUME NEW v \in BackVariants
        PROVE  /\ backReserved'[v] \in Nat /\ backReserved'[v] <= backQuantity'[v]
               /\ backReserved'[v] <= BackDemanded(v)'
               /\ backQuantity'[v] + BackDemanded(v)' <= backShelf'[v] + backReserved'[v]
               /\ ~backClamped' =>
                    backQuantity'[v] + BackDemanded(v)' = backShelf'[v] + backReserved'[v]
    <2>1. /\ backLines[o][v] \in Nat /\ backReserved[v] \in Nat /\ backQuantity[v] \in Nat
          /\ backShelf[v] \in Nat /\ backReserved[v] <= backQuantity[v]
      BY BackActs
    <2>2. BackDemanded(v) = BackDemanded(v)' + backLines[o][v] /\ BackDemanded(v)' \in Nat
      <3>1. backOrder'[o] # "active"
        BY <1>0, BackActs
      <3>2. QED
        BY <1>0, <1>1, <3>1, BackDemandLess
    <2>3. /\ backReserved[v] <= BackDemanded(v)
          /\ backQuantity[v] + BackDemanded(v) <= backShelf[v] + backReserved[v]
          /\ ~backClamped =>
               backQuantity[v] + BackDemanded(v) = backShelf[v] + backReserved[v]
      BY DEF BackIInv, BackSums
    <2>4. /\ backReserved'[v] = IF backLines[o][v] <= backReserved[v]
                                THEN backReserved[v] - backLines[o][v] ELSE 0
          /\ backQuantity'[v] = backQuantity[v] /\ backShelf'[v] = backShelf[v]
      BY <1>0
    <2>5. ~backClamped' => ~backClamped /\ ~(backLines[o][v] > backReserved[v])
      BY <1>0
    <2>6. QED
      BY <2>1, <2>2, <2>3, <2>4, <2>5
  <1>3. backReserved' \in [BackVariants -> Nat] /\ backClamped' \in BOOLEAN
    <2>1. backClamped' \in BOOLEAN
      BY <1>0, BackActs
    <2>2. QED
      BY <1>0, <1>2, <2>1
  <1>4. BackSums'
    BY <1>2 DEF BackSums
  <1>5. QED
    BY <1>0, <1>1, <1>2, <1>3, <1>4, BackActs, BackOrderKeeps

LEMMA BackIssueKeeps ==
    ASSUME BackIInv, NEW o \in BackOrders, BackIssue(o)
    PROVE  BackIInv'
  <1>0. /\ BackHasAll(o) /\ BackTo(o, "idle") /\ BackUnlock(o) /\ backOrder[o] = "active"
        /\ UNCHANGED <<backLines, backClamped, backMode>> /\ o \notin BackRuns
    BY BackNames DEF BackIssue, BackIInv, BackOrderFine, BackAt
  <1>1. CASE UNCHANGED <<backQuantity, backReserved, backShelf, backOrder>>
    <2>1. BackSums'
      BY <1>0, <1>1, BackDemandSame DEF BackIInv, BackSums
    <2>2. QED
      BY <1>0, <1>1, <2>1, BackActs, BackOrderKeeps
  <1>2. CASE /\ \A v \in BackNeeds(o) : /\ backLines[o][v] <= backQuantity[v]
                                        /\ backLines[o][v] <= backReserved[v]
             /\ backQuantity' = [v \in BackVariants |-> backQuantity[v] - backLines[o][v]]
             /\ backReserved' = [v \in BackVariants |-> backReserved[v] - backLines[o][v]]
             /\ backShelf' = [v \in BackVariants |-> backShelf[v] - backLines[o][v]]
             /\ backOrder' = [backOrder EXCEPT ![o] = "final"]
    <2>1. /\ backOrder' \in [BackOrders -> BackStates]
          /\ \A p \in BackOrders \ {o} : backOrder'[p] = backOrder[p]
      BY <1>2, BackActs DEF BackStates
    <2>2. ASSUME NEW v \in BackVariants
          PROVE  /\ backReserved'[v] \in Nat /\ backReserved'[v] <= backQuantity'[v]
                 /\ backQuantity'[v] \in Nat /\ backShelf'[v] \in Nat
                 /\ backReserved'[v] <= BackDemanded(v)'
                 /\ backQuantity'[v] + BackDemanded(v)' <= backShelf'[v] + backReserved'[v]
                 /\ ~backClamped' =>
                      backQuantity'[v] + BackDemanded(v)' = backShelf'[v] + backReserved'[v]
      <3>1. /\ backLines[o][v] \in Nat /\ backReserved[v] \in Nat /\ backQuantity[v] \in Nat
            /\ backShelf[v] \in Nat /\ backReserved[v] <= backQuantity[v]
        BY BackActs
      <3>2. BackDemanded(v) = BackDemanded(v)' + backLines[o][v] /\ BackDemanded(v)' \in Nat
        <4>1. backOrder'[o] # "active"
          BY <1>2, BackActs
        <4>2. QED
          BY <1>0, <2>1, <4>1, BackDemandLess
      <3>3. /\ backReserved[v] <= BackDemanded(v)
            /\ backQuantity[v] + BackDemanded(v) <= backShelf[v] + backReserved[v]
            /\ ~backClamped =>
                 backQuantity[v] + BackDemanded(v) = backShelf[v] + backReserved[v]
        BY DEF BackIInv, BackSums
      <3>4. /\ backReserved'[v] = backReserved[v] - backLines[o][v]
            /\ backQuantity'[v] = backQuantity[v] - backLines[o][v]
            /\ backShelf'[v] = backShelf[v] - backLines[o][v]
        BY <1>2
      <3>5. backLines[o][v] <= backReserved[v]
        <4>1. CASE v \in BackNeeds(o)
          BY <1>2, <4>1
        <4>2. CASE v \notin BackNeeds(o)
          BY <1>0, <3>1, <4>2 DEF BackNeeds
        <4>3. QED
          BY <4>1, <4>2
      <3>6. QED
        BY <1>0, <3>1, <3>2, <3>3, <3>4, <3>5
    <2>3. /\ backReserved' \in [BackVariants -> Nat] /\ backQuantity' \in [BackVariants -> Nat]
          /\ backShelf' \in [BackVariants -> Nat]
      BY <1>2, <2>2
    <2>4. BackSums'
      BY <2>2 DEF BackSums
    <2>5. QED
      BY <1>0, <2>1, <2>2, <2>3, <2>4, BackActs, BackOrderKeeps
  <1>3. QED
    BY <1>1, <1>2 DEF BackIssue

(* The run adds what is missing to the demand it read, which holds still.  *)
LEMMA BackApplies ==
    ASSUME BackIInv, NEW c \in BackRuns, BackApply(c), NEW v \in BackVariants
    PROVE  /\ BackDemanded(v) \in Nat /\ BackDemanded(v)' = BackDemanded(v)
           /\ backReserved'[v] = BackDemanded(v)
           /\ backQuantity'[v] = backQuantity[v] + (BackDemanded(v) - backReserved[v])
           /\ backReserved[v] <= BackDemanded(v)
           /\ backReserved[v] \in Nat /\ backQuantity[v] \in Nat /\ backShelf[v] \in Nat
           /\ backReserved[v] <= backQuantity[v]
  <1>1. /\ backActor[c].demand[v] = BackDemanded(v)
    BY DEF BackApply, BackIInv, BackRunFine
  <1>2. /\ backReserved[v] <= BackDemanded(v) /\ BackDemanded(v) \in Nat
        /\ backReserved[v] \in Nat /\ backQuantity[v] \in Nat /\ backShelf[v] \in Nat
        /\ backReserved[v] <= backQuantity[v]
    BY BackActs, BackDemandNat DEF BackIInv, BackSums
  <1>3. BackMissing(c, v) = BackDemanded(v) - backReserved[v]
    BY <1>1, <1>2 DEF BackMissing
  <1>4. /\ backReserved'[v] = backReserved[v] + BackMissing(c, v)
        /\ backQuantity'[v] = backQuantity[v] + BackMissing(c, v)
    BY DEF BackApply
  <1>5. BackDemanded(v)' = BackDemanded(v)
    BY BackDemandSame DEF BackApply
  <1>6. QED
    BY <1>2, <1>3, <1>4, <1>5

LEMMA BackApplyKeeps ==
    ASSUME BackIInv, NEW c \in BackRuns, BackApply(c)
    PROVE  BackIInv'
  <1>0. /\ BackTo(c, "applied") /\ BackUnlock(c) /\ c \in BackActors /\ "applied" \in BackSteps
        /\ UNCHANGED <<backLines, backOrder, backShelf, backClamped, backMode>>
        /\ c \notin BackOrders
    BY BackNames DEF BackApply, BackSteps
  <1>1. /\ backActor' \in [BackActors -> BackActor] /\ backActor'[c].step = "applied"
        /\ \A b \in BackActors \ {c} : backActor'[b] = backActor[b]
    BY <1>0, BackGoes
  <1>2. ASSUME NEW v \in BackVariants
        PROVE  /\ backReserved'[v] \in Nat /\ backQuantity'[v] \in Nat
               /\ backReserved'[v] <= backQuantity'[v]
               /\ backReserved'[v] <= BackDemanded(v)'
               /\ backQuantity'[v] + BackDemanded(v)' <= backShelf'[v] + backReserved'[v]
               /\ ~backClamped' =>
                    backQuantity'[v] + BackDemanded(v)' = backShelf'[v] + backReserved'[v]
    <2>1. /\ backQuantity[v] + BackDemanded(v) <= backShelf[v] + backReserved[v]
          /\ ~backClamped =>
               backQuantity[v] + BackDemanded(v) = backShelf[v] + backReserved[v]
      BY DEF BackIInv, BackSums
    <2>2. QED
      BY <1>0, <2>1, BackApplies
  <1>3. backReserved' \in [BackVariants -> Nat] /\ backQuantity' \in [BackVariants -> Nat]
    BY <1>2 DEF BackApply
  <1>4. BackTypeOK'
    BY <1>0, <1>1, <1>2, <1>3, BackUnlocked, BackActs DEF BackTypeOK, BackStates
  <1>5. BackSums'
    BY <1>2 DEF BackSums
  <1>6. ASSUME NEW d \in BackRuns  PROVE BackRunFine(d)'
    <2>1. CASE d = c
      BY <1>1, <2>1 DEF BackRunFine, BackAt
    <2>2. CASE d # c
      <3>1. \A v \in BackVariants : backRow[v] = c
        BY DEF BackApply, BackIInv, BackRunFine
      <3>2. d \in BackActors /\ (BackAt(d, "apply") => BackVariants = {})
        BY <3>1, <2>2, <1>6, BackNames DEF BackIInv, BackRunFine
      <3>3. QED
        BY <1>1, <2>2, <3>2 DEF BackRunFine, BackAt
    <2>3. QED
      BY <2>1, <2>2
  <1>7. ASSUME NEW o \in BackOrders  PROVE BackOrderFine(o)'
    BY <1>0, <1>1, <1>7, BackNames DEF BackIInv, BackOrderFine, BackAt
  <1>8. QED
    BY <1>0, <1>4, <1>5, <1>6, <1>7 DEF BackIInv

LEMMA BackInitHolds == BackInit => BackIInv
  <1> SUFFICES ASSUME BackInit  PROVE BackIInv
    OBVIOUS
  <1>1. PICK old \in SUBSET BackOrders, shelf \in [BackVariants -> 0..(2 * BackLineMax)] :
          LET Old(v) == Cardinality({u \in old \X (1..BackLineMax) : u[2] <= backLines[u[1]][v]}) IN
          /\ backLines \in [BackOrders -> [BackVariants -> 0..BackLineMax]]
          /\ \A o \in BackOrders : \E v \in BackVariants : backLines[o][v] > 0
          /\ \A v \in BackVariants : Old(v) <= shelf[v]
          /\ backOrder = [o \in BackOrders |-> IF o \in old THEN "active" ELSE "none"]
          /\ backQuantity = [v \in BackVariants |-> shelf[v] - Old(v)]
          /\ backReserved = [v \in BackVariants |-> 0]
          /\ backMode \in BOOLEAN
          /\ backRow = [v \in BackVariants |-> "nobody"]
          /\ backActor = [a \in BackActors |-> BackIdle]
          /\ backShelf = shelf /\ backClamped = FALSE
    BY DEF BackInit
  <1> DEFINE Old(v) == Cardinality({u \in old \X (1..BackLineMax) : u[2] <= backLines[u[1]][v]})
  <1>2. ASSUME NEW v \in BackVariants
        PROVE  /\ BackDemanded(v) = Old(v) /\ Old(v) \in Nat /\ Old(v) <= shelf[v]
               /\ shelf[v] \in Nat
    <2> DEFINE S == {u \in old \X (1..BackLineMax) : u[2] <= backLines[u[1]][v]}
               T == {u \in BackOrders \X (1..BackLineMax) :
                       backOrder[u[1]] = "active" /\ u[2] <= backLines[u[1]][v]}
               All == BackOrders \X (1..BackLineMax)
    <2>1. \A o \in BackOrders : backOrder[o] = "active" <=> o \in old
      BY <1>1
    <2>2. S = T
      BY <2>1
    <2>3. IsFiniteSet(All)
      <3>1. IsFiniteSet(1..BackLineMax)
        BY BackNames, FS_Interval
      <3>2. QED
        BY <3>1, BackNames, FS_Product
    <2>4. Cardinality(T) \in Nat
      <3>1. T \in SUBSET All
        OBVIOUS
      <3> HIDE DEF T, All
      <3>2. QED
        BY <2>3, <3>1, FS_Subset, FS_CardinalityType
    <2>5. BackDemanded(v) = Cardinality(T) /\ Old(v) = Cardinality(S)
      BY DEF BackDemanded
    <2>6. Old(v) <= shelf[v]
      BY <1>1
    <2>7. shelf[v] \in Nat
      <3>1. shelf[v] \in 0..(2 * BackLineMax)
        BY <1>1
      <3>2. QED
        BY <3>1, BackNames
    <2> HIDE DEF S, T, Old
    <2>8. QED
      BY <2>2, <2>4, <2>5, <2>6, <2>7
  <1>3. \A v \in BackVariants : backQuantity[v] = shelf[v] - Old(v) /\ backReserved[v] = 0
                                /\ backShelf[v] = shelf[v]
    BY <1>1
  <1>4. /\ backQuantity = [v \in BackVariants |-> shelf[v] - Old(v)]
        /\ backReserved = [v \in BackVariants |-> 0] /\ backShelf = shelf
        /\ backShelf \in [BackVariants -> 0..(2 * BackLineMax)]
        /\ backRow = [v \in BackVariants |-> "nobody"]
        /\ backActor = [a \in BackActors |-> BackIdle]
        /\ backMode \in BOOLEAN /\ backClamped = FALSE
        /\ backLines \in [BackOrders -> [BackVariants -> 0..BackLineMax]]
        /\ backOrder \in [BackOrders -> {"none", "active", "final"}]
    BY <1>1
  <1> HIDE DEF Old
  <1>5. /\ backQuantity \in [BackVariants -> Nat] /\ backReserved \in [BackVariants -> Nat]
        /\ \A v \in BackVariants : backReserved[v] <= backQuantity[v]
    <2>1. \A v \in BackVariants : shelf[v] - Old(v) \in Nat
      BY <1>2
    <2>2. QED
      BY <1>3, <1>4, <2>1
  <1>6. backShelf \in [BackVariants -> Nat]
    BY <1>2, <1>4
  <1>7. BackIdle \in BackActor /\ BackIdle.step = "idle"
    BY DEF BackIdle, BackActor, BackSteps
  <1>8. BackTypeOK
    BY <1>4, <1>5, <1>6, <1>7 DEF BackTypeOK
  <1>9. BackSums
    <2>1. ASSUME NEW v \in BackVariants
          PROVE  /\ backReserved[v] <= BackDemanded(v)
                 /\ backQuantity[v] + BackDemanded(v) <= backShelf[v] + backReserved[v]
                 /\ ~backClamped =>
                      backQuantity[v] + BackDemanded(v) = backShelf[v] + backReserved[v]
      BY <1>2, <1>3
    <2>2. QED
      BY <2>1 DEF BackSums
  <1>10. \A a \in BackActors : backActor[a].step = "idle"
    BY <1>4, <1>7
  <1>11. /\ \A c \in BackRuns : BackRunFine(c)
         /\ \A o \in BackOrders : BackOrderFine(o)
    BY <1>10, BackNames DEF BackRunFine, BackOrderFine, BackAt
  <1>12. \A o \in BackOrders : \E v \in BackVariants : backLines[o][v] > 0
    BY <1>1
  <1>13. QED
    BY <1>8, <1>9, <1>11, <1>12 DEF BackIInv

LEMMA BackStepKeeps == BackIInv /\ [BackNext]_backVars => BackIInv'
  <1> SUFFICES ASSUME BackIInv, [BackNext]_backVars  PROVE BackIInv'
    OBVIOUS
  <1>1. CASE UNCHANGED backVars
    <2>1. BackTypeOK' /\ BackSums'
      BY <1>1, BackDemandSame DEF backVars, backStock, BackIInv, BackTypeOK, BackSums
    <2>2. \A c \in BackRuns : BackRunFine(c)'
      BY <1>1, BackDemandSame DEF backVars, backStock, BackIInv, BackRunFine, BackAt
    <2>3. QED
      BY <1>1, <2>1, <2>2 DEF backVars, BackIInv, BackOrderFine, BackAt
  <1>2. QED
    BY <1>1, BackAskKeeps, BackCheckoutKeeps, BackCancelKeeps, BackIssueKeeps, BackStartKeeps,
       BackReadKeeps, BackApplyKeeps, BackRollBackKeeps, BackLockKeeps DEF BackNext

(* No variant has more reserved than its orders need, what the books hold  *)
(* beyond that is really there, and a run that has read the demand still   *)
(* knows it - the invariant the result about the backfill rests on.        *)
THEOREM BackfillInvariant == BackSpec => []BackIInv
  BY BackInitHolds, BackStepKeeps, PTL DEF BackSpec

(* Orders, rows and counters keep their types, and no variant has more     *)
(* units reserved than it has.                                             *)
THEOREM BackfillTypes == BackSpec => []BackTypeOK
  <1>1. BackIInv => BackTypeOK
    BY DEF BackIInv
  <1>2. QED
    BY <1>1, BackfillInvariant, PTL

(* A run that commits leaves every variant with exactly the reservation    *)
(* its active orders need, and with no more units than are really there -  *)
(* for any number of orders, variants and runs.                            *)
THEOREM BackfillIsExact == BackSpec => BackfillMakesExact
  <1>1. ASSUME BackIInv, BackNext, NEW c \in BackRuns, BackAt(c, "apply"), BackAt(c, "applied")',
               NEW v \in BackVariants
        PROVE  /\ backReserved'[v] = BackDemanded(v)'
               /\ backQuantity'[v] <= backShelf'[v]
               /\ ~backClamped => backQuantity'[v] = backShelf'[v]
    <2>1. ASSUME NEW a \in BackActors \ {c}, NEW rec, backActor' = [backActor EXCEPT ![a] = rec]
          PROVE  FALSE
      BY <1>1, <2>1, BackActs, BackNames DEF BackAt
    <2>2. \A o \in BackOrders : o \in BackActors \ {c}
      BY BackNames
    <2>3. ASSUME NEW o \in BackOrders, NEW step, BackTo(o, step)  PROVE FALSE
      BY <2>1, <2>2, <2>3 DEF BackTo
    <2>4. ASSUME NEW a \in BackActors, BackLock(a)  PROVE FALSE
      BY <1>1, <2>4 DEF BackLock, BackAt
    <2>5. PICK d \in BackRuns : BackStart(d) \/ BackRead(d) \/ BackApply(d) \/ BackRollBack(d)
      BY <1>1, <2>3, <2>4 DEF BackNext, BackAsk, BackCheckout, BackCancel, BackIssue
    <2>6. d = c
      <3>1. \E rec : backActor' = [backActor EXCEPT ![d] = rec]
        BY <2>5 DEF BackStart, BackRead, BackApply, BackRollBack, BackTo
      <3>2. QED
        BY <2>1, <3>1, BackNames
    <2>7. ~BackRollBack(c)
      BY <1>1, BackGoes, BackNames DEF BackRollBack, BackAt, BackSteps
    <2>8. BackApply(c)
      BY <1>1, <2>5, <2>6, <2>7 DEF BackStart, BackRead, BackMayRead, BackAt
    <2>9. /\ backQuantity[v] + BackDemanded(v) <= backShelf[v] + backReserved[v]
          /\ ~backClamped =>
               backQuantity[v] + BackDemanded(v) = backShelf[v] + backReserved[v]
      BY <1>1 DEF BackIInv, BackSums
    <2>10. backShelf'[v] = backShelf[v]
      BY <2>8 DEF BackApply
    <2>11. /\ BackDemanded(v) \in Nat /\ BackDemanded(v)' = BackDemanded(v)
           /\ backReserved'[v] = BackDemanded(v)
           /\ backQuantity'[v] = backQuantity[v] + (BackDemanded(v) - backReserved[v])
           /\ backReserved[v] \in Nat /\ backQuantity[v] \in Nat /\ backShelf[v] \in Nat
      BY <1>1, <2>8, BackApplies
    <2>12. QED
      BY <2>9, <2>10, <2>11
  <1>2. BackIInv /\ [BackNext]_backVars =>
          [\A c \in BackRuns :
             BackAt(c, "apply") /\ BackAt(c, "applied")' =>
               \A v \in BackVariants :
                 /\ backReserved'[v] = BackDemanded(v)'
                 /\ backQuantity'[v] <= backShelf'[v]
                 /\ ~backClamped => backQuantity'[v] = backShelf'[v]]_backVars
    BY <1>1
  <1>3. QED
    BY <1>2, BackfillInvariant, PTL DEF BackSpec, BackfillMakesExact

-----------------------------------------------------------------------------
(* The sweep and its calendar.                                             *)

(* The working days among the k days after day d.                          *)
PickSpan(d, k) == {x \in (d + 1)..(d + k) : PickWorkday(x)}
PickWorkdays(d, k) == Cardinality(PickSpan(d, k))

LEMMA PickClock ==
    ASSUME NEW t \in Nat, NEW k \in Nat
    PROVE  /\ PickDayParts \in Nat \ {0} /\ t + k * PickDayParts \in Nat
           /\ PickDay(t) \in Nat
           /\ PickDay(t) * PickDayParts <= t /\ t < (PickDay(t) + 1) * PickDayParts
           /\ PickDay(t + k * PickDayParts) = PickDay(t) + k
  BY PickAssumption DEF PickAssumption, PickDay

(* No three days in a row are free.                                        *)
LEMMA PickHop ==
    ASSUME NEW t \in Nat
    PROVE  \E k \in 1..3 : /\ PickWorkday(PickDay(t) + k)
                           /\ \A j \in 1..(k - 1) : ~PickWorkday(PickDay(t) + j)
                           /\ PickNextWorkday(t) = t + k * PickDayParts
  <1> DEFINE d == PickDay(t)
             Turns(k) == PickWorkday(d + k) /\ \A j \in 1..(k - 1) : ~PickWorkday(d + j)
  <1>1. d \in Nat
    BY PickClock, 0 \in Nat
  <1>2. \E k \in 1..3 : Turns(k)
    <2> HIDE DEF d
    <2>1. PickWorkday(d + 1) \/ PickWorkday(d + 2) \/ PickWorkday(d + 3)
      BY <1>1 DEF PickWorkday
    <2>2. CASE PickWorkday(d + 1)
      BY <1>1, <2>2
    <2>3. CASE ~PickWorkday(d + 1) /\ PickWorkday(d + 2)
      <3>1. Turns(2)
        BY <1>1, <2>3
      <3>2. QED
        BY <3>1
    <2>4. CASE ~PickWorkday(d + 1) /\ ~PickWorkday(d + 2) /\ PickWorkday(d + 3)
      <3>1. Turns(3)
        BY <1>1, <2>4
      <3>2. QED
        BY <3>1
    <2>5. QED
      BY <2>1, <2>2, <2>3, <2>4
  <1>3. PickNextWorkday(t) = t + (CHOOSE k \in 1..3 : Turns(k)) * PickDayParts
    BY DEF PickNextWorkday
  <1> HIDE DEF Turns
  <1>4. (CHOOSE k \in 1..3 : Turns(k)) \in 1..3 /\ Turns(CHOOSE k \in 1..3 : Turns(k))
    BY <1>2
  <1>5. QED
    BY <1>3, <1>4 DEF Turns

LEMMA PickSpanFinite ==
    ASSUME NEW d \in Nat, NEW k \in Nat
    PROVE  /\ IsFiniteSet(PickSpan(d, k)) /\ PickWorkdays(d, k) \in Nat
           /\ PickWorkdays(d, k) <= k
  <1>1. /\ IsFiniteSet((d + 1)..(d + k))
        /\ Cardinality((d + 1)..(d + k)) = IF d + 1 > d + k THEN 0 ELSE (d + k) - (d + 1) + 1
    BY d + 1 \in Int, d + k \in Int, FS_Interval
  <1>2. Cardinality((d + 1)..(d + k)) = k
    BY <1>1
  <1>3. PickSpan(d, k) \in SUBSET ((d + 1)..(d + k))
    BY DEF PickSpan
  <1>4. /\ IsFiniteSet(PickSpan(d, k))
        /\ Cardinality(PickSpan(d, k)) <= Cardinality((d + 1)..(d + k))
    BY <1>1, <1>3, FS_Subset
  <1>5. QED
    BY <1>2, <1>4, FS_CardinalityType DEF PickWorkdays

LEMMA PickSpanGrows ==
    ASSUME NEW d \in Nat, NEW e \in Nat, NEW k \in Nat, NEW m \in Nat, e <= d, d + k <= e + m
    PROVE  PickWorkdays(d, k) <= PickWorkdays(e, m)
  <1>1. PickSpan(d, k) \in SUBSET PickSpan(e, m)
    BY DEF PickSpan
  <1>2. QED
    BY <1>1, PickSpanFinite, FS_Subset DEF PickWorkdays

(* Free days add nothing, the working day after them one.                  *)
LEMMA PickSpanStep ==
    ASSUME NEW d \in Nat, NEW k \in Nat, NEW h \in Nat, 0 < h, PickWorkday(d + k + h),
           \A j \in 1..(h - 1) : ~PickWorkday(d + k + j)
    PROVE  /\ \A j \in 0..(h - 1) : PickWorkdays(d, k + j) = PickWorkdays(d, k)
           /\ PickWorkdays(d, k + h) = PickWorkdays(d, k) + 1
  <1>1. ASSUME NEW j \in 0..(h - 1)  PROVE PickSpan(d, k + j) = PickSpan(d, k)
    <2>1. ASSUME NEW x \in PickSpan(d, k + j)  PROVE x \in PickSpan(d, k)
      <3>1. x \in Int /\ d + 1 <= x /\ x <= d + (k + j) /\ PickWorkday(x)
        BY <1>1, <2>1 DEF PickSpan
      <3>2. ~(x > d + k)
        <4>1. SUFFICES ASSUME x > d + k  PROVE FALSE
          OBVIOUS
        <4>2. x - (d + k) \in 1..(h - 1) /\ d + k + (x - (d + k)) = x
          BY <1>1, <3>1, <4>1
        <4>3. QED
          BY <3>1, <4>2
      <3>3. QED
        BY <3>1, <3>2 DEF PickSpan
    <2>2. PickSpan(d, k) \subseteq PickSpan(d, k + j)
      BY <1>1 DEF PickSpan
    <2>3. QED
      BY <2>1, <2>2
  <1>2. PickSpan(d, k + h) = PickSpan(d, k + (h - 1)) \cup {d + k + h}
    BY DEF PickSpan
  <1>3. PickSpan(d, k + (h - 1)) = PickSpan(d, k)
    BY <1>1
  <1>4. d + k + h \notin PickSpan(d, k)
    BY DEF PickSpan
  <1>5. PickWorkdays(d, k + h) = PickWorkdays(d, k) + 1
    BY <1>2, <1>3, <1>4, PickSpanFinite, FS_AddElement DEF PickWorkdays
  <1>6. QED
    BY <1>1, <1>5 DEF PickWorkdays

(* The deadline after i working days lies k days on: the first day that    *)
(* completes them.                                                         *)
PickReached(t, i, k) ==
    /\ PickWorkdays(PickDay(t), k) = i
    /\ \A j \in 0..(k - 1) : PickWorkdays(PickDay(t), j) < i

PickLoop(t, n, f) == f = [i \in 0..n |-> IF i = 0 THEN t ELSE PickNextWorkday(f[i - 1])]

(* The loop of add_business_days ends...                                   *)
LEMMA PickLoopEnds ==
    ASSUME NEW t \in Nat, NEW n \in Nat
    PROVE  \E f : PickLoop(t, n, f)
  <1> DEFINE Bad == {i \in Nat : ~\E f : PickLoop(t, i, f)}
  <1>1. SUFFICES ASSUME Bad # {}  PROVE FALSE
    OBVIOUS
  <1>2. PICK i \in Bad : \A m \in Bad : i <= m
    <2> HIDE DEF Bad
    <2>1. Bad \in SUBSET Nat
      BY DEF Bad
    <2>2. QED
      BY <1>1, <2>1, NatLeast
  <1>3. i # 0
    <2>1. PickLoop(t, 0, [m \in 0..0 |-> t])
      BY DEF PickLoop
    <2>2. QED
      BY <2>1
  <1>4. i - 1 \in Nat /\ i - 1 \notin Bad
    BY <1>2, <1>3
  <1>5. PICK g : PickLoop(t, i - 1, g)
    BY <1>4
  <1> DEFINE f == [m \in 0..i |-> IF m = i THEN PickNextWorkday(g[i - 1]) ELSE g[m]]
  <1>6. ASSUME NEW m \in 0..i
        PROVE  f[m] = IF m = 0 THEN t ELSE PickNextWorkday(f[m - 1])
    BY <1>3, <1>4, <1>5, <1>6 DEF PickLoop
  <1>7. PickLoop(t, i, f)
    BY <1>6 DEF PickLoop
  <1>8. QED
    BY <1>7

(* ...with each turn on the next working day.                              *)
LEMMA PickLoopCounts ==
    ASSUME NEW t \in Nat, NEW n \in Nat, NEW f, PickLoop(t, n, f), NEW i \in 0..n
    PROVE  \E k \in Nat : f[i] = t + k * PickDayParts /\ PickReached(t, i, k)
  <1> DEFINE Good(m) == \E k \in Nat : f[m] = t + k * PickDayParts /\ PickReached(t, m, k)
             Bad == {m \in Nat : m <= n /\ ~Good(m)}
  <1>1. SUFFICES ASSUME Bad # {}  PROVE FALSE
    OBVIOUS
  <1>2. PICK b \in Bad : \A m \in Bad : b <= m
    <2>1. Bad \in SUBSET Nat
      OBVIOUS
    <2> HIDE DEF Bad
    <2>2. QED
      BY <1>1, <2>1, NatLeast
  <1>3. b # 0
    <2>1. f[0] = t + 0 * PickDayParts
      BY PickClock, 0 \in Nat DEF PickLoop
    <2>2. PickWorkdays(PickDay(t), 0) = 0
      <3>1. PickDay(t) \in Nat
        BY PickClock, 0 \in Nat
      <3>2. PickWorkdays(PickDay(t), 0) \in Nat /\ PickWorkdays(PickDay(t), 0) <= 0
        BY <3>1, PickSpanFinite, 0 \in Nat
      <3>3. QED
        BY <3>2
    <2>3. PickReached(t, 0, 0)
      BY <2>2 DEF PickReached
    <2>4. Good(0)
      BY <2>1, <2>3
    <2> HIDE DEF Good
    <2>5. QED
      BY <2>4
  <1>4. b - 1 \in Nat /\ b \in 0..n /\ Good(b - 1)
    <2> HIDE DEF Good
    <2>1. QED
      BY <1>2, <1>3
  <1>5. PICK k \in Nat : f[b - 1] = t + k * PickDayParts /\ PickReached(t, b - 1, k)
    BY <1>4
  <1> DEFINE s == t + k * PickDayParts
             d == PickDay(t)
  <1>6. s \in Nat /\ d \in Nat /\ PickDay(s) = d + k
    BY PickClock
  <1>7. PICK h \in 1..3 : /\ PickWorkday(PickDay(s) + h)
                          /\ \A j \in 1..(h - 1) : ~PickWorkday(PickDay(s) + j)
                          /\ PickNextWorkday(s) = s + h * PickDayParts
    BY <1>6, PickHop
  <1>8. f[b] = t + (k + h) * PickDayParts
    <2>1. f[b] = PickNextWorkday(f[b - 1])
      BY <1>3, <1>4 DEF PickLoop
    <2>2. QED
      BY <1>5, <1>7, <2>1, PickClock
  <1>9. /\ \A j \in 0..(h - 1) : PickWorkdays(d, k + j) = PickWorkdays(d, k)
        /\ PickWorkdays(d, k + h) = PickWorkdays(d, k) + 1
    <2> HIDE DEF s, d
    <2>1. h \in Nat /\ 0 < h /\ PickWorkday(d + k + h)
          /\ \A j \in 1..(h - 1) : ~PickWorkday(d + k + j)
      BY <1>6, <1>7
    <2>2. QED
      BY <1>6, <2>1, PickSpanStep
  <1>10. PickReached(t, b, k + h)
    <2>1. PickWorkdays(d, k) = b - 1 /\ \A j \in 0..(k - 1) : PickWorkdays(d, j) < b - 1
      BY <1>5 DEF PickReached
    <2>2. ASSUME NEW j \in 0..(k + h - 1)  PROVE PickWorkdays(d, j) < b
      <3>1. CASE j < k
        <4>1. j \in 0..(k - 1) /\ j \in Nat
          BY <2>2, <3>1
        <4>2. PickWorkdays(d, j) \in Nat
          BY <1>6, <4>1, PickSpanFinite
        <4>3. QED
          BY <1>4, <2>1, <4>1, <4>2
      <3>2. CASE j >= k
        <4>1. j - k \in 0..(h - 1) /\ k + (j - k) = j
          BY <2>2, <3>2
        <4>2. PickWorkdays(d, j) = PickWorkdays(d, k)
          BY <1>9, <4>1
        <4>3. QED
          BY <1>4, <2>1, <4>2
      <3>3. QED
        BY <2>2, <3>1, <3>2
    <2>3. PickWorkdays(d, k + h) = b
      BY <1>4, <1>9, <2>1
    <2> HIDE DEF s
    <2>4. QED
      BY <2>2, <2>3 DEF PickReached
  <1>11. k + h \in Nat
    OBVIOUS
  <1>12. QED
    BY <1>8, <1>10, <1>11

LEMMA PickDeadlineReached ==
    ASSUME NEW t \in Nat, NEW n \in Nat, n > 0
    PROVE  \E k \in Nat : /\ PickAddBusinessDays(t, n) = t + k * PickDayParts
                          /\ PickReached(t, n, k)
  <1> DEFINE F == CHOOSE f : f = [i \in 0..n |-> IF i = 0 THEN t ELSE PickNextWorkday(f[i - 1])]
  <1>1. PickLoop(t, n, F)
    BY PickLoopEnds DEF PickLoop
  <1>2. PickAddBusinessDays(t, n) = F[n]
    BY DEF PickAddBusinessDays
  <1>3. QED
    <2> HIDE DEF F
    <2>1. QED
      BY <1>1, <1>2, PickLoopCounts

-----------------------------------------------------------------------------
(* An order that is placed started in the past.                            *)
PickIInv == PickTypeOK /\ \A o \in PickOrders : pickStart[o] <= pickNow

LEMMA PickInitHolds == PickInit => PickIInv
  BY DEF PickInit, PickIInv, PickTypeOK

LEMMA PickStepKeeps == PickIInv /\ [PickNext]_pickVars => PickIInv'
  <1> SUFFICES ASSUME PickIInv, [PickNext]_pickVars  PROVE PickIInv'
    OBVIOUS
  <1>1. ASSUME NEW o \in PickOrders, PickPlace(o)  PROVE PickIInv'
    BY <1>1 DEF PickPlace, PickIInv, PickTypeOK
  <1>2. CASE PickTimePasses
    BY <1>2 DEF PickTimePasses, PickIInv, PickTypeOK
  <1>3. ASSUME NEW o \in PickOrders, PickSettled(o)  PROVE PickIInv'
    BY <1>3 DEF PickSettled, PickIInv, PickTypeOK
  <1>4. CASE PickSweep
    BY <1>4 DEF PickSweep, PickIInv, PickTypeOK
  <1>5. CASE UNCHANGED pickVars
    BY <1>5 DEF pickVars, PickIInv, PickTypeOK
  <1>6. QED
    BY <1>1, <1>2, <1>3, <1>4, <1>5 DEF PickNext

LEMMA PickActs ==
    ASSUME PickIInv, NEW o \in pickOpen
    PROVE  /\ o \in PickOrders /\ pickStart[o] \in Nat /\ pickNow \in Nat /\ pickRetention \in Int
           /\ pickStart[o] <= pickNow
  BY PickAssumption DEF PickAssumption, PickIInv, PickTypeOK

(* The days that have come round since the order's start.                  *)
LEMMA PickWhole ==
    ASSUME NEW s \in Nat, NEW now \in Nat, s <= now
    PROVE  LET whole == (now - s) \div PickDayParts IN
           /\ whole \in Nat /\ PickDay(s) \in Nat /\ PickDay(now) \in Nat
           /\ PickDay(s) + whole <= PickDay(now)
           /\ \A k \in Nat : now >= s + k * PickDayParts <=> k <= whole
  <1> DEFINE whole == (now - s) \div PickDayParts
  <1>1. PickDayParts \in Nat \ {0}
    BY PickAssumption DEF PickAssumption
  <1>2. now - s \in Nat
    OBVIOUS
  <1>3. whole \in Nat /\ whole * PickDayParts <= now - s /\ now - s < (whole + 1) * PickDayParts
    BY <1>1, <1>2, PickClock, 0 \in Nat DEF PickDay
  <1>4. /\ PickDay(s) \in Nat /\ PickDay(s) * PickDayParts <= s
        /\ PickDay(now) \in Nat /\ now < (PickDay(now) + 1) * PickDayParts
    BY PickClock, 0 \in Nat
  <1> HIDE DEF whole
  <1>5. PickDay(s) + whole <= PickDay(now)
    <2>1. (PickDay(s) + whole) * PickDayParts <= now
      BY <1>1, <1>3, <1>4
    <2>2. (PickDay(s) + whole) * PickDayParts < (PickDay(now) + 1) * PickDayParts
      BY <1>1, <1>3, <1>4, <2>1
    <2>3. QED
      BY <1>1, <1>3, <1>4, <2>2
  <1>6. ASSUME NEW k \in Nat  PROVE now >= s + k * PickDayParts <=> k <= whole
    <2>1. CASE k <= whole
      <3>1. k * PickDayParts <= whole * PickDayParts
        BY <1>1, <1>3, <2>1
      <3>2. QED
        BY <1>1, <1>3, <2>1, <3>1
    <2>2. CASE k > whole
      <3>1. k * PickDayParts >= (whole + 1) * PickDayParts
        BY <1>1, <1>3, <2>2
      <3>2. QED
        BY <1>1, <1>3, <2>2, <3>1
    <2>3. QED
      BY <1>3, <2>1, <2>2
  <1>7. QED
    BY <1>3, <1>4, <1>5, <1>6 DEF whole

PickAge(o) == (pickNow - pickStart[o]) \div PickDayParts

(* The loop and the count of working days agree.                           *)
LEMMA PickExpiresExactly ==
    ASSUME PickIInv, NEW o \in pickOpen
    PROVE  /\ PickAge(o) \in Nat
           /\ PickHadItsDays(o) <=> PickWorkdays(PickDay(pickStart[o]), PickAge(o)) >= pickRetention
           /\ PickExpired(o) <=> PickHadItsDays(o)
  <1> DEFINE s == pickStart[o]
             d == PickDay(s)
             whole == PickAge(o)
             n == pickRetention
  <1>1. s \in Nat /\ pickNow \in Nat /\ n \in Int /\ s <= pickNow
    BY PickActs
  <1>2. /\ whole \in Nat /\ d \in Nat
        /\ \A k \in Nat : pickNow >= s + k * PickDayParts <=> k <= whole
    BY <1>1, PickWhole DEF PickAge
  <1>3. PickHadItsDays(o) <=> PickWorkdays(d, whole) >= n
    <2>1. PickDay(s) + 1 + whole - 1 = d + whole
      BY <1>2
    <2>2. QED
      BY <2>1 DEF PickHadItsDays, PickWorkdays, PickSpan, PickAge
  <1>4. PickWorkdays(d, whole) \in Nat
    BY <1>2, PickSpanFinite
  <1>5. CASE n <= 0
    <2>1. PickExpired(o)
      BY <1>1, <1>5 DEF PickExpired, PickDeadline, PickAddBusinessDays
    <2>2. PickWorkdays(d, whole) >= n
      BY <1>1, <1>4, <1>5
    <2>3. QED
      BY <1>2, <1>3, <2>1, <2>2
  <1>6. CASE n > 0
    <2>1. n \in Nat
      BY <1>1, <1>6
    <2>2. PICK k \in Nat : PickAddBusinessDays(s, n) = s + k * PickDayParts /\ PickReached(s, n, k)
      BY <1>1, <1>6, <2>1, PickDeadlineReached
    <2>3. PickExpired(o) <=> k <= whole
      BY <1>2, <2>2 DEF PickExpired, PickDeadline
    <2>4. PickWorkdays(d, k) = n /\ \A j \in 0..(k - 1) : PickWorkdays(d, j) < n
      BY <2>2 DEF PickReached
    <2> HIDE DEF d, whole, n, s
    <2>5. k <= whole => PickWorkdays(d, whole) >= n
      <3>1. k <= whole => PickWorkdays(d, k) <= PickWorkdays(d, whole)
        BY <1>2, PickSpanGrows
      <3>2. QED
        BY <1>4, <2>1, <2>4, <3>1
    <2>6. ~(k <= whole) => PickWorkdays(d, whole) < n
      <3>1. ~(k <= whole) => whole \in 0..(k - 1)
        BY <1>2
      <3>2. QED
        BY <2>4, <3>1
    <2>7. PickExpired(o) <=> PickWorkdays(d, whole) >= n
      BY <1>4, <2>1, <2>3, <2>5, <2>6
    <2>8. QED
      BY <1>2, <1>3, <2>7 DEF d, whole, n, s
  <1>7. QED
    BY <1>1, <1>5, <1>6

(* The rough cutoff lets every expired order through.                      *)
LEMMA PickCutoffIsSafe ==
    ASSUME PickIInv, NEW o \in pickOpen, PickHadItsDays(o)
    PROVE  o \in PickRough
  <1> DEFINE days == IF pickRetention > 0 THEN pickRetention ELSE 0
  <1>1. /\ pickStart[o] \in Nat /\ pickNow \in Nat /\ pickRetention \in Int
        /\ pickStart[o] <= pickNow
    BY PickActs
  <1>2. /\ PickAge(o) \in Nat /\ PickDay(pickStart[o]) \in Nat
        /\ \A k \in Nat : pickNow >= pickStart[o] + k * PickDayParts <=> k <= PickAge(o)
    BY <1>1, PickWhole DEF PickAge
  <1>3. pickRetention <= PickAge(o)
    <2>1. PickWorkdays(PickDay(pickStart[o]), PickAge(o)) >= pickRetention
      BY PickExpiresExactly
    <2>2. /\ PickWorkdays(PickDay(pickStart[o]), PickAge(o)) \in Nat
          /\ PickWorkdays(PickDay(pickStart[o]), PickAge(o)) <= PickAge(o)
      BY <1>2, PickSpanFinite
    <2>3. QED
      BY <1>1, <1>2, <2>1, <2>2
  <1>4. days \in Nat /\ days <= PickAge(o)
    BY <1>1, <1>2, <1>3
  <1>5. pickNow >= pickStart[o] + days * PickDayParts
    BY <1>2, <1>4
  <1>6. PickDayParts \in Nat /\ days * PickDayParts \in Nat
    BY <1>4, PickAssumption DEF PickAssumption
  <1> HIDE DEF days
  <1>7. pickStart[o] <= pickNow - days * PickDayParts
    BY <1>1, <1>5, <1>6
  <1>8. QED
    BY <1>7 DEF PickRough, days

(* Whoever started before an order that has had its days falls due today.  *)
LEMMA PickOlderIsDue ==
    ASSUME PickIInv, NEW o \in pickOpen, PickHadItsDays(o), NEW p \in pickOpen, PickBefore(p, o)
    PROVE  PickDueToday(p)
  <1>1. /\ pickStart[o] \in Nat /\ pickNow \in Nat /\ pickStart[o] <= pickNow
        /\ pickStart[p] \in Nat /\ pickStart[p] <= pickStart[o] /\ pickRetention \in Int
    BY PickActs DEF PickBefore
  <1> DEFINE d == PickDay(pickStart[o])
             e == PickDay(pickStart[p])
             m == PickDay(pickNow) - e
  <1>2. /\ PickAge(o) \in Nat /\ d \in Nat /\ PickDay(pickNow) \in Nat
        /\ d + PickAge(o) <= PickDay(pickNow)
    BY <1>1, PickWhole DEF PickAge
  <1>3. e \in Nat /\ e <= d
    <2>1. e \in Nat /\ e + ((pickStart[o] - pickStart[p]) \div PickDayParts) <= d
          /\ (pickStart[o] - pickStart[p]) \div PickDayParts \in Nat
      BY <1>1, PickWhole
    <2>2. QED
      BY <1>2, <2>1
  <1>4. m \in Nat /\ e + m = PickDay(pickNow)
    BY <1>2, <1>3
  <1>5. PickWorkdays(d, PickAge(o)) >= pickRetention
    BY PickExpiresExactly
  <1>6. PickWorkdays(d, PickAge(o)) <= PickWorkdays(e, m)
    BY <1>2, <1>3, <1>4, PickSpanGrows
  <1>7. PickWorkdays(e, m) \in Nat /\ PickWorkdays(d, PickAge(o)) \in Nat
    BY <1>2, <1>3, <1>4, PickSpanFinite
  <1>8. PickDueToday(p) <=> PickWorkdays(e, m) >= pickRetention
    BY <1>4 DEF PickDueToday, PickWorkdays, PickSpan
  <1> HIDE DEF d, e, m
  <1>9. QED
    BY <1>1, <1>5, <1>6, <1>7, <1>8

LEMMA PickInvariantMeans == PickIInv => PickSweepIsExact
  <1> SUFFICES ASSUME PickIInv, NEW o \in pickOpen
               PROVE  /\ o \in PickCancelled => PickHadItsDays(o)
                      /\ PickHadItsDays(o) /\ o \notin PickCancelled =>
                           Cardinality({p \in pickOpen : PickBefore(p, o) /\ PickDueToday(p)})
                             >= PickBatch
    BY DEF PickSweepIsExact
  <1>1. o \in PickCancelled => PickHadItsDays(o)
    BY PickExpiresExactly DEF PickCancelled
  <1>2. ASSUME PickHadItsDays(o), o \notin PickCancelled
        PROVE  Cardinality({p \in pickOpen : PickBefore(p, o) /\ PickDueToday(p)}) >= PickBatch
    <2> DEFINE Older == {p \in PickRough : PickBefore(p, o)}
               Due == {p \in pickOpen : PickBefore(p, o) /\ PickDueToday(p)}
    <2>1. o \in PickRough /\ o \notin PickScanned
      BY <1>2, PickCutoffIsSafe, PickExpiresExactly DEF PickCancelled
    <2>2. ~(Cardinality(Older) < PickBatch)
      BY <2>1 DEF PickScanned
    <2>3. Older \in SUBSET Due
      BY <1>2, PickOlderIsDue DEF PickRough
    <2>4. IsFiniteSet(Due)
      <3>1. Due \in SUBSET PickOrders
        BY DEF PickIInv, PickTypeOK
      <3>2. QED
        BY <3>1, PickAssumption, FS_Subset DEF PickAssumption
    <2> HIDE DEF Older, Due
    <2>5. /\ IsFiniteSet(Older) /\ Cardinality(Older) <= Cardinality(Due)
          /\ Cardinality(Older) \in Nat /\ Cardinality(Due) \in Nat /\ PickBatch \in Nat
      BY <2>3, <2>4, FS_Subset, FS_CardinalityType, PickAssumption DEF PickAssumption
    <2>6. Cardinality(Due) >= PickBatch
      BY <2>2, <2>5
    <2>7. QED
      BY <2>6 DEF Due
  <1>3. QED
    BY <1>1, <1>2

(* Orders start before they are looked at - the invariant the result about *)
(* sweeps rests on.                                                        *)
THEOREM CalendarInvariant == PickSpec => []PickIInv
  BY PickInitHolds, PickStepKeeps, PTL DEF PickSpec

(* For any number of orders, any batch, any setting and any parts of a     *)
(* day, a sweep cancels no order that has not had its business days, and   *)
(* passes over one that has had them only for a batch of orders that all   *)
(* fall due today.                                                         *)
THEOREM SweepsAreExact == PickSpec => []PickSweepIsExact
  BY CalendarInvariant, PickInvariantMeans, PTL
===============================================================================
