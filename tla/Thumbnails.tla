------------------------------ MODULE Thumbnails -------------------------------
(***************************************************************************)
(* The thumbnail of a product image: the admin's form and the post_save    *)
(* receiver, the Celery task, the regenerate command, and                  *)
(* ProductImageThumbnailService.ensure_thumbnail, which works on a copy of *)
(* the row it has loaded and on files that no transaction protects.        *)
(*                                                                         *)
(* The name of a thumbnail is made of the stem of the image's name: a.png  *)
(* and a.jpg share it.  A storage that finds the name taken appends a      *)
(* suffix, numbered here; <<>> is no file.  An upload always gets a name   *)
(* of its own, so its size never tells more than its name.                 *)
(***************************************************************************)
EXTENDS Naturals

CONSTANTS
    ThumbImages,   \* names of uploaded images
    ThumbStem,     \* the stem of each
    ThumbJobs,     \* runs of ensure_thumbnail: tasks, or a row of the command
    ThumbForms,    \* POSTs of the admin
    ThumbSuffixMax \* bound: suffixes the storage appends

ThumbStems == {ThumbStem[i] : i \in ThumbImages}
ThumbNames == ThumbStems \X (0..ThumbSuffixMax)

ASSUME ThumbAssumption ==
    ThumbSuffixMax \in Nat /\ ThumbStem \in [ThumbImages -> ThumbStems] /\ "none" \notin ThumbImages

VARIABLES
    thumbRow,   \* the row: image, thumbnail, thumbnail_source_name
    thumbFile,  \* thumbFile[n]: the image the file n was made of
    thumbUsed,  \* images uploaded so far
    thumbJob,   \* thumbJob[j]: how far it has come, its copy of the row
    thumbForm   \* thumbForm[f]: how far it has come, its copy of the row

thumbVars == <<thumbRow, thumbFile, thumbUsed, thumbJob, thumbForm>>

-----------------------------------------------------------------------------
ThumbRow == [image : ThumbImages, thumbnail : ThumbNames \cup {<<>>},
             source : ThumbImages \cup {"none"}]
ThumbJobSteps == {"idle", "queued", "check", "drop_old", "drop_target", "save", "update", "done"}
ThumbExists(n) == n # <<>> /\ thumbFile[n] # "none"
ThumbWithout(n) == IF n = <<>> THEN thumbFile ELSE [thumbFile EXCEPT ![n] = "none"]

ThumbJobAt(j, step) == thumbJob[j].step = step
ThumbJobTo(j, step) == thumbJob' = [thumbJob EXCEPT ![j].step = step]
ThumbTarget(j) == <<ThumbStem[thumbJob[j].row.image], 0>>

-----------------------------------------------------------------------------
(* The POST of the admin loads the row...                                  *)
ThumbPost(f) ==
    /\ thumbForm[f].step = "idle"
    /\ thumbForm' = [thumbForm EXCEPT ![f] = [step |-> "save", row |-> thumbRow]]
    /\ UNCHANGED <<thumbRow, thumbFile, thumbUsed, thumbJob>>

(* ...and saves every column, with a new image or the one it loaded.  The  *)
(* receiver clears the source of a thumbnail that is stale, in the same    *)
(* transaction; on_commit publishes the task, and only logs a failure.     *)
ThumbSave(f, i) ==
    LET copy == thumbForm[f].row
        stale == copy.thumbnail # <<>> /\ copy.source # i IN
    /\ thumbForm[f].step = "save"
    /\ i = copy.image \/ i \notin thumbUsed
    /\ thumbRow' = [copy EXCEPT !.image = i, !.source = IF stale THEN "none" ELSE @]
    /\ thumbUsed' = thumbUsed \cup {i}
    /\ thumbForm' = [thumbForm EXCEPT ![f].step = "done"]
    /\ \/ \E j \in ThumbJobs : ThumbJobAt(j, "idle") /\ ThumbJobTo(j, "queued")
       \/ UNCHANGED thumbJob
    /\ UNCHANGED thumbFile

(* generate_product_thumbnail loads the row it works on; the command loads *)
(* a chunk of rows at a time, and may work with --force.                   *)
ThumbLoad(j) ==
    /\ ThumbJobAt(j, "queued")
    /\ thumbJob' = [thumbJob EXCEPT ![j].step = "check", ![j].row = thumbRow]
    /\ UNCHANGED <<thumbRow, thumbFile, thumbUsed, thumbForm>>
ThumbCommand(j) ==
    /\ ThumbJobAt(j, "idle")
    /\ \E force \in BOOLEAN :
         thumbJob' = [thumbJob EXCEPT ![j] = [@ EXCEPT !.step = "check", !.row = thumbRow,
                                                       !.force = force]]
    /\ UNCHANGED <<thumbRow, thumbFile, thumbUsed, thumbForm>>

(* _is_thumbnail_up_to_date; then the image is read, validated and cut, or *)
(* it is refused: too small, too large, broken or missing.                 *)
ThumbUpToDate(j) ==
    LET row == thumbJob[j].row IN
    ~thumbJob[j].force /\ row.source = row.image /\ ThumbExists(row.thumbnail)
ThumbCheck(j) ==
    /\ ThumbJobAt(j, "check")
    /\ \/ ThumbJobTo(j, "done")
       \/ ~ThumbUpToDate(j) /\ ThumbJobTo(j, "drop_old")
    /\ UNCHANGED <<thumbRow, thumbFile, thumbUsed, thumbForm>>

(* _save_thumbnail_file: the old file goes if it has another name...       *)
ThumbDropOld(j) ==
    LET old == thumbJob[j].row.thumbnail IN
    /\ ThumbJobAt(j, "drop_old")
    /\ thumbFile' = IF old = ThumbTarget(j) THEN thumbFile ELSE ThumbWithout(old)
    /\ ThumbJobTo(j, "drop_target")
    /\ UNCHANGED <<thumbRow, thumbUsed, thumbForm>>

(* ...then what has the name of the new one...                             *)
ThumbDropTarget(j) ==
    /\ ThumbJobAt(j, "drop_target")
    /\ thumbFile' = ThumbWithout(ThumbTarget(j))
    /\ ThumbJobTo(j, "save")
    /\ UNCHANGED <<thumbRow, thumbUsed, thumbForm>>

(* ...and storage.save takes that name, or another if it has come back.    *)
ThumbStore(j, k) ==
    LET name == <<ThumbTarget(j)[1], k>> IN
    /\ ThumbJobAt(j, "save")
    /\ ~ThumbExists(name) /\ (k # 0 => ThumbExists(ThumbTarget(j)))
    /\ thumbFile' = [thumbFile EXCEPT ![name] = thumbJob[j].row.image]
    /\ thumbJob' = [thumbJob EXCEPT ![j].step = "update", ![j].name = name]
    /\ UNCHANGED <<thumbRow, thumbUsed, thumbForm>>

(* The UPDATE names the image of the copy, whatever the row holds by now.  *)
(* Fault: it names the image of the row.                                   *)
ThumbRecordCurrent(j) ==
    /\ ThumbJobAt(j, "update")
    /\ thumbRow' = [thumbRow EXCEPT !.thumbnail = thumbJob[j].name, !.source = thumbRow.image]
    /\ ThumbJobTo(j, "done")
    /\ UNCHANGED <<thumbFile, thumbUsed, thumbForm>>
ThumbRecord(j) ==
    /\ ThumbJobAt(j, "update")
    /\ thumbRow' = [thumbRow EXCEPT !.thumbnail = thumbJob[j].name,
                                    !.source = thumbJob[j].row.image]
    /\ ThumbJobTo(j, "done")
    /\ UNCHANGED <<thumbFile, thumbUsed, thumbForm>>

(* The storage fails or the worker dies.                                   *)
ThumbCrash(j) ==
    /\ thumbJob[j].step \notin {"idle", "done"}
    /\ ThumbJobTo(j, "done")
    /\ UNCHANGED <<thumbRow, thumbFile, thumbUsed, thumbForm>>

-----------------------------------------------------------------------------
ThumbInit ==
    /\ \E i \in ThumbImages :
         LET row == [image |-> i, thumbnail |-> <<>>, source |-> "none"] IN
         /\ thumbRow = row /\ thumbUsed = {i}
         /\ thumbJob = [j \in ThumbJobs |-> [step |-> "idle", row |-> row, force |-> FALSE,
                                             name |-> <<>>]]
         /\ thumbForm = [f \in ThumbForms |-> [step |-> "idle", row |-> row]]
    /\ thumbFile = [n \in ThumbNames |-> "none"]

ThumbNext ==
    \/ \E f \in ThumbForms : ThumbPost(f) \/ \E i \in ThumbImages : ThumbSave(f, i)
    \/ \E j \in ThumbJobs :
         \/ ThumbLoad(j) \/ ThumbCommand(j) \/ ThumbCheck(j) \/ ThumbDropOld(j)
         \/ ThumbDropTarget(j) \/ ThumbRecord(j) \/ ThumbCrash(j)
         \/ \E k \in 0..ThumbSuffixMax : ThumbStore(j, k)

ThumbSpec == ThumbInit /\ [][ThumbNext]_thumbVars

-----------------------------------------------------------------------------
ThumbTypeOK ==
    /\ thumbRow \in ThumbRow /\ thumbFile \in [ThumbNames -> ThumbImages \cup {"none"}]
    /\ thumbUsed \subseteq ThumbImages
    /\ thumbJob \in [ThumbJobs -> [step : ThumbJobSteps, row : ThumbRow, force : BOOLEAN,
                                   name : ThumbNames \cup {<<>>}]]
    /\ thumbForm \in [ThumbForms -> [step : {"idle", "save", "done"}, row : ThumbRow]]

(* catalog_image shows the thumbnail when its source is the image.         *)
ThumbShown == thumbRow.thumbnail # <<>> /\ thumbRow.source = thumbRow.image

(* The shop never shows the thumbnail of another picture: however tasks    *)
(* for replaced images, forms with stale copies and deaths in between      *)
(* interleave, a thumbnail that is shown was made of an image of that name *)
(* (of that stem: a.png and a.jpg overwrite each other's file).            *)
ThumbShowsItsImage ==
    ThumbShown /\ ThumbExists(thumbRow.thumbnail)
        => ThumbStem[thumbFile[thumbRow.thumbnail]] = ThumbStem[thumbRow.image]
===============================================================================
