---------------------------- MODULE RecordProofs ----------------------------
(***************************************************************************)
(* What happens to a file's record and to its object over time, for every  *)
(* value of the constants: ids are used once, sweeps only reach what is    *)
(* expired, replies and links stay true.                                   *)
(***************************************************************************)
EXTENDS FileDropProofs

\* Whatever is written, stored or linked has an id that uuid.New returned.
Known ==
    /\ \A f \in FileId : files[f].status # "absent" => f \in issued
    /\ \A u \in Uploads : up[u].file \in FileId => up[u].file \in issued
    /\ \A a \in Admins : adm[a].pc \in {"remove", "delete"} => adm[a].cur \in issued
    /\ \A t \in tokens : t.file \in issued

\* No statement sets the status 'ready'.
NeverReady == \A f \in FileId : files[f].status # "ready"

-----------------------------------------------------------------------------
(* The steps of one record. *)

\* Ids are never given back.
LEMMA IssuedGrows == [Next]_vars => issued \subseteq issued'
<1>1. UploadNext => issued \subseteq issued'
  BY DEF UploadNext, UploadStep, CreateFile, RejectUpload, AcceptUpload, PutObject,
         PutObjectFails, MarkPutFailed, MarkStored, HashObject, MarkHashFailed, MarkHashed,
         storeVars
<1>2. CleanupNext => UNCHANGED issued
  BY DEF CleanupNext, JobSelect, JobRemove, JobDelete, JobEnd, storeVars
<1>3. AdminNext => UNCHANGED issued
  BY DEF AdminNext, AdminStep, DeleteSelect, DeleteRemove, DeleteDelete, SweepSelect,
         SweepRemove, SweepDelete, SweepEnd, storeVars
<1>4. DownloadNext => UNCHANGED issued
  BY DEF DownloadNext, DownloadStep, CreateLink, VerifyToken, SelectForDownload, OpenObject,
         StreamObject, storeVars
<1> QED
  BY <1>1, <1>2, <1>3, <1>4 DEF Next, vars, storeVars, Tick, LateWrite, Crash

\* Everything a step can do to one row: nothing, create it, move it on, drop it.
Inserts(f) ==
    /\ f \notin issued /\ f \in issued'
    /\ files'[f].status = "pending" /\ files'[f].hash = None
MovesOn(f) ==
    /\ files'[f].created = files[f].created /\ files'[f].size = files[f].size
    /\ \/ /\ files[f].status \in {"pending", "stored"} /\ files'[f].status \in {"stored", "failed"}
          /\ files'[f].hash = files[f].hash
       \/ files[f].status = "stored" /\ files'[f].status = "hashed"
Drops(f) ==
    /\ files'[f] = NoRow
    /\ \/ job.pc = "delete" /\ job.cur = f
       \/ \E a \in Admins : (DeleteDelete(a) \/ SweepDelete(a)) /\ adm[a].cur = f

LEMMA RowFate ==
    ASSUME TypeInv, [Next]_vars, NEW f \in FileId
    PROVE  files'[f] = files[f] \/ Inserts(f) \/ MovesOn(f) \/ Drops(f)
<1> USE DEF TypeInv, TypeOK, StoreTypeOK
<1>1. ASSUME NEW g \in FileId, NEW size, g \notin issued, issued' = issued \cup {g},
             files' = Inserted(g, size)
      PROVE  files'[f] = files[f] \/ Inserts(f)
  BY <1>1 DEF Inserted, Inserts
<1>2. ASSUME NEW g \in FileId, NEW from \in {"pending", "stored"}, NEW to \in {"stored", "failed"},
             files' = SetStatusWhere(g, from, to)
      PROVE  files'[f] = files[f] \/ MovesOn(f)
  BY <1>2 DEF SetStatusWhere, MovesOn, Row
<1>3. ASSUME NEW g \in FileId, NEW h, files' = SetHashWhere(g, h)
      PROVE  files'[f] = files[f] \/ MovesOn(f)
  BY <1>3 DEF SetHashWhere, MovesOn, Row
<1>4. ASSUME NEW g, files' = DeleteRow(g)
      PROVE  files'[f] = files[f] \/ (files'[f] = NoRow /\ f = g)
  BY <1>4 DEF DeleteRow
<1>5. \A u \in Uploads : up[u].pc \notin {"idle", "done"} => up[u].file \in FileId
  BY DEF UploadLocals
<1>6. TableStep
  BY TableSteps
<1> QED
  BY <1>1, <1>2, <1>3, <1>4, <1>5, <1>6 DEF TableStep, Drops

\* A row that is gone, or hashed, does not come back to an earlier state.
LEMMA GoneStays ==
    ASSUME TypeInv, [Next]_vars, NEW f \in issued, files[f].status = "absent"
    PROVE  files'[f].status = "absent"
<1>1. f \in FileId  BY DEF TypeInv, TypeOK, StoreTypeOK
<1> QED BY <1>1, RowFate DEF Inserts, MovesOn, Drops, NoRow

LEMMA HashedStays ==
    ASSUME TypeInv, [Next]_vars, NEW f \in issued, files[f].status \in {"hashed", "absent"}
    PROVE  files'[f].status \in {"hashed", "absent"}
<1>1. f \in FileId  BY DEF TypeInv, TypeOK, StoreTypeOK
<1> QED BY <1>1, RowFate DEF Inserts, MovesOn, Drops, NoRow

LEMMA NeverReadyStep == TypeInv /\ NeverReady /\ [Next]_vars => NeverReady'
BY RowFate DEF NeverReady, Inserts, MovesOn, Drops, NoRow

-----------------------------------------------------------------------------
(* The steps of one request. *)

\* A request gets a file by passing the status check, and only then.
LEMMA FileEnters ==
    ASSUME TypeInv, [Next]_vars, NEW u \in Uploads
    PROVE  \/ up'[u].file = up[u].file /\ up'[u].content = up[u].content
           \/ \E f \in FileId, c \in Content :
                 /\ AcceptUpload(u, f, c)
                 /\ up'[u].file = f /\ up'[u].content = c
                 /\ up'[u].pc = "put" /\ up'[u].reply = up[u].reply
                 /\ \A v \in Uploads \ {u} : up'[v] = up[v]
<1> USE DEF TypeInv, TypeOK
<1>1. ASSUME NEW v \in Uploads, NEW f \in FileId, NEW c \in Content, AcceptUpload(v, f, c), u # v
      PROVE  up'[u] = up[u]
  BY <1>1 DEF AcceptUpload, UploadTypeOK
<1>2. ASSUME NEW f \in FileId, NEW c \in Content, AcceptUpload(u, f, c)
      PROVE  /\ up'[u].file = f /\ up'[u].content = c
             /\ up'[u].pc = "put" /\ up'[u].reply = up[u].reply
             /\ \A v \in Uploads \ {u} : up'[v] = up[v]
  BY <1>2 DEF AcceptUpload, UploadTypeOK
<1>3. ASSUME ~ \E v \in Uploads, f \in FileId, c \in Content : AcceptUpload(v, f, c)
      PROVE  up'[u].file = up[u].file /\ up'[u].content = up[u].content
  <2>1. ASSUME NEW v \in Uploads, NEW label, Goto(v, label)
        PROVE  up'[u].file = up[u].file /\ up'[u].content = up[u].content
    BY <2>1 DEF Goto, UploadTypeOK
  <2>2. ASSUME NEW v \in Uploads, NEW r, Answer(v, r)
        PROVE  up'[u].file = up[u].file /\ up'[u].content = up[u].content
    BY <2>2 DEF Answer, UploadTypeOK
  <2>3. ASSUME NEW v \in Uploads, NEW h,
               up' = [up EXCEPT ![v] = [@ EXCEPT !.pc = "markHashed", !.hash = h]]
        PROVE  up'[u].file = up[u].file /\ up'[u].content = up[u].content
    BY <2>3 DEF UploadTypeOK
  <2>4. CASE UploadCrash
    BY <2>4 DEF UploadCrash, UploadTypeOK
  <2>5. ASSUME NEW v \in Uploads, UploadStep(v)
        PROVE  \/ \E label : Goto(v, label)
               \/ \E r : Answer(v, r)
               \/ \E h : up' = [up EXCEPT ![v] = [@ EXCEPT !.pc = "markHashed", !.hash = h]]
    BY <2>5 DEF UploadStep, PutObject, PutObjectFails, MarkPutFailed, MarkStored, HashObject,
                MarkHashFailed, MarkHashed
  <2>6. UploadNext => \/ UNCHANGED up
                      \/ \E v \in Uploads : Answer(v, "rejected") \/ UploadStep(v)
    BY <1>3 DEF UploadNext, CreateFile, RejectUpload
  <2>7. UNCHANGED up \/ UploadNext \/ UploadCrash
    BY DEF Next, vars, Crash
  <2> QED
    BY <2>1, <2>2, <2>3, <2>4, <2>5, <2>6, <2>7
<1> QED
  BY <1>1, <1>2, <1>3

\* Where tokens come from.
LEMMA TokensStep ==
    ASSUME [Next]_vars, NEW t \in tokens'
    PROVE  t \in tokens \/ (files[t.file].status \in Downloadable /\ UNCHANGED files)
<1>1. ASSUME NEW f \in FileId, NEW ttl \in RequestedTTL, CreateLink(f, ttl)
      PROVE  t \in tokens \/ (files[t.file].status \in Downloadable /\ UNCHANGED files)
  BY <1>1 DEF CreateLink, signDownloadToken, storeVars
<1>2. DownloadNext => \/ UNCHANGED tokens
                      \/ \E f \in FileId, ttl \in RequestedTTL : CreateLink(f, ttl)
  BY DEF DownloadNext, DownloadStep, VerifyToken, SelectForDownload, OpenObject, StreamObject
<1>3. UNCHANGED tokens \/ DownloadNext
  BY DEF Next, vars, Crash, DownloadCrash
<1> QED
  BY <1>1, <1>2, <1>3

\* An admin request gets a file by finding its row.
LEMMA AdminEnters ==
    ASSUME TypeInv, [Next]_vars, NEW a \in Admins, adm'[a].pc \in {"remove", "delete"}
    PROVE  \/ adm'[a].cur = adm[a].cur /\ adm[a].pc \in {"remove", "delete"}
           \/ adm'[a].cur \in FileId /\ files[adm'[a].cur].status # "absent"
<1> USE DEF TypeInv, TypeOK
<1> DEFINE Goal == \/ adm'[a].cur = adm[a].cur /\ adm[a].pc \in {"remove", "delete"}
                   \/ adm'[a].cur \in FileId /\ files[adm'[a].cur].status # "absent"
<1>1. ASSUME NEW b \in Admins, NEW r, AnswerAdmin(b, r)
      PROVE  Goal
  BY <1>1 DEF AnswerAdmin, AdminTypeOK
<1>2. ASSUME NEW b \in Admins, NEW f \in FileId, DeleteSelect(b, f)
      PROVE  Goal
  <2>1. ASSUME NEW label \in {"delete", "remove"}, files[f].status # "absent",
               adm' = [adm EXCEPT ![b] = [@ EXCEPT !.cur = f, !.pc = label]]
        PROVE  Goal
    BY <2>1 DEF AdminTypeOK
  <2> QED
    BY <1>1, <1>2, <2>1 DEF DeleteSelect
<1>3. ASSUME NEW b \in Admins, DeleteRemove(b)
      PROVE  Goal
  BY <1>3 DEF DeleteRemove, AdminTypeOK
<1>4. ASSUME NEW b \in Admins, NEW label \in {"sweep", "sweepDelete"}, NEW c, NEW T,
             \/ adm' = [adm EXCEPT ![b] = [@ EXCEPT !.pc = label, !.cur = c, !.todo = T]]
             \/ adm' = [adm EXCEPT ![b] = [@ EXCEPT !.pc = label, !.todo = T]]
             \/ adm' = [adm EXCEPT ![b] = [@ EXCEPT !.pc = label, !.cur = c]]
      PROVE  Goal
  BY <1>4 DEF AdminTypeOK
<1>5. CASE AdminCrash
  BY <1>5 DEF AdminCrash, AdminTypeOK
<1>6. CASE UNCHANGED adm
  BY <1>6
<1>7. ASSUME NEW b \in Admins, SweepSelect(b)
      PROVE  Goal
  BY <1>1, <1>4, <1>7 DEF SweepSelect
<1>8. ASSUME NEW b \in Admins, NEW item, SweepRemove(b, item)
      PROVE  Goal
  BY <1>4, <1>8 DEF SweepRemove
<1>9. ASSUME NEW b \in Admins, SweepDelete(b)
      PROVE  Goal
  BY <1>4, <1>9 DEF SweepDelete
<1>10. ASSUME NEW b \in Admins, DeleteDelete(b) \/ SweepEnd(b)
       PROVE  Goal
  BY <1>1, <1>10 DEF DeleteDelete, SweepEnd
<1>11. UNCHANGED adm \/ AdminNext \/ AdminCrash
  BY DEF Next, vars, Crash
<1> HIDE DEF Goal
<1>12. AdminNext => Goal
  BY <1>2, <1>3, <1>7, <1>8, <1>9, <1>10, Zenon DEF AdminNext, AdminStep
<1> QED BY <1>5, <1>6, <1>11, <1>12 DEF Goal

\* Known is kept: rows, requests and tokens only ever meet ids that were issued.
LEMMA KnownStep == TypeInv /\ NeverReady /\ Known /\ [Next]_vars => Known'
<1> SUFFICES ASSUME TypeInv, NeverReady, Known, [Next]_vars PROVE Known'
  OBVIOUS
<1>0. issued \subseteq issued'
  BY IssuedGrows
<1>1. ASSUME NEW f \in FileId, files'[f].status # "absent"  PROVE f \in issued'
  BY <1>0, <1>1, RowFate DEF Known, Inserts, MovesOn, Drops, NoRow
<1>2. ASSUME NEW u \in Uploads, up'[u].file \in FileId  PROVE up'[u].file \in issued'
  <2>1. CASE up'[u].file = up[u].file
    BY <1>0, <1>2, <2>1 DEF Known
  <2>2. ASSUME NEW f \in FileId, NEW c \in Content, AcceptUpload(u, f, c), up'[u].file = f
        PROVE  up'[u].file \in issued'
    BY <1>0, <2>2 DEF AcceptUpload, Known
  <2> QED BY <2>1, <2>2, FileEnters
<1>3. ASSUME NEW a \in Admins, adm'[a].pc \in {"remove", "delete"}  PROVE adm'[a].cur \in issued'
  BY <1>0, <1>3, AdminEnters DEF Known
<1>4. ASSUME NEW t \in tokens'  PROVE t.file \in issued'
  <2>1. t.file \in FileId
    BY <1>4, TypeStep DEF TypeInv, TypeOK, DownloadTypeOK, Token
  <2> QED
    BY <1>0, <1>4, <2>1, TokensStep DEF Known, Downloadable
<1> QED
  BY <1>1, <1>2, <1>3, <1>4 DEF Known

-----------------------------------------------------------------------------
(* Links and admin deletes. *)

\* An admin request that answered 204 is over, and its row is gone.
DeletedGone ==
    \A a \in Admins : adm[a].reply = "deleted" =>
        adm[a].pc = "done" /\ adm[a].cur \in issued /\ files[adm[a].cur].status = "absent"

LEMMA LinksStep ==
    TypeInv /\ NeverReady /\ Known /\ LinkedFileHashed /\ [Next]_vars => LinkedFileHashed'
<1> SUFFICES ASSUME TypeInv, NeverReady, Known, LinkedFileHashed, [Next]_vars, NEW t \in tokens'
             PROVE  files'[t.file].status \in {"hashed", "absent"}
  BY DEF LinkedFileHashed
<1>1. CASE t \in tokens
  BY <1>1, HashedStays DEF Known, LinkedFileHashed
<1>2. CASE files[t.file].status \in Downloadable /\ UNCHANGED files
  <2>1. t.file \in FileId
    BY TypeStep DEF TypeInv, TypeOK, DownloadTypeOK, Token
  <2> QED
    BY <1>2, <2>1 DEF Downloadable, NeverReady
<1> QED
  BY <1>1, <1>2, TokensStep

\* The reply "deleted" comes from DeleteDelete, and the row goes with it.
LEMMA DeletedEnters ==
    ASSUME TypeInv, DeletedGone, [Next]_vars, NEW a \in Admins, adm'[a].reply = "deleted"
    PROVE  /\ adm'[a].pc = "done" /\ adm'[a].cur = adm[a].cur
           /\ \/ adm[a].reply = "deleted"
              \/ adm[a].pc = "delete" /\ files'[adm[a].cur].status = "absent"
<1> USE DEF TypeInv, TypeOK
<1> DEFINE Goal == /\ adm'[a].pc = "done" /\ adm'[a].cur = adm[a].cur
                   /\ \/ adm[a].reply = "deleted"
                      \/ adm[a].pc = "delete" /\ files'[adm[a].cur].status = "absent"
<1>0. adm[a].reply = "deleted" => adm[a].pc = "done"
  BY DEF DeletedGone
<1>1. ASSUME NEW b \in Admins, NEW r, AnswerAdmin(b, r), r # "deleted"
      PROVE  Goal
  BY <1>0, <1>1 DEF AnswerAdmin, AdminTypeOK
<1>3. ASSUME NEW b \in Admins, NEW f \in FileId, DeleteSelect(b, f)
      PROVE  Goal
  <2>0. adm[b].pc = "idle"
    BY <1>3 DEF DeleteSelect
  <2>1. ASSUME NEW label, adm' = [adm EXCEPT ![b] = [@ EXCEPT !.cur = f, !.pc = label]]
        PROVE  Goal
    BY <1>0, <2>0, <2>1 DEF AdminTypeOK
  <2> QED BY <1>1, <1>3, <2>1 DEF DeleteSelect
<1>4. ASSUME NEW b \in Admins, DeleteRemove(b)
      PROVE  Goal
  BY <1>0, <1>4 DEF DeleteRemove, AdminTypeOK
<1>5. ASSUME NEW b \in Admins, DeleteDelete(b)
      PROVE  Goal
  <2>1. PICK o \in Outcomes("db") :
            /\ files' = IF Applied(o) THEN DeleteRow(adm[b].cur) ELSE files
            /\ AnswerAdmin(b, CASE Failed(o) -> "db error"
                                [] ~Failed(o) /\ files[adm[b].cur].status = "absent" -> "not found"
                                [] OTHER -> "deleted")
    BY <1>5 DEF DeleteDelete
  <2>2. CASE Failed(o)
    BY <1>1, <2>1, <2>2
  <2>3. CASE ~Failed(o) /\ files[adm[b].cur].status = "absent"
    BY <1>1, <2>1, <2>3
  <2>4. CASE ~Failed(o) /\ files[adm[b].cur].status # "absent"
    <3>1. AnswerAdmin(b, "deleted") /\ adm[b].pc = "delete" /\ adm[b].cur \in FileId
      BY <1>5, <2>1, <2>4 DEF DeleteDelete, AdminLocals
    <3>2. files' = DeleteRow(adm[b].cur)
      BY <2>1, <2>4 DEF Failed, Applied
    <3>3. files'[adm[b].cur].status = "absent"
      BY <3>1, <3>2 DEF DeleteRow, NoRow, StoreTypeOK
    <3> QED
      BY <1>0, <3>1, <3>3 DEF AnswerAdmin, AdminTypeOK
  <2> QED BY <2>2, <2>3, <2>4
<1>6. ASSUME NEW b \in Admins, SweepSelect(b)
      PROVE  Goal
  <2>1. ASSUME NEW T, adm' = [adm EXCEPT ![b] = [@ EXCEPT !.pc = "sweep", !.todo = T]]
        PROVE  Goal
    BY <1>0, <1>6, <2>1 DEF SweepSelect, AdminTypeOK
  <2> QED BY <1>1, <1>6, <2>1 DEF SweepSelect
<1>7. ASSUME NEW b \in Admins, NEW item, SweepRemove(b, item)
      PROVE  Goal
  <2>1. ASSUME NEW c, NEW T,
               adm' = [adm EXCEPT ![b] = [@ EXCEPT !.pc = "sweepDelete", !.cur = c, !.todo = T]]
        PROVE  Goal
    BY <1>0, <1>7, <2>1 DEF SweepRemove, AdminTypeOK
  <2> QED BY <1>7, <2>1 DEF SweepRemove
<1>8. ASSUME NEW b \in Admins, SweepDelete(b)
      PROVE  Goal
  BY <1>0, <1>8 DEF SweepDelete, AdminTypeOK
<1>9. ASSUME NEW b \in Admins, SweepEnd(b)
      PROVE  Goal
  BY <1>1, <1>9 DEF SweepEnd
<1>10. CASE AdminCrash
  BY <1>0, <1>10 DEF AdminCrash, AdminTypeOK
<1>11. CASE UNCHANGED adm
  BY <1>0, <1>11
<1>12. UNCHANGED adm \/ AdminNext \/ AdminCrash
  BY DEF Next, vars, Crash
<1> HIDE DEF Goal
<1>13. AdminNext => Goal
  BY <1>3, <1>4, <1>5, <1>6, <1>7, <1>8, <1>9, Zenon DEF AdminNext, AdminStep
<1> QED BY <1>10, <1>11, <1>12, <1>13 DEF Goal

LEMMA DeletedStep == TypeInv /\ Known /\ DeletedGone /\ [Next]_vars => DeletedGone'
<1> SUFFICES ASSUME TypeInv, Known, DeletedGone, [Next]_vars,
                    NEW a \in Admins, adm'[a].reply = "deleted"
             PROVE  /\ adm'[a].pc = "done" /\ adm'[a].cur \in issued'
                    /\ files'[adm'[a].cur].status = "absent"
  BY DEF DeletedGone
<1>1. issued \subseteq issued'
  BY IssuedGrows
<1>2. CASE adm[a].reply = "deleted"
  <2>1. /\ adm[a].pc = "done" /\ adm[a].cur \in issued /\ files[adm[a].cur].status = "absent"
    BY <1>2 DEF DeletedGone
  <2>2. adm'[a].cur = adm[a].cur /\ adm'[a].pc = "done"
    BY <2>1, DeletedEnters
  <2> QED
    BY <1>1, <2>1, <2>2, GoneStays
<1>3. CASE adm[a].pc = "delete" /\ files'[adm[a].cur].status = "absent"
  BY <1>1, <1>3, DeletedEnters DEF Known
<1> QED
  BY <1>2, <1>3, DeletedEnters

-----------------------------------------------------------------------------
(* Sweeps. *)

\* A row that is gone or expired: what a sweep may delete without looking again.
Stale(f) == f \in issued /\ (files[f].status = "absent" \/ files[f].created < now - MaxAge)

\* The files a run of the job, or a manual cleanup, has selected and not deleted.
JobTargets == job.batch \cup (IF job.pc = "delete" THEN {job.cur} ELSE {})
AdminTargets(a) ==
    {item.file : item \in adm[a].todo} \cup (IF adm[a].pc = "sweepDelete" THEN {adm[a].cur} ELSE {})

\* What was expired when it was selected stays so: an id is used once, created_at
\* never changes and the clock does not go back.
TargetsStale ==
    /\ \A f \in JobTargets : Stale(f)
    /\ \A a \in Admins : \A f \in AdminTargets(a) : Stale(f)

LEMMA ClockGrows == TypeInv /\ [Next]_vars => now' \in Nat /\ now' >= now
<1> SUFFICES ASSUME TypeInv, [Next]_vars PROVE now' \in Nat /\ now' >= now
  OBVIOUS
<1>0. now \in Nat
  BY DEF TypeInv, TypeOK, StoreTypeOK
<1>1. UploadNext => UNCHANGED now
  BY DEF UploadNext, UploadStep, CreateFile, RejectUpload, AcceptUpload, PutObject,
         PutObjectFails, MarkPutFailed, MarkStored, HashObject, MarkHashFailed, MarkHashed,
         storeVars
<1>2. CleanupNext => UNCHANGED now
  BY DEF CleanupNext, JobSelect, JobRemove, JobDelete, JobEnd, storeVars
<1>3. AdminNext => UNCHANGED now
  BY DEF AdminNext, AdminStep, DeleteSelect, DeleteRemove, DeleteDelete, SweepSelect,
         SweepRemove, SweepDelete, SweepEnd, storeVars
<1>4. DownloadNext => UNCHANGED now
  BY DEF DownloadNext, DownloadStep, CreateLink, VerifyToken, SelectForDownload, OpenObject,
         StreamObject, storeVars
<1>5. UNCHANGED now \/ now' = now + 1
  BY <1>1, <1>2, <1>3, <1>4 DEF Next, vars, storeVars, Tick, LateWrite, Crash
<1> QED
  BY <1>0, <1>5

LEMMA StaleStays ==
    ASSUME TypeInv, [Next]_vars, NEW f, Stale(f)
    PROVE  Stale(f)'
<1>1. f \in FileId /\ f \in issued
  BY DEF Stale, TypeInv, TypeOK, StoreTypeOK
<1>2. f \in issued'
  BY <1>1, IssuedGrows
<1>3. CASE files[f].status = "absent"
  BY <1>1, <1>2, <1>3, GoneStays DEF Stale
<1>4. CASE files[f].status # "absent" /\ files[f].created < now - MaxAge
  <2>1. files'[f].created = files[f].created \/ files'[f].status = "absent"
    BY <1>1, RowFate DEF Inserts, MovesOn, Drops, NoRow
  <2>2. now \in Nat /\ now' \in Nat /\ now' >= now /\ MaxAge \in Nat /\ files[f].created \in Nat
    BY <1>1, ClockGrows, TimeAssumption DEF TypeInv, TypeOK, StoreTypeOK, Row
  <2>3. files[f].created < now' - MaxAge
    BY <1>4, <2>2
  <2> QED
    BY <1>2, <2>1, <2>3 DEF Stale
<1> QED
  BY <1>3, <1>4 DEF Stale

\* A row a sweep selects is expired.
LEMMA ReclaimableStale == Known => \A f \in FileId : Reclaimable(f) => Stale(f)
BY DEF Known, Reclaimable, Stale

\* New targets are rows the WHERE clause found.
LEMMA JobTargetsStep ==
    ASSUME TypeInv, [Next]_vars
    PROVE  \A f \in JobTargets' : f \in JobTargets \/ (f \in FileId /\ Reclaimable(f))
<1> USE DEF JobTargets, TypeInv, TypeOK, CleanupTypeOK
<1>1. CASE JobSelect
  <2>1. PICK B \in SUBSET FileId : /\ OldestReclaimable(B)
                                   /\ job' = [job EXCEPT !.pc = "rows", !.batch = B]
    BY <1>1 DEF JobSelect
  <2>2. \A f \in B : f \in FileId /\ Reclaimable(f)
    BY <2>1 DEF OldestReclaimable
  <2> QED
    BY <2>1, <2>2
<1>2. ASSUME NEW g \in FileId, JobRemove(g)
      PROVE  JobTargets' \subseteq JobTargets
  BY <1>2 DEF JobRemove
<1>3. ASSUME NEW o, JobDelete(o)
      PROVE  JobTargets' \subseteq JobTargets
  BY <1>3 DEF JobDelete
<1>4. CASE JobEnd
  BY <1>4 DEF JobEnd
<1>5. CASE CleanupCrash
  BY <1>5 DEF CleanupCrash
<1>6. CASE UNCHANGED job
  BY <1>6
<1>7. UNCHANGED job \/ CleanupNext \/ CleanupCrash
  BY DEF Next, vars, Crash
<1> QED
  BY <1>1, <1>2, <1>3, <1>4, <1>5, <1>6, <1>7 DEF CleanupNext

LEMMA AdminTargetsStep ==
    ASSUME TypeInv, [Next]_vars, NEW a \in Admins
    PROVE  \A f \in AdminTargets(a)' : f \in AdminTargets(a) \/ (f \in FileId /\ Reclaimable(f))
<1> USE DEF AdminTargets, TypeInv, TypeOK
<1> DEFINE Goal == \A f \in AdminTargets(a)' :
                       f \in AdminTargets(a) \/ (f \in FileId /\ Reclaimable(f))
<1>1. ASSUME NEW b \in Admins, NEW r, AnswerAdmin(b, r)
      PROVE  Goal
  BY <1>1 DEF AnswerAdmin, AdminTypeOK
<1>2. ASSUME NEW b \in Admins, NEW f \in FileId, DeleteSelect(b, f)
      PROVE  Goal
  <2>1. ASSUME NEW label \in {"delete", "remove"},
               adm' = [adm EXCEPT ![b] = [@ EXCEPT !.cur = f, !.pc = label]]
        PROVE  Goal
    BY <2>1 DEF AdminTypeOK
  <2> QED BY <1>1, <1>2, <2>1 DEF DeleteSelect
<1>3. ASSUME NEW b \in Admins, DeleteRemove(b)
      PROVE  Goal
  BY <1>3 DEF DeleteRemove, AdminTypeOK
<1>4. ASSUME NEW b \in Admins, SweepSelect(b)
      PROVE  Goal
  <2> DEFINE items == {[file |-> f, status |-> files[f].status] :
                          f \in {g \in FileId : Reclaimable(g)}}
  <2>1. \A item \in items : item.file \in FileId /\ Reclaimable(item.file)
    OBVIOUS
  <2> HIDE DEF items
  <2>2. ASSUME adm' = [adm EXCEPT ![b] = [@ EXCEPT !.pc = "sweep", !.todo = items]]
        PROVE  Goal
    BY <2>1, <2>2 DEF AdminTypeOK
  <2> QED BY <1>1, <1>4, <2>2 DEF SweepSelect, items
<1>5. ASSUME NEW b \in Admins, NEW item, SweepRemove(b, item)
      PROVE  Goal
  <2>1. item \in adm[b].todo
    BY <1>5 DEF SweepRemove
  <2>2. ASSUME NEW c, NEW T, c = item.file, T = adm[b].todo \ {item},
               adm' = [adm EXCEPT ![b] = [@ EXCEPT !.pc = "sweepDelete", !.cur = c, !.todo = T]]
        PROVE  Goal
    BY <2>1, <2>2 DEF AdminTypeOK
  <2> QED BY <1>5, <2>2 DEF SweepRemove
<1>6. ASSUME NEW b \in Admins, SweepDelete(b)
      PROVE  Goal
  BY <1>6 DEF SweepDelete, AdminTypeOK
<1>7. ASSUME NEW b \in Admins, DeleteDelete(b) \/ SweepEnd(b)
      PROVE  Goal
  BY <1>1, <1>7 DEF DeleteDelete, SweepEnd
<1>8. CASE AdminCrash
  BY <1>8 DEF AdminCrash, AdminTypeOK
<1>9. CASE UNCHANGED adm
  BY <1>9
<1>10. UNCHANGED adm \/ AdminNext \/ AdminCrash
  BY DEF Next, vars, Crash
<1> HIDE DEF Goal
<1>11. AdminNext => Goal
  BY <1>2, <1>3, <1>4, <1>5, <1>6, <1>7, Zenon DEF AdminNext, AdminStep
<1> QED BY <1>8, <1>9, <1>10, <1>11 DEF Goal

LEMMA TargetsStep == TypeInv /\ Known /\ TargetsStale /\ [Next]_vars => TargetsStale'
<1> SUFFICES ASSUME TypeInv, Known, TargetsStale, [Next]_vars PROVE TargetsStale'
  OBVIOUS
<1>1. ASSUME NEW f \in JobTargets'  PROVE Stale(f)'
  <2>1. Stale(f)
    BY JobTargetsStep, ReclaimableStale DEF TargetsStale
  <2> QED BY <2>1, StaleStays
<1>2. ASSUME NEW a \in Admins, NEW f \in AdminTargets(a)'  PROVE Stale(f)'
  <2>1. Stale(f)
    BY AdminTargetsStep, ReclaimableStale DEF TargetsStale
  <2> QED BY <2>1, StaleStays
<1> QED
  BY <1>1, <1>2 DEF TargetsStale

\* The step of SweepsOnlyExpired.
LEMMA SweepStep ==
    ASSUME TypeInv, TargetsStale, [Next]_vars, NEW f \in FileId,
           files[f].status # "absent", files'[f].status = "absent",
           ~ \E a \in Admins : adm[a].pc = "delete" /\ adm[a].cur = f /\ adm'[a].pc = "done"
    PROVE  files[f].created < now - MaxAge
<1>1. Drops(f)
  BY RowFate DEF Inserts, MovesOn
<1>2. CASE job.pc = "delete" /\ job.cur = f
  BY <1>2 DEF TargetsStale, JobTargets, Stale
<1>3. ASSUME NEW a \in Admins, DeleteDelete(a), adm[a].cur = f
      PROVE  FALSE
  <2>1. adm[a].pc = "delete" /\ \E r : AnswerAdmin(a, r)
    BY <1>3 DEF DeleteDelete
  <2>2. adm'[a].pc = "done"
    BY <2>1 DEF AnswerAdmin, TypeInv, TypeOK, AdminTypeOK
  <2> QED BY <1>3, <2>1, <2>2
<1>4. ASSUME NEW a \in Admins, SweepDelete(a), adm[a].cur = f
      PROVE  files[f].created < now - MaxAge
  <2>1. f \in AdminTargets(a)
    BY <1>4 DEF SweepDelete, AdminTargets
  <2> QED BY <2>1 DEF TargetsStale, Stale
<1> QED
  BY <1>1, <1>2, <1>3, <1>4 DEF Drops

-----------------------------------------------------------------------------
(* Objects of young files. *)

HasObject(f) == objects[ObjectKey(f)] # None

\* A file that is hashed, or about to be, has its object as long as it is young.
YoungKept ==
    /\ \A u \in Uploads : up[u].pc = "markHashed" => Stale(up[u].file) \/ HasObject(up[u].file)
    /\ \A f \in FileId : files[f].status \in Downloadable => Stale(f) \/ HasObject(f)

\* Only the job takes away the object of a file, and only of a stale one.
LEMMA ObjectStays ==
    ASSUME TypeInv, Known, TargetsStale, [Next]_vars, NEW f \in FileId, HasObject(f)
    PROVE  HasObject(f)' \/ Stale(f)
<1> USE DEF TypeInv, TypeOK, StoreTypeOK, HasObject
<1>1. CASE UNCHANGED objects
  BY <1>1
<1>2. ASSUME NEW k, NEW c \in Content, objects' = [objects EXCEPT ![k] = c]
      PROVE  HasObject(f)'
  BY <1>2, KeyType, NoneAssumption
<1>3. ASSUME NEW u \in Uploads, PutObject(u) \/ PutObjectFails(u)
      PROVE  HasObject(f)'
  <2>1. up[u].content \in Content
    BY <1>3 DEF PutObject, PutObjectFails, UploadLocals
  <2> QED
    BY <1>1, <1>2, <1>3, <2>1 DEF PutObject, PutObjectFails
<1>4. ASSUME NEW g \in FileId, JobRemove(g)
      PROVE  HasObject(f)' \/ Stale(f)
  <2>1. Stale(g)
    BY <1>4 DEF JobRemove, TargetsStale, JobTargets
  <2>2. CASE g # f
    BY <1>4, <2>2, KeyType, KeysDiffer DEF JobRemove, RemoveObject
  <2> QED BY <2>1, <2>2
<1>5. ASSUME NEW g \in FileId, objects' = RemoveObject(BareKey(g))
      PROVE  HasObject(f)'
  BY <1>5, KeyType, KeysDiffer DEF RemoveObject
<1>6. ASSUME NEW a \in Admins, DeleteRemove(a)
      PROVE  HasObject(f)'
  BY <1>1, <1>5, <1>6 DEF DeleteRemove, AdminLocals
<1>7. ASSUME NEW a \in Admins, NEW item \in adm[a].todo, SweepRemove(a, item)
      PROVE  HasObject(f)'
  <2>1. item.file \in FileId
    BY DEF AdminTypeOK, Item
  <2> QED BY <1>1, <1>5, <1>7, <2>1 DEF SweepRemove
<1>8. CASE LateWrite
  <2>1. PICK w \in late : objects' = [objects EXCEPT ![w[1]] = w[2]]
    BY <1>8 DEF LateWrite
  <2> QED BY <1>2, <2>1
<1> QED
  BY <1>1, <1>3, <1>4, <1>6, <1>7, <1>8, BucketSteps

\* A row becomes downloadable by the UPDATE of an upload that has its digest.
LEMMA HashedBy ==
    ASSUME TypeInv, [Next]_vars, NEW f \in FileId,
           files'[f].status \in Downloadable, files[f].status \notin Downloadable
    PROVE  \E u \in Uploads : up[u].pc = "markHashed" /\ up[u].file = f
<1> USE DEF TypeInv, TypeOK, StoreTypeOK, Downloadable
<1>1. ASSUME NEW g \in FileId, NEW size, files' = Inserted(g, size)
      PROVE  FALSE
  BY <1>1 DEF Inserted
<1>2. ASSUME NEW g, NEW from \in {"pending", "stored"}, NEW to \in {"stored", "failed"},
             files' = SetStatusWhere(g, from, to)
      PROVE  FALSE
  BY <1>2 DEF SetStatusWhere, Row
<1>3. ASSUME NEW g, NEW h, files' = SetHashWhere(g, h), g # f
      PROVE  FALSE
  BY <1>3 DEF SetHashWhere, Row
<1>4. ASSUME NEW g, files' = DeleteRow(g)
      PROVE  FALSE
  BY <1>4 DEF DeleteRow, NoRow
<1> QED
  BY <1>1, <1>2, <1>3, <1>4, TableSteps DEF TableStep

LEMMA YoungStep == TypeInv /\ Known /\ TargetsStale /\ YoungKept /\ [Next]_vars => YoungKept'
<1> SUFFICES ASSUME TypeInv, Known, TargetsStale, YoungKept, [Next]_vars PROVE YoungKept'
  OBVIOUS
<1>1. ASSUME NEW f \in FileId, Stale(f) \/ HasObject(f)
      PROVE  Stale(f)' \/ HasObject(f)'
  BY <1>1, ObjectStays, StaleStays
<1>2. ASSUME NEW u \in Uploads, up'[u].pc = "markHashed"
      PROVE  (Stale(up[u].file) \/ HasObject(up[u].file))'
  <2>1. up[u].pc \in {"hash", "markHashed"}
    BY <1>2, HashEnters
  <2>2. up[u].file \in FileId
    BY <2>1 DEF TypeInv, UploadLocals
  <2>3. Stale(up[u].file) \/ HasObject(up[u].file)
    BY <1>2, HashEnters DEF YoungKept, HasObject
  <2>4. up'[u].file = up[u].file
    BY <2>2, AcceptedStays
  <2>5. PICK f \in FileId : f = up[u].file
    BY <2>2
  <2>6. Stale(f)' \/ HasObject(f)'
    BY <1>1, <2>3, <2>5
  <2> QED BY <2>4, <2>5, <2>6
<1>3. ASSUME NEW f \in FileId, files'[f].status \in Downloadable
      PROVE  (Stale(f) \/ HasObject(f))'
  <2>1. CASE files[f].status \in Downloadable
    BY <1>1, <2>1 DEF YoungKept
  <2>2. CASE files[f].status \notin Downloadable
    <3>1. \E u \in Uploads : up[u].pc = "markHashed" /\ up[u].file = f
      BY <1>3, <2>2, HashedBy
    <3> QED BY <1>1, <3>1 DEF YoungKept
  <2> QED BY <2>1, <2>2
<1> QED
  BY <1>2, <1>3 DEF YoungKept

-----------------------------------------------------------------------------
(* Sizes. *)

\* Nothing too large is in the bucket or on its way there.
SizesKept ==
    /\ \A k \in Key : objects[k] # None => ~TooLarge(objects[k])
    /\ \A w \in late : ~TooLarge(w[2])

\* What is on its way is there by a put that was not cut off.
LEMMA LateEnters ==
    ASSUME [Next]_vars, NEW w \in late', w \notin late
    PROVE  \E u \in Uploads : /\ ~TooLarge(up[u].content)
                              /\ w = <<ObjectKey(up[u].file), up[u].content>>
<1>1. CASE UploadNext
  BY <1>1 DEF UploadNext, UploadStep, CreateFile, RejectUpload, AcceptUpload, PutObject,
              PutObjectFails, MarkPutFailed, MarkStored, HashObject, MarkHashFailed,
              MarkHashed, storeVars
<1>2. CASE CleanupNext
  BY <1>2 DEF CleanupNext, JobSelect, JobRemove, JobDelete, JobEnd, storeVars
<1>3. CASE AdminNext
  BY <1>3 DEF AdminNext, AdminStep, DeleteSelect, DeleteRemove, DeleteDelete, SweepSelect,
              SweepRemove, SweepDelete, SweepEnd, storeVars
<1>4. CASE DownloadNext
  BY <1>4 DEF DownloadNext, DownloadStep, CreateLink, VerifyToken, SelectForDownload,
              OpenObject, StreamObject, storeVars
<1>5. CASE UploadCrash
  BY <1>5 DEF UploadCrash
<1> QED
  BY <1>1, <1>2, <1>3, <1>4, <1>5 DEF Next, vars, storeVars, Tick, LateWrite, Crash

\* An object changes to nothing, to a body that fits, or to a late write.
LEMMA ObjectFits ==
    ASSUME TypeInv, [Next]_vars, NEW k \in Key, objects'[k] # None
    PROVE  \/ objects'[k] = objects[k]
           \/ ~TooLarge(objects'[k])
           \/ \E w \in late : objects'[k] = w[2]
<1> USE DEF TypeInv, TypeOK, StoreTypeOK
<1>1. ASSUME NEW j, NEW c, objects' = [objects EXCEPT ![j] = c]
      PROVE  objects'[k] = objects[k] \/ objects'[k] = c
  BY <1>1
<1>2. ASSUME NEW j, objects' = RemoveObject(j)
      PROVE  objects'[k] = objects[k]
  BY <1>1, <1>2 DEF RemoveObject
<1>3. ASSUME NEW u \in Uploads, PutObject(u) \/ PutObjectFails(u)
      PROVE  objects'[k] = objects[k] \/ ~TooLarge(objects'[k])
  <2>1. \/ UNCHANGED objects
        \/ /\ ~TooLarge(up[u].content)
           /\ objects' = [objects EXCEPT ![ObjectKey(up[u].file)] = up[u].content]
    BY <1>3 DEF PutObject, PutObjectFails
  <2> QED BY <1>1, <2>1
<1>4. ASSUME NEW g \in FileId, JobRemove(g)
      PROVE  objects'[k] = objects[k]
  BY <1>2, <1>4 DEF JobRemove
<1>5. ASSUME NEW a \in Admins, DeleteRemove(a)
      PROVE  objects'[k] = objects[k]
  BY <1>2, <1>5 DEF DeleteRemove
<1>6. ASSUME NEW a \in Admins, NEW item \in adm[a].todo, SweepRemove(a, item)
      PROVE  objects'[k] = objects[k]
  BY <1>2, <1>6 DEF SweepRemove
<1>7. CASE LateWrite
  <2>1. PICK w \in late : objects' = [objects EXCEPT ![w[1]] = w[2]]
    BY <1>7 DEF LateWrite
  <2> QED BY <1>1, <2>1
<1> QED
  BY <1>3, <1>4, <1>5, <1>6, <1>7, BucketSteps

LEMMA SizesStep == TypeInv /\ SizesKept /\ [Next]_vars => SizesKept'
<1> SUFFICES ASSUME TypeInv, SizesKept, [Next]_vars PROVE SizesKept'
  OBVIOUS
<1>0. \A c : TooLarge(c)' <=> TooLarge(c)
  BY DEF TooLarge
<1>1. ASSUME NEW k \in Key, objects'[k] # None  PROVE ~TooLarge(objects'[k])
  BY <1>1, ObjectFits DEF SizesKept
<1>2. ASSUME NEW w \in late'  PROVE ~TooLarge(w[2])
  <2>1. CASE w \in late
    BY <2>1 DEF SizesKept
  <2>2. ASSUME NEW u \in Uploads, ~TooLarge(up[u].content),
               w = <<ObjectKey(up[u].file), up[u].content>>
        PROVE  ~TooLarge(w[2])
    BY <2>2
  <2> QED BY <1>2, <2>1, <2>2, LateEnters
<1> QED
  BY <1>1, <1>2 DEF SizesKept, TooLarge

-----------------------------------------------------------------------------
(* What uploads are told. *)

\* A reply is the end of a request, and "hashed" is only told of a file.
Replies ==
    \A u \in Uploads : /\ up[u].pc # "done" => up[u].reply = "none"
                       /\ up[u].reply = "hashed" => up[u].file \in FileId

\* Past its UPDATE to 'stored' a request finds the row not pending, whoever moved
\* it on, and past that to 'hashed' not stored either.
OnTrack(u) ==
    LET s == files[up[u].file].status
    IN  /\ up[u].pc \in {"hash", "markHashFailed", "markHashed"} => s # "pending"
        /\ up[u].reply = "hashed" => s \notin {"pending", "stored"}
AllOnTrack == \A u \in Uploads : up[u].file \in FileId => OnTrack(u)

\* Nobody's row fails without a client being told.
Failures == {"upload failed", "hashing failed"}
FailureTold ==
    \A f \in FileId : files[f].status = "failed" => \E u \in Attempts(f) : up[u].reply \in Failures

\* The steps of an accepted request, seen at the request and at its row.
Advances(u) ==
    LET s == files[up[u].file].status
        t == files'[up[u].file].status
    IN  \/ /\ up[u].pc = "put" /\ up'[u].pc \in {"markStored", "markPutFailed"}
           /\ t = s /\ up'[u].reply = up[u].reply
        \/ /\ up[u].pc = "markStored" /\ up'[u].pc = "hash"
           /\ t = (IF s = "pending" THEN "stored" ELSE s) /\ up'[u].reply = up[u].reply
        \/ /\ up[u].pc = "hash" /\ up'[u].pc \in {"markHashed", "markHashFailed"}
           /\ t = s /\ up'[u].reply = up[u].reply
        \/ /\ up[u].pc = "markHashed" /\ up'[u].pc = "done" /\ up'[u].reply = "hashed"
           /\ t = (IF s = "stored" THEN "hashed" ELSE s)
        \/ /\ up[u].pc \notin {"idle", "done"} /\ up'[u].pc = "done" /\ up'[u].reply # "hashed"
           /\ up'[u].reply \in Failures \/ t \in {s, "stored", "hashed"}

\* What Goto and Answer do.
LEMMA GotoEffect ==
    ASSUME UploadTypeOK, NEW u \in Uploads, NEW label, Goto(u, label)
    PROVE  up'[u].pc = label /\ up'[u].reply = up[u].reply
BY DEF Goto, UploadTypeOK

LEMMA AnswerEffect ==
    ASSUME UploadTypeOK, NEW u \in Uploads, NEW r, Answer(u, r)
    PROVE  up'[u].pc = "done" /\ up'[u].reply = r
BY DEF Answer, UploadTypeOK

LEMMA UploadAdvances ==
    ASSUME TypeInv, NEW u \in Uploads, UploadStep(u)
    PROVE  /\ Advances(u)
           /\ \A v \in Uploads \ {u} : up'[v] = up[v]
           /\ \A f \in FileId \ {up[u].file} : files'[f] = files[f]
<1> USE DEF TypeInv, TypeOK
<1> DEFINE s == files[up[u].file].status
           t == files'[up[u].file].status
<1>1. up[u].pc \notin {"idle", "done"} /\ up[u].file \in FileId
  BY DEF UploadStep, PutObject, PutObjectFails, MarkPutFailed, MarkStored, HashObject,
         MarkHashFailed, MarkHashed, UploadLocals
<1>2. \A v \in Uploads \ {u} : up'[v] = up[v]
  <2>1. \E x : up' = [up EXCEPT ![u] = x]
    BY DEF UploadStep, PutObject, PutObjectFails, MarkPutFailed, MarkStored, HashObject,
           MarkHashFailed, MarkHashed, Goto, Answer
  <2> QED BY <2>1 DEF UploadTypeOK
<1>3. \/ UNCHANGED files
      \/ files' = SetStatusWhere(up[u].file, "pending", "failed")
      \/ files' = SetStatusWhere(up[u].file, "pending", "stored")
      \/ files' = SetStatusWhere(up[u].file, "stored", "failed")
      \/ files' = SetHashWhere(up[u].file, up[u].hash)
  BY DEF UploadStep, PutObject, PutObjectFails, MarkPutFailed, MarkStored, HashObject,
         MarkHashFailed, MarkHashed, storeVars
<1>4. \A f \in FileId \ {up[u].file} : files'[f] = files[f]
  BY <1>3 DEF SetStatusWhere, SetHashWhere, StoreTypeOK
<1>5. CASE PutObject(u) \/ PutObjectFails(u)
  <2>1. (Goto(u, "markStored") \/ Goto(u, "markPutFailed")) /\ up[u].pc = "put" /\ UNCHANGED files
    BY <1>5 DEF PutObject, PutObjectFails
  <2> QED BY <1>2, <1>4, <2>1, GotoEffect DEF Advances
<1>6. CASE MarkPutFailed(u) \/ MarkHashFailed(u)
  <2>1. up'[u].pc = "done" /\ up'[u].reply # "hashed" /\ up'[u].reply \in Failures
    <3>1. CASE MarkPutFailed(u)
      BY <3>1 DEF MarkPutFailed, Answer, UploadTypeOK, Failures
    <3>2. CASE MarkHashFailed(u)
      BY <3>2 DEF MarkHashFailed, Answer, UploadTypeOK, Failures
    <3> QED BY <1>6, <3>1, <3>2
  <2> QED BY <1>1, <1>2, <1>4, <2>1 DEF Advances
<1>7. CASE MarkStored(u)
  <2>1. PICK o \in Outcomes("db") :
            /\ files' = IF Applied(o) THEN SetStatusWhere(up[u].file, "pending", "stored") ELSE files
            /\ IF Failed(o) THEN Answer(u, "db error") ELSE Goto(u, "hash")
    BY <1>7 DEF MarkStored
  <2>2. CASE Failed(o)
    <3>1. Answer(u, "db error")
      BY <2>1, <2>2
    <3>2. up'[u].pc = "done" /\ up'[u].reply # "hashed"
      BY <3>1 DEF Answer, UploadTypeOK
    <3>3. t \in {s, "stored"}
      BY <1>1, <2>1 DEF SetStatusWhere, StoreTypeOK, Row
    <3> QED BY <1>1, <1>2, <1>4, <3>2, <3>3 DEF Advances
  <2>3. CASE ~Failed(o)
    <3>1. files' = SetStatusWhere(up[u].file, "pending", "stored") /\ Goto(u, "hash")
      BY <2>1, <2>3 DEF Failed, Applied
    <3>2. t = (IF s = "pending" THEN "stored" ELSE s)
      BY <1>1, <3>1 DEF SetStatusWhere, StoreTypeOK, Row
    <3>3. up[u].pc = "markStored"
      BY <1>7 DEF MarkStored
    <3> QED BY <1>2, <1>4, <3>1, <3>2, <3>3, GotoEffect DEF Advances
  <2> QED BY <2>2, <2>3
<1>8. CASE HashObject(u)
  <2>1. ASSUME NEW h, up' = [up EXCEPT ![u] = [@ EXCEPT !.pc = "markHashed", !.hash = h]]
        PROVE  up'[u].pc = "markHashed" /\ up'[u].reply = up[u].reply
    BY <2>1 DEF UploadTypeOK
  <2>2. up'[u].pc \in {"markHashed", "markHashFailed"} /\ up'[u].reply = up[u].reply
    BY <1>8, <2>1, GotoEffect DEF HashObject
  <2>3. up[u].pc = "hash" /\ UNCHANGED files
    BY <1>8 DEF HashObject, storeVars
  <2> QED BY <1>2, <1>4, <2>2, <2>3 DEF Advances
<1>9. CASE MarkHashed(u)
  <2>1. PICK o \in Outcomes("db") :
            /\ files' = IF Applied(o) THEN SetHashWhere(up[u].file, up[u].hash) ELSE files
            /\ Answer(u, IF Failed(o) THEN "db error" ELSE "hashed")
    BY <1>9 DEF MarkHashed
  <2>2. CASE Failed(o)
    <3>1. Answer(u, "db error")
      BY <2>1, <2>2
    <3>2. up'[u].pc = "done" /\ up'[u].reply # "hashed"
      BY <3>1 DEF Answer, UploadTypeOK
    <3>3. t \in {s, "hashed"}
      BY <1>1, <2>1 DEF SetHashWhere, StoreTypeOK, Row
    <3> QED BY <1>1, <1>2, <1>4, <3>2, <3>3 DEF Advances
  <2>3. CASE ~Failed(o)
    <3>1. files' = SetHashWhere(up[u].file, up[u].hash) /\ Answer(u, "hashed")
      BY <2>1, <2>3 DEF Failed, Applied
    <3>2. t = (IF s = "stored" THEN "hashed" ELSE s)
      BY <1>1, <3>1 DEF SetHashWhere, StoreTypeOK, Row
    <3>3. up[u].pc = "markHashed"
      BY <1>9 DEF MarkHashed
    <3> QED BY <1>2, <1>4, <3>1, <3>2, <3>3, AnswerEffect DEF Advances
  <2> QED BY <2>2, <2>3
<1> QED
  BY <1>5, <1>6, <1>7, <1>8, <1>9 DEF UploadStep

\* The kinds of steps, seen by the upload requests and by the rows they work on.
LEMMA StepKinds ==
    ASSUME TypeInv, [Next]_vars
    PROVE  \/ \E u \in Uploads : UploadStep(u)
           \/ UNCHANGED up /\ \A f \in issued : files'[f] = files[f] \/ files'[f] = NoRow
           \/ UNCHANGED files /\ \E u \in Uploads : RejectUpload(u)
           \/ UNCHANGED files /\ \E u \in Uploads, f \in FileId, c \in Content : AcceptUpload(u, f, c)
           \/ UNCHANGED files /\ UploadCrash
<1> DEFINE Others == UNCHANGED up /\ \A f \in issued : files'[f] = files[f] \/ files'[f] = NoRow
<1>1. ASSUME NEW g, UNCHANGED up, files' = DeleteRow(g) \/ UNCHANGED files
      PROVE  Others
  BY <1>1 DEF DeleteRow, TypeInv, TypeOK, StoreTypeOK
<1>2. ASSUME NEW g \in FileId, NEW size \in DeclaredSize, CreateFile(g, size)
      PROVE  Others
  BY <1>2 DEF CreateFile, TypeInv, TypeOK, StoreTypeOK
<1>3. CleanupNext => \E g : files' = DeleteRow(g) \/ UNCHANGED files
  BY DEF CleanupNext, JobSelect, JobRemove, JobDelete, JobEnd, storeVars
<1>4. AdminNext => \E g : files' = DeleteRow(g) \/ UNCHANGED files
  BY DEF AdminNext, AdminStep, DeleteSelect, DeleteRemove, DeleteDelete, SweepSelect,
         SweepRemove, SweepDelete, SweepEnd, storeVars
<1>5. DownloadNext \/ LateWrite \/ Tick \/ UNCHANGED vars => UNCHANGED files
  BY DEF DownloadNext, DownloadStep, CreateLink, VerifyToken, SelectForDownload, OpenObject,
         StreamObject, LateWrite, Tick, storeVars, vars
<1>6. CASE UploadNext
  BY <1>2, <1>6 DEF UploadNext, RejectUpload, AcceptUpload, storeVars
<1>7. CASE Crash
  BY <1>7 DEF Crash
<1>8. UploadNext \/ Crash \/ (UNCHANGED up /\ (CleanupNext \/ AdminNext \/ DownloadNext \/ LateWrite \/ Tick \/ UNCHANGED vars))
  BY DEF Next, vars
<1> QED
  BY <1>1, <1>3, <1>4, <1>5, <1>6, <1>7, <1>8

\* Requests that others' steps, or a crash, leave where they are.
LEMMA RejectEffect ==
    ASSUME TypeInv, NEW u \in Uploads, NEW v \in Uploads, RejectUpload(v)
    PROVE  IF u = v THEN up'[u].pc = "done" /\ up'[u].reply = "rejected" /\ up'[u].file = None
                    ELSE up'[u] = up[u]
BY DEF RejectUpload, Answer, TypeInv, TypeOK, UploadTypeOK, UploadLocals

LEMMA AcceptEffect ==
    ASSUME TypeInv, NEW u \in Uploads, NEW v \in Uploads, NEW f \in FileId, NEW c \in Content,
           AcceptUpload(v, f, c)
    PROVE  IF u = v THEN /\ up[u].pc = "idle" /\ files[f].status = "pending"
                         /\ up'[u].pc = "put" /\ up'[u].reply = up[u].reply /\ up'[u].file = f
                    ELSE up'[u] = up[u]
BY DEF AcceptUpload, TypeInv, TypeOK, UploadTypeOK

LEMMA CrashEffect ==
    ASSUME TypeInv, NEW u \in Uploads, UploadCrash
    PROVE  /\ up'[u].file = up[u].file /\ up'[u].reply = up[u].reply
           /\ up'[u] = up[u] \/ up'[u].pc = "done"
BY DEF UploadCrash, TypeInv, TypeOK, UploadTypeOK

LEMMA RepliesStep == TypeInv /\ Replies /\ [Next]_vars => Replies'
<1> SUFFICES ASSUME TypeInv, Replies, [Next]_vars, NEW u \in Uploads
             PROVE  /\ up'[u].pc # "done" => up'[u].reply = "none"
                    /\ up'[u].reply = "hashed" => up'[u].file \in FileId
  BY DEF Replies
<1>1. CASE up'[u] = up[u]
  BY <1>1 DEF Replies
<1>2. CASE UploadStep(u)
  <2>1. up[u].file \in FileId /\ up[u].pc # "done"
    BY <1>2 DEF UploadStep, PutObject, PutObjectFails, MarkPutFailed, MarkStored, HashObject,
                MarkHashFailed, MarkHashed, TypeInv, UploadLocals
  <2>2. up'[u].file = up[u].file
    BY <2>1, AcceptedStays
  <2>3. Advances(u)
    BY <1>2, UploadAdvances
  <2> QED BY <2>1, <2>2, <2>3 DEF Advances, Replies
<1>3. ASSUME NEW v \in Uploads, UploadStep(v), v # u  PROVE up'[u] = up[u]
  BY <1>3, UploadAdvances
<1>4. ASSUME NEW v \in Uploads, RejectUpload(v), ~(up'[u] = up[u])
      PROVE  up'[u].pc = "done" /\ up'[u].reply = "rejected"
  BY <1>4, RejectEffect
<1>5. ASSUME NEW v \in Uploads, NEW f \in FileId, NEW c \in Content, AcceptUpload(v, f, c),
             ~(up'[u] = up[u])
      PROVE  up'[u].reply = "none"
  BY <1>5, AcceptEffect DEF Replies
<1>6. CASE UploadCrash
  BY <1>6, CrashEffect DEF Replies
<1> QED
  BY <1>1, <1>2, <1>3, <1>4, <1>5, <1>6, StepKinds

\* A reply is given once.
LEMMA ReplyStays ==
    ASSUME TypeInv, Replies, [Next]_vars, NEW u \in Uploads, up[u].reply # "none"
    PROVE  up'[u].reply = up[u].reply
<1>0. up[u].pc = "done"
  BY DEF Replies
<1>1. ~UploadStep(u) /\ ~RejectUpload(u) /\ \A f, c : ~AcceptUpload(u, f, c)
  BY <1>0 DEF UploadStep, PutObject, PutObjectFails, MarkPutFailed, MarkStored, HashObject,
              MarkHashFailed, MarkHashed, RejectUpload, AcceptUpload
<1>2. ASSUME NEW v \in Uploads, UploadStep(v)  PROVE up'[u] = up[u]
  BY <1>1, <1>2, UploadAdvances
<1>3. ASSUME NEW v \in Uploads, RejectUpload(v)  PROVE up'[u] = up[u]
  BY <1>1, <1>3, RejectEffect
<1>4. ASSUME NEW v \in Uploads, NEW f \in FileId, NEW c \in Content, AcceptUpload(v, f, c)
      PROVE  up'[u] = up[u]
  BY <1>1, <1>4, AcceptEffect
<1>5. CASE UploadCrash
  BY <1>5, CrashEffect
<1> QED BY <1>2, <1>3, <1>4, <1>5, StepKinds

LEMMA TrackStep ==
    TypeInv /\ Known /\ Replies /\ AllOnTrack /\ [Next]_vars => AllOnTrack'
<1> SUFFICES ASSUME TypeInv, Known, Replies, AllOnTrack, [Next]_vars,
                    NEW u \in Uploads, up'[u].file \in FileId
             PROVE  OnTrack(u)'
  BY DEF AllOnTrack
<1>0. PICK f \in FileId : f = up'[u].file
  OBVIOUS
<1>1. ASSUME up'[u] = up[u]  PROVE OnTrack(u)'
  <2>1. OnTrack(u) /\ f \in issued
    BY <1>0, <1>1 DEF AllOnTrack, Known
  <2>2. \/ files'[f].status = files[f].status
        \/ files'[f].status = "absent"
        \/ /\ files[f].status \in {"pending", "stored"}
           /\ files'[f].status \in {"stored", "failed", "hashed"}
    BY <2>1, RowFate DEF Inserts, MovesOn, Drops, NoRow
  <2> QED BY <1>0, <1>1, <2>1, <2>2 DEF OnTrack
<1>2. CASE UploadStep(u)
  <2>1. up[u].file \in FileId /\ up[u].pc \notin {"idle", "done"}
    BY <1>2 DEF UploadStep, PutObject, PutObjectFails, MarkPutFailed, MarkStored, HashObject,
                MarkHashFailed, MarkHashed, TypeInv, UploadLocals
  <2>2. up[u].file = f /\ OnTrack(u) /\ up[u].reply = "none"
    BY <1>0, <2>1, AcceptedStays DEF Replies, AllOnTrack
  <2>3. Advances(u)
    BY <1>2, UploadAdvances
  <2> QED BY <1>0, <2>2, <2>3 DEF Advances, OnTrack
<1>3. ASSUME NEW v \in Uploads, UploadStep(v), v # u  PROVE up'[u] = up[u]
  BY <1>3, UploadAdvances
<1>4. ASSUME NEW v \in Uploads, RejectUpload(v)  PROVE up'[u] = up[u]
  BY <1>0, <1>4, RejectEffect, NoneAssumption
<1>5. ASSUME NEW v \in Uploads, NEW g \in FileId, NEW c \in Content, AcceptUpload(v, g, c),
             ~(up'[u] = up[u])
      PROVE  OnTrack(u)'
  <2>1. up[u].pc = "idle" /\ up'[u].pc = "put" /\ up'[u].reply = up[u].reply
    BY <1>5, AcceptEffect
  <2>2. up'[u].reply = "none"
    BY <2>1 DEF Replies
  <2> QED BY <2>1, <2>2 DEF OnTrack
<1>6. CASE UploadCrash /\ UNCHANGED files
  <2>1. /\ up'[u].file = up[u].file /\ up'[u].reply = up[u].reply
        /\ up'[u] = up[u] \/ up'[u].pc = "done"
    BY <1>6, CrashEffect
  <2>2. OnTrack(u)
    BY <1>0, <2>1 DEF AllOnTrack
  <2> QED BY <1>0, <1>6, <2>1, <2>2 DEF OnTrack
<1> QED
  BY <1>1, <1>2, <1>3, <1>4, <1>5, <1>6, StepKinds

LEMMA FailureStep ==
    TypeInv /\ Known /\ Replies /\ FailureTold /\ [Next]_vars => FailureTold'
<1> SUFFICES ASSUME TypeInv, Known, Replies, FailureTold, [Next]_vars,
                    NEW f \in FileId, files'[f].status = "failed"
             PROVE  \E u \in Uploads : up'[u].file = f /\ up'[u].reply \in Failures
  BY DEF FailureTold, Attempts
<1>1. CASE files[f].status = "failed"
  <2>1. PICK u \in Uploads : up[u].file = f /\ up[u].reply \in Failures
    BY <1>1 DEF FailureTold, Attempts
  <2>2. up'[u].file = f
    BY <2>1, AcceptedStays
  <2>3. up'[u].reply = up[u].reply
    BY <2>1, ReplyStays DEF Failures
  <2> QED BY <2>1, <2>2, <2>3
<1>2. CASE files[f].status # "failed"
  <2>1. f \in issued /\ files'[f].status # files[f].status
    BY <1>2, RowFate DEF Known, Inserts, MovesOn, Drops, NoRow
  <2>2. NoRow.status # "failed"
    BY DEF NoRow
  <2>3. PICK u \in Uploads : UploadStep(u)
    BY <2>1, <2>2, StepKinds
  <2>4. up[u].file = f
    BY <2>1, <2>3, UploadAdvances
  <2>5. Advances(u)
    BY <2>3, UploadAdvances
  <2>6. up'[u].reply \in Failures
    BY <1>2, <2>1, <2>4, <2>5 DEF Advances
  <2> QED BY <2>4, <2>6, AcceptedStays
<1> QED BY <1>1, <1>2

-----------------------------------------------------------------------------
(* What downloads carry along. *)

\* A download that got past its SELECT has the size of the row, as long as there
\* is one, and it is cut unnoticed only where its size permits it.
Carries(d) ==
    /\ dl[d].file # None => dl[d].file \in issued
    /\ (dl[d].pc \in {"open", "stream"} \/ dl[d].content # None) =>
          files[dl[d].file].status = "absent" \/ files[dl[d].file].size = dl[d].size
    /\ dl[d].body = "cut" => dl[d].pc = "done" /\ dl[d].content # None /\ CutUnnoticed(d)
DownloadsCarry == \A d \in Downloads : Carries(d)

\* The steps of a download, seen at the download.
LEMMA DownloadFate ==
    ASSUME TypeInv, [Next]_vars, NEW d \in Downloads
    PROVE  \/ dl'[d] = dl[d]
           \/ /\ UNCHANGED files
              /\ \/ \E t \in tokens : VerifyToken(d, t)
                 \/ SelectForDownload(d) \/ OpenObject(d) \/ StreamObject(d)
           \/ UNCHANGED files /\ dl'[d] = [dl[d] EXCEPT !.pc = "done"]
<1> USE DEF TypeInv, TypeOK, DownloadTypeOK
<1>1. ASSUME NEW e \in Downloads, NEW t \in tokens, VerifyToken(e, t), e # d
      PROVE  dl'[d] = dl[d]
  BY <1>1 DEF VerifyToken
<1>2. ASSUME NEW e \in Downloads, NEW b, FinishDownload(e, b), e # d
      PROVE  dl'[d] = dl[d]
  BY <1>2 DEF FinishDownload
<1>3. ASSUME NEW e \in Downloads, DownloadStep(e), e # d
      PROVE  dl'[d] = dl[d]
  BY <1>2, <1>3 DEF DownloadStep, SelectForDownload, OpenObject, StreamObject
<1>4. CASE DownloadNext
  <2>1. UNCHANGED files
    BY <1>4 DEF DownloadNext, DownloadStep, CreateLink, VerifyToken, SelectForDownload,
                OpenObject, StreamObject, storeVars
  <2>2. ASSUME NEW f \in FileId, NEW ttl \in RequestedTTL, CreateLink(f, ttl)
        PROVE  dl'[d] = dl[d]
    BY <2>2 DEF CreateLink
  <2> QED BY <1>1, <1>3, <1>4, <2>1, <2>2 DEF DownloadNext, DownloadStep
<1>5. CASE Crash
  BY <1>5 DEF Crash, DownloadCrash
<1>6. UNCHANGED dl \/ DownloadNext \/ Crash
  BY DEF Next, vars
<1> QED BY <1>4, <1>5, <1>6

LEMMA CarryStep ==
    TypeInv /\ Known /\ DownloadsCarry /\ [Next]_vars => DownloadsCarry'
<1> SUFFICES ASSUME TypeInv, Known, DownloadsCarry, [Next]_vars, NEW d \in Downloads
             PROVE  Carries(d)'
  BY DEF DownloadsCarry
<1> USE DEF TypeInv, TypeOK, DownloadTypeOK
<1>0. Carries(d) /\ issued \subseteq issued'
  BY IssuedGrows DEF DownloadsCarry
<1>1. CASE dl'[d] = dl[d]
  <2>1. ASSUME NEW f \in issued, files[f].status = "absent" \/ files[f].size = dl[d].size
        PROVE  files'[f].status = "absent" \/ files'[f].size = dl[d].size
    <3>1. f \in FileId
      BY DEF StoreTypeOK
    <3> QED BY <2>1, <3>1, RowFate, GoneStays DEF Inserts, MovesOn, Drops, NoRow
  <2>2. (dl[d].pc \in {"open", "stream"} \/ dl[d].content # None) => dl[d].file \in issued
    BY <1>0, NoneAssumption DEF Carries, DownloadLocals
  <2>3. CutUnnoticed(d)' <=> CutUnnoticed(d)
    BY <1>1 DEF CutUnnoticed
  <2> QED BY <1>0, <1>1, <2>1, <2>2, <2>3 DEF Carries
<1>2. ASSUME NEW t \in tokens, VerifyToken(d, t)  PROVE Carries(d)'
  <2>1. /\ dl'[d].content = None /\ dl'[d].body = dl[d].body
        /\ dl'[d].pc \in {"done", "select"} /\ dl'[d].file \in {dl[d].file, t.file}
    BY <1>2 DEF VerifyToken, DownloadLocals
  <2>2. dl[d].pc = "idle" /\ t.file \in issued
    BY <1>2 DEF VerifyToken, DownloadLocals, Known
  <2> QED BY <1>0, <2>1, <2>2 DEF Carries
<1>3. ASSUME NEW b, FinishDownload(d, b), UNCHANGED files,
             b = "cut" => dl[d].content # None /\ CutUnnoticed(d)
      PROVE  Carries(d)'
  <2>1. /\ dl'[d].file = dl[d].file /\ dl'[d].content = dl[d].content
        /\ dl'[d].size = dl[d].size /\ dl'[d].pc = "done" /\ dl'[d].body = b
    BY <1>3 DEF FinishDownload
  <2>2. CutUnnoticed(d)' <=> CutUnnoticed(d)
    BY <2>1 DEF CutUnnoticed
  <2> QED BY <1>0, <1>3, <2>1, <2>2 DEF Carries
<1>4. ASSUME SelectForDownload(d), UNCHANGED files  PROVE Carries(d)'
  <2>1. ASSUME dl' = [dl EXCEPT ![d] = [@ EXCEPT !.pc = "open", !.size = files[dl[d].file].size]]
        PROVE  Carries(d)'
    <3>1. /\ dl'[d].file = dl[d].file /\ dl'[d].content = dl[d].content
          /\ dl'[d].size = files[dl[d].file].size /\ dl'[d].body = dl[d].body
      BY <2>1
    <3>2. dl[d].body # "cut"
      BY <1>0, <1>4 DEF Carries, SelectForDownload
    <3> QED BY <1>0, <1>4, <3>1, <3>2 DEF Carries
  <2> QED BY <1>3, <1>4, <2>1 DEF SelectForDownload
<1>5. ASSUME OpenObject(d), UNCHANGED files  PROVE Carries(d)'
  <2>1. ASSUME NEW c, dl' = [dl EXCEPT ![d] = [@ EXCEPT !.pc = "stream", !.content = c]]
        PROVE  Carries(d)'
    <3>1. /\ dl'[d].file = dl[d].file /\ dl'[d].size = dl[d].size
          /\ dl'[d].body = dl[d].body
      BY <2>1
    <3>2. dl[d].pc = "open"
      BY <1>5 DEF OpenObject
    <3> QED BY <1>0, <1>5, <3>1, <3>2 DEF Carries
  <2> QED BY <1>3, <1>5, <2>1 DEF OpenObject
<1>6. ASSUME StreamObject(d), UNCHANGED files  PROVE Carries(d)'
  <2>1. dl[d].content # None
    BY <1>6, NoneAssumption DEF StreamObject, DownloadLocals
  <2> QED BY <1>3, <1>6, <2>1 DEF StreamObject
<1>7. CASE UNCHANGED files /\ dl'[d] = [dl[d] EXCEPT !.pc = "done"]
  <2>1. /\ dl'[d].file = dl[d].file /\ dl'[d].content = dl[d].content
        /\ dl'[d].size = dl[d].size /\ dl'[d].pc = "done" /\ dl'[d].body = dl[d].body
    BY <1>7
  <2>2. CutUnnoticed(d)' <=> CutUnnoticed(d)
    BY <2>1 DEF CutUnnoticed
  <2> QED BY <1>0, <1>7, <2>1, <2>2 DEF Carries
<1> QED
  BY <1>1, <1>2, <1>4, <1>5, <1>6, <1>7, DownloadFate

-----------------------------------------------------------------------------
(* The inductive invariant, and what follows from it. *)

RecordInv ==
    /\ TypeInv /\ Provenance /\ NeverReady /\ Known
    /\ LinkedFileHashed /\ DeletedGone
    /\ TargetsStale /\ YoungKept /\ SizesKept
    /\ Replies /\ AllOnTrack /\ FailureTold
    /\ DownloadsCarry

LEMMA RecordInit == Init => RecordInv
<1> SUFFICES ASSUME Init PROVE RecordInv
  OBVIOUS
<1>1. TypeInv /\ Provenance
  BY TypeInit, ProvenanceInit
<1>2. /\ \A f \in FileId : files[f].status = "absent"
      /\ \A k \in Key : objects[k] = None
      /\ late = {} /\ tokens = {}
  BY DEF Init, StoreInit, DownloadInit, NoRow
<1>3. \A u \in Uploads : up[u].pc = "idle" /\ up[u].file = None /\ up[u].reply = "none"
  BY DEF Init, UploadInit
<1>4. \A a \in Admins : adm[a].pc = "idle" /\ adm[a].todo = {} /\ adm[a].reply = "none"
  BY DEF Init, AdminInit
<1>5. job = [pc |-> "idle", batch |-> {}, cur |-> None]
  BY DEF Init, CleanupInit
<1>6. NeverReady /\ Known
  BY <1>2, <1>3, <1>4, NoneAssumption DEF NeverReady, Known
<1>7. LinkedFileHashed /\ DeletedGone
  BY <1>2, <1>4 DEF LinkedFileHashed, DeletedGone
<1>8. TargetsStale
  BY <1>4, <1>5 DEF TargetsStale, JobTargets, AdminTargets
<1>9. YoungKept /\ SizesKept
  BY <1>2, <1>3 DEF YoungKept, SizesKept, Downloadable
<1>10. Replies /\ AllOnTrack /\ FailureTold
  BY <1>2, <1>3, NoneAssumption DEF Replies, AllOnTrack, FailureTold
<1>11. DownloadsCarry
  BY DEF Init, DownloadInit, DownloadsCarry, Carries
<1> QED
  BY <1>1, <1>6, <1>7, <1>8, <1>9, <1>10, <1>11 DEF RecordInv

LEMMA RecordStep == RecordInv /\ [Next]_vars => RecordInv'
BY TypeStep, ProvenanceStep, NeverReadyStep, KnownStep, LinksStep, DeletedStep, TargetsStep,
   YoungStep, SizesStep, RepliesStep, TrackStep, FailureStep, CarryStep DEF RecordInv

LEMMA RecordInvariant == Spec => []RecordInv
BY RecordInit, RecordStep, PTL DEF Spec

\* A link never leads to a file that is not hashed yet, or no longer.
THEOREM LinksLeadToHashedFiles == Spec => []LinkedFileHashed
<1>1. RecordInv => LinkedFileHashed
  BY DEF RecordInv
<1> QED BY <1>1, RecordInvariant, PTL

\* Once an admin delete answered 204, no upload, sweep or crash brings the row
\* back: ids are not issued twice, and every UPDATE asks for the status.
THEOREM AdminDeletesAreFinal == Spec => []AdminDeleteFinal
<1>1. RecordInv => AdminDeleteFinal
  BY DEF RecordInv, DeletedGone, AdminDeleteFinal
<1> QED BY <1>1, RecordInvariant, PTL

\* The batch of a sweep may be old when its DELETEs run; the rows they hit have
\* expired all the same, since a row's age only grows and its id is not reused.
THEOREM SweepsTakeOnlyExpired == Spec => SweepsOnlyExpired
<1> DEFINE A == \A f \in FileId :
                   (/\ files[f].status # "absent" /\ files'[f].status = "absent"
                    /\ ~ \E a \in Admins : adm[a].pc = "delete" /\ adm[a].cur = f /\ adm'[a].pc = "done")
                       => files[f].created < now - MaxAge
<1>1. RecordInv /\ [Next]_vars => [A]_vars
  BY SweepStep DEF RecordInv
<1> QED BY <1>1, RecordInvariant, PTL DEF Spec, SweepsOnlyExpired

\* The object of a downloadable file is there until the file is older than
\* MaxAge, though sweeps remove objects by a selection they do not repeat.
THEOREM YoungFilesKeepObjects == Spec => []YoungFileHasObject
<1>1. RecordInv => YoungFileHasObject
  <2> SUFFICES ASSUME RecordInv, NEW f \in FileId, files[f].status \in Downloadable,
                      files[f].created >= now - MaxAge
               PROVE  objects[ObjectKey(f)] # None
    BY DEF YoungFileHasObject
  <2>1. Stale(f) \/ HasObject(f)
    BY DEF RecordInv, YoungKept
  <2>2. ~Stale(f)
    BY TimeAssumption DEF Stale, RecordInv, TypeInv, TypeOK, StoreTypeOK, Row, Downloadable
  <2> QED BY <2>1, <2>2 DEF HasObject
<1> QED BY <1>1, RecordInvariant, PTL

\* The limit on request bodies bounds every object, those written after an error
\* or a crash included.
THEOREM ObjectsFitLimit == Spec => []NoOversizedObject
<1>1. RecordInv => NoOversizedObject
  <2> SUFFICES ASSUME RecordInv, NEW k \in Key, objects[k] # None, MaxUploadBytes > 0
               PROVE  SizeOf[objects[k]] + Framing <= MaxUploadBytes
    BY DEF NoOversizedObject
  <2>1. objects[k] \in Content
    BY DEF RecordInv, TypeInv, TypeOK, StoreTypeOK
  <2>2. SizeOf[objects[k]] \in Nat
    BY <2>1, ContentAssumption
  <2>3. ~TooLarge(objects[k])
    BY DEF RecordInv, SizesKept
  <2> QED BY <2>2, <2>3, UploadAssumption DEF TooLarge
<1> QED BY <1>1, RecordInvariant, PTL

\* An upload is told "hashed" only if its row is, or was, unless another upload
\* of the file was told of the failure that the row records.
THEOREM HashedRepliesAreTrue == Spec => []HashedReplyTruthful
<1>1. RecordInv => HashedReplyTruthful
  <2> SUFFICES ASSUME RecordInv, NEW u \in Uploads, up[u].reply = "hashed"
               PROVE  \/ files[up[u].file].status \in {"hashed", "absent"}
                      \/ /\ files[up[u].file].status = "failed"
                         /\ \E v \in Attempts(up[u].file) : up[v].reply \in Failures
    BY DEF HashedReplyTruthful, Failures
  <2>1. up[u].file \in FileId
    BY DEF RecordInv, Replies
  <2>2. files[up[u].file].status \notin {"pending", "stored", "ready"}
    BY <2>1 DEF RecordInv, AllOnTrack, OnTrack, NeverReady
  <2>3. files[up[u].file].status \in {"hashed", "failed", "absent"}
    BY <2>1, <2>2 DEF RecordInv, TypeInv, TypeOK, StoreTypeOK, Row, Status
  <2> QED BY <2>1, <2>3 DEF RecordInv, FailureTold
<1> QED BY <1>1, RecordInvariant, PTL

\* A file whose size was declared truly is never served cut in a response that
\* looks complete, whatever fails or replaces the object while it is read.
THEOREM TruncationShows == Spec => []NoSilentTruncation
<1>1. RecordInv => NoSilentTruncation
  <2> SUFFICES ASSUME RecordInv, NEW d \in Downloads, dl[d].file # None,
                      files[dl[d].file].status \in Downloadable,
                      files[dl[d].file].size = files[dl[d].file].hash.bytes,
                      files[dl[d].file].size > 0, OneBody(dl[d].file),
                      dl[d].body = "cut"
               PROVE  FALSE
    BY DEF NoSilentTruncation
  <2>1. PICK f \in FileId : f = dl[d].file
    BY DEF RecordInv, TypeInv, TypeOK, DownloadTypeOK
  <2>2. dl[d].content # None /\ CutUnnoticed(d) /\ dl[d].size = files[f].size
    BY <2>1 DEF RecordInv, DownloadsCarry, Carries, Downloadable
  <2>3. dl[d].content \in Offered(f)
    BY <2>1, <2>2 DEF RecordInv, Provenance, StreamsOffered
  <2>4. PICK c \in Offered(f) : files[f].hash = HashTool(c)
    BY <2>1 DEF RecordInv, Provenance, RowsOffered
  <2>5. files[f].hash.bytes = SizeOf[dl[d].content]
    BY <2>1, <2>3, <2>4, OneBodyOffer DEF HashTool
  <2>6. dl[d].size \in Nat /\ dl[d].size > 0 /\ dl[d].size = SizeOf[dl[d].content]
    BY <2>1, <2>2, <2>5 DEF RecordInv, TypeInv, TypeOK, DownloadTypeOK
  <2> QED BY <2>2, <2>6 DEF CutUnnoticed
<1> QED BY <1>1, RecordInvariant, PTL
=============================================================================
