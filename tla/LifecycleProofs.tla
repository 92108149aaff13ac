-------------------------- MODULE LifecycleProofs --------------------------
(***************************************************************************)
(* The backend implements FileLifecycle: its initial states map to initial *)
(* states, and every step of every handler, of the sweeps, of the store    *)
(* and of a crash maps to one step of one record, or to none.              *)
(***************************************************************************)
EXTENDS RecordProofs

LEMMA LifecycleInit == Init => Lifecycle!Init
<1> SUFFICES ASSUME Init PROVE Lifecycle!Init
  OBVIOUS
<1>1. \A f \in FileId : files[f].status = "absent" /\ files[f].hash = None
  BY DEF Init, StoreInit, NoRow
<1>2. \A f \in FileId : Attempts(f) = {}
  BY NoneAssumption DEF Init, UploadInit, Attempts
<1>3. issued = {}
  BY DEF Init, StoreInit
<1> QED
  BY <1>1, <1>2, <1>3 DEF Lifecycle!Init

\* What a step leaves alone, in the terms of FileLifecycle.
SameRecord(f) == files'[f].status = files[f].status /\ files'[f].hash = files[f].hash
SameOffers == \A u \in Uploads : up'[u].file = up[u].file /\ up'[u].content = up[u].content

LEMMA OffersKept ==
    ASSUME SameOffers
    PROVE  \A f \in FileId : Attempts(f)' = Attempts(f) /\ Offered(f)' = Offered(f)
<1> SUFFICES ASSUME NEW f \in FileId
             PROVE  Attempts(f)' = Attempts(f) /\ Offered(f)' = Offered(f)
  OBVIOUS
<1>1. Attempts(f)' = Attempts(f)
  BY DEF SameOffers, Attempts
<1>2. \A u \in Attempts(f) : up'[u].content = up[u].content
  BY DEF SameOffers, Attempts
<1> QED BY <1>1, <1>2 DEF Offered

LEMMA RecordStutters ==
    ASSUME \A f \in FileId : SameRecord(f), SameOffers, UNCHANGED issued
    PROVE  UNCHANGED Lifecycle!lifecycleVars
<1>1. [f \in FileId |-> files'[f].status] = [f \in FileId |-> files[f].status]
  BY DEF SameRecord
<1>2. [f \in FileId |-> files'[f].hash] = [f \in FileId |-> files[f].hash]
  BY DEF SameRecord
<1>3. [f \in FileId |-> {up'[u].content : u \in Attempts(f)'}] = [f \in FileId |-> {up[u].content : u \in Attempts(f)}]
  BY OffersKept DEF Offered
<1> QED BY <1>1, <1>2, <1>3 DEF Lifecycle!lifecycleVars

\* The mapped variables.
StatusMap == [f \in FileId |-> files[f].status]
HashMap == [f \in FileId |-> files[f].hash]
OfferMap == [f \in FileId |-> {up[u].content : u \in Attempts(f)}]

LEMMA OfferMapKept == ASSUME SameOffers PROVE OfferMap' = OfferMap
BY OffersKept DEF OfferMap, Offered

\* A conditional UPDATE: the abstract step when it hits, a stutter when not.
LEMMA StatusMoves ==
    ASSUME TypeInv, NEW f \in FileId, NEW from, NEW to, files[f].status = from,
           files' = SetStatusWhere(f, from, to)
    PROVE  StatusMap' = [StatusMap EXCEPT ![f] = to] /\ HashMap' = HashMap
<1> USE DEF TypeInv, TypeOK, StoreTypeOK, Row, SetStatusWhere
<1>1. \A g \in FileId : files'[g].status = IF g = f THEN to ELSE files[g].status
  OBVIOUS
<1>2. \A g \in FileId : files'[g].hash = files[g].hash
  OBVIOUS
<1> QED BY ONLY <1>1, <1>2 DEF StatusMap, HashMap

LEMMA StatusMisses ==
    ASSUME TypeInv, NEW f \in FileId, NEW from, NEW to, files[f].status # from,
           files' = SetStatusWhere(f, from, to)
    PROVE  \A g \in FileId : SameRecord(g)
BY DEF TypeInv, TypeOK, StoreTypeOK, Row, SetStatusWhere, SameRecord

LEMMA HashHits ==
    ASSUME TypeInv, NEW f \in FileId, NEW h, files[f].status = "stored",
           files' = SetHashWhere(f, h)
    PROVE  StatusMap' = [StatusMap EXCEPT ![f] = "hashed"] /\ HashMap' = [HashMap EXCEPT ![f] = h]
<1> USE DEF TypeInv, TypeOK, StoreTypeOK, Row, SetHashWhere
<1>1. \A g \in FileId : files'[g].status = IF g = f THEN "hashed" ELSE files[g].status
  OBVIOUS
<1>2. \A g \in FileId : files'[g].hash = IF g = f THEN h ELSE files[g].hash
  OBVIOUS
<1> QED BY ONLY <1>1, <1>2 DEF StatusMap, HashMap

LEMMA HashMisses ==
    ASSUME TypeInv, NEW f \in FileId, NEW h, files[f].status # "stored",
           files' = SetHashWhere(f, h)
    PROVE  \A g \in FileId : SameRecord(g)
BY DEF TypeInv, TypeOK, StoreTypeOK, Row, SetHashWhere, SameRecord

LEMMA RowDeleted ==
    ASSUME TypeInv, NEW f \in FileId, files' = DeleteRow(f)
    PROVE  StatusMap' = [StatusMap EXCEPT ![f] = "absent"] /\ HashMap' = [HashMap EXCEPT ![f] = None]
<1> USE DEF TypeInv, TypeOK, StoreTypeOK, DeleteRow, NoRow
<1>1. \A g \in FileId : files'[g].status = IF g = f THEN "absent" ELSE files[g].status
  OBVIOUS
<1>2. \A g \in FileId : files'[g].hash = IF g = f THEN None ELSE files[g].hash
  OBVIOUS
<1> QED BY ONLY <1>1, <1>2 DEF StatusMap, HashMap

LEMMA RowInserted ==
    ASSUME TypeInv, NEW f \in FileId, NEW size, files[f].hash = None, files' = Inserted(f, size)
    PROVE  StatusMap' = [StatusMap EXCEPT ![f] = "pending"] /\ HashMap' = HashMap
<1> USE DEF TypeInv, TypeOK, StoreTypeOK, Inserted
<1>1. \A g \in FileId : files'[g].status = IF g = f THEN "pending" ELSE files[g].status
  OBVIOUS
<1>2. \A g \in FileId : files'[g].hash = files[g].hash
  OBVIOUS
<1> QED BY ONLY <1>1, <1>2 DEF StatusMap, HashMap

\* One mapping lemma per step of the backend that FileLifecycle sees.
MapsToStep == [Lifecycle!Next]_(Lifecycle!lifecycleVars)

LEMMA RecordInvRows ==
    ASSUME RecordInv, NEW f \in FileId, files[f].status \notin Downloadable
    PROVE  files[f].hash = None
BY DEF RecordInv, Provenance, RowsOffered

LEMMA CreateMaps ==
    ASSUME RecordInv, NEW f \in FileId, NEW size \in DeclaredSize, CreateFile(f, size)
    PROVE  Lifecycle!Create(f)
<1>1. f \notin issued /\ issued' = issued \cup {f} /\ UNCHANGED up
  BY DEF CreateFile
<1>2. files[f].hash = None
  BY <1>1, RecordInvRows DEF RecordInv, Known, Downloadable
<1>3. OfferMap' = OfferMap
  BY <1>1, OfferMapKept DEF SameOffers
<1>4. CASE UNCHANGED files
  BY <1>1, <1>3, <1>4 DEF Lifecycle!Create, OfferMap
<1>5. CASE files' = Inserted(f, size)
  <2>1. StatusMap' = [StatusMap EXCEPT ![f] = "pending"] /\ HashMap' = HashMap
    BY <1>2, <1>5, RowInserted DEF RecordInv
  <2> QED BY <1>1, <1>3, <2>1 DEF Lifecycle!Create, OfferMap, StatusMap, HashMap
<1> QED BY <1>4, <1>5 DEF CreateFile, Inserted

LEMMA AcceptMaps ==
    ASSUME RecordInv, NEW u \in Uploads, NEW f \in FileId, NEW c \in Content, AcceptUpload(u, f, c)
    PROVE  Lifecycle!Offer(f, c)
<1> USE DEF RecordInv, TypeInv, TypeOK
<1>1. files[f].status = "pending" /\ UNCHANGED <<files, issued>> /\ up[u].file = None
  BY DEF AcceptUpload, storeVars, UploadLocals
<1>2. /\ up'[u].file = f /\ up'[u].content = c
      /\ \A v \in Uploads \ {u} : up'[v] = up[v]
  BY DEF AcceptUpload, UploadTypeOK
<1>3. Attempts(f)' = Attempts(f) \cup {u} /\ u \notin Attempts(f)
  BY <1>1, <1>2, NoneAssumption DEF Attempts
<1>4. \A g \in FileId \ {f} : Attempts(g)' = Attempts(g) /\ u \notin Attempts(g)
  BY <1>1, <1>2, NoneAssumption DEF Attempts
<1>5. Offered(f)' = Offered(f) \cup {c}
  <2>1. \A v \in Attempts(f) : v \in Uploads \ {u}
    BY <1>3 DEF Attempts
  <2> QED BY <1>2, <1>3, <2>1 DEF Offered
<1>6. ASSUME NEW g \in FileId \ {f}  PROVE Offered(g)' = Offered(g)
  <2>1. \A v \in Attempts(g) : v \in Uploads \ {u}
    BY <1>4 DEF Attempts
  <2> QED BY <1>2, <1>4, <2>1 DEF Offered
<1>7. OfferMap' = [OfferMap EXCEPT ![f] = @ \cup {c}]
  BY <1>5, <1>6 DEF OfferMap, Offered
<1> QED BY <1>1, <1>7 DEF Lifecycle!Offer, OfferMap

LEMMA DeleteMaps ==
    ASSUME RecordInv, NEW f \in FileId, files' = DeleteRow(f) \/ UNCHANGED files, UNCHANGED <<up, issued>>
    PROVE  Lifecycle!Delete(f) \/ UNCHANGED Lifecycle!lifecycleVars
<1>1. SameOffers
  BY DEF SameOffers
<1>2. OfferMap' = OfferMap
  BY <1>1, OfferMapKept
<1>3. CASE UNCHANGED files
  BY <1>1, <1>3, RecordStutters DEF SameRecord
<1>4. CASE files' = DeleteRow(f)
  <2>1. StatusMap' = [StatusMap EXCEPT ![f] = "absent"] /\ HashMap' = [HashMap EXCEPT ![f] = None]
    BY <1>4, RowDeleted DEF RecordInv
  <2>2. CASE files[f].status # "absent"
    BY <1>2, <2>1, <2>2 DEF Lifecycle!Delete, OfferMap, StatusMap, HashMap
  <2>3. CASE files[f].status = "absent"
    <3>1. files[f].hash = None
      BY <2>3, RecordInvRows DEF Downloadable
    <3>2. \A g \in FileId : SameRecord(g)
      BY <1>4, <2>3, <3>1 DEF DeleteRow, NoRow, SameRecord, RecordInv, TypeInv, TypeOK, StoreTypeOK
    <3> QED BY <1>1, <3>2, RecordStutters
  <2> QED BY <2>2, <2>3
<1> QED BY <1>3, <1>4

LEMMA UploadKeepsOffers ==
    ASSUME TypeInv, NEW v \in Uploads, UploadStep(v) \/ RejectUpload(v)
    PROVE  SameOffers
<1> USE DEF TypeInv, TypeOK, UploadTypeOK, SameOffers
<1>1. ASSUME NEW label, Goto(v, label)  PROVE SameOffers
  BY <1>1 DEF Goto
<1>2. ASSUME NEW r, Answer(v, r)  PROVE SameOffers
  BY <1>2 DEF Answer
<1>3. ASSUME NEW h, up' = [up EXCEPT ![v] = [@ EXCEPT !.pc = "markHashed", !.hash = h]]
      PROVE  SameOffers
  BY <1>3
<1>4. \/ \E label : Goto(v, label)
      \/ \E r : Answer(v, r)
      \/ \E h : up' = [up EXCEPT ![v] = [@ EXCEPT !.pc = "markHashed", !.hash = h]]
  BY DEF UploadStep, RejectUpload, PutObject, PutObjectFails, MarkPutFailed, MarkStored,
         HashObject, MarkHashFailed, MarkHashed
<1> HIDE DEF SameOffers
<1> QED BY <1>1, <1>2, <1>3, <1>4

LEMMA UploadMaps ==
    ASSUME RecordInv, NEW u \in Uploads, UploadStep(u)
    PROVE  MapsToStep
<1>1. up[u].pc \notin {"idle", "done"} /\ UNCHANGED issued
  BY DEF UploadStep, PutObject, PutObjectFails, MarkPutFailed, MarkStored, HashObject,
         MarkHashFailed, MarkHashed, storeVars
<1>2. PICK f \in FileId : f = up[u].file
  BY <1>1 DEF RecordInv, TypeInv, UploadLocals
<1>2a. up[u].content \in Content /\ u \in Attempts(f)
  BY <1>2 DEF RecordInv, TypeInv, UploadLocals, Attempts
<1>3. SameOffers /\ OfferMap' = OfferMap
  BY UploadKeepsOffers, OfferMapKept DEF RecordInv
<1>4. OfferMap[f] # {}
  BY <1>2a DEF OfferMap
<1>5. \/ UNCHANGED files
      \/ files' = SetStatusWhere(f, "pending", "failed")
      \/ files' = SetStatusWhere(f, "pending", "stored")
      \/ files' = SetStatusWhere(f, "stored", "failed")
      \/ up[u].pc = "markHashed" /\ files' = SetHashWhere(f, up[u].hash)
  BY <1>2 DEF UploadStep, PutObject, PutObjectFails, MarkPutFailed, MarkStored, HashObject,
              MarkHashFailed, MarkHashed, storeVars
<1>6. ASSUME \A g \in FileId : SameRecord(g)
      PROVE  MapsToStep
  BY <1>1, <1>3, <1>6, RecordStutters DEF MapsToStep
<1>7. CASE UNCHANGED files
  BY <1>6, <1>7 DEF SameRecord
<1>8. ASSUME NEW from \in {"pending", "stored"}, files[f].status = from,
             files' = SetStatusWhere(f, from, "failed")
      PROVE  MapsToStep
  <2>1. StatusMap' = [StatusMap EXCEPT ![f] = "failed"] /\ HashMap' = HashMap
    BY <1>2a, <1>8, StatusMoves DEF RecordInv
  <2>2. Lifecycle!Fail(f)
    BY <1>1, <1>2a, <1>3, <1>4, <1>8, <2>1 DEF Lifecycle!Fail, OfferMap, StatusMap, HashMap
  <2> QED BY <1>2a, <2>2 DEF MapsToStep, Lifecycle!Next
<1>9. ASSUME files[f].status = "pending", files' = SetStatusWhere(f, "pending", "stored")
      PROVE  MapsToStep
  <2>1. StatusMap' = [StatusMap EXCEPT ![f] = "stored"] /\ HashMap' = HashMap
    BY <1>2a, <1>9, StatusMoves DEF RecordInv
  <2>2. Lifecycle!Store(f)
    BY <1>1, <1>2a, <1>3, <1>4, <1>9, <2>1 DEF Lifecycle!Store, OfferMap, StatusMap, HashMap
  <2> QED BY <1>2a, <2>2 DEF MapsToStep, Lifecycle!Next
<1>10. ASSUME NEW from, NEW to, files[f].status # from, files' = SetStatusWhere(f, from, to)
       PROVE  MapsToStep
  BY <1>2a, <1>6, <1>10, StatusMisses DEF RecordInv
<1>11. CASE up[u].pc = "markHashed" /\ files' = SetHashWhere(f, up[u].hash)
  <2>1. PICK c \in Offered(f) : up[u].hash = HashTool(c)
    BY <1>2, <1>11 DEF RecordInv, Provenance, HashesOffered
  <2>2. c \in OfferMap[f] /\ c \in Content
    BY <1>2a, <2>1 DEF OfferMap, Offered, Attempts, RecordInv, TypeInv, UploadLocals
  <2>3. CASE files[f].status = "stored"
    <3>1. StatusMap' = [StatusMap EXCEPT ![f] = "hashed"] /\ HashMap' = [HashMap EXCEPT ![f] = HashTool(c)]
      BY <1>2a, <1>11, <2>1, <2>3, HashHits DEF RecordInv
    <3>2. Lifecycle!RecordHash(f, c)
      BY <1>1, <1>2a, <1>3, <2>2, <2>3, <3>1
         DEF Lifecycle!RecordHash, OfferMap, StatusMap, HashMap
    <3> QED BY <1>2a, <2>2, <3>2 DEF MapsToStep, Lifecycle!Next
  <2>4. CASE files[f].status # "stored"
    BY <1>2a, <1>6, <1>11, <2>4, HashMisses DEF RecordInv
  <2> QED BY <2>3, <2>4
<1> QED BY <1>5, <1>7, <1>8, <1>9, <1>10, <1>11

LEMMA LifecycleStep == RecordInv /\ [Next]_vars => MapsToStep
<1> SUFFICES ASSUME RecordInv, [Next]_vars PROVE MapsToStep
  OBVIOUS
<1>1. ASSUME \A f \in FileId : SameRecord(f), SameOffers, UNCHANGED issued
      PROVE  MapsToStep
  BY <1>1, RecordStutters DEF MapsToStep
<1>2. CASE UploadNext
  <2>1. ASSUME NEW f \in FileId, NEW size \in DeclaredSize, CreateFile(f, size)
        PROVE  MapsToStep
    BY <2>1, CreateMaps DEF MapsToStep, Lifecycle!Next
  <2>2. ASSUME NEW u \in Uploads, RejectUpload(u)
        PROVE  MapsToStep
    <3>1. SameOffers
      BY <2>2, UploadKeepsOffers DEF RecordInv
    <3> QED BY <1>1, <2>2, <3>1 DEF RejectUpload, storeVars, SameRecord
  <2>3. ASSUME NEW u \in Uploads, NEW f \in FileId, NEW c \in Content, AcceptUpload(u, f, c)
        PROVE  MapsToStep
    BY <2>3, AcceptMaps DEF MapsToStep, Lifecycle!Next
  <2>4. ASSUME NEW u \in Uploads, UploadStep(u)
        PROVE  MapsToStep
    BY <2>4, UploadMaps
  <2> QED BY <1>2, <2>1, <2>2, <2>3, <2>4 DEF UploadNext
<1>3. ASSUME NEW f \in FileId, files' = DeleteRow(f) \/ UNCHANGED files, UNCHANGED <<up, issued>>
      PROVE  MapsToStep
  BY <1>3, DeleteMaps DEF MapsToStep, Lifecycle!Next
<1>4. ASSUME UNCHANGED <<files, up, issued>>
      PROVE  MapsToStep
  BY <1>1, <1>4 DEF SameRecord, SameOffers
<1>5. CASE CleanupNext /\ UNCHANGED up
  <2>1. UNCHANGED issued
    BY <1>5 DEF CleanupNext, JobSelect, JobRemove, JobDelete, JobEnd, storeVars
  <2>2. UNCHANGED files \/ (job.cur \in FileId /\ files' = DeleteRow(job.cur))
    BY <1>5 DEF CleanupNext, JobSelect, JobRemove, JobDelete, JobEnd, storeVars,
                RecordInv, TypeInv, JobLocals
  <2> QED BY <1>3, <1>4, <1>5, <2>1, <2>2
<1>6. CASE AdminNext /\ UNCHANGED up
  <2>1. UNCHANGED issued
    BY <1>6 DEF AdminNext, AdminStep, DeleteSelect, DeleteRemove, DeleteDelete, SweepSelect,
                SweepRemove, SweepDelete, SweepEnd, storeVars
  <2>2. UNCHANGED files \/ \E a \in Admins : adm[a].cur \in FileId /\ files' = DeleteRow(adm[a].cur)
    BY <1>6 DEF AdminNext, AdminStep, DeleteSelect, DeleteRemove, DeleteDelete, SweepSelect,
                SweepRemove, SweepDelete, SweepEnd, storeVars, RecordInv, TypeInv, AdminLocals
  <2> QED BY <1>3, <1>4, <1>6, <2>1, <2>2
<1>7. CASE Crash
  <2>1. SameOffers
    BY <1>7 DEF Crash, UploadCrash, SameOffers, RecordInv, TypeInv, TypeOK, UploadTypeOK
  <2> QED BY <1>1, <1>7, <2>1 DEF Crash, SameRecord
<1>8. DownloadNext \/ LateWrite \/ Tick \/ UNCHANGED vars => UNCHANGED <<files, issued>>
  BY DEF DownloadNext, DownloadStep, CreateLink, VerifyToken, SelectForDownload, OpenObject,
         StreamObject, LateWrite, Tick, storeVars, vars
<1>9. UploadNext \/ Crash \/ (UNCHANGED up /\ (CleanupNext \/ AdminNext \/ DownloadNext \/ LateWrite \/ Tick \/ UNCHANGED vars))
  BY DEF Next, vars
<1> QED BY <1>2, <1>4, <1>5, <1>6, <1>7, <1>8, <1>9

\* Whatever handlers, sweeps, late writes and crashes do, each file's record goes
\* through the lifecycle the schema promises: the backend implements FileLifecycle.
THEOREM RecordsFollowLifecycle == Spec => ImplementsLifecycle
<1>1. RecordInv /\ [Next]_vars => [Lifecycle!Next]_(Lifecycle!lifecycleVars)
  BY LifecycleStep DEF MapsToStep
<1> QED
  BY <1>1, LifecycleInit, RecordInvariant, PTL DEF Spec, ImplementsLifecycle, Lifecycle!Spec
============================================================================
