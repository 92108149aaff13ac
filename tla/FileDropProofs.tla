--------------------------- MODULE FileDropProofs ---------------------------
(***************************************************************************)
(* Proofs about FileDrop for every set of files, contents and requests,    *)
(* every bound and every choice of faults.                                 *)
(***************************************************************************)
EXTENDS FileDrop, TLAPS

\* Locals that a request or the job is about to use are set.
UploadLocals ==
    \A u \in Uploads :
        /\ up[u].pc = "idle" => up[u].file = None
        /\ up[u].pc \notin {"idle", "done"} => up[u].file \in FileId
        /\ up[u].file \in FileId => up[u].content \in Content
        /\ up[u].pc = "markHashed" => up[u].hash \in HashResult
JobLocals == job.pc = "delete" => job.cur \in FileId
AdminLocals ==
    \A a \in Admins : adm[a].pc \in {"remove", "delete", "sweepDelete"} => adm[a].cur \in FileId
DownloadLocals ==
    \A d \in Downloads :
        /\ dl[d].pc = "idle" => dl[d].content = None
        /\ dl[d].pc \in {"select", "open", "stream"} => dl[d].file \in FileId
        /\ dl[d].pc = "stream" => dl[d].content \in Content
        /\ dl[d].content # None => dl[d].file \in FileId
        /\ dl[d].body = "full" => dl[d].content \in Content

\* The type invariant made inductive.
TypeInv == TypeOK /\ UploadLocals /\ JobLocals /\ AdminLocals /\ DownloadLocals

-----------------------------------------------------------------------------
(* The operators of Store keep the types of the table and the bucket. *)

LEMMA HashToolType == \A c \in Content : HashTool(c) \in HashResult
BY ContentAssumption DEF HashTool, HashResult

LEMMA NoRowType == NoRow \in Row
BY DEF NoRow, Row

LEMMA KeyType == \A f \in FileId : ObjectKey(f) \in Key /\ BareKey(f) \in Key
BY DEF ObjectKey, BareKey, Key

\* ObjectKey is injective: two files never share an object.
LEMMA KeysDiffer == \A f, g \in FileId : /\ ObjectKey(f) = ObjectKey(g) => f = g
                                         /\ ObjectKey(f) # BareKey(g)
BY DEF ObjectKey, BareKey

LEMMA SetStatusType ==
    ASSUME files \in [FileId -> Row], NEW f \in FileId, NEW from, NEW to \in Status
    PROVE  SetStatusWhere(f, from, to) \in [FileId -> Row]
BY DEF SetStatusWhere, Row

LEMMA SetHashType ==
    ASSUME files \in [FileId -> Row], NEW f \in FileId, NEW h \in HashResult
    PROVE  SetHashWhere(f, h) \in [FileId -> Row]
BY DEF SetHashWhere, Row, Status

LEMMA DeleteRowType ==
    ASSUME files \in [FileId -> Row], NEW f \in FileId
    PROVE  DeleteRow(f) \in [FileId -> Row]
BY NoRowType DEF DeleteRow

LEMMA RemoveObjectType ==
    ASSUME objects \in [Key -> Content \cup {None}], NEW k \in Key
    PROVE  RemoveObject(k) \in [Key -> Content \cup {None}]
BY DEF RemoveObject

LEMMA NewRowType ==
    ASSUME NEW size \in DeclaredSize, size >= 0, now \in Nat
    PROVE  [status |-> "pending", hash |-> None, size |-> size, created |-> now] \in Row
BY UploadAssumption DEF Row, Status
-----------------------------------------------------------------------------
(* Type correctness: one lemma per component, one step per action. *)

LEMMA TypeInit == Init => TypeInv
<1> SUFFICES ASSUME Init PROVE TypeInv
  OBVIOUS
<1> USE DEF Init, StoreInit, UploadInit, CleanupInit, AdminInit, DownloadInit
<1>1. StoreTypeOK
  BY NoRowType DEF StoreTypeOK
<1>2. UploadTypeOK /\ UploadLocals
  BY NoneAssumption DEF UploadTypeOK, UploadLocals, UploadPC, UploadReply
<1>3. CleanupTypeOK /\ JobLocals
  BY DEF CleanupTypeOK, JobLocals
<1>4. AdminTypeOK /\ AdminLocals
  BY DEF AdminTypeOK, AdminLocals, AdminPC, AdminReply
<1>5. DownloadTypeOK /\ DownloadLocals
  BY DEF DownloadTypeOK, DownloadLocals, DownloadPC, Body
<1> QED
  BY <1>1, <1>2, <1>3, <1>4, <1>5 DEF TypeInv, TypeOK

\* Moving a request to another label, or answering it, keeps the types.
LEMMA GotoType ==
    ASSUME UploadTypeOK, UploadLocals, NEW u \in Uploads, up[u].file \in FileId,
           NEW label \in UploadPC \ {"idle", "markHashed"}, Goto(u, label)
    PROVE  UploadTypeOK' /\ UploadLocals'
<1>1. UploadTypeOK'
  BY DEF UploadTypeOK, Goto
<1>2. UploadLocals'
  BY DEF UploadTypeOK, UploadLocals, Goto
<1> QED
  BY <1>1, <1>2

LEMMA AnswerType ==
    ASSUME UploadTypeOK, UploadLocals, NEW u \in Uploads,
           NEW r \in UploadReply, Answer(u, r)
    PROVE  UploadTypeOK' /\ UploadLocals'
<1>1. UploadTypeOK'
  BY DEF UploadTypeOK, Answer, UploadPC
<1>2. UploadLocals'
  BY DEF UploadTypeOK, UploadLocals, Answer
<1> QED
  BY <1>1, <1>2
\* UPDATE steps: whatever the outcome, the table keeps its type.
LEMMA UpdateType ==
    ASSUME StoreTypeOK, NEW t \in [FileId -> Row],
           files' = t \/ files' = files, UNCHANGED <<objects, late, issued, now>>
    PROVE  StoreTypeOK'
BY DEF StoreTypeOK

LEMMA UploadTypeStep ==
    ASSUME TypeInv, UploadNext
    PROVE  StoreTypeOK' /\ UploadTypeOK' /\ UploadLocals'
<1> USE DEF TypeInv, TypeOK
<1>1. ASSUME NEW f \in FileId, NEW size \in DeclaredSize, CreateFile(f, size)
      PROVE  StoreTypeOK' /\ UploadTypeOK' /\ UploadLocals'
  <2>1. [status |-> "pending", hash |-> None, size |-> size, created |-> now] \in Row
    BY <1>1, NewRowType DEF CreateFile, StoreTypeOK
  <2>2. files' \in [FileId -> Row]
    BY <1>1, <2>1 DEF CreateFile, StoreTypeOK
  <2>3. StoreTypeOK'
    BY <1>1, <2>2 DEF CreateFile, StoreTypeOK
  <2> QED
    BY <1>1, <2>3 DEF CreateFile, UploadTypeOK, UploadLocals
<1>2. ASSUME NEW u \in Uploads, RejectUpload(u)
      PROVE  StoreTypeOK' /\ UploadTypeOK' /\ UploadLocals'
  <2>1. StoreTypeOK'
    BY <1>2 DEF RejectUpload, StoreTypeOK, storeVars
  <2>2. Answer(u, "rejected") /\ "rejected" \in UploadReply
    BY <1>2 DEF RejectUpload, UploadReply
  <2> QED
    BY <2>1, <2>2, AnswerType
<1>3. ASSUME NEW u \in Uploads, NEW f \in FileId, NEW c \in Content, AcceptUpload(u, f, c)
      PROVE  StoreTypeOK' /\ UploadTypeOK' /\ UploadLocals'
  <2>1. StoreTypeOK'
    BY <1>3 DEF AcceptUpload, StoreTypeOK, storeVars
  <2>2. UploadTypeOK'
    BY <1>3 DEF AcceptUpload, UploadTypeOK, UploadPC
  <2>3. UploadLocals'
    BY <1>3 DEF AcceptUpload, UploadTypeOK, UploadLocals
  <2> QED
    BY <2>1, <2>2, <2>3
<1>4. ASSUME NEW u \in Uploads, PutObject(u)
      PROVE  StoreTypeOK' /\ UploadTypeOK' /\ UploadLocals'
  <2>1. up[u].file \in FileId /\ up[u].content \in Content
    BY <1>4 DEF PutObject, UploadLocals
  <2>2. StoreTypeOK'
    BY <1>4, <2>1, KeyType DEF PutObject, StoreTypeOK
  <2>3. Goto(u, "markStored") /\ "markStored" \in UploadPC \ {"idle", "markHashed"}
    BY <1>4 DEF PutObject, UploadPC
  <2> QED
    BY <2>1, <2>2, <2>3, GotoType
<1>5. ASSUME NEW u \in Uploads, PutObjectFails(u)
      PROVE  StoreTypeOK' /\ UploadTypeOK' /\ UploadLocals'
  <2>1. up[u].file \in FileId /\ up[u].content \in Content
    BY <1>5 DEF PutObjectFails, UploadLocals
  <2>2. StoreTypeOK'
    BY <1>5, <2>1, KeyType DEF PutObjectFails, StoreTypeOK
  <2>3. Goto(u, "markPutFailed") /\ "markPutFailed" \in UploadPC \ {"idle", "markHashed"}
    BY <1>5 DEF PutObjectFails, UploadPC
  <2> QED
    BY <2>1, <2>2, <2>3, GotoType
<1>6. ASSUME NEW u \in Uploads, MarkPutFailed(u)
      PROVE  StoreTypeOK' /\ UploadTypeOK' /\ UploadLocals'
  <2>1. up[u].file \in FileId
    BY <1>6 DEF MarkPutFailed, UploadLocals
  <2>2. SetStatusWhere(up[u].file, "pending", "failed") \in [FileId -> Row]
    BY <2>1, SetStatusType DEF StoreTypeOK, Status
  <2>3. StoreTypeOK'
    BY <1>6, <2>2, UpdateType DEF MarkPutFailed
  <2>4. Answer(u, "upload failed") /\ "upload failed" \in UploadReply
    BY <1>6 DEF MarkPutFailed, UploadReply
  <2> QED
    BY <2>3, <2>4, AnswerType
<1>7. ASSUME NEW u \in Uploads, MarkStored(u)
      PROVE  StoreTypeOK' /\ UploadTypeOK' /\ UploadLocals'
  <2>1. up[u].file \in FileId
    BY <1>7 DEF MarkStored, UploadLocals
  <2>2. SetStatusWhere(up[u].file, "pending", "stored") \in [FileId -> Row]
    BY <2>1, SetStatusType DEF StoreTypeOK, Status
  <2>3. StoreTypeOK'
    BY <1>7, <2>2, UpdateType DEF MarkStored
  <2>4. Answer(u, "db error") \/ Goto(u, "hash")
    BY <1>7 DEF MarkStored
  <2>5. "db error" \in UploadReply /\ "hash" \in UploadPC \ {"idle", "markHashed"}
    BY DEF UploadReply, UploadPC
  <2> QED
    BY <2>1, <2>3, <2>4, <2>5, AnswerType, GotoType
<1>8. ASSUME NEW u \in Uploads, HashObject(u)
      PROVE  StoreTypeOK' /\ UploadTypeOK' /\ UploadLocals'
  <2> DEFINE obj == objects[ObjectKey(up[u].file)]
  <2>1. up[u].file \in FileId
    BY <1>8 DEF HashObject, UploadLocals
  <2>2. StoreTypeOK'
    BY <1>8 DEF HashObject, StoreTypeOK, storeVars
  <2>3. CASE Goto(u, "markHashFailed")
    <3>1. "markHashFailed" \in UploadPC \ {"idle", "markHashed"}
      BY DEF UploadPC
    <3> QED
      BY <2>1, <2>2, <2>3, <3>1, GotoType
  <2>4. CASE /\ obj # None
             /\ up' = [up EXCEPT ![u] = [@ EXCEPT !.pc = "markHashed", !.hash = HashTool(obj)]]
    <3>1. obj \in Content
      BY <2>1, <2>4, KeyType DEF StoreTypeOK
    <3>2. HashTool(obj) \in HashResult
      BY <3>1, HashToolType
    <3> HIDE DEF obj
    <3>3. UploadTypeOK'
      BY <2>4, <3>2 DEF UploadTypeOK, UploadPC
    <3>4. UploadLocals'
      BY <2>1, <2>4, <3>2 DEF UploadTypeOK, UploadLocals
    <3> QED
      BY <2>2, <3>3, <3>4
  <2> QED
    BY <1>8, <2>3, <2>4 DEF HashObject
<1>9. ASSUME NEW u \in Uploads, MarkHashFailed(u)
      PROVE  StoreTypeOK' /\ UploadTypeOK' /\ UploadLocals'
  <2>1. up[u].file \in FileId
    BY <1>9 DEF MarkHashFailed, UploadLocals
  <2>2. SetStatusWhere(up[u].file, "stored", "failed") \in [FileId -> Row]
    BY <2>1, SetStatusType DEF StoreTypeOK, Status
  <2>3. StoreTypeOK'
    BY <1>9, <2>2, UpdateType DEF MarkHashFailed
  <2>4. Answer(u, "hashing failed") /\ "hashing failed" \in UploadReply
    BY <1>9 DEF MarkHashFailed, UploadReply
  <2> QED
    BY <2>3, <2>4, AnswerType
<1>10. ASSUME NEW u \in Uploads, MarkHashed(u)
       PROVE  StoreTypeOK' /\ UploadTypeOK' /\ UploadLocals'
  <2>1. up[u].file \in FileId /\ up[u].hash \in HashResult
    BY <1>10 DEF MarkHashed, UploadLocals
  <2>2. SetHashWhere(up[u].file, up[u].hash) \in [FileId -> Row]
    BY <2>1, SetHashType DEF StoreTypeOK
  <2>3. StoreTypeOK'
    BY <1>10, <2>2, UpdateType DEF MarkHashed
  <2>4. Answer(u, "db error") \/ Answer(u, "hashed")
    BY <1>10 DEF MarkHashed
  <2>5. "db error" \in UploadReply /\ "hashed" \in UploadReply
    BY DEF UploadReply
  <2> QED
    BY <2>3, <2>4, <2>5, AnswerType
<1> QED
  BY <1>1, <1>2, <1>3, <1>4, <1>5, <1>6, <1>7, <1>8, <1>9, <1>10 DEF UploadNext, UploadStep
LEMMA CleanupTypeStep ==
    ASSUME TypeInv, CleanupNext
    PROVE  StoreTypeOK' /\ CleanupTypeOK' /\ JobLocals'
<1> USE DEF TypeInv, TypeOK
<1>1. CASE JobSelect
  BY <1>1 DEF JobSelect, StoreTypeOK, storeVars, CleanupTypeOK, JobLocals
<1>2. ASSUME NEW f \in FileId, JobRemove(f)
      PROVE  StoreTypeOK' /\ CleanupTypeOK' /\ JobLocals'
  <2>1. RemoveObject(ObjectKey(f)) \in [Key -> Content \cup {None}]
    BY KeyType, RemoveObjectType DEF StoreTypeOK
  <2>2. StoreTypeOK'
    BY <1>2, <2>1 DEF JobRemove, StoreTypeOK
  <2> QED
    BY <1>2, <2>2 DEF JobRemove, CleanupTypeOK, JobLocals
<1>3. ASSUME NEW o, JobDelete(o)
      PROVE  StoreTypeOK' /\ CleanupTypeOK' /\ JobLocals'
  <2>1. DeleteRow(job.cur) \in [FileId -> Row]
    BY <1>3, DeleteRowType DEF JobDelete, JobLocals, StoreTypeOK
  <2>2. StoreTypeOK'
    BY <1>3, <2>1, UpdateType DEF JobDelete
  <2> QED
    BY <1>3, <2>2 DEF JobDelete, CleanupTypeOK, JobLocals
<1>4. CASE JobEnd
  BY <1>4 DEF JobEnd, StoreTypeOK, storeVars, CleanupTypeOK, JobLocals
<1> QED
  BY <1>1, <1>2, <1>3, <1>4 DEF CleanupNext

LEMMA AnswerAdminType ==
    ASSUME AdminTypeOK, AdminLocals, NEW a \in Admins, NEW r \in AdminReply, AnswerAdmin(a, r)
    PROVE  AdminTypeOK' /\ AdminLocals'
<1>1. AdminTypeOK'
  BY DEF AdminTypeOK, AnswerAdmin, AdminPC
<1>2. AdminLocals'
  BY DEF AdminTypeOK, AdminLocals, AnswerAdmin
<1> QED
  BY <1>1, <1>2

LEMMA AdminTypeStep ==
    ASSUME TypeInv, AdminNext
    PROVE  StoreTypeOK' /\ AdminTypeOK' /\ AdminLocals'
<1> USE DEF TypeInv, TypeOK
<1>0. {"none", "not found", "db error", "disabled", "deleted", "swept"} \subseteq AdminReply
  BY DEF AdminReply
<1>1. ASSUME NEW a \in Admins, NEW f \in FileId, DeleteSelect(a, f)
      PROVE  StoreTypeOK' /\ AdminTypeOK' /\ AdminLocals'
  <2>1. StoreTypeOK'
    BY <1>1 DEF DeleteSelect, StoreTypeOK, storeVars
  <2>2. CASE AnswerAdmin(a, "not found")
    BY <1>0, <2>1, <2>2, AnswerAdminType
  <2>3. ASSUME NEW label \in {"delete", "remove"},
               adm' = [adm EXCEPT ![a] = [@ EXCEPT !.cur = f, !.pc = label]]
        PROVE  AdminTypeOK' /\ AdminLocals'
    BY <2>3 DEF AdminTypeOK, AdminLocals, AdminPC
  <2> QED
    BY <1>1, <2>1, <2>2, <2>3 DEF DeleteSelect
<1>2. ASSUME NEW a \in Admins, DeleteRemove(a)
      PROVE  StoreTypeOK' /\ AdminTypeOK' /\ AdminLocals'
  <2>1. adm[a].cur \in FileId
    BY <1>2 DEF DeleteRemove, AdminLocals
  <2>2. RemoveObject(BareKey(adm[a].cur)) \in [Key -> Content \cup {None}]
    BY <2>1, KeyType, RemoveObjectType DEF StoreTypeOK
  <2>3. StoreTypeOK'
    BY <1>2, <2>2 DEF DeleteRemove, StoreTypeOK
  <2> QED
    BY <1>2, <2>1, <2>3 DEF DeleteRemove, AdminTypeOK, AdminLocals, AdminPC
<1>3. ASSUME NEW a \in Admins, DeleteDelete(a)
      PROVE  StoreTypeOK' /\ AdminTypeOK' /\ AdminLocals'
  <2>1. DeleteRow(adm[a].cur) \in [FileId -> Row]
    BY <1>3, DeleteRowType DEF DeleteDelete, AdminLocals, StoreTypeOK
  <2>2. StoreTypeOK'
    BY <1>3, <2>1, UpdateType DEF DeleteDelete
  <2>3. \E r \in AdminReply : AnswerAdmin(a, r)
    BY <1>0, <1>3 DEF DeleteDelete
  <2> QED
    BY <2>2, <2>3, AnswerAdminType
<1>4. ASSUME NEW a \in Admins, SweepSelect(a)
      PROVE  StoreTypeOK' /\ AdminTypeOK' /\ AdminLocals'
  <2> DEFINE items == {[file |-> f, status |-> files[f].status] :
                          f \in {g \in FileId : Reclaimable(g)}}
  <2>1. StoreTypeOK'
    BY <1>4 DEF SweepSelect, StoreTypeOK, storeVars
  <2>2. CASE AnswerAdmin(a, "disabled") \/ AnswerAdmin(a, "db error")
    BY <1>0, <2>1, <2>2, AnswerAdminType
  <2>3. CASE adm' = [adm EXCEPT ![a] = [@ EXCEPT !.pc = "sweep", !.todo = items]]
    <3>1. items \subseteq Item
      BY DEF Item, Status, Reclaimable, StoreTypeOK, Row
    <3> HIDE DEF items
    <3> QED
      BY <2>1, <2>3, <3>1 DEF AdminTypeOK, AdminLocals, AdminPC
  <2> QED
    BY <1>4, <2>2, <2>3 DEF SweepSelect
<1>5. ASSUME NEW a \in Admins, NEW item \in adm[a].todo, SweepRemove(a, item)
      PROVE  StoreTypeOK' /\ AdminTypeOK' /\ AdminLocals'
  <2>1. item.file \in FileId
    BY DEF AdminTypeOK, Item
  <2>2. RemoveObject(BareKey(item.file)) \in [Key -> Content \cup {None}]
    BY <2>1, KeyType, RemoveObjectType DEF StoreTypeOK
  <2>3. StoreTypeOK'
    BY <1>5, <2>2 DEF SweepRemove, StoreTypeOK
  <2>4. AdminTypeOK'
    <3> DEFINE rest == adm[a].todo \ {item}
    <3>1. rest \in SUBSET Item
      BY DEF AdminTypeOK
    <3>2. adm' = [adm EXCEPT ![a] = [@ EXCEPT !.pc = "sweepDelete", !.cur = item.file,
                                              !.todo = rest]]
      BY <1>5 DEF SweepRemove
    <3> HIDE DEF rest
    <3> QED
      BY <2>1, <3>1, <3>2 DEF AdminTypeOK, AdminPC
  <2>5. AdminLocals'
    BY <1>5, <2>1 DEF SweepRemove, AdminTypeOK, AdminLocals
  <2> QED
    BY <2>3, <2>4, <2>5
<1>6. ASSUME NEW a \in Admins, SweepDelete(a)
      PROVE  StoreTypeOK' /\ AdminTypeOK' /\ AdminLocals'
  <2>1. DeleteRow(adm[a].cur) \in [FileId -> Row]
    BY <1>6, DeleteRowType DEF SweepDelete, AdminLocals, StoreTypeOK
  <2>2. StoreTypeOK'
    BY <1>6, <2>1, UpdateType DEF SweepDelete
  <2> QED
    BY <1>6, <2>2 DEF SweepDelete, AdminTypeOK, AdminLocals, AdminPC
<1>7. ASSUME NEW a \in Admins, SweepEnd(a)
      PROVE  StoreTypeOK' /\ AdminTypeOK' /\ AdminLocals'
  <2>1. StoreTypeOK'
    BY <1>7 DEF SweepEnd, StoreTypeOK, storeVars
  <2> QED
    BY <1>0, <1>7, <2>1, AnswerAdminType DEF SweepEnd
<1> QED
  BY <1>1, <1>2, <1>3, <1>4, <1>5, <1>6, <1>7 DEF AdminNext, AdminStep

LEMMA ClampType == \A ttl \in RequestedTTL : clampTTLSeconds(ttl) \in 1 .. MaxTTL
BY TTLAssumption DEF clampTTLSeconds

LEMMA FinishDownloadType ==
    ASSUME DownloadTypeOK, DownloadLocals, NEW d \in Downloads, NEW b \in Body,
           b = "full" => dl[d].content \in Content, FinishDownload(d, b), UNCHANGED tokens
    PROVE  DownloadTypeOK' /\ DownloadLocals'
<1>1. DownloadTypeOK'
  BY DEF FinishDownload, DownloadTypeOK, DownloadPC
<1>2. DownloadLocals'
  BY DEF FinishDownload, DownloadTypeOK, DownloadLocals
<1> QED
  BY <1>1, <1>2

LEMMA DownloadTypeStep ==
    ASSUME TypeInv, DownloadNext
    PROVE  StoreTypeOK' /\ DownloadTypeOK' /\ DownloadLocals'
<1> USE DEF TypeInv, TypeOK
<1>1. ASSUME NEW f \in FileId, NEW ttl \in RequestedTTL, CreateLink(f, ttl)
      PROVE  StoreTypeOK' /\ DownloadTypeOK' /\ DownloadLocals'
  <2>1. now + clampTTLSeconds(ttl) \in Nat
    BY ClampType, TTLAssumption DEF StoreTypeOK
  <2> QED
    BY <1>1, <2>1 DEF CreateLink, signDownloadToken, StoreTypeOK, storeVars, DownloadTypeOK,
                      DownloadLocals, Token
<1>2. ASSUME NEW d \in Downloads, NEW t \in tokens, VerifyToken(d, t)
      PROVE  StoreTypeOK' /\ DownloadTypeOK' /\ DownloadLocals'
  <2>1. t.file \in FileId
    BY DEF DownloadTypeOK, Token
  <2>2. StoreTypeOK'
    BY <1>2 DEF VerifyToken, StoreTypeOK, storeVars
  <2>3. DownloadTypeOK'
    BY <1>2, <2>1 DEF VerifyToken, DownloadTypeOK, DownloadPC
  <2>4. DownloadLocals'
    BY <1>2, <2>1 DEF VerifyToken, DownloadTypeOK, DownloadLocals
  <2> QED
    BY <2>2, <2>3, <2>4
<1>0. "none" \in Body /\ "full" \in Body /\ "short" \in Body /\ "cut" \in Body
  BY DEF Body
<1>3. ASSUME NEW d \in Downloads, SelectForDownload(d)
      PROVE  StoreTypeOK' /\ DownloadTypeOK' /\ DownloadLocals'
  <2>1. dl[d].file \in FileId /\ files[dl[d].file].size \in Nat
    BY <1>3 DEF SelectForDownload, DownloadLocals, StoreTypeOK, Row
  <2>2. StoreTypeOK' /\ UNCHANGED tokens
    BY <1>3 DEF SelectForDownload, StoreTypeOK, storeVars
  <2>3. ASSUME NEW n \in Nat, dl' = [dl EXCEPT ![d] = [@ EXCEPT !.pc = "open", !.size = n]]
        PROVE  DownloadTypeOK' /\ DownloadLocals'
    BY <2>1, <2>2, <2>3 DEF DownloadTypeOK, DownloadPC, DownloadLocals
  <2> QED
    BY <1>0, <1>3, <2>1, <2>2, <2>3, FinishDownloadType DEF SelectForDownload
<1>4. ASSUME NEW d \in Downloads, OpenObject(d)
      PROVE  StoreTypeOK' /\ DownloadTypeOK' /\ DownloadLocals'
  <2>1. dl[d].file \in FileId /\ objects[ObjectKey(dl[d].file)] \in Content \cup {None}
    BY <1>4, KeyType DEF OpenObject, DownloadLocals, StoreTypeOK
  <2>2. StoreTypeOK' /\ UNCHANGED tokens
    BY <1>4 DEF OpenObject, StoreTypeOK, storeVars
  <2>3. ASSUME NEW c \in Content, dl' = [dl EXCEPT ![d] = [@ EXCEPT !.pc = "stream", !.content = c]]
        PROVE  DownloadTypeOK' /\ DownloadLocals'
    BY <2>1, <2>2, <2>3 DEF DownloadTypeOK, DownloadPC, DownloadLocals
  <2> QED
    BY <1>0, <1>4, <2>1, <2>2, <2>3, FinishDownloadType DEF OpenObject
<1>5. ASSUME NEW d \in Downloads, StreamObject(d)
      PROVE  StoreTypeOK' /\ DownloadTypeOK' /\ DownloadLocals'
  <2>1. StoreTypeOK' /\ UNCHANGED tokens
    BY <1>5 DEF StreamObject, StoreTypeOK, storeVars
  <2>2. dl[d].content \in Content
    BY <1>5 DEF StreamObject, DownloadLocals
  <2> QED
    BY <1>0, <1>5, <2>1, <2>2, FinishDownloadType DEF StreamObject
<1> QED
  BY <1>1, <1>2, <1>3, <1>4, <1>5 DEF DownloadNext, DownloadStep
LEMMA CrashTypeStep == TypeInv /\ Crash => TypeInv'
<1> SUFFICES ASSUME TypeInv, Crash PROVE TypeInv'
  OBVIOUS
<1> USE DEF TypeInv, TypeOK, Crash
<1>1. StoreTypeOK'
  <2>1. PICK S \in SUBSET {u \in Uploads : up[u].pc = "put" /\ ~TooLarge(up[u].content)} :
             late' = late \cup {<<ObjectKey(up[u].file), up[u].content>> : u \in S}
    BY DEF UploadCrash
  <2>2. \A u \in S : up[u].file \in FileId /\ up[u].content \in Content
    BY DEF UploadLocals
  <2>3. \A u \in S : <<ObjectKey(up[u].file), up[u].content>> \in Key \X Content
    BY <2>2, KeyType
  <2> QED
    BY <2>1, <2>3 DEF StoreTypeOK
<1>2. UploadTypeOK'
  BY DEF UploadCrash, UploadTypeOK, UploadPC
<1>2a. UploadLocals'
  <2> SUFFICES ASSUME NEW u \in Uploads
               PROVE  /\ up'[u].pc = "idle" => up'[u].file = None
                      /\ up'[u].pc \notin {"idle", "done"} => up'[u].file \in FileId
                      /\ up'[u].file \in FileId => up'[u].content \in Content
                      /\ up'[u].pc = "markHashed" => up'[u].hash \in HashResult
    BY DEF UploadLocals
  <2>1. up'[u].pc \in {"idle", "done"} /\ up'[u].file = up[u].file /\ up'[u].content = up[u].content
    BY DEF UploadCrash, UploadTypeOK
  <2>2. up'[u].pc = "idle" => up[u].pc = "idle"
    BY DEF UploadCrash, UploadTypeOK
  <2> QED
    BY <2>1, <2>2 DEF UploadLocals
<1>3. CleanupTypeOK' /\ JobLocals'
  BY DEF CleanupCrash, CleanupTypeOK, JobLocals
<1>4. AdminTypeOK' /\ AdminLocals'
  BY DEF AdminCrash, AdminTypeOK, AdminLocals, AdminPC
<1>5. DownloadTypeOK' /\ DownloadLocals'
  BY DEF DownloadCrash, DownloadTypeOK, DownloadLocals, DownloadPC
<1>6. (crashes \in Nat)'
  OBVIOUS
<1> QED
  BY <1>1, <1>2, <1>2a, <1>3, <1>4, <1>5, <1>6

\* A component whose variables do not change keeps its types.
LEMMA TypeFrame ==
    ASSUME TypeInv
    PROVE  /\ UNCHANGED up => UploadTypeOK' /\ UploadLocals'
           /\ UNCHANGED job => CleanupTypeOK' /\ JobLocals'
           /\ UNCHANGED adm => AdminTypeOK' /\ AdminLocals'
           /\ UNCHANGED <<tokens, dl>> => DownloadTypeOK' /\ DownloadLocals'
           /\ UNCHANGED crashes => (crashes \in Nat)'
BY DEF TypeInv, TypeOK, UploadTypeOK, UploadLocals, CleanupTypeOK, JobLocals,
       AdminTypeOK, AdminLocals, DownloadTypeOK, DownloadLocals

LEMMA TypeStep == TypeInv /\ [Next]_vars => TypeInv'
<1> SUFFICES ASSUME TypeInv, [Next]_vars PROVE TypeInv'
  OBVIOUS
<1>1. CASE UploadNext /\ UNCHANGED <<job, adm, tokens, dl, crashes>>
  BY <1>1, UploadTypeStep, TypeFrame DEF TypeInv, TypeOK
<1>2. CASE CleanupNext /\ UNCHANGED <<up, adm, tokens, dl, crashes>>
  BY <1>2, CleanupTypeStep, TypeFrame DEF TypeInv, TypeOK
<1>3. CASE AdminNext /\ UNCHANGED <<up, job, tokens, dl, crashes>>
  BY <1>3, AdminTypeStep, TypeFrame DEF TypeInv, TypeOK
<1>4. CASE DownloadNext /\ UNCHANGED <<up, job, adm, crashes>>
  BY <1>4, DownloadTypeStep, TypeFrame DEF TypeInv, TypeOK
<1>5. CASE LateWrite /\ UNCHANGED <<up, job, adm, tokens, dl, crashes>>
  <2>1. StoreTypeOK'
    BY <1>5 DEF LateWrite, StoreTypeOK, TypeInv, TypeOK
  <2> QED
    BY <1>5, <2>1, TypeFrame DEF TypeInv, TypeOK
<1>6. CASE Tick /\ UNCHANGED <<up, job, adm, tokens, dl, crashes>>
  <2>1. StoreTypeOK'
    BY <1>6 DEF Tick, StoreTypeOK, TypeInv, TypeOK
  <2> QED
    BY <1>6, <2>1, TypeFrame DEF TypeInv, TypeOK
<1>7. CASE Crash
  BY <1>7, CrashTypeStep
<1>8. CASE UNCHANGED vars
  <2>1. StoreTypeOK'
    BY <1>8 DEF vars, storeVars, StoreTypeOK, TypeInv, TypeOK
  <2>2. UNCHANGED <<up, job, adm, tokens, dl, crashes>>
    BY <1>8 DEF vars
  <2> QED
    BY <2>1, <2>2, TypeFrame DEF TypeInv, TypeOK
<1> QED
  BY <1>1, <1>2, <1>3, <1>4, <1>5, <1>6, <1>7, <1>8 DEF Next

LEMMA TypeInvariant == Spec => []TypeInv
BY TypeInit, TypeStep, PTL DEF Spec

\* Every reachable state of the backend is well typed.
THEOREM TypeCorrect == Spec => []TypeOK
<1>1. TypeInv => TypeOK
  BY DEF TypeInv
<1> QED
  BY <1>1, TypeInvariant, PTL
-----------------------------------------------------------------------------
(* Where contents and digests come from. *)

\* The bodies accepted uploads of f have sent.
Offered(f) == {up[u].content : u \in Attempts(f)}

\* What is in the bucket, still to be written to it, being hashed, or being
\* streamed for a file was sent by an upload accepted for that file.
ObjectsOffered == \A f \in FileId : objects[ObjectKey(f)] \in Offered(f) \cup {None}
LateOffered == \A w \in late : \A f \in FileId : w[1] = ObjectKey(f) => w[2] \in Offered(f)
HashesOffered ==
    \A u \in Uploads : up[u].pc = "markHashed" =>
        \E c \in Offered(up[u].file) : up[u].hash = HashTool(c)
StreamsOffered ==
    \A d \in Downloads : dl[d].content # None => dl[d].content \in Offered(dl[d].file)
RowsOffered ==
    \A f \in FileId : IF files[f].status \in Downloadable
                      THEN \E c \in Offered(f) : files[f].hash = HashTool(c)
                      ELSE files[f].hash = None

\* The inductive invariant behind HashAuthentic: provenance along the whole way
\* from request to bucket to digest to row.
Provenance == ObjectsOffered /\ LateOffered /\ HashesOffered /\ StreamsOffered /\ RowsOffered

\* A request that was accepted keeps its file and body.
LEMMA AcceptedStays ==
    ASSUME TypeInv, [Next]_vars
    PROVE  \A u \in Uploads : up[u].file \in FileId =>
               up'[u].file = up[u].file /\ up'[u].content = up[u].content
<1> USE DEF TypeInv, TypeOK
<1>1. CASE UNCHANGED up
  BY <1>1
<1>2. ASSUME NEW v \in Uploads, NEW label, Goto(v, label)
      PROVE  \A u \in Uploads : up'[u].file = up[u].file /\ up'[u].content = up[u].content
  BY <1>2 DEF Goto, UploadTypeOK
<1>3. ASSUME NEW v \in Uploads, NEW r, Answer(v, r)
      PROVE  \A u \in Uploads : up'[u].file = up[u].file /\ up'[u].content = up[u].content
  BY <1>3 DEF Answer, UploadTypeOK
<1>4. ASSUME NEW v \in Uploads, NEW f \in FileId, NEW c \in Content, AcceptUpload(v, f, c)
      PROVE  \A u \in Uploads : up[u].file \in FileId =>
                 up'[u].file = up[u].file /\ up'[u].content = up[u].content
  BY <1>4, NoneAssumption DEF AcceptUpload, UploadTypeOK, UploadLocals
<1>5. ASSUME NEW v \in Uploads, HashObject(v)
      PROVE  \A u \in Uploads : up'[u].file = up[u].file /\ up'[u].content = up[u].content
  <2>1. CASE Goto(v, "markHashFailed")
    BY <1>2, <2>1
  <2>2. ASSUME NEW h, up' = [up EXCEPT ![v] = [@ EXCEPT !.pc = "markHashed", !.hash = h]]
        PROVE  \A u \in Uploads : up'[u].file = up[u].file /\ up'[u].content = up[u].content
    BY <2>2 DEF UploadTypeOK
  <2> QED
    BY <1>5, <2>1, <2>2 DEF HashObject
<1>6. CASE UploadCrash
  BY <1>6 DEF UploadCrash, UploadTypeOK
<1>7. ASSUME NEW v \in Uploads, UploadStep(v)
      PROVE  \A u \in Uploads : up'[u].file = up[u].file /\ up'[u].content = up[u].content
  <2>1. \/ \E label : Goto(v, label)
        \/ \E r : Answer(v, r)
        \/ HashObject(v)
    BY <1>7 DEF UploadStep, PutObject, PutObjectFails, MarkPutFailed, MarkStored,
                MarkHashFailed, MarkHashed
  <2> QED
    BY <1>2, <1>3, <1>5, <2>1
<1>8. CASE UploadNext
  <2>1. ASSUME NEW v \in Uploads, RejectUpload(v)
        PROVE  \A u \in Uploads : up'[u].file = up[u].file /\ up'[u].content = up[u].content
    BY <1>3, <2>1 DEF RejectUpload
  <2>2. ASSUME NEW f \in FileId, NEW size \in DeclaredSize, CreateFile(f, size)
        PROVE  UNCHANGED up
    BY <2>2 DEF CreateFile
  <2> QED
    BY <1>1, <1>4, <1>7, <1>8, <2>1, <2>2 DEF UploadNext
<1>9. UNCHANGED up \/ UploadNext \/ UploadCrash
  BY DEF Next, vars, Crash
<1> QED
  BY <1>1, <1>6, <1>8, <1>9

LEMMA OfferedGrows ==
    ASSUME TypeInv, [Next]_vars
    PROVE  \A f \in FileId : Offered(f) \subseteq Offered(f)'
<1> SUFFICES ASSUME NEW f \in FileId, NEW u \in Attempts(f)
             PROVE  up[u].content \in Offered(f)'
  BY DEF Offered
<1>1. u \in Uploads /\ up[u].file = f
  BY DEF Attempts
<1>2. up'[u].file = f /\ up'[u].content = up[u].content
  BY <1>1, AcceptedStays
<1> QED
  BY <1>1, <1>2 DEF Offered, Attempts
\* Every way the bucket changes.
LEMMA BucketSteps ==
    ASSUME [Next]_vars
    PROVE  \/ UNCHANGED objects
           \/ \E u \in Uploads : PutObject(u) \/ PutObjectFails(u)
           \/ \E f \in FileId : JobRemove(f)
           \/ \E a \in Admins : DeleteRemove(a) \/ \E item \in adm[a].todo : SweepRemove(a, item)
           \/ LateWrite
<1>1. UploadNext => \/ UNCHANGED objects
                    \/ \E u \in Uploads : PutObject(u) \/ PutObjectFails(u)
  BY DEF UploadNext, UploadStep, CreateFile, RejectUpload, AcceptUpload, MarkPutFailed,
         MarkStored, HashObject, MarkHashFailed, MarkHashed, storeVars
<1>2. CleanupNext => UNCHANGED objects \/ \E f \in FileId : JobRemove(f)
  BY DEF CleanupNext, JobSelect, JobDelete, JobEnd, storeVars
<1>3. AdminNext => \/ UNCHANGED objects
                   \/ \E a \in Admins : \/ DeleteRemove(a)
                                        \/ \E item \in adm[a].todo : SweepRemove(a, item)
  BY DEF AdminNext, AdminStep, DeleteSelect, DeleteDelete, SweepSelect, SweepDelete,
         SweepEnd, storeVars
<1>4. DownloadNext => UNCHANGED objects
  BY DEF DownloadNext, DownloadStep, CreateLink, VerifyToken, SelectForDownload, OpenObject,
         StreamObject, storeVars
<1> QED
  BY <1>1, <1>2, <1>3, <1>4 DEF Next, vars, storeVars, Tick, Crash

\* The object of a file only ever changes to nothing or to an offered body.
LEMMA ObjectsStep ==
    ASSUME TypeInv, LateOffered, [Next]_vars
    PROVE  \A f \in FileId : objects'[ObjectKey(f)] \in
               {objects[ObjectKey(f)], None} \cup Offered(f)
<1> SUFFICES ASSUME NEW f \in FileId
             PROVE  objects'[ObjectKey(f)] \in {objects[ObjectKey(f)], None} \cup Offered(f)
  OBVIOUS
<1> USE DEF TypeInv, TypeOK, StoreTypeOK
<1>1. CASE UNCHANGED objects
  BY <1>1
<1>2. ASSUME NEW u \in Uploads, up[u].file \in FileId,
             objects' = [objects EXCEPT ![ObjectKey(up[u].file)] = up[u].content]
      PROVE  objects'[ObjectKey(f)] \in {objects[ObjectKey(f)], None} \cup Offered(f)
  <2>1. CASE up[u].file = f
    BY <1>2, <2>1, KeyType DEF Offered, Attempts
  <2>2. CASE up[u].file # f
    BY <1>2, <2>2, KeyType, KeysDiffer
  <2> QED
    BY <2>1, <2>2
<1>3. ASSUME NEW u \in Uploads, PutObject(u) \/ PutObjectFails(u)
      PROVE  objects'[ObjectKey(f)] \in {objects[ObjectKey(f)], None} \cup Offered(f)
  BY <1>1, <1>2, <1>3 DEF PutObject, PutObjectFails, UploadLocals
<1>4. ASSUME NEW k \in Key, objects' = RemoveObject(k)
      PROVE  objects'[ObjectKey(f)] \in {objects[ObjectKey(f)], None} \cup Offered(f)
  BY <1>4, KeyType DEF RemoveObject
<1>5. ASSUME NEW g \in FileId, JobRemove(g)
      PROVE  objects'[ObjectKey(f)] \in {objects[ObjectKey(f)], None} \cup Offered(f)
  BY <1>1, <1>4, <1>5, KeyType DEF JobRemove
<1>6. ASSUME NEW a \in Admins, DeleteRemove(a)
      PROVE  objects'[ObjectKey(f)] \in {objects[ObjectKey(f)], None} \cup Offered(f)
  BY <1>1, <1>4, <1>6, KeyType DEF DeleteRemove, AdminLocals
<1>7. ASSUME NEW a \in Admins, NEW item \in adm[a].todo, SweepRemove(a, item)
      PROVE  objects'[ObjectKey(f)] \in {objects[ObjectKey(f)], None} \cup Offered(f)
  <2>1. item.file \in FileId
    BY DEF AdminTypeOK, Item
  <2> QED
    BY <1>1, <1>4, <1>7, <2>1, KeyType DEF SweepRemove
<1>8. CASE LateWrite
  <2>1. PICK w \in late : objects' = [objects EXCEPT ![w[1]] = w[2]]
    BY <1>8 DEF LateWrite
  <2>2. CASE w[1] = ObjectKey(f)
    BY <2>1, <2>2, KeyType DEF LateOffered
  <2>3. CASE w[1] # ObjectKey(f)
    BY <2>1, <2>3, KeyType
  <2> QED
    BY <2>2, <2>3
<1> QED
  BY <1>1, <1>3, <1>5, <1>6, <1>7, <1>8, BucketSteps

\* Every way the table changes.
Inserted(f, size) ==
    [files EXCEPT ![f] = [status |-> "pending", hash |-> None, size |-> size, created |-> now]]
TableStep ==
    \/ UNCHANGED files
    \/ \E f \in FileId, size \in DeclaredSize :
          /\ f \notin issued /\ size >= 0
          /\ issued' = issued \cup {f} /\ files' = Inserted(f, size)
    \/ \E u \in Uploads :
          \/ /\ up[u].pc = "markPutFailed"
             /\ files' = SetStatusWhere(up[u].file, "pending", "failed")
          \/ /\ up[u].pc = "markStored"
             /\ files' = SetStatusWhere(up[u].file, "pending", "stored")
          \/ /\ up[u].pc = "markHashFailed"
             /\ files' = SetStatusWhere(up[u].file, "stored", "failed")
          \/ /\ up[u].pc = "markHashed"
             /\ files' = SetHashWhere(up[u].file, up[u].hash)
    \/ job.pc = "delete" /\ files' = DeleteRow(job.cur)
    \/ \E a \in Admins : /\ DeleteDelete(a) \/ SweepDelete(a)
                         /\ files' = DeleteRow(adm[a].cur)

LEMMA TableSteps == [Next]_vars => TableStep
<1>1. UploadNext => TableStep
  BY DEF UploadNext, UploadStep, CreateFile, RejectUpload, AcceptUpload, PutObject,
         PutObjectFails, MarkPutFailed, MarkStored, HashObject, MarkHashFailed, MarkHashed,
         storeVars, TableStep, Inserted
<1>2. CleanupNext => TableStep
  BY DEF CleanupNext, JobSelect, JobRemove, JobDelete, JobEnd, storeVars, TableStep
<1>3. AdminNext => TableStep
  BY DEF AdminNext, AdminStep, DeleteSelect, DeleteRemove, DeleteDelete, SweepSelect,
         SweepRemove, SweepDelete, SweepEnd, storeVars, TableStep
<1>4. DownloadNext => TableStep
  BY DEF DownloadNext, DownloadStep, CreateLink, VerifyToken, SelectForDownload, OpenObject,
         StreamObject, storeVars, TableStep
<1> QED
  BY <1>1, <1>2, <1>3, <1>4 DEF Next, vars, storeVars, Tick, LateWrite, Crash, TableStep
LEMMA RowsStep ==
    ASSUME TypeInv, RowsOffered, HashesOffered, [Next]_vars
    PROVE  RowsOffered'
<1> SUFFICES ASSUME NEW f \in FileId
             PROVE  IF files'[f].status \in Downloadable
                    THEN \E c \in Offered(f) : files'[f].hash = HashTool(c)
                    ELSE files'[f].hash = None
  BY OfferedGrows DEF RowsOffered
<1> USE DEF TypeInv, TypeOK, StoreTypeOK, Downloadable
<1>0. IF files[f].status \in Downloadable
      THEN \E c \in Offered(f) : files[f].hash = HashTool(c)
      ELSE files[f].hash = None
  BY DEF RowsOffered
<1>1. CASE UNCHANGED files
  BY <1>0, <1>1
<1>2. ASSUME NEW g \in FileId, NEW size, files' = Inserted(g, size)
      PROVE  \/ files'[f] = files[f]
             \/ files'[f].status = "pending" /\ files'[f].hash = None
  BY <1>2 DEF Inserted
<1>3. ASSUME NEW g \in FileId, NEW from \in {"pending", "stored"}, NEW to \in {"stored", "failed"},
             files' = SetStatusWhere(g, from, to)
      PROVE  \/ files'[f] = files[f]
             \/ /\ files[f].status \in {"pending", "stored"}
                /\ files'[f].status \in {"stored", "failed"}
                /\ files'[f].hash = files[f].hash
  BY <1>3 DEF SetStatusWhere, Row
<1>4. ASSUME NEW u \in Uploads, up[u].pc = "markHashed",
             files' = SetHashWhere(up[u].file, up[u].hash)
      PROVE  \/ files'[f] = files[f]
             \/ files'[f].status = "hashed" /\ \E c \in Offered(f) : files'[f].hash = HashTool(c)
  <2>1. PICK c \in Offered(up[u].file) : up[u].hash = HashTool(c)
    BY <1>4 DEF HashesOffered
  <2>2. CASE up[u].file = f
    BY <1>4, <2>1, <2>2 DEF SetHashWhere, Row
  <2>3. CASE up[u].file # f
    BY <1>4, <2>3 DEF SetHashWhere
  <2> QED
    BY <2>2, <2>3
<1>5. ASSUME NEW g, files' = DeleteRow(g)
      PROVE  files'[f] = files[f] \/ files'[f] = NoRow
  BY <1>5 DEF DeleteRow
<1>6. NoRow.status = "absent" /\ NoRow.hash = None
  BY DEF NoRow
<1>7. \A u \in Uploads : up[u].pc \notin {"idle", "done"} => up[u].file \in FileId
  BY DEF UploadLocals
<1>8. TableStep
  BY TableSteps
<1> QED
  BY <1>0, <1>1, <1>2, <1>3, <1>4, <1>5, <1>6, <1>7, <1>8 DEF TableStep

\* A digest enters a request only by hashing the file's object.
LEMMA HashEnters ==
    ASSUME TypeInv, [Next]_vars, NEW u \in Uploads, up'[u].pc = "markHashed"
    PROVE  \/ up'[u] = up[u]
           \/ /\ up[u].pc = "hash"
              /\ objects[ObjectKey(up[u].file)] # None
              /\ up'[u].hash = HashTool(objects[ObjectKey(up[u].file)])
<1> USE DEF TypeInv, TypeOK
<1>1. ASSUME NEW v \in Uploads, NEW label \in UploadPC \ {"markHashed"}, Goto(v, label)
      PROVE  up'[u] = up[u]
  BY <1>1 DEF Goto, UploadTypeOK
<1>2. ASSUME NEW v \in Uploads, NEW r, Answer(v, r)
      PROVE  up'[u] = up[u]
  BY <1>2 DEF Answer, UploadTypeOK
<1>3. ASSUME NEW v \in Uploads, NEW f \in FileId, NEW c \in Content, AcceptUpload(v, f, c)
      PROVE  up'[u] = up[u]
  BY <1>3 DEF AcceptUpload, UploadTypeOK
<1>4. ASSUME NEW v \in Uploads, HashObject(v)
      PROVE  \/ up'[u] = up[u]
             \/ /\ up[u].pc = "hash"
                /\ objects[ObjectKey(up[u].file)] # None
                /\ up'[u].hash = HashTool(objects[ObjectKey(up[u].file)])
  <2> DEFINE obj == objects[ObjectKey(up[v].file)]
  <2>1. CASE Goto(v, "markHashFailed")
    BY <1>1, <2>1 DEF UploadPC
  <2>2. ASSUME NEW h, up' = [up EXCEPT ![v] = [@ EXCEPT !.pc = "markHashed", !.hash = h]]
        PROVE  up'[u] = up[u] \/ (u = v /\ up'[u].hash = h)
    BY <2>2 DEF UploadTypeOK
  <2> QED
    BY <1>4, <2>1, <2>2 DEF HashObject
<1>5. CASE UploadCrash
  BY <1>5 DEF UploadCrash, UploadTypeOK
<1>6. ASSUME NEW v \in Uploads, UploadStep(v), ~HashObject(v)
      PROVE  up'[u] = up[u]
  <2>1. \/ \E label \in {"markStored", "markPutFailed", "hash"} : Goto(v, label)
        \/ \E r : Answer(v, r)
    BY <1>6 DEF UploadStep, PutObject, PutObjectFails, MarkPutFailed, MarkStored,
                MarkHashFailed, MarkHashed
  <2> QED
    BY <1>1, <1>2, <2>1 DEF UploadPC
<1>7. UploadNext => \/ UNCHANGED up
                    \/ \E v \in Uploads : \/ Answer(v, "rejected")
                                          \/ \E f \in FileId, c \in Content : AcceptUpload(v, f, c)
                                          \/ UploadStep(v)
  BY DEF UploadNext, CreateFile, RejectUpload
<1>8. UNCHANGED up \/ UploadNext \/ UploadCrash
  BY DEF Next, vars, Crash
<1> QED
  BY <1>2, <1>3, <1>4, <1>5, <1>6, <1>7, <1>8

LEMMA HashesStep ==
    ASSUME TypeInv, ObjectsOffered, HashesOffered, [Next]_vars
    PROVE  HashesOffered'
<1> SUFFICES ASSUME NEW u \in Uploads, up'[u].pc = "markHashed"
             PROVE  (\E c \in Offered(up[u].file) : up[u].hash = HashTool(c))'
  BY DEF HashesOffered
<1>1. up[u].pc \in {"hash", "markHashed"}
  BY HashEnters
<1>2. PICK f \in FileId : up[u].file = f
  BY <1>1 DEF TypeInv, UploadLocals
<1>3. up'[u].file = f
  BY <1>2, AcceptedStays
<1>4. \E c \in Offered(f) : up'[u].hash = HashTool(c)
  <2>1. CASE up'[u] = up[u]
    BY <1>2, <2>1 DEF HashesOffered
  <2>2. CASE /\ objects[ObjectKey(up[u].file)] # None
             /\ up'[u].hash = HashTool(objects[ObjectKey(up[u].file)])
    BY <1>2, <2>2 DEF ObjectsOffered
  <2> QED
    BY <2>1, <2>2, HashEnters
<1>5. \E c \in Offered(f)' : up'[u].hash = HashTool(c)
  BY <1>4, OfferedGrows
<1> QED
  BY <1>3, <1>5
LEMMA LateStep ==
    ASSUME TypeInv, LateOffered, [Next]_vars
    PROVE  LateOffered'
<1> SUFFICES ASSUME NEW w \in late', NEW f \in FileId, w[1] = ObjectKey(f)
             PROVE  w[2] \in Offered(f)
  BY OfferedGrows DEF LateOffered
<1>1. CASE w \in late
  BY <1>1 DEF LateOffered
<1>2. ASSUME NEW u \in Uploads, up[u].pc = "put",
             w = <<ObjectKey(up[u].file), up[u].content>>
      PROVE  w[2] \in Offered(f)
  <2>1. up[u].file \in FileId
    BY <1>2 DEF TypeInv, UploadLocals
  <2>2. up[u].file = f
    BY <1>2, <2>1, KeysDiffer
  <2> QED
    BY <1>2, <2>2 DEF Offered, Attempts
<1>3. \/ w \in late
      \/ \E u \in Uploads : up[u].pc = "put" /\ w = <<ObjectKey(up[u].file), up[u].content>>
  <2>1. CASE UploadNext
    BY <2>1 DEF UploadNext, UploadStep, CreateFile, RejectUpload, AcceptUpload, PutObject,
                PutObjectFails, MarkPutFailed, MarkStored, HashObject, MarkHashFailed,
                MarkHashed, storeVars
  <2>2. CASE CleanupNext
    BY <2>2 DEF CleanupNext, JobSelect, JobRemove, JobDelete, JobEnd, storeVars
  <2>3. CASE AdminNext
    BY <2>3 DEF AdminNext, AdminStep, DeleteSelect, DeleteRemove, DeleteDelete, SweepSelect,
                SweepRemove, SweepDelete, SweepEnd, storeVars
  <2>4. CASE DownloadNext
    BY <2>4 DEF DownloadNext, DownloadStep, CreateLink, VerifyToken, SelectForDownload,
                OpenObject, StreamObject, storeVars
  <2>5. CASE UploadCrash
    BY <2>5 DEF UploadCrash
  <2> QED
    BY <2>1, <2>2, <2>3, <2>4, <2>5 DEF Next, vars, storeVars, Tick, LateWrite, Crash
<1> QED
  BY <1>1, <1>2, <1>3

\* A content enters a download only by opening the file's object.
LEMMA ContentEnters ==
    ASSUME TypeInv, [Next]_vars, NEW d \in Downloads, dl'[d].content # None
    PROVE  /\ dl'[d].file = dl[d].file
           /\ \/ dl'[d].content = dl[d].content
              \/ /\ dl[d].file \in FileId
                 /\ dl'[d].content = objects[ObjectKey(dl[d].file)]
<1> USE DEF TypeInv, TypeOK
<1>1. CASE UNCHANGED dl
  BY <1>1
<1>2. ASSUME NEW e \in Downloads, NEW b, FinishDownload(e, b)
      PROVE  dl'[d].file = dl[d].file /\ dl'[d].content = dl[d].content
  BY <1>2 DEF FinishDownload, DownloadTypeOK
<1>3. ASSUME NEW e \in Downloads, NEW t \in tokens, VerifyToken(e, t)
      PROVE  dl'[d].file = dl[d].file /\ dl'[d].content = dl[d].content
  BY <1>3 DEF VerifyToken, DownloadTypeOK, DownloadLocals
<1>4. ASSUME NEW e \in Downloads, SelectForDownload(e)
      PROVE  dl'[d].file = dl[d].file /\ dl'[d].content = dl[d].content
  <2>1. ASSUME NEW n, dl' = [dl EXCEPT ![e] = [@ EXCEPT !.pc = "open", !.size = n]]
        PROVE  dl'[d].file = dl[d].file /\ dl'[d].content = dl[d].content
    BY <2>1 DEF DownloadTypeOK
  <2> QED
    BY <1>2, <1>4, <2>1 DEF SelectForDownload
<1>5. ASSUME NEW e \in Downloads, OpenObject(e)
      PROVE  /\ dl'[d].file = dl[d].file
             /\ \/ dl'[d].content = dl[d].content
                \/ /\ dl[d].file \in FileId
                   /\ dl'[d].content = objects[ObjectKey(dl[d].file)]
  <2>1. dl[e].file \in FileId
    BY <1>5 DEF OpenObject, DownloadLocals
  <2>2. ASSUME NEW c, dl' = [dl EXCEPT ![e] = [@ EXCEPT !.pc = "stream", !.content = c]]
        PROVE  /\ dl'[d].file = dl[d].file
               /\ dl'[d].content = dl[d].content \/ (d = e /\ dl'[d].content = c)
    BY <2>2 DEF DownloadTypeOK
  <2> QED
    BY <1>2, <1>5, <2>1, <2>2 DEF OpenObject
<1>6. ASSUME NEW e \in Downloads, StreamObject(e)
      PROVE  dl'[d].file = dl[d].file /\ dl'[d].content = dl[d].content
  BY <1>2, <1>6 DEF StreamObject
<1>7. CASE DownloadCrash
  BY <1>7 DEF DownloadCrash, DownloadTypeOK
<1>8. CASE DownloadNext
  <2>1. ASSUME NEW f \in FileId, NEW ttl \in RequestedTTL, CreateLink(f, ttl)
        PROVE  UNCHANGED dl
    BY <2>1 DEF CreateLink
  <2> QED
    BY <1>1, <1>3, <1>4, <1>5, <1>6, <1>8, <2>1 DEF DownloadNext, DownloadStep
<1>9. UNCHANGED dl \/ DownloadNext \/ DownloadCrash
  BY DEF Next, vars, Crash
<1> QED
  BY <1>1, <1>7, <1>8, <1>9

LEMMA StreamsStep ==
    ASSUME TypeInv, ObjectsOffered, StreamsOffered, [Next]_vars
    PROVE  StreamsOffered'
<1> SUFFICES ASSUME NEW d \in Downloads, dl'[d].content # None
             PROVE  (dl[d].content \in Offered(dl[d].file))'
  BY DEF StreamsOffered
<1>1. dl'[d].file = dl[d].file /\ dl'[d].content \in Offered(dl[d].file)
  BY ContentEnters DEF StreamsOffered, ObjectsOffered
<1>2. \A f \in FileId : Offered(f) \subseteq Offered(f)'
  BY OfferedGrows
<1>3. dl'[d].file \in FileId
  BY TypeStep DEF TypeInv, DownloadLocals
<1> QED
  BY <1>1, <1>2, <1>3
LEMMA ProvenanceInit == Init => Provenance
<1> SUFFICES ASSUME Init PROVE Provenance
  OBVIOUS
<1> USE DEF Init
<1>1. ObjectsOffered /\ LateOffered
  BY KeyType DEF StoreInit, ObjectsOffered, LateOffered
<1>2. HashesOffered
  BY DEF UploadInit, HashesOffered
<1>3. StreamsOffered
  BY DEF DownloadInit, StreamsOffered
<1>4. RowsOffered
  BY DEF StoreInit, NoRow, RowsOffered, Downloadable
<1> QED
  BY <1>1, <1>2, <1>3, <1>4 DEF Provenance

LEMMA ProvenanceStep == TypeInv /\ Provenance /\ [Next]_vars => Provenance'
<1> SUFFICES ASSUME TypeInv, Provenance, [Next]_vars PROVE Provenance'
  OBVIOUS
<1> USE DEF Provenance
<1>1. ObjectsOffered'
  BY ObjectsStep, OfferedGrows DEF ObjectsOffered
<1> QED
  BY <1>1, LateStep, HashesStep, StreamsStep, RowsStep

LEMMA ProvenanceInvariant == Spec => [](TypeInv /\ Provenance)
BY TypeInit, TypeStep, ProvenanceInit, ProvenanceStep, PTL DEF Spec

\* The digest of a downloadable row is that of a body an accepted upload of the
\* same file sent, and no other row has one, however requests interleave, fail
\* or crash.
THEOREM DigestsAreAuthentic == Spec => []HashAuthentic
<1>1. Provenance => HashAuthentic
  BY DEF Provenance, RowsOffered, HashAuthentic, Offered
<1> QED
  BY <1>1, ProvenanceInvariant, PTL

\* When the accepted uploads sent the same bytes, no other body was offered.
LEMMA OneBodyOffer ==
    ASSUME NEW f \in FileId, OneBody(f), NEW b \in Offered(f), NEW c \in Offered(f)
    PROVE  b = c
BY DEF OneBody, Offered

\* Digest and object agree, however many uploads of the same bytes raced.
THEOREM DigestsMatchObjects == Spec => []HashMatchesObject
<1>1. TypeInv /\ Provenance => HashMatchesObject
  <2> SUFFICES ASSUME Provenance, NEW f \in FileId, OneBody(f),
                      files[f].status \in Downloadable, objects[ObjectKey(f)] # None
               PROVE  files[f].hash = HashTool(objects[ObjectKey(f)])
    BY DEF HashMatchesObject
  <2>1. objects[ObjectKey(f)] \in Offered(f)
    BY DEF Provenance, ObjectsOffered
  <2>2. PICK c \in Offered(f) : files[f].hash = HashTool(c)
    BY DEF Provenance, RowsOffered
  <2> QED
    BY <2>1, <2>2, OneBodyOffer
<1> QED
  BY <1>1, ProvenanceInvariant, PTL

\* A whole body served is the one the row's digest is of, however many uploads of
\* the same bytes raced.
THEOREM DownloadsMatchRecords == Spec => []ServedMatchesRecord
<1>1. TypeInv /\ Provenance => ServedMatchesRecord
  <2> SUFFICES ASSUME TypeInv, Provenance, NEW d \in Downloads, dl[d].body = "full",
                      OneBody(dl[d].file), files[dl[d].file].status \in Downloadable
               PROVE  files[dl[d].file].hash = HashTool(dl[d].content)
    BY DEF ServedMatchesRecord
  <2>1. dl[d].content # None
    BY NoneAssumption DEF TypeInv, DownloadLocals
  <2>2. dl[d].file \in FileId
    BY <2>1 DEF TypeInv, DownloadLocals
  <2>3. dl[d].content \in Offered(dl[d].file)
    BY <2>1 DEF Provenance, StreamsOffered
  <2>4. PICK c \in Offered(dl[d].file) : files[dl[d].file].hash = HashTool(c)
    BY <2>2 DEF Provenance, RowsOffered
  <2> QED
    BY <2>2, <2>3, <2>4, OneBodyOffer
<1> QED
  BY <1>1, ProvenanceInvariant, PTL
=============================================================================
