------------------------------- MODULE Upload -------------------------------
(***************************************************************************)
(* POST /files (createFileHandler) and POST /upload (uploadHandler): the   *)
(* two requests that bring a file into the system. An upload request is a  *)
(* process: every call it makes to the database or the object store is a   *)
(* step, and other requests run between its steps.                         *)
(***************************************************************************)
EXTENDS Store

CONSTANTS
    Uploads,        \* upload requests
    DeclaredSize,   \* values of size_bytes clients declare
    MaxUploadBytes, \* SFD_MAX_UPLOAD_BYTES, 0 or less for no limit
    Framing         \* bytes of multipart framing around a content

ASSUME UploadAssumption ==
    DeclaredSize \subseteq Int /\ MaxUploadBytes \in Int /\ Framing \in Nat

VARIABLE up         \* locals and reply of each upload request

UploadPC == {"idle", "put", "markPutFailed", "markStored", "hash",
             "markHashFailed", "markHashed", "done"}
UploadReply == {"none", "rejected", "upload failed", "db error",
                "hashing failed", "hashed"}

UploadTypeOK ==
    up \in [Uploads -> [pc : UploadPC, file : FileId \cup {None},
                        content : Content \cup {None},
                        hash : HashResult \cup {None}, reply : UploadReply]]

UploadInit ==
    up = [u \in Uploads |-> [pc |-> "idle", file |-> None, content |-> None,
                             hash |-> None, reply |-> "none"]]

\* The requests that passed the status check for f, finished or not.
Attempts(f) == {u \in Uploads : up[u].file = f}

\* Every request that passed the status check for f sent the same bytes.
OneBody(f) == \A u, v \in Attempts(f) : up[u].content = up[v].content

Goto(u, label) == up' = [up EXCEPT ![u].pc = label]
Answer(u, r) ==
    up' = [up EXCEPT ![u] = [@ EXCEPT !.pc = "done", !.hash = None, !.reply = r]]

\* Mutant of TooLarge: the limit is compared with the length of the file part.
TooLargePart(c) == MaxUploadBytes > 0 /\ SizeOf[c] > MaxUploadBytes

\* http.MaxBytesReader cuts the whole request body, framing included, off.
TooLarge(c) == MaxUploadBytes > 0 /\ SizeOf[c] + Framing > MaxUploadBytes

-----------------------------------------------------------------------------
\* Mutant of CreateFile: a negative size is not refused.
CreateFileAnySize(f, size) ==
    /\ f \notin issued
    /\ issued' = issued \cup {f}
    /\ files' = [files EXCEPT ![f] = [status |-> "pending", hash |-> None,
                                      size |-> size, created |-> now]]
    /\ UNCHANGED <<objects, late, now, up>>

\* createFileHandler: INSERT of a pending row under a fresh id.
CreateFile(f, size) ==
    /\ f \notin issued
    /\ size >= 0
    /\ issued' = issued \cup {f}
    /\ \E o \in Outcomes("db") :
          files' = IF Applied(o)
                   THEN [files EXCEPT ![f] = [status |-> "pending", hash |-> None,
                                              size |-> size, created |-> now]]
                   ELSE files
    /\ UNCHANGED <<objects, late, now, up>>

\* uploadHandler up to PutObject: bad input, the SELECT and its status check,
\* the search for the multipart field "file". Nothing is written before Put.
RejectUpload(u) ==
    /\ up[u].pc = "idle"
    /\ Answer(u, "rejected")
    /\ UNCHANGED storeVars

AcceptUpload(u, f, c) ==
    /\ up[u].pc = "idle"
    /\ files[f].status = "pending"
    /\ up' = [up EXCEPT ![u] = [@ EXCEPT !.pc = "put", !.file = f, !.content = c]]
    /\ UNCHANGED storeVars

PutMayFail == Faults \cap {"store", "client"} # {}

\* PutObject succeeds: the object is in the bucket.
PutObject(u) ==
    /\ up[u].pc = "put"
    /\ ~TooLarge(up[u].content)
    /\ objects' = [objects EXCEPT ![ObjectKey(up[u].file)] = up[u].content]
    /\ Goto(u, "markStored")
    /\ UNCHANGED <<files, late, issued, now>>

\* PutObject fails: body too large, or a storage error or a lost client (whose
\* context is the request's) with the object not written, written, or written
\* only after the error was reported.
PutObjectFails(u) ==
    /\ up[u].pc = "put"
    /\ \/ /\ TooLarge(up[u].content) \/ PutMayFail
          /\ UNCHANGED <<objects, late>>
       \/ /\ ~TooLarge(up[u].content) /\ PutMayFail
          /\ \/ /\ objects' = [objects EXCEPT ![ObjectKey(up[u].file)] = up[u].content]
                /\ UNCHANGED late
             \/ /\ late' = late \cup {<<ObjectKey(up[u].file), up[u].content>>}
                /\ UNCHANGED objects
    /\ Goto(u, "markPutFailed")
    /\ UNCHANGED <<files, issued, now>>

\* UPDATE ... 'failed' WHERE 'pending', its error ignored; 413 or 502.
MarkPutFailed(u) ==
    /\ up[u].pc = "markPutFailed"
    /\ \E o \in Outcomes("db") :
          files' = IF Applied(o) THEN SetStatusWhere(up[u].file, "pending", "failed")
                                 ELSE files
    /\ Answer(u, "upload failed")
    /\ UNCHANGED <<objects, late, issued, now>>

\* Mutant of MarkStored: the error of the UPDATE is ignored.
MarkStoredUnchecked(u) ==
    /\ up[u].pc = "markStored"
    /\ \E o \in Outcomes("db") :
          files' = IF Applied(o) THEN SetStatusWhere(up[u].file, "pending", "stored")
                                 ELSE files
    /\ Goto(u, "hash")
    /\ UNCHANGED <<objects, late, issued, now>>

\* UPDATE ... 'stored' WHERE 'pending'; the number of rows is not looked at.
MarkStored(u) ==
    /\ up[u].pc = "markStored"
    /\ \E o \in Outcomes("db") :
          /\ files' = IF Applied(o) THEN SetStatusWhere(up[u].file, "pending", "stored")
                                    ELSE files
          /\ IF Failed(o) THEN Answer(u, "db error") ELSE Goto(u, "hash")
    /\ UNCHANGED <<objects, late, issued, now>>

\* Mutants of HashObject: an error while copying is ignored, and a part of the
\* object is hashed; a missing object is waited for.
HashPartOfObject(u) ==
    /\ up[u].pc = "hash"
    /\ objects[ObjectKey(up[u].file)] # None
    /\ \E c \in Content :
          up' = [up EXCEPT ![u].pc = "markHashed", ![u].hash = HashTool(c)]
    /\ UNCHANGED storeVars
HashWhenPresent(u) ==
    /\ up[u].pc = "hash"
    /\ objects[ObjectKey(up[u].file)] # None
    /\ up' = [up EXCEPT ![u].pc = "markHashed",
                        ![u].hash = HashTool(objects[ObjectKey(up[u].file)])]
    /\ UNCHANGED storeVars

\* sha256FromMinioObject: read whatever the object is by now and hash it.
HashObject(u) ==
    /\ up[u].pc = "hash"
    /\ LET obj == objects[ObjectKey(up[u].file)]
       IN  \/ /\ obj # None
              /\ up' = [up EXCEPT ![u] = [@ EXCEPT !.pc = "markHashed", !.hash = HashTool(obj)]]
           \/ /\ obj = None \/ "store" \in Faults
              /\ Goto(u, "markHashFailed")
    /\ UNCHANGED storeVars

\* UPDATE ... 'failed' WHERE 'stored', its error ignored; 502.
MarkHashFailed(u) ==
    /\ up[u].pc = "markHashFailed"
    /\ \E o \in Outcomes("db") :
          files' = IF Applied(o) THEN SetStatusWhere(up[u].file, "stored", "failed")
                                 ELSE files
    /\ Answer(u, "hashing failed")
    /\ UNCHANGED <<objects, late, issued, now>>

\* Mutant of MarkHashed: the error of the UPDATE is ignored.
MarkHashedUnchecked(u) ==
    /\ up[u].pc = "markHashed"
    /\ \E o \in Outcomes("db") :
          files' = IF Applied(o) THEN SetHashWhere(up[u].file, up[u].hash) ELSE files
    /\ Answer(u, "hashed")
    /\ UNCHANGED <<objects, late, issued, now>>

\* UPDATE ... digest, 'hashed' WHERE 'stored'; 200 whatever number of rows.
MarkHashed(u) ==
    /\ up[u].pc = "markHashed"
    /\ \E o \in Outcomes("db") :
          /\ files' = IF Applied(o) THEN SetHashWhere(up[u].file, up[u].hash) ELSE files
          /\ Answer(u, IF Failed(o) THEN "db error" ELSE "hashed")
    /\ UNCHANGED <<objects, late, issued, now>>

\* The steps of a request after it was accepted.
UploadStep(u) ==
    \/ PutObject(u)      \/ PutObjectFails(u)  \/ MarkPutFailed(u)
    \/ MarkStored(u)     \/ HashObject(u)
    \/ MarkHashFailed(u) \/ MarkHashed(u)

UploadNext ==
    \/ \E f \in FileId, size \in DeclaredSize : CreateFile(f, size)
    \/ \E u \in Uploads : \/ RejectUpload(u)
                          \/ \E f \in FileId, c \in Content : AcceptUpload(u, f, c)
                          \/ UploadStep(u)

\* The process dies: requests are gone, a put on its way may still be carried out.
UploadCrash ==
    /\ up' = [u \in Uploads |-> IF up[u].pc \in {"idle", "done"} THEN up[u]
                                ELSE [up[u] EXCEPT !.pc = "done", !.hash = None]]
    /\ \E S \in SUBSET {u \in Uploads : up[u].pc = "put" /\ ~TooLarge(up[u].content)} :
          late' = late \cup {<<ObjectKey(up[u].file), up[u].content>> : u \in S}
=============================================================================
