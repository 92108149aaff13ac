------------------------------ MODULE FileDrop ------------------------------
(***************************************************************************)
(* The backend process: upload, admin and download requests, the cleanup   *)
(* goroutine and crashes, interleaved over one database and one bucket.    *)
(***************************************************************************)
EXTENDS Upload, Cleanup, Admin, Download

CONSTANTS
    MaxCrashes,     \* bound on crashes of the process
    Undeletable     \* the rows whose DELETE the database may refuse every time

ASSUME CrashAssumption == MaxCrashes \in Nat /\ Undeletable \subseteq FileId

VARIABLE crashes        \* crashes so far

vars == <<storeVars, up, job, adm, tokens, dl, crashes>>

Init ==
    /\ StoreInit /\ UploadInit /\ CleanupInit /\ AdminInit /\ DownloadInit
    /\ crashes = 0

\* The process is killed and restarted; database and bucket live on.
Crash ==
    /\ crashes < MaxCrashes
    /\ crashes' = crashes + 1
    /\ UploadCrash /\ CleanupCrash /\ AdminCrash /\ DownloadCrash
    /\ UNCHANGED <<files, objects, issued, now>>

Next ==
    \/ UploadNext         /\ UNCHANGED <<job, adm, tokens, dl, crashes>>
    \/ CleanupNext        /\ UNCHANGED <<up, adm, tokens, dl, crashes>>
    \/ AdminNext          /\ UNCHANGED <<up, job, tokens, dl, crashes>>
    \/ DownloadNext       /\ UNCHANGED <<up, job, adm, crashes>>
    \/ LateWrite          /\ UNCHANGED <<up, job, adm, tokens, dl, crashes>>
    \/ Tick               /\ UNCHANGED <<up, job, adm, tokens, dl, crashes>>
    \/ Crash

Spec == Init /\ [][Next]_vars

\* Requests run on goroutines of their own, and their calls to the database, the
\* object store and the hash tool end, with an answer or an error. Nothing is
\* assumed of a client: PutObject waits for the request's body and io.Copy for
\* the client to read, and the server sets no timeout on either.
RequestFairness ==
    /\ \A u \in Uploads   : WF_vars(/\ up[u].pc # "put" /\ UploadStep(u)
                                    /\ UNCHANGED <<job, adm, tokens, dl, crashes>>)
    /\ \A a \in Admins    : WF_vars(AdminStep(a) /\ UNCHANGED <<up, job, tokens, dl, crashes>>)
    /\ \A d \in Downloads : WF_vars(/\ dl[d].pc # "stream" /\ DownloadStep(d)
                                    /\ UNCHANGED <<up, job, adm, crashes>>)

\* The ticker fires again and again. The database does not break the job's cursor
\* before a row, nor refuse its DELETE, for ever, but for the Undeletable ones.
CleanupFairness ==
    /\ WF_vars(CleanupNext /\ UNCHANGED <<up, adm, tokens, dl, crashes>>)
    /\ \A f \in FileId \ Undeletable :
          /\ SF_vars(JobRemove(f) /\ UNCHANGED <<up, adm, tokens, dl, crashes>>)
          /\ SF_vars(job.cur = f /\ JobDelete("ok") /\ UNCHANGED <<up, adm, tokens, dl, crashes>>)

FairSpec == Spec /\ RequestFairness /\ CleanupFairness
-----------------------------------------------------------------------------
(* Safety. *)

\* Every variable has its type: rows, objects and the locals of each request.
TypeOK ==
    /\ StoreTypeOK /\ UploadTypeOK /\ CleanupTypeOK /\ AdminTypeOK /\ DownloadTypeOK
    /\ crashes \in Nat

\* A row carries a digest exactly while it is downloadable, and the digest and
\* byte count are those of a body that some accepted upload of this very file
\* sent, whatever uploads, late writes, crashes and sweeps ran in between
\* (uploadHandler's three conditional UPDATEs).
HashAuthentic ==
    \A f \in FileId :
        IF files[f].status \in Downloadable
        THEN \E u \in Attempts(f) : files[f].hash = HashTool(up[u].content)
        ELSE files[f].hash = None

\* The recorded digest is that of the object in the bucket, however many requests
\* race for the file, as long as they all send the same bytes (a client's retries):
\* no sweep, failed put, late write or crash leaves a digest beside an object that
\* it does not belong to.
HashMatchesObject ==
    \A f \in FileId :
        (/\ OneBody(f)
         /\ files[f].status \in Downloadable
         /\ objects[ObjectKey(f)] # None)
            => files[f].hash = HashTool(objects[ObjectKey(f)])

\* A downloadable file not older than MaxAge has its object: no sweep can take
\* the object of a row that is still young (the cutoff of runCleanup).
YoungFileHasObject ==
    \A f \in FileId :
        (files[f].status \in Downloadable /\ files[f].created >= now - MaxAge)
            => objects[ObjectKey(f)] # None

\* A client told "hashed" finds the row hashed, or deleted since: never pending
\* or stored, though uploadHandler does not look at the number of rows its UPDATEs
\* changed. It finds the row failed only if another upload of the file was told
\* of its failure.
HashedReplyTruthful ==
    \A u \in Uploads :
        up[u].reply = "hashed" =>
            \/ files[up[u].file].status \in {"hashed", "absent"}
            \/ /\ files[up[u].file].status = "failed"
               /\ \E v \in Attempts(up[u].file) :
                     up[v].reply \in {"upload failed", "hashing failed"}

\* The file of every token ever signed is downloadable or deleted: a link never
\* leads back to a file in an earlier state (createLinkHandler's status check
\* with the conditional UPDATEs of other requests).
LinkedFileHashed ==
    \A t \in tokens : files[t.file].status \in {"hashed", "absent"}

\* A body that downloadHandler delivers in full is the one whose digest the row
\* records, although the handler reads row and object at different times, as
\* long as the uploads accepted for the file sent the same bytes.
ServedMatchesRecord ==
    \A d \in Downloads :
        (/\ dl[d].body = "full"
         /\ OneBody(dl[d].file)
         /\ files[dl[d].file].status \in Downloadable)
            => files[dl[d].file].hash = HashTool(dl[d].content)

\* A client that declared the true size of its file is never served a part of it
\* that looks complete: with the Content-Length of a row that counts as many bytes
\* as its digest, a failing or replaced object shows as a broken response.
NoSilentTruncation ==
    \A d \in Downloads :
        LET row == files[dl[d].file]
        IN  (/\ dl[d].file # None
             /\ row.status \in Downloadable
             /\ row.size = row.hash.bytes /\ row.size > 0
             /\ OneBody(dl[d].file))
                => dl[d].body # "cut"

\* No object came in a request over the upload limit, late writes included: the
\* limit of MaxBytesReader is on the whole body, framing and file.
NoOversizedObject ==
    \A k \in Key :
        (objects[k] # None /\ MaxUploadBytes > 0) => SizeOf[objects[k]] + Framing <= MaxUploadBytes

\* A row that vanishes by anything but an admin's delete is older than MaxAge,
\* however long ago the sweep that deletes it selected it.
SweepsOnlyExpired ==
    [][\A f \in FileId :
          (/\ files[f].status # "absent" /\ files'[f].status = "absent"
           /\ ~ \E a \in Admins : adm[a].pc = "delete" /\ adm[a].cur = f /\ adm'[a].pc = "done")
              => files[f].created < now - MaxAge]_vars

\* After an admin delete answered 204 the row never comes back, whatever the
\* uploads of that file that were under way do (AdminDeleteFileHandler).
AdminDeleteFinal ==
    \A a \in Admins : adm[a].reply = "deleted" => files[adm[a].cur].status = "absent"

\* The record of each file follows the lifecycle of FileLifecycle.
Lifecycle == INSTANCE FileLifecycle WITH
    HashOf  <- HashTool,
    status  <- [f \in FileId |-> files[f].status],
    hash    <- [f \in FileId |-> files[f].hash],
    offered <- [f \in FileId |-> {up[u].content : u \in Attempts(f)}]

\* Every step of the backend is a step of FileLifecycle on each file's record:
\* ids are used once, states move forward only, a digest is written once.
ImplementsLifecycle == Lifecycle!Spec

-----------------------------------------------------------------------------
(* Liveness, under FairSpec. *)

\* An upload whose PutObject returned is answered, or its process crashed: no
\* sweep, delete or racing upload of its file keeps it from its reply. (Before
\* that a client that stops sending keeps the request, for ever if it likes.)
UploadAnswered == \A u \in Uploads : up[u].pc \notin {"idle", "put"} ~> up[u].pc = "done"

\* The job's SELECT may return nothing but rows that it cannot delete: a whole
\* batch of them is as old as f.
Crowded(f) ==
    BatchLimit <= Cardinality({g \in Undeletable \ {f} :
                                  Reclaimable(g) /\ files[g].created <= files[f].created})

\* An expired pending or failed row does not stay: it is deleted, or an upload
\* moves it on, unless a whole batch of undeletable rows keeps it from its turn.
ExpiredReclaimed ==
    \A f \in FileId \ Undeletable : Reclaimable(f) ~> ~Reclaimable(f) \/ Crowded(f)

\* A row that stays "stored" for ever is never silent: the upload that left it
\* there ended with its crash or with an error, and of the others none was told
\* "hashed", but for those whose client has not sent its body yet.
StoredNeverSilent ==
    \A f \in FileId :
        files[f].status = "stored"
            ~> \/ files[f].status # "stored"
               \/ /\ \E u \in Attempts(f) : up[u].pc = "done"
                  /\ \A u \in Attempts(f) : up[u].pc \in {"put", "done"} /\ up[u].reply # "hashed"

\* A row does not stay "stored" for ever.
StoredResolved == \A f \in FileId : files[f].status = "stored" ~> files[f].status # "stored"
-----------------------------------------------------------------------------
(* What the repository's documents and comments say and the code does not do. *)

\* schema.sql: sha256_hex is the "SHA-256 of the stored file", of every
\* downloadable file whose object is there.
HashOfStoredFile ==
    \A f \in FileId :
        (files[f].status \in Downloadable /\ objects[ObjectKey(f)] # None)
            => files[f].hash = HashTool(objects[ObjectKey(f)])

\* FINAL_REVIEW.md: the cleanup job deletes rows in pending and failed only.
CleanupSparesUploaded ==
    [][\A f \in FileId :
          (job.pc = "delete" /\ job.cur = f /\ job'.pc = "rows" /\ files'[f] # files[f])
              => files[f].status \in {"pending", "failed"}]_vars

\* admin.go: an admin delete removes the file from MinIO: once RemoveObject has
\* succeeded the file's object is gone.
AdminRemovesObject ==
    [][\A a \in Admins :
          (adm[a].pc = "remove" /\ adm'[a].pc = "delete")
              => objects'[ObjectKey(adm[a].cur)] = None]_vars
=============================================================================
